----------------------------- MODULE MCDiscovery -----------------------------
(* Discovery on two devices, with commands sent to one of them. *)
EXTENDS Discovery, TLC

CONSTANTS d1, d2

OneTarget  == <<d1>>
SameTwice  == <<d1, d1>>

\* Message ids are only ever compared for equality.
IdSymmetry == Permutations(Ids)

=============================================================================
