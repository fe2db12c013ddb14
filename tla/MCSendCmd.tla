------------------------------ MODULE MCSendCmd ------------------------------
(* SendCmd on small instances: lists of targets and symmetry for the .cfg files. *)
EXTENDS SendCmd, TLC

CONSTANTS d1, d2

OneTarget  == <<d1>>
TwoTargets == <<d1, d2>>

\* Message ids are only ever compared for equality.
IdSymmetry == Permutations(Ids)

=============================================================================
