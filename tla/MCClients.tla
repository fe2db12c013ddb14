------------------------------ MODULE MCClients ------------------------------
(* Clients on two targets: the tool with a file that the devices understand and *)
(* one with a command in it that they do not, careless programs with two        *)
(* commands of which they understand both or one.                               *)
EXTENDS Clients, TLC

CONSTANTS d1, d2, start, query, stop, mystery

TwoTargets == <<d1, d2>>

Files == {<<start, query, stop>>, <<start, mystery, stop>>}
Lists == {<<start, stop, start>>, <<mystery, start>>}

Runs == [careful : {TRUE}, script : Files] \cup [careful : {FALSE}, script : Lists]

\* Message ids are only ever compared for equality.
IdSymmetry == Permutations(Ids)

=============================================================================
