------------------------------ MODULE RemoteCall ------------------------------
(***************************************************************************)
(* What an application may count on when it calls send_cmd again and again *)
(* from one port, without sockets, ids or replies: a command is executed   *)
(* during its call or, if a call was not answered, at any time later, or   *)
(* never; what a summary confirms was executed; and only after a call that *)
(* was not answered can a later one fail the assertion of send_cmd.        *)
(***************************************************************************)
EXTENDS Naturals, Sequences

CONSTANTS Devices, MaxCall

VARIABLES
  phase,       \* "idle", "calling", or the panic: "assert", "expect"
  call,        \* number of the current call, or of the last one
  pending,     \* <<device, call>>: commands that may still be executed
  executed,    \* per device: the calls it executed, in their order
  confirmed,   \* <<device, call>>: executions reported
  unanswered   \* some call was not answered by all

vars == <<phase, call, pending, executed, confirmed, unanswered>>

Init ==
  /\ phase = "idle" /\ call = 0
  /\ pending = {} /\ executed = [d \in Devices |-> <<>>]
  /\ confirmed = {} /\ unanswered = FALSE

Seen(d) == {executed[d][i] : i \in 1 .. Len(executed[d])}

Begin ==
  /\ phase = "idle" /\ phase' = "calling"
  /\ call < MaxCall /\ call' = call + 1
  /\ \E targets \in SUBSET Devices : pending' = pending \cup targets \X {call'}
  /\ UNCHANGED <<executed, confirmed, unanswered>>

Execute ==
  /\ \E p \in pending :
       /\ p[2] \notin Seen(p[1])
       /\ executed' = [executed EXCEPT ![p[1]] = Append(@, p[2])]
       /\ pending' \in {pending, pending \ {p}}
  /\ UNCHANGED <<phase, call, confirmed, unanswered>>

\* The device does not know the command, or has executed it before.
Discard ==
  /\ \E p \in pending : pending' = pending \ {p}
  /\ UNCHANGED <<phase, call, executed, confirmed, unanswered>>

Return ==
  /\ phase = "calling" /\ phase' = "idle"
  /\ \E replied \in SUBSET {d \in Devices : call \in Seen(d)} :
       confirmed' = confirmed \cup replied \X {call}
  /\ unanswered' \in {unanswered, TRUE}
  /\ unanswered' \/ pending = {}
  /\ UNCHANGED <<call, pending, executed>>

StaleReply == unanswered /\ phase = "calling" /\ phase' = "assert"

\* A reply cannot be decoded, or the socket fails.
BadReply == phase = "calling" /\ phase' = "expect"

\* What was not sent yet never will be.
Panic ==
  /\ StaleReply \/ BadReply
  /\ pending' \subseteq pending
  /\ UNCHANGED <<call, executed, confirmed, unanswered>>

Next == Begin \/ Execute \/ Discard \/ Return \/ Panic

Spec == Init /\ [][Next]_vars

=============================================================================
