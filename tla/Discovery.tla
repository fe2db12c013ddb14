------------------------------- MODULE Discovery -------------------------------
(***************************************************************************)
(* `find_device` of src/src/c_interface.rs, the tool                       *)
(* src/src/bin/bcast_cmd.rs and the `bcast_cmd` of src/src/ctrl_msg.rs     *)
(* that both call, from the same port as the calls of send_cmd (SendCmd):  *)
(* one command goes to every device, and every reply that arrives before   *)
(* a receive times out is an answer - no id is compared.  find_device      *)
(* lists the answers in an array of the caller; the tool prints them and   *)
(* goes on with the next command of its file, whatever they are.           *)
(***************************************************************************)
EXTENDS SendCmd

CONSTANTS
  Query,      \* the command of find_device
  MaxN,       \* bound: slots of the caller's array
  MaxReply    \* bound: replies that arrive while one bcast_cmd listens

ASSUME DiscoveryAssumption ==
  /\ Query \in Cmds
  /\ MaxN \in Nat
  /\ MaxReply \in Nat

VARIABLES
  max_n,     \* the argument
  result,    \* the caller's array; None: a slot not written
  nresult    \* the number of results

listVars == <<max_n, result, nresult>>
discVars == <<vars, listVars>>

DiscInit ==
  /\ Init
  /\ max_n = 0 /\ result = <<>> /\ nresult = 0

-----------------------------------------------------------------------------
(* bcast_cmd.                                                              *)

\* bcast_cmd is called: command c is on its way to all devices under one id.
Broadcast(c) ==
  /\ phase = "idle"
  /\ call < MaxCall
  /\ call' = call + 1
  /\ cmd' = c
  /\ normal_reply' = <<>> /\ invalid_reply' = <<>> /\ no_reply' = {}
  /\ msg_set' = {} /\ addr_msg_id_map' = <<>>
  /\ \E id \in Ids :
       /\ FreshId(id)
       /\ reqs' = reqs \cup {SetMsgId(c, id, d, call') : d \in Devices}
  /\ phase' = "bdrain"
  /\ UNCHANGED <<next, reps, executed, doneVars>>

\* A call of find_device.
FindDevice ==
  /\ Broadcast(Query)
  /\ max_n' \in 0 .. MaxN
  /\ result' = [i \in 1 .. max_n' |-> None]
  /\ nresult' = 0

\* The tool broadcasts the next command of its file.
BroadcastNext ==
  /\ \E c \in Cmds \ {Query} : Broadcast(c)
  /\ UNCHANGED listVars

\* The non-blocking receive finds nothing: block from now on.
BcastWouldBlock ==
  /\ phase = "bdrain"
  /\ phase' = "bwait"
  /\ UNCHANGED <<callVars, next, msg_set, addr_msg_id_map, summaryVars, netVars,
                 executed, doneVars, listVars>>

\* Any reply is recorded, and the receive starts over.
BcastReceive ==
  /\ phase \in {"bdrain", "bwait"}
  /\ Len(normal_reply) + Len(invalid_reply) < MaxReply
  /\ \E r \in reps :
       /\ reps' \in Consume(reps, r)
       /\ Record(r)
  /\ UNCHANGED <<phase, callVars, next, msg_set, addr_msg_id_map, no_reply, reqs,
                 executed, doneVars, listVars>>

\* CtrlMsg::read fails, or the socket cannot be bound, sent to or made blocking: expect()
\* panics.  (The devices serve nobody after a panic, so it does not matter that the
\* requests are on their way already.)
BcastFails ==
  /\ \/ phase \in {"bdrain", "bwait"} /\ "garbage" \in Faults
     \/ phase = "bdrain" /\ "socket" \in Faults
  /\ phase' = "expect"
  /\ UNCHANGED <<callVars, next, msg_set, addr_msg_id_map, summaryVars, netVars,
                 executed, doneVars, listVars>>

BcastMayTimeOut_Never == FALSE
BcastMayTimeOut == phase = "bwait"

\* A receive times out: the summary is returned, and find_device goes on with it; the
\* tool prints it.  Who else might answer is not known.
BcastTimedOut ==
  /\ phase = "bwait"
  /\ BcastMayTimeOut
  /\ phase' = IF cmd = Query THEN "list" ELSE "idle"
  /\ unanswered' = TRUE
  /\ UNCHANGED <<callVars, next, msg_set, addr_msg_id_map, summaryVars, netVars,
                 executed, confirmed, listVars>>

-----------------------------------------------------------------------------
(* The loop of find_device over the normal replies.                        *)

IsLast_Late(n) == n > max_n
IsLast(n) == n >= max_n

\* One turn: the reply is counted first; the break comes before its slot is written.
ListReply ==
  /\ phase = "list"
  /\ nresult < Len(normal_reply)
  /\ nresult' = nresult + 1
  /\ \/ /\ IsLast(nresult')
        /\ phase' = "idle"
        /\ UNCHANGED result
     \/ /\ ~ IsLast(nresult')
        /\ result' = [result EXCEPT ![nresult'] = normal_reply[nresult'].dev]
        /\ UNCHANGED phase
  /\ UNCHANGED <<callVars, next, msg_set, addr_msg_id_map, summaryVars, netVars,
                 executed, doneVars, max_n>>

ListEnd ==
  /\ phase = "list"
  /\ nresult = Len(normal_reply)
  /\ phase' = "idle"
  /\ UNCHANGED <<callVars, next, msg_set, addr_msg_id_map, summaryVars, netVars,
                 executed, doneVars, listVars>>

Finding ==
  BcastWouldBlock \/ BcastReceive \/ BcastTimedOut \/ ListReply \/ ListEnd

\* Query is for find_device alone; send_cmd and the tool send other commands, in any order.
DiscNext ==
  \/ FindDevice \/ BroadcastNext \/ Finding \/ BcastFails
  \/ Call /\ cmd' # Query /\ UNCHANGED listVars
  \/ (Client \/ ExpectFails \/ Serve \/ Stopped) /\ UNCHANGED listVars

DiscSpec == DiscInit /\ [][DiscNext]_discVars

\* The caller's thread is scheduled, and the clock that ends its receives runs.
FairDiscSpec == DiscSpec /\ WF_discVars(Finding \/ (Client /\ UNCHANGED listVars))

-----------------------------------------------------------------------------
(* Properties.                                                             *)

FindPhases == {"bdrain", "bwait", "list"}

DiscTypeOK ==
  /\ TablesOK
  /\ phase \in SendPhases \cup FindPhases
  /\ max_n \in 0 .. MaxN
  /\ result \in [1 .. max_n -> Devices \cup {None}]
  /\ nresult \in 0 .. MaxReply

\* What find_device returns is consistent: it never reports more than max_n results
\* (one, for an array without slots), every slot below the last reported one holds
\* the address of an answer, in the order of arrival, nothing behind is written, and
\* an answer is left out only if the array is full.
FoundAnswers ==
  phase = "idle" /\ cmd = Query =>
    /\ nresult <= max_n \/ (max_n = 0 /\ nresult = 1)
    /\ \A i \in 1 .. max_n :
         /\ i < nresult => result[i] = normal_reply[i].dev
         /\ i > nresult => result[i] = None
    /\ nresult < max_n => nresult = Len(normal_reply)

\* With finitely many replies bcast_cmd ends, although every reply restarts its
\* receive timeout, and so does find_device: by its result or by a panic.
FindEnds == (phase = "bdrain") ~> (phase = "idle" \/ Panicked)

=============================================================================
