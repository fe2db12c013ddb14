-------------------------------- MODULE SendCmd --------------------------------
(***************************************************************************)
(* The control protocol: `send_cmd` of src/src/ctrl_msg.rs, called again   *)
(* and again from one local address, and devices that answer like          *)
(* src/src/bin/dummy_server.rs.  A call binds the port, sends its command  *)
(* to every target under a random message id of its own, and collects      *)
(* replies until all ids are answered or a receive times out.              *)
(*                                                                         *)
(* Requests and replies travel as UDP datagrams: they arrive in any order, *)
(* late - even during a later call, which binds the same port - or never.  *)
(* A datagram in the socket's buffer is not told from one on its way, so a *)
(* receive may find any reply, or none.                                    *)
(***************************************************************************)
EXTENDS Naturals, Sequences, FiniteSets

CONSTANTS
  Devices,   \* addresses of devices
  Targets,   \* the `targets` of the calls: a sequence of devices
  Cmds,      \* commands an application sends
  Known,     \* the commands the devices understand
  Ids,       \* message ids: u32 in the code
  MaxCall,   \* bound: number of calls
  Faults,    \* "duplicate": a datagram arrives again; "collision": rng() repeats an
             \* id; "garbage": a datagram arrives that CtrlMsg::read rejects; "socket":
             \* a call on the socket other than a receive returns an error
  None

ASSUME SendCmdAssumption ==
  /\ Targets \in Seq(Devices)
  /\ Known \subseteq Cmds
  /\ MaxCall \in Nat
  /\ Faults \subseteq {"duplicate", "collision", "garbage", "socket"}
  /\ None \notin Cmds

VARIABLES
  phase,             \* where send_cmd is; "idle": not called, or returned; "assert" and
                     \* "expect": it panicked there
  call, cmd,         \* the current call's number, and its command
  next,              \* the loop over `targets`
  msg_set,           \* ids not yet answered
  addr_msg_id_map,   \* id -> target
  normal_reply, invalid_reply, no_reply,   \* reply_summary
  reqs, reps,        \* datagrams on their way to the devices, and back
  executed,          \* per device: the calls it executed, in the order of the first time
  confirmed,         \* history: <<device, call>> that a returned summary calls replied
  unanswered         \* history: a summary had a no_reply

callVars    == <<call, cmd>>
summaryVars == <<normal_reply, invalid_reply, no_reply>>
netVars     == <<reqs, reps>>
doneVars    == <<confirmed, unanswered>>
vars == <<phase, callVars, next, msg_set, addr_msg_id_map, summaryVars, netVars, executed, doneVars>>

-----------------------------------------------------------------------------
\* `call` labels a request with the call that sent it; it is not in the datagram.
Request == [id : Ids, dev : Devices, cmd : Cmds, call : 1 .. MaxCall]
Reply   == [id : Ids, dev : Devices, call : 1 .. MaxCall, valid : BOOLEAN]

\* A command under its id, on its way to `dev`; the id of a reply.  Every variant of
\* CtrlMsg has the field msg_id.
SetMsgId(c, id, dev, n) == [id |-> id, dev |-> dev, cmd |-> c, call |-> n]
GetMsgId(m) == m.id

NTargets == Len(Targets)

Panicked == phase \in {"assert", "expect"}

\* Ids of requests and replies still around, of this call and of earlier ones.
UsedIds == {m.id : m \in reqs \cup reps} \cup DOMAIN addr_msg_id_map

\* rng1.random()
FreshId(id) == "collision" \in Faults \/ id \notin UsedIds

Init ==
  /\ phase = "idle"
  /\ call = 0 /\ cmd = None
  /\ next = 1
  /\ msg_set = {} /\ addr_msg_id_map = <<>>
  /\ normal_reply = <<>> /\ invalid_reply = <<>> /\ no_reply = {}
  /\ reqs = {} /\ reps = {}
  /\ executed = [d \in Devices |-> <<>>]
  /\ confirmed = {} /\ unanswered = FALSE

-----------------------------------------------------------------------------
(* The caller's thread, inside send_cmd.                                   *)

OpenAtCall_Kept == msg_set
OpenAtCall == {}

\* The call: a bound socket and empty tables.
Call ==
  /\ phase = "idle"
  /\ call < MaxCall
  /\ call' = call + 1
  /\ \E c \in Cmds : cmd' = c
  /\ phase' = "send"
  /\ next' = 1
  /\ msg_set' = OpenAtCall /\ addr_msg_id_map' = <<>>
  /\ normal_reply' = <<>> /\ invalid_reply' = <<>> /\ no_reply' = {}
  /\ UNCHANGED <<netVars, executed, doneVars>>

\* The summary that is returned when the ids `open` have no answer.
NoReply(open) == {[dev |-> addr_msg_id_map[id], id |-> id] : id \in open}

Finish(open, normal) ==
  /\ phase' = "idle"
  /\ no_reply' = NoReply(open)
  /\ confirmed' = confirmed \cup {<<normal[i].dev, call>> : i \in 1 .. Len(normal)}
  /\ unanswered' = (unanswered \/ open # {})

Registered_AfterReplies(id) == msg_set
Registered(id) == msg_set \cup {id}

\* One turn of the loop over the targets, up to its receives.
SendTo ==
  /\ phase = "send"
  /\ next <= NTargets
  /\ \E id \in Ids :
       /\ FreshId(id)
       /\ msg_set' = Registered(id)
       /\ addr_msg_id_map' =
            [i \in DOMAIN addr_msg_id_map \cup {id} |->
               IF i = id THEN Targets[next] ELSE addr_msg_id_map[i]]
       /\ reqs' = reqs \cup {SetMsgId(cmd, id, Targets[next], call)}
  /\ phase' = "drain"
  /\ UNCHANGED <<callVars, next, summaryVars, reps, executed, doneVars>>

\* The non-blocking receive finds nothing: on to the next target.
WouldBlock ==
  /\ phase = "drain"
  /\ phase' = "send"
  /\ next' = next + 1
  /\ UNCHANGED <<callVars, msg_set, addr_msg_id_map, summaryVars, netVars, executed, doneVars>>

\* All sent: wait for the rest, if there is a rest.
AllSent ==
  /\ phase = "send"
  /\ next > NTargets
  /\ \/ /\ msg_set # {}
        /\ phase' = "wait"
        /\ UNCHANGED <<no_reply, doneVars>>
     \/ /\ msg_set = {}
        /\ Finish({}, normal_reply)
  /\ UNCHANGED <<callVars, next, msg_set, addr_msg_id_map, normal_reply, invalid_reply,
                 netVars, executed>>

\* What is left to be answered once `r` was.
Remaining_KeepsId(r) == IF phase = "wait" THEN msg_set ELSE msg_set \ {GetMsgId(r)}
Remaining_All(r) == {}
Remaining(r) == msg_set \ {GetMsgId(r)}

\* assert!(x) on the result of msg_set.remove.
Expected_Any(r) == TRUE
Expected(r) == GetMsgId(r) \in msg_set

IsInvalid(r) == ~ r.valid

\* A datagram leaves the network, or a copy of it stays behind.
Consume(net, m) == {net \ {m}} \cup IF "duplicate" \in Faults THEN {net} ELSE {}

Entry(r) == [dev |-> r.dev, id |-> GetMsgId(r)]

\* The reply enters the list of its kind.
Record(r) ==
  /\ normal_reply' =
       IF IsInvalid(r) THEN normal_reply ELSE Append(normal_reply, Entry(r))
  /\ invalid_reply' =
       IF IsInvalid(r) THEN Append(invalid_reply, Entry(r)) ELSE invalid_reply

\* A reply is read and recorded, then its id is struck off.
Receive ==
  /\ phase \in {"drain", "wait"}
  /\ \E r \in reps :
       /\ reps' \in Consume(reps, r)
       /\ Record(r)
       /\ msg_set' = Remaining(r)
       /\ \/ /\ ~ Expected(r)
             /\ phase' = "assert"
             /\ UNCHANGED <<no_reply, doneVars>>
          \/ /\ Expected(r)
             /\ phase = "wait" /\ msg_set' = {}
             /\ Finish({}, normal_reply')
          \/ /\ Expected(r)
             /\ phase = "drain" \/ msg_set' # {}
             /\ UNCHANGED <<phase, no_reply, doneVars>>
  /\ UNCHANGED <<callVars, next, addr_msg_id_map, reqs, executed>>

MayTimeOut_Never == FALSE
MayTimeOut == phase = "wait"

\* The blocking receive returns with the read timeout.
TimedOut ==
  /\ phase = "wait"
  /\ MayTimeOut
  /\ Finish(msg_set, normal_reply)
  /\ UNCHANGED <<callVars, next, msg_set, addr_msg_id_map, normal_reply, invalid_reply,
                 netVars, executed>>

\* CtrlMsg::read fails on what was received.
ReadFails == phase \in {"drain", "wait"} /\ "garbage" \in Faults

\* The socket cannot be bound or set up, or send_to fails.  (Nobody looks at the tables
\* after the panic, so it is the same before and after the id is entered.)
SocketFails == phase = "send" /\ "socket" \in Faults

\* In either case an expect() panics.
ExpectFails ==
  /\ ReadFails \/ SocketFails
  /\ phase' = "expect"
  /\ UNCHANGED <<callVars, next, msg_set, addr_msg_id_map, summaryVars, netVars, executed, doneVars>>

\* What the caller does on its own; ExpectFails happens to it.
Client == SendTo \/ WouldBlock \/ AllSent \/ Receive \/ TimedOut

-----------------------------------------------------------------------------
(* The devices.                                                            *)

Seen(d) == {executed[d][i] : i \in 1 .. Len(executed[d])}

\* A device executes a command it knows and answers every request under its id.
Serve ==
  /\ ~ Panicked
  /\ \E q \in reqs :
       /\ reqs' \in Consume(reqs, q)
       /\ reps' = reps \cup {[id |-> q.id, dev |-> q.dev, call |-> q.call, valid |-> q.cmd \in Known]}
       /\ executed' =
            IF q.cmd \in Known /\ q.call \notin Seen(q.dev)
            THEN [executed EXCEPT ![q.dev] = Append(@, q.call)]
            ELSE executed
  /\ UNCHANGED <<phase, callVars, next, msg_set, addr_msg_id_map, summaryVars, doneVars>>

\* The application makes no further call, or the panic ended it.
Stopped == (Panicked \/ (phase = "idle" /\ call = MaxCall)) /\ UNCHANGED vars

Next == Call \/ Client \/ ExpectFails \/ Serve \/ Stopped

Spec == Init /\ [][Next]_vars

-----------------------------------------------------------------------------
(* Properties.                                                             *)

Entries(d) ==
  [normal  |-> {i \in 1 .. Len(normal_reply) : normal_reply[i].dev = d},
   invalid |-> {i \in 1 .. Len(invalid_reply) : invalid_reply[i].dev = d},
   none    |-> {n \in no_reply : n.dev = d}]

SendPhases == {"idle", "send", "drain", "wait", "assert", "expect"}

TablesOK ==
  /\ call \in 0 .. MaxCall /\ cmd \in Cmds \cup {None}
  /\ next \in 1 .. NTargets + 1
  /\ msg_set \subseteq DOMAIN addr_msg_id_map
  /\ DOMAIN addr_msg_id_map \subseteq Ids
  /\ \A id \in DOMAIN addr_msg_id_map : addr_msg_id_map[id] \in Devices
  /\ normal_reply \in Seq([dev : Devices, id : Ids])
  /\ invalid_reply \in Seq([dev : Devices, id : Ids])
  /\ no_reply \subseteq [dev : Devices, id : Ids]
  /\ reqs \subseteq Request /\ reps \subseteq Reply
  /\ executed \in [Devices -> Seq(1 .. MaxCall)]
  /\ confirmed \subseteq Devices \X (1 .. MaxCall) /\ unanswered \in BOOLEAN

TypeOK == phase \in SendPhases /\ TablesOK

Returned == phase = "idle" /\ call > 0

\* The summary that is returned accounts for every target once: by a normal reply,
\* an invalid one, or an entry of no_reply.  (bin/send_cmd.rs concludes "all
\* replied" from an empty no_reply.)
Accounted ==
  Returned => \A d \in Devices :
    Cardinality({k \in 1 .. NTargets : Targets[k] = d}) =
      LET e == Entries(d)
      IN  Cardinality(e.normal) + Cardinality(e.invalid) + Cardinality(e.none)

\* A normal reply in a returned summary means that this device has executed the
\* command of this very call: a reply left over from an earlier call that timed
\* out is never taken for it.  (unmake_device and start_stream return true on it.)
ConfirmedIsExecuted == \A c \in confirmed : c[2] \in Seen(c[1])

\* The assertion holds in the first call from a port, however early a reply comes:
\* each id is registered before its request leaves, and no other id can be in use - if
\* no datagram meant for an earlier process arrives on the port.
FirstCallNeverPanics == call = 1 => phase # "assert"

\* A call always ends, whichever datagrams are lost: by its summary or by a panic.
CallEnds == (phase = "send") ~> (phase = "idle" \/ Panicked)

-----------------------------------------------------------------------------
Calling == phase \in {"send", "drain", "wait"}

\* The targets that the loop has still to come to.
Unsent == {Targets[k] : k \in (IF phase = "drain" THEN next + 1 ELSE next) .. NTargets}

Contract == INSTANCE RemoteCall WITH
              phase   <- IF Calling THEN "calling" ELSE phase,
              pending <- {<<q.dev, q.call>> : q \in reqs} \cup
                         (IF Calling THEN Unsent \X {call} ELSE {})

\* Unless a datagram is duplicated or an id repeated, this is what a caller of send_cmd
\* may count on: nothing is confirmed that was not executed, nothing is executed after
\* a call that was answered by all, and no call panics on a reply that came too late
\* before one was left unanswered.
KeepsContract == Contract!Spec

\* assert!(x), where x says that the id of the reply was still open.
AssertHolds == phase # "assert"

=============================================================================
