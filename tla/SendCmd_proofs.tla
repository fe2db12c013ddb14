---------------------------- MODULE SendCmd_proofs ----------------------------
(***************************************************************************)
(* Proofs about send_cmd (SendCmd.tla), for any number of devices, targets *)
(* and calls.                                                              *)
(***************************************************************************)
EXTENDS SendCmd, FiniteSetTheorems, TLAPS

(* Sequences.                                                              *)

\* What is in a sequence.
LEMMA SeqElements ==
  ASSUME NEW S, NEW s \in Seq(S) PROVE Len(s) \in Nat /\ \A i \in 1 .. Len(s) : s[i] \in S
  OBVIOUS

\* What appending an element makes of it.
LEMMA SeqAppended ==
  ASSUME NEW S, NEW s \in Seq(S), NEW e \in S
  PROVE  /\ Append(s, e) \in Seq(S) /\ Len(Append(s, e)) = Len(s) + 1
         /\ \A i \in 1 .. Len(s) : Append(s, e)[i] = s[i]
         /\ Append(s, e)[Len(s) + 1] = e
  OBVIOUS

-----------------------------------------------------------------------------
(* Type correctness.                                                       *)

\* TypeOK, and what the control point tells: a call has a number and a command, and
\* receives between sends come after a send.
TypeInv ==
  /\ TypeOK
  /\ phase # "idle" => call \in 1 .. MaxCall /\ cmd \in Cmds
  /\ phase = "drain" => next \in 1 .. NTargets

\* Before the first call everything has its type: no call, no datagram, an empty summary.
LEMMA InitType == Init => TypeInv
  <1>1. NTargets \in Nat
    BY SendCmdAssumption DEF NTargets
  <1>2. ASSUME Init PROVE TablesOK
    <2>1. DOMAIN addr_msg_id_map = {}
      BY <1>2 DEF Init
    <2>2. executed \in [Devices -> Seq(1 .. MaxCall)]
      BY <1>2 DEF Init
    <2>3. normal_reply \in Seq([dev : Devices, id : Ids]) /\ invalid_reply \in Seq([dev : Devices, id : Ids])
      BY <1>2 DEF Init
    <2>4. call \in 0 .. MaxCall /\ cmd \in Cmds \cup {None} /\ next \in 1 .. NTargets + 1
      BY <1>1, <1>2, SendCmdAssumption DEF Init
    <2>5. /\ msg_set = {} /\ no_reply = {} /\ reqs = {} /\ reps = {}
          /\ confirmed = {} /\ unanswered = FALSE
      BY <1>2 DEF Init
    <2> QED
      BY <2>1, <2>2, <2>3, <2>4, <2>5 DEF TablesOK
  <1> QED
    BY <1>2 DEF Init, TypeInv, TypeOK, SendPhases

\* A target is a device.
LEMMA TargetType ==
  /\ NTargets \in Nat
  /\ \A k \in 1 .. NTargets : Targets[k] \in Devices
  BY SendCmdAssumption DEF NTargets

\* An entry of a summary is well typed.
LEMMA EntryType ==
  ASSUME NEW r \in Reply PROVE Entry(r) \in [dev : Devices, id : Ids]
  BY DEF Entry, GetMsgId, Reply

\* Recording a reply keeps the types of the two lists.
LEMMA RecordType ==
  ASSUME TablesOK, NEW r \in Reply, Record(r)
  PROVE  /\ normal_reply' \in Seq([dev : Devices, id : Ids])
         /\ invalid_reply' \in Seq([dev : Devices, id : Ids])
  <1> DEFINE S == [dev : Devices, id : Ids]
  <1>1. Entry(r) \in S
    BY EntryType
  <1>2. /\ normal_reply' = normal_reply \/ normal_reply' = Append(normal_reply, Entry(r))
        /\ invalid_reply' = invalid_reply \/ invalid_reply' = Append(invalid_reply, Entry(r))
    BY DEF Record
  <1>3. normal_reply \in Seq(S) /\ invalid_reply \in Seq(S)
    BY DEF TablesOK
  <1> HIDE DEF S
  <1>4. Append(normal_reply, Entry(r)) \in Seq(S) /\ Append(invalid_reply, Entry(r)) \in Seq(S)
    BY <1>1, <1>3, SeqAppended
  <1>5. normal_reply' \in Seq(S) /\ invalid_reply' \in Seq(S)
    BY <1>2, <1>3, <1>4
  <1> QED
    BY <1>5 DEF S

\* Receiving a datagram only takes it from the network.
LEMMA ConsumeType ==
  ASSUME NEW net, NEW m, NEW rest \in Consume(net, m) PROVE rest \subseteq net
  BY DEF Consume

\* The end of a call keeps the types of the summary and of the history.
LEMMA FinishType ==
  ASSUME TablesOK, call \in 1 .. MaxCall, NEW open, open \subseteq DOMAIN addr_msg_id_map,
         NEW normal \in Seq([dev : Devices, id : Ids]), Finish(open, normal)
  PROVE  /\ phase' = "idle"
         /\ no_reply' \subseteq [dev : Devices, id : Ids]
         /\ confirmed' \subseteq Devices \X (1 .. MaxCall)
         /\ unanswered' \in BOOLEAN
  <1>1. NoReply(open) \subseteq [dev : Devices, id : Ids]
    BY DEF NoReply, TablesOK
  <1>2. {<<normal[i].dev, call>> : i \in 1 .. Len(normal)} \subseteq Devices \X (1 .. MaxCall)
    <2>1. \A i \in 1 .. Len(normal) : normal[i] \in [dev : Devices, id : Ids]
      BY SeqElements
    <2>2. \A i \in 1 .. Len(normal) : normal[i].dev \in Devices
      BY <2>1
    <2> QED
      BY <2>2
  <1> QED
    BY <1>1, <1>2 DEF Finish, TablesOK

\* A new call starts from an empty summary and no open id.
LEMMA CallType == ASSUME TypeInv, Call PROVE TypeInv'
  <1> USE DEF netVars, doneVars
  <1>1. DOMAIN addr_msg_id_map' = {} /\ msg_set' = {}
    BY DEF Call, OpenAtCall
  <1>2. call' \in 1 .. MaxCall /\ cmd' \in Cmds /\ next' \in 1 .. NTargets + 1
    BY SendCmdAssumption, TargetType DEF Call, TypeInv, TypeOK, TablesOK
  <1> QED
    BY <1>1, <1>2 DEF Call, TypeInv, TypeOK, TablesOK, SendPhases

\* Sending to one target opens an id and adds one request.
LEMMA SendToType == ASSUME TypeInv, SendTo PROVE TypeInv'
  <1> USE DEF callVars, summaryVars, doneVars
  <1>1. PICK id \in Ids :
          /\ msg_set' = msg_set \cup {id}
          /\ addr_msg_id_map' =
               [i \in DOMAIN addr_msg_id_map \cup {id} |->
                  IF i = id THEN Targets[next] ELSE addr_msg_id_map[i]]
          /\ reqs' = reqs \cup {SetMsgId(cmd, id, Targets[next], call)}
    BY DEF SendTo, Registered
  <1>2. next \in 1 .. NTargets /\ Targets[next] \in Devices
    BY TargetType DEF SendTo, TypeInv, TypeOK, TablesOK
  <1>3. SetMsgId(cmd, id, Targets[next], call) \in Request
    BY <1>2 DEF SetMsgId, Request, SendTo, TypeInv
  <1>4. reqs' \subseteq Request
    BY <1>1, <1>3 DEF TypeInv, TypeOK, TablesOK
  <1>5. /\ DOMAIN addr_msg_id_map' = DOMAIN addr_msg_id_map \cup {id}
        /\ \A i \in DOMAIN addr_msg_id_map' : addr_msg_id_map'[i] \in Devices
    BY <1>1, <1>2 DEF TypeInv, TypeOK, TablesOK
  <1> QED
    BY <1>1, <1>2, <1>4, <1>5 DEF SendTo, TypeInv, TypeOK, TablesOK, SendPhases

\* A non-blocking receive that finds nothing goes on to the next target.
LEMMA WouldBlockType == ASSUME TypeInv, WouldBlock PROVE TypeInv'
  BY TargetType
  DEF WouldBlock, TypeInv, TypeOK, TablesOK, SendPhases, callVars, summaryVars, netVars, doneVars

\* After the last target the call waits for replies, or ends if none is missing.
LEMMA AllSentType == ASSUME TypeInv, AllSent PROVE TypeInv'
  <1> USE DEF callVars, netVars, doneVars
  <1>1. /\ phase' \in {"idle", "wait"}
        /\ no_reply' \subseteq [dev : Devices, id : Ids]
        /\ confirmed' \subseteq Devices \X (1 .. MaxCall)
        /\ unanswered' \in BOOLEAN
    <2>1. CASE phase' = "wait" /\ UNCHANGED <<no_reply, doneVars>>
      BY <2>1 DEF TypeInv, TypeOK, TablesOK
    <2>2. CASE Finish({}, normal_reply)
      BY <2>2, FinishType DEF AllSent, TypeInv, TypeOK, TablesOK
    <2> QED
      BY <2>1, <2>2 DEF AllSent
  <1> QED
    BY <1>1 DEF AllSent, TypeInv, TypeOK, TablesOK, SendPhases

\* A reply that is received closes an id and gets into the summary, or fails the assertion.
LEMMA ReceiveType == ASSUME TypeInv, Receive PROVE TypeInv'
  <1> USE DEF callVars, doneVars
  <1>1. PICK r \in reps :
          /\ reps' \in Consume(reps, r)
          /\ Record(r)
          /\ msg_set' = Remaining(r)
          /\ \/ ~ Expected(r) /\ phase' = "assert" /\ UNCHANGED <<no_reply, doneVars>>
             \/ Expected(r) /\ phase = "wait" /\ msg_set' = {} /\ Finish({}, normal_reply')
             \/ Expected(r) /\ UNCHANGED <<phase, no_reply, doneVars>>
    BY DEF Receive
  <1>2. r \in Reply /\ reps' \subseteq Reply
    BY <1>1, ConsumeType DEF TypeInv, TypeOK, TablesOK
  <1>3. /\ normal_reply' \in Seq([dev : Devices, id : Ids])
        /\ invalid_reply' \in Seq([dev : Devices, id : Ids])
    BY <1>1, <1>2, RecordType DEF TypeInv, TypeOK
  <1>4. /\ phase' \in {phase, "idle", "assert"}
        /\ no_reply' \subseteq [dev : Devices, id : Ids]
        /\ confirmed' \subseteq Devices \X (1 .. MaxCall)
        /\ unanswered' \in BOOLEAN
    <2>1. CASE UNCHANGED <<no_reply, doneVars>>
      BY <1>1, <2>1 DEF TypeInv, TypeOK, TablesOK, Finish
    <2>2. CASE Finish({}, normal_reply')
      BY <1>3, <2>2, FinishType DEF Receive, TypeInv, TypeOK
    <2> QED
      BY <1>1, <2>1, <2>2
  <1>5. msg_set' \subseteq DOMAIN addr_msg_id_map
    BY <1>1 DEF Remaining, TypeInv, TypeOK, TablesOK
  <1>6. phase # "idle" /\ call \in 1 .. MaxCall /\ cmd \in Cmds
    BY DEF Receive, TypeInv
  <1> QED
    BY <1>2, <1>3, <1>4, <1>5, <1>6 DEF Receive, TypeInv, TypeOK, TablesOK, SendPhases

\* A timeout ends the call with the targets whose id is still open as not replying.
LEMMA TimedOutType == ASSUME TypeInv, TimedOut PROVE TypeInv'
  <1> USE DEF callVars, netVars
  <1>1. /\ phase' = "idle"
        /\ no_reply' \subseteq [dev : Devices, id : Ids]
        /\ confirmed' \subseteq Devices \X (1 .. MaxCall)
        /\ unanswered' \in BOOLEAN
    BY FinishType DEF TimedOut, TypeInv, TypeOK, TablesOK
  <1> QED
    BY <1>1 DEF TimedOut, TypeInv, TypeOK, TablesOK, SendPhases

\* A device takes a request, executes what it knows, and answers under the same id.
LEMMA ServeTables == ASSUME TablesOK, Serve PROVE TablesOK'
  <1> USE DEF callVars, summaryVars, doneVars
  <1>1. PICK q \in reqs :
          /\ reqs' \in Consume(reqs, q)
          /\ reps' = reps \cup {[id |-> q.id, dev |-> q.dev, call |-> q.call,
                                 valid |-> q.cmd \in Known]}
          /\ \/ executed' = [executed EXCEPT ![q.dev] = Append(@, q.call)]
             \/ executed' = executed
    BY DEF Serve
  <1>2. q \in Request /\ reqs' \subseteq Request
    BY <1>1, ConsumeType DEF TablesOK
  <1>3. reps' \subseteq Reply
    <2>1. (q.cmd \in Known) \in BOOLEAN
      OBVIOUS
    <2>2. [id |-> q.id, dev |-> q.dev, call |-> q.call, valid |-> q.cmd \in Known] \in Reply
      BY <1>2, <2>1 DEF Request, Reply
    <2>3. reps \subseteq Reply
      BY DEF TablesOK
    <2> QED
      BY <1>1, <2>2, <2>3
  <1>4. executed' \in [Devices -> Seq(1 .. MaxCall)]
    <2>1. q.dev \in Devices /\ q.call \in 1 .. MaxCall
      BY <1>2 DEF Request
    <2>2. executed[q.dev] \in Seq(1 .. MaxCall) /\ executed \in [Devices -> Seq(1 .. MaxCall)]
      BY <2>1 DEF TablesOK
    <2>3. Append(executed[q.dev], q.call) \in Seq(1 .. MaxCall)
      BY <2>1, <2>2
    <2> QED
      BY <1>1, <2>1, <2>2, <2>3
  <1>5. UNCHANGED <<phase, callVars, next, msg_set, addr_msg_id_map, summaryVars, doneVars>>
    BY DEF Serve
  <1> QED
    BY <1>2, <1>3, <1>4, <1>5 DEF TablesOK

\* And the caller stays where it is.
LEMMA ServeType == ASSUME TypeInv, Serve PROVE TypeInv'
  BY ServeTables DEF Serve, TypeInv, TypeOK, callVars

\* Every step keeps the types.
LEMMA TypeStep == ASSUME TypeInv, [Next]_vars PROVE TypeInv'
  <1>1. CASE ExpectFails
    BY <1>1 DEF ExpectFails, ReadFails, SocketFails, TypeInv, TypeOK, TablesOK, SendPhases, callVars, summaryVars, netVars, doneVars
  <1>2. CASE Stopped \/ UNCHANGED vars
    BY <1>2 DEF Stopped, vars, callVars, summaryVars, netVars, doneVars,
                TypeInv, TypeOK, TablesOK, SendPhases
  <1> QED
    BY <1>1, <1>2, CallType, SendToType, WouldBlockType, AllSentType, ReceiveType,
       TimedOutType, ServeType DEF Next, Client

\* The tables of send_cmd keep their types: every open id has a target, and every
\* entry of a summary comes from a device.
THEOREM TypeCorrect == Spec => []TypeOK
  <1>1. TypeInv => TypeOK
    BY DEF TypeInv
  <1> QED
    BY <1>1, InitType, TypeStep, PTL DEF Spec

-----------------------------------------------------------------------------
(* Late replies.                                                           *)

InFlight == reqs \cup reps

\* A datagram under an open id is of the call under way; an answer that is valid comes
\* from a device that has executed the call; and so does a normal reply recorded.
LabelInv ==
  /\ \A m \in InFlight : m.call <= call
  /\ Calling => \A m \in InFlight : m.id \in msg_set => m.call = call
  /\ \A r \in reps : r.valid => r.call \in Seen(r.dev)
  /\ Calling => \A i \in 1 .. Len(normal_reply) : call \in Seen(normal_reply[i].dev)

\* Each call number in an executed list stays there.
LEMMA SeenGrows ==
  ASSUME TypeInv, [Next]_vars, NEW d \in Devices PROVE Seen(d) \subseteq Seen(d)'
  <1>1. CASE Serve
    <2>1. PICK q \in reqs :
            \/ executed' = [executed EXCEPT ![q.dev] = Append(@, q.call)]
            \/ executed' = executed
      BY <1>1 DEF Serve
    <2>2. executed[d] \in Seq(1 .. MaxCall) /\ executed \in [Devices -> Seq(1 .. MaxCall)]
      BY DEF TypeInv, TypeOK, TablesOK
    <2>3. q.call \in 1 .. MaxCall
      BY DEF TypeInv, TypeOK, TablesOK, Request
    <2>4. executed'[d] = executed[d] \/ executed'[d] = Append(executed[d], q.call)
      BY <2>1, <2>2
    <2> QED
      BY <2>2, <2>3, <2>4, SeqAppended DEF Seen
  <1>2. CASE ~ Serve
    <2>1. executed' = executed
      BY <1>2 DEF Next, Client, Call, SendTo, WouldBlock, AllSent, Receive, TimedOut,
                  ExpectFails, Stopped, vars
    <2> QED
      BY <2>1 DEF Seen
  <1> QED
    BY <1>1, <1>2

\* A device that answers a request as valid has executed its call.
LEMMA ServeExecutes ==
  ASSUME TypeInv, Serve
  PROVE  \E q \in reqs :
           LET r == [id |-> q.id, dev |-> q.dev, call |-> q.call, valid |-> q.cmd \in Known]
           IN  /\ reqs' \in Consume(reqs, q)
               /\ reps' = reps \cup {r}
               /\ r.valid => r.call \in Seen(r.dev)'
  <1>1. PICK q \in reqs :
          /\ reqs' \in Consume(reqs, q)
          /\ reps' = reps \cup {[id |-> q.id, dev |-> q.dev, call |-> q.call,
                                 valid |-> q.cmd \in Known]}
          /\ executed' = IF q.cmd \in Known /\ q.call \notin Seen(q.dev)
                         THEN [executed EXCEPT ![q.dev] = Append(@, q.call)]
                         ELSE executed
    BY DEF Serve
  <1>2. q.dev \in Devices /\ q.call \in 1 .. MaxCall /\ executed \in [Devices -> Seq(1 .. MaxCall)]
    BY DEF TypeInv, TypeOK, TablesOK, Request
  <1>3. ASSUME q.cmd \in Known PROVE q.call \in Seen(q.dev)'
    <2>1. CASE q.call \in Seen(q.dev)
      BY <1>1, <2>1 DEF Seen
    <2>2. CASE q.call \notin Seen(q.dev)
      <3>1. executed'[q.dev] = Append(executed[q.dev], q.call)
        BY <1>1, <1>2, <1>3, <2>2
      <3>2. executed[q.dev] \in Seq(1 .. MaxCall)
        BY <1>2
      <3>3. /\ Len(executed'[q.dev]) = Len(executed[q.dev]) + 1
            /\ executed'[q.dev][Len(executed[q.dev]) + 1] = q.call
            /\ Len(executed[q.dev]) \in Nat
        BY <1>2, <3>1, <3>2, SeqAppended
      <3> QED
        BY <3>3 DEF Seen
    <2> QED
      BY <2>1, <2>2
  <1> QED
    BY <1>1, <1>3

\* Unless ids repeat, every step keeps the labels.
LEMMA LabelStep ==
  ASSUME "collision" \notin Faults, TypeInv, LabelInv, [Next]_vars PROVE LabelInv'
  <1>1. CASE Call
    <2>1. /\ UNCHANGED <<reqs, reps, executed>> /\ msg_set' = {} /\ normal_reply' = <<>>
          /\ call' = call + 1 /\ call \in Nat
      BY <1>1 DEF Call, OpenAtCall, netVars, TypeInv, TypeOK, TablesOK
    <2>2. \A m \in InFlight : m.call \in Nat
      BY DEF InFlight, TypeInv, TypeOK, TablesOK, Request, Reply
    <2> QED
      BY <2>1, <2>2 DEF LabelInv, InFlight, Seen
  <1>2. CASE SendTo
    <2>1. PICK id \in Ids :
            /\ id \notin UsedIds /\ msg_set' = msg_set \cup {id}
            /\ reqs' = reqs \cup {SetMsgId(cmd, id, Targets[next], call)}
      BY <1>2 DEF SendTo, FreshId, Registered
    <2>2. UNCHANGED <<reps, executed, call, normal_reply>> /\ Calling /\ call \in Nat
      BY <1>2 DEF SendTo, callVars, summaryVars, Calling, TypeInv, TypeOK, TablesOK
    <2>3. \A m \in InFlight : m.id # id
      BY <2>1 DEF UsedIds, InFlight
    <2>4. InFlight' = InFlight \cup {SetMsgId(cmd, id, Targets[next], call)}
      BY <2>1, <2>2 DEF InFlight
    <2> QED
      BY <2>1, <2>2, <2>3, <2>4 DEF LabelInv, SetMsgId, Seen
  <1>3. CASE Receive
    <2>1. PICK r \in reps :
            /\ reps' \in Consume(reps, r) /\ Record(r)
            /\ msg_set' = msg_set \ {r.id}
            /\ Calling' => r.id \in msg_set
      BY <1>3 DEF Receive, Remaining, GetMsgId, Expected, Finish, Calling
    <2>2. UNCHANGED <<reqs, executed, call>> /\ Calling /\ InFlight' \subseteq InFlight
      BY <1>3, <2>1, ConsumeType DEF Receive, callVars, Calling, InFlight
    <2>3. ASSUME Calling', NEW i \in 1 .. Len(normal_reply')
          PROVE  call \in Seen(normal_reply'[i].dev)
      <3> DEFINE S == [dev : Devices, id : Ids]
      <3>1. Entry(r) \in S /\ normal_reply \in Seq(S)
        BY EntryType DEF TypeInv, TypeOK, TablesOK
      <3> HIDE DEF S
      <3>2. CASE r.valid
        <4>1. normal_reply' = Append(normal_reply, Entry(r))
          BY <2>1, <3>2 DEF Record, IsInvalid
        <4>2. call \in Seen(Entry(r).dev)
          BY <2>1, <2>2, <2>3, <3>2 DEF LabelInv, InFlight, Entry
        <4>3. \/ i \in 1 .. Len(normal_reply) /\ normal_reply'[i] = normal_reply[i]
              \/ normal_reply'[i] = Entry(r)
          BY <3>1, <4>1, SeqAppended
        <4> QED
          BY <2>2, <4>2, <4>3 DEF LabelInv
      <3>3. CASE ~ r.valid
        BY <2>1, <2>2, <3>3 DEF Record, IsInvalid, LabelInv
      <3> QED
        BY <3>2, <3>3
    <2>4. reps' \subseteq reps
      BY <2>1, ConsumeType
    <2> QED
      BY <2>1, <2>2, <2>3, <2>4 DEF LabelInv, Seen
  <1>4. CASE Serve
    <2>1. PICK q \in reqs :
            LET r == [id |-> q.id, dev |-> q.dev, call |-> q.call, valid |-> q.cmd \in Known]
            IN  /\ reqs' \in Consume(reqs, q)
                /\ reps' = reps \cup {r}
                /\ r.valid => r.call \in Seen(r.dev)'
      BY <1>4, ServeExecutes
    <2>2. reqs' \subseteq reqs
      BY <2>1, ConsumeType
    <2>3. UNCHANGED <<phase, call, msg_set, normal_reply>>
      BY <1>4 DEF Serve, callVars, summaryVars
    <2>4. \A m \in InFlight' : \E n \in InFlight : m.id = n.id /\ m.call = n.call
      BY <2>1, <2>2 DEF InFlight
    <2>5. \A d \in Devices : Seen(d) \subseteq Seen(d)'
      BY SeenGrows
    <2>6. \A r \in reps' : r.valid => r.call \in Seen(r.dev)'
      <3>1. \A r \in reps : r.dev \in Devices
        BY DEF TypeInv, TypeOK, TablesOK, Reply
      <3> QED
        BY <2>1, <2>5, <3>1 DEF LabelInv
    <2>7. Calling => \A i \in 1 .. Len(normal_reply) : call \in Seen(normal_reply[i].dev)'
      <3> DEFINE S == [dev : Devices, id : Ids]
      <3>1. normal_reply \in Seq(S)
        BY DEF TypeInv, TypeOK, TablesOK
      <3>2. \A i \in 1 .. Len(normal_reply) : normal_reply[i] \in S
        BY <3>1, SeqElements
      <3>3. \A i \in 1 .. Len(normal_reply) : normal_reply[i].dev \in Devices
        BY <3>2
      <3> HIDE DEF S
      <3>4. ASSUME Calling, NEW i \in 1 .. Len(normal_reply)
            PROVE  call \in Seen(normal_reply[i].dev)'
        <4>1. call \in Seen(normal_reply[i].dev) /\ normal_reply[i].dev \in Devices
          BY <3>3, <3>4 DEF LabelInv
        <4>2. call \in {executed'[normal_reply[i].dev][k] : k \in 1 .. Len(executed'[normal_reply[i].dev])}
          BY <2>5, <4>1 DEF Seen
        <4> QED
          BY <2>3, <4>2 DEF Seen
      <3> QED
        BY <3>4
    <2> QED
      BY <2>3, <2>4, <2>6, <2>7 DEF LabelInv, Calling
  <1>5. CASE WouldBlock \/ AllSent \/ TimedOut \/ ExpectFails \/ Stopped \/ UNCHANGED vars
    <2>1. UNCHANGED <<reqs, reps, executed, call, msg_set, normal_reply>> /\ (Calling' => Calling)
      BY <1>5 DEF WouldBlock, AllSent, TimedOut, ExpectFails, ReadFails, SocketFails, Stopped, Finish, Calling,
                  vars, callVars, summaryVars, netVars
    <2> QED
      BY <2>1 DEF LabelInv, InFlight, Seen
  <1> QED
    BY <1>1, <1>2, <1>3, <1>4, <1>5 DEF Next, Client

\* The initial state has no labels.
LEMMA LabelInit == Init => LabelInv
  BY DEF Init, LabelInv, InFlight, Calling

\* If all normal replies recorded so far mean execution, and so does the next, all do.
LEMMA RecordedExecuted ==
  ASSUME TypeInv, LabelInv, Calling, NEW r \in reps, Record(r), r.call = call
  PROVE  \A i \in 1 .. Len(normal_reply') : call \in Seen(normal_reply'[i].dev)
  <1>1. r.valid => call \in Seen(Entry(r).dev)
    BY DEF LabelInv, Entry
  <1> DEFINE S == [dev : Devices, id : Ids]
  <1>2. Entry(r) \in S /\ normal_reply \in Seq(S)
    BY EntryType DEF TypeInv, TypeOK, TablesOK
  <1>3. normal_reply' = IF r.valid THEN Append(normal_reply, Entry(r)) ELSE normal_reply
    BY DEF Record, IsInvalid
  <1> HIDE DEF S
  <1>4. ASSUME NEW i \in 1 .. Len(normal_reply')
        PROVE  \/ i \in 1 .. Len(normal_reply) /\ normal_reply'[i] = normal_reply[i]
               \/ r.valid /\ normal_reply'[i] = Entry(r)
    BY <1>2, <1>3, SeqAppended
  <1> QED
    BY <1>1, <1>4 DEF LabelInv

\* A call returns with normal replies of devices that have executed it.
LEMMA ConfirmedStep ==
  ASSUME "collision" \notin Faults, TypeInv, LabelInv, ConfirmedIsExecuted, [Next]_vars
  PROVE  ConfirmedIsExecuted'
  <1>1. \A c \in confirmed : c[1] \in Devices
    BY DEF TypeInv, TypeOK, TablesOK
  <1>2. \A c \in confirmed : c[2] \in Seen(c[1])'
    BY <1>1, SeenGrows DEF ConfirmedIsExecuted
  <1>3. CASE AllSent \/ TimedOut \/ Receive
    <2>1. UNCHANGED <<executed, call>> /\ Calling
      BY <1>3 DEF AllSent, TimedOut, Receive, callVars, Calling
    <2>2. \/ confirmed' = confirmed
          \/ confirmed' = confirmed \cup {<<normal_reply'[i].dev, call>> : i \in 1 .. Len(normal_reply')}
      BY <1>3 DEF AllSent, TimedOut, Receive, Finish, doneVars
    <2>3. ASSUME confirmed' # confirmed
          PROVE  \A i \in 1 .. Len(normal_reply') : call \in Seen(normal_reply'[i].dev)
      <3>1. CASE AllSent \/ TimedOut
        BY <2>1, <3>1 DEF AllSent, TimedOut, LabelInv
      <3>2. CASE Receive
        <4>1. PICK r \in reps : Record(r) /\ r.id \in msg_set
          BY <2>3, <3>2 DEF Receive, Expected, GetMsgId, doneVars
        <4>2. r.call = call
          BY <2>1, <4>1 DEF LabelInv, InFlight
        <4> QED
          BY <2>1, <4>1, <4>2, RecordedExecuted
      <3> QED
        BY <1>3, <3>1, <3>2
    <2>4. \A c \in confirmed' : c \in confirmed \/ c[2] \in Seen(c[1])
      BY <2>2, <2>3
    <2> QED
      BY <1>2, <2>1, <2>4 DEF ConfirmedIsExecuted, Seen
  <1>4. CASE Call \/ SendTo \/ WouldBlock \/ ExpectFails \/ Serve \/ Stopped \/ UNCHANGED vars
    <2>1. confirmed' = confirmed
      BY <1>4 DEF Call, SendTo, WouldBlock, ExpectFails, ReadFails, SocketFails, Serve, Stopped, doneVars, vars
    <2> QED
      BY <1>2, <2>1 DEF ConfirmedIsExecuted
  <1> QED
    BY <1>3, <1>4 DEF Next, Client

\* Unless an id is repeated, a normal reply in a returned summary means that this very
\* call was executed, whatever datagrams are lost, late, duplicated or not decodable.
THEOREM ConfirmedIsExecutedHolds ==
  ASSUME "collision" \notin Faults PROVE Spec => []ConfirmedIsExecuted
  <1>1. Init => TypeInv /\ LabelInv /\ ConfirmedIsExecuted
    BY InitType, LabelInit DEF Init, ConfirmedIsExecuted
  <1>2. TypeInv /\ LabelInv /\ ConfirmedIsExecuted /\ [Next]_vars
          => (TypeInv /\ LabelInv /\ ConfirmedIsExecuted)'
    BY TypeStep, LabelStep, ConfirmedStep
  <1> QED
    BY <1>1, <1>2, PTL DEF Spec

-----------------------------------------------------------------------------
(* Nothing is left over of a call that was answered by all.                *)

SameId(m, n) == m.id = n.id

\* No two datagrams have the same id; one of the call under way has an open one; and
\* unless a call was left unanswered, there are no others, and none between calls.
OpenInv ==
  /\ \A q \in reqs : \A r \in reps : ~ SameId(q, r)
  /\ \A p, q \in reqs : SameId(p, q) => p = q
  /\ \A p, q \in reps : SameId(p, q) => p = q
  /\ Calling => \A m \in InFlight : m.call = call => m.id \in msg_set
  /\ ~ unanswered => \A m \in InFlight : m.call = call
  /\ ~ unanswered /\ phase = "idle" => InFlight = {}
  /\ call <= 1 => \A m \in InFlight : m.call = call
  /\ phase = "assert" => unanswered /\ call > 1
  /\ phase = "wait" => next > NTargets

\* Before the first call no id is open and no datagram is around.
LEMMA OpenInit == Init => OpenInv
  BY DEF Init, OpenInv, InFlight, Calling

\* When no id is open, a call that ends leaves nothing of its own behind.
LEMMA NothingLeft ==
  ASSUME OpenInv, Calling, msg_set = {}, ~ unanswered PROVE InFlight = {}
  BY DEF OpenInv

\* A datagram that is received leaves the network.
LEMMA ConsumeOnce ==
  ASSUME "duplicate" \notin Faults, NEW net, NEW m, NEW rest \in Consume(net, m)
  PROVE  rest = net \ {m}
  BY DEF Consume

\* Unless datagrams are duplicated or ids repeat, every step keeps the accounts.
LEMMA OpenStep ==
  ASSUME Faults \subseteq {"garbage", "socket"}, TypeInv, LabelInv, OpenInv, [Next]_vars
  PROVE  OpenInv'
  <1>0. "duplicate" \notin Faults /\ "collision" \notin Faults
    OBVIOUS
  <1>1. CASE Call
    <2>1. /\ UNCHANGED <<reqs, reps, unanswered>> /\ phase = "idle" /\ phase' = "send"
          /\ call' = call + 1 /\ call \in Nat
      BY <1>1 DEF Call, netVars, doneVars, TypeInv, TypeOK, TablesOK
    <2>2. \A m \in InFlight : m.call \in 1 .. call
      BY <2>1 DEF InFlight, LabelInv, TypeInv, TypeOK, TablesOK, Request, Reply
    <2>3. \A m \in InFlight' : m.call # call'
      BY <2>1, <2>2 DEF InFlight
    <2>4. call' <= 1 => InFlight' = {}
      BY <2>1, <2>2 DEF InFlight
    <2>5. ~ unanswered => InFlight' = {}
      BY <2>1 DEF OpenInv, InFlight
    <2> QED
      BY <2>1, <2>3, <2>4, <2>5 DEF OpenInv, SameId
  <1>2. CASE SendTo
    <2>1. PICK id \in Ids :
            /\ id \notin UsedIds /\ msg_set' = msg_set \cup {id}
            /\ reqs' = reqs \cup {SetMsgId(cmd, id, Targets[next], call)}
      BY <1>0, <1>2 DEF SendTo, FreshId, Registered
    <2>2. /\ UNCHANGED <<reps, call, unanswered>> /\ Calling /\ phase' = "drain"
      BY <1>2 DEF SendTo, callVars, doneVars, Calling
    <2>3. \A m \in InFlight : m.id # id
      BY <2>1 DEF UsedIds, InFlight
    <2> DEFINE new == SetMsgId(cmd, id, Targets[next], call)
    <2>4. new.id = id /\ new.call = call
      BY DEF SetMsgId
    <2>5. InFlight' = InFlight \cup {new} /\ reqs' = reqs \cup {new}
      BY <2>1, <2>2 DEF InFlight
    <2> HIDE DEF new
    <2> QED
      BY <2>1, <2>2, <2>3, <2>4, <2>5 DEF OpenInv, SameId, InFlight, Calling
  <1>3. CASE Receive
    <2>1. PICK r \in reps :
            /\ reps' = reps \ {r} /\ msg_set' = msg_set \ {r.id}
            /\ \/ r.id \notin msg_set /\ phase' = "assert" /\ unanswered' = unanswered
               \/ /\ r.id \in msg_set /\ phase = "wait" /\ msg_set' = {} /\ phase' = "idle"
                  /\ unanswered' = unanswered
               \/ r.id \in msg_set /\ phase' = phase /\ unanswered' = unanswered
      <3>1. PICK r \in reps :
              /\ reps' \in Consume(reps, r) /\ msg_set' = Remaining(r)
              /\ \/ ~ Expected(r) /\ phase' = "assert" /\ UNCHANGED <<no_reply, doneVars>>
                 \/ Expected(r) /\ phase = "wait" /\ msg_set' = {} /\ Finish({}, normal_reply')
                 \/ Expected(r) /\ UNCHANGED <<phase, no_reply, doneVars>>
        BY <1>3 DEF Receive
      <3>2. unanswered \in BOOLEAN
        BY DEF TypeInv, TypeOK, TablesOK
      <3> QED
        BY <1>0, <3>1, <3>2, ConsumeOnce DEF Remaining, Expected, GetMsgId, Finish, doneVars
    <2>2. /\ UNCHANGED <<reqs, call, next>> /\ Calling /\ call \in Nat
          /\ call # 0
      BY <1>3 DEF Receive, callVars, Calling, TypeInv, TypeOK, TablesOK
    <2>3. InFlight' = InFlight \ {r}
      BY <2>1, <2>2 DEF InFlight, OpenInv, SameId
    <2>4. \A m \in InFlight' : m.id # r.id
      BY <2>1, <2>2 DEF InFlight, OpenInv, SameId
    <2>5. \A m \in InFlight' : m.call = call => m.id \in msg_set'
      BY <2>1, <2>2, <2>3, <2>4 DEF OpenInv
    <2>6. ~ unanswered \/ call <= 1 => r.id \in msg_set
      BY <2>1, <2>2 DEF OpenInv, InFlight
    <2>7. ~ unanswered /\ phase' = "idle" => InFlight' = {}
      BY <2>1, <2>2, <2>3, <2>5 DEF OpenInv, Calling
    <2> QED
      BY <2>1, <2>2, <2>3, <2>5, <2>6, <2>7 DEF OpenInv, SameId, Calling
  <1>4. CASE Serve
    <2>1. PICK q \in reqs :
            /\ reqs' = reqs \ {q}
            /\ reps' = reps \cup {[id |-> q.id, dev |-> q.dev, call |-> q.call,
                                   valid |-> q.cmd \in Known]}
      BY <1>0, <1>4, ConsumeOnce DEF Serve
    <2> DEFINE r == [id |-> q.id, dev |-> q.dev, call |-> q.call, valid |-> q.cmd \in Known]
    <2>2. r.id = q.id /\ r.call = q.call /\ reps' = reps \cup {r}
      BY <2>1
    <2> HIDE DEF r
    <2>3. UNCHANGED <<phase, call, next, msg_set, unanswered>> /\ call \in Nat
      BY <1>4 DEF Serve, callVars, doneVars, TypeInv, TypeOK, TablesOK
    <2>4. \A m \in InFlight' : \E n \in InFlight : m.id = n.id /\ m.call = n.call
      BY <2>1, <2>2 DEF InFlight
    <2>5. /\ \A p \in reqs' : \A s \in reps' : ~ SameId(p, s)
          /\ \A p, s \in reqs' : SameId(p, s) => p = s
          /\ \A p, s \in reps' : SameId(p, s) => p = s
      BY <2>1, <2>2 DEF OpenInv, SameId
    <2> QED
      BY <2>3, <2>4, <2>5 DEF OpenInv, Calling
  <1>5. CASE AllSent \/ TimedOut
    <2>1. /\ UNCHANGED <<reqs, reps, call, next, msg_set>> /\ Calling
          /\ \/ phase' = "wait" /\ phase = "send" /\ next > NTargets /\ unanswered' = unanswered
             \/ /\ phase' = "idle"
                /\ \/ msg_set = {} /\ unanswered' = unanswered
                   \/ msg_set # {} /\ unanswered' = TRUE
      <3>1. unanswered \in BOOLEAN
        BY DEF TypeInv, TypeOK, TablesOK
      <3> QED
        BY <1>5, <3>1 DEF AllSent, TimedOut, Finish, Calling, callVars, netVars, doneVars
    <2> QED
      BY <2>1, NothingLeft DEF OpenInv, InFlight, Calling
  <1>6. CASE WouldBlock \/ ExpectFails
    <2>1. UNCHANGED <<reqs, reps, call, msg_set, unanswered>> /\ Calling /\ phase' \in {"send", "expect"}
      BY <1>6 DEF WouldBlock, ExpectFails, ReadFails, SocketFails, Calling, callVars, netVars, doneVars
    <2> QED
      BY <2>1 DEF OpenInv, InFlight, Calling
  <1>7. CASE Stopped \/ UNCHANGED vars
    BY <1>7 DEF Stopped, vars, callVars, summaryVars, netVars, doneVars, OpenInv, InFlight, Calling
  <1> QED
    BY <1>1, <1>2, <1>3, <1>4, <1>5, <1>6, <1>7 DEF Next, Client

\* The three invariants together, which are inductive.
SendInv == TypeInv /\ LabelInv /\ OpenInv

\* The inductive invariant of send_cmd holds initially and is kept by every step.
LEMMA SendInductive ==
  ASSUME Faults \subseteq {"garbage", "socket"}
  PROVE  /\ Init => SendInv
         /\ SendInv /\ [Next]_vars => SendInv'
  <1>1. Init => SendInv
    BY InitType, LabelInit, OpenInit DEF SendInv
  <1>2. SendInv /\ [Next]_vars => SendInv'
    <2>1. "collision" \notin Faults
      OBVIOUS
    <2> QED
      BY <2>1, TypeStep, LabelStep, OpenStep DEF SendInv
  <1> QED
    BY <1>1, <1>2

\* So it always holds.
LEMMA AlwaysSendInv ==
  ASSUME Faults \subseteq {"garbage", "socket"} PROVE Spec => []SendInv
  BY SendInductive, PTL DEF Spec

\* The assertion of send_cmd holds in the first call from a port.
THEOREM FirstCallNeverPanicsHolds ==
  ASSUME Faults \subseteq {"garbage", "socket"} PROVE Spec => []FirstCallNeverPanics
  <1>1. SendInv => FirstCallNeverPanics
    BY DEF SendInv, OpenInv, FirstCallNeverPanics
  <1> QED
    BY <1>1, AlwaysSendInv, PTL

-----------------------------------------------------------------------------
(* send_cmd implements RemoteCall.                                         *)

\* The images of the state in RemoteCall.
Phase == IF Calling THEN "calling" ELSE phase
Sent == {<<q.dev, q.call>> : q \in reqs}
Pending == Sent \cup (IF Calling THEN Unsent \X {call} ELSE {})

\* A call of send_cmd begins one of RemoteCall.
LEMMA CallBegins ==
  ASSUME TypeInv, Call PROVE Contract!Begin
  <1>1. /\ phase = "idle" /\ phase' = "send" /\ call < MaxCall /\ call' = call + 1 /\ next' = 1
        /\ UNCHANGED <<reqs, executed, confirmed, unanswered>>
    BY DEF Call, netVars, doneVars
  <1>2. Unsent' \subseteq Devices
    BY <1>1, TargetType DEF Unsent
  <1>3. Unsent' \in SUBSET Devices
    BY <1>2
  <1>4. Pending' = Pending \cup (Unsent' \X {call'})
    BY <1>1 DEF Pending, Sent, Calling
  <1>5. Phase = "idle" /\ Phase' = "calling"
    BY <1>1 DEF Phase, Calling
  <1> HIDE DEF Pending, Phase
  <1>6. \E targets \in SUBSET Devices : Pending' = Pending \cup (targets \X {call'})
    BY <1>3, <1>4
  <1> QED
    BY <1>1, <1>5, <1>6 DEF Contract!Begin, Pending, Phase, Sent

\* Sending to a target and going on to the next cannot be seen.
LEMMA SendingIsHidden ==
  ASSUME TypeInv, SendTo \/ WouldBlock PROVE UNCHANGED Contract!vars
  <1>1. UNCHANGED <<call, executed, confirmed, unanswered>> /\ Phase = "calling" /\ Phase' = "calling"
    BY DEF SendTo, WouldBlock, callVars, doneVars, Calling, Phase
  <1>2. Pending' = Pending
    <2>1. CASE SendTo
      <3>1. PICK id : reqs' = reqs \cup {SetMsgId(cmd, id, Targets[next], call)}
        BY <2>1 DEF SendTo
      <3>2. /\ phase = "send" /\ phase' = "drain" /\ next \in 1 .. NTargets
            /\ UNCHANGED <<next, call>>
        BY <2>1, TargetType DEF SendTo, callVars, TypeInv, TypeOK, TablesOK
      <3>3. Sent' = Sent \cup {<<Targets[next], call>>}
        <4> DEFINE new == SetMsgId(cmd, id, Targets[next], call)
        <4>1. new.dev = Targets[next] /\ new.call = call
          BY DEF SetMsgId
        <4>2. reqs' = reqs \cup {new}
          BY <3>1
        <4> HIDE DEF new
        <4>3. Sent' = Sent \cup {<<new.dev, new.call>>}
          BY <4>2 DEF Sent
        <4> QED
          BY <4>1, <4>3
      <3>4. Unsent = Unsent' \cup {Targets[next]}
        <4>1. Unsent = {Targets[k] : k \in next .. NTargets}
          BY <3>2 DEF Unsent
        <4>2. Unsent' = {Targets[k] : k \in next + 1 .. NTargets}
          BY <3>2 DEF Unsent, NTargets
        <4>3. next .. NTargets = {next} \cup (next + 1 .. NTargets)
          BY <3>2, TargetType
        <4> QED
          BY <4>1, <4>2, <4>3
      <3>5. Pending = Sent \cup (Unsent \X {call}) /\ Pending' = Sent' \cup (Unsent' \X {call})
        BY <3>2 DEF Pending, Calling
      <3> QED
        BY <3>3, <3>4, <3>5
    <2>2. CASE WouldBlock
      <3>1. /\ phase = "drain" /\ phase' = "send" /\ next' = next + 1
            /\ UNCHANGED <<reqs, call>>
        BY <2>2 DEF WouldBlock, callVars, netVars
      <3>2. Unsent' = Unsent /\ Sent' = Sent
        BY <3>1 DEF Unsent, Sent, NTargets
      <3> QED
        BY <3>1, <3>2 DEF Pending, Calling
    <2> QED
      BY <2>1, <2>2
  <1> QED
    BY <1>1, <1>2 DEF Contract!vars, Pending, Phase, Sent

\* When send_cmd returns, so does the call.
LEMMA FinishReturns ==
  ASSUME OpenInv, OpenInv', UNCHANGED <<reqs, call, executed>>,
         Calling, next > NTargets, phase # "drain", NTargets \in Nat, next \in Nat,
         NEW open, NEW normal \in Seq([dev : Devices, id : Ids]),
         unanswered \in BOOLEAN, Finish(open, normal),
         \A i \in 1 .. Len(normal) : call \in Seen(normal[i].dev)
  PROVE  Contract!Return
  <1>1. phase' = "idle" /\ Phase = "calling" /\ Phase' = "idle"
    BY DEF Finish, Phase, Calling
  <1>2. Unsent = {}
    BY DEF Unsent
  <1>3. Pending = Sent /\ Pending' = Sent' /\ Sent' = Sent
    BY <1>1, <1>2 DEF Pending, Calling, Sent
  <1> DEFINE replied == {normal[i].dev : i \in 1 .. Len(normal)}
  <1>4. confirmed' = confirmed \cup (replied \X {call})
    BY DEF Finish
  <1>5. replied \in SUBSET {d \in Devices : call \in Contract!Seen(d)}
    <2> DEFINE S == [dev : Devices, id : Ids]
    <2>1. \A i \in 1 .. Len(normal) : normal[i] \in S
      BY SeqElements
    <2>2. \A i \in 1 .. Len(normal) : normal[i].dev \in Devices
      BY <2>1
    <2> HIDE DEF S
    <2>3. ASSUME NEW i \in 1 .. Len(normal) PROVE call \in Contract!Seen(normal[i].dev)
      BY <2>3 DEF Seen, Contract!Seen
    <2> QED
      BY <2>2, <2>3
  <1>6. unanswered' \in {unanswered, TRUE}
    BY DEF Finish
  <1>7. unanswered' \/ Pending = {}
    BY <1>1, <1>3 DEF OpenInv, InFlight, Sent
  <1> HIDE DEF replied
  <1> QED
    BY <1>1, <1>3, <1>4, <1>5, <1>6, <1>7 DEF Contract!Return, Pending, Phase, Sent

\* A device that executes a command, or answers one that it does not know or has
\* executed before, takes it from what is pending.
LEMMA ServeExecutesOne ==
  ASSUME "duplicate" \notin Faults, TypeInv, Serve
  PROVE  [Contract!Next]_(Contract!vars)
  <1>1. PICK q \in reqs :
          /\ reqs' = reqs \ {q}
          /\ executed' = IF q.cmd \in Known /\ q.call \notin Seen(q.dev)
                         THEN [executed EXCEPT ![q.dev] = Append(@, q.call)]
                         ELSE executed
    BY ConsumeOnce DEF Serve
  <1>2. /\ UNCHANGED <<phase, call, next, confirmed, unanswered>> /\ Phase' = Phase
    BY DEF Serve, callVars, doneVars, Phase, Calling
  <1> DEFINE p == <<q.dev, q.call>>
  <1>3. p \in Pending
    BY DEF Pending, Sent
  <1>4. Pending' \in {Pending, Pending \ {p}}
    <2>1. Sent' \subseteq Sent /\ Sent \subseteq Sent' \cup {p}
      BY <1>1 DEF Sent
    <2>2. Unsent' = Unsent /\ Calling' = Calling
      BY <1>2 DEF Unsent, Calling, NTargets
    <2>3. Pending' \subseteq Pending /\ Pending \subseteq Pending' \cup {p}
      BY <1>2, <2>1, <2>2 DEF Pending
    <2> HIDE DEF p
    <2> QED
      BY <2>3
  <1>5. p[1] = q.dev /\ p[2] = q.call /\ Seen(q.dev) = Contract!Seen(q.dev)
    BY DEF Seen, Contract!Seen
  <1> HIDE DEF p
  <1>6. CASE q.cmd \in Known /\ q.call \notin Seen(q.dev)
    <2>1. executed' = [executed EXCEPT ![p[1]] = Append(@, p[2])]
      BY <1>1, <1>5, <1>6
    <2>2. p[2] \notin Contract!Seen(p[1])
      BY <1>5, <1>6
    <2>3. Contract!Execute
      BY <1>2, <1>3, <1>4, <2>1, <2>2 DEF Contract!Execute, Pending, Phase, Sent
    <2> QED
      BY <2>3 DEF Contract!Next
  <1>7. CASE ~ (q.cmd \in Known /\ q.call \notin Seen(q.dev))
    <2>1. UNCHANGED <<Phase, call, executed, confirmed, unanswered>>
      BY <1>1, <1>2, <1>7
    <2>2. CASE Pending' = Pending
      BY <2>1, <2>2 DEF Contract!vars, Pending, Phase, Sent
    <2>3. CASE Pending' = Pending \ {p}
      <3>1. Contract!Discard
        BY <1>3, <2>1, <2>3 DEF Contract!Discard, Pending, Phase, Sent
      <3> QED
        BY <3>1 DEF Contract!Next
    <2> QED
      BY <1>4, <2>2, <2>3
  <1> QED
    BY <1>6, <1>7

\* A call that panics leaves what it has sent pending.
LEMMA PanicIsAllowed ==
  ASSUME Calling, \/ phase' = "assert" /\ unanswered
                  \/ phase' = "expect",
         UNCHANGED <<reqs, call, executed, confirmed, unanswered>>
  PROVE  Contract!Panic
  <1>1. Phase = "calling" /\ Phase' = phase'
    BY DEF Phase, Calling
  <1>2. Pending' \subseteq Pending
    BY DEF Pending, Sent, Calling
  <1> QED
    BY <1>1, <1>2
    DEF Contract!Panic, Contract!StaleReply, Contract!BadReply, Pending, Phase, Sent

\* Every step of send_cmd, its devices and the network is one of RemoteCall, or hidden.
LEMMA StepKeepsContract ==
  ASSUME Faults \subseteq {"garbage", "socket"}, SendInv, SendInv', [Next]_vars
  PROVE  [Contract!Next]_(Contract!vars)
  <1>0. /\ TypeInv /\ LabelInv /\ OpenInv /\ OpenInv' /\ LabelInv' /\ TypeInv'
        /\ NTargets \in Nat /\ next \in Nat /\ unanswered \in BOOLEAN
    <2>1. /\ TypeInv /\ LabelInv /\ OpenInv /\ OpenInv' /\ LabelInv' /\ TypeInv'
      BY DEF SendInv
    <2>2. NTargets \in Nat /\ next \in Nat /\ unanswered \in BOOLEAN
      BY <2>1, TargetType DEF TypeInv, TypeOK, TablesOK
    <2> QED
      BY <2>1, <2>2
  <1>1. CASE Call
    BY <1>0, <1>1, CallBegins DEF Contract!Next
  <1>2. CASE SendTo \/ WouldBlock
    BY <1>0, <1>2, SendingIsHidden
  <1>3. CASE AllSent
    <2>1. /\ UNCHANGED <<reqs, call, next, executed, normal_reply>>
          /\ phase = "send" /\ Calling /\ next > NTargets
      BY <1>3 DEF AllSent, callVars, netVars, Calling
    <2>2. CASE phase' = "wait" /\ UNCHANGED doneVars
      <3>1. UNCHANGED <<call, executed, confirmed, unanswered>> /\ Phase' = Phase /\ Sent' = Sent
        BY <2>1, <2>2 DEF doneVars, Phase, Calling, Sent
      <3>2. Unsent' = Unsent
        BY <2>1, <2>2 DEF Unsent, NTargets
      <3>3. Pending' = Pending
        BY <2>1, <2>2, <3>1, <3>2 DEF Pending, Calling
      <3> QED
        BY <3>1, <3>3 DEF Contract!vars, Pending, Phase, Sent
    <2>3. CASE Finish({}, normal_reply)
      <3>1. \A i \in 1 .. Len(normal_reply) : call \in Seen(normal_reply[i].dev)
        BY <1>0, <2>1 DEF LabelInv
      <3>2. normal_reply \in Seq([dev : Devices, id : Ids])
        BY <1>0 DEF TypeInv, TypeOK, TablesOK
      <3>3. Contract!Return
        BY <1>0, <2>1, <2>3, <3>1, <3>2, FinishReturns
      <3> QED
        BY <3>3 DEF Contract!Next
    <2> QED
      BY <1>3, <2>2, <2>3 DEF AllSent
  <1>4. CASE Receive
    <2>1. /\ UNCHANGED <<reqs, call, next, executed>> /\ Calling
      BY <1>4 DEF Receive, callVars, Calling
    <2>2. PICK r \in reps :
            /\ Record(r)
            /\ \/ ~ Expected(r) /\ phase' = "assert" /\ UNCHANGED doneVars
               \/ Expected(r) /\ phase = "wait" /\ Finish({}, normal_reply')
               \/ Expected(r) /\ UNCHANGED phase /\ UNCHANGED doneVars
      BY <1>4 DEF Receive
    <2>3. CASE ~ Expected(r) /\ phase' = "assert" /\ UNCHANGED doneVars
      <3>1. unanswered
        BY <1>0, <2>1, <2>3 DEF OpenInv, InFlight, Expected, GetMsgId, doneVars
      <3>2. Contract!Panic
        BY <2>1, <2>3, <3>1, PanicIsAllowed DEF doneVars
      <3> QED
        BY <3>2 DEF Contract!Next
    <2>4. CASE Expected(r) /\ phase = "wait" /\ Finish({}, normal_reply')
      <3>1. r.id \in msg_set /\ r.call = call
        BY <1>0, <2>1, <2>4 DEF Expected, GetMsgId, LabelInv, InFlight
      <3>2. \A i \in 1 .. Len(normal_reply') : call \in Seen(normal_reply'[i].dev)
        BY <1>0, <2>1, <2>2, <3>1, RecordedExecuted
      <3>3. normal_reply' \in Seq([dev : Devices, id : Ids])
        BY <1>0 DEF TypeInv, TypeOK, TablesOK
      <3>4. next > NTargets
        BY <1>0, <2>4 DEF OpenInv
      <3>5. Contract!Return
        BY <1>0, <2>1, <2>4, <3>2, <3>3, <3>4, FinishReturns
      <3> QED
        BY <3>5 DEF Contract!Next
    <2>5. CASE Expected(r) /\ UNCHANGED phase /\ UNCHANGED doneVars
      <3>1. Phase' = Phase /\ Sent' = Sent /\ Unsent' = Unsent /\ Calling' = Calling
        BY <2>1, <2>5 DEF Phase, Calling, Sent, Unsent, NTargets
      <3>2. Pending' = Pending
        BY <2>1, <3>1 DEF Pending
      <3> QED
        BY <2>1, <2>5, <3>1, <3>2 DEF Contract!vars, Pending, Phase, Sent, doneVars
    <2> QED
      BY <2>2, <2>3, <2>4, <2>5
  <1>5. CASE TimedOut
    <2>1. /\ UNCHANGED <<reqs, call, next, executed, normal_reply>>
          /\ phase = "wait" /\ Calling /\ Finish(msg_set, normal_reply)
      BY <1>5 DEF TimedOut, callVars, netVars, Calling
    <2>2. \A i \in 1 .. Len(normal_reply) : call \in Seen(normal_reply[i].dev)
      BY <1>0, <2>1 DEF LabelInv
    <2>3. normal_reply \in Seq([dev : Devices, id : Ids])
      BY <1>0 DEF TypeInv, TypeOK, TablesOK
    <2>4. next > NTargets
      BY <1>0, <2>1 DEF OpenInv
    <2>5. Contract!Return
      BY <1>0, <2>1, <2>2, <2>3, <2>4, FinishReturns
    <2> QED
      BY <2>5 DEF Contract!Next
  <1>6. CASE ExpectFails
    <2>1. /\ Calling /\ phase' = "expect"
          /\ UNCHANGED <<reqs, call, executed, confirmed, unanswered>>
      BY <1>6 DEF ExpectFails, ReadFails, SocketFails, Calling, callVars, netVars, doneVars
    <2> QED
      BY <2>1, PanicIsAllowed DEF Contract!Next
  <1>7. CASE Serve
    <2>1. "duplicate" \notin Faults
      OBVIOUS
    <2> QED
      BY <1>0, <1>7, <2>1, ServeExecutesOne
  <1>8. CASE Stopped \/ UNCHANGED vars
    <2>1. UNCHANGED vars
      BY <1>8 DEF Stopped
    <2>2. UNCHANGED <<Phase, Pending, call, executed, confirmed, unanswered>>
      BY <2>1 DEF vars, callVars, netVars, doneVars, Phase, Pending, Sent, Unsent, Calling, NTargets
    <2> QED
      BY <2>2 DEF Contract!vars, Phase, Pending, Sent
  <1> QED
    BY <1>1, <1>2, <1>3, <1>4, <1>5, <1>6, <1>7, <1>8 DEF Next, Client

\* Whatever is lost, late or not decodable, send_cmd is an implementation of
\* RemoteCall: whoever calls it may count on that and forget ids and datagrams.
THEOREM ContractKept ==
  ASSUME Faults \subseteq {"garbage", "socket"} PROVE Spec => KeepsContract
  <1>1. Init => Contract!Init
    BY DEF Init, Contract!Init, Calling
  <1>2. SendInv /\ SendInv' /\ [Next]_vars => [Contract!Next]_(Contract!vars)
    BY StepKeepsContract
  <1> QED
    BY <1>1, <1>2, AlwaysSendInv, PTL DEF Spec, KeepsContract, Contract!Spec

-----------------------------------------------------------------------------
(* What a caller can conclude from the contract alone.                     *)

\* A device has executed the calls in the order in which they were made.
InOrder(d) == \A i, j \in 1 .. Len(executed[d]) : i < j => executed[d][i] < executed[d][j]

\* While every call was answered nothing but the call under way is pending, and nothing
\* between two calls.
OrderInv ==
  /\ call \in Nat
  /\ executed \in [Devices -> Seq(Nat)]
  /\ \A d \in Devices : \A i \in 1 .. Len(executed[d]) : executed[d][i] <= call
  /\ \A p \in Pending : p[1] \in Devices /\ p[2] \in Nat /\ p[2] <= call
  /\ ~ unanswered =>
       /\ \A p \in Pending : p[2] = call
       /\ Phase = "idle" => Pending = {}
       /\ \A d \in Devices : InOrder(d)

\* A device that executes a pending call puts it behind those it has executed.
LEMMA ExecuteKeepsOrder ==
  ASSUME OrderInv, Contract!Execute
  PROVE  OrderInv'
  <1>1. PICK p \in Pending :
          /\ p[2] \notin Contract!Seen(p[1])
          /\ executed' = [executed EXCEPT ![p[1]] = Append(@, p[2])]
          /\ Pending' \in {Pending, Pending \ {p}}
    BY DEF Contract!Execute, Pending, Sent
  <1>2. UNCHANGED <<Phase, call, unanswered>>
    BY DEF Contract!Execute, Phase
  <1>3. p[1] \in Devices /\ p[2] \in Nat /\ p[2] <= call /\ call \in Nat
    BY DEF OrderInv
  <1>4. ASSUME NEW d \in Devices
        PROVE  /\ executed'[d] \in Seq(Nat)
               /\ \A i \in 1 .. Len(executed'[d]) : executed'[d][i] <= call
               /\ ~ unanswered => InOrder(d)'
    <2>1. executed[d] \in Seq(Nat) /\ \A i \in 1 .. Len(executed[d]) : executed[d][i] <= call
      BY DEF OrderInv
    <2>2. CASE d # p[1]
      <3>1. executed'[d] = executed[d]
        BY <1>1, <2>2 DEF OrderInv
      <3> QED
        BY <2>1, <3>1 DEF OrderInv, InOrder
    <2>3. CASE d = p[1]
      <3> DEFINE s == executed[d]
      <3>1. executed'[d] = Append(s, p[2])
        BY <1>1, <2>3 DEF OrderInv
      <3>2. /\ Append(s, p[2]) \in Seq(Nat) /\ Len(Append(s, p[2])) = Len(s) + 1 /\ Len(s) \in Nat
            /\ \A i \in 1 .. Len(s) : Append(s, p[2])[i] = s[i]
            /\ Append(s, p[2])[Len(s) + 1] = p[2]
        BY <1>3, <2>1, SeqAppended, SeqElements
      <3>3. \A i \in 1 .. Len(s) : s[i] \in Nat /\ s[i] <= call /\ s[i] # p[2]
        BY <1>1, <2>1, <2>3, SeqElements DEF Contract!Seen
      <3>4. \A i \in 1 .. Len(s) + 1 : executed'[d][i] <= call
        BY <1>3, <3>1, <3>2, <3>3
      <3>5. ASSUME ~ unanswered PROVE InOrder(d)'
        <4>1. p[2] = call /\ \A i, j \in 1 .. Len(s) : i < j => s[i] < s[j]
          BY <3>5 DEF OrderInv, InOrder
        <4>2. \A i \in 1 .. Len(s) : s[i] < p[2]
          BY <1>3, <3>3, <4>1
        <4> HIDE DEF s
        <4>3. ASSUME NEW i \in 1 .. Len(s) + 1, NEW j \in 1 .. Len(s) + 1, i < j
              PROVE  executed'[d][i] < executed'[d][j]
          <5>1. i \in 1 .. Len(s)
            BY <3>2, <4>3
          <5>2. CASE j = Len(s) + 1
            BY <3>1, <3>2, <4>2, <5>1, <5>2
          <5>3. CASE j \in 1 .. Len(s)
            BY <3>1, <3>2, <4>1, <4>3, <5>1, <5>3
          <5> QED
            BY <3>2, <5>2, <5>3
        <4> QED
          BY <3>1, <3>2, <4>3 DEF InOrder
      <3> QED
        BY <3>1, <3>2, <3>4, <3>5
    <2> QED
      BY <2>2, <2>3
  <1>5. executed' \in [Devices -> Seq(Nat)]
    <2>1. executed' = [d \in Devices |-> executed'[d]]
      BY <1>1 DEF OrderInv
    <2> QED
      BY <1>4, <2>1
  <1> QED
    BY <1>1, <1>2, <1>3, <1>4, <1>5 DEF OrderInv

\* Every step of the contract keeps the order.
LEMMA OrderStep ==
  ASSUME OrderInv, [Contract!Next]_(Contract!vars)
  PROVE  OrderInv'
  <1>1. CASE Contract!Begin
    <2>1. PICK targets \in SUBSET Devices : Pending' = Pending \cup targets \X {call'}
      BY <1>1 DEF Contract!Begin, Pending, Sent
    <2>2. /\ Phase = "idle" /\ Phase' = "calling" /\ call' = call + 1
          /\ UNCHANGED <<executed, unanswered>>
      BY <1>1 DEF Contract!Begin, Phase
    <2>3. \A p \in Pending' : p \in Pending \/ (p[1] \in Devices /\ p[2] = call')
      BY <2>1
    <2>4. executed \in [Devices -> Seq(Nat)] /\ call \in Nat
      BY DEF OrderInv
    <2>5. \A d \in Devices : \A i \in 1 .. Len(executed[d]) : executed[d][i] \in Nat
      BY <2>4, SeqElements
    <2>6. \A d \in Devices : \A i \in 1 .. Len(executed[d]) : executed[d][i] <= call'
      BY <2>2, <2>4, <2>5 DEF OrderInv
    <2>7. \A p \in Pending' : p[1] \in Devices /\ p[2] \in Nat /\ p[2] <= call'
      BY <2>2, <2>3, <2>4 DEF OrderInv
    <2>8. ~ unanswered => \A p \in Pending' : p[2] = call'
      BY <2>2, <2>3 DEF OrderInv
    <2> QED
      BY <2>2, <2>4, <2>6, <2>7, <2>8 DEF OrderInv, InOrder
  <1>2. CASE Contract!Discard \/ Contract!Panic
    <2>1. /\ Pending' \subseteq Pending /\ UNCHANGED <<call, executed, unanswered>>
          /\ Phase' = Phase \/ Phase' \in {"assert", "expect"}
      BY <1>2 DEF Contract!Discard, Contract!Panic, Contract!StaleReply, Contract!BadReply,
                  Pending, Phase, Sent
    <2>2. \A d \in Devices : InOrder(d)' <=> InOrder(d)
      BY <2>1 DEF InOrder
    <2> QED
      BY <2>1, <2>2 DEF OrderInv
  <1>3. CASE Contract!Return
    <2>1. /\ UNCHANGED <<call, Pending, executed>>
          /\ unanswered' \in {unanswered, TRUE} /\ (unanswered' \/ Pending = {})
      BY <1>3 DEF Contract!Return, Pending, Sent
    <2>2. ~ unanswered' => ~ unanswered /\ Pending' = {}
      BY <2>1
    <2>3. \A d \in Devices : InOrder(d)' <=> InOrder(d)
      BY <2>1 DEF InOrder
    <2> HIDE DEF Pending
    <2> QED
      BY <2>1, <2>2, <2>3 DEF OrderInv
  <1>4. CASE UNCHANGED (Contract!vars)
    <2>1. UNCHANGED <<Phase, call, Pending, executed, unanswered>>
      BY <1>4 DEF Contract!vars, Phase, Pending, Sent
    <2> QED
      BY <2>1 DEF OrderInv, InOrder
  <1> QED
    BY <1>1, <1>2, <1>3, <1>4, ExecuteKeepsOrder DEF Contract!Next

\* As long as every call was answered by all, every device has executed the calls in the
\* order in which they were made, and between two calls nothing is left that a device
\* might still execute.  This follows from RemoteCall, without a look at send_cmd.
LEMMA ContractOrders ==
  Contract!Spec => [](~ unanswered =>
    /\ \A d \in Devices : InOrder(d)
    /\ Phase = "idle" => Pending = {})
  <1>1. Contract!Init => OrderInv
    <2> SUFFICES ASSUME Contract!Init PROVE OrderInv
      OBVIOUS
    <2>1. /\ call = 0 /\ Pending = {} /\ executed = [d \in Devices |-> <<>>]
      BY DEF Contract!Init, Pending, Sent
    <2>2. \A d \in Devices : executed[d] = <<>> /\ Len(executed[d]) = 0
      BY <2>1
    <2>3. executed \in [Devices -> Seq(Nat)]
      BY <2>1
    <2> QED
      BY <2>1, <2>2, <2>3 DEF OrderInv, InOrder
  <1>2. OrderInv /\ [Contract!Next]_(Contract!vars) => OrderInv'
    BY OrderStep
  <1>3. OrderInv => (~ unanswered =>
          /\ \A d \in Devices : InOrder(d)
          /\ Phase = "idle" => Pending = {})
    BY DEF OrderInv
  <1> QED
    BY <1>1, <1>2, <1>3, PTL DEF Contract!Spec

\* So it holds for whatever is sent over send_cmd, unless a datagram is duplicated or an
\* id repeated: commands overtake each other only after a call that was not answered.
THEOREM AnsweredInOrder ==
  ASSUME Faults \subseteq {"garbage", "socket"}
  PROVE  Spec => [](~ unanswered =>
           /\ \A d \in Devices : InOrder(d)
           /\ phase = "idle" => reqs = {})
  <1>1. (~ unanswered => (\A d \in Devices : InOrder(d)) /\ (Phase = "idle" => Pending = {}))
          => (~ unanswered => (\A d \in Devices : InOrder(d)) /\ (phase = "idle" => reqs = {}))
    <2>1. phase = "idle" => Phase = "idle"
      BY DEF Phase, Calling
    <2>2. Pending = {} => reqs = {}
      BY DEF Pending, Sent
    <2> QED
      BY <2>1, <2>2
  <1> QED
    BY <1>1, ContractKept, ContractOrders, PTL DEF KeepsContract

-----------------------------------------------------------------------------
(* The summary accounts for every target.                                  *)

\* How many of the targets the call under way, or the last one, has sent to.
SentUpTo == IF phase = "send" THEN next - 1 ELSE IF phase = "drain" THEN next ELSE NTargets

\* The entries of device d in a list of replies.
EntriesOf(list, d) == {i \in 1 .. Len(list) : list[i].dev = d}

\* The turns of the loop that have sent to device d, and its open ids.
SentTo(d) == {k \in 1 .. SentUpTo : Targets[k] = d}
OpenTo(d) == {id \in msg_set : addr_msg_id_map[id] = d}

\* Each turn has left an open id or an entry of a list.
Balanced(d) ==
  Cardinality(SentTo(d)) = Cardinality(EntriesOf(normal_reply, d)) +
                           Cardinality(EntriesOf(invalid_reply, d)) + Cardinality(OpenTo(d))

\* While a call is under way its turns are balanced, and its datagrams come from or go
\* to the device that the map names; afterwards the summary accounts for all.
AccountInv ==
  /\ IsFiniteSet(msg_set)
  /\ \A m \in InFlight : m.call = call =>
       m.id \in DOMAIN addr_msg_id_map /\ addr_msg_id_map[m.id] = m.dev
  /\ Calling => \A d \in Devices : Balanced(d)
  /\ Accounted

\* Lists are finite, and so are the entries of a device.
LEMMA EntriesCount ==
  ASSUME NEW S, NEW list \in Seq(S), NEW d
  PROVE  IsFiniteSet(EntriesOf(list, d)) /\ Cardinality(EntriesOf(list, d)) \in Nat
  <1>1. IsFiniteSet(1 .. Len(list))
    BY FS_Interval
  <1>2. EntriesOf(list, d) \in SUBSET (1 .. Len(list))
    BY DEF EntriesOf
  <1>3. IsFiniteSet(EntriesOf(list, d))
    BY <1>1, <1>2, FS_Subset
  <1> QED
    BY <1>3, FS_CardinalityType

\* An entry that is appended counts for its device only.
LEMMA EntryAppended ==
  ASSUME NEW S, NEW list \in Seq(S), NEW e \in S, NEW d
  PROVE  Cardinality(EntriesOf(Append(list, e), d)) =
           Cardinality(EntriesOf(list, d)) + (IF e.dev = d THEN 1 ELSE 0)
  <1> DEFINE longer == Append(list, e)
             n == Len(list) + 1
  <1>1. /\ Len(longer) = n /\ longer[n] = e /\ Len(list) \in Nat
        /\ \A i \in 1 .. Len(list) : longer[i] = list[i]
    BY SeqAppended
  <1> HIDE DEF longer
  <1>2. IsFiniteSet(EntriesOf(list, d)) /\ Cardinality(EntriesOf(list, d)) \in Nat
    BY EntriesCount
  <1>3. EntriesOf(longer, d) = IF e.dev = d THEN EntriesOf(list, d) \cup {n} ELSE EntriesOf(list, d)
    BY <1>1 DEF EntriesOf
  <1>4. n \notin EntriesOf(list, d)
    BY <1>1 DEF EntriesOf
  <1>5. Cardinality(EntriesOf(list, d) \cup {n}) = Cardinality(EntriesOf(list, d)) + 1
    BY <1>2, <1>4, FS_AddElement
  <1>6. Cardinality(EntriesOf(longer, d)) =
          Cardinality(EntriesOf(list, d)) + (IF e.dev = d THEN 1 ELSE 0)
    BY <1>2, <1>3, <1>5
  <1> QED
    BY <1>6 DEF longer

\* A summary has one entry of no_reply for every open id.
LEMMA NoReplyCount ==
  ASSUME NEW open, IsFiniteSet(open), NEW d
  PROVE  Cardinality({n \in NoReply(open) : n.dev = d}) =
           Cardinality({id \in open : addr_msg_id_map[id] = d})
  <1> DEFINE A == {id \in open : addr_msg_id_map[id] = d}
             B == {n \in NoReply(open) : n.dev = d}
             entry(id) == [dev |-> addr_msg_id_map[id], id |-> id]
             f == [id \in A |-> entry(id)]
  <1>1. IsFiniteSet(A)
    BY FS_Subset
  <1>2. f \in [A -> B]
    BY DEF NoReply
  <1>3. \A x, y \in A : f[x] = f[y] => x = y
    <2>1. \A x \in A : f[x].id = x
      OBVIOUS
    <2> QED
      BY <2>1
  <1>4. \A n \in B : \E id \in A : f[id] = n
    BY DEF NoReply
  <1>5. f \in Bijection(A, B)
    BY <1>2, <1>3, <1>4 DEF Bijection, Injection, Surjection, IsInjective
  <1>6. ExistsBijection(A, B)
    BY <1>5 DEF ExistsBijection
  <1> HIDE DEF A, B, f
  <1>7. Cardinality(B) = Cardinality(A)
    BY <1>1, <1>6, FS_Bijection
  <1> QED
    BY <1>7 DEF A, B

\* The sets that are counted are finite.
LEMMA CountsAreNumbers ==
  ASSUME TypeInv, IsFiniteSet(msg_set), NEW d
  PROVE  /\ IsFiniteSet(SentTo(d)) /\ Cardinality(SentTo(d)) \in Nat
         /\ IsFiniteSet(OpenTo(d)) /\ Cardinality(OpenTo(d)) \in Nat
         /\ Cardinality(EntriesOf(normal_reply, d)) \in Nat
         /\ Cardinality(EntriesOf(invalid_reply, d)) \in Nat
  <1>1. SentUpTo \in Nat
    BY TargetType DEF SentUpTo, TypeInv, TypeOK, TablesOK
  <1>2. IsFiniteSet(1 .. SentUpTo)
    BY <1>1, FS_Interval
  <1>3. IsFiniteSet(SentTo(d))
    BY <1>2, FS_Subset DEF SentTo
  <1>4. IsFiniteSet(OpenTo(d))
    BY FS_Subset DEF OpenTo
  <1>5. /\ normal_reply \in Seq([dev : Devices, id : Ids])
        /\ invalid_reply \in Seq([dev : Devices, id : Ids])
    BY DEF TypeInv, TypeOK, TablesOK
  <1>6. /\ Cardinality(EntriesOf(normal_reply, d)) \in Nat
        /\ Cardinality(EntriesOf(invalid_reply, d)) \in Nat
    BY <1>5, EntriesCount
  <1> QED
    BY <1>3, <1>4, <1>6, FS_CardinalityType

\* A call that ends when its turns are balanced and all are made accounts for all.
LEMMA FinishAccounts ==
  ASSUME TypeInv, IsFiniteSet(msg_set), \A d \in Devices : Balanced(d), SentUpTo = NTargets,
         no_reply' = NoReply(msg_set), UNCHANGED <<normal_reply, invalid_reply>>
  PROVE  Accounted'
  <1> SUFFICES ASSUME NEW d \in Devices
               PROVE  Cardinality({k \in 1 .. NTargets : Targets[k] = d}) =
                        Cardinality(EntriesOf(normal_reply, d)) +
                        Cardinality(EntriesOf(invalid_reply, d)) +
                        Cardinality({n \in no_reply' : n.dev = d})
    BY DEF Accounted, Entries, EntriesOf, NTargets
  <1>1. Cardinality({n \in no_reply' : n.dev = d}) = Cardinality(OpenTo(d))
    BY NoReplyCount DEF OpenTo
  <1>2. {k \in 1 .. NTargets : Targets[k] = d} = SentTo(d)
    BY DEF SentTo
  <1> QED
    BY <1>1, <1>2 DEF Balanced

\* Sending to a target opens one id for it.
LEMMA SendToAccounts ==
  ASSUME "collision" \notin Faults, TypeInv, AccountInv, SendTo PROVE AccountInv'
  <1>1. PICK id \in Ids :
          /\ id \notin UsedIds /\ msg_set' = msg_set \cup {id}
          /\ addr_msg_id_map' =
               [i \in DOMAIN addr_msg_id_map \cup {id} |->
                  IF i = id THEN Targets[next] ELSE addr_msg_id_map[i]]
          /\ reqs' = reqs \cup {SetMsgId(cmd, id, Targets[next], call)}
    BY DEF SendTo, FreshId, Registered
  <1>2. /\ UNCHANGED <<reps, call, next, normal_reply, invalid_reply>>
        /\ phase = "send" /\ phase' = "drain" /\ next \in 1 .. NTargets
        /\ msg_set \subseteq DOMAIN addr_msg_id_map /\ IsFiniteSet(msg_set)
    BY DEF SendTo, callVars, summaryVars, TypeInv, TypeOK, TablesOK, AccountInv
  <1> DEFINE new == SetMsgId(cmd, id, Targets[next], call)
  <1>3. new.id = id /\ new.call = call /\ new.dev = Targets[next]
    BY DEF SetMsgId
  <1>4. InFlight' = InFlight \cup {new}
    BY <1>1, <1>2 DEF InFlight
  <1> HIDE DEF new
  <1>5. id \notin DOMAIN addr_msg_id_map /\ \A m \in InFlight : m.id # id
    BY <1>1 DEF UsedIds, InFlight
  <1>6. /\ DOMAIN addr_msg_id_map' = DOMAIN addr_msg_id_map \cup {id}
        /\ addr_msg_id_map'[id] = Targets[next]
        /\ \A i \in DOMAIN addr_msg_id_map : addr_msg_id_map'[i] = addr_msg_id_map[i]
    BY <1>1, <1>5
  <1>7. \A m \in InFlight' : m.call = call' =>
          m.id \in DOMAIN addr_msg_id_map' /\ addr_msg_id_map'[m.id] = m.dev
    BY <1>2, <1>3, <1>4, <1>5, <1>6 DEF AccountInv
  <1>8. ASSUME NEW d \in Devices PROVE Balanced(d)'
    <2>1. /\ IsFiniteSet(SentTo(d)) /\ Cardinality(SentTo(d)) \in Nat
          /\ IsFiniteSet(OpenTo(d)) /\ Cardinality(OpenTo(d)) \in Nat
          /\ Cardinality(EntriesOf(normal_reply, d)) \in Nat
          /\ Cardinality(EntriesOf(invalid_reply, d)) \in Nat
      BY <1>2, CountsAreNumbers
    <2>2. SentUpTo = next - 1 /\ SentUpTo' = next
      BY <1>2 DEF SentUpTo
    <2>3. next \notin SentTo(d) /\ id \notin OpenTo(d)
      BY <1>2, <1>5, <2>2 DEF SentTo, OpenTo
    <2>4. SentTo(d)' = IF Targets[next] = d THEN SentTo(d) \cup {next} ELSE SentTo(d)
      <3>1. 1 .. SentUpTo' = (1 .. SentUpTo) \cup {next}
        BY <1>2, <2>2
      <3> QED
        BY <3>1 DEF SentTo
    <2>5. OpenTo(d)' = IF Targets[next] = d THEN OpenTo(d) \cup {id} ELSE OpenTo(d)
      BY <1>1, <1>2, <1>5, <1>6 DEF OpenTo
    <2>6. /\ Cardinality(SentTo(d) \cup {next}) = Cardinality(SentTo(d)) + 1
          /\ Cardinality(OpenTo(d) \cup {id}) = Cardinality(OpenTo(d)) + 1
      BY <2>1, <2>3, FS_AddElement
    <2>7. Balanced(d)
      BY <1>2 DEF AccountInv, Calling
    <2>8. /\ EntriesOf(normal_reply, d)' = EntriesOf(normal_reply, d)
          /\ EntriesOf(invalid_reply, d)' = EntriesOf(invalid_reply, d)
      BY <1>2
    <2> QED
      BY <2>1, <2>4, <2>5, <2>6, <2>7, <2>8 DEF Balanced
  <1>9. IsFiniteSet(msg_set')
    BY <1>1, <1>2, FS_AddElement
  <1>10. Accounted'
    BY <1>2 DEF Accounted, Returned
  <1> QED
    BY <1>7, <1>8, <1>9, <1>10 DEF AccountInv

\* A reply turns an open id into an entry of a list.
LEMMA ReceiveAccounts ==
  ASSUME TypeInv, LabelInv, AccountInv, Receive PROVE AccountInv'
  <1>1. PICK r \in reps :
          /\ reps' \in Consume(reps, r) /\ Record(r) /\ msg_set' = msg_set \ {r.id}
          /\ \/ phase' = "assert"
             \/ r.id \in msg_set /\ phase = "wait" /\ msg_set' = {} /\ Finish({}, normal_reply')
             \/ r.id \in msg_set /\ phase' = phase
    BY DEF Receive, Remaining, Expected, GetMsgId
  <1>2. /\ UNCHANGED <<reqs, call, next, addr_msg_id_map>> /\ Calling /\ IsFiniteSet(msg_set)
    BY DEF Receive, callVars, Calling, AccountInv
  <1>3. IsFiniteSet(msg_set')
    BY <1>1, <1>2, FS_RemoveElement
  <1>4. reps' \subseteq reps
    BY <1>1, ConsumeType
  <1>5. \A m \in InFlight' : m.call = call' =>
          m.id \in DOMAIN addr_msg_id_map' /\ addr_msg_id_map'[m.id] = m.dev
    BY <1>2, <1>4 DEF AccountInv, InFlight
  <1>6. CASE phase' = "assert"
    BY <1>3, <1>5, <1>6 DEF AccountInv, Calling, Accounted, Returned
  <1>7. CASE phase' # "assert"
    <2>1. r.id \in msg_set /\ r.call = call /\ r.dev = addr_msg_id_map[r.id]
      BY <1>1, <1>2, <1>7 DEF LabelInv, AccountInv, InFlight
    <2> DEFINE S == [dev : Devices, id : Ids]
    <2>2. normal_reply \in Seq(S) /\ invalid_reply \in Seq(S) /\ Entry(r) \in S
      BY EntryType DEF TypeInv, TypeOK, TablesOK
    <2> HIDE DEF S
    <2>3. Entry(r).dev = r.dev
      BY DEF Entry
    <2>4. ASSUME NEW d \in Devices
          PROVE  /\ Cardinality(EntriesOf(normal_reply', d)) +
                      Cardinality(EntriesOf(invalid_reply', d)) + Cardinality(OpenTo(d)') =
                      Cardinality(SentTo(d))
                 /\ Cardinality(EntriesOf(normal_reply', d)) \in Nat
                 /\ Cardinality(EntriesOf(invalid_reply', d)) \in Nat
      <3>1. /\ Cardinality(SentTo(d)) \in Nat
            /\ IsFiniteSet(OpenTo(d)) /\ Cardinality(OpenTo(d)) \in Nat
            /\ Cardinality(EntriesOf(normal_reply, d)) \in Nat
            /\ Cardinality(EntriesOf(invalid_reply, d)) \in Nat
        BY <1>2, CountsAreNumbers
      <3> DEFINE one == IF r.dev = d THEN 1 ELSE 0
      <3>2. \/ /\ Cardinality(EntriesOf(normal_reply', d)) = Cardinality(EntriesOf(normal_reply, d)) + one
               /\ invalid_reply' = invalid_reply
            \/ /\ Cardinality(EntriesOf(invalid_reply', d)) = Cardinality(EntriesOf(invalid_reply, d)) + one
               /\ normal_reply' = normal_reply
        <4>1. CASE r.valid
          <5>1. normal_reply' = Append(normal_reply, Entry(r)) /\ invalid_reply' = invalid_reply
            BY <1>1, <4>1 DEF Record, IsInvalid
          <5> QED
            BY <2>2, <2>3, <5>1, EntryAppended
        <4>2. CASE ~ r.valid
          <5>1. invalid_reply' = Append(invalid_reply, Entry(r)) /\ normal_reply' = normal_reply
            BY <1>1, <4>2 DEF Record, IsInvalid
          <5> QED
            BY <2>2, <2>3, <5>1, EntryAppended
        <4> QED
          BY <4>1, <4>2
      <3>3. OpenTo(d)' = OpenTo(d) \ {r.id} /\ (r.id \in OpenTo(d) <=> r.dev = d)
        BY <1>1, <1>2, <2>1 DEF OpenTo
      <3>4. Cardinality(OpenTo(d)') = Cardinality(OpenTo(d)) - one
        <4>1. Cardinality(OpenTo(d) \ {r.id}) =
                IF r.id \in OpenTo(d) THEN Cardinality(OpenTo(d)) - 1 ELSE Cardinality(OpenTo(d))
          BY <3>1, FS_RemoveElement
        <4>2. CASE r.dev = d
          BY <3>1, <3>3, <4>1, <4>2
        <4>3. CASE r.dev # d
          BY <3>1, <3>3, <4>1, <4>3
        <4> QED
          BY <4>2, <4>3
      <3>5. Balanced(d)
        BY <1>2 DEF AccountInv
      <3> HIDE DEF one
      <3>6. one \in Nat
        BY DEF one
      <3> QED
        BY <3>1, <3>2, <3>4, <3>5, <3>6 DEF Balanced
    <2>5. CASE phase' = phase
      <3>1. \A d \in Devices : SentTo(d)' = SentTo(d)
        BY <1>2, <2>5 DEF SentTo, SentUpTo, NTargets
      <3>2. \A d \in Devices : Balanced(d)'
        BY <2>4, <3>1 DEF Balanced
      <3> QED
        BY <1>2, <1>3, <1>5, <2>5, <3>2 DEF AccountInv, Accounted, Returned, Calling
    <2>6. CASE phase = "wait" /\ msg_set' = {} /\ Finish({}, normal_reply')
      <3>1. phase' = "idle" /\ no_reply' = {} /\ SentUpTo = NTargets
        BY <2>6 DEF Finish, NoReply, SentUpTo
      <3>2. ASSUME NEW d \in Devices
            PROVE  Cardinality({k \in 1 .. NTargets : Targets[k] = d}) =
                     Cardinality(EntriesOf(normal_reply', d)) +
                     Cardinality(EntriesOf(invalid_reply', d)) +
                     Cardinality({n \in no_reply' : n.dev = d})
        <4>1. OpenTo(d)' = {} /\ {n \in no_reply' : n.dev = d} = {}
          BY <2>6, <3>1 DEF OpenTo
        <4>2. SentTo(d) = {k \in 1 .. NTargets : Targets[k] = d}
          BY <3>1 DEF SentTo
        <4> QED
          BY <2>4, <4>1, <4>2
      <3>3. Accounted'
        BY <3>2 DEF Accounted, Entries, EntriesOf, NTargets
      <3> QED
        BY <1>3, <1>5, <3>1, <3>3 DEF AccountInv, Calling
    <2> QED
      BY <1>1, <1>7, <2>5, <2>6
  <1> QED
    BY <1>6, <1>7

\* Every step keeps the accounts, unless ids repeat.
LEMMA AccountStep ==
  ASSUME "collision" \notin Faults, TypeInv, LabelInv, AccountInv, [Next]_vars PROVE AccountInv'
  <1>1. CASE Call
    <2>1. /\ UNCHANGED <<reqs, reps>> /\ phase' = "send" /\ next' = 1 /\ call' = call + 1
          /\ msg_set' = {} /\ normal_reply' = <<>> /\ invalid_reply' = <<>> /\ call \in Nat
      BY <1>1 DEF Call, OpenAtCall, netVars, TypeInv, TypeOK, TablesOK
    <2>2. \A m \in InFlight' : m.call # call'
      <3>1. \A m \in InFlight : m.call \in 1 .. call
        BY <2>1 DEF InFlight, LabelInv, TypeInv, TypeOK, TablesOK, Request, Reply
      <3> QED
        BY <2>1, <3>1 DEF InFlight
    <2>3. ASSUME NEW d \in Devices PROVE Balanced(d)'
      <3>1. SentUpTo' = 0
        BY <2>1 DEF SentUpTo
      <3>2. /\ SentTo(d)' = {} /\ OpenTo(d)' = {}
            /\ EntriesOf(normal_reply', d) = {} /\ EntriesOf(invalid_reply', d) = {}
        BY <2>1, <3>1 DEF SentTo, OpenTo, EntriesOf
      <3> QED
        BY <3>2, FS_EmptySet DEF Balanced
    <2> QED
      BY <2>1, <2>2, <2>3, FS_EmptySet DEF AccountInv, Accounted, Returned
  <1>2. CASE SendTo
    BY <1>2, SendToAccounts
  <1>3. CASE Receive
    BY <1>3, ReceiveAccounts
  <1>4. CASE WouldBlock \/ AllSent \/ TimedOut
    <2>1. /\ UNCHANGED <<reqs, reps, call, msg_set, addr_msg_id_map, normal_reply, invalid_reply>>
          /\ Calling
      BY <1>4 DEF WouldBlock, AllSent, TimedOut, Calling, callVars, netVars, summaryVars
    <2>2. next \in 1 .. NTargets + 1 /\ NTargets \in Nat /\ (phase = "drain" => next \in 1 .. NTargets)
      BY TargetType DEF TypeInv, TypeOK, TablesOK
    <2>3. CASE Calling'
      <3>1. SentUpTo' = SentUpTo
        BY <1>4, <2>2, <2>3 DEF WouldBlock, AllSent, TimedOut, Finish, Calling, SentUpTo, NTargets
      <3>2. \A d \in Devices : Balanced(d)'
        BY <2>1, <3>1 DEF AccountInv, Balanced, SentTo, OpenTo
      <3>3. Accounted'
        BY <2>3 DEF Accounted, Returned, Calling
      <3> QED
        BY <2>1, <3>2, <3>3 DEF AccountInv, InFlight
    <2>4. CASE ~ Calling'
      <3>1. SentUpTo = NTargets /\ no_reply' = NoReply(msg_set)
        <4>1. CASE TimedOut
          BY <4>1 DEF TimedOut, Finish, SentUpTo
        <4>2. CASE AllSent
          <5>1. phase = "send" /\ next > NTargets /\ msg_set = {} /\ no_reply' = NoReply({})
            BY <2>4, <4>2 DEF AllSent, Finish, Calling
          <5>2. next - 1 = NTargets
            BY <2>2, <5>1
          <5> QED
            BY <5>1, <5>2 DEF SentUpTo
        <4>3. ~ WouldBlock
          BY <2>4 DEF WouldBlock, Calling
        <4> QED
          BY <1>4, <4>1, <4>2, <4>3
      <3>2. IsFiniteSet(msg_set) /\ \A d \in Devices : Balanced(d)
        BY <2>1 DEF AccountInv
      <3>3. Accounted'
        BY <2>1, <3>1, <3>2, FinishAccounts
      <3> QED
        BY <2>1, <2>4, <3>3 DEF AccountInv, InFlight
    <2> QED
      BY <2>3, <2>4
  <1>5. CASE ExpectFails
    BY <1>5 DEF ExpectFails, ReadFails, SocketFails, AccountInv, Calling, Accounted, Returned, InFlight, callVars, netVars
  <1>6. CASE Serve
    <2>1. PICK q \in reqs :
            LET r == [id |-> q.id, dev |-> q.dev, call |-> q.call, valid |-> q.cmd \in Known]
            IN  reqs' \in Consume(reqs, q) /\ reps' = reps \cup {r}
      BY <1>6, ServeExecutes
    <2>2. reqs' \subseteq reqs
      BY <2>1, ConsumeType
    <2>3. UNCHANGED <<phase, call, next, msg_set, addr_msg_id_map, normal_reply, invalid_reply, no_reply>>
      BY <1>6 DEF Serve, callVars, summaryVars
    <2>4. \A m \in InFlight' : m.call = call =>
               m.id \in DOMAIN addr_msg_id_map /\ addr_msg_id_map[m.id] = m.dev
      BY <2>1, <2>2 DEF InFlight, AccountInv
    <2> QED
      BY <2>3, <2>4 DEF AccountInv, Calling, Balanced, SentTo, SentUpTo, NTargets, OpenTo,
                        Accounted, Returned, Entries
  <1>7. CASE Stopped \/ UNCHANGED vars
    <2>1. UNCHANGED vars
      BY <1>7 DEF Stopped
    <2> QED
      BY <2>1 DEF vars, callVars, summaryVars, netVars, AccountInv, InFlight, Calling, Balanced,
                  SentTo, SentUpTo, NTargets, OpenTo, Accounted, Returned, Entries
  <1> QED
    BY <1>1, <1>2, <1>3, <1>4, <1>5, <1>6, <1>7 DEF Next, Client

\* Unless an id repeats, every target is found in a returned summary as often as the
\* call sent to it: in one of the lists of replies or in no_reply.
THEOREM AccountedHolds ==
  ASSUME "collision" \notin Faults PROVE Spec => []Accounted
  <1>1. Init => TypeInv /\ LabelInv /\ AccountInv
    BY InitType, LabelInit, FS_EmptySet DEF Init, AccountInv, InFlight, Calling, Accounted, Returned
  <1>2. TypeInv /\ LabelInv /\ AccountInv /\ [Next]_vars => TypeInv' /\ LabelInv' /\ AccountInv'
    BY TypeStep, LabelStep, AccountStep
  <1>3. AccountInv => Accounted
    BY DEF AccountInv
  <1> QED
    BY <1>1, <1>2, <1>3, PTL DEF Spec

-----------------------------------------------------------------------------
(* How soon a call returns.                                                *)

\* Targets that the loop has not done with.
TargetsLeft == NTargets + 1 - next

\* Steps that a call takes at most: for each target one to send, one that finds nothing
\* to receive and one reply, and the two ends of the loops.
CallLeft ==
  CASE phase = "send" -> 3 * TargetsLeft + Cardinality(msg_set) + 2
    [] phase = "drain" -> 3 * TargetsLeft + Cardinality(msg_set)
    [] phase = "wait" -> Cardinality(msg_set) + 1
    [] OTHER -> 0

\* The table of open ids is finite, and what is left of a call does not grow over what
\* it had to do at its beginning.
CountInv ==
  /\ IsFiniteSet(msg_set)
  /\ CallLeft <= 3 * NTargets + 2

\* All of these are numbers.
LEMMA CountTypes ==
  ASSUME TypeInv, IsFiniteSet(msg_set)
  PROVE  /\ NTargets \in Nat /\ TargetsLeft \in Nat
         /\ Cardinality(msg_set) \in Nat
         /\ CallLeft \in Nat
         /\ phase = "drain" => TargetsLeft > 0
  <1>1. NTargets \in Nat
    BY SendCmdAssumption, SeqElements DEF NTargets
  <1>2. TargetsLeft \in Nat /\ (phase = "drain" => TargetsLeft > 0)
    BY <1>1 DEF TargetsLeft, TypeInv, TypeOK, TablesOK
  <1>3. Cardinality(msg_set) \in Nat
    BY FS_CardinalityType
  <1> QED
    BY <1>1, <1>2, <1>3 DEF CallLeft

\* Each step of the caller's thread counts down: a reply closes an open id, however it
\* got there, or is the last one that the call reads.
LEMMA ClientCountsDown ==
  ASSUME TypeInv, IsFiniteSet(msg_set), Client
  PROVE  IsFiniteSet(msg_set') /\ CallLeft' \in Nat /\ CallLeft' < CallLeft
  <1> DEFINE n == Cardinality(msg_set)
             t == TargetsLeft
  <1>1. n \in Nat /\ t \in Nat /\ NTargets \in Nat /\ (phase = "drain" => t > 0)
    BY CountTypes
  <1>2. CASE SendTo
    <2>1. PICK id \in Ids : msg_set' = msg_set \cup {id}
      BY <1>2 DEF SendTo, Registered
    <2>2. IsFiniteSet(msg_set') /\ Cardinality(msg_set') \in {n, n + 1}
      BY <2>1, FS_AddElement
    <2>3. phase = "send" /\ phase' = "drain" /\ TargetsLeft' = t
      BY <1>2 DEF SendTo, TargetsLeft, NTargets
    <2>4. CallLeft = 3 * t + n + 2 /\ CallLeft' = 3 * t + Cardinality(msg_set')
      BY <2>3 DEF CallLeft
    <2> HIDE DEF n, t
    <2> QED
      BY <1>1, <2>2, <2>4
  <1>3. CASE WouldBlock
    <2>1. phase = "drain" /\ phase' = "send" /\ next' = next + 1 /\ msg_set' = msg_set
      BY <1>3 DEF WouldBlock
    <2>2. TargetsLeft' = t - 1
      BY <1>1, <2>1 DEF TargetsLeft, NTargets, TypeInv, TypeOK, TablesOK
    <2>3. CallLeft = 3 * t + n /\ CallLeft' = 3 * (t - 1) + n + 2
      BY <2>1, <2>2 DEF CallLeft
    <2> HIDE DEF n, t
    <2> QED
      BY <1>1, <2>1, <2>3
  <1>4. CASE AllSent
    <2>1. phase = "send" /\ msg_set' = msg_set /\ phase' \in {"wait", "idle"}
      BY <1>4 DEF AllSent, Finish
    <2>2. CallLeft = 3 * t + n + 2 /\ CallLeft' \in {n + 1, 0}
      BY <2>1 DEF CallLeft
    <2> HIDE DEF n, t
    <2> QED
      BY <1>1, <2>1, <2>2
  <1>5. CASE Receive
    <2>1. PICK r \in reps :
            /\ msg_set' = msg_set \ {GetMsgId(r)}
            /\ \/ phase' = "assert"
               \/ GetMsgId(r) \in msg_set /\ phase' \in {phase, "idle"}
      BY <1>5 DEF Receive, Remaining, Expected, Finish
    <2>2. IsFiniteSet(msg_set') /\ (GetMsgId(r) \in msg_set => Cardinality(msg_set') = n - 1)
      BY <2>1, FS_RemoveElement
    <2>3. phase \in {"drain", "wait"} /\ TargetsLeft' = t
      BY <1>5 DEF Receive, TargetsLeft, NTargets
    <2>4. CallLeft = IF phase = "drain" THEN 3 * t + n ELSE n + 1
      BY <2>3 DEF CallLeft
    <2>5. CASE phase' \in {"assert", "idle"}
      <3>1. CallLeft' = 0
        BY <2>5 DEF CallLeft
      <3> HIDE DEF n, t
      <3> QED
        BY <1>1, <2>2, <2>3, <2>4, <3>1
    <2>6. CASE phase' = phase /\ GetMsgId(r) \in msg_set
      <3>1. CallLeft' = IF phase = "drain" THEN 3 * t + (n - 1) ELSE (n - 1) + 1
        BY <2>2, <2>3, <2>6 DEF CallLeft
      <3> HIDE DEF n, t
      <3> QED
        BY <1>1, <2>2, <2>4, <3>1
    <2> QED
      BY <2>1, <2>5, <2>6
  <1>6. CASE TimedOut
    <2>1. phase = "wait" /\ msg_set' = msg_set /\ phase' = "idle"
      BY <1>6 DEF TimedOut, Finish
    <2>2. CallLeft = n + 1 /\ CallLeft' = 0
      BY <2>1 DEF CallLeft
    <2> HIDE DEF n, t
    <2> QED
      BY <1>1, <2>1, <2>2
  <1> QED
    BY <1>2, <1>3, <1>4, <1>5, <1>6 DEF Client

\* A new call has all of it before it.
LEMMA CallCounts ==
  ASSUME TypeInv, Call PROVE IsFiniteSet(msg_set') /\ CallLeft' = 3 * NTargets + 2
  <1>1. phase' = "send" /\ next' = 1 /\ msg_set' = {}
    BY DEF Call, OpenAtCall
  <1>2. NTargets \in Nat
    BY SendCmdAssumption, SeqElements DEF NTargets
  <1>3. IsFiniteSet(msg_set') /\ Cardinality(msg_set') = 0
    BY <1>1, FS_EmptySet
  <1>4. TargetsLeft' = NTargets
    BY <1>1, <1>2 DEF TargetsLeft, NTargets
  <1> QED
    BY <1>1, <1>2, <1>3, <1>4 DEF CallLeft

\* Devices and network leave it alone; a datagram that cannot be read ends the call.
LEMMA OthersDoNotCount ==
  ASSUME TypeInv, IsFiniteSet(msg_set), ExpectFails \/ Serve \/ UNCHANGED vars
  PROVE  /\ IsFiniteSet(msg_set')
         /\ CallLeft' = IF ExpectFails THEN 0 ELSE CallLeft
  <1>1. CASE ExpectFails
    <2>1. msg_set' = msg_set /\ phase' = "expect"
      BY <1>1 DEF ExpectFails, ReadFails, SocketFails
    <2> QED
      BY <1>1, <2>1 DEF CallLeft
  <1>2. CASE (Serve \/ UNCHANGED vars) /\ ~ ExpectFails
    <2>1. UNCHANGED <<phase, next, msg_set>>
      BY <1>2 DEF Serve, vars
    <2> QED
      BY <1>2, <2>1 DEF CallLeft, TargetsLeft, NTargets
  <1> QED
    BY <1>1, <1>2

\* The counting is right in every step.
LEMMA CountStep ==
  ASSUME TypeInv, CountInv, [Next]_vars
  PROVE  /\ CountInv'
         /\ CallLeft \in Nat /\ CallLeft' \in Nat
         /\ Client => CallLeft' < CallLeft
         /\ ~ Call => CallLeft' <= CallLeft
  <1>1. IsFiniteSet(msg_set) /\ CallLeft <= 3 * NTargets + 2 /\ CallLeft \in Nat /\ NTargets \in Nat
    BY CountTypes DEF CountInv
  <1>2. CASE Client
    <2>1. IsFiniteSet(msg_set') /\ CallLeft' \in Nat /\ CallLeft' < CallLeft
      BY <1>1, <1>2, ClientCountsDown
    <2>2. NTargets' = NTargets
      BY DEF NTargets
    <2>3. CountInv'
      BY <1>1, <2>1, <2>2 DEF CountInv
    <2> QED
      BY <1>1, <2>1, <2>3
  <1>3. CASE Call
    <2>1. IsFiniteSet(msg_set') /\ CallLeft' = 3 * NTargets + 2
      BY <1>3, CallCounts
    <2>2. NTargets' = NTargets /\ ~ Client
      BY <1>3 DEF NTargets, Call, Client, SendTo, WouldBlock, AllSent, Receive, TimedOut
    <2>3. CountInv'
      BY <1>1, <2>1, <2>2 DEF CountInv
    <2> QED
      BY <1>1, <1>3, <2>1, <2>2, <2>3
  <1>4. CASE (ExpectFails \/ Serve \/ UNCHANGED vars) /\ ~ Client
    <2>1. IsFiniteSet(msg_set') /\ CallLeft' \in {0, CallLeft}
      BY <1>1, <1>4, OthersDoNotCount
    <2>2. NTargets' = NTargets
      BY DEF NTargets
    <2>3. CallLeft' \in Nat /\ CallLeft' <= CallLeft
      BY <1>1, <2>1
    <2>4. CountInv'
      BY <1>1, <2>1, <2>2, <2>3 DEF CountInv
    <2> QED
      BY <1>1, <1>4, <2>3, <2>4
  <1> QED
    BY <1>2, <1>3, <1>4 DEF Next, Stopped

\* Nothing is under way at first.
LEMMA CountInit == Init => CountInv
  <1> SUFFICES ASSUME Init PROVE CountInv
    OBVIOUS
  <1>1. NTargets \in Nat
    BY SendCmdAssumption, SeqElements DEF NTargets
  <1>2. phase = "idle" /\ msg_set = {}
    BY DEF Init
  <1>3. CallLeft = 0
    BY <1>2 DEF CallLeft
  <1> QED
    BY <1>1, <1>2, <1>3, FS_EmptySet DEF CountInv

\* A call of send_cmd to n targets returns, or panics, after at most 3n + 2 of its steps,
\* each of which waits for at most one receive timeout - whatever is lost, duplicated,
\* late, or sent by somebody else, and even if ids repeat: each step counts down, and
\* nothing that happens elsewhere counts up.
THEOREM CallCountsDown ==
  Spec => /\ [](CallLeft \in 0 .. 3 * NTargets + 2)
          /\ [][/\ Client => CallLeft' < CallLeft
                /\ ~ Call => CallLeft' <= CallLeft]_vars
  <1> DEFINE Bounded == CallLeft \in 0 .. 3 * NTargets + 2
             Nearer == /\ Client => CallLeft' < CallLeft
                       /\ ~ Call => CallLeft' <= CallLeft
  <1>1. TypeInv /\ CountInv => Bounded
    <2> SUFFICES ASSUME TypeInv, CountInv PROVE Bounded
      OBVIOUS
    <2>1. CallLeft \in Nat /\ NTargets \in Nat /\ CallLeft <= 3 * NTargets + 2
      BY CountTypes DEF CountInv
    <2> QED
      BY <2>1
  <1>2. TypeInv /\ CountInv /\ [Next]_vars => TypeInv' /\ CountInv' /\ [Nearer]_vars
    BY TypeStep, CountStep
  <1> QED
    BY <1>1, <1>2, InitType, CountInit, PTL DEF Spec

=============================================================================
