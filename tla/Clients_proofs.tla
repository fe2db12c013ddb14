---------------------------- MODULE Clients_proofs ----------------------------
(***************************************************************************)
(* Proofs about the programs that use send_cmd (Clients.tla): for files of *)
(* any length, any number of targets and any loss or delay, the tool keeps *)
(* in step with its targets and never panics on a late reply, and a        *)
(* program that was answered has left nothing behind.                      *)
(***************************************************************************)
EXTENDS Clients, SendCmd_proofs

\* Device d has still to answer, or has executed the command, or does not know it.
Covered(d) ==
  \/ \E id \in msg_set : addr_msg_id_map[id] = d
  \/ cmd \in Known /\ call \in Seen(d)
  \/ cmd \notin Known /\ invalid_reply # <<>>

\* Datagrams of the call under way tell what it sent and to whom, and no target is
\* forgotten.
AnswerInv ==
  /\ \A q \in reqs : q.call = call => q.cmd = cmd
  /\ \A r \in reps : r.call = call => (r.valid => cmd \in Known) /\ (~ r.valid => cmd \notin Known)
  /\ \A m \in InFlight : m.call = call =>
       m.id \in DOMAIN addr_msg_id_map /\ addr_msg_id_map[m.id] = m.dev
  /\ call > 0 /\ (Calling \/ phase = "idle") => \A k \in 1 .. SentUpTo : Covered(Targets[k])
  /\ call > 0 /\ phase = "idle" /\ no_reply = {} => msg_set = {}
  /\ ~ unanswered => no_reply = {}

\* Before the first call nothing was executed, nor is anything unanswered.
LEMMA AnswerInit == Init => AnswerInv
  BY DEF Init, AnswerInv, InFlight

\* All that a step other than the answer of a device may do to Covered.
LEMMA CoveredKept ==
  ASSUME UNCHANGED <<msg_set, addr_msg_id_map, call, cmd, executed, invalid_reply>>,
         NEW d, Covered(d)
  PROVE  Covered(d)'
  BY DEF Covered, Seen

\* Every step of SendCmd keeps AnswerInv: a request that disappears was executed or is
\* one the device does not know, and while every call was answered nothing is left behind.
LEMMA AnswerStep ==
  ASSUME Faults \subseteq {"garbage", "socket"}, SendInv, AnswerInv, [Next]_vars PROVE AnswerInv'
  <1>0. /\ TypeInv /\ LabelInv /\ OpenInv
        /\ "duplicate" \notin Faults /\ "collision" \notin Faults
        /\ NTargets \in Nat /\ call \in Nat
    BY TargetType DEF SendInv, TypeInv, TypeOK, TablesOK
  <1>7. ~ unanswered' => no_reply' = {}
    <2>1. CASE Call
      BY <2>1 DEF Call
    <2>2. CASE AllSent \/ TimedOut \/ Receive
      <3>1. unanswered \in BOOLEAN
        BY <1>0 DEF TypeInv, TypeOK, TablesOK
      <3> QED
        BY <2>2, <3>1 DEF AllSent, TimedOut, Receive, Finish, NoReply, doneVars, AnswerInv
    <2>3. CASE SendTo \/ WouldBlock \/ ExpectFails \/ Serve \/ Stopped \/ UNCHANGED vars
      BY <2>3 DEF SendTo, WouldBlock, ExpectFails, ReadFails, SocketFails, Serve, Stopped, vars, summaryVars, doneVars, AnswerInv
    <2> QED
      BY <2>1, <2>2, <2>3 DEF Next, Client
  <1>1. CASE Call
    <2>1. /\ UNCHANGED <<reqs, reps>> /\ phase' = "send" /\ next' = 1 /\ call' = call + 1
      BY <1>1 DEF Call, netVars
    <2>2. \A m \in InFlight : m.call \in 1 .. call
      BY <1>0 DEF InFlight, LabelInv, TypeInv, TypeOK, TablesOK, Request, Reply
    <2>3. \A m \in InFlight' : m.call # call'
      BY <1>0, <2>1, <2>2 DEF InFlight
    <2>4. SentUpTo' = 0
      BY <2>1 DEF SentUpTo
    <2> QED
      BY <1>7, <2>1, <2>3, <2>4 DEF AnswerInv, InFlight
  <1>2. CASE SendTo
    <2>1. PICK id \in Ids :
            /\ id \notin UsedIds /\ msg_set' = msg_set \cup {id}
            /\ addr_msg_id_map' =
                 [i \in DOMAIN addr_msg_id_map \cup {id} |->
                    IF i = id THEN Targets[next] ELSE addr_msg_id_map[i]]
            /\ reqs' = reqs \cup {SetMsgId(cmd, id, Targets[next], call)}
      BY <1>0, <1>2 DEF SendTo, FreshId, Registered
    <2>2. /\ UNCHANGED <<reps, call, cmd, next, executed, invalid_reply>>
          /\ phase = "send" /\ phase' = "drain" /\ next \in 1 .. NTargets /\ call \in 1 .. MaxCall
          /\ msg_set \subseteq DOMAIN addr_msg_id_map
      BY <1>0, <1>2 DEF SendTo, callVars, summaryVars, TypeInv, TypeOK, TablesOK
    <2> DEFINE new == SetMsgId(cmd, id, Targets[next], call)
    <2>3. new.id = id /\ new.call = call /\ new.cmd = cmd /\ new.dev = Targets[next]
      BY DEF SetMsgId
    <2>4. InFlight' = InFlight \cup {new} /\ reqs' = reqs \cup {new}
      BY <2>1, <2>2 DEF InFlight
    <2> HIDE DEF new
    <2>5. id \notin DOMAIN addr_msg_id_map /\ \A m \in InFlight : m.id # id
      BY <2>1 DEF UsedIds, InFlight
    <2>6. /\ DOMAIN addr_msg_id_map' = DOMAIN addr_msg_id_map \cup {id}
          /\ addr_msg_id_map'[id] = Targets[next]
          /\ \A i \in DOMAIN addr_msg_id_map : addr_msg_id_map'[i] = addr_msg_id_map[i]
      BY <2>1, <2>5
    <2>7. /\ \A q \in reqs' : q.call = call' => q.cmd = cmd'
          /\ \A m \in InFlight' : m.call = call' =>
               m.id \in DOMAIN addr_msg_id_map' /\ addr_msg_id_map'[m.id] = m.dev
      BY <2>2, <2>3, <2>4, <2>5, <2>6 DEF AnswerInv
    <2>8. ASSUME NEW k \in 1 .. SentUpTo' PROVE Covered(Targets[k])'
      <3>1. SentUpTo' = next /\ SentUpTo = next - 1
        BY <2>2 DEF SentUpTo
      <3>2. CASE k = next
        <4>1. id \in msg_set' /\ addr_msg_id_map'[id] = Targets[k]
          BY <2>1, <2>6, <3>2
        <4> QED
          BY <4>1 DEF Covered
      <3>3. CASE k # next
        <4>1. Covered(Targets[k])
          BY <1>0, <2>2, <3>1, <3>3 DEF AnswerInv, Calling
        <4> QED
          BY <2>1, <2>2, <2>6, <4>1 DEF Covered, Seen
      <3> QED
        BY <3>2, <3>3
    <2> QED
      BY <1>7, <2>2, <2>7, <2>8 DEF AnswerInv
  <1>3. CASE Receive
    <2>1. PICK r \in reps :
            /\ reps' = reps \ {r} /\ Record(r) /\ msg_set' = msg_set \ {r.id}
            /\ \/ phase' = "assert"
               \/ r.id \in msg_set /\ phase = "wait" /\ msg_set' = {} /\ phase' = "idle"
               \/ r.id \in msg_set /\ phase' = phase
      BY <1>0, <1>3, ConsumeOnce DEF Receive, Remaining, Expected, GetMsgId, Finish
    <2>2. /\ UNCHANGED <<reqs, call, cmd, next, executed, addr_msg_id_map>> /\ Calling
          /\ call \in 1 .. MaxCall
      BY <1>0, <1>3 DEF Receive, callVars, Calling, TypeInv
    <2>3. SentUpTo' = SentUpTo \/ phase' = "assert"
      BY <2>1, <2>2 DEF SentUpTo, NTargets
    <2>4. ASSUME phase' # "assert", NEW k \in 1 .. SentUpTo PROVE Covered(Targets[k])'
      <3>1. Covered(Targets[k]) /\ r.call = call /\ r.id \in msg_set
        BY <1>0, <2>1, <2>2, <2>4 DEF AnswerInv, LabelInv, InFlight
      <3>2. addr_msg_id_map[r.id] = r.dev
        BY <3>1 DEF AnswerInv, InFlight
      <3>3. CASE addr_msg_id_map[r.id] = Targets[k]
        <4>1. CASE r.valid
          <5>1. cmd \in Known /\ call \in Seen(Targets[k])
            BY <1>0, <3>1, <3>2, <3>3, <4>1 DEF LabelInv, AnswerInv
          <5> QED
            BY <2>2, <5>1 DEF Covered, Seen
        <4>2. CASE ~ r.valid
          <5> DEFINE S == [dev : Devices, id : Ids]
          <5>1. invalid_reply' = Append(invalid_reply, Entry(r))
            BY <2>1, <4>2 DEF Record, IsInvalid
          <5>2. invalid_reply \in Seq(S) /\ Entry(r) \in S
            BY <1>0, EntryType DEF TypeInv, TypeOK, TablesOK
          <5> HIDE DEF S
          <5>3. invalid_reply' # <<>>
            BY <5>1, <5>2
          <5> QED
            BY <2>2, <3>1, <4>2, <5>3 DEF AnswerInv, Covered
        <4> QED
          BY <4>1, <4>2
      <3>4. CASE addr_msg_id_map[r.id] # Targets[k]
        <4> DEFINE S == [dev : Devices, id : Ids]
        <4>1. invalid_reply' = invalid_reply \/ invalid_reply' = Append(invalid_reply, Entry(r))
          BY <2>1 DEF Record
        <4>2. invalid_reply \in Seq(S) /\ Entry(r) \in S
          BY <1>0, EntryType DEF TypeInv, TypeOK, TablesOK
        <4> HIDE DEF S
        <4>3. invalid_reply # <<>> => invalid_reply' # <<>>
          BY <4>1, <4>2
        <4> QED
          BY <2>1, <2>2, <3>1, <3>4, <4>3 DEF Covered, Seen
      <3> QED
        BY <3>3, <3>4
    <2>5. InFlight' \subseteq InFlight
      BY <2>1, <2>2 DEF InFlight
    <2>6. phase' = "idle" => msg_set' = {}
      BY <2>1, <2>2 DEF Calling
    <2> QED
      BY <1>7, <2>1, <2>2, <2>3, <2>4, <2>5, <2>6 DEF AnswerInv, Calling
  <1>4. CASE AllSent \/ TimedOut \/ WouldBlock \/ ExpectFails
    <2>1. /\ UNCHANGED <<reqs, reps, call, cmd, msg_set, addr_msg_id_map, executed, invalid_reply>>
          /\ Calling /\ call \in 1 .. MaxCall
      BY <1>0, <1>4 DEF AllSent, TimedOut, WouldBlock, ExpectFails, ReadFails, SocketFails, callVars, netVars, summaryVars,
                        Calling, TypeInv
    <2>2. phase' = "expect" \/ SentUpTo' = SentUpTo
      BY <1>0, <1>4 DEF AllSent, TimedOut, WouldBlock, ExpectFails, ReadFails, SocketFails, Finish, SentUpTo, NTargets,
                        TypeInv, TypeOK, TablesOK
    <2>3. phase' = "idle" /\ no_reply' = {} => msg_set = {}
      BY <1>4 DEF AllSent, TimedOut, WouldBlock, ExpectFails, ReadFails, SocketFails, Finish, NoReply
    <2> QED
      BY <1>7, <2>1, <2>2, <2>3, CoveredKept DEF AnswerInv, InFlight, Calling
  <1>5. CASE Serve
    <2>1. PICK q \in reqs :
            LET r == [id |-> q.id, dev |-> q.dev, call |-> q.call, valid |-> q.cmd \in Known]
            IN  /\ reqs' \in Consume(reqs, q)
                /\ reps' = reps \cup {r}
      BY <1>0, <1>5, ServeExecutes
    <2> DEFINE r == [id |-> q.id, dev |-> q.dev, call |-> q.call, valid |-> q.cmd \in Known]
    <2>2. /\ r.id = q.id /\ r.call = q.call /\ r.dev = q.dev /\ (r.valid <=> q.cmd \in Known)
          /\ reps' = reps \cup {r} /\ reqs' \subseteq reqs
      BY <2>1, ConsumeType
    <2> HIDE DEF r
    <2>3. UNCHANGED <<phase, call, cmd, next, msg_set, addr_msg_id_map, invalid_reply, no_reply>>
      BY <1>5 DEF Serve, callVars, summaryVars
    <2>4. \A m \in InFlight' : m.call = call =>
               m.id \in DOMAIN addr_msg_id_map /\ addr_msg_id_map[m.id] = m.dev
      BY <2>2 DEF InFlight, AnswerInv
    <2>5. \A k \in 1 .. NTargets : Covered(Targets[k]) => Covered(Targets[k])'
      <3>1. ASSUME NEW k \in 1 .. NTargets, Covered(Targets[k]) PROVE Covered(Targets[k])'
        <4>1. Seen(Targets[k]) \subseteq Seen(Targets[k])'
          BY <1>0, <3>1, TargetType, SeenGrows
        <4>2. call \in Seen(Targets[k]) => call \in {executed'[Targets[k]][i] : i \in 1 .. Len(executed'[Targets[k]])}
          BY <4>1 DEF Seen
        <4> QED
          BY <2>3, <3>1, <4>2 DEF Covered, Seen
      <3> QED
        BY <3>1
    <2>6. SentUpTo' = SentUpTo /\ (call > 0 => 1 .. SentUpTo \subseteq 1 .. NTargets)
      BY <1>0, <2>3 DEF SentUpTo, NTargets, TypeInv, TypeOK, TablesOK
    <2> QED
      BY <1>7, <2>2, <2>3, <2>4, <2>5, <2>6 DEF AnswerInv, Calling
  <1>6. CASE Stopped \/ UNCHANGED vars
    <2>1. UNCHANGED vars
      BY <1>6 DEF Stopped
    <2>2. SentUpTo' = SentUpTo /\ (Calling' <=> Calling)
      BY <2>1 DEF vars, SentUpTo, NTargets, Calling
    <2> QED
      BY <1>7, <2>1, <2>2, CoveredKept DEF vars, callVars, summaryVars, netVars, AnswerInv, InFlight
  <1> QED
    BY <1>1, <1>2, <1>3, <1>4, <1>5, <1>6 DEF Next, Client

-----------------------------------------------------------------------------
(* The programs.                                                           *)

\* A program does nothing but call send_cmd, and between its calls it only looks.
LEMMA ClientStep == ASSUME [ClientNext]_clientVars PROVE [Next]_vars
  <1>1. CASE NextCall
    BY <1>1 DEF NextCall, Next
  <1>2. CASE ToolExit \/ CarelessExit
    BY <1>2 DEF ToolExit, CarelessExit
  <1>3. CASE ClientOver \/ UNCHANGED clientVars
    BY <1>3 DEF ClientOver, clientVars
  <1>4. CASE Client \/ ExpectFails \/ Serve
    BY <1>4 DEF Next
  <1> QED
    BY <1>1, <1>2, <1>3, <1>4 DEF ClientNext

\* Hence all that is proved of send_cmd holds for its use by the programs.
THEOREM ClientsUseSendCmd == ClientSpec => Spec
  <1>1. ClientInit => Init
    BY DEF ClientInit
  <1> QED
    BY <1>1, ClientStep, PTL DEF ClientSpec, Spec

\* The contract of send_cmd, for its programs.
THEOREM ProgramsHaveContract ==
  ASSUME Faults \subseteq {"garbage", "socket"}
  PROVE  ClientSpec => KeepsContract /\ [](ConfirmedIsExecuted /\ FirstCallNeverPanics)
  <1>1. "collision" \notin Faults
    OBVIOUS
  <1> QED
    BY <1>1, ClientsUseSendCmd, ContractKept, ConfirmedIsExecutedHolds, FirstCallNeverPanicsHolds, PTL

\* The program at hand, and where it is in its list.
ProgInv ==
  /\ \E p \in Programs : careful = p.careful /\ script = p.script
  /\ call <= Len(script)
  /\ call > 0 => cmd = script[call]
  /\ \A q \in reqs : q.cmd = script[q.call]

\* The calls made so far are the first commands of the program's list.
LEMMA ProgStep ==
  ASSUME SendInv, ProgInv, [ClientNext]_clientVars PROVE ProgInv'
  <1>0. script \in Seq(Cmds) /\ call \in Nat /\ (phase # "idle" => call > 0)
    BY ClientsAssumption DEF ProgInv, SendInv, TypeInv, TypeOK, TablesOK
  <1>1. CASE NextCall
    <2>1. /\ UNCHANGED <<careful, script, reqs>> /\ call' = call + 1 /\ call < Len(script)
          /\ cmd' = script[call + 1]
      BY <1>1 DEF NextCall, Call, progVars, netVars
    <2> QED
      BY <1>0, <2>1 DEF ProgInv
  <1>2. CASE ToolExit \/ CarelessExit \/ ClientOver \/ UNCHANGED clientVars
    BY <1>2 DEF ToolExit, CarelessExit, ClientOver, clientVars, vars, callVars, netVars, progVars,
                ProgInv
  <1>3. CASE (Client \/ ExpectFails \/ Serve) /\ UNCHANGED <<progVars, exit>>
    <2>1. UNCHANGED <<careful, script, call, cmd>>
      BY <1>3 DEF Client, SendTo, WouldBlock, AllSent, Receive, TimedOut, ExpectFails, ReadFails, SocketFails, Serve,
                  callVars, progVars
    <2>2. \A q \in reqs' : q.cmd = script[q.call]
      <3>1. CASE SendTo
        <4>1. PICK id : reqs' = reqs \cup {SetMsgId(cmd, id, Targets[next], call)}
          BY <3>1 DEF SendTo
        <4>2. call > 0
          BY <1>0, <3>1 DEF SendTo
        <4> QED
          BY <4>1, <4>2 DEF ProgInv, SetMsgId
      <3>2. CASE Serve
        <4>1. reqs' \subseteq reqs
          BY <3>2, ConsumeType DEF Serve
        <4> QED
          BY <4>1 DEF ProgInv
      <3>3. CASE WouldBlock \/ AllSent \/ Receive \/ TimedOut \/ ExpectFails
        BY <3>3 DEF WouldBlock, AllSent, Receive, TimedOut, ExpectFails, ReadFails, SocketFails, netVars, ProgInv
      <3> QED
        BY <1>3, <3>1, <3>2, <3>3 DEF Client
    <2> QED
      BY <2>1, <2>2 DEF ProgInv
  <1> QED
    BY <1>1, <1>2, <1>3 DEF ClientNext

\* The tool makes no call after one that was not answered by all.
ToolInv ==
  careful =>
    /\ unanswered => phase = "idle" /\ no_reply # {} /\ call > 0
    /\ \A m \in InFlight : m.call = call

\* The tool calls again only when the last call was answered by all.
LEMMA ToolStep ==
  ASSUME SendInv, ToolInv, [ClientNext]_clientVars
  PROVE  ToolInv'
  <1>0. TypeInv /\ OpenInv /\ call \in Nat /\ unanswered \in BOOLEAN
    <2>1. TypeInv /\ OpenInv
      BY DEF SendInv
    <2> QED
      BY <2>1 DEF TypeInv, TypeOK, TablesOK
  <1>1. CASE NextCall
    <2>1. /\ UNCHANGED <<reqs, reps, unanswered, careful>> /\ phase = "idle" /\ call' = call + 1
          /\ careful /\ call > 0 => no_reply = {}
      BY <1>0, <1>1 DEF NextCall, Call, AllWell, AllReplied, progVars, netVars, doneVars
    <2>2. careful /\ call > 0 => ~ unanswered
      BY <2>1 DEF ToolInv
    <2>3. \A m \in InFlight : m.call \in 1 .. call
      BY <1>0 DEF SendInv, LabelInv, InFlight, TypeInv, TypeOK, TablesOK, Request, Reply
    <2>4. careful => ~ unanswered
      BY <1>0, <2>2 DEF ToolInv
    <2>5. careful => InFlight = {}
      BY <1>0, <2>1, <2>4 DEF OpenInv
    <2> QED
      BY <2>1, <2>4, <2>5 DEF ToolInv, InFlight
  <1>2. CASE ToolExit \/ CarelessExit \/ ClientOver \/ UNCHANGED clientVars
    BY <1>2 DEF ToolExit, CarelessExit, ClientOver, clientVars, vars, callVars, netVars, progVars,
                doneVars, summaryVars, ToolInv, InFlight
  <1>3. CASE (Client \/ ExpectFails \/ Serve) /\ UNCHANGED <<progVars, exit>>
    <2>1. UNCHANGED <<careful, call>>
      BY <1>3 DEF Client, SendTo, WouldBlock, AllSent, Receive, TimedOut, ExpectFails, ReadFails, SocketFails, Serve,
                  callVars, progVars
    <2>2. \A m \in InFlight' : m.call = call \/ \E n \in InFlight : m.call = n.call
      <3>1. CASE SendTo
        <4>1. PICK id : reqs' = reqs \cup {SetMsgId(cmd, id, Targets[next], call)}
          BY <3>1 DEF SendTo
        <4> QED
          BY <3>1, <4>1 DEF SendTo, InFlight, SetMsgId
      <3>2. CASE Serve
        <4>1. PICK q \in reqs :
                LET r == [id |-> q.id, dev |-> q.dev, call |-> q.call, valid |-> q.cmd \in Known]
                IN  /\ reqs' \in Consume(reqs, q)
                    /\ reps' = reps \cup {r}
          BY <1>0, <3>2, ServeExecutes
        <4>2. reqs' \subseteq reqs
          BY <4>1, ConsumeType
        <4> QED
          BY <4>1, <4>2 DEF InFlight
      <3>3. CASE Receive
        <4>1. PICK r \in reps : reps' \in Consume(reps, r)
          BY <3>3 DEF Receive
        <4> QED
          BY <3>3, <4>1, ConsumeType DEF Receive, InFlight
      <3>4. CASE WouldBlock \/ AllSent \/ TimedOut \/ ExpectFails
        BY <3>4 DEF WouldBlock, AllSent, TimedOut, ExpectFails, ReadFails, SocketFails, netVars, InFlight
      <3> QED
        BY <1>3, <3>1, <3>2, <3>3, <3>4 DEF Client
    <2>3. careful => \A m \in InFlight' : m.call = call'
      BY <2>1, <2>2 DEF ToolInv
    <2>4. CASE Serve
      BY <2>1, <2>3, <2>4 DEF Serve, summaryVars, doneVars, ToolInv
    <2>5. CASE Client \/ ExpectFails
      <3>1. Calling /\ phase # "idle" /\ call > 0
        BY <1>0, <2>5 DEF Client, SendTo, WouldBlock, AllSent, Receive, TimedOut, ExpectFails, ReadFails, SocketFails, Calling, TypeInv
      <3>2. \/ unanswered' = unanswered
            \/ phase' = "idle" /\ msg_set # {} /\ no_reply' = NoReply(msg_set)
        BY <1>0, <2>5 DEF Client, SendTo, WouldBlock, AllSent, Receive, TimedOut, ExpectFails, ReadFails, SocketFails, Finish, doneVars
      <3>3. msg_set # {} => NoReply(msg_set) # {}
        BY DEF NoReply
      <3> QED
        BY <2>1, <2>3, <3>1, <3>2, <3>3 DEF ToolInv
    <2> QED
      BY <1>3, <2>4, <2>5
  <1> QED
    BY <1>1, <1>2, <1>3 DEF ClientNext

\* All of it, for the tool and the others.
ClientInv == SendInv /\ AnswerInv /\ ProgInv /\ ToolInv

\* The inductive invariant of a client holds initially and is kept by every step.
LEMMA ClientInductive ==
  ASSUME Faults \subseteq {"garbage", "socket"}
  PROVE  /\ ClientInit => ClientInv
         /\ ClientInv /\ [ClientNext]_clientVars => ClientInv'
  <1>1. ClientInit => ClientInv
    <2>1. ClientInit => ProgInv
      BY ClientsAssumption DEF ClientInit, Init, ProgInv
    <2>2. ClientInit => ToolInv
      BY DEF ClientInit, Init, ToolInv, InFlight
    <2> QED
      BY <2>1, <2>2, SendInductive, AnswerInit DEF ClientInit, ClientInv
  <1>2. ClientInv /\ [ClientNext]_clientVars => ClientInv'
    BY ClientStep, SendInductive, AnswerStep, ProgStep, ToolStep DEF ClientInv
  <1> QED
    BY <1>1, <1>2

\* So it always holds.
LEMMA AlwaysClientInv ==
  ASSUME Faults \subseteq {"garbage", "socket"} PROVE ClientSpec => []ClientInv
  BY ClientInductive, PTL DEF ClientSpec

\* Because the tool stops at the first call that was not answered by all, it never
\* meets the reply of an earlier one, which would fail the assertion of send_cmd.
THEOREM ToolNeverPanicsHolds ==
  ASSUME Faults \subseteq {"garbage", "socket"} PROVE ClientSpec => []ToolNeverPanics
  <1>1. ClientInv => ToolNeverPanics
    BY DEF ClientInv, SendInv, OpenInv, ToolInv, ToolNeverPanics
  <1> QED
    BY <1>1, AlwaysClientInv, PTL

-----------------------------------------------------------------------------
(* What the devices have executed.                                         *)

\* An executed list after a step: as it was, or longer by a call, under way unless one
\* was left unanswered, of a command that the device knows.
LEMMA ExecutedStep ==
  ASSUME ClientInv, [ClientNext]_clientVars, NEW d \in Devices
  PROVE  /\ executed[d] \in Seq(1 .. MaxCall)
         /\ \/ executed'[d] = executed[d]
            \/ /\ call' = call /\ call > 0 /\ UNCHANGED <<script, careful, exit, unanswered>>
               /\ \E c \in 1 .. call :
                    /\ c \notin Seen(d) /\ script[c] \in Known
                    /\ executed'[d] = Append(executed[d], c)
                    /\ ~ unanswered \/ careful => c = call
  <1>0. /\ TypeInv /\ LabelInv /\ OpenInv
        /\ executed[d] \in Seq(1 .. MaxCall) /\ executed \in [Devices -> Seq(1 .. MaxCall)]
    <2>1. TypeInv /\ LabelInv /\ OpenInv
      BY DEF ClientInv, SendInv
    <2> QED
      BY <2>1 DEF TypeInv, TypeOK, TablesOK
  <1>1. CASE Serve /\ UNCHANGED <<progVars, exit>>
    <2>1. PICK q \in reqs :
            executed' = IF q.cmd \in Known /\ q.call \notin Seen(q.dev)
                        THEN [executed EXCEPT ![q.dev] = Append(@, q.call)]
                        ELSE executed
      BY <1>1 DEF Serve
    <2>2. q \in InFlight /\ q.call \in 1 .. call /\ q.cmd = script[q.call] /\ call \in Nat
      BY <1>0 DEF InFlight, LabelInv, TypeInv, TypeOK, TablesOK, Request, ClientInv, ProgInv
    <2>3. ~ unanswered \/ careful => q.call = call
      BY <1>0, <2>2 DEF OpenInv, ClientInv, ToolInv
    <2>4. UNCHANGED <<call, unanswered, script, careful, exit>>
      BY <1>1 DEF Serve, callVars, doneVars, progVars
    <2>5. \/ executed'[d] = executed[d]
          \/ /\ q.cmd \in Known /\ q.call \notin Seen(d)
             /\ executed'[d] = Append(executed[d], q.call)
      BY <1>0, <2>1
    <2> QED
      BY <1>0, <2>2, <2>3, <2>4, <2>5
  <1>2. CASE ~ Serve
    <2>1. executed' = executed
      BY <1>2 DEF ClientNext, NextCall, ToolExit, CarelessExit, ClientOver, clientVars, Client,
                  Call, SendTo, WouldBlock, AllSent, Receive, TimedOut, ExpectFails, vars
    <2> QED
      BY <1>0, <2>1
  <1>3. CASE Serve /\ ~ UNCHANGED <<progVars, exit>>
    <2>1. executed' = executed
      BY <1>3 DEF ClientNext, NextCall, ToolExit, CarelessExit, ClientOver, clientVars, Call, vars
    <2> QED
      BY <1>0, <2>1
  <1> QED
    BY <1>1, <1>2, <1>3

\* Between two calls, after answers from all: each target has executed the last
\* command, or does not know it and has said so.
LEMMA LastCovered ==
  ASSUME ClientInv, phase = "idle", no_reply = {}, call > 0, NEW d \in TargetSet
  PROVE  \/ cmd \in Known /\ call \in Seen(d)
         \/ cmd \notin Known /\ invalid_reply # <<>>
  <1>1. PICK k \in 1 .. NTargets : d = Targets[k]
    BY DEF TargetSet
  <1>2. msg_set = {} /\ Covered(Targets[k])
    BY DEF ClientInv, AnswerInv, SentUpTo
  <1> QED
    BY <1>1, <1>2 DEF Covered

\* The tool is in step with every target.
ScriptInv ==
  careful => \A d \in TargetSet :
    /\ \A i \in 1 .. Len(executed[d]) : executed[d][i] = i
    /\ Len(executed[d]) <= call /\ call <= Len(executed[d]) + 1
    /\ exit = "Ok" => Len(executed[d]) = call /\ call = Len(script)

\* Every step of the tool keeps its targets in step with the file.
LEMMA ScriptStep ==
  ASSUME ClientInv, ScriptInv, [ClientNext]_clientVars PROVE ScriptInv'
  <1> SUFFICES ASSUME careful', NEW d \in TargetSet
               PROVE  /\ \A i \in 1 .. Len(executed'[d]) : executed'[d][i] = i
                      /\ Len(executed'[d]) <= call' /\ call' <= Len(executed'[d]) + 1
                      /\ exit' = "Ok" => Len(executed'[d]) = call' /\ call' = Len(script')
    BY DEF ScriptInv, TargetSet, NTargets
  <1>0. /\ d \in Devices /\ careful /\ call \in Nat /\ script' = script
        /\ executed[d] \in Seq(1 .. MaxCall) /\ Len(executed[d]) \in Nat
    <2>1. d \in Devices
      BY TargetType DEF TargetSet
    <2>2. careful' = careful /\ script' = script
      BY DEF ClientNext, NextCall, ToolExit, CarelessExit, ClientOver, clientVars, progVars
    <2>3. call \in Nat
      BY DEF ClientInv, SendInv, TypeInv, TypeOK, TablesOK
    <2>4. executed[d] \in Seq(1 .. MaxCall)
      BY <2>1, ExecutedStep
    <2> QED
      BY <2>1, <2>2, <2>3, <2>4
  <1>1. /\ \A i \in 1 .. Len(executed[d]) : executed[d][i] = i
        /\ Len(executed[d]) <= call /\ call <= Len(executed[d]) + 1
        /\ exit = "Ok" => Len(executed[d]) = call /\ call = Len(script)
    BY <1>0 DEF ScriptInv
  <1>2. AllWell /\ phase = "idle" /\ call > 0 => Len(executed[d]) = call
    <2>1. ASSUME AllWell, phase = "idle", call > 0 PROVE call \in Seen(d)
      BY <2>1, LastCovered DEF AllWell, AllReplied
    <2> QED
      BY <1>0, <1>1, <2>1 DEF Seen
  <1>3. CASE executed'[d] # executed[d]
    <2>1. PICK c \in 1 .. call :
            /\ c \notin Seen(d) /\ executed'[d] = Append(executed[d], c) /\ c = call
            /\ UNCHANGED <<call, script, exit>>
      BY <1>0, <1>3, ExecutedStep
    <2>2. Len(executed[d]) = call - 1
      BY <1>0, <1>1, <2>1 DEF Seen
    <2>3. \A i \in 1 .. Len(executed'[d]) : executed'[d][i] = i
      BY <1>0, <1>1, <2>1, <2>2, SeqAppended
    <2>4. Len(executed'[d]) = call
      BY <1>0, <2>1, <2>2, SeqAppended
    <2> QED
      BY <1>0, <1>1, <2>1, <2>2, <2>3, <2>4
  <1>4. CASE executed'[d] = executed[d]
    <2>1. CASE NextCall
      <3>1. /\ call' = call + 1 /\ phase = "idle" /\ exit' = exit /\ exit = None
            /\ call > 0 => AllWell
        BY <1>0, <2>1 DEF NextCall, Call
      <3> QED
        BY <1>0, <1>1, <1>2, <1>4, <3>1, ClientsAssumption
    <2>2. CASE ToolExit
      <3>1. /\ call' = call /\ phase = "idle"
            /\ exit' = "Ok" => AllWell /\ call = Len(script)
        BY <2>2 DEF ToolExit, StatAbnormal, vars, callVars
      <3> QED
        BY <1>0, <1>1, <1>2, <1>4, <3>1
    <2>3. CASE CarelessExit
      BY <1>0, <2>3 DEF CarelessExit
    <2>4. CASE \/ ClientOver \/ UNCHANGED clientVars
               \/ (Client \/ ExpectFails \/ Serve) /\ UNCHANGED <<progVars, exit>>
      <3>1. UNCHANGED <<call, exit>>
        BY <2>4 DEF ClientOver, clientVars, vars, Client, SendTo, WouldBlock, AllSent, Receive,
                    TimedOut, ExpectFails, Serve, callVars
      <3> QED
        BY <1>0, <1>1, <1>4, <3>1
    <2> QED
      BY <2>1, <2>2, <2>3, <2>4 DEF ClientNext
  <1> QED
    BY <1>3, <1>4

\* The tool goes through its file in step with every target, however many targets
\* and commands there are and whatever is lost or late.
THEOREM ScriptFollowedHolds ==
  ASSUME Faults \subseteq {"garbage", "socket"} PROVE ClientSpec => []ScriptFollowed
  <1>1. ClientInit => ScriptInv
    <2> SUFFICES ASSUME ClientInit, NEW d \in TargetSet
                 PROVE  executed[d] = <<>> /\ call = 0 /\ exit = None
      BY ClientsAssumption DEF ScriptInv
    <2> QED
      BY TargetType DEF ClientInit, Init, TargetSet
  <1>2. ClientInv /\ ScriptInv /\ [ClientNext]_clientVars => ScriptInv'
    BY ScriptStep
  <1>3. ClientInv /\ ScriptInv => ScriptFollowed
    BY DEF ScriptInv, ScriptFollowed
  <1> QED
    BY <1>1, <1>2, <1>3, AlwaysClientInv, PTL DEF ClientSpec

\* What is executed, of any program: calls made of commands known; and while all calls
\* were answered, in order and without one missing.
SettledInv ==
  /\ \A d \in Devices : \A c \in Seen(d) : c \in 1 .. call /\ script[c] \in Known
  /\ ~ unanswered =>
       /\ \A d \in Devices : \A i, j \in 1 .. Len(executed[d]) : i < j => executed[d][i] < executed[d][j]
       /\ \A d \in TargetSet : \A c \in 1 .. call - 1 : script[c] \in Known => c \in Seen(d)

\* Every step keeps what an answered call leaves behind in its place.
LEMMA SettledStep ==
  ASSUME ClientInv, SettledInv, [ClientNext]_clientVars PROVE SettledInv'
  <1>0. call \in Nat /\ call \in 0 .. MaxCall /\ MaxCall \in Nat /\ script' = script /\ TargetSet' = TargetSet /\ TargetSet \subseteq Devices
    <2>1. script' = script
      BY DEF ClientNext, NextCall, ToolExit, CarelessExit, ClientOver, clientVars, progVars
    <2> QED
      BY <2>1, TargetType, SendCmdAssumption DEF TargetSet, NTargets, ClientInv, SendInv, TypeInv, TypeOK, TablesOK
  <1>1. \/ call' = call /\ (~ unanswered' => ~ unanswered)
        \/ NextCall /\ call' = call + 1 /\ unanswered' = unanswered /\ executed' = executed
    <2>1. unanswered \in BOOLEAN
      BY DEF ClientInv, SendInv, TypeInv, TypeOK, TablesOK
    <2> QED
      BY <2>1 DEF ClientNext, NextCall, Call, ToolExit, CarelessExit, ClientOver, clientVars, vars,
            Client, SendTo, WouldBlock, AllSent, Receive, TimedOut, ExpectFails, Serve, Finish,
            callVars, doneVars
  <1>2. ASSUME NEW d \in Devices
        PROVE  /\ \A c \in Seen(d)' : c \in 1 .. call' /\ script[c] \in Known
               /\ ~ unanswered' =>
                    \A i, j \in 1 .. Len(executed'[d]) : i < j => executed'[d][i] < executed'[d][j]
               /\ Seen(d) \subseteq Seen(d)'
    <2>1. CASE executed'[d] = executed[d]
      <3>1. Seen(d)' = Seen(d)
        BY <2>1 DEF Seen
      <3>2. \A c \in Seen(d) : c \in 1 .. call' /\ script[c] \in Known
        BY <1>0, <1>1 DEF SettledInv
      <3>3. ~ unanswered' => ~ unanswered
        BY <1>1
      <3>4. ~ unanswered =>
              \A i, j \in 1 .. Len(executed[d]) : i < j => executed[d][i] < executed[d][j]
        BY DEF SettledInv
      <3>5. ~ unanswered' =>
              \A i, j \in 1 .. Len(executed'[d]) : i < j => executed'[d][i] < executed'[d][j]
        BY <2>1, <3>3, <3>4
      <3> QED
        BY <3>1, <3>2, <3>5
    <2>2. CASE executed'[d] # executed[d]
      <3>1. PICK c \in 1 .. call :
              /\ c \notin Seen(d) /\ script[c] \in Known
              /\ executed'[d] = Append(executed[d], c) /\ call' = call
              /\ ~ unanswered => c = call
              /\ unanswered' = unanswered
        BY <2>2, ExecutedStep
      <3>2. /\ executed[d] \in Seq(1 .. MaxCall) /\ Len(executed[d]) \in Nat
            /\ c \in 1 .. MaxCall
        <4>1. executed[d] \in Seq(1 .. MaxCall)
          BY ExecutedStep
        <4> QED
          BY <1>0, <3>1, <4>1, SeqElements
      <3>3. /\ Len(executed'[d]) = Len(executed[d]) + 1
            /\ \A i \in 1 .. Len(executed[d]) : executed'[d][i] = executed[d][i]
            /\ executed'[d][Len(executed[d]) + 1] = c
        BY <3>1, <3>2, SeqAppended
      <3>4. Seen(d)' = Seen(d) \cup {c}
        BY <3>2, <3>3 DEF Seen
      <3>5. \A i \in 1 .. Len(executed[d]) : executed[d][i] \in 1 .. call /\ executed[d][i] # c
        BY <3>1 DEF SettledInv, Seen
      <3>6. ASSUME ~ unanswered', NEW i \in 1 .. Len(executed'[d]), NEW j \in 1 .. Len(executed'[d]), i < j
            PROVE  executed'[d][i] < executed'[d][j]
        <4>1. CASE j \in 1 .. Len(executed[d])
          BY <3>1, <3>2, <3>3, <3>6, <4>1 DEF SettledInv
        <4>2. CASE j = Len(executed[d]) + 1
          BY <1>0, <3>1, <3>2, <3>3, <3>5, <3>6, <4>2
        <4> QED
          BY <3>2, <3>3, <4>1, <4>2
      <3> QED
        BY <1>0, <3>1, <3>4, <3>6 DEF SettledInv
    <2> QED
      BY <2>1, <2>2
  <1>3. ASSUME ~ unanswered', NEW d \in TargetSet, NEW c \in 1 .. call' - 1, script[c] \in Known
        PROVE  c \in Seen(d)'
    <2>1. CASE c \in 1 .. call - 1 /\ ~ unanswered
      BY <1>0, <1>2, <1>3, <2>1 DEF SettledInv
    <2>2. CASE NextCall /\ call' = call + 1 /\ c = call /\ unanswered' = unanswered
      <3>1. phase = "idle" /\ call > 0
        BY <1>0, <1>3, <2>2 DEF NextCall, Call
      <3>2. no_reply = {}
        BY <1>3, <2>2 DEF ClientInv, AnswerInv
      <3>3. cmd = script[call]
        BY <3>1 DEF ClientInv, ProgInv
      <3>4. call \in Seen(d)
        BY <1>3, <2>2, <3>1, <3>2, <3>3, LastCovered
      <3> QED
        BY <1>0, <1>2, <2>2, <3>4
    <2> QED
      BY <1>0, <1>1, <1>3, <2>1, <2>2
  <1> QED
    BY <1>0, <1>2, <1>3 DEF SettledInv

\* Between two calls, if all so far were answered, every target of any program has
\* executed exactly the commands it knows, in order, and nothing is under way.
THEOREM AnsweredIsSettledHolds ==
  ASSUME Faults \subseteq {"garbage", "socket"} PROVE ClientSpec => []AnsweredIsSettled
  <1>1. ClientInit => SettledInv
    <2> SUFFICES ASSUME ClientInit PROVE SettledInv
      OBVIOUS
    <2>1. call = 0 /\ \A d \in Devices : executed[d] = <<>>
      BY DEF ClientInit, Init
    <2>2. TargetSet \subseteq Devices
      BY TargetType DEF TargetSet
    <2> QED
      BY <2>1, <2>2 DEF SettledInv, Seen
  <1>2. ClientInv /\ SettledInv /\ [ClientNext]_clientVars => SettledInv'
    BY SettledStep
  <1>3. ClientInv /\ SettledInv => AnsweredIsSettled
    <2> SUFFICES ASSUME ClientInv, SettledInv, phase = "idle", ~ unanswered
                 PROVE  /\ reqs = {} /\ reps = {}
                        /\ \A d \in TargetSet :
                             /\ Seen(d) = {c \in 1 .. call : script[c] \in Known}
                             /\ \A i, j \in 1 .. Len(executed[d]) :
                                  i < j => executed[d][i] < executed[d][j]
      BY DEF AnsweredIsSettled
    <2>1. InFlight = {}
      BY DEF ClientInv, SendInv, OpenInv
    <2>2. call \in Nat /\ no_reply = {}
      BY DEF ClientInv, AnswerInv, SendInv, TypeInv, TypeOK, TablesOK
    <2>3. ASSUME NEW d \in TargetSet, call > 0, script[call] \in Known PROVE call \in Seen(d)
      <3>1. cmd = script[call]
        BY <2>3 DEF ClientInv, ProgInv
      <3> QED
        BY <2>2, <2>3, <3>1, LastCovered
    <2>4. ASSUME NEW d \in TargetSet PROVE Seen(d) = {c \in 1 .. call : script[c] \in Known}
      <3>1. d \in Devices
        BY TargetType DEF TargetSet
      <3>2. \A c \in 1 .. call : script[c] \in Known => c \in Seen(d)
        BY <2>2, <2>3 DEF SettledInv
      <3> QED
        BY <3>1, <3>2 DEF SettledInv
    <2>5. \A d \in TargetSet : d \in Devices
      BY TargetType DEF TargetSet
    <2> QED
      BY <2>1, <2>4, <2>5 DEF InFlight, SettledInv
  <1> QED
    BY <1>1, <1>2, <1>3, AlwaysClientInv, PTL DEF ClientSpec

-----------------------------------------------------------------------------
(* How soon a program is over.                                             *)

\* Steps of a call, its beginning included, and what is left of the program at most: the
\* calls still to be made, the one under way, and the exit.
PerCall == 3 * NTargets + 3
ProgramLeft ==
  IF exit # None \/ Panicked THEN 0 ELSE (Len(script) - call) * PerCall + CallLeft + 1

\* A step of the program, which is not one of a device or of the network.
ProgramStep == NextCall \/ ToolExit \/ CarelessExit \/ Client

\* A program leaves between two calls, and makes no more calls than its list has.
ProgramInv ==
  /\ exit # None => phase = "idle"
  /\ script \in Seq(Cmds) /\ call <= Len(script)
  /\ ProgramLeft <= Len(script) * PerCall + 1

\* The counting is right in every step of a program.
LEMMA ProgramCounts ==
  ASSUME TypeInv, CountInv, ProgramInv, [ClientNext]_clientVars
  PROVE  /\ ProgramInv'
         /\ ProgramLeft \in Nat
         /\ ProgramStep => ProgramLeft' < ProgramLeft
         /\ ProgramLeft' <= ProgramLeft
  <1> DEFINE k == Len(script) - call
             c == CallLeft
             P == PerCall
  <1>1. /\ k \in Nat /\ Len(script) \in Nat /\ call \in Nat
        /\ c \in Nat /\ P \in Nat /\ NTargets \in Nat /\ c <= P - 1
    <2>1. Len(script) \in Nat /\ call \in Nat /\ call <= Len(script)
      BY SeqElements DEF ProgramInv, TypeInv, TypeOK, TablesOK
    <2>2. c \in Nat /\ NTargets \in Nat /\ c <= 3 * NTargets + 2
      BY CountTypes DEF CountInv
    <2> QED
      BY <2>1, <2>2 DEF PerCall
  <1>2. \A x, y, z \in Nat : x * y \in Nat /\ x * y + z + 1 \in Nat /\ x * y + z + 1 > 0
    OBVIOUS
  <1>3. ProgramLeft = IF exit # None \/ Panicked THEN 0 ELSE k * P + c + 1
    BY DEF ProgramLeft
  <1>4. ProgramLeft \in Nat /\ k * P \in Nat
    BY <1>1, <1>2, <1>3
  <1>5. script' = script /\ PerCall' = P /\ Len(script') = Len(script)
    BY DEF ClientNext, NextCall, ToolExit, CarelessExit, ClientOver, clientVars, progVars,
           PerCall, NTargets
  <1>6. ASSUME ProgramLeft' <= ProgramLeft, exit' # None => phase' = "idle", call' <= Len(script),
               ProgramLeft' \in Nat
        PROVE  ProgramInv'
    <2>1. Len(script) * P \in Nat
      BY <1>1, <1>2
    <2>2. ProgramLeft <= Len(script) * P + 1
      BY DEF ProgramInv
    <2>3. Len(script)' = Len(script) /\ script' \in Seq(Cmds)
      BY <1>5 DEF ProgramInv
    <2> HIDE DEF P, k, c
    <2>4. ProgramLeft' <= Len(script) * P + 1
      BY <1>4, <1>6, <2>1, <2>2
    <2> QED
      BY <1>5, <1>6, <2>3, <2>4 DEF ProgramInv
  <1>7. CASE NextCall
    <2>1. /\ exit = None /\ exit' = None /\ phase = "idle" /\ phase' = "send"
          /\ call' = call + 1 /\ call < Len(script) /\ Call
      BY <1>7 DEF NextCall, Call
    <2>2. CallLeft' = P - 1
      BY <1>1, <2>1, CallCounts DEF PerCall
    <2>3. ProgramLeft' = (k - 1) * P + (P - 1) + 1 /\ ProgramLeft = k * P + c + 1
      <3>1. Len(script') - call' = k - 1
        BY <1>1, <1>5, <2>1
      <3>2. ~ Panicked /\ ~ Panicked'
        BY <2>1 DEF Panicked
      <3> QED
        BY <1>3, <1>5, <2>1, <2>2, <3>1, <3>2 DEF ProgramLeft
    <2>4. (k - 1) * P + (P - 1) + 1 = k * P
      <3> HIDE DEF k, P
      <3>1. \A x, y \in Nat : (x - 1) * y + (y - 1) + 1 = x * y
        OBVIOUS
      <3> QED
        BY <1>1, <3>1
    <2>5. ProgramLeft' \in Nat /\ ProgramLeft' < ProgramLeft
      <3> HIDE DEF k, P, c
      <3> QED
        BY <1>1, <1>4, <2>3, <2>4
    <2>6. ProgramLeft' <= ProgramLeft /\ call' <= Len(script)
      BY <1>1, <1>4, <2>1, <2>5
    <2> QED
      BY <1>4, <1>6, <2>1, <2>5, <2>6
  <1>8. CASE ToolExit \/ CarelessExit
    <2>1. exit = None /\ phase = "idle" /\ phase' = phase /\ call' = call /\ exit' # None
      BY <1>8, ClientsAssumption DEF ToolExit, CarelessExit, StatAbnormal, vars, callVars
    <2>2. ProgramLeft' = 0 /\ ~ Panicked
      BY <2>1 DEF ProgramLeft, Panicked
    <2>3. ProgramLeft > 0
      <3>1. ProgramLeft = k * P + c + 1
        BY <1>3, <2>1, <2>2
      <3> HIDE DEF k, P, c
      <3> QED
        BY <1>1, <1>2, <3>1
    <2> QED
      BY <1>1, <1>4, <1>6, <2>1, <2>2, <2>3 DEF ProgramInv
  <1>9. CASE ClientOver \/ UNCHANGED clientVars
    <2>1. UNCHANGED <<vars, script, exit>>
      BY <1>9 DEF ClientOver, clientVars, progVars
    <2>2. UNCHANGED <<phase, call, next, msg_set>>
      BY <2>1 DEF vars, callVars
    <2>3. ProgramLeft' = ProgramLeft
      BY <2>1, <2>2 DEF ProgramLeft, PerCall, CallLeft, TargetsLeft, NTargets, Panicked
    <2>4. ~ ProgramStep \/ Client
      BY <2>1, <2>2, ClientsAssumption
         DEF ProgramStep, NextCall, Call, ToolExit, CarelessExit, StatAbnormal
    <2>5. ~ Client
      <3>1. Client => CallLeft' < CallLeft
        BY ClientCountsDown DEF CountInv
      <3>2. CallLeft' = CallLeft
        BY <2>2 DEF CallLeft, TargetsLeft, NTargets
      <3> QED
        BY <1>1, <3>1, <3>2
    <2> QED
      BY <1>1, <1>4, <1>6, <2>1, <2>2, <2>3, <2>4, <2>5 DEF ProgramInv
  <1>10. CASE (Client \/ ExpectFails \/ Serve) /\ UNCHANGED <<progVars, exit>>
    <2>1. call' = call /\ exit' = exit
      BY <1>10 DEF Client, SendTo, WouldBlock, AllSent, Receive, TimedOut, ExpectFails, ReadFails, SocketFails, Serve, callVars
    <2>2. ~ Call
      BY <2>1, <1>1 DEF Call
    <2>3. CallLeft' \in Nat /\ CallLeft' <= c /\ (Client => CallLeft' < c)
      BY <1>10, <2>2, CountStep DEF Next
    <2>4. Client => exit = None /\ ~ Panicked
      BY DEF ProgramInv, Client, SendTo, WouldBlock, AllSent, Receive, TimedOut, Panicked
    <2>5. ~ NextCall /\ ~ ToolExit /\ ~ CarelessExit
      BY <2>1, <2>2, ClientsAssumption DEF NextCall, ToolExit, CarelessExit, StatAbnormal
    <2>6. exit' # None => phase' = "idle"
      BY <1>10, <2>1, <2>4 DEF ProgramInv, ExpectFails, ReadFails, SocketFails, Serve
    <2>7. Panicked => Panicked'
      BY <1>10, <2>4 DEF Panicked, ExpectFails, ReadFails, SocketFails, Serve
    <2>8. Len(script)' - call' = k
      BY <1>5, <2>1
    <2>9. ProgramLeft' = IF exit # None \/ Panicked' THEN 0 ELSE k * P + CallLeft' + 1
      BY <1>5, <2>1, <2>8 DEF ProgramLeft
    <2>10. /\ ProgramLeft' \in Nat /\ ProgramLeft' <= ProgramLeft
           /\ Client => ProgramLeft' < ProgramLeft
      <3> DEFINE m == k * P
                 b == CallLeft'
      <3>1. m \in Nat /\ b \in Nat /\ c \in Nat
        BY <1>1, <1>4, <2>3
      <3>2. CASE exit # None \/ Panicked
        BY <1>3, <1>4, <2>4, <2>7, <2>9, <3>2
      <3>3. CASE ~ (exit # None \/ Panicked)
        <4>1. ProgramLeft = m + c + 1 /\ ProgramLeft' \in {0, m + b + 1}
          BY <1>3, <2>9, <3>3
        <4>2. b <= c /\ (Client => b < c)
          BY <2>3
        <4> HIDE DEF m, b, c
        <4> QED
          BY <3>1, <4>1, <4>2
      <3> QED
        BY <3>2, <3>3
    <2> QED
      BY <1>4, <1>6, <2>1, <2>5, <2>6, <2>10 DEF ProgramInv, ProgramStep
  <1> QED
    BY <1>7, <1>8, <1>9, <1>10 DEF ClientNext

\* A program with a list of m commands for n targets is over after at most m(3n + 3) + 1
\* of its steps, whatever happens to the datagrams and whether or not it looks at the
\* summaries: each of them counts down, and nothing counts up.
THEOREM ProgramCountsDown ==
  ClientSpec => /\ [](ProgramLeft \in 0 .. Len(script) * PerCall + 1)
                /\ [][/\ ProgramStep => ProgramLeft' < ProgramLeft
                      /\ ProgramLeft' <= ProgramLeft]_clientVars
  <1> DEFINE Bounded == ProgramLeft \in 0 .. Len(script) * PerCall + 1
             Nearer == /\ ProgramStep => ProgramLeft' < ProgramLeft
                       /\ ProgramLeft' <= ProgramLeft
             Here == TypeInv /\ CountInv /\ ProgramInv
  <1>1. ClientInit => Here
    <2> SUFFICES ASSUME ClientInit PROVE Here
      OBVIOUS
    <2>1. TypeInv /\ CountInv
      BY InitType, CountInit DEF ClientInit
    <2>2. exit = None /\ phase = "idle" /\ call = 0 /\ script \in Seq(Cmds)
      BY ClientsAssumption DEF ClientInit, Init
    <2>3. Len(script) \in Nat /\ NTargets \in Nat /\ CallLeft = 0
      BY <2>1, <2>2, SeqElements, CountTypes DEF CountInv, CallLeft
    <2>4. ProgramLeft = (Len(script) - 0) * PerCall + 0 + 1
      BY <2>2, <2>3 DEF ProgramLeft, Panicked
    <2>5. \A x, y \in Nat : (x - 0) * y + 0 + 1 <= x * y + 1
      OBVIOUS
    <2>6. PerCall \in Nat
      BY <2>3 DEF PerCall
    <2> QED
      BY <2>1, <2>2, <2>3, <2>4, <2>5, <2>6 DEF ProgramInv
  <1>2. Here /\ [ClientNext]_clientVars => Here' /\ ProgramLeft \in Nat /\ [Nearer]_clientVars
    <2> SUFFICES ASSUME Here, [ClientNext]_clientVars
                 PROVE  Here' /\ ProgramLeft \in Nat /\ Nearer
      OBVIOUS
    <2>1. [Next]_vars
      BY ClientStep
    <2>2. TypeInv' /\ CountInv'
      BY <2>1, TypeStep, CountStep
    <2> QED
      BY <2>2, ProgramCounts
  <1>3. Here => Bounded
    <2> SUFFICES ASSUME Here PROVE Bounded
      OBVIOUS
    <2>1. [ClientNext]_clientVars => ProgramLeft \in Nat
      BY ProgramCounts
    <2>2. /\ CallLeft \in Nat /\ NTargets \in Nat
          /\ Len(script) \in Nat /\ call \in Nat /\ call <= Len(script)
      BY CountTypes, SeqElements DEF CountInv, ProgramInv, TypeInv, TypeOK, TablesOK
    <2>3. PerCall \in Nat /\ Len(script) - call \in Nat
      BY <2>2 DEF PerCall
    <2>4. \A x, y, z \in Nat : x * y \in Nat /\ x * y + z + 1 \in Nat
      OBVIOUS
    <2>5. ProgramLeft \in Nat /\ Len(script) * PerCall \in Nat
      BY <2>2, <2>3, <2>4 DEF ProgramLeft
    <2> QED
      BY <2>5 DEF ProgramInv
  <1> HIDE DEF Here
  <1> QED
    BY <1>1, <1>2, <1>3, PTL DEF ClientSpec

=============================================================================
