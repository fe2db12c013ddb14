--------------------------- MODULE Discovery_proofs ---------------------------
(***************************************************************************)
(* Proofs about find_device (Discovery.tla), mixed with calls of send_cmd, *)
(* for any number of devices, slots and replies and all faults of the      *)
(* network.                                                                *)
(***************************************************************************)
EXTENDS Discovery, SendCmd_proofs

\* Types, and what the control point tells: while answers are listed the command is the
\* query of find_device, and a send_cmd is never one for it; nothing is listed before
\* bcast_cmd returns; and the loop has not come further than the normal replies.
FindInv ==
  /\ DiscTypeOK
  /\ phase # "idle" => call \in 1 .. MaxCall /\ cmd \in Cmds
  /\ phase = "drain" => next \in 1 .. NTargets
  /\ Calling => cmd # Query
  /\ phase \in FindPhases => Len(normal_reply) + Len(invalid_reply) <= MaxReply
  /\ phase \in {"bdrain", "bwait"} /\ cmd = Query => nresult = 0
  /\ phase = "list" => cmd = Query /\ nresult <= Len(normal_reply)

\* The slots that the loop has passed hold the answers in their order, those it has not
\* come to are not written.
Listed ==
  \A i \in 1 .. max_n :
    /\ i <= nresult => result[i] = normal_reply[i].dev
    /\ i > nresult => result[i] = None

\* In the loop every slot counted is written and there is one left, unless nothing was
\* counted; afterwards the last counted slot may be missing.
ListInv ==
  /\ phase \in FindPhases /\ cmd = Query => Listed /\ (nresult = 0 \/ nresult < max_n)
  /\ FoundAnswers

\* The list of normal replies and its entries.
LEMMA RepliesType ==
  ASSUME TablesOK
  PROVE  /\ Len(normal_reply) \in Nat /\ Len(invalid_reply) \in Nat
         /\ \A i \in 1 .. Len(normal_reply) : normal_reply[i].dev \in Devices
  <1> DEFINE S == [dev : Devices, id : Ids]
  <1>1. normal_reply \in Seq(S) /\ invalid_reply \in Seq(S)
    BY DEF TablesOK
  <1>2. \A i \in 1 .. Len(normal_reply) : normal_reply[i] \in S
    BY <1>1, SeqElements
  <1> QED
    BY <1>1, <1>2, SeqElements

\* Before the first call nothing is listed.
LEMMA FindInit == DiscInit => FindInv /\ ListInv
  <1> SUFFICES ASSUME DiscInit PROVE FindInv /\ ListInv
    OBVIOUS
  <1>1. TypeInv /\ phase = "idle" /\ cmd = None
    BY InitType DEF DiscInit, Init
  <1>2. max_n = 0 /\ result = <<>> /\ nresult = 0
    BY DEF DiscInit
  <1>3. result \in [1 .. max_n -> Devices \cup {None}]
    BY <1>2
  <1>4. max_n \in 0 .. MaxN /\ nresult \in 0 .. MaxReply
    BY <1>2, DiscoveryAssumption
  <1>5. cmd # Query
    BY <1>1, DiscoveryAssumption, SendCmdAssumption
  <1> QED
    BY <1>1, <1>3, <1>4, <1>5
    DEF FindInv, ListInv, DiscTypeOK, FindPhases, FoundAnswers, Calling, TypeInv, TypeOK

\* A call of bcast_cmd starts with an empty summary.
LEMMA BroadcastStarts ==
  ASSUME FindInv, NEW c \in Cmds, Broadcast(c)
  PROVE  /\ TablesOK' /\ call' \in 1 .. MaxCall /\ cmd' = c /\ phase' = "bdrain"
         /\ normal_reply' = <<>> /\ invalid_reply' = <<>>
  <1>1. PICK id \in Ids :
          reqs' = reqs \cup {SetMsgId(c, id, d, call') : d \in Devices}
    BY DEF Broadcast
  <1>2. /\ call' = call + 1 /\ call' \in 1 .. MaxCall /\ cmd' = c
        /\ phase' = "bdrain"
        /\ normal_reply' = <<>> /\ invalid_reply' = <<>> /\ no_reply' = {}
        /\ msg_set' = {} /\ DOMAIN addr_msg_id_map' = {}
        /\ UNCHANGED <<next, reps, executed, confirmed, unanswered>>
    BY SendCmdAssumption DEF Broadcast, doneVars, FindInv, DiscTypeOK, TablesOK
  <1>3. reqs' \subseteq Request
    <2>1. \A d \in Devices : SetMsgId(c, id, d, call') \in Request
      BY <1>2 DEF SetMsgId, Request
    <2> QED
      BY <1>1, <2>1 DEF FindInv, DiscTypeOK, TablesOK
  <1>4. TablesOK'
    BY <1>2, <1>3 DEF FindInv, DiscTypeOK, TablesOK
  <1> QED
    BY <1>2, <1>4

\* A call of find_device starts with an empty array, too.
LEMMA FindDeviceStarts == ASSUME FindInv, FindDevice PROVE FindInv' /\ ListInv'
  <1>1. /\ TablesOK' /\ call' \in 1 .. MaxCall /\ cmd' = Query /\ Query \in Cmds
        /\ phase' = "bdrain" /\ normal_reply' = <<>> /\ invalid_reply' = <<>>
    BY DiscoveryAssumption, BroadcastStarts DEF FindDevice
  <1>2. max_n' \in 0 .. MaxN /\ nresult' = 0 /\ result' = [i \in 1 .. max_n' |-> None]
    BY DEF FindDevice
  <1>3. result' \in [1 .. max_n' -> Devices \cup {None}] /\ \A i \in 1 .. max_n' : result'[i] = None
    BY <1>2
  <1>4. nresult' \in 0 .. MaxReply /\ Len(normal_reply') = 0 /\ Len(invalid_reply') = 0
    BY <1>1, <1>2, DiscoveryAssumption
  <1>5. FindInv'
    BY <1>1, <1>2, <1>3, <1>4, DiscoveryAssumption DEF FindInv, DiscTypeOK, FindPhases, Calling
  <1>6. ListInv'
    BY <1>1, <1>2, <1>3 DEF ListInv, Listed, FoundAnswers
  <1> QED
    BY <1>5, <1>6

\* The tool leaves the array of an earlier find_device alone.
LEMMA BroadcastNextStarts == ASSUME FindInv, BroadcastNext PROVE FindInv' /\ ListInv'
  <1>1. PICK c \in Cmds \ {Query} : Broadcast(c)
    BY DEF BroadcastNext
  <1>2. /\ TablesOK' /\ call' \in 1 .. MaxCall /\ cmd' = c
        /\ phase' = "bdrain" /\ normal_reply' = <<>> /\ invalid_reply' = <<>>
    BY <1>1, BroadcastStarts
  <1>3. UNCHANGED <<max_n, result, nresult>>
    BY DEF BroadcastNext, listVars
  <1>4. Len(normal_reply') = 0 /\ Len(invalid_reply') = 0
    BY <1>2
  <1>5. FindInv'
    BY <1>1, <1>2, <1>3, <1>4, DiscoveryAssumption DEF FindInv, DiscTypeOK, FindPhases, Calling
  <1>6. ListInv'
    BY <1>1, <1>2 DEF ListInv, FoundAnswers
  <1> QED
    BY <1>5, <1>6

\* Receiving, blocking, panicking and timing out in bcast_cmd only fill the summary.
LEMMA BcastListens ==
  ASSUME FindInv, ListInv,
         BcastWouldBlock \/ BcastReceive \/ BcastFails \/ BcastTimedOut
  PROVE  FindInv' /\ ListInv'
  <1>0. /\ UNCHANGED <<call, cmd, next, msg_set, addr_msg_id_map, no_reply, reqs, executed,
                       confirmed, max_n, result, nresult>>
        /\ phase \in {"bdrain", "bwait"} /\ phase' \in {"bdrain", "bwait", "list", "idle", "expect"}
        /\ unanswered' \in {unanswered, TRUE}
        /\ phase' = "list" => cmd = Query
        /\ phase' = "idle" => cmd # Query
        /\ cmd = Query => nresult = 0
    BY DEF BcastWouldBlock, BcastReceive, BcastFails, BcastTimedOut, callVars, summaryVars,
           netVars, doneVars, listVars, FindInv
  <1>1. /\ reps' \subseteq reps
        /\ normal_reply' \in Seq([dev : Devices, id : Ids])
        /\ invalid_reply' \in Seq([dev : Devices, id : Ids])
        /\ Len(normal_reply') + Len(invalid_reply') <= MaxReply
    <2> DEFINE S == [dev : Devices, id : Ids]
    <2>1. CASE BcastReceive
      <3>1. PICK r \in reps : reps' \in Consume(reps, r) /\ Record(r)
        BY <2>1 DEF BcastReceive
      <3>2. r \in Reply /\ TablesOK
        BY DEF FindInv, DiscTypeOK, TablesOK
      <3>3. /\ normal_reply \in Seq(S) /\ invalid_reply \in Seq(S) /\ Entry(r) \in S
            /\ Len(normal_reply) + Len(invalid_reply) < MaxReply
        BY <2>1, <3>2, EntryType DEF BcastReceive, TablesOK
      <3>4. \/ normal_reply' = Append(normal_reply, Entry(r)) /\ invalid_reply' = invalid_reply
            \/ invalid_reply' = Append(invalid_reply, Entry(r)) /\ normal_reply' = normal_reply
        BY <3>1 DEF Record
      <3> HIDE DEF S
      <3>5. Len(normal_reply') + Len(invalid_reply') = Len(normal_reply) + Len(invalid_reply) + 1
        BY <3>3, <3>4, SeqAppended
      <3>6. Len(normal_reply') + Len(invalid_reply') <= MaxReply
        BY <3>3, <3>5, DiscoveryAssumption, SeqElements
      <3> QED
        BY <3>1, <3>2, <3>6, ConsumeType, RecordType
    <2>2. CASE BcastWouldBlock \/ BcastFails \/ BcastTimedOut
      BY <1>0, <2>2 DEF BcastWouldBlock, BcastFails, BcastTimedOut, summaryVars, netVars,
                        FindInv, DiscTypeOK, TablesOK, FindPhases
    <2> QED
      BY <2>1, <2>2
  <1>2. TablesOK'
    BY <1>0, <1>1 DEF FindInv, DiscTypeOK, TablesOK
  <1>3. Len(normal_reply') \in Nat
    BY <1>1
  <1>4. FindInv'
    BY <1>0, <1>1, <1>2, <1>3 DEF FindInv, DiscTypeOK, FindPhases, SendPhases, Calling
  <1>5. ListInv'
    BY <1>0 DEF FindInv, DiscTypeOK, ListInv, Listed, FindPhases, FoundAnswers
  <1> QED
    BY <1>4, <1>5

\* A turn of the listing loop writes the next slot, or counts it and leaves.
LEMMA ListGoesOn ==
  ASSUME FindInv, ListInv, ListReply \/ ListEnd PROVE FindInv' /\ ListInv'
  <1>0. /\ UNCHANGED <<call, cmd, next, msg_set, addr_msg_id_map, normal_reply, invalid_reply,
                       no_reply, reqs, reps, executed, confirmed, unanswered, max_n>>
        /\ phase = "list" /\ phase' \in {"list", "idle"} /\ cmd = Query
    BY DEF ListReply, ListEnd, callVars, summaryVars, netVars, doneVars, listVars, FindInv, FindPhases
  <1>1. /\ max_n \in 0 .. MaxN /\ nresult \in 0 .. MaxReply /\ MaxReply \in Nat /\ MaxN \in Nat
        /\ result \in [1 .. max_n -> Devices \cup {None}]
        /\ Listed /\ (nresult = 0 \/ nresult < max_n)
        /\ nresult <= Len(normal_reply) /\ Len(normal_reply) + Len(invalid_reply) <= MaxReply
    BY <1>0, DiscoveryAssumption DEF FindInv, DiscTypeOK, ListInv, FindPhases
  <1>2. TablesOK /\ TablesOK'
    BY <1>0 DEF FindInv, DiscTypeOK, TablesOK, NTargets
  <1>3. /\ Len(normal_reply) \in Nat /\ Len(invalid_reply) \in Nat
        /\ \A i \in 1 .. Len(normal_reply) : normal_reply[i].dev \in Devices
    BY <1>2, RepliesType
  <1>4. /\ result' \in [1 .. max_n -> Devices \cup {None}]
        /\ nresult' \in 0 .. MaxReply /\ nresult' <= Len(normal_reply)
    <2>1. CASE ListReply
      BY <1>1, <1>3, <2>1 DEF ListReply
    <2>2. CASE ListEnd
      BY <1>1, <2>2 DEF ListEnd, listVars
    <2> QED
      BY <2>1, <2>2
  <1>5. FindInv'
    BY <1>0, <1>2, <1>4 DEF FindInv, DiscTypeOK, FindPhases, SendPhases, Calling
  <1>6. ListInv'
    <2>1. CASE ListReply /\ phase' = "list"
      <3>1. /\ nresult' = nresult + 1 /\ nresult' < max_n
            /\ result' = [result EXCEPT ![nresult'] = normal_reply[nresult'].dev]
        BY <1>0, <1>1, <2>1 DEF ListReply, IsLast
      <3> QED
        BY <1>0, <1>1, <2>1, <3>1 DEF ListInv, Listed, FoundAnswers
    <2>2. CASE ListReply /\ phase' = "idle"
      <3>1. nresult' = nresult + 1 /\ nresult' >= max_n /\ result' = result
        BY <1>0, <1>1, <2>2 DEF ListReply, IsLast
      <3>2. nresult' = max_n \/ (max_n = 0 /\ nresult' = 1)
        BY <1>1, <3>1
      <3> QED
        BY <1>0, <1>1, <2>2, <3>1, <3>2 DEF ListInv, Listed, FoundAnswers, FindPhases
    <2>3. CASE ListEnd
      BY <1>0, <1>1, <2>3 DEF ListEnd, listVars, ListInv, Listed, FoundAnswers, FindPhases
    <2> QED
      BY <1>0, <2>1, <2>2, <2>3
  <1> QED
    BY <1>5, <1>6

\* A step of send_cmd or of a device does not touch the array, and the last call of
\* find_device is forgotten when the next call begins.
LEMMA SendStaysApart ==
  ASSUME FindInv, ListInv,
         \/ Call /\ cmd' # Query
         \/ Client \/ ExpectFails \/ Serve \/ Stopped,
         UNCHANGED listVars
  PROVE  FindInv' /\ ListInv'
  <1>0. UNCHANGED <<max_n, result, nresult>> /\ NTargets' = NTargets
    BY DEF listVars, NTargets
  <1>1. CASE Call /\ cmd' # Query
    <2>1. TypeInv /\ phase' = "send"
      BY <1>1 DEF Call, FindInv, DiscTypeOK, TypeInv, TypeOK, SendPhases
    <2>2. TypeInv'
      BY <1>1, <2>1, CallType
    <2>3. FindInv'
      BY <1>0, <1>1, <2>1, <2>2 DEF FindInv, DiscTypeOK, TypeInv, TypeOK, FindPhases
    <2> QED
      BY <2>1, <2>3 DEF ListInv, FoundAnswers, FindPhases
  <1>2. CASE Client \/ ExpectFails
    <2>1. Calling /\ TypeInv /\ UNCHANGED <<call, cmd>> /\ phase' \in SendPhases
      BY <1>2 DEF Client, SendTo, WouldBlock, AllSent, Receive, TimedOut, ExpectFails, ReadFails, SocketFails, Finish,
                  callVars, Calling, SendPhases, FindInv, DiscTypeOK, TypeInv, TypeOK
    <2>2. TypeInv'
      BY <1>2, <2>1, TypeStep DEF Next
    <2>3. FindInv'
      BY <1>0, <2>1, <2>2 DEF FindInv, DiscTypeOK, TypeInv, TypeOK, FindPhases, SendPhases
    <2>4. cmd' # Query
      BY <2>1 DEF FindInv
    <2> QED
      BY <2>1, <2>3, <2>4 DEF ListInv, FoundAnswers, FindPhases, SendPhases
  <1>3. CASE Serve
    <2>1. TablesOK'
      BY <1>3, ServeTables DEF FindInv, DiscTypeOK
    <2>2. UNCHANGED <<phase, call, cmd, next, normal_reply, invalid_reply>>
      BY <1>3 DEF Serve, callVars, summaryVars
    <2> QED
      BY <1>0, <2>1, <2>2 DEF FindInv, DiscTypeOK, Calling, ListInv, Listed, FoundAnswers
  <1>4. CASE Stopped
    <2>1. UNCHANGED vars
      BY <1>4 DEF Stopped
    <2> QED
      BY <1>0, <2>1 DEF vars, callVars, summaryVars, netVars, doneVars, FindInv, DiscTypeOK, TablesOK,
                        Calling, ListInv, Listed, FoundAnswers
  <1> QED
    BY <1>1, <1>2, <1>3, <1>4

\* The invariant holds initially, every step keeps it, and so it always holds.
LEMMA AlwaysFindInv == DiscSpec => [](FindInv /\ ListInv)
  <1>1. FindInv /\ ListInv /\ [DiscNext]_discVars => (FindInv /\ ListInv)'
    <2> SUFFICES ASSUME FindInv, ListInv, [DiscNext]_discVars PROVE (FindInv /\ ListInv)'
      OBVIOUS
    <2>1. CASE UNCHANGED discVars
      <3>1. UNCHANGED vars /\ UNCHANGED listVars /\ NTargets' = NTargets
        BY <2>1 DEF discVars, NTargets
      <3> QED
        BY <3>1 DEF vars, callVars, summaryVars, netVars, doneVars, listVars, FindInv, DiscTypeOK,
                    TablesOK, Calling, ListInv, Listed, FoundAnswers
    <2> QED
      BY <2>1, FindDeviceStarts, BroadcastNextStarts, BcastListens, ListGoesOn, SendStaysApart DEF DiscNext, Finding
  <1> QED
    BY <1>1, FindInit, PTL DEF DiscSpec

\* The tables of send_cmd, bcast_cmd and find_device keep their types.
THEOREM DiscTypeCorrect == DiscSpec => []DiscTypeOK
  <1>1. FindInv => DiscTypeOK
    BY DEF FindInv
  <1> QED
    BY <1>1, AlwaysFindInv, PTL

\* What find_device returns is consistent with the answers, for an array of any size,
\* any number of replies, and a network that repeats, delays and garbles.
THEOREM FoundAnswersHolds == DiscSpec => []FoundAnswers
  <1>1. ListInv => FoundAnswers
    BY DEF ListInv
  <1> QED
    BY <1>1, AlwaysFindInv, PTL

-----------------------------------------------------------------------------
(* How soon find_device returns.                                           *)

\* Replies that may still arrive while bcast_cmd listens.
RepliesLeft == MaxReply - (Len(normal_reply) + Len(invalid_reply))

\* Steps that bcast_cmd and the loop after it take at most: a reply is read and then
\* listed, the socket is made to block, a receive times out, and the loop ends.
FindLeft ==
  CASE phase = "bdrain" -> 2 * RepliesLeft + Len(normal_reply) + 3
    [] phase = "bwait" -> 2 * RepliesLeft + Len(normal_reply) + 2
    [] phase = "list" -> Len(normal_reply) - nresult + 1
    [] OTHER -> 0

\* All of these are numbers.
LEMMA FindCounts ==
  ASSUME FindInv
  PROVE  /\ MaxReply \in Nat /\ Len(normal_reply) \in Nat /\ Len(invalid_reply) \in Nat
         /\ nresult \in Nat
         /\ phase \in FindPhases => RepliesLeft \in Nat
         /\ FindLeft \in 0 .. 2 * MaxReply + 3
  <1>1. /\ MaxReply \in Nat /\ Len(normal_reply) \in Nat /\ Len(invalid_reply) \in Nat /\ nresult \in Nat
    BY DiscoveryAssumption, RepliesType DEF FindInv, DiscTypeOK
  <1>2. phase \in FindPhases => Len(normal_reply) + Len(invalid_reply) <= MaxReply
    BY DEF FindInv
  <1>3. phase = "list" => nresult <= Len(normal_reply)
    BY DEF FindInv
  <1>4. phase \in FindPhases => RepliesLeft \in Nat /\ 2 * RepliesLeft + Len(normal_reply) <= 2 * MaxReply
    BY <1>1, <1>2 DEF RepliesLeft
  <1>5. CASE phase \in {"bdrain", "bwait"}
    <2>1. FindLeft \in {2 * RepliesLeft + Len(normal_reply) + 2, 2 * RepliesLeft + Len(normal_reply) + 3}
      BY <1>5 DEF FindLeft
    <2> QED
      BY <1>1, <1>4, <1>5, <2>1 DEF FindPhases
  <1>6. CASE phase = "list"
    <2>1. FindLeft = Len(normal_reply) - nresult + 1
      BY <1>6 DEF FindLeft
    <2> QED
      BY <1>1, <1>2, <1>3, <1>4, <1>6, <2>1 DEF FindPhases
  <1>7. CASE phase \notin FindPhases
    <2>1. FindLeft = 0
      BY <1>7 DEF FindLeft, FindPhases
    <2> QED
      BY <1>1, <1>7, <2>1
  <1> QED
    BY <1>5, <1>6, <1>7 DEF FindPhases

\* Each step of bcast_cmd and of the loop counts down: a reply restarts the timeout, but
\* there is one reply less to come.
LEMMA FindingCountsDown ==
  ASSUME FindInv, Finding PROVE FindLeft' \in Int /\ FindLeft' < FindLeft
  <1> DEFINE n == Len(normal_reply)
             i == Len(invalid_reply)
  <1>1. /\ MaxReply \in Nat /\ n \in Nat /\ i \in Nat /\ nresult \in Nat
        /\ phase \in FindPhases => RepliesLeft \in Nat
    BY FindCounts
  <1>2. CASE BcastReceive
    <2>1. /\ phase \in {"bdrain", "bwait"} /\ phase' = phase
          /\ \/ n' = n + 1 /\ i' = i
             \/ n' = n /\ i' = i + 1
      <3>1. PICK r \in reps : Record(r)
        BY <1>2 DEF BcastReceive
      <3>2. /\ normal_reply \in Seq([dev : Devices, id : Ids])
            /\ invalid_reply \in Seq([dev : Devices, id : Ids])
            /\ Entry(r) \in [dev : Devices, id : Ids]
        BY EntryType DEF FindInv, DiscTypeOK, TablesOK
      <3>3. \/ normal_reply' = Append(normal_reply, Entry(r)) /\ invalid_reply' = invalid_reply
            \/ invalid_reply' = Append(invalid_reply, Entry(r)) /\ normal_reply' = normal_reply
        BY <3>1 DEF Record
      <3> QED
        BY <1>2, <3>2, <3>3, SeqAppended DEF BcastReceive
    <2>2. RepliesLeft' = RepliesLeft - 1
      BY <1>1, <2>1 DEF RepliesLeft
    <2>3. PICK a \in {2, 3} : FindLeft = 2 * RepliesLeft + n + a /\ FindLeft' = 2 * RepliesLeft' + n' + a
      BY <2>1 DEF FindLeft
    <2>4. RepliesLeft \in Nat
      BY <1>1, <2>1 DEF FindPhases
    <2> HIDE DEF n, i
    <2> QED
      BY <1>1, <2>1, <2>2, <2>3, <2>4
  <1>3. CASE BcastWouldBlock
    <2>1. phase = "bdrain" /\ phase' = "bwait" /\ UNCHANGED <<normal_reply, invalid_reply>>
      BY <1>3 DEF BcastWouldBlock, summaryVars
    <2> QED
      BY <1>1, <2>1 DEF FindLeft, RepliesLeft, FindPhases
  <1>4. CASE BcastTimedOut
    <2>1. /\ phase = "bwait" /\ UNCHANGED <<normal_reply, invalid_reply, nresult>>
          /\ phase' = "idle" \/ (phase' = "list" /\ cmd = Query)
      BY <1>4 DEF BcastTimedOut, summaryVars, listVars
    <2>2. FindLeft' \in {0, n - nresult + 1}
      BY <2>1 DEF FindLeft
    <2>3. FindLeft = 2 * RepliesLeft + n + 2 /\ RepliesLeft \in Nat
      BY <1>1, <2>1 DEF FindLeft, FindPhases
    <2> HIDE DEF n, i
    <2> QED
      BY <1>1, <2>2, <2>3
  <1>5. CASE ListReply \/ ListEnd
    <2>1. /\ phase = "list" /\ UNCHANGED normal_reply /\ nresult <= n
          /\ \/ phase' = "idle"
             \/ phase' = "list" /\ nresult' = nresult + 1
      BY <1>5 DEF ListReply, ListEnd, summaryVars, FindInv
    <2> QED
      BY <1>1, <2>1 DEF FindLeft
  <1> QED
    BY <1>2, <1>3, <1>4, <1>5 DEF Finding

\* Nothing else counts up but the next broadcast.
LEMMA OthersKeepCount ==
  ASSUME FindInv, [DiscNext]_discVars, ~ Finding, ~ FindDevice, ~ BroadcastNext
  PROVE  FindLeft' \in {0, FindLeft}
  <1>1. CASE BcastFails
    BY <1>1 DEF BcastFails, FindLeft
  <1>2. CASE Call
    <2>1. phase' = "send"
      BY <1>2 DEF Call
    <2> QED
      BY <2>1 DEF FindLeft
  <1>3. CASE Client \/ ExpectFails
    <2>1. phase' \in SendPhases
      BY <1>3 DEF Client, SendTo, WouldBlock, AllSent, Receive, TimedOut, ExpectFails, ReadFails, SocketFails, Finish,
                  SendPhases
    <2> QED
      BY <2>1 DEF FindLeft, SendPhases
  <1>4. CASE (Serve \/ Stopped \/ UNCHANGED vars) /\ UNCHANGED listVars
    <2>1. UNCHANGED <<phase, normal_reply, invalid_reply, nresult>>
      BY <1>4 DEF Serve, Stopped, vars, summaryVars, listVars
    <2> QED
      BY <2>1 DEF FindLeft, RepliesLeft
  <1> QED
    BY <1>1, <1>2, <1>3, <1>4 DEF DiscNext, discVars

\* While at most m replies arrive, bcast_cmd and find_device are over after at most
\* 2m + 3 steps, although every reply starts the receive timeout anew: each step counts
\* down, and whatever devices and network do counts up.
THEOREM FindCountsDown ==
  DiscSpec => /\ [](FindLeft \in 0 .. 2 * MaxReply + 3)
              /\ [][/\ Finding => FindLeft' < FindLeft
                    /\ FindLeft' <= FindLeft \/ FindDevice \/ BroadcastNext]_discVars
  <1> DEFINE Bounded == FindLeft \in 0 .. 2 * MaxReply + 3
             Nearer == /\ Finding => FindLeft' < FindLeft
                       /\ FindLeft' <= FindLeft \/ FindDevice \/ BroadcastNext
  <1>1. FindInv => Bounded
    BY FindCounts
  <1>2. FindInv /\ [DiscNext]_discVars => [Nearer]_discVars
    <2> SUFFICES ASSUME FindInv, [DiscNext]_discVars PROVE Nearer
      OBVIOUS
    <2>1. FindLeft \in Nat
      BY <1>1, FindCounts
    <2>2. Finding => FindLeft' \in Int /\ FindLeft' < FindLeft
      BY FindingCountsDown
    <2>3. CASE Finding
      BY <2>1, <2>2, <2>3
    <2>4. CASE ~ Finding
      BY <2>1, <2>2, <2>4, OthersKeepCount
    <2> QED
      BY <2>3, <2>4
  <1> QED
    BY <1>1, <1>2, AlwaysFindInv, PTL DEF DiscSpec

\* Beside the broadcasts, too, the steps of a send_cmd count down, and nothing that
\* happens on the port counts up.
LEMMA CallStillCounts ==
  ASSUME FindInv, IsFiniteSet(msg_set), [DiscNext]_discVars
  PROVE  /\ IsFiniteSet(msg_set')
         /\ Client => CallLeft' < CallLeft
         /\ CallLeft' <= CallLeft \/ Call
  <1>1. CallLeft \in Nat
    <2>1. CASE Calling
      <3>1. TypeInv
        BY <2>1 DEF Calling, FindInv, DiscTypeOK, TypeInv, TypeOK, SendPhases
      <3> QED
        BY <3>1, CountTypes
    <2>2. CASE ~ Calling
      BY <2>2 DEF Calling, CallLeft
    <2> QED
      BY <2>1, <2>2
  <1>2. CASE Client
    <2>1. TypeInv
      BY <1>2 DEF Client, SendTo, WouldBlock, AllSent, Receive, TimedOut, FindInv, DiscTypeOK,
                  TypeInv, TypeOK, SendPhases
    <2>2. IsFiniteSet(msg_set') /\ CallLeft' \in Nat /\ CallLeft' < CallLeft
      BY <1>2, <2>1, ClientCountsDown
    <2> QED
      BY <1>1, <2>2
  <1>3. CASE (FindDevice \/ BroadcastNext) /\ ~ Client
    <2>1. msg_set' = {} /\ phase' = "bdrain"
      BY <1>3 DEF FindDevice, BroadcastNext, Broadcast
    <2>2. CallLeft' = 0
      BY <2>1 DEF CallLeft
    <2> QED
      BY <1>1, <1>3, <2>1, <2>2, FS_EmptySet
  <1>4. CASE (Finding \/ BcastFails) /\ ~ Client
    <2>1. msg_set' = msg_set /\ phase' \in FindPhases \cup {"idle", "expect"}
      BY <1>4 DEF Finding, BcastWouldBlock, BcastReceive, BcastTimedOut, ListReply, ListEnd,
                  BcastFails, FindPhases
    <2>2. CallLeft' = 0
      BY <2>1 DEF CallLeft, FindPhases
    <2> QED
      BY <1>1, <1>4, <2>1, <2>2
  <1>5. CASE Call /\ ~ Client
    <2>1. msg_set' = {}
      BY <1>5 DEF Call, OpenAtCall
    <2> QED
      BY <1>5, <2>1, FS_EmptySet
  <1>6. CASE ExpectFails /\ ~ Client
    <2>1. msg_set' = msg_set /\ phase' = "expect"
      BY <1>6 DEF ExpectFails, ReadFails, SocketFails
    <2>2. CallLeft' = 0
      BY <2>1 DEF CallLeft
    <2> QED
      BY <1>1, <1>6, <2>1, <2>2
  <1>7. CASE (Serve \/ Stopped \/ UNCHANGED discVars) /\ ~ Client
    <2>1. UNCHANGED <<phase, next, msg_set>>
      BY <1>7 DEF Serve, Stopped, discVars, vars
    <2>2. CallLeft' = CallLeft
      BY <2>1 DEF CallLeft, TargetsLeft, NTargets
    <2> QED
      BY <1>1, <1>7, <2>1, <2>2
  <1> QED
    BY <1>2, <1>3, <1>4, <1>5, <1>6, <1>7 DEF DiscNext

\* A send_cmd on a port that broadcasts are sent from as well ends as soon as one on a
\* port of its own: it takes at most 3n + 2 steps for n targets.
THEOREM CallCountsDownThere ==
  DiscSpec => [][/\ Client => CallLeft' < CallLeft
                 /\ CallLeft' <= CallLeft \/ Call
                 /\ Call => CallLeft' = 3 * NTargets + 2]_discVars
  <1> DEFINE Finite == IsFiniteSet(msg_set)
             Nearer == /\ Client => CallLeft' < CallLeft
                       /\ CallLeft' <= CallLeft \/ Call
                       /\ Call => CallLeft' = 3 * NTargets + 2
  <1>1. DiscInit => Finite
    BY FS_EmptySet DEF DiscInit, Init
  <1>2. FindInv /\ Finite /\ [DiscNext]_discVars => Finite' /\ [Nearer]_discVars
    <2> SUFFICES ASSUME FindInv, Finite, [DiscNext]_discVars PROVE Finite' /\ Nearer
      OBVIOUS
    <2>1. Call => CallLeft' = 3 * NTargets + 2
      <3> SUFFICES ASSUME Call PROVE CallLeft' = 3 * NTargets + 2
        OBVIOUS
      <3>1. TypeInv
        BY DEF Call, FindInv, DiscTypeOK, TypeInv, TypeOK, SendPhases
      <3> QED
        BY <3>1, CallCounts
    <2> QED
      BY <2>1, CallStillCounts
  <1> HIDE DEF Finite
  <1> QED
    BY <1>1, <1>2, AlwaysFindInv, PTL DEF DiscSpec

=============================================================================
