--------------------------- MODULE RecvOrder_proofs ---------------------------
(***************************************************************************)
(* Proofs about the order of the frames that recv_pkt forwards (RecvPkt),  *)
(* for channels and sockets of any capacity and streams of any length:     *)
(* where frames of zeros may be, whatever is late or duplicated, and that  *)
(* a stream whose packets are only lost comes out as one run of numbers.   *)
(***************************************************************************)
EXTENDS RecvPkt_proofs

-----------------------------------------------------------------------------
(* Sequences.                                                              *)

\* What Append does.
LEMMA SeqAppend ==
  ASSUME NEW S, NEW s \in Seq(S), NEW x \in S
  PROVE  /\ Len(s) \in Nat /\ Append(s, x) \in Seq(S) /\ Len(Append(s, x)) = Len(s) + 1
         /\ Append(s, x)[Len(s) + 1] = x /\ Append(s, x) # <<>>
         /\ \A i \in 1 .. Len(s) : Append(s, x)[i] = s[i]
  OBVIOUS

\* What Head and Tail do.
LEMMA SeqTail ==
  ASSUME NEW S, NEW s \in Seq(S), s # <<>>
  PROVE  /\ Len(s) \in Nat \ {0} /\ Head(s) = s[1] /\ s[1] \in S /\ s[Len(s)] \in S
         /\ Tail(s) \in Seq(S) /\ Len(Tail(s)) = Len(s) - 1
         /\ \A i \in 1 .. Len(s) - 1 : Tail(s)[i] = s[i + 1]
  OBVIOUS

-----------------------------------------------------------------------------
(* The youngest frame.                                                     *)

\* The last frame put into the channel, even if the application has it already.
LastFrame == IF chan # <<>> THEN chan[Len(chan)] ELSE held

\* A frame put becomes the last one.
LEMMA LastPut ==
  ASSUME TypeOK, NEW f \in Frame, chan' = Append(chan, f)
  PROVE  LastFrame' = f /\ chan' # <<>>
  BY SeqAppend DEF LastFrame, TypeOK

\* Reading the channel leaves it the last one.
LEMMA LastTaken == ASSUME TypeOK, Take PROVE LastFrame' = LastFrame
  <1>1. /\ chan \in Seq(Frame) /\ chan # <<>> /\ held' = Head(chan) /\ chan' = Tail(chan)
    BY DEF Take, TypeOK
  <1>2. /\ Len(chan) \in Nat \ {0} /\ held' = chan[1]
        /\ chan' \in Seq(Frame) /\ Len(chan') = Len(chan) - 1
        /\ \A i \in 1 .. Len(chan) - 1 : chan'[i] = chan[i + 1]
    BY <1>1, SeqTail
  <1>3. CASE Len(chan) = 1
    <2>1. chan' = <<>>
      BY <1>2, <1>3
    <2> QED
      BY <1>1, <1>2, <1>3, <2>1 DEF LastFrame
  <1>4. CASE Len(chan) # 1
    <2>1. chan' # <<>> /\ Len(chan') \in 1 .. Len(chan) - 1
      BY <1>2, <1>4
    <2>2. chan'[Len(chan')] = chan[Len(chan)]
      BY <1>2, <2>1
    <2> QED
      BY <1>1, <2>1, <2>2 DEF LastFrame
  <1> QED
    BY <1>3, <1>4

\* Once something was put, the last frame is one.
LEMMA LastType == ASSUME TypeOK, ~ NothingYet PROVE LastFrame \in Frame /\ LastFrame.cnt \in Cnt
  <1>1. LastFrame \in Frame
    <2>1. CASE chan # <<>>
      BY <2>1, SeqTail DEF TypeOK, LastFrame
    <2>2. CASE chan = <<>>
      BY <2>2 DEF TypeOK, LastFrame, NothingYet
    <2> QED
      BY <2>1, <2>2
  <1> QED
    BY <1>1 DEF Frame

\* Follows, said of the last frame.
LEMMA FollowsLast ==
  ASSUME TypeOK, ~ NothingYet, NEW n \in Cnt, Follows(n) PROVE n <= LastFrame.cnt + 1
  BY DEF Follows, LastFrame, NothingYet

-----------------------------------------------------------------------------
(* The packet numbers.                                                     *)

\* The device numbers fewer packets than a pkt_cnt can tell apart, and no one else sends
\* to the payload socket.
NumbersRight == MaxCnt < CntMod /\ "foreign" \notin Faults

\* Then no number reaches the end of its width.
NumberInv ==
  /\ \A e \in emitted : e[2] < MaxCnt
  /\ \A i \in 1 .. Len(sock) : sock[i].whole => sock[i].cnt < MaxCnt
  /\ pc \in Holding => buf.cnt < MaxCnt
  /\ next_cnt # None => next_cnt <= MaxCnt

\* What is waiting in the socket, when one more datagram arrives or one is read.
LEMMA SockArrive ==
  ASSUME TypeOK, NEW d \in Datagram, Arrive(d)
  PROVE  /\ Len(sock) \in Nat /\ Len(sock') = Len(sock) + 1 /\ sock'[Len(sock) + 1] = d
         /\ \A i \in 1 .. Len(sock) : sock'[i] = sock[i]
  BY SeqAppend DEF Arrive, TypeOK

\* The same when the thread reads one.
LEMMA SockRead ==
  ASSUME TypeOK, sock # <<>>, sock' = Tail(sock)
  PROVE  /\ Len(sock) \in Nat \ {0} /\ Head(sock) = sock[1] /\ sock[1] \in Datagram
         /\ Len(sock') = Len(sock) - 1
         /\ \A i \in 1 .. Len(sock') : sock'[i] = sock[i + 1]
  BY SeqTail DEF TypeOK

\* The thread's own steps keep the numbers.
LEMMA ThreadNumbers ==
  ASSUME NumbersRight, TypeOK, GapInv, NumberInv, Thread PROVE NumberInv'
  <1>1. emitted' = emitted
    BY DEF Thread, PollCmd, RecvTimeout, RecvWrongSize, RecvPayload, ForwardPacket, FillGap,
           Backpressure, SendPayload, SendFiller, devVars
  <1>2. CASE PollCmd \/ RecvTimeout
    <2>1. UNCHANGED <<sock, next_cnt>> /\ pc' \in {"done", "recv", "poll"}
      BY <1>2 DEF PollCmd, RecvTimeout, Exit
    <2> QED
      BY <1>1, <2>1 DEF NumberInv, Holding
  <1>3. CASE RecvWrongSize
    <2>1. sock # <<>> /\ sock' = Tail(sock) /\ pc' = "poll" /\ next_cnt' = next_cnt
      BY <1>3 DEF RecvWrongSize
    <2>2. \A i \in 1 .. Len(sock') : sock'[i] = sock[i + 1] /\ i + 1 \in 1 .. Len(sock)
      BY <2>1, SockRead
    <2> QED
      BY <1>1, <2>1, <2>2 DEF NumberInv, Holding
  <1>4. CASE RecvPayload
    <2>1. /\ sock # <<>> /\ sock' = Tail(sock) /\ Head(sock).whole
          /\ buf' = Written(Head(sock)) /\ next_cnt' = Expected(Head(sock).cnt)
      BY <1>4 DEF RecvPayload
    <2>2. /\ \A i \in 1 .. Len(sock') : sock'[i] = sock[i + 1] /\ i + 1 \in 1 .. Len(sock)
          /\ Head(sock) = sock[1] /\ 1 \in 1 .. Len(sock) /\ sock[1] \in Datagram
      BY <2>1, SockRead
    <2>3. sock[1].cnt < MaxCnt /\ sock[1].cnt \in Cnt
      BY <2>1, <2>2 DEF NumberInv, Datagram
    <2>4. buf'.cnt < MaxCnt
      BY <2>1, <2>2, <2>3, WrittenType
    <2>5. next_cnt' # None => next_cnt' <= MaxCnt
      BY <2>1, <2>2, <2>3, RecvPktAssumption DEF Expected, NumberInv, Cnt
    <2> QED
      BY <1>1, <2>2, <2>4, <2>5 DEF NumberInv
  <1>5. CASE ForwardPacket
    <2>1. UNCHANGED <<sock, buf>> /\ pc = "fill" /\ next_cnt' = Succ(buf.cnt)
      BY <1>5 DEF ForwardPacket, AfterPacket
    <2>2. buf \in Frame /\ buf.cnt < MaxCnt
      BY <2>1 DEF GapInv, LocalsOK, TypeOK, NumberInv, Holding
    <2>3. buf.cnt \in Cnt /\ Succ(buf.cnt) = buf.cnt + 1
      BY <2>2, RecvPktAssumption DEF Frame, Cnt, Succ, NumbersRight
    <2> QED
      BY <1>1, <2>1, <2>2, <2>3, RecvPktAssumption DEF NumberInv, Cnt
  <1>6. CASE FillGap \/ Backpressure
    <2>1. UNCHANGED <<sock, next_cnt>> /\ pc \in Holding /\ (pc' = "done" \/ buf' = buf)
      BY <1>6 DEF FillGap, Backpressure, Retry, Exit, Holding
    <2> QED
      BY <1>1, <2>1 DEF NumberInv, Holding
  <1>7. CASE SendPayload
    <2>1. UNCHANGED <<sock, next_cnt>> /\ pc' \in {"done", "poll"}
      BY <1>7 DEF SendPayload, Exit
    <2> QED
      BY <1>1, <2>1 DEF NumberInv, Holding
  <1>8. CASE SendFiller
    <2>1. UNCHANGED sock /\ pc = "sendfiller"
      BY <1>8 DEF SendFiller
    <2>2. buf \in Frame /\ next_cnt \in Cnt /\ next_cnt < buf.cnt /\ buf.cnt < MaxCnt
      BY <2>1 DEF GapInv, LocalsOK, TypeOK, NumberInv, Holding
    <2>3. buf.cnt \in Cnt /\ Succ(next_cnt) = next_cnt + 1
      BY <2>2, SuccBelow DEF Frame
    <2>4. \/ pc' = "done" /\ next_cnt' = next_cnt
          \/ buf' = buf /\ next_cnt' = Succ(next_cnt)
      BY <1>8 DEF SendFiller, Exit
    <2> QED
      BY <1>1, <2>1, <2>2, <2>3, <2>4, RecvPktAssumption DEF NumberInv, Holding, Cnt
  <1> QED
    BY <1>2, <1>3, <1>4, <1>5, <1>6, <1>7, <1>8 DEF Thread

\* So do the others.
LEMMA OthersNumbers ==
  ASSUME NumbersRight, TypeOK, NumberInv, Application \/ Network PROVE NumberInv'
  <1>1. UNCHANGED <<pc, buf, next_cnt>>
    BY DEF Application, Take, SendDestroy, DropReceiver, Network, Emit, Restart, Late, Foreign,
           Runt, netUnchanged
  <1>2. MaxCnt \in Nat /\ stream \in Streams /\ emitted \subseteq Streams \X Cnt
    BY RecvPktAssumption DEF TypeOK, Streams
  <1>3. ASSUME NEW d \in Datagram, Arrive(d), d.whole => d.cnt < MaxCnt, emitted' = emitted
        PROVE  NumberInv'
    BY <1>1, <1>3, SockArrive DEF NumberInv
  <1>4. ASSUME UNCHANGED <<sock, emitted>> PROVE NumberInv'
    BY <1>1, <1>4 DEF NumberInv
  <1>5. CASE Emit
    <2>1. /\ devCnt \in Nat /\ devCnt < MaxCnt /\ emitted' = emitted \cup {<<stream, devCnt>>}
      BY <1>5, <1>2 DEF Emit, TypeOK
    <2> DEFINE d == [hdr |-> stream, cnt |-> devCnt, whole |-> TRUE]
    <2>2. d \in Datagram /\ d.cnt < MaxCnt
      BY <1>2, <2>1, RecvPktAssumption DEF Datagram, Cnt
    <2>3. Arrive(d) \/ UNCHANGED sock
      BY <1>5 DEF Emit
    <2> HIDE DEF d
    <2>4. \A i \in 1 .. Len(sock') : sock'[i].whole => sock'[i].cnt < MaxCnt
      <3>1. CASE Arrive(d)
        BY <2>2, <3>1, SockArrive DEF NumberInv
      <3>2. CASE UNCHANGED sock
        BY <3>2 DEF NumberInv
      <3> QED
        BY <2>3, <3>1, <3>2
    <2>5. \A e \in emitted' : e[2] < MaxCnt
      BY <2>1 DEF NumberInv
    <2> QED
      BY <1>1, <2>4, <2>5 DEF NumberInv
  <1>6. CASE Late
    <2>1. PICK e \in emitted : Arrive([hdr |-> e[1], cnt |-> e[2], whole |-> TRUE])
      BY <1>6 DEF Late
    <2> DEFINE d == [hdr |-> e[1], cnt |-> e[2], whole |-> TRUE]
    <2>2. e[1] \in Streams /\ e[2] \in Cnt /\ e[2] < MaxCnt
      BY <1>2 DEF NumberInv
    <2>3. d \in Datagram /\ d.cnt < MaxCnt
      BY <2>2 DEF Datagram
    <2> QED
      BY <1>3, <1>6, <2>1, <2>3 DEF Late, devVars
  <1>7. CASE Runt
    <2> DEFINE d == [hdr |-> stream, cnt |-> 0, whole |-> FALSE]
    <2>1. d \in Datagram /\ ~ d.whole
      BY <1>2, RecvPktAssumption DEF Datagram, Cnt
    <2> QED
      BY <1>3, <1>7, <2>1 DEF Runt, devVars
  <1>8. CASE Restart \/ Application
    BY <1>4, <1>8 DEF Restart, Application, Take, SendDestroy, DropReceiver, devVars
  <1>9. ~ Foreign
    BY DEF Foreign, NumbersRight
  <1> QED
    BY <1>5, <1>6, <1>7, <1>8, <1>9 DEF Network

\* At first there are no numbers.
LEMMA NumberInit == Init => NumberInv
  BY DEF Init, NumberInv, Holding

\* Every step keeps the numbers.
LEMMA NumberStep == NumbersRight /\ TypeOK /\ GapInv /\ NumberInv /\ [Next]_vars => NumberInv'
  <1>1. UNCHANGED vars /\ NumberInv => NumberInv'
    BY DEF NumberInv, vars, devVars
  <1> QED
    BY <1>1, ThreadNumbers, OthersNumbers DEF Next, Stopped

-----------------------------------------------------------------------------
(* The number that is due.                                                 *)

\* While a number is missing, next_cnt is the one after the last frame.
NextIsDue ==
  rxOpen =>
    /\ pc \in {"poll", "recv"} /\ next_cnt # None => next_cnt = LastFrame.cnt + 1
    /\ pc \in {"fill", "full"} /\ next_cnt < buf.cnt => next_cnt = LastFrame.cnt + 1
    /\ pc = "sendfiller" => next_cnt = LastFrame.cnt + 1

\* The thread's steps keep it.
LEMMA ThreadDue ==
  ASSUME NumbersRight, TypeOK, GapInv, NumberInv, NextIsDue, Thread PROVE NextIsDue'
  <1> SUFFICES ASSUME rxOpen' PROVE NextIsDue'
    BY DEF NextIsDue
  <1>1. rxOpen
    BY DEF Thread, PollCmd, RecvTimeout, RecvWrongSize, RecvPayload, ForwardPacket, FillGap,
           Backpressure, SendPayload, SendFiller, appVars
  <1>2. ASSUME UNCHANGED <<chan, held>> PROVE LastFrame' = LastFrame
    BY <1>2 DEF LastFrame
  <1>3. CASE PollCmd \/ RecvTimeout \/ RecvWrongSize
    <2>1. /\ UNCHANGED <<chan, held, next_cnt>> /\ pc \in {"poll", "recv"}
          /\ pc' \in {"poll", "recv", "done"}
      BY <1>3 DEF PollCmd, RecvTimeout, RecvWrongSize, Exit, appVars
    <2> QED
      BY <1>1, <1>2, <2>1 DEF NextIsDue
  <1>4. CASE RecvPayload
    <2>1. /\ UNCHANGED <<chan, held>> /\ pc = "recv" /\ pc' = "fill"
          /\ sock # <<>> /\ buf' = Written(Head(sock)) /\ next_cnt' = Expected(Head(sock).cnt)
      BY <1>4 DEF RecvPayload, appVars
    <2>2. Head(sock) \in Datagram
      BY <2>1, SeqTail DEF TypeOK
    <2>3. buf'.cnt = Head(sock).cnt /\ Head(sock).cnt \in Nat
      <3>1. Head(sock).cnt \in Cnt
        BY <2>2 DEF Datagram
      <3> QED
        BY <2>1, <2>2, <3>1, WrittenType DEF Cnt
    <2>4. next_cnt' < buf'.cnt => next_cnt # None /\ next_cnt' = next_cnt
      BY <2>1, <2>3 DEF Expected
    <2> QED
      BY <1>1, <1>2, <2>1, <2>4 DEF NextIsDue
  <1>5. CASE ForwardPacket
    <2>1. /\ UNCHANGED <<chan, held, buf>> /\ pc = "fill" /\ pc' \in {"full", "send"}
          /\ next_cnt' = Succ(buf.cnt)
      BY <1>5 DEF ForwardPacket, AfterPacket, appVars
    <2>2. buf \in Frame /\ buf.cnt < MaxCnt
      BY <2>1 DEF GapInv, LocalsOK, TypeOK, NumberInv, Holding
    <2>3. buf.cnt \in Nat /\ next_cnt' = buf.cnt + 1
      BY <2>1, <2>2, RecvPktAssumption DEF Frame, Cnt, Succ, NumbersRight
    <2>4. ~ next_cnt' < buf'.cnt
      BY <2>1, <2>3
    <2> QED
      BY <2>1, <2>4 DEF NextIsDue
  <1>6. CASE FillGap
    <2>1. /\ UNCHANGED <<chan, held, buf, next_cnt>> /\ pc = "fill" /\ ~ IsDue
          /\ pc' \in {"full", "sendfiller"}
      BY <1>6 DEF FillGap, appVars
    <2>2. buf \in Frame /\ next_cnt \in Cnt
      BY <2>1 DEF GapInv, LocalsOK, TypeOK, Holding
    <2>3. next_cnt < buf.cnt
      BY <2>1, <2>2 DEF Frame, Cnt, IsDue
    <2> QED
      BY <1>1, <1>2, <2>1, <2>3 DEF NextIsDue
  <1>7. CASE Backpressure
    <2>1. /\ UNCHANGED <<chan, held, next_cnt>> /\ pc = "full"
          /\ pc' = "done" \/ (pc' = "fill" /\ buf' = buf)
      BY <1>7 DEF Backpressure, Retry, Exit, appVars
    <2> QED
      BY <1>1, <1>2, <2>1 DEF NextIsDue
  <1>8. CASE SendPayload
    <2>1. /\ chan' = Append(chan, buf) /\ pc' = "poll" /\ pc = "send" /\ next_cnt' = next_cnt
      BY <1>1, <1>8 DEF SendPayload
    <2>2. buf \in Frame /\ next_cnt = Succ(buf.cnt) /\ buf.cnt < MaxCnt
      BY <2>1 DEF GapInv, LocalsOK, TypeOK, Holding, NumberInv
    <2>3. next_cnt = buf.cnt + 1
      BY <2>2, RecvPktAssumption DEF Frame, Cnt, Succ, NumbersRight
    <2>4. LastFrame' = buf
      BY <2>1, <2>2, LastPut
    <2> QED
      BY <2>1, <2>3, <2>4 DEF NextIsDue
  <1>9. CASE SendFiller
    <2>1. /\ chan' = Append(chan, filler) /\ pc' = "fill" /\ pc = "sendfiller" /\ buf' = buf
          /\ next_cnt' = Succ(next_cnt)
      BY <1>1, <1>9 DEF SendFiller
    <2>2. /\ filler \in Frame /\ filler.cnt = next_cnt /\ next_cnt < buf.cnt
          /\ next_cnt \in Cnt /\ buf \in Frame
      BY <2>1 DEF GapInv, LocalsOK, TypeOK, Holding
    <2>3. next_cnt' = filler.cnt + 1
      BY <2>1, <2>2, SuccBelow DEF Frame
    <2>4. LastFrame' = filler
      BY <2>1, <2>2, LastPut
    <2> QED
      BY <2>1, <2>3, <2>4 DEF NextIsDue
  <1> QED
    BY <1>3, <1>4, <1>5, <1>6, <1>7, <1>8, <1>9 DEF Thread

\* At first nothing is due; every step keeps it.
LEMMA DueStep ==
  /\ Init => NextIsDue
  /\ NumbersRight /\ TypeOK /\ GapInv /\ NumberInv /\ NextIsDue /\ [Next]_vars => NextIsDue'
  <1>1. Init => NextIsDue
    BY DEF Init, NextIsDue
  <1>2. ASSUME TypeOK, NextIsDue, Application \/ Network \/ UNCHANGED vars PROVE NextIsDue'
    <2>1. UNCHANGED <<pc, buf, next_cnt>>
      BY <1>2 DEF Application, Take, SendDestroy, DropReceiver, Network, Emit, Restart, Late,
                  Foreign, Runt, netUnchanged, vars
    <2>2. rxOpen' => rxOpen /\ LastFrame' = LastFrame
      <3>1. CASE Take
        BY <1>2, <3>1, LastTaken DEF Take
      <3>2. CASE SendDestroy \/ Network \/ UNCHANGED vars
        BY <3>2 DEF SendDestroy, Network, Emit, Restart, Late, Foreign, Runt, netUnchanged, vars,
                    appVars, LastFrame
      <3>3. CASE DropReceiver
        BY <3>3 DEF DropReceiver
      <3> QED
        BY <1>2, <3>1, <3>2, <3>3 DEF Application
    <2> QED
      BY <1>2, <2>1, <2>2 DEF NextIsDue
  <1> QED
    BY <1>1, <1>2, ThreadDue DEF Next, Stopped

-----------------------------------------------------------------------------
(* Frames of zeros.                                                        *)

\* A frame of zeros that is put continues the last frame.
LEMMA PutFillers ==
  ASSUME TypeOK, FillersFollow, NEW f \in Frame, chan' = Append(chan, f), held' = held,
         f.data = Zeros => ~ NothingYet /\ f.cnt = LastFrame.cnt + 1
  PROVE  FillersFollow'
  <1>1. /\ Len(chan) \in Nat /\ Len(chan') = Len(chan) + 1 /\ chan'[Len(chan) + 1] = f
        /\ \A i \in 1 .. Len(chan) : chan'[i] = chan[i]
    BY SeqAppend DEF TypeOK
  <1>2. chan = <<>> <=> Len(chan) = 0
    BY DEF TypeOK
  <1>3. ASSUME NEW i \in 1 .. Len(chan') - 1, chan'[i + 1].data = Zeros
        PROVE  chan'[i + 1].cnt = chan'[i].cnt + 1
    <2>1. CASE i = Len(chan)
      BY <1>1, <1>2, <1>3, <2>1 DEF LastFrame
    <2>2. CASE i # Len(chan)
      <3>1. i \in 1 .. Len(chan) - 1 /\ i \in 1 .. Len(chan) /\ i + 1 \in 1 .. Len(chan)
        BY <1>1, <2>2
      <3> QED
        BY <1>1, <1>3, <3>1 DEF FillersFollow
    <2> QED
      BY <2>1, <2>2
  <1>4. chan'[1].data = Zeros => held' # None /\ chan'[1].cnt = held'.cnt + 1
    <2>1. CASE chan = <<>>
      BY <1>1, <1>2, <2>1 DEF LastFrame, NothingYet
    <2>2. CASE chan # <<>>
      BY <1>1, <1>2, <2>2 DEF FillersFollow
    <2> QED
      BY <2>1, <2>2
  <1> QED
    BY <1>3, <1>4 DEF FillersFollow

\* Reading the channel changes nothing about it.
LEMMA TakeFillers == ASSUME TypeOK, FillersFollow, Take PROVE FillersFollow'
  <1>1. /\ chan \in Seq(Frame) /\ chan # <<>> /\ held' = Head(chan) /\ chan' = Tail(chan)
    BY DEF Take, TypeOK
  <1>2. /\ Len(chan) \in Nat \ {0} /\ held' = chan[1] /\ chan[1] \in Frame
        /\ chan' \in Seq(Frame) /\ Len(chan') = Len(chan) - 1
        /\ \A i \in 1 .. Len(chan) - 1 : chan'[i] = chan[i + 1]
    BY <1>1, SeqTail
  <1>3. ASSUME NEW i \in 1 .. Len(chan') - 1, chan'[i + 1].data = Zeros
        PROVE  chan'[i + 1].cnt = chan'[i].cnt + 1
    <2>1. i \in 1 .. Len(chan) - 1 /\ i + 1 \in 1 .. Len(chan) - 1
      BY <1>2
    <2> QED
      BY <1>2, <1>3, <2>1 DEF FillersFollow
  <1>4. chan' # <<>> /\ chan'[1].data = Zeros => held' # None /\ chan'[1].cnt = held'.cnt + 1
    <2> SUFFICES ASSUME chan' # <<>>, chan'[1].data = Zeros
                 PROVE  held' # None /\ chan'[1].cnt = held'.cnt + 1
      OBVIOUS
    <2>1. 1 \in 1 .. Len(chan) - 1
      BY <1>2
    <2> QED
      BY <1>2, <2>1, NoneAssumption DEF FillersFollow
  <1> QED
    BY <1>3, <1>4 DEF FillersFollow

\* Every step keeps frames of zeros where they belong.
LEMMA FillersStep ==
  TypeOK /\ GapInv /\ NextIsDue /\ FillersFollow /\ [Next]_vars => FillersFollow'
  <1> SUFFICES ASSUME TypeOK, GapInv, NextIsDue, FillersFollow, [Next]_vars PROVE FillersFollow'
    OBVIOUS
  <1>1. CASE SendPayload
    <2>1. CASE UNCHANGED <<chan, held>>
      BY <2>1 DEF FillersFollow
    <2>2. CASE ~ UNCHANGED <<chan, held>>
      <3>1. pc = "send" /\ chan' = Append(chan, buf) /\ held' = held
        BY <1>1, <2>2 DEF SendPayload, appVars
      <3>2. buf \in Frame /\ buf.data # Zeros
        BY <3>1 DEF GapInv, LocalsOK, TypeOK, Holding
      <3> QED
        BY <3>1, <3>2, PutFillers
    <2> QED
      BY <2>1, <2>2
  <1>2. CASE SendFiller
    <2>1. CASE UNCHANGED <<chan, held>>
      BY <2>1 DEF FillersFollow
    <2>2. CASE ~ UNCHANGED <<chan, held>>
      <3>1. pc = "sendfiller" /\ rxOpen /\ chan' = Append(chan, filler) /\ held' = held
        BY <1>2, <2>2 DEF SendFiller, appVars
      <3>2. filler \in Frame /\ filler.cnt = LastFrame.cnt + 1 /\ ~ NothingYet
        BY <3>1 DEF GapInv, LocalsOK, ExpectedFollows, NextIsDue, TypeOK
      <3> QED
        BY <3>1, <3>2, PutFillers
    <2> QED
      BY <2>1, <2>2
  <1>3. CASE Take
    BY <1>3, TakeFillers
  <1>4. CASE DropReceiver
    <2>1. held' = held /\ chan' \in {chan, <<>>}
      BY <1>4 DEF DropReceiver
    <2> QED
      BY <2>1 DEF FillersFollow
  <1>5. CASE ~ (SendPayload \/ SendFiller \/ Take \/ DropReceiver)
    <2>1. UNCHANGED <<chan, held>>
      BY <1>5 DEF Next, Thread, Application, Network, PollCmd, RecvTimeout, RecvWrongSize,
                  RecvPayload, ForwardPacket, FillGap, Backpressure, SendDestroy, Emit, Restart,
                  Late, Foreign, Runt, netUnchanged, appVars, Stopped, vars
    <2> QED
      BY <2>1 DEF FillersFollow
  <1> QED
    BY <1>1, <1>2, <1>3, <1>4, <1>5

\* Unless someone else sends to the port: a frame of zeros stands for the number after
\* the frame before it, however late or often packets come, whatever starts anew.
THEOREM FillersFollowHolds ==
  ASSUME MaxCnt < CntMod, "foreign" \notin Faults
  PROVE  Spec => []FillersFollow
  <1>1. NumbersRight
    BY DEF NumbersRight
  <1> DEFINE I == TypeOK /\ GapInv /\ NumberInv /\ NextIsDue /\ FillersFollow
  <1>2. Init => I
    <2>1. Init => FillersFollow
      BY DEF Init, FillersFollow
    <2> QED
      BY <2>1, GapInductive, NumberInit, DueStep
  <1>3. I /\ [Next]_vars => I'
    BY <1>1, GapInductive, NumberStep, DueStep, FillersStep
  <1>4. I => FillersFollow
    OBVIOUS
  <1> QED
    BY <1>2, <1>3, <1>4, PTL DEF Spec

-----------------------------------------------------------------------------
(* Packets that are only lost.                                             *)

\* Nothing is late, duplicated or foreign.
OnlyLosses == MaxCnt < CntMod /\ Faults \subseteq {"runt", "restart"}

\* a was numbered before b, by the same device: streams follow one another.
Earlier(a, b) == a.hdr < b.hdr \/ (a.hdr = b.hdr /\ a.cnt < b.cnt)

\* The packet that the device sends next.
Coming == [hdr |-> stream, cnt |-> devCnt]

\* f is earlier than all that is still to be read.
Ahead(f) ==
  /\ Earlier(f, Coming)
  /\ \A i \in 1 .. Len(sock) : sock[i].whole => Earlier(f, sock[i])

\* What is under way is in the order of its numbers: the last frame put, the packet that
\* the thread holds, the packets in the socket, the packet that comes next.
OrderInv ==
  /\ \A i \in 1 .. Len(sock) : sock[i].whole => Earlier(sock[i], Coming)
  /\ \A i, j \in 1 .. Len(sock) :
       i < j /\ sock[i].whole /\ sock[j].whole => Earlier(sock[i], sock[j])
  /\ pc \in Holding => Ahead(buf)
  /\ rxOpen /\ ~ NothingYet =>
       /\ Ahead(LastFrame)
       /\ pc \in Holding => Earlier(LastFrame, buf)
  /\ pc = "sendfiller" => filler.hdr = buf.hdr

\* Earlier is transitive.
LEMMA EarlierTrans ==
  ASSUME NEW a, NEW b, NEW c,
         a.hdr \in Nat, a.cnt \in Nat, b.hdr \in Nat, b.cnt \in Nat, c.hdr \in Nat, c.cnt \in Nat,
         Earlier(a, b), Earlier(b, c)
  PROVE  Earlier(a, c)
  BY DEF Earlier

\* The marks of frames and datagrams are numbers.
LEMMA MarkTypes ==
  /\ \A f \in Frame : f.hdr \in Nat /\ f.cnt \in Nat
  /\ \A d \in Datagram : d.hdr \in Nat /\ d.cnt \in Nat
  /\ TypeOK => Coming.hdr \in Nat /\ Coming.cnt \in Nat
  BY RecvPktAssumption DEF Frame, Datagram, Cnt, Streams, Coming, TypeOK

\* What a step of the thread leaves in order when it neither reads the socket nor puts a
\* frame.
LEMMA OrderQuiet ==
  ASSUME OrderInv, UNCHANGED <<stream, devCnt, sock, chan, held, rxOpen>>,
         pc' \in Holding => pc \in Holding /\ buf' = buf,
         pc' = "sendfiller" => filler'.hdr = buf'.hdr
  PROVE  OrderInv'
  <1>1. UNCHANGED <<Coming, LastFrame, NothingYet>>
    BY DEF Coming, LastFrame, NothingYet
  <1> QED
    BY <1>1 DEF OrderInv, Ahead

\* What is read from the socket.
LEMMA OrderRead ==
  ASSUME TypeOK, OrderInv, sock # <<>>, sock' = Tail(sock),
         UNCHANGED <<stream, devCnt, chan, held, rxOpen>>, pc = "recv",
         \/ pc' = "poll"
         \/ pc' = "fill" /\ Head(sock).whole /\ buf' = Written(Head(sock))
  PROVE  OrderInv'
  <1>1. UNCHANGED <<Coming, LastFrame, NothingYet>>
    BY DEF Coming, LastFrame, NothingYet
  <1>2. /\ Len(sock) \in Nat \ {0} /\ Head(sock) = sock[1] /\ sock[1] \in Datagram
        /\ Len(sock') = Len(sock) - 1 /\ 1 \in 1 .. Len(sock)
        /\ \A i \in 1 .. Len(sock') : sock'[i] = sock[i + 1] /\ i + 1 \in 1 .. Len(sock)
    BY SockRead
  <1>3. \A i \in 1 .. Len(sock') : sock'[i].whole => Earlier(sock'[i], Coming')
    BY <1>1, <1>2 DEF OrderInv
  <1>4. ASSUME NEW i \in 1 .. Len(sock'), NEW j \in 1 .. Len(sock'), i < j,
               sock'[i].whole, sock'[j].whole
        PROVE  Earlier(sock'[i], sock'[j])
    <2>1. i + 1 < j + 1
      BY <1>2, <1>4
    <2> QED
      BY <1>2, <1>4, <2>1 DEF OrderInv
  <1>5. rxOpen' /\ ~ NothingYet' => Ahead(LastFrame)'
    BY <1>1, <1>2 DEF OrderInv, Ahead
  <1>6. CASE pc' = "poll"
    BY <1>3, <1>4, <1>5, <1>6 DEF OrderInv, Holding
  <1>7. CASE pc' = "fill" /\ Head(sock).whole /\ buf' = Written(Head(sock))
    <2>1. buf'.hdr = sock[1].hdr /\ buf'.cnt = sock[1].cnt /\ sock[1].whole
      BY <1>2, <1>7 DEF Written
    <2>2. Ahead(buf)'
      <3>1. Earlier(sock[1], Coming)
        BY <1>2, <2>1 DEF OrderInv
      <3>2. ASSUME NEW i \in 1 .. Len(sock'), sock'[i].whole PROVE Earlier(sock[1], sock'[i])
        <4>1. i + 1 \in 1 .. Len(sock) /\ 1 < i + 1 /\ sock'[i] = sock[i + 1]
          BY <1>2
        <4> QED
          BY <1>2, <2>1, <3>2, <4>1 DEF OrderInv
      <3> QED
        BY <1>1, <2>1, <3>1, <3>2 DEF Ahead, Earlier
    <2>3. rxOpen' /\ ~ NothingYet' => Earlier(LastFrame', buf')
      BY <1>1, <1>2, <2>1 DEF OrderInv, Ahead, Earlier
    <2> QED
      BY <1>3, <1>4, <1>5, <1>7, <2>2, <2>3 DEF OrderInv
  <1> QED
    BY <1>6, <1>7

\* The thread keeps the order.
LEMMA ThreadOrder == ASSUME TypeOK, GapInv, OrderInv, Thread PROVE OrderInv'
  <1>1. CASE PollCmd \/ RecvTimeout
    <2>1. pc' \in {"done", "recv", "poll"} /\ UNCHANGED <<stream, devCnt, sock, chan, held, rxOpen>>
      BY <1>1 DEF PollCmd, RecvTimeout, Exit, devVars, appVars
    <2> QED
      BY <2>1, OrderQuiet DEF Holding
  <1>2. CASE RecvWrongSize \/ RecvPayload
    BY <1>2, OrderRead DEF RecvWrongSize, RecvPayload, devVars, appVars
  <1>3. CASE ForwardPacket
    <2>1. /\ pc = "fill" /\ pc' \in {"full", "send"} /\ buf' = buf
          /\ UNCHANGED <<stream, devCnt, sock, chan, held, rxOpen>>
      BY <1>3 DEF ForwardPacket, devVars, appVars
    <2> QED
      BY <2>1, OrderQuiet DEF Holding
  <1>4. CASE FillGap
    <2>1. /\ pc = "fill" /\ pc' \in {"full", "sendfiller"} /\ buf' = buf
          /\ UNCHANGED <<stream, devCnt, sock, chan, held, rxOpen>> /\ filler'.hdr = buf.hdr
      BY <1>4 DEF FillGap, devVars, appVars
    <2> QED
      BY <2>1, OrderQuiet DEF Holding
  <1>5. CASE Backpressure
    <2>1. /\ pc = "full"
          /\ pc' = "done" \/ (pc' = "fill" /\ buf' = buf)
          /\ UNCHANGED <<stream, devCnt, sock, chan, held, rxOpen>>
      BY <1>5 DEF Backpressure, Retry, Exit, devVars, appVars
    <2> QED
      BY <2>1, OrderQuiet DEF Holding
  <1>6. CASE SendPayload \/ SendFiller
    <2>1. UNCHANGED <<stream, devCnt, sock, held, rxOpen>> /\ pc \in Holding
      BY <1>6 DEF SendPayload, SendFiller, devVars, appVars, Holding
    <2>2. CASE pc' = "done"
      <3>1. UNCHANGED chan
        BY <1>6, <2>2 DEF SendPayload, SendFiller
      <3> QED
        BY <2>1, <2>2, <3>1, OrderQuiet DEF Holding
    <2>3. CASE pc' # "done"
      <3>1. PICK f \in {buf, filler} :
              /\ chan' = Append(chan, f)
              /\ \/ f = buf /\ pc' = "poll"
                 \/ /\ f = filler /\ pc' = "fill" /\ buf' = buf
                    /\ f.hdr = buf.hdr /\ f.cnt < buf.cnt
              /\ f \in Frame
        <4>1. CASE SendPayload
          <5>1. chan' = Append(chan, buf) /\ pc' = "poll" /\ pc = "send"
            BY <2>3, <4>1 DEF SendPayload, Exit
          <5>2. buf \in Frame
            BY <5>1 DEF GapInv, LocalsOK, TypeOK, Holding
          <5> QED
            BY <5>1, <5>2
        <4>2. CASE SendFiller
          <5>1. chan' = Append(chan, filler) /\ pc' = "fill" /\ pc = "sendfiller" /\ buf' = buf
            BY <2>3, <4>2 DEF SendFiller, Exit
          <5>2. filler \in Frame /\ filler.hdr = buf.hdr /\ filler.cnt < buf.cnt
            BY <5>1 DEF GapInv, LocalsOK, TypeOK, OrderInv
          <5> QED
            BY <5>1, <5>2
        <4> QED
          BY <1>6, <4>1, <4>2
      <3>2. LastFrame' = f
        BY <3>1, LastPut
      <3>3. buf \in Frame /\ Ahead(buf)
        BY <2>1 DEF GapInv, LocalsOK, TypeOK, OrderInv
      <3>4. Ahead(f)
        <4>1. CASE f = buf
          BY <3>3, <4>1
        <4>2. CASE f # buf
          <5>1. Earlier(f, buf)
            BY <3>1, <4>2 DEF Earlier
          <5>2. Earlier(f, Coming)
            BY <3>1, <3>3, <5>1, MarkTypes, EarlierTrans DEF Ahead
          <5>3. ASSUME NEW i \in 1 .. Len(sock), sock[i].whole PROVE Earlier(f, sock[i])
            <6>1. sock[i] \in Datagram /\ Earlier(buf, sock[i])
              BY <3>3, <5>3 DEF Ahead, TypeOK
            <6> QED
              BY <3>1, <3>3, <5>1, <6>1, MarkTypes, EarlierTrans
          <5> QED
            BY <5>2, <5>3 DEF Ahead
        <4> QED
          BY <4>1, <4>2
      <3>5. Ahead(LastFrame)'
        BY <2>1, <3>2, <3>4 DEF Ahead, Coming
      <3>6. CASE pc' = "poll"
        BY <2>1, <3>5, <3>6 DEF OrderInv, Holding, Coming
      <3>7. CASE f = filler /\ pc' = "fill" /\ buf' = buf
        <4>1. Earlier(LastFrame', buf')
          BY <3>1, <3>2, <3>7 DEF Earlier
        <4>2. Ahead(buf)'
          BY <2>1, <3>3, <3>7 DEF Ahead, Coming
        <4> QED
          BY <2>1, <3>5, <3>7, <4>1, <4>2 DEF OrderInv, Coming
      <3> QED
        BY <3>1, <3>6, <3>7
    <2> QED
      BY <2>2, <2>3
  <1> QED
    BY <1>1, <1>2, <1>3, <1>4, <1>5, <1>6 DEF Thread

\* So does the application.
LEMMA ApplicationOrder == ASSUME TypeOK, OrderInv, Application PROVE OrderInv'
  <1>1. UNCHANGED <<stream, devCnt, sock, pc, buf, filler>> /\ UNCHANGED Coming
    BY DEF Application, Take, SendDestroy, DropReceiver, devVars, Coming
  <1>2. rxOpen' /\ ~ NothingYet' => rxOpen /\ ~ NothingYet /\ LastFrame' = LastFrame
    <2>1. CASE Take
      BY <2>1, LastTaken DEF Take, NothingYet
    <2>2. CASE SendDestroy
      BY <2>2 DEF SendDestroy, appVars, NothingYet, LastFrame
    <2>3. CASE DropReceiver
      BY <2>3 DEF DropReceiver
    <2> QED
      BY <2>1, <2>2, <2>3 DEF Application
  <1> QED
    BY <1>1, <1>2 DEF OrderInv, Ahead

\* The device's next step puts everything so far before what comes then.
LEMMA NetworkOrder ==
  ASSUME OnlyLosses, TypeOK, NumberInv, GapInv, OrderInv, Network PROVE OrderInv'
  <1>1. UNCHANGED <<pc, buf, filler, chan, rxOpen, held, LastFrame, NothingYet>>
    BY DEF Network, Emit, Restart, Late, Foreign, Runt, netUnchanged, appVars, LastFrame,
           NothingYet
  <1>2. stream \in Nat /\ devCnt \in Nat /\ MaxCnt \in Nat
    BY RecvPktAssumption DEF TypeOK, Streams
  <1>3. ASSUME UNCHANGED sock,
               \A f \in Frame \cup Datagram : Earlier(f, Coming) => Earlier(f, Coming')
        PROVE  OrderInv'
    <2>1. \A i \in 1 .. Len(sock) : sock[i] \in Datagram
      BY DEF TypeOK
    <2>2. pc \in Holding => buf \in Frame
      BY DEF GapInv, LocalsOK, TypeOK
    <2>3. ~ NothingYet => LastFrame \in Frame
      BY LastType
    <2> QED
      BY <1>1, <1>3, <2>1, <2>2, <2>3 DEF OrderInv, Ahead
  <1>4. ASSUME NEW d \in Datagram, Arrive(d), ~ d.whole, Coming' = Coming PROVE OrderInv'
    <2>1. /\ Len(sock) \in Nat /\ Len(sock') = Len(sock) + 1 /\ sock'[Len(sock) + 1] = d
          /\ \A i \in 1 .. Len(sock) : sock'[i] = sock[i]
      BY <1>4, SockArrive
    <2>2. \A i \in 1 .. Len(sock') : sock'[i].whole => i \in 1 .. Len(sock) /\ sock'[i] = sock[i]
      BY <1>4, <2>1
    <2> QED
      BY <1>1, <1>4, <2>2 DEF OrderInv, Ahead
  <1>5. CASE Emit
    <2> DEFINE d == [hdr |-> stream, cnt |-> devCnt, whole |-> TRUE]
    <2>1. /\ devCnt < MaxCnt /\ devCnt' = devCnt + 1 /\ stream' = stream
          /\ Arrive(d) \/ UNCHANGED sock
      BY <1>5 DEF Emit
    <2>2. \A f \in Frame \cup Datagram : Earlier(f, Coming) => Earlier(f, Coming')
      BY <1>2, <2>1, MarkTypes DEF Earlier, Coming
    <2>3. CASE UNCHANGED sock
      BY <1>3, <2>2, <2>3
    <2>4. CASE Arrive(d)
      <3>1. d \in Datagram
        BY <1>2, <2>1, RecvPktAssumption DEF Datagram, Cnt, TypeOK
      <3>2. /\ \A f : Earlier(f, Coming) => Earlier(f, d)
            /\ Earlier(d, Coming')
        BY <1>2, <2>1 DEF Earlier, Coming
      <3> HIDE DEF d
      <3>3. /\ Len(sock) \in Nat /\ Len(sock') = Len(sock) + 1 /\ sock'[Len(sock) + 1] = d
            /\ \A i \in 1 .. Len(sock) : sock'[i] = sock[i]
        BY <2>4, <3>1, SockArrive
      <3>4. \A i \in 1 .. Len(sock') : i \in 1 .. Len(sock) \/ i = Len(sock) + 1
        BY <3>3
      <3>5. ASSUME NEW f \in Frame, Ahead(f) PROVE Ahead(f)'
        BY <2>2, <3>2, <3>3, <3>4, <3>5 DEF Ahead
      <3>6. /\ \A i \in 1 .. Len(sock) : sock[i] \in Datagram
            /\ pc \in Holding => buf \in Frame
            /\ ~ NothingYet => LastFrame \in Frame
        BY LastType DEF GapInv, LocalsOK, TypeOK
      <3>7. \A i \in 1 .. Len(sock') : sock'[i].whole => Earlier(sock'[i], Coming')
        BY <2>2, <3>2, <3>3, <3>4, <3>6 DEF OrderInv
      <3>8. ASSUME NEW i \in 1 .. Len(sock'), NEW j \in 1 .. Len(sock'), i < j,
                   sock'[i].whole, sock'[j].whole
            PROVE  Earlier(sock'[i], sock'[j])
        <4>1. i \in 1 .. Len(sock) /\ sock'[i] = sock[i]
          BY <3>3, <3>4, <3>8
        <4>2. CASE j \in 1 .. Len(sock)
          BY <3>3, <3>8, <4>1, <4>2 DEF OrderInv
        <4>3. CASE j = Len(sock) + 1
          BY <3>2, <3>3, <3>8, <4>1, <4>3 DEF OrderInv
        <4> QED
          BY <3>4, <4>2, <4>3
      <3>9. pc' \in Holding => Ahead(buf)'
        <4> SUFFICES ASSUME pc \in Holding PROVE Ahead(buf)'
          BY <1>1
        <4>1. PICK f \in Frame : f = buf
          BY <3>6
        <4>2. Ahead(f)'
          BY <3>5, <4>1 DEF OrderInv
        <4> QED
          BY <1>1, <4>1, <4>2 DEF Ahead
      <3>10. rxOpen' /\ ~ NothingYet' => Ahead(LastFrame)' /\ (pc' \in Holding => Earlier(LastFrame', buf'))
        <4> SUFFICES ASSUME rxOpen, ~ NothingYet
                     PROVE  Ahead(LastFrame)' /\ (pc \in Holding => Earlier(LastFrame, buf))
          BY <1>1
        <4>1. PICK f \in Frame : f = LastFrame
          BY <3>6
        <4>2. Ahead(f)'
          BY <3>5, <4>1 DEF OrderInv
        <4> QED
          BY <1>1, <4>1, <4>2 DEF OrderInv, Ahead
      <3>11. pc' = "sendfiller" => filler'.hdr = buf'.hdr
        BY <1>1 DEF OrderInv
      <3> QED
        BY <3>7, <3>8, <3>9, <3>10, <3>11 DEF OrderInv
    <2> QED
      BY <2>1, <2>3, <2>4
  <1>6. CASE Restart
    <2>1. stream' = stream + 1 /\ devCnt' = 0 /\ UNCHANGED sock
      BY <1>6 DEF Restart
    <2>2. \A f \in Frame \cup Datagram : Earlier(f, Coming) => Earlier(f, Coming')
      BY <1>2, <2>1, MarkTypes DEF Earlier, Coming
    <2> QED
      BY <1>3, <2>1, <2>2
  <1>7. CASE Runt
    <2>1. [hdr |-> stream, cnt |-> 0, whole |-> FALSE] \in Datagram
      BY RecvPktAssumption DEF Datagram, Cnt, TypeOK
    <2>2. Coming' = Coming
      BY <1>7 DEF Runt, devVars, Coming
    <2> QED
      BY <1>4, <1>7, <2>1, <2>2 DEF Runt
  <1>8. ~ Late /\ ~ Foreign
    BY DEF Late, Foreign, OnlyLosses
  <1> QED
    BY <1>5, <1>6, <1>7, <1>8 DEF Network

\* At first nothing is under way; every step keeps the order.
LEMMA OrderStep ==
  /\ Init => OrderInv
  /\ OnlyLosses /\ TypeOK /\ NumberInv /\ GapInv /\ OrderInv /\ [Next]_vars => OrderInv'
  <1>1. Init => OrderInv
    BY DEF Init, OrderInv, Holding, NothingYet
  <1>2. OrderInv /\ UNCHANGED vars => OrderInv'
    BY DEF OrderInv, Ahead, Coming, LastFrame, NothingYet, vars, devVars, appVars
  <1> QED
    BY <1>1, <1>2, ThreadOrder, ApplicationOrder, NetworkOrder DEF Next, Stopped

\* A frame that is put continues the stream of the last frame.
LEMMA PutContiguous ==
  ASSUME TypeOK, StreamContiguous, NEW f \in Frame, chan' = Append(chan, f), held' = held,
         ~ NothingYet /\ f.hdr = LastFrame.hdr => f.cnt = LastFrame.cnt + 1
  PROVE  StreamContiguous'
  <1>1. /\ Len(chan) \in Nat /\ Len(chan') = Len(chan) + 1 /\ chan'[Len(chan) + 1] = f
        /\ \A i \in 1 .. Len(chan) : chan'[i] = chan[i]
    BY SeqAppend DEF TypeOK
  <1>2. chan = <<>> <=> Len(chan) = 0
    BY DEF TypeOK
  <1>3. ASSUME NEW i \in 1 .. Len(chan') - 1, chan'[i + 1].hdr = chan'[i].hdr
        PROVE  chan'[i + 1].cnt = chan'[i].cnt + 1
    <2>1. CASE i = Len(chan)
      BY <1>1, <1>2, <1>3, <2>1 DEF LastFrame, NothingYet
    <2>2. CASE i # Len(chan)
      <3>1. i \in 1 .. Len(chan) - 1 /\ i \in 1 .. Len(chan) /\ i + 1 \in 1 .. Len(chan)
        BY <1>1, <2>2
      <3> QED
        BY <1>1, <1>3, <3>1 DEF StreamContiguous
    <2> QED
      BY <2>1, <2>2
  <1>4. held' # None /\ chan'[1].hdr = held'.hdr => chan'[1].cnt = held'.cnt + 1
    <2>1. CASE chan = <<>>
      BY <1>1, <1>2, <2>1 DEF LastFrame, NothingYet
    <2>2. CASE chan # <<>>
      BY <1>1, <1>2, <2>2 DEF StreamContiguous
    <2> QED
      BY <2>1, <2>2
  <1> QED
    BY <1>3, <1>4 DEF StreamContiguous

\* Reading the channel changes nothing about it.
LEMMA TakeContiguous == ASSUME TypeOK, StreamContiguous, Take PROVE StreamContiguous'
  <1>1. /\ chan \in Seq(Frame) /\ chan # <<>> /\ held' = Head(chan) /\ chan' = Tail(chan)
    BY DEF Take, TypeOK
  <1>2. /\ Len(chan) \in Nat \ {0} /\ held' = chan[1]
        /\ chan' \in Seq(Frame) /\ Len(chan') = Len(chan) - 1
        /\ \A i \in 1 .. Len(chan) - 1 : chan'[i] = chan[i + 1]
    BY <1>1, SeqTail
  <1>3. ASSUME NEW i \in 1 .. Len(chan') - 1, chan'[i + 1].hdr = chan'[i].hdr
        PROVE  chan'[i + 1].cnt = chan'[i].cnt + 1
    <2>1. i \in 1 .. Len(chan) - 1 /\ i + 1 \in 1 .. Len(chan) - 1
      BY <1>2
    <2> QED
      BY <1>2, <1>3, <2>1 DEF StreamContiguous
  <1>4. chan' # <<>> /\ chan'[1].hdr = held'.hdr => chan'[1].cnt = held'.cnt + 1
    <2> SUFFICES ASSUME chan' # <<>>, chan'[1].hdr = held'.hdr PROVE chan'[1].cnt = held'.cnt + 1
      OBVIOUS
    <2>1. 1 \in 1 .. Len(chan) - 1
      BY <1>2
    <2> QED
      BY <1>2, <2>1 DEF StreamContiguous
  <1> QED
    BY <1>3, <1>4 DEF StreamContiguous

\* Every step keeps a stream in one run.
LEMMA ContiguousStep ==
  TypeOK /\ GapInv /\ NextIsDue /\ OrderInv /\ StreamContiguous /\ [Next]_vars
    => StreamContiguous'
  <1> SUFFICES ASSUME TypeOK, GapInv, NextIsDue, OrderInv, StreamContiguous, [Next]_vars
               PROVE  StreamContiguous'
    OBVIOUS
  <1>1. CASE SendPayload
    <2>1. CASE UNCHANGED <<chan, held>>
      BY <2>1 DEF StreamContiguous
    <2>2. CASE ~ UNCHANGED <<chan, held>>
      <3>1. pc = "send" /\ rxOpen /\ chan' = Append(chan, buf) /\ held' = held
        BY <1>1, <2>2 DEF SendPayload, appVars
      <3>2. buf \in Frame /\ buf.cnt \in Cnt /\ Follows(buf.cnt)
        BY <3>1 DEF GapInv, LocalsOK, ExpectedFollows, TypeOK, Holding, Frame
      <3>3. ASSUME ~ NothingYet, buf.hdr = LastFrame.hdr PROVE buf.cnt = LastFrame.cnt + 1
        <4>1. buf.cnt <= LastFrame.cnt + 1 /\ LastFrame \in Frame
          BY <3>2, <3>3, FollowsLast, LastType
        <4>2. Earlier(LastFrame, buf)
          BY <3>1, <3>3 DEF OrderInv, Holding
        <4>3. LastFrame.cnt < buf.cnt
          BY <3>2, <3>3, <4>1, <4>2, MarkTypes DEF Earlier
        <4> QED
          BY <3>2, <4>1, <4>3, MarkTypes
      <3> QED
        BY <3>1, <3>2, <3>3, PutContiguous
    <2> QED
      BY <2>1, <2>2
  <1>2. CASE SendFiller
    <2>1. CASE UNCHANGED <<chan, held>>
      BY <2>1 DEF StreamContiguous
    <2>2. CASE ~ UNCHANGED <<chan, held>>
      <3>1. pc = "sendfiller" /\ rxOpen /\ chan' = Append(chan, filler) /\ held' = held
        BY <1>2, <2>2 DEF SendFiller, appVars
      <3>2. filler \in Frame /\ filler.cnt = LastFrame.cnt + 1
        BY <3>1 DEF GapInv, LocalsOK, NextIsDue, TypeOK
      <3> QED
        BY <3>1, <3>2, PutContiguous
    <2> QED
      BY <2>1, <2>2
  <1>3. CASE Take
    BY <1>3, TakeContiguous
  <1>4. CASE DropReceiver
    <2>1. held' = held /\ chan' \in {chan, <<>>}
      BY <1>4 DEF DropReceiver
    <2> QED
      BY <2>1 DEF StreamContiguous
  <1>5. CASE ~ (SendPayload \/ SendFiller \/ Take \/ DropReceiver)
    <2>1. UNCHANGED <<chan, held>>
      BY <1>5 DEF Next, Thread, Application, Network, PollCmd, RecvTimeout, RecvWrongSize,
                  RecvPayload, ForwardPacket, FillGap, Backpressure, SendDestroy, Emit, Restart,
                  Late, Foreign, Runt, netUnchanged, appVars, Stopped, vars
    <2> QED
      BY <2>1 DEF StreamContiguous
  <1> QED
    BY <1>1, <1>2, <1>3, <1>4, <1>5

\* Packets that are only lost - on the way, at a full socket, while the channel is full -
\* come out as one run of numbers per stream, each once and in order, with frames of
\* zeros where the gaps were; for every capacity and any number of restarts.
THEOREM StreamContiguousHolds ==
  ASSUME MaxCnt < CntMod, Faults \subseteq {"runt", "restart"}
  PROVE  Spec => []StreamContiguous
  <1>1. OnlyLosses /\ NumbersRight
    BY DEF OnlyLosses, NumbersRight
  <1> DEFINE I == TypeOK /\ GapInv /\ NumberInv /\ NextIsDue /\ OrderInv /\ StreamContiguous
  <1>2. Init => I
    <2>1. Init => StreamContiguous
      BY DEF Init, StreamContiguous
    <2> QED
      BY <2>1, GapInductive, NumberInit, DueStep, OrderStep
  <1>3. I /\ [Next]_vars => I'
    BY <1>1, GapInductive, NumberStep, DueStep, OrderStep, ContiguousStep
  <1>4. I => StreamContiguous
    OBVIOUS
  <1> QED
    BY <1>2, <1>3, <1>4, PTL DEF Spec

=============================================================================
