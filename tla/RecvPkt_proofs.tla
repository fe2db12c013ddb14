---------------------------- MODULE RecvPkt_proofs ----------------------------
(***************************************************************************)
(* Proofs about recv_pkt (RecvPkt.tla) for every capacity, every width of  *)
(* pkt_cnt and every combination of network faults: type correctness, the  *)
(* absence of forward gaps, the argument that `send` never blocks, and     *)
(* that recv_pkt implements GapFilledStream.                               *)
(***************************************************************************)
EXTENDS RecvPkt, TLAPS

(* Facts about the helpers.                                                *)

\* Resetting a dropped buffer (the pool's reset closure) yields a frame.
LEMMA ResetType == ASSUME NEW b \in Frame PROVE Reset(b) \in Frame
  <1>1. 0 \in Cnt
    BY RecvPktAssumption DEF Cnt
  <1> QED
    BY <1>1 DEF Reset, Frame

\* Buffers returned to the pool leave the pool a set of frames that still
\* contains a fresh one.
LEMMA DroppedType ==
  ASSUME TypeOK, NEW bs, bs \subseteq Frame \cup {None}
  PROVE  Dropped(bs) \subseteq Frame /\ Default \in Dropped(bs)
  BY ResetType DEF Dropped, TypeOK

\* Any datagram, of whatever size, makes a frame of the buffer it is read into,
\* and never a zero-filled one.
LEMMA WrittenType ==
  ASSUME NEW d \in Datagram
  PROVE  Written(d) \in Frame /\ Written(d).cnt = d.cnt /\ Written(d).data # Zeros
  <1>1. d.hdr \in Streams /\ d.cnt \in Cnt
    BY DEF Datagram
  <1>2. <<d.hdr, d.cnt>> \in Streams \X Cnt
    BY <1>1
  <1>3. d.hdr \in 0 .. MaxStream
    BY <1>1, RecvPktAssumption DEF Streams
  <1> QED
    BY <1>1, <1>2, <1>3, NoneAssumption DEF Written, Frame, Zeros

\* The wrapping increment stays in the range of pkt_cnt, and grows it by at most one.
LEMMA SuccType == ASSUME NEW n \in Cnt PROVE Succ(n) \in Cnt /\ Succ(n) <= n + 1
  BY RecvPktAssumption DEF Succ, Cnt

\* Below a number of its width, counting on does not wrap.
LEMMA SuccBelow == ASSUME NEW n \in Cnt, NEW m \in Cnt, n < m PROVE Succ(n) = n + 1
  BY RecvPktAssumption DEF Succ, Cnt

\* A statistics counter stays within its bound.
LEMMA StatType == ASSUME NEW n \in 0 .. StatCap PROVE Stat(n) \in 0 .. StatCap
  BY RecvPktAssumption DEF Stat

\* Leaving the function (return or break) keeps the types.
LEMMA ExitType ==
  ASSUME TypeOK, Exit
  PROVE  /\ pc' = "done" /\ buf' = None /\ filler' = None
         /\ pool' \subseteq Frame /\ Default \in pool'
  <1>1. {buf, filler} \subseteq Frame \cup {None}
    BY DEF TypeOK
  <1> QED
    BY <1>1, DroppedType DEF Exit

-----------------------------------------------------------------------------
(* Type correctness.                                                       *)

\* The initial state is well typed: the pool holds one default payload.
LEMMA InitType == Init => TypeOK
  <1>1. Default \in Frame
    BY RecvPktAssumption DEF Default, Frame, Cnt, Zeros
  <1> QED
    BY <1>1, RecvPktAssumption DEF Init, TypeOK, Streams, Cnt

\* Every step of the thread keeps the types.
LEMMA ThreadType == ASSUME TypeOK, LocalsOK, Thread PROVE TypeOK'
  <1> USE DEF devVars, statVars, appVars
  <1>1. CASE PollCmd
    <2>1. CASE cmd > 0 /\ cmd' = cmd - 1 /\ Exit
      BY <1>1, <2>1, ExitType, RecvPktAssumption DEF PollCmd, TypeOK
    <2>2. CASE cmd = 0 /\ (\E b \in pool : buf' = b) /\ pc' = "recv"
                 /\ UNCHANGED <<cmd, filler, pool>>
      BY <1>1, <2>2 DEF PollCmd, TypeOK
    <2> QED
      BY <1>1, <2>1, <2>2 DEF PollCmd
  <1>2. CASE RecvTimeout
    <2>1. pool' \subseteq Frame /\ Default \in pool'
      BY <1>2, DroppedType DEF RecvTimeout, TypeOK
    <2> QED
      BY <1>2, <2>1 DEF RecvTimeout, TypeOK
  <1>3. CASE RecvWrongSize
    <2>1. Head(sock) \in Datagram /\ sock' \in Seq(Datagram) /\ Len(sock') <= SockCap
      BY <1>3, RecvPktAssumption DEF RecvWrongSize, TypeOK
    <2>2. pool' \subseteq Frame /\ Default \in pool'
      BY <1>3, <2>1, WrittenType, DroppedType DEF RecvWrongSize
    <2> QED
      BY <1>3, <2>1, <2>2 DEF RecvWrongSize, TypeOK
  <1>4. CASE RecvPayload
    <2>1. Head(sock) \in Datagram /\ sock' \in Seq(Datagram) /\ Len(sock') <= SockCap
      BY <1>4, RecvPktAssumption DEF RecvPayload, TypeOK
    <2>2. buf' \in Frame
      BY <1>4, <2>1, WrittenType DEF RecvPayload
    <2>3. next_cnt' \in Cnt \cup {None}
      BY <1>4, <2>1 DEF RecvPayload, Expected, TypeOK, Datagram
    <2>4. ndropped' \in 0 .. StatCap /\ nreceived' \in 0 .. StatCap
      BY <1>4, RecvPktAssumption DEF RecvPayload, DroppedAt, ReceivedAt, TypeOK
    <2> QED
      BY <1>4, <2>1, <2>2, <2>3, <2>4 DEF RecvPayload, TypeOK
  <1>5. CASE ForwardPacket
    <2>1. buf \in Frame /\ buf.cnt \in Cnt
      BY <1>5 DEF ForwardPacket, TypeOK, LocalsOK, Holding, Frame
    <2>2. next_cnt' \in Cnt
      BY <1>5, <2>1, SuccType DEF ForwardPacket, AfterPacket
    <2>3. nreceived' \in 0 .. StatCap
      BY <1>5, StatType DEF ForwardPacket, TypeOK
    <2> QED
      BY <1>5, <2>2, <2>3 DEF ForwardPacket, TypeOK
  <1>6. CASE FillGap
    <2>1. /\ buf.hdr \in 0 .. MaxStream
          /\ next_cnt \in Cnt
      BY <1>6 DEF FillGap, TypeOK, LocalsOK, Holding, Frame
    <2>2. filler' \in Frame
      BY <1>6, <2>1 DEF FillGap, TypeOK, Frame
    <2>3. ndropped' \in 0 .. StatCap /\ nreceived' \in 0 .. StatCap
      BY <1>6, StatType DEF FillGap, TypeOK
    <2> QED
      BY <1>6, <2>2, <2>3 DEF FillGap, TypeOK
  <1>7. CASE Backpressure
    <2>1. CASE cmd > 0 /\ cmd' = cmd - 1 /\ Exit
      BY <1>7, <2>1, ExitType, RecvPktAssumption DEF Backpressure, TypeOK
    <2>2. CASE cmd = 0 /\ Retry /\ UNCHANGED cmd
      <3>1. pool' \subseteq Frame /\ Default \in pool'
        BY <2>2, DroppedType DEF Retry, TypeOK
      <3> QED
        BY <1>7, <2>2, <3>1 DEF Backpressure, Retry, TypeOK
    <2> QED
      BY <1>7, <2>1, <2>2 DEF Backpressure
  <1>8. CASE SendPayload
    <2>1. CASE ~ rxOpen /\ Exit /\ UNCHANGED chan
      BY <1>8, <2>1, ExitType DEF SendPayload, TypeOK
    <2>2. CASE rxOpen /\ HasRoom /\ chan' = Append(chan, buf) /\ pc' = "poll"
                 /\ buf' = None /\ UNCHANGED <<filler, pool>>
      <3>1. buf \in Frame
        BY <1>8 DEF SendPayload, TypeOK, LocalsOK, Holding
      <3>2. chan' \in Seq(Frame) /\ Len(chan') <= QueueCap
        BY <2>2, <3>1, RecvPktAssumption DEF HasRoom, TypeOK
      <3> QED
        BY <1>8, <2>2, <3>2 DEF SendPayload, TypeOK
    <2> QED
      BY <1>8, <2>1, <2>2 DEF SendPayload
  <1>9. CASE SendFiller
    <2>1. CASE ~ rxOpen /\ Exit /\ UNCHANGED <<chan, next_cnt>>
      BY <1>9, <2>1, ExitType DEF SendFiller, TypeOK
    <2>2. CASE rxOpen /\ HasRoom /\ chan' = Append(chan, filler) /\ next_cnt' = Succ(next_cnt)
                 /\ filler' = None /\ pc' = "fill" /\ UNCHANGED <<buf, pool>>
      <3>1. /\ filler \in Frame /\ next_cnt \in Cnt
            /\ buf.cnt \in Cnt /\ next_cnt < buf.cnt
        BY <1>9 DEF SendFiller, TypeOK, LocalsOK, Holding, Frame
      <3>2. chan' \in Seq(Frame) /\ Len(chan') <= QueueCap
        BY <2>2, <3>1, RecvPktAssumption DEF HasRoom, TypeOK
      <3>3. next_cnt' \in Cnt
        BY <2>2, <3>1, SuccType
      <3> QED
        BY <1>9, <2>2, <3>2, <3>3 DEF SendFiller, TypeOK
    <2> QED
      BY <1>9, <2>1, <2>2 DEF SendFiller
  <1> QED
    BY <1>1, <1>2, <1>3, <1>4, <1>5, <1>6, <1>7, <1>8, <1>9 DEF Thread

\* So does every step of the application and of the network.
LEMMA OthersType == ASSUME TypeOK, Application \/ Network PROVE TypeOK'
  <1> USE DEF devVars, statVars, appVars, netUnchanged
  <1>1. CASE Take
    <2>1. Head(chan) \in Frame /\ chan' \in Seq(Frame) /\ Len(chan') <= QueueCap
      BY <1>1, RecvPktAssumption DEF Take, TypeOK
    <2>2. pool' \subseteq Frame /\ Default \in pool'
      BY <1>1, DroppedType DEF Take, TypeOK
    <2> QED
      BY <1>1, <2>1, <2>2 DEF Take, TypeOK
  <1>2. CASE SendDestroy
    BY <1>2, RecvPktAssumption DEF SendDestroy, TypeOK
  <1>3. CASE DropReceiver
    <2> DEFINE queued == {chan[i] : i \in 1 .. Len(chan)}
    <2>1. queued \subseteq Frame \cup {None}
      BY DEF TypeOK
    <2>2. Dropped(queued) \subseteq Frame /\ Default \in Dropped(queued)
      BY <2>1, DroppedType
    <2> HIDE DEF queued
    <2>3. UNCHANGED <<chan, pool>> \/ (chan' = <<>> /\ pool' = Dropped(queued))
      BY <1>3 DEF DropReceiver, queued
    <2>4. /\ chan' \in Seq(Frame) /\ Len(chan') <= QueueCap
          /\ pool' \subseteq Frame /\ Default \in pool'
      <3>1. <<>> \in Seq(Frame) /\ Len(<<>>) <= QueueCap
        BY RecvPktAssumption
      <3>2. CASE UNCHANGED <<chan, pool>>
        BY <3>2 DEF TypeOK
      <3>3. CASE chan' = <<>> /\ pool' = Dropped(queued)
        BY <2>2, <3>1, <3>3
      <3> QED
        BY <2>3, <3>2, <3>3
    <2>5. /\ rxOpen' = FALSE
          /\ UNCHANGED <<devVars, sock, pc, buf, filler, next_cnt, statVars, cmd, held>>
      BY <1>3 DEF DropReceiver
    <2> QED
      BY <2>4, <2>5 DEF TypeOK
  <1>4. ASSUME NEW d \in Datagram, Arrive(d)
        PROVE  sock' \in Seq(Datagram) /\ Len(sock') <= SockCap
    BY <1>4, RecvPktAssumption DEF Arrive, TypeOK
  <1>5. CASE Emit
    <2>1. devCnt \in Cnt /\ devCnt' \in 0 .. MaxCnt
      BY <1>5, RecvPktAssumption DEF Emit, TypeOK, Cnt
    <2>2. [hdr |-> stream, cnt |-> devCnt, whole |-> TRUE] \in Datagram
      BY <2>1 DEF Datagram, TypeOK
    <2>3. sock' \in Seq(Datagram) /\ Len(sock') <= SockCap
      BY <1>4, <1>5, <2>2 DEF Emit, TypeOK
    <2>4. emitted' \subseteq Streams \X Cnt
      BY <1>5, <2>1 DEF Emit, TypeOK
    <2> QED
      BY <1>5, <2>1, <2>3, <2>4 DEF Emit, TypeOK
  <1>6. CASE Restart
    BY <1>6, RecvPktAssumption DEF Restart, TypeOK, Streams
  <1>7. CASE Late
    <2>1. PICK e \in emitted : Arrive([hdr |-> e[1], cnt |-> e[2], whole |-> TRUE])
      BY <1>7 DEF Late
    <2>2. [hdr |-> e[1], cnt |-> e[2], whole |-> TRUE] \in Datagram
      BY DEF Datagram, TypeOK
    <2> QED
      BY <1>4, <1>7, <2>1, <2>2 DEF Late, TypeOK
  <1>8. CASE Foreign
    <2>1. PICK n \in Cnt : Arrive([hdr |-> stream, cnt |-> n, whole |-> TRUE])
      BY <1>8 DEF Foreign
    <2>2. [hdr |-> stream, cnt |-> n, whole |-> TRUE] \in Datagram
      BY DEF Datagram, TypeOK
    <2> QED
      BY <1>4, <1>8, <2>1, <2>2 DEF Foreign, TypeOK
  <1>9. CASE Runt
    <2>1. [hdr |-> stream, cnt |-> 0, whole |-> FALSE] \in Datagram
      BY RecvPktAssumption DEF Datagram, TypeOK, Cnt
    <2> QED
      BY <1>4, <1>9, <2>1 DEF Runt, TypeOK
  <1> QED
    BY <1>1, <1>2, <1>3, <1>5, <1>6, <1>7, <1>8, <1>9 DEF Application, Network

-----------------------------------------------------------------------------
(* No forward gap.                                                         *)

\* Putting a frame that follows behind the channel opens no gap, and every number
\* up to one more than the frame's follows afterwards.
LEMMA PutKeepsOrder ==
  ASSUME TypeOK, NoForwardGap, NEW f \in Frame, Follows(f.cnt),
         chan' = Append(chan, f), held' = held
  PROVE  /\ NoForwardGap'
         /\ ~ NothingYet'
         /\ \A n \in Cnt : n <= f.cnt + 1 => Follows(n)'
  <1>1. /\ chan \in Seq(Frame) /\ chan' \in Seq(Frame)
        /\ chan' # <<>> /\ Len(chan') = Len(chan) + 1
        /\ chan'[Len(chan')] = f
        /\ \A i \in 1 .. Len(chan) : chan'[i] = chan[i]
    BY DEF TypeOK
  <1>2. \A i \in 1 .. Len(chan') - 1 : chan'[i + 1].cnt <= chan'[i].cnt + 1
    <2> TAKE i \in 1 .. Len(chan') - 1
    <2>1. CASE i = Len(chan)
      BY <1>1, <2>1 DEF Follows
    <2>2. CASE i # Len(chan)
      <3>1. i \in 1 .. Len(chan) - 1 /\ i \in 1 .. Len(chan) /\ i + 1 \in 1 .. Len(chan)
        BY <1>1, <2>2
      <3> QED
        BY <1>1, <3>1 DEF NoForwardGap
    <2> QED
      BY <2>1, <2>2
  <1>3. held' # None => chan'[1].cnt <= held'.cnt + 1
    <2>1. CASE chan = <<>>
      BY <1>1, <2>1 DEF Follows
    <2>2. CASE chan # <<>>
      BY <1>1, <2>2 DEF NoForwardGap
    <2> QED
      BY <2>1, <2>2
  <1> QED
    BY <1>1, <1>2, <1>3 DEF NoForwardGap, NothingYet, Follows

\* Taking the oldest frame moves the seam between reader and channel by one: the
\* order is kept, and what followed before still follows.
LEMMA TakeKeepsOrder ==
  ASSUME TypeOK, NoForwardGap, Take
  PROVE  /\ NoForwardGap'
         /\ ~ NothingYet /\ ~ NothingYet'
         /\ \A n \in Cnt : Follows(n) => Follows(n)'
  <1>1. /\ chan \in Seq(Frame) /\ chan # <<>>
        /\ held' = Head(chan) /\ chan' = Tail(chan)
    BY DEF Take, TypeOK
  <1>2. /\ held' = chan[1] /\ held' \in Frame
        /\ Len(chan) \in Nat \ {0} /\ Len(chan') = Len(chan) - 1
        /\ \A i \in 1 .. Len(chan') : chan'[i] = chan[i + 1]
    <2>1. Len(chan) \in Nat \ {0}
      BY <1>1
    <2>2. chan[1] \in Frame
      BY <1>1, <2>1
    <2> QED
      BY <1>1, <2>1, <2>2
  <1>3. held' # None
    BY <1>2, NoneAssumption
  <1>4. \A i \in 1 .. Len(chan') - 1 : chan'[i + 1].cnt <= chan'[i].cnt + 1
    <2> TAKE i \in 1 .. Len(chan') - 1
    <2>1. /\ i \in 1 .. Len(chan') /\ i + 1 \in 1 .. Len(chan')
          /\ i + 1 \in 1 .. Len(chan) - 1
      BY <1>2
    <2> QED
      BY <1>2, <2>1 DEF NoForwardGap
  <1>5. chan' # <<>> => chan'[1].cnt <= held'.cnt + 1
    <2> HAVE chan' # <<>>
    <2>1. 1 \in 1 .. Len(chan') /\ 1 \in 1 .. Len(chan) - 1
      BY <1>2
    <2> QED
      BY <1>2, <2>1 DEF NoForwardGap
  <1>6. ASSUME NEW n \in Cnt, Follows(n) PROVE Follows(n)'
    <2>1. n <= chan[Len(chan)].cnt + 1
      BY <1>1, <1>6 DEF Follows
    <2>2. CASE chan' = <<>>
      <3>1. Len(chan) = 1
        BY <1>2, <2>2
      <3>2. held' = chan[Len(chan)]
        BY <1>2, <3>1
      <3> QED
        BY <2>1, <2>2, <3>2 DEF Follows
    <2>3. CASE chan' # <<>>
      <3>1. Len(chan') \in 1 .. Len(chan')
        <4>1. chan' \in Seq(Frame)
          BY <1>1
        <4>2. Len(chan') # 0
          BY <2>3, <4>1
        <4> QED
          BY <4>1, <4>2
      <3>2. chan'[Len(chan')] = chan[Len(chan)]
        BY <1>2, <3>1
      <3> QED
        BY <2>1, <2>3, <3>2 DEF Follows
    <2> QED
      BY <2>2, <2>3
  <1> QED
    BY <1>1, <1>3, <1>4, <1>5, <1>6 DEF NoForwardGap, NothingYet

\* A smaller number follows wherever a larger one does.
LEMMA FollowsDown ==
  ASSUME TypeOK, NEW m \in Cnt, NEW n \in Cnt, Follows(n), m <= n
  PROVE  Follows(m)
  <1>1. CASE chan # <<>>
    <2>1. chan[Len(chan)].cnt \in Cnt
      <3>1. chan \in Seq(Frame) /\ Len(chan) \in 1 .. Len(chan)
        BY <1>1 DEF TypeOK
      <3>2. chan[Len(chan)] \in Frame
        BY <3>1
      <3> QED
        BY <3>2 DEF Frame
    <2> QED
      BY <1>1, <2>1 DEF Follows, Cnt
  <1>2. CASE chan = <<>> /\ held # None
    <2>1. held.cnt \in Cnt
      BY <1>2 DEF TypeOK, Frame
    <2> QED
      BY <1>2, <2>1 DEF Follows, Cnt
  <1> QED
    BY <1>1, <1>2 DEF Follows

\* Steps that leave channel, reader and receiver alone change nothing about
\* order, what follows, or whether anything was put yet.
LEMMA QuietKeepsOrder ==
  ASSUME UNCHANGED <<chan, held, rxOpen>>
  PROVE  /\ NoForwardGap' = NoForwardGap
         /\ NothingYet' = NothingYet
         /\ \A n \in Cnt : Follows(n)' = Follows(n)
  BY DEF NoForwardGap, NothingYet, Follows

\* A full channel is not an empty one.
LEMMA FullHasFrames == ASSUME TypeOK, IsFull PROVE ~ NothingYet
  BY RecvPktAssumption DEF TypeOK, IsFull, NothingYet

\* Once the thread has ended, only the order of the channel matters.
LEMMA ExitGap ==
  ASSUME pc' = "done", NoForwardGap' PROVE GapInv'
  BY DEF GapInv, LocalsOK, ExpectedFollows, Holding

\* Every step of the thread preserves the gap-free channel and what the thread
\* knows of it.
LEMMA ThreadGap == ASSUME TypeOK, GapInv, Thread PROVE GapInv'
  <1> USE DEF devVars, statVars, appVars
  <1>1. CASE PollCmd
    <2>1. UNCHANGED <<chan, held, rxOpen, next_cnt>>
      BY <1>1 DEF PollCmd
    <2>2. NoForwardGap'
      BY <2>1, QuietKeepsOrder DEF GapInv
    <2>3. CASE pc' = "done"
      BY <2>2, <2>3, ExitGap
    <2>4. CASE pc' # "done"
      <3>1. pc' = "recv" /\ (\E b \in pool : buf' = b)
        BY <1>1, <2>4 DEF PollCmd, Exit
      <3>2. LocalsOK'
        BY <3>1, NoneAssumption DEF LocalsOK, Holding, TypeOK
      <3>3. ExpectedFollows'
        BY <1>1, <2>1, <3>1, QuietKeepsOrder DEF PollCmd, GapInv, ExpectedFollows, TypeOK
      <3> QED
        BY <2>2, <3>2, <3>3 DEF GapInv
    <2> QED
      BY <2>3, <2>4
  <1>2. CASE RecvTimeout \/ RecvWrongSize
    <2>1. /\ UNCHANGED <<chan, held, rxOpen, next_cnt>>
          /\ pc = "recv" /\ pc' = "poll"
      BY <1>2 DEF RecvTimeout, RecvWrongSize
    <2>2. NoForwardGap'
      BY <2>1, QuietKeepsOrder DEF GapInv
    <2>3. LocalsOK'
      BY <2>1 DEF LocalsOK, Holding
    <2>4. ExpectedFollows'
      BY <2>1, QuietKeepsOrder DEF GapInv, ExpectedFollows, TypeOK
    <2> QED
      BY <2>2, <2>3, <2>4 DEF GapInv
  <1>3. CASE RecvPayload
    <2> DEFINE d == Head(sock)
    <2>1. d \in Datagram /\ d.cnt \in Cnt
      <3>1. d \in Datagram
        BY <1>3 DEF RecvPayload, TypeOK
      <3> QED
        BY <3>1 DEF Datagram
    <2>2. /\ UNCHANGED <<chan, held, rxOpen>>
          /\ pc = "recv" /\ pc' = "fill"
          /\ buf' = Written(d)
          /\ next_cnt' = IF next_cnt = None THEN d.cnt ELSE next_cnt
      BY <1>3 DEF RecvPayload, Expected
    <2>3. /\ buf'.cnt = d.cnt /\ buf' \in Frame
          /\ buf'.data # Zeros /\ buf' # None
          /\ next_cnt' \in Cnt /\ next_cnt' # None
      BY <2>1, <2>2, WrittenType, NoneAssumption DEF TypeOK
    <2> HIDE DEF d
    <2>4. NoForwardGap'
      BY <2>2, QuietKeepsOrder DEF GapInv
    <2>5. LocalsOK'
      BY <2>2, <2>3 DEF LocalsOK, Holding
    <2>6. ASSUME rxOpen
          PROVE  /\ next_cnt' # buf'.cnt => ~ NothingYet
                 /\ Follows(IF next_cnt' >= buf'.cnt THEN buf'.cnt ELSE next_cnt')
      <3>1. CASE next_cnt = None
        <4>1. NothingYet
          BY <2>2, <2>6, <3>1 DEF GapInv, ExpectedFollows
        <4>2. Follows(d.cnt)
          BY <4>1 DEF NothingYet, Follows
        <4> QED
          BY <2>1, <2>2, <2>3, <3>1, <4>2 DEF Cnt
      <3>2. CASE next_cnt # None
        <4>1. ~ NothingYet /\ Follows(next_cnt) /\ next_cnt' = next_cnt
          BY <2>2, <2>6, <3>2 DEF GapInv, ExpectedFollows
        <4>2. next_cnt >= buf'.cnt => Follows(buf'.cnt)
          BY <2>1, <2>3, <3>2, <4>1, FollowsDown DEF TypeOK, Cnt
        <4> QED
          BY <4>1, <4>2
      <3> QED
        BY <3>1, <3>2
    <2>7. ExpectedFollows'
      <3> SUFFICES ASSUME rxOpen'
                   PROVE  /\ next_cnt' # buf'.cnt => ~ NothingYet'
                          /\ Follows(IF IsDue THEN buf.cnt ELSE next_cnt)'
        BY <2>2 DEF ExpectedFollows
      <3> QED
        BY <2>1, <2>2, <2>3, <2>6 DEF NothingYet, Follows, IsDue
    <2> QED
      BY <2>4, <2>5, <2>7 DEF GapInv
  <1>4. CASE ForwardPacket
    <2>1. /\ UNCHANGED <<chan, held, rxOpen, buf>>
          /\ pc = "fill" /\ next_cnt >= buf.cnt
          /\ next_cnt' = Succ(buf.cnt)
          /\ (IsFull /\ pc' = "full") \/ pc' = "send"
      BY <1>4 DEF ForwardPacket, IsDue, AfterPacket
    <2>2. /\ buf \in Frame /\ buf # None /\ buf.data # Zeros
          /\ buf.cnt \in Cnt /\ next_cnt' \in Cnt /\ next_cnt' # None
      <3>1. buf \in Frame /\ buf # None /\ buf.data # Zeros
        BY <2>1 DEF GapInv, LocalsOK, Holding, TypeOK
      <3>2. buf.cnt \in Cnt
        BY <3>1 DEF Frame
      <3> QED
        BY <2>1, <3>1, <3>2, SuccType, NoneAssumption
    <2>3. NoForwardGap'
      BY <2>1, QuietKeepsOrder DEF GapInv
    <2>4. LocalsOK'
      <3>1. Succ(buf.cnt)' = Succ(buf'.cnt)
        BY DEF Succ
      <3> QED
        BY <2>1, <2>2, <3>1 DEF LocalsOK, Holding
    <2>5. ASSUME rxOpen PROVE Follows(buf.cnt)
      BY <2>1, <2>5 DEF GapInv, ExpectedFollows, IsDue
    <2>6. ASSUME rxOpen, pc' = "full"
          PROVE  ~ NothingYet /\ Follows(IF next_cnt' >= buf.cnt THEN buf.cnt ELSE next_cnt')
      BY <2>1, <2>2, <2>5, <2>6, FullHasFrames, FollowsDown DEF Cnt
    <2>7. ExpectedFollows'
      <3>1. CASE pc' = "send"
        BY <2>1, <2>2, <2>5, <3>1 DEF ExpectedFollows, Follows
      <3>2. CASE pc' = "full"
        <4> SUFFICES ASSUME rxOpen'
                     PROVE  /\ ~ NothingYet'
                            /\ Follows(IF IsDue THEN buf.cnt ELSE next_cnt)'
          BY <3>2 DEF ExpectedFollows
        <4> QED
          BY <2>1, <2>2, <2>6, <3>2 DEF NothingYet, Follows, IsDue
      <3> QED
        BY <2>1, <3>1, <3>2
    <2> QED
      BY <2>3, <2>4, <2>7 DEF GapInv
  <1>5. CASE FillGap
    <2>1. /\ UNCHANGED <<chan, held, rxOpen, buf, next_cnt>>
          /\ pc = "fill" /\ ~ IsDue
          /\ (IsFull /\ pc' = "full") \/ pc' = "sendfiller"
          /\ \E b \in pool : filler' = [hdr |-> buf.hdr, cnt |-> next_cnt, data |-> b.data]
      BY <1>5 DEF FillGap
    <2>2. /\ buf \in Frame /\ buf # None /\ buf.data # Zeros
          /\ next_cnt \in Cnt /\ next_cnt # None
      BY <2>1 DEF GapInv, LocalsOK, Holding, TypeOK
    <2>3. buf.cnt \in Cnt /\ next_cnt < buf.cnt
      BY <2>1, <2>2 DEF Frame, IsDue, Cnt
    <2>4. filler' \in Frame /\ filler' # None /\ filler'.cnt = next_cnt
      <3>1. PICK b \in pool : filler' = [hdr |-> buf.hdr, cnt |-> next_cnt, data |-> b.data]
        BY <2>1
      <3>2. b \in Frame
        BY DEF TypeOK
      <3> QED
        BY <2>2, <3>1, <3>2, NoneAssumption DEF Frame
    <2>5. NoForwardGap'
      BY <2>1, QuietKeepsOrder DEF GapInv
    <2>6. LocalsOK'
      BY <2>1, <2>2, <2>3, <2>4 DEF LocalsOK, Holding
    <2>7. ASSUME rxOpen PROVE ~ NothingYet /\ Follows(next_cnt)
      BY <2>1, <2>2, <2>3, <2>7 DEF GapInv, ExpectedFollows, Cnt
    <2>8. ExpectedFollows'
      <3>1. CASE pc' = "sendfiller"
        BY <2>1, <2>7, <3>1 DEF ExpectedFollows, Follows, NothingYet
      <3>2. CASE pc' = "full"
        BY <2>1, <2>7, <3>2 DEF ExpectedFollows, Follows, NothingYet, IsDue
      <3> QED
        BY <2>1, <3>1, <3>2
    <2> QED
      BY <2>5, <2>6, <2>8 DEF GapInv
  <1>6. CASE Backpressure
    <2>1. UNCHANGED <<chan, held, rxOpen, next_cnt>> /\ pc = "full"
      BY <1>6 DEF Backpressure
    <2>2. NoForwardGap'
      BY <2>1, QuietKeepsOrder DEF GapInv
    <2>3. CASE pc' = "done"
      BY <2>2, <2>3, ExitGap
    <2>4. CASE pc' # "done"
      <3>1. pc' = "fill" /\ UNCHANGED buf
        BY <1>6, <2>4 DEF Backpressure, Retry, Exit
      <3>2. LocalsOK'
        BY <2>1, <3>1 DEF GapInv, LocalsOK, Holding
      <3>3. ExpectedFollows'
        BY <2>1, <3>1 DEF GapInv, ExpectedFollows, NothingYet, Follows, IsDue
      <3> QED
        BY <2>2, <3>2, <3>3 DEF GapInv
    <2> QED
      BY <2>3, <2>4
  <1>7. CASE SendPayload
    <2>1. UNCHANGED <<held, rxOpen, next_cnt>> /\ pc = "send"
      BY <1>7 DEF SendPayload
    <2>2. CASE ~ rxOpen /\ Exit /\ UNCHANGED chan
      <3>1. NoForwardGap'
        BY <2>1, <2>2, QuietKeepsOrder DEF GapInv
      <3> QED
        BY <2>2, <3>1, ExitGap DEF Exit
    <2>3. CASE rxOpen /\ chan' = Append(chan, buf) /\ pc' = "poll"
      <3>1. buf \in Frame /\ next_cnt \in Cnt /\ next_cnt = Succ(buf.cnt)
        BY <2>1 DEF GapInv, LocalsOK, Holding, TypeOK
      <3>2. buf.cnt \in Cnt /\ next_cnt <= buf.cnt + 1
        BY <3>1, SuccType DEF Frame
      <3>3. Follows(buf.cnt)
        BY <2>1, <2>3 DEF GapInv, ExpectedFollows
      <3>4. NoForwardGap' /\ ~ NothingYet' /\ Follows(next_cnt)'
        BY <2>1, <2>3, <3>1, <3>2, <3>3, PutKeepsOrder DEF GapInv, Follows
      <3>5. LocalsOK'
        BY <2>3 DEF LocalsOK, Holding
      <3>6. ExpectedFollows'
        BY <2>1, <2>3, <3>1, <3>4, NoneAssumption DEF ExpectedFollows
      <3> QED
        BY <3>4, <3>5, <3>6 DEF GapInv
    <2> QED
      BY <1>7, <2>2, <2>3 DEF SendPayload
  <1>8. CASE SendFiller
    <2>1. UNCHANGED <<held, rxOpen>> /\ pc = "sendfiller"
      BY <1>8 DEF SendFiller
    <2>2. CASE ~ rxOpen /\ Exit /\ UNCHANGED chan
      <3>1. NoForwardGap'
        BY <2>1, <2>2, QuietKeepsOrder DEF GapInv
      <3> QED
        BY <2>2, <3>1, ExitGap DEF Exit
    <2>3. CASE /\ rxOpen /\ chan' = Append(chan, filler) /\ pc' = "fill"
               /\ next_cnt' = Succ(next_cnt) /\ UNCHANGED buf
      <3>1. /\ filler \in Frame /\ buf \in Frame /\ next_cnt \in Cnt
            /\ buf # None /\ buf.data # Zeros
            /\ filler.cnt = next_cnt /\ next_cnt < buf.cnt
        BY <2>1 DEF GapInv, LocalsOK, Holding, TypeOK
      <3>2. /\ buf.cnt \in Cnt /\ next_cnt' \in Cnt
            /\ next_cnt' = next_cnt + 1 /\ next_cnt' <= buf.cnt
        <4>1. buf.cnt \in Cnt
          BY <3>1 DEF Frame
        <4>2. next_cnt' = next_cnt + 1
          BY <2>3, <3>1, <4>1, SuccBelow
        <4> QED
          BY <3>1, <4>1, <4>2, RecvPktAssumption DEF Cnt
      <3>3. Follows(filler.cnt)
        BY <2>1, <2>3, <3>1 DEF GapInv, ExpectedFollows
      <3>4. NoForwardGap' /\ ~ NothingYet' /\ (\A n \in Cnt : n <= next_cnt + 1 => Follows(n)')
        BY <2>1, <2>3, <3>1, <3>3, PutKeepsOrder DEF GapInv
      <3>5. LocalsOK'
        BY <2>3, <3>1, <3>2, NoneAssumption DEF LocalsOK, Holding
      <3>6. ExpectedFollows'
        <4> DEFINE m == IF next_cnt' >= buf.cnt THEN buf.cnt ELSE next_cnt'
        <4>1. m \in Cnt /\ m <= next_cnt + 1
          BY <2>3, <3>1, <3>2 DEF Cnt
        <4>2. Follows(IF IsDue THEN buf.cnt ELSE next_cnt)'
          BY <2>3, <3>4, <4>1 DEF Follows, IsDue
        <4> QED
          BY <2>3, <3>4, <4>2 DEF ExpectedFollows
      <3> QED
        BY <3>4, <3>5, <3>6 DEF GapInv
    <2> QED
      BY <1>8, <2>2, <2>3 DEF SendFiller
  <1> QED
    BY <1>1, <1>2, <1>3, <1>4, <1>5, <1>6, <1>7, <1>8 DEF Thread

\* So does everything the application and the network do.
LEMMA OthersGap == ASSUME TypeOK, GapInv, Application \/ Network PROVE GapInv'
  <1> USE DEF devVars, statVars, appVars, netUnchanged
  <1>1. CASE Take
    <2>1. UNCHANGED <<pc, buf, filler, next_cnt, rxOpen>>
      BY <1>1 DEF Take
    <2>2. /\ NoForwardGap' /\ ~ NothingYet /\ ~ NothingYet'
          /\ \A n \in Cnt : Follows(n) => Follows(n)'
      BY <1>1, TakeKeepsOrder DEF GapInv
    <2>3. LocalsOK'
      BY <2>1 DEF GapInv, LocalsOK, Succ
    <2>4. ExpectedFollows'
      <3>1. CASE pc \in {"poll", "recv"}
        BY <2>1, <2>2, <3>1 DEF GapInv, ExpectedFollows, TypeOK, Follows
      <3>2. CASE pc \in {"fill", "full", "send", "sendfiller"}
        <4>1. buf \in Frame /\ next_cnt \in Cnt
          BY <3>2 DEF GapInv, LocalsOK, Holding, TypeOK
        <4>2. buf.cnt \in Cnt
          BY <4>1 DEF Frame
        <4> DEFINE m == IF IsDue THEN buf.cnt ELSE next_cnt
        <4>3. m \in Cnt
          BY <4>1, <4>2
        <4>4. m' = m /\ (Follows(m) => Follows(m)')
          BY <2>1, <2>2, <4>3 DEF IsDue, Follows
        <4> QED
          BY <2>1, <2>2, <3>2, <4>1, <4>2, <4>4 DEF GapInv, ExpectedFollows, Follows
      <3>3. CASE pc = "done"
        BY <2>1, <3>3 DEF ExpectedFollows
      <3> QED
        BY <3>1, <3>2, <3>3 DEF TypeOK
    <2> QED
      BY <2>2, <2>3, <2>4 DEF GapInv
  <1>2. CASE DropReceiver
    <2>1. /\ UNCHANGED <<pc, buf, filler, next_cnt, held>> /\ rxOpen' = FALSE
          /\ chan' = chan \/ chan' = <<>>
      BY <1>2 DEF DropReceiver
    <2>2. NoForwardGap'
      BY <2>1 DEF GapInv, NoForwardGap
    <2>3. LocalsOK' /\ ExpectedFollows'
      BY <2>1 DEF GapInv, LocalsOK, ExpectedFollows, Succ
    <2> QED
      BY <2>2, <2>3 DEF GapInv
  <1>3. CASE SendDestroy \/ Network
    <2>1. UNCHANGED <<pc, buf, filler, next_cnt, chan, held, rxOpen>>
      BY <1>3 DEF SendDestroy, Network, Emit, Restart, Late, Foreign, Runt
    <2> QED
      BY <2>1 DEF GapInv, NoForwardGap, LocalsOK, ExpectedFollows, NothingYet,
                  Follows, IsDue, Succ
  <1> QED
    BY <1>1, <1>2, <1>3 DEF Application

\* Types and gap order together are inductive.
LEMMA GapInductive ==
  /\ Init => TypeOK /\ GapInv
  /\ TypeOK /\ GapInv /\ [Next]_vars => (TypeOK /\ GapInv)'
  <1>1. Init => TypeOK /\ GapInv
    <2> SUFFICES ASSUME Init PROVE TypeOK /\ GapInv
      OBVIOUS
    <2>1. TypeOK
      BY InitType
    <2>2. NoForwardGap
      BY DEF Init, NoForwardGap
    <2>3. LocalsOK /\ ExpectedFollows
      BY DEF Init, LocalsOK, ExpectedFollows, Holding, NothingYet
    <2> QED
      BY <2>1, <2>2, <2>3 DEF GapInv
  <1>2. ASSUME TypeOK, GapInv, [Next]_vars PROVE (TypeOK /\ GapInv)'
    <2>1. CASE Thread
      BY <1>2, <2>1, ThreadType, ThreadGap DEF GapInv
    <2>2. CASE Application \/ Network
      BY <1>2, <2>2, OthersType, OthersGap
    <2>3. CASE UNCHANGED vars
      <3> USE DEF vars, devVars, statVars, appVars
      <3>1. TypeOK'
        BY <1>2, <2>3 DEF TypeOK
      <3>2. GapInv'
        BY <1>2, <2>3 DEF GapInv, NoForwardGap, LocalsOK, ExpectedFollows, NothingYet,
                          Follows, IsDue, Succ
      <3> QED
        BY <3>1, <3>2
    <2> QED
      BY <1>2, <2>1, <2>2, <2>3 DEF Next, Stopped
  <1> QED
    BY <1>1, <1>2

\* recv_pkt keeps every variable in its type: a pkt_cnt never leaves its width,
\* no queue grows past its capacity, and a buffer is always a whole Payload.
THEOREM TypeCorrect == Spec => []TypeOK
  BY GapInductive, PTL DEF Spec

\* At every control point recv_pkt has the locals it needs, and the frame that it is
\* about to send may follow the last one the application got.
THEOREM GapInvHolds == Spec => []GapInv
  BY GapInductive, PTL DEF Spec

\* For every capacity of the channel, every width of pkt_cnt and whatever the
\* network does, the application never meets a frame that skips a number.
THEOREM NoForwardGapHolds == Spec => []NoForwardGap
  <1>1. GapInv => NoForwardGap
    BY DEF GapInv
  <1> QED
    BY GapInductive, <1>1, PTL DEF Spec

-----------------------------------------------------------------------------
(* `send` never blocks.                                                    *)

\* Between the test of `is_full` and the `send` only the reader touches the
\* channel, and it makes room: recv_pkt never waits inside `send`, where it could
\* not see a Destroy.
THEOREM SendNeverBlocksHolds == Spec => []SendNeverBlocks
  <1>1. Init => SendNeverBlocks
    BY DEF Init, SendNeverBlocks
  <1>2. ASSUME TypeOK, SendNeverBlocks, [Next]_vars PROVE SendNeverBlocks'
    <2> USE DEF SendNeverBlocks
    <2>1. CASE ForwardPacket \/ FillGap
      <3>1. UNCHANGED <<chan, rxOpen>> /\ (pc' = "full" \/ ~ IsFull)
        BY <2>1 DEF ForwardPacket, FillGap, appVars
      <3>2. Len(chan) \in Nat
        BY <1>2 DEF TypeOK
      <3> QED
        BY <3>1, <3>2, RecvPktAssumption DEF IsFull, HasRoom
    <2>2. CASE PollCmd \/ RecvTimeout \/ RecvWrongSize \/ RecvPayload \/ Backpressure
      BY <2>2 DEF PollCmd, RecvTimeout, RecvWrongSize, RecvPayload, Backpressure, Retry, Exit
    <2>3. CASE SendPayload \/ SendFiller
      BY <2>3 DEF SendPayload, SendFiller, Exit
    <2>4. CASE Take
      <3>1. Len(chan') = Len(chan) - 1 /\ Len(chan) \in Nat
        BY <1>2, <2>4 DEF Take, TypeOK
      <3> QED
        BY <1>2, <2>4, <3>1, RecvPktAssumption DEF Take, HasRoom
    <2>5. CASE DropReceiver
      BY <2>5 DEF DropReceiver
    <2>6. CASE SendDestroy \/ Network \/ UNCHANGED vars
      <3>1. UNCHANGED <<pc, chan, rxOpen>>
        BY <2>6 DEF SendDestroy, Network, Emit, Restart, Late, Foreign, Runt,
                    netUnchanged, appVars, vars
      <3> QED
        BY <1>2, <3>1 DEF HasRoom
    <2> QED
      BY <1>2, <2>1, <2>2, <2>3, <2>4, <2>5, <2>6 DEF Next, Thread, Application, Stopped
  <1> QED
    BY <1>1, <1>2, TypeCorrect, PTL DEF Spec

-----------------------------------------------------------------------------
(* No stale data.                                                          *)

\* The data block is the one of the packet the header names, or zeros.
Genuine(f) == f # None => f.data \in {Zeros, <<f.hdr, f.cnt>>}

\* What is pooled is blank, what is in use is genuine.
DataInv ==
  /\ \A b \in pool : b.data = Zeros
  /\ \A i \in 1 .. Len(chan) : Genuine(chan[i])
  /\ Genuine(held) /\ Genuine(filler) /\ Genuine(buf)

\* Buffers go back to the pool blank.
LEMMA DroppedBlank ==
  ASSUME TypeOK, DataInv, NEW bs, bs \subseteq Frame \cup {None}
  PROVE  \A b \in Dropped(bs) : b.data = Zeros
  <1>1. ASSUME NEW b \in Frame PROVE Reset(b).data = Zeros
    BY DEF Reset, Frame
  <1> QED
    BY <1>1 DEF Dropped, DataInv

\* Leaving the function keeps the pool blank.
LEMMA ExitBlank ==
  ASSUME TypeOK, DataInv, Exit
  PROVE  (\A b \in pool' : b.data = Zeros) /\ buf' = None /\ filler' = None
  <1>1. {buf, filler} \subseteq Frame \cup {None}
    BY DEF TypeOK
  <1> QED
    BY <1>1, DroppedBlank DEF Exit

\* Every step keeps frames genuine.
LEMMA DataStep ==
  ASSUME TypeOK, LocalsOK, DataInv, [Next]_vars PROVE DataInv'
  <1> USE DEF devVars, statVars, appVars
  <1>1. CASE PollCmd
    <2>1. UNCHANGED <<chan, held>>
      BY <1>1 DEF PollCmd
    <2>2. CASE Exit
      BY <2>1, <2>2, ExitBlank DEF DataInv, Genuine
    <2>3. CASE (\E b \in pool : buf' = b) /\ UNCHANGED <<filler, pool>>
      BY <2>1, <2>3 DEF DataInv, Genuine
    <2> QED
      BY <1>1, <2>2, <2>3 DEF PollCmd
  <1>2. CASE RecvTimeout
    <2>1. \A b \in pool' : b.data = Zeros
      BY <1>2, DroppedBlank DEF RecvTimeout, TypeOK
    <2> QED
      BY <1>2, <2>1 DEF RecvTimeout, DataInv, Genuine
  <1>3. CASE RecvWrongSize
    <2>1. Head(sock) \in Datagram
      BY <1>3 DEF RecvWrongSize, TypeOK
    <2>2. \A b \in pool' : b.data = Zeros
      BY <1>3, <2>1, WrittenType, DroppedBlank DEF RecvWrongSize
    <2> QED
      BY <1>3, <2>2 DEF RecvWrongSize, DataInv, Genuine
  <1>4. CASE RecvPayload
    <2>1. Genuine(buf)'
      BY <1>4 DEF RecvPayload, Written, Genuine
    <2> QED
      BY <1>4, <2>1 DEF RecvPayload, DataInv, Genuine
  <1>5. CASE ForwardPacket
    BY <1>5 DEF ForwardPacket, DataInv, Genuine
  <1>6. CASE FillGap
    <2>1. Genuine(filler)'
      BY <1>6 DEF FillGap, DataInv, Genuine
    <2> QED
      BY <1>6, <2>1 DEF FillGap, DataInv, Genuine
  <1>7. CASE Backpressure
    <2>1. UNCHANGED <<chan, held>>
      BY <1>7 DEF Backpressure
    <2>2. CASE Exit
      BY <2>1, <2>2, ExitBlank DEF DataInv, Genuine
    <2>3. CASE Retry
      <3>1. \A b \in pool' : b.data = Zeros
        BY <2>3, DroppedBlank DEF Retry, TypeOK
      <3> QED
        BY <2>1, <2>3, <3>1 DEF Retry, DataInv, Genuine
    <2> QED
      BY <1>7, <2>2, <2>3 DEF Backpressure
  <1>8. CASE SendPayload
    <2>1. CASE Exit /\ UNCHANGED <<chan, held>>
      BY <2>1, ExitBlank DEF DataInv, Genuine
    <2>2. CASE chan' = Append(chan, buf) /\ buf' = None /\ UNCHANGED <<filler, pool, held>>
      <3>1. chan \in Seq(Frame) /\ buf \in Frame
        BY <1>8 DEF SendPayload, TypeOK, LocalsOK, Holding
      <3>2. \A i \in 1 .. Len(chan') : Genuine(chan'[i])
        BY <2>2, <3>1 DEF DataInv
      <3> QED
        BY <2>2, <3>2 DEF DataInv, Genuine
    <2> QED
      BY <1>8, <2>1, <2>2 DEF SendPayload
  <1>9. CASE SendFiller
    <2>1. CASE Exit /\ UNCHANGED <<chan, held>>
      BY <2>1, ExitBlank DEF DataInv, Genuine
    <2>2. CASE chan' = Append(chan, filler) /\ filler' = None /\ UNCHANGED <<buf, pool, held>>
      <3>1. chan \in Seq(Frame) /\ filler \in Frame
        BY <1>9 DEF SendFiller, TypeOK, LocalsOK, Holding
      <3>2. \A i \in 1 .. Len(chan') : Genuine(chan'[i])
        BY <2>2, <3>1 DEF DataInv
      <3> QED
        BY <2>2, <3>2 DEF DataInv, Genuine
    <2> QED
      BY <1>9, <2>1, <2>2 DEF SendFiller
  <1>10. CASE Take
    <2>1. chan \in Seq(Frame) /\ chan # <<>> /\ Len(chan) \in Nat \ {0}
      BY <1>10 DEF Take, TypeOK
    <2>2. Genuine(held)' /\ (\A i \in 1 .. Len(chan') : Genuine(chan'[i]))
      BY <1>10, <2>1 DEF Take, DataInv, Genuine
    <2>3. \A b \in pool' : b.data = Zeros
      BY <1>10, DroppedBlank DEF Take, TypeOK
    <2> QED
      BY <1>10, <2>2, <2>3 DEF Take, DataInv, Genuine
  <1>11. CASE DropReceiver
    <2> DEFINE queued == {chan[i] : i \in 1 .. Len(chan)}
    <2>1. queued \subseteq Frame \cup {None}
      BY DEF TypeOK
    <2>2. \A b \in Dropped(queued) : b.data = Zeros
      BY <2>1, DroppedBlank
    <2> HIDE DEF queued
    <2>3. /\ UNCHANGED <<chan, pool>> \/ (chan' = <<>> /\ pool' = Dropped(queued))
          /\ UNCHANGED <<held, filler, buf>>
      BY <1>11 DEF DropReceiver, queued
    <2>4. /\ \A b \in pool' : b.data = Zeros
          /\ \A i \in 1 .. Len(chan') : Genuine(chan'[i])
      <3>1. CASE UNCHANGED <<chan, pool>>
        BY <3>1 DEF DataInv
      <3>2. CASE chan' = <<>> /\ pool' = Dropped(queued)
        BY <2>2, <3>2
      <3> QED
        BY <2>3, <3>1, <3>2
    <2> QED
      BY <2>3, <2>4 DEF DataInv, Genuine
  <1>12. CASE SendDestroy \/ Network \/ UNCHANGED vars
    <2>1. UNCHANGED <<chan, held, filler, buf, pool>>
      BY <1>12 DEF SendDestroy, Network, Emit, Restart, Late, Foreign, Runt,
                   netUnchanged, vars
    <2> QED
      BY <2>1 DEF DataInv, Genuine
  <1> QED
    BY <1>1, <1>2, <1>3, <1>4, <1>5, <1>6, <1>7, <1>8, <1>9, <1>10, <1>11, <1>12
    DEF Next, Thread, Application, Stopped

\* No frame the application can get hold of shows samples of another packet: the
\* pool's reset and the full-size read of recv_pkt together rule it out, also for
\* buffers given up under backpressure or for their size.
THEOREM FrameIntegrityHolds == Spec => []FrameIntegrity
  <1>1. Init => DataInv
    BY NoneAssumption DEF Init, DataInv, Genuine, Default, Zeros
  <1>2. TypeOK /\ GapInv /\ DataInv /\ [Next]_vars => DataInv'
    BY DataStep DEF GapInv
  <1>3. DataInv => FrameIntegrity
    BY DEF DataInv, Genuine, FrameIntegrity
  <1> QED
    BY <1>1, <1>2, <1>3, GapInductive, PTL DEF Spec

-----------------------------------------------------------------------------
(* recv_pkt implements GapFilledStream.                                    *)

\* A frame that follows may be put; one of zeros needs a frame before it.
LEMMA SendIsPut ==
  ASSUME TypeOK, rxOpen, NEW f \in Frame, Follows(f.cnt),
         f.data = None => ~ NothingYet,
         chan' = Append(chan, f), UNCHANGED <<held, rxOpen>>
  PROVE  Promise!Next
  <1>1. Promise!NothingYet \/ f.cnt <= Promise!LastCnt + 1
    BY DEF Promise!NothingYet, Promise!LastCnt, Follows
  <1>2. f.data = None => ~ Promise!NothingYet
    BY DEF Promise!NothingYet, NothingYet
  <1>3. Promise!Put(f)
    BY <1>1, <1>2 DEF Promise!Put
  <1> QED
    BY <1>3 DEF Promise!Next

\* Every step puts a frame that may be put, takes one, closes the receiver, or is
\* invisible to the reader.
LEMMA StepImplements ==
  ASSUME TypeOK, GapInv, [Next]_vars PROVE [Promise!Next]_(Promise!vars)
  <1> USE DEF devVars, statVars, appVars
  <1>1. CASE SendPayload
    <2>1. CASE rxOpen /\ chan' = Append(chan, buf) /\ UNCHANGED <<held, rxOpen>>
      <3>1. /\ buf \in Frame /\ buf.data # None /\ Follows(buf.cnt)
        BY <1>1, <2>1 DEF SendPayload, GapInv, LocalsOK, ExpectedFollows, Holding, TypeOK, Zeros
      <3> QED
        BY <2>1, <3>1, SendIsPut
    <2>2. CASE UNCHANGED <<chan, held, rxOpen>>
      BY <2>2 DEF Promise!vars
    <2> QED
      BY <1>1, <2>1, <2>2 DEF SendPayload
  <1>2. CASE SendFiller
    <2>1. CASE rxOpen /\ chan' = Append(chan, filler) /\ UNCHANGED <<held, rxOpen>>
      <3>1. /\ filler \in Frame /\ Follows(filler.cnt) /\ ~ NothingYet
        BY <1>2, <2>1 DEF SendFiller, GapInv, LocalsOK, ExpectedFollows, Holding, TypeOK
      <3> QED
        BY <2>1, <3>1, SendIsPut
    <2>2. CASE UNCHANGED <<chan, held, rxOpen>>
      BY <2>2 DEF Promise!vars
    <2> QED
      BY <1>2, <2>1, <2>2 DEF SendFiller
  <1>3. CASE Take
    <2>1. Promise!Get
      BY <1>3 DEF Take, Promise!Get
    <2> QED
      BY <2>1 DEF Promise!Next
  <1>4. CASE DropReceiver
    <2>1. Promise!Close
      <3>1. rxOpen /\ rxOpen' = FALSE /\ held' = held /\ (chan' = chan \/ chan' = <<>>)
        BY <1>4 DEF DropReceiver
      <3> QED
        BY <3>1 DEF Promise!Close
    <2> QED
      BY <2>1 DEF Promise!Next
  <1>5. CASE \/ PollCmd \/ RecvTimeout \/ RecvWrongSize \/ RecvPayload
             \/ ForwardPacket \/ FillGap \/ Backpressure
             \/ SendDestroy \/ Network \/ UNCHANGED vars
    <2>1. UNCHANGED <<chan, held, rxOpen>>
      BY <1>5 DEF PollCmd, RecvTimeout, RecvWrongSize, RecvPayload, ForwardPacket,
                  FillGap, Backpressure, SendDestroy, Network, Emit, Restart, Late,
                  Foreign, Runt, netUnchanged, vars
    <2> QED
      BY <2>1 DEF Promise!vars
  <1> QED
    BY <1>1, <1>2, <1>3, <1>4, <1>5 DEF Next, Thread, Application, Stopped

\* The thread, its pool, its retries and its socket are an implementation of the
\* stream the application is promised: numbers never skip ahead, and a frame of
\* zeros never comes before the first packet.
THEOREM ImplementsGapFilledStream == Spec => GapFilled
  <1>1. Init => Promise!Init
    BY DEF Init, Promise!Init
  <1>2. TypeOK /\ GapInv /\ [Next]_vars => [Promise!Next]_(Promise!vars)
    BY StepImplements
  <1> QED
    BY <1>1, <1>2, GapInductive, PTL DEF Spec, GapFilled, Promise!Spec

-----------------------------------------------------------------------------
(* No accepted packet is given up.                                         *)

\* Gap filling, a full channel and any number of retries keep the packet that was
\* read; it leaves the thread's hands only into the channel, or when the thread ends.
THEOREM AcceptedNotDroppedHolds == Spec => AcceptedNotDropped
  <1> DEFINE Kept == \/ pc' \in Holding /\ buf' = buf
                     \/ pc' = "done"
                     \/ pc' = "poll" /\ chan' = Append(chan, buf)
  <1>1. ASSUME Next, pc \in Holding PROVE Kept
    <2>1. CASE PollCmd \/ RecvTimeout \/ RecvWrongSize \/ RecvPayload
      BY <1>1, <2>1 DEF PollCmd, RecvTimeout, RecvWrongSize, RecvPayload, Holding
    <2>2. CASE ForwardPacket \/ FillGap
      BY <2>2 DEF ForwardPacket, FillGap, Holding
    <2>3. CASE Backpressure
      BY <2>3 DEF Backpressure, Retry, Exit, Holding
    <2>4. CASE SendPayload \/ SendFiller
      BY <2>4 DEF SendPayload, SendFiller, Exit, Holding
    <2>5. CASE Application \/ Network \/ Stopped
      <3>1. UNCHANGED <<pc, buf>>
        BY <2>5 DEF Application, Take, SendDestroy, DropReceiver, Network, Emit, Restart,
                    Late, Foreign, Runt, netUnchanged, Stopped, vars
      <3> QED
        BY <1>1, <3>1
    <2> QED
      BY <1>1, <2>1, <2>2, <2>3, <2>4, <2>5 DEF Next, Thread
  <1>2. [Next]_vars => [(pc \in Holding) => Kept]_vars
    BY <1>1
  <1> QED
    BY <1>2, PTL DEF Spec, AcceptedNotDropped

-----------------------------------------------------------------------------
(* How soon a Destroy ends the thread.                                     *)

\* Numbers to fill in before the packet at hand is due.
Missing == IF IsDue THEN 0 ELSE buf.cnt - next_cnt

\* Turns that the thread takes at most before it ends, once a Destroy is queued.  While
\* the channel has room the loop that fills a gap does not look at rx_cmd.
StepsToEnd ==
  CASE pc = "done" -> 0
    [] pc \in {"poll", "full"} -> 1
    [] pc = "send" -> 2
    [] pc = "sendfiller" -> 2 * Missing + 2
    [] pc = "fill" -> 2 * Missing + 3
    [] pc = "recv" -> 2 * CntMod + 2

\* What is missing between the expected number and the packet fits the width of the
\* number, and nothing is missing of a packet that is due.
LEMMA MissingBounds ==
  ASSUME TypeOK, LocalsOK, pc \in Holding
  PROVE  /\ next_cnt \in Cnt /\ buf.cnt \in Cnt
         /\ Missing \in Nat /\ Missing < CntMod
         /\ IsDue => Missing = 0
         /\ ~ IsDue => Missing = buf.cnt - next_cnt /\ Missing > 0
  <1>1. next_cnt \in Cnt /\ buf.cnt \in Cnt
    BY DEF TypeOK, LocalsOK, Frame
  <1> QED
    BY <1>1, RecvPktAssumption DEF Cnt, Missing, IsDue

\* The number of turns is a natural number, and bounded.
LEMMA StepsToEndType ==
  ASSUME TypeOK, LocalsOK
  PROVE  StepsToEnd \in Nat /\ StepsToEnd <= 2 * CntMod + 2
  <1>1. CntMod \in Nat \ {0}
    BY RecvPktAssumption
  <1>2. CASE pc \in {"fill", "sendfiller"}
    <2>1. Missing \in Nat /\ Missing < CntMod
      BY <1>2, MissingBounds DEF Holding
    <2>2. StepsToEnd \in {2 * Missing + 2, 2 * Missing + 3}
      BY <1>2 DEF StepsToEnd
    <2> QED
      BY <1>1, <2>1, <2>2
  <1>3. CASE pc = "recv"
    BY <1>1, <1>3 DEF StepsToEnd
  <1>4. CASE pc \in {"done", "poll", "full", "send"}
    BY <1>1, <1>4 DEF StepsToEnd
  <1> QED
    BY <1>2, <1>3, <1>4 DEF TypeOK

\* With a Destroy in the queue every step of the thread brings it nearer to its end:
\* where it looks at rx_cmd it ends, a frame of zeros leaves one number less to fill.
LEMMA ThreadCountsDown ==
  ASSUME TypeOK, GapInv, TypeOK', GapInv', Thread, cmd > 0
  PROVE  /\ StepsToEnd' < StepsToEnd
         /\ cmd' > 0 \/ pc' = "done"
  <1> USE DEF devVars, statVars, appVars
  <1>1. LocalsOK /\ LocalsOK' /\ cmd \in Nat /\ CntMod \in Nat \ {0}
    BY RecvPktAssumption DEF GapInv, TypeOK
  <1>2. CASE PollCmd \/ Backpressure
    <2>1. pc' = "done" /\ pc \in {"poll", "full"}
      BY <1>1, <1>2 DEF PollCmd, Backpressure, Exit
    <2> QED
      BY <2>1 DEF StepsToEnd
  <1>3. CASE RecvTimeout \/ RecvWrongSize
    <2>1. pc' = "poll" /\ pc = "recv" /\ UNCHANGED cmd
      BY <1>3 DEF RecvTimeout, RecvWrongSize
    <2> QED
      BY <1>1, <2>1 DEF StepsToEnd
  <1>4. CASE RecvPayload
    <2>1. pc' = "fill" /\ pc = "recv" /\ UNCHANGED cmd
      BY <1>4 DEF RecvPayload
    <2>2. next_cnt' \in Cnt /\ buf'.cnt \in Cnt
      BY <1>1, <2>1 DEF TypeOK, LocalsOK, Holding, Frame
    <2>3. Missing' \in Nat /\ Missing' < CntMod
      BY <1>1, <2>2 DEF Missing, IsDue, Cnt
    <2>4. StepsToEnd' = 2 * Missing' + 3 /\ StepsToEnd = 2 * CntMod + 2
      BY <2>1 DEF StepsToEnd
    <2>5. \A m, c \in Nat : m < c => 2 * m + 3 < 2 * c + 2
      OBVIOUS
    <2> QED
      BY <1>1, <2>1, <2>3, <2>4, <2>5
  <1>5. CASE ForwardPacket
    <2>1. pc = "fill" /\ IsDue /\ pc' \in {"full", "send"} /\ UNCHANGED cmd
      BY <1>5 DEF ForwardPacket
    <2>2. Missing = 0
      BY <1>1, <2>1, MissingBounds DEF Holding
    <2> QED
      BY <1>1, <2>1, <2>2 DEF StepsToEnd
  <1>6. CASE FillGap
    <2>1. /\ pc = "fill" /\ ~ IsDue /\ pc' \in {"full", "sendfiller"}
          /\ UNCHANGED <<buf, next_cnt, cmd>>
      BY <1>6 DEF FillGap
    <2>2. Missing \in Nat /\ Missing' = Missing
      BY <1>1, <2>1, MissingBounds DEF Holding, Missing, IsDue
    <2> QED
      BY <1>1, <2>1, <2>2 DEF StepsToEnd
  <1>7. CASE SendPayload
    <2>1. pc = "send" /\ pc' \in {"done", "poll"} /\ UNCHANGED cmd
      BY <1>7 DEF SendPayload, Exit
    <2> QED
      BY <1>1, <2>1 DEF StepsToEnd
  <1>8. CASE SendFiller
    <2>1. pc = "sendfiller" /\ UNCHANGED cmd
      BY <1>8 DEF SendFiller
    <2>2. Missing \in Nat /\ StepsToEnd = 2 * Missing + 2
      BY <1>1, <2>1, MissingBounds DEF Holding, StepsToEnd
    <2>3. CASE Exit
      BY <1>1, <2>1, <2>2, <2>3 DEF Exit, StepsToEnd
    <2>4. CASE ~ Exit
      <3>1. pc' = "fill" /\ next_cnt' = Succ(next_cnt) /\ buf' = buf
        BY <1>8, <2>4 DEF SendFiller
      <3>2. next_cnt < buf.cnt /\ next_cnt \in Cnt /\ buf.cnt \in Cnt
        BY <1>1, <2>1, MissingBounds DEF LocalsOK, Holding
      <3>3. next_cnt' = next_cnt + 1
        BY <3>1, <3>2, SuccBelow
      <3>4. Missing' = Missing - 1
        BY <3>1, <3>2, <3>3, RecvPktAssumption DEF Missing, IsDue, Cnt
      <3>5. StepsToEnd' = 2 * Missing' + 3
        BY <3>1 DEF StepsToEnd
      <3> QED
        BY <1>1, <2>1, <2>2, <3>4, <3>5
    <2> QED
      BY <2>3, <2>4
  <1> QED
    BY <1>2, <1>3, <1>4, <1>5, <1>6, <1>7, <1>8 DEF Thread

\* Nobody else delays the end or takes the Destroy away.
LEMMA OthersWait ==
  ASSUME TypeOK, Application \/ Network \/ UNCHANGED vars, cmd > 0
  PROVE  StepsToEnd' = StepsToEnd /\ cmd' > 0
  <1>1. UNCHANGED <<pc, buf, next_cnt>>
    BY DEF Application, Take, SendDestroy, DropReceiver, Network, Emit, Restart, Late, Foreign,
           Runt, netUnchanged, vars
  <1>2. cmd' \in {cmd, cmd + 1} /\ cmd \in Nat
    BY RecvPktAssumption
    DEF Application, Take, SendDestroy, DropReceiver, Network, Emit, Restart, Late, Foreign,
        Runt, netUnchanged, vars, TypeOK
  <1>3. Missing' = Missing
    BY <1>1 DEF Missing, IsDue
  <1>4. StepsToEnd' = StepsToEnd
    BY <1>1, <1>3 DEF StepsToEnd
  <1> QED
    BY <1>2, <1>4

\* From a Destroy on, the thread takes a bounded number of steps, whatever the network
\* and the application do meanwhile: every step of its own counts down, no step of
\* anybody else counts up, and the Destroy stays queued until the thread ends.
THEOREM DestroyCountsDown ==
  Spec => /\ [](StepsToEnd \in Nat /\ StepsToEnd <= 2 * CntMod + 2)
          /\ [][cmd > 0 /\ pc # "done" =>
                  /\ cmd' > 0 \/ pc' = "done"
                  /\ Thread => StepsToEnd' < StepsToEnd
                  /\ ~ Thread => StepsToEnd' = StepsToEnd]_vars
  <1> DEFINE Bounded == StepsToEnd \in Nat /\ StepsToEnd <= 2 * CntMod + 2
             Nearer == cmd > 0 /\ pc # "done" =>
                         /\ cmd' > 0 \/ pc' = "done"
                         /\ Thread => StepsToEnd' < StepsToEnd
                         /\ ~ Thread => StepsToEnd' = StepsToEnd
  <1>1. TypeOK /\ GapInv => Bounded
    BY StepsToEndType DEF GapInv
  <1>2. ASSUME TypeOK, GapInv, TypeOK', GapInv', [Next]_vars PROVE [Nearer]_vars
    <2>1. CASE Thread /\ cmd > 0
      BY <1>2, <2>1, ThreadCountsDown
    <2>2. CASE (Application \/ Network \/ UNCHANGED vars) /\ cmd > 0 /\ ~ Thread
      BY <1>2, <2>2, OthersWait
    <2>3. CASE ~ (cmd > 0)
      BY <2>3
    <2> QED
      BY <1>2, <2>1, <2>2, <2>3 DEF Next, Stopped
  <1> QED
    BY <1>1, <1>2, GapInductive, PTL DEF Spec

=============================================================================
