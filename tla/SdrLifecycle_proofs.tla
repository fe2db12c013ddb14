------------------------- MODULE SdrLifecycle_proofs -------------------------
(***************************************************************************)
(* Proofs about the device handle (SdrLifecycle.tla): it stays within what *)
(* RecvPkt assumes of an application, so the theorems of RecvPkt_proofs    *)
(* hold for it, and the unwrap() in free_sdr_device never fails.           *)
(***************************************************************************)
EXTENDS SdrLifecycle, RecvPkt_proofs

\* Every step of the life of a handle is a step of RecvPkt or leaves it alone.
LEMMA LifeStep == ASSUME [LifeNext]_lifeVars PROVE [Next]_vars
  <1>1. CASE Fetch
    BY <1>1 DEF Fetch, Next, Application
  <1>2. CASE StartDataStream \/ LateCommand
    BY <1>2 DEF StartDataStream, LateCommand, Sent, Starts, Stops, CallPanics, Next, Network
  <1>3. CASE StopDataStream \/ Free \/ DropStop \/ DropJoin
    BY <1>3 DEF StopDataStream, Free, DropStop, DropJoin, Sent, Stops, CallPanics
  <1>4. CASE FreeDestroy
    BY <1>4 DEF FreeDestroy, Next, Application
  <1>5. CASE FreeReceiver
    BY <1>5 DEF FreeReceiver, Next, Application
  <1>6. CASE LifeThread \/ LifeNetwork
    BY <1>6 DEF LifeThread, LifeNetwork, Next, Network
  <1>7. CASE UNCHANGED lifeVars
    BY <1>7 DEF lifeVars
  <1> QED
    BY <1>1, <1>2, <1>3, <1>4, <1>5, <1>6, <1>7 DEF LifeNext, Freeing

\* The handle uses the receiver thread as RecvPkt allows.
LEMMA LifeUsesRecvPkt == LifeSpec => Spec
  <1>1. LifeInit => Init
    BY DEF LifeInit
  <1> QED
    BY <1>1, LifeStep, PTL DEF LifeSpec, Spec

\* Hence what RecvPkt_proofs shows of the frames holds for the frames of a handle.
THEOREM LifeNoForwardGap == LifeSpec => [](NoForwardGap /\ FrameIntegrity)
  BY LifeUsesRecvPkt, NoForwardGapHolds, FrameIntegrityHolds, PTL

-----------------------------------------------------------------------------
\* Until free_sdr_device has sent Destroy the thread is alive: it has no command
\* to obey and no closed channel to fail on.
AliveInv ==
  /\ owner \in {"running", "destroy"} => pc # "done" /\ cmd = 0 /\ rxOpen
  /\ owner \in {"running", "destroy", "rx", "stop", "join", "gone", "panic"}

\* While the thread has no command and its receiver is alive, it goes on.
LEMMA ThreadGoesOn ==
  ASSUME Thread, pc # "done", cmd = 0, rxOpen
  PROVE  pc' # "done" /\ UNCHANGED <<cmd, rxOpen>>
  <1> USE DEF appVars
  <1>1. CASE PollCmd
    BY <1>1 DEF PollCmd
  <1>2. CASE RecvTimeout \/ RecvWrongSize \/ RecvPayload
    BY <1>2 DEF RecvTimeout, RecvWrongSize, RecvPayload
  <1>3. CASE ForwardPacket \/ FillGap
    BY <1>3 DEF ForwardPacket, FillGap
  <1>4. CASE Backpressure
    BY <1>4 DEF Backpressure, Retry
  <1>5. CASE SendPayload \/ SendFiller
    BY <1>5 DEF SendPayload, SendFiller
  <1> QED
    BY <1>1, <1>2, <1>3, <1>4, <1>5 DEF Thread

\* Freeing goes through its four steps in order.
LEMMA FreeSteps ==
  /\ FreeOrder[1] = "destroy"
  /\ Step("destroy") => owner = "destroy" /\ owner' = "rx"
  /\ Step("rx") => owner = "rx" /\ owner' = "stop"
  /\ Step("stop") => owner = "stop" /\ owner' = "join"
  /\ Step("join") => owner = "join" /\ owner' = "gone"
  BY DEF Step, FreeOrder

\* The invariant holds throughout the life of a handle.
LEMMA AliveAlways == LifeSpec => []AliveInv
  <1> USE DEF devVars, statVars, appVars, netUnchanged
  <1>1. LifeInit => AliveInv
    BY DEF LifeInit, Init, AliveInv
  <1>2. ASSUME AliveInv, [LifeNext]_lifeVars PROVE AliveInv'
    <2>1. CASE Fetch
      BY <1>2, <2>1 DEF Fetch, Take, AliveInv
    <2>2. CASE StartDataStream \/ LateCommand
      BY <1>2, <2>2
      DEF StartDataStream, LateCommand, Sent, Starts, Stops, CallPanics, Restart, vars, AliveInv
    <2>3. CASE StopDataStream
      BY <1>2, <2>3 DEF StopDataStream, Sent, Stops, CallPanics, vars, AliveInv
    <2>4. CASE Free
      BY <1>2, <2>4, FreeSteps DEF Free, vars, AliveInv
    <2>5. CASE FreeDestroy
      BY <1>2, <2>5, FreeSteps DEF FreeDestroy, AliveInv
    <2>6. CASE FreeReceiver \/ DropStop \/ DropJoin
      BY <1>2, <2>6, FreeSteps DEF FreeReceiver, DropStop, DropJoin, CallPanics, AliveInv
    <2>7. CASE LifeThread
      BY <1>2, <2>7, ThreadGoesOn DEF LifeThread, AliveInv
    <2>8. CASE LifeNetwork
      BY <1>2, <2>8 DEF LifeNetwork, Emit, Late, Foreign, Runt, AliveInv
    <2>9. CASE UNCHANGED lifeVars
      BY <1>2, <2>9 DEF lifeVars, vars, AliveInv
    <2> QED
      BY <1>2, <2>1, <2>2, <2>3, <2>4, <2>5, <2>6, <2>7, <2>8, <2>9 DEF LifeNext, Freeing
  <1> QED
    BY <1>1, <1>2, PTL DEF LifeSpec

\* The unwrap() on the sending of Destroy never panics: nothing ends the thread
\* before free_sdr_device does, whatever arrived and however full the channel was.
THEOREM UnwrapAlwaysHolds == LifeSpec => []UnwrapHolds
  <1>1. AliveInv => UnwrapHolds
    BY DEF AliveInv, UnwrapHolds
  <1> QED
    BY <1>1, AliveAlways, PTL

-----------------------------------------------------------------------------
\* The handle's own variables, whose values no step leaves.
OwnTypeOK ==
  /\ owner \in {"running", "destroy", "rx", "stop", "join", "gone", "unwrap", "panic"}
  /\ streaming \in BOOLEAN

\* Every variable of the handle and of its receiver thread keeps its type, through the
\* control calls, the steps of free_sdr_device and the panics.
THEOREM LifeTypeCorrect == LifeSpec => []LifeTypeOK
  <1> USE DEF OwnTypeOK
  <1>1. LifeInit => OwnTypeOK
    BY DEF LifeInit
  <1>2. ASSUME OwnTypeOK, [LifeNext]_lifeVars PROVE OwnTypeOK'
    <2>1. CASE StartDataStream \/ StopDataStream
      BY <1>2, <2>1 DEF StartDataStream, StopDataStream, Sent, Starts, Stops, CallPanics
    <2>2. CASE LateCommand
      BY <1>2, <2>2 DEF LateCommand, Starts, Stops
    <2>3. CASE Free \/ Freeing
      BY <1>2, <2>3, FreeSteps
      DEF Free, Freeing, FreeDestroy, FreeReceiver, DropStop, DropJoin, Sent, Stops, CallPanics
    <2>4. CASE Fetch \/ LifeThread \/ LifeNetwork \/ UNCHANGED lifeVars
      BY <1>2, <2>4 DEF Fetch, LifeThread, LifeNetwork, lifeVars
    <2> QED
      BY <1>2, <2>1, <2>2, <2>3, <2>4 DEF LifeNext
  <1>3. TypeOK /\ OwnTypeOK => LifeTypeOK
    BY DEF LifeTypeOK
  <1> QED
    BY <1>1, <1>2, <1>3, LifeUsesRecvPkt, TypeCorrect, PTL DEF LifeSpec

-----------------------------------------------------------------------------
(* Freeing a handle.                                                       *)

\* From the sending of Destroy on the thread has it, or has ended; then the receiver
\* is gone, and at the end nothing of the thread is left.
FreeInv ==
  /\ owner \in {"rx", "stop", "join", "gone"} => cmd > 0 \/ pc = "done"
  /\ owner \in {"stop", "join", "gone"} => ~ rxOpen
  /\ owner = "gone" => pc = "done"
  /\ pc = "done" => buf = None /\ filler = None

\* The thread does not let go of a Destroy before it has ended, and a thread that has
\* ended holds no frame.
LEMMA ThreadKeepsDestroy ==
  ASSUME TypeOK, Thread
  PROVE  /\ cmd > 0 => cmd' > 0 \/ pc' = "done"
         /\ pc' = "done" => buf' = None /\ filler' = None
         /\ pc # "done" /\ rxOpen' = rxOpen
  <1> USE DEF appVars, Exit
  <1>1. cmd \in Nat
    BY RecvPktAssumption DEF TypeOK
  <1>2. CASE PollCmd
    BY <1>1, <1>2 DEF PollCmd
  <1>3. CASE RecvTimeout \/ RecvWrongSize \/ RecvPayload
    BY <1>3 DEF RecvTimeout, RecvWrongSize, RecvPayload
  <1>4. CASE ForwardPacket \/ FillGap
    BY <1>4 DEF ForwardPacket, FillGap
  <1>5. CASE Backpressure
    BY <1>1, <1>5 DEF Backpressure, Retry
  <1>6. CASE SendPayload \/ SendFiller
    BY <1>6 DEF SendPayload, SendFiller
  <1> QED
    BY <1>2, <1>3, <1>4, <1>5, <1>6 DEF Thread

\* The thread itself, while the handle is freed.
LEMMA ThreadFreed == ASSUME TypeOK, FreeInv, LifeThread PROVE FreeInv'
  BY ThreadKeepsDestroy DEF FreeInv, LifeThread

\* What a control call does to the payload receiver, if anything: the device restarts.
LEMMA ControlLeavesThread ==
  ASSUME StartDataStream \/ StopDataStream \/ LateCommand \/ DropStop
  PROVE  UNCHANGED <<pc, cmd, buf, filler, rxOpen>>
  BY DEF StartDataStream, StopDataStream, LateCommand, DropStop, Sent, Starts, Stops, CallPanics,
         Restart, vars, appVars, netUnchanged

\* The invariant is inductive.
LEMMA FreeStep ==
  /\ LifeInit => FreeInv
  /\ TypeOK /\ AliveInv /\ FreeInv /\ [LifeNext]_lifeVars => FreeInv'
  <1> USE DEF FreeInv
  <1>1. LifeInit => FreeInv
    BY DEF LifeInit, Init
  <1>2. ASSUME TypeOK, AliveInv, FreeInv, [LifeNext]_lifeVars PROVE FreeInv'
    <2>1. cmd \in Nat
      BY <1>2, RecvPktAssumption DEF TypeOK
    <2>2. CASE Fetch \/ LifeNetwork \/ UNCHANGED lifeVars
      BY <1>2, <2>2
      DEF Fetch, Take, LifeNetwork, Emit, Late, Foreign, Runt, netUnchanged, lifeVars, vars, appVars
    <2>3. CASE StartDataStream \/ StopDataStream \/ LateCommand
      <3>1. owner' = owner \/ owner' = "panic"
        BY <2>3 DEF StartDataStream, StopDataStream, LateCommand, CallPanics
      <3> QED
        BY <1>2, <2>3, <3>1, ControlLeavesThread
    <2>4. CASE Free
      BY <1>2, <2>4, FreeSteps DEF Free, vars, appVars
    <2>5. CASE FreeDestroy
      <3>1. SendDestroy /\ owner' = "rx"
        BY <1>2, <2>5, FreeSteps DEF FreeDestroy, AliveInv
      <3>2. cmd' = cmd + 1 /\ UNCHANGED <<pc, buf, filler, rxOpen>>
        BY <3>1 DEF SendDestroy, appVars
      <3> QED
        BY <1>2, <2>1, <3>1, <3>2
    <2>6. CASE FreeReceiver
      BY <1>2, <2>6, FreeSteps DEF FreeReceiver, DropReceiver
    <2>7. CASE DropStop
      <3>1. owner = "stop" /\ owner' \in {"join", "panic"}
        BY <2>7, FreeSteps DEF DropStop, CallPanics
      <3> QED
        BY <1>2, <2>7, <3>1, ControlLeavesThread
    <2>8. CASE DropJoin
      BY <1>2, <2>8, FreeSteps DEF DropJoin, vars, appVars
    <2>9. CASE LifeThread
      BY <1>2, <2>9, ThreadFreed
    <2> QED
      BY <1>2, <2>2, <2>3, <2>4, <2>5, <2>6, <2>7, <2>8, <2>9 DEF LifeNext, Freeing
  <1> QED
    BY <1>1, <1>2

\* What holds all along while a handle lives and is freed.
LEMMA AlwaysFreeInv == LifeSpec => [](TypeOK /\ AliveInv /\ FreeInv)
  BY FreeStep, AliveAlways, LifeUsesRecvPkt, TypeCorrect, PTL DEF LifeSpec

\* When free_sdr_device returns, the thread has ended with no frame in its hands, and
\* nobody can send or take frames any more.
THEOREM FreedLeavesNothing ==
  LifeSpec => [](owner = "gone" => pc = "done" /\ ~ rxOpen /\ buf = None /\ filler = None)
  <1>1. FreeInv => (owner = "gone" => pc = "done" /\ ~ rxOpen /\ buf = None /\ filler = None)
    BY DEF FreeInv
  <1> QED
    BY <1>1, AlwaysFreeInv, PTL

\* Without its receiver the thread neither waits for room nor fills a gap: each of its
\* steps counts down.
LEMMA ShortStep ==
  ASSUME Thread, ~ rxOpen, cmd > 0
  PROVE  StepsLeft' < StepsLeft
  <1> USE DEF Exit, StepsLeft
  <1>1. CASE PollCmd
    BY <1>1 DEF PollCmd
  <1>2. CASE RecvTimeout \/ RecvWrongSize \/ RecvPayload
    BY <1>2 DEF RecvTimeout, RecvWrongSize, RecvPayload
  <1>3. CASE ForwardPacket \/ FillGap
    BY <1>3 DEF ForwardPacket, FillGap
  <1>4. CASE Backpressure
    BY <1>4 DEF Backpressure
  <1>5. CASE SendPayload \/ SendFiller
    BY <1>5 DEF SendPayload, SendFiller
  <1> QED
    BY <1>1, <1>2, <1>3, <1>4, <1>5 DEF Thread

\* The join of Sdr::drop waits for at most three turns of the thread, for every size of
\* the channel, width of the number and whatever the network and the device do.
THEOREM JoinIsShortHolds == LifeSpec => JoinIsShort
  <1> DEFINE Short == (owner \in {"stop", "join"}) /\ pc' # pc => StepsLeft' < StepsLeft
  <1>1. ASSUME TypeOK, FreeInv, [LifeNext]_lifeVars PROVE [Short]_lifeVars
    <2>1. CASE LifeThread
      <3> SUFFICES ASSUME owner \in {"stop", "join"} PROVE StepsLeft' < StepsLeft
        OBVIOUS
      <3>1. ~ rxOpen /\ Thread /\ pc # "done"
        BY <1>1, <2>1, ThreadKeepsDestroy DEF FreeInv, LifeThread
      <3>2. cmd > 0
        BY <1>1, <3>1 DEF FreeInv
      <3> QED
        BY <3>1, <3>2, ShortStep
    <2>2. CASE StartDataStream \/ StopDataStream \/ LateCommand \/ DropStop
      BY <2>2, ControlLeavesThread
    <2>3. CASE Fetch \/ Free \/ FreeDestroy \/ FreeReceiver \/ DropJoin \/ LifeNetwork \/ UNCHANGED lifeVars
      <3>1. pc' = pc
        BY <2>3
        DEF Fetch, Take, Free, FreeDestroy, SendDestroy, FreeReceiver, DropReceiver, DropJoin,
            LifeNetwork, Emit, Late, Foreign, Runt, netUnchanged, lifeVars, vars
      <3> QED
        BY <3>1
    <2> QED
      BY <1>1, <2>1, <2>2, <2>3 DEF LifeNext, Freeing
  <1> QED
    BY <1>1, AlwaysFreeInv, PTL DEF LifeSpec, JoinIsShort

=============================================================================
