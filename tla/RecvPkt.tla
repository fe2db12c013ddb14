------------------------------- MODULE RecvPkt -------------------------------
(***************************************************************************)
(* The payload receiver of src/src/pipeline.rs: the thread `recv_pkt`, the *)
(* payload pool it fills, the bounded payload channel to the application,  *)
(* the command channel that stops it, and the UDP traffic it lives on.     *)
(*                                                                         *)
(* The device numbers its packets; the thread forwards them in arrival     *)
(* order and puts a zero-filled frame in the place of every number it did  *)
(* not receive.  A step of the thread ends where it reads or writes what   *)
(* another thread can change: the command channel, the socket, the fill    *)
(* level of the payload channel, the channel itself.                       *)
(***************************************************************************)
EXTENDS Naturals, Sequences

CONSTANTS
  QueueCap,    \* capacity of the payload channel (8192 in Sdr::new)
  CmdCap,      \* capacity of the command channel (32 in Sdr::new)
  SockCap,     \* datagrams the kernel keeps for the payload socket
  CntMod,      \* numbers a pkt_cnt can hold: 2^64 in the code
  MaxCnt,      \* bound: packets the device numbers per stream
  MaxStream,   \* bound: streams the device starts
  StatCap,     \* bound: largest value kept of the two statistics counters
  Faults,      \* what the network does besides losing packets
  None         \* Option::None, and the content of a zeroed data block

ASSUME RecvPktAssumption ==
  /\ QueueCap \in Nat \ {0}
  /\ CmdCap \in Nat \ {0}
  /\ SockCap \in Nat \ {0}
  /\ CntMod \in Nat \ {0}
  /\ MaxCnt \in 0 .. CntMod
  /\ MaxStream \in Nat \ {0}
  /\ StatCap \in Nat
  /\ Faults \subseteq {"late", "foreign", "runt", "restart"}

VARIABLES
  stream, devCnt, emitted,            \* the device: current stream, next number, packets emitted so far
  sock,                               \* datagrams waiting in the payload socket
  pc, buf, filler, next_cnt,          \* the thread: control point, `payload`, `payload1`, `next_cnt`
  ndropped, nreceived,                \* its statistics
  cmd,                                \* Destroy commands waiting in rx_cmd
  chan,                               \* frames in the payload channel
  rxOpen, held,                       \* the application: rx_payload alive, frame it works on
  pool                                \* contents of the buffers that pull_owned may return

devVars  == <<stream, devCnt, emitted>>
statVars == <<ndropped, nreceived>>
appVars  == <<rxOpen, held>>
vars     == <<devVars, sock, pc, buf, filler, next_cnt, statVars, cmd, chan, appVars, pool>>

-----------------------------------------------------------------------------
(* Frames and buffers.  A header is identified by the stream it belongs to *)
(* (0: never written), a data block by the packet it came from.            *)

Cnt     == 0 .. CntMod - 1
Streams == 1 .. MaxStream

Zeros   == None
Default == [hdr |-> 0, cnt |-> 0, data |-> Zeros]
Frame   == [hdr : 0 .. MaxStream, cnt : Cnt, data : {Zeros} \cup (Streams \X Cnt)]

ASSUME NoneAssumption ==
  /\ None \notin Frame
  /\ None \notin Cnt
  /\ None \notin Streams \X Cnt

Datagram == [hdr : Streams, cnt : Cnt, whole : BOOLEAN]

\* `recv_from` overwrites the buffer with the bytes of the datagram.
Written(d) == [hdr |-> d.hdr, cnt |-> d.cnt, data |-> <<d.hdr, d.cnt>>]

\* What the pool does to a buffer that is dropped: number and data are
\* cleared, the rest of the header stays.
Reset_KeepsData(b) == [b EXCEPT !.cnt = 0]
Reset(b) == [b EXCEPT !.cnt = 0, !.data = Zeros]

\* The pool after the buffers `bs` (or no buffer: None) went back to it.
Dropped(bs) == pool \cup {Reset(b) : b \in bs \ {None}}

\* u64 addition of one, as the release profile compiles it.
Succ_NoWrap(n)   == n + 1
Succ_Identity(n) == n
Succ(n) == IF n + 1 = CntMod THEN 0 ELSE n + 1

\* One more on a statistics counter, which the model holds at StatCap.
Stat(n) == IF n < StatCap THEN n + 1 ELSE n

\* `tx_payload.is_full()`, and what `send` itself waits for.
HasRoom == Len(chan) < QueueCap
IsFull_OneMore == Len(chan) > QueueCap
IsFull == Len(chan) >= QueueCap

-----------------------------------------------------------------------------
Init ==
  /\ stream = 1 /\ devCnt = 0 /\ emitted = {}
  /\ sock = <<>>
  /\ pc = "poll" /\ buf = None /\ filler = None /\ next_cnt = None
  /\ ndropped = 0 /\ nreceived = 0
  /\ cmd = 0
  /\ chan = <<>>
  /\ rxOpen = TRUE /\ held = None
  /\ pool = {Default}

-----------------------------------------------------------------------------
(* The thread.                                                             *)

\* Leaving the function drops the locals and both channel ends.
Exit ==
  /\ pc' = "done"
  /\ buf' = None /\ filler' = None
  /\ pool' = Dropped({buf, filler})

\* The head of the outer loop, then `pull_owned`.
PollCmd ==
  /\ pc = "poll"
  /\ \/ /\ cmd > 0
        /\ cmd' = cmd - 1
        /\ Exit
     \/ /\ cmd = 0
        /\ \E b \in pool : buf' = b
        /\ pc' = "recv"
        /\ UNCHANGED <<cmd, filler, pool>>
  /\ UNCHANGED <<devVars, sock, next_cnt, statVars, chan, appVars>>

\* `recv_from` returns an error: the read timeout.
RecvTimeout ==
  /\ pc = "recv"
  /\ sock = <<>>
  /\ pc' = "poll"
  /\ buf' = None
  /\ pool' = Dropped({buf})
  /\ UNCHANGED <<devVars, sock, filler, next_cnt, statVars, cmd, chan, appVars>>

\* A datagram of another size: the half-written buffer goes back to the pool.
RecvWrongSize ==
  /\ pc = "recv"
  /\ sock # <<>>
  /\ ~ Head(sock).whole
  /\ sock' = Tail(sock)
  /\ pc' = "poll"
  /\ buf' = None
  /\ pool' = Dropped({Written(Head(sock))})
  /\ UNCHANGED <<devVars, filler, next_cnt, statVars, cmd, chan, appVars>>

\* What the arrival of number n makes of `next_cnt` and the statistics.
Expected_FromZero(n) == IF next_cnt = None THEN 0 ELSE next_cnt
Expected(n) == IF next_cnt = None THEN n ELSE next_cnt

DroppedAt_FirstOnly(n) == IF next_cnt = None THEN 0 ELSE ndropped
DroppedAt(n)  == IF next_cnt = None \/ n = 0 THEN 0 ELSE ndropped
ReceivedAt(n) == IF n = 0 THEN 0 ELSE nreceived

\* A whole packet: the first one sets the expected number, number zero starts
\* the statistics anew.
RecvPayload ==
  /\ pc = "recv"
  /\ sock # <<>>
  /\ Head(sock).whole
  /\ sock' = Tail(sock)
  /\ pc' = "fill"
  /\ buf' = Written(Head(sock))
  /\ next_cnt' = Expected(Head(sock).cnt)
  /\ ndropped' = DroppedAt(Head(sock).cnt)
  /\ nreceived' = ReceivedAt(Head(sock).cnt)
  /\ UNCHANGED <<devVars, filler, cmd, chan, appVars, pool>>

IsDue_Equal == next_cnt = buf.cnt
IsDue_OneAhead == next_cnt + 1 >= buf.cnt
IsDue == next_cnt >= buf.cnt

AfterPacket_Counts == Succ(next_cnt)
AfterPacket == Succ(buf.cnt)

\* `*c >= payload.pkt_cnt`: the packet itself is due.
ForwardPacket ==
  /\ pc = "fill"
  /\ IsDue
  /\ next_cnt' = AfterPacket
  /\ \/ /\ IsFull
        /\ pc' = "full"
        /\ UNCHANGED nreceived
     \/ /\ ~ IsFull
        /\ pc' = "send"
        /\ nreceived' = Stat(nreceived)
  /\ UNCHANGED <<devVars, sock, buf, filler, ndropped, cmd, chan, appVars, pool>>

\* Otherwise number *c is missing: a pooled buffer stands in for it.
FillGap ==
  /\ pc = "fill"
  /\ ~ IsDue
  /\ ndropped' = Stat(ndropped)
  /\ \E b \in pool : filler' = [hdr |-> buf.hdr, cnt |-> next_cnt, data |-> b.data]
  /\ \/ /\ IsFull
        /\ pc' = "full"
        /\ UNCHANGED nreceived
     \/ /\ ~ IsFull
        /\ pc' = "sendfiller"
        /\ nreceived' = Stat(nreceived)
  /\ UNCHANGED <<devVars, sock, buf, next_cnt, cmd, chan, appVars, pool>>

\* `continue` in the inner loop: the frame of zeros is given up for now.
Retry_NextPacket ==
  /\ pc' = "poll"
  /\ buf' = None /\ filler' = None
  /\ pool' = Dropped({buf, filler})

Retry ==
  /\ pc' = "fill"
  /\ filler' = None
  /\ pool' = Dropped({filler})
  /\ UNCHANGED buf

\* The channel was full: look for a command, then go round the loop again.
Backpressure_Deaf ==
  /\ pc = "full"
  /\ Retry
  /\ UNCHANGED <<devVars, sock, next_cnt, statVars, cmd, chan, appVars>>

Backpressure ==
  /\ pc = "full"
  /\ \/ /\ cmd > 0
        /\ cmd' = cmd - 1
        /\ Exit
     \/ /\ cmd = 0
        /\ Retry
        /\ UNCHANGED cmd
  /\ UNCHANGED <<devVars, sock, next_cnt, statVars, chan, appVars>>

\* `send` blocks while the channel is full, and fails once rx_payload is gone.
SendPayload ==
  /\ pc = "send"
  /\ \/ /\ ~ rxOpen
        /\ Exit
        /\ UNCHANGED chan
     \/ /\ rxOpen
        /\ HasRoom
        /\ chan' = Append(chan, buf)
        /\ pc' = "poll"
        /\ buf' = None
        /\ UNCHANGED <<filler, pool>>
  /\ UNCHANGED <<devVars, sock, next_cnt, statVars, cmd, appVars>>

SendFiller ==
  /\ pc = "sendfiller"
  /\ \/ /\ ~ rxOpen
        /\ Exit
        /\ UNCHANGED <<chan, next_cnt>>
     \/ /\ rxOpen
        /\ HasRoom
        /\ chan' = Append(chan, filler)
        /\ next_cnt' = Succ(next_cnt)
        /\ filler' = None
        /\ pc' = "fill"
        /\ UNCHANGED <<buf, pool>>
  /\ UNCHANGED <<devVars, sock, statVars, cmd, appVars>>

Thread ==
  \/ PollCmd \/ RecvTimeout \/ RecvWrongSize \/ RecvPayload
  \/ ForwardPacket \/ FillGap \/ Backpressure \/ SendPayload \/ SendFiller

-----------------------------------------------------------------------------
(* The application that owns rx_payload and tx_cmd.                        *)

\* `rx_payload.recv()`; the frame worked on before is dropped.
Take ==
  /\ rxOpen
  /\ chan # <<>>
  /\ held' = Head(chan)
  /\ chan' = Tail(chan)
  /\ pool' = Dropped({held})
  /\ UNCHANGED <<devVars, sock, pc, buf, filler, next_cnt, statVars, cmd, rxOpen>>

SendDestroy ==
  /\ pc # "done"
  /\ cmd < CmdCap
  /\ cmd' = cmd + 1
  /\ UNCHANGED <<devVars, sock, pc, buf, filler, next_cnt, statVars, chan, appVars, pool>>

\* The receiver is dropped.  The channel may free the queued frames at once or
\* only with its last owner; `is_full` answers as before in the second case.
DropReceiver ==
  /\ rxOpen
  /\ rxOpen' = FALSE
  /\ \/ UNCHANGED <<chan, pool>>
     \/ /\ chan' = <<>>
        /\ pool' = Dropped({chan[i] : i \in 1 .. Len(chan)})
  /\ UNCHANGED <<devVars, sock, pc, buf, filler, next_cnt, statVars, cmd, held>>

Application == Take \/ SendDestroy \/ DropReceiver

-----------------------------------------------------------------------------
(* The device and the network.                                             *)

Arrive(d) ==
  /\ pc # "done"
  /\ Len(sock) < SockCap
  /\ sock' = Append(sock, d)

netUnchanged == <<pc, buf, filler, next_cnt, statVars, cmd, chan, appVars, pool>>

\* The device sends the next packet; it arrives, or is lost on the way or at a
\* full socket.
Emit ==
  /\ devCnt < MaxCnt
  /\ devCnt' = devCnt + 1
  /\ emitted' = emitted \cup {<<stream, devCnt>>}
  /\ \/ Arrive([hdr |-> stream, cnt |-> devCnt, whole |-> TRUE])
     \/ UNCHANGED sock
  /\ UNCHANGED <<stream, netUnchanged>>

\* StreamStart makes the device count from zero again.
Restart ==
  /\ "restart" \in Faults
  /\ stream < MaxStream
  /\ stream' = stream + 1
  /\ devCnt' = 0
  /\ UNCHANGED <<emitted, sock, netUnchanged>>

\* A packet that was delayed, or a second copy of it.
Late ==
  /\ "late" \in Faults
  /\ \E e \in emitted : Arrive([hdr |-> e[1], cnt |-> e[2], whole |-> TRUE])
  /\ UNCHANGED <<devVars, netUnchanged>>

\* A datagram of the right size with any number: nothing in it is checked.
Foreign ==
  /\ "foreign" \in Faults
  /\ \E n \in Cnt : Arrive([hdr |-> stream, cnt |-> n, whole |-> TRUE])
  /\ UNCHANGED <<devVars, netUnchanged>>

\* A datagram of another size.
Runt ==
  /\ "runt" \in Faults
  /\ Arrive([hdr |-> stream, cnt |-> 0, whole |-> FALSE])
  /\ UNCHANGED <<devVars, netUnchanged>>

Network == Emit \/ Restart \/ Late \/ Foreign \/ Runt

-----------------------------------------------------------------------------
\* After `return` the thread is joined and nothing has to happen any more.
Stopped == pc = "done" /\ UNCHANGED vars

Next == Thread \/ Application \/ Network \/ Stopped

Spec == Init /\ [][Next]_vars

\* The operating system schedules the thread.
ThreadFairSpec == Spec /\ WF_vars(Thread)

-----------------------------------------------------------------------------
(* Properties.                                                             *)

TypeOK ==
  /\ stream \in Streams /\ devCnt \in 0 .. MaxCnt /\ emitted \subseteq Streams \X Cnt
  /\ sock \in Seq(Datagram) /\ Len(sock) <= SockCap
  /\ pc \in {"poll", "recv", "fill", "full", "send", "sendfiller", "done"}
  /\ buf \in Frame \cup {None} /\ filler \in Frame \cup {None}
  /\ next_cnt \in Cnt \cup {None}
  /\ ndropped \in 0 .. StatCap /\ nreceived \in 0 .. StatCap
  /\ cmd \in 0 .. CmdCap
  /\ chan \in Seq(Frame) /\ Len(chan) <= QueueCap
  /\ rxOpen \in BOOLEAN /\ held \in Frame \cup {None}
  /\ pool \subseteq Frame /\ Default \in pool

\* Whatever the network does - loss, reordering, copies, a device that starts
\* over, packets of another sender - the application never meets a frame whose
\* number skips ahead: every gap has been filled before (the `while let` loop
\* of recv_pkt).  Going back is possible and is not excluded.
NoForwardGap ==
  /\ \A i \in 1 .. Len(chan) - 1 : chan[i + 1].cnt <= chan[i].cnt + 1
  /\ held # None /\ chan # <<>> => chan[1].cnt <= held.cnt + 1

\* A frame carries the samples of the very packet its header names, or zeros:
\* the data of a packet that used the same pooled buffer before - forwarded,
\* discarded for its size, or dropped under backpressure - never shows.
FrameIntegrity ==
  \A f \in {chan[i] : i \in 1 .. Len(chan)} \cup {held, filler} :
    f # None => f.data \in {Zeros, <<f.hdr, f.cnt>>}

\* A frame of zeros stands for exactly the number after the frame before it, and
\* the first frame of all is never one of zeros.
FillersFollow ==
  /\ \A i \in 1 .. Len(chan) - 1 :
       chan[i + 1].data = Zeros => chan[i + 1].cnt = chan[i].cnt + 1
  /\ chan # <<>> /\ chan[1].data = Zeros =>
       held # None /\ chan[1].cnt = held.cnt + 1

\* When packets are only lost (and the device may start over), the frames under
\* the header of one stream form one run of consecutive numbers: no packet is
\* forwarded twice, none out of order, none both filled in and forwarded.
StreamContiguous ==
  /\ \A i \in 1 .. Len(chan) - 1 :
       chan[i + 1].hdr = chan[i].hdr => chan[i + 1].cnt = chan[i].cnt + 1
  /\ held # None /\ chan # <<>> /\ chan[1].hdr = held.hdr => chan[1].cnt = held.cnt + 1

\* `is_full` was read before `send`: nothing can fill the channel in between, so
\* the thread never blocks in `send`, where it would not see a Destroy.
SendNeverBlocks == pc \in {"send", "sendfiller"} /\ rxOpen => HasRoom

Holding == {"fill", "full", "send", "sendfiller"}

\* A packet taken from the socket is kept through gap filling and backpressure
\* until it is in the channel; it is given up only when the thread ends.
AcceptedNotDropped ==
  [][ (pc \in Holding) =>
        \/ pc' \in Holding /\ buf' = buf
        \/ pc' = "done"
        \/ pc' = "poll" /\ chan' = Append(chan, buf) ]_vars

\* The printed "{ndropped} pkts dropped" counts frames of zeros that were put in
\* the channel, and nreceived counts every frame that was.
DropsAreFrames == ndropped <= nreceived

\* The comment of the test `*c >= payload.pkt_cnt`: "actually = is sufficient".
EqualityIsSufficient == pc = "fill" => next_cnt <= buf.cnt

\* A Destroy ends the thread, whatever arrives on the socket and even if nobody
\* reads the payload channel: every wait of recv_pkt looks at rx_cmd again.
DestroyStops == (cmd > 0) ~> (pc = "done")

\* With an application that keeps reading, a packet that was taken from the
\* socket does reach the channel: the busy wait on `is_full` ends.
AcceptedIsForwarded ==
  WF_vars(Take) => ((pc = "fill") ~> (pc \in {"poll", "done"} \/ ~ rxOpen))

-----------------------------------------------------------------------------
(* Why the application meets no forward gap: an inductive strengthening.   *)

\* A frame numbered n may be put behind everything the application was given.
Follows(n) ==
  IF chan # <<>> THEN n <= chan[Len(chan)].cnt + 1
  ELSE held # None => n <= held.cnt + 1

NothingYet == held = None /\ chan = <<>>

\* The locals the thread holds at each control point.
LocalsOK ==
  /\ (pc \in Holding) => buf # None /\ buf.data # Zeros /\ next_cnt # None
  /\ (pc = "recv") => buf # None
  /\ (pc = "sendfiller") => filler # None /\ filler.cnt = next_cnt /\ next_cnt < buf.cnt
  /\ (pc = "send") => next_cnt = Succ(buf.cnt)

\* What recv_pkt knows of its channel: while the receiver is alive, the frame it
\* is about to send - the packet if it is due, else the expected number - follows.
ExpectedFollows ==
  rxOpen =>
    /\ pc \in {"poll", "recv"} =>
         IF next_cnt = None THEN NothingYet ELSE ~ NothingYet /\ Follows(next_cnt)
    /\ pc \in {"fill", "full"} =>
         /\ next_cnt # buf.cnt \/ pc = "full" => ~ NothingYet
         /\ Follows(IF IsDue THEN buf.cnt ELSE next_cnt)
    /\ pc = "send" => Follows(buf.cnt)
    /\ pc = "sendfiller" => ~ NothingYet /\ Follows(next_cnt)

\* The gap-free channel together with what the thread's locals say of it.
GapInv == NoForwardGap /\ LocalsOK /\ ExpectedFollows

-----------------------------------------------------------------------------
\* What the application is promised about the sequence of frames it reads.
Promise == INSTANCE GapFilledStream WITH
             cur <- held, queue <- chan, open <- rxOpen, Frames <- Frame

GapFilled == Promise!Spec

=============================================================================
