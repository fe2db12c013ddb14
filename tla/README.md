# Verification of syncdaq

syncdaq is the host side of a software-defined-radio data acquisition system: a
Rust library with a C interface and a few command-line tools.  A device answers
control commands over UDP (port 3000) and sends a stream of numbered payload
packets over UDP.  This directory holds TLA+ models of the library, TLC
configurations that check them on small instances, and TLAPS proofs of the most
important properties for every value of the constants.

    tlc -config RecvPkt_hostile.cfg RecvPkt.tla      # one run; PROJECT.json lists them all
    tlapm RecvPkt_proofs.tla                         # one module of proofs

## Inventory

| Part | Source (under src/src) | State it keeps | Operations | Module |
|---|---|---|---|---|
| payload receiver | `pipeline.rs` `recv_pkt` | `next_cnt`, two statistics counters, two pooled buffers, both channel ends | poll command, receive, fill a gap, wait on a full channel, forward, end | `RecvPkt` |
| payload frame, pool | `payload.rs`, `pipeline.rs` | contents of recycled buffers | pull, overwrite, copy header, reset | `RecvPkt` |
| device handle | `sdr.rs`, `c_interface.rs` | thread handle, `tx_cmd`, `rx_payload` | new, start/stop stream, free, `Drop` | `SdrLifecycle` |
| fetch functions | `c_interface.rs` | `CSdr::buffer`, `CSdr::cursor` | `fetch_data_16`, `fetch_data_cf32` | `FetchData` |
| control client | `ctrl_msg.rs` `send_cmd` | `msg_set`, `addr_msg_id_map`, `reply_summary` | send to all targets, drain, wait, time out | `SendCmd` |
| programs that call send_cmd | `bin/send_cmd.rs`, `init_device` of `sdr.rs`, `make_device` of `c_interface.rs` | position in the list of commands | next command, four ways to return | `Clients` |
| discovery | `ctrl_msg.rs` `bcast_cmd`, `c_interface.rs` `find_device` | summary, the caller's array | broadcast, collect, list | `Discovery` |
| test device | `bin/dummy_server.rs` | none | one reply per request | `Serve` of `SendCmd` |
| message codec | `ctrl_msg.rs` `CtrlMsg` | none | read, write, set/get id | id and validity only, in `SendCmd` |
| make/unmake_device, start_stream | `c_interface.rs` | none | one or two `send_cmd` | as calls of `SendCmd` |
| recorders | `bin/capture_pipeline.rs`, `bin/dump_bb.rs` | dump window, numbered files, their counters, a write buffer | a turn per frame: open a window, write, rotate, start over, return; being killed | `Recorders` |
| recorder without pipeline | `bin/capture.rs` | number that is due, dump window | receive, write a block for each number that is due | `Capture` |
| tool bcast_cmd | `bin/bcast_cmd.rs` | none | broadcast the next command | `BroadcastNext` of `Discovery` |
| utilities, multicast socket | `utils.rs`, `pipeline.rs` | none | byte views, socket options | not modelled |

How they interact:

    device --payload UDP--> kernel buffer --> recv_pkt --bounded channel--> fetch_data_*, recorders
                                  |              ^
                                  |              +--Destroy-- free_sdr_device   (command channel, 32)
                                  +--> capture

    application --send_cmd / bcast_cmd (one UDP port)--> devices --replies, late or never--> the next call

What is hard in this code, and where it is written down as a hazard:

* `recv_pkt` decides everything - first packet, gap, late packet, retry on a full
  channel, wrap of the number - with one loop and one counter;
* it must look at the command channel in every wait, or `free_sdr_device` hangs in
  `join`; it tests `is_full` and sends later;
* frames are recycled buffers, and a datagram of the wrong size has already been
  written into one when it is discarded;
* `send_cmd` binds the same port every time, so the replies that one call no longer
  waits for are received by the next;
* the fetch functions keep a half-used frame across calls of two functions with
  different element types, over raw pointers;
* `find_device` accepts every reply, and counts a slot before it writes it;
* the recorders keep three counters of frames that are reset in different places, and
  subtract numbers that may go back.

The full list, with lines and the properties that cover each, is in `PROJECT.json`.

## The modules

### RecvPkt - the payload receiver

One process for the thread, one for the application, one for device and network.
A step of the thread ends wherever the code touches something another thread can
change; straight-line code in between is one step.

| Control point `pc` | Code |
|---|---|
| `poll` | head of the outer loop: `rx_cmd`, then `pull_owned` |
| `recv` | in `recv_from` (1 s timeout: `RecvTimeout`; other size: `RecvWrongSize`) |
| `fill` | head of the `while let` loop: due (`ForwardPacket`) or missing (`FillGap`) |
| `full` | `is_full()` was true: look at `rx_cmd`, then `continue` (`Backpressure`) |
| `send`, `sendfiller` | `is_full()` was false: in `tx_payload.send(..)` |
| `done` | returned; locals and channel ends dropped |

`buf` and `filler` are `payload` and `payload1`; `chan` is the payload channel;
`cmd` counts Destroy commands; `held` is the frame the application works on; `pool`
is the set of contents that `pull_owned` may return - a buffer enters it, reset, when
its owner drops it, and may be returned any number of times, as may a fresh one.

Abstractions.  A header is the stream it came from, a block of samples is the packet
it came from (or zeros), so that stale data is visible.  The number keeps its width:
`CntMod` stands for 2^64 and `Succ` wraps, as the release profile does.  The status
line prints only.  Receiving into the buffer and returning from `recv_from` is one
step.  When the receiver is dropped, the channel library may free the queued frames
then or later; the model allows both.  Several Destroy commands may be queued.

Environment: packets are lost always; `Faults` adds late or duplicated packets
(`late`), right-sized datagrams with any number (`foreign`), datagrams of another
size (`runt`) and a device that starts over from zero (`restart`).

### GapFilledStream - what the application is promised

A queue of frames: `Put` may go back but never skips a number, and never begins with
a frame of zeros; `Get`; `Close`.  `RecvPkt` implements it with `held`, `chan` and
`rxOpen` (`GapFilled`), so a client of the stream can be specified without a thread.

### SdrLifecycle - the device handle

Extends `RecvPkt` with the application thread of the C interface.  `owner` is where
it is: `running`, then the steps of `free_sdr_device` and `Drop for Sdr` in their
order (`FreeOrder`: send Destroy, drop `rx_payload`, `stream_stop`, `join`), then
`gone`.  The pattern `sdr_dev: _` leaves the `Sdr` in the box, so it is dropped after
`tx_cmd` and `rx_payload`.  A control call is abstracted to what `SendCmd` says of
it: `Sent` (it returns, and its command was executed or not; nobody looks at the
summary), `LateCommand` (the command of an earlier call, or a second copy of one,
reaches the device), `CallPanics` (an `assert!` or `expect` of `send_cmd` fails: on a
late or duplicated reply, on a datagram that cannot be decoded, on the socket).  Any call
may panic at any time, the one in `Drop` too, and the panic aborts the process, since it
cannot leave a function of the C interface.  `streaming` says whether the device sends.

### SendCmd - the control protocol

The state of `send_cmd` is kept under its own names; `phase` is where it is: `send`
(head of the loop over targets), `drain` (non-blocking receives), `wait` (blocking
receives), `idle`, or the `assert` or `expect` it panicked at.  Devices are `dummy_server`: one reply per request,
under the id of the request, `InvalidMsg` for a command they do not know.  Requests
and replies are sets of datagrams from which any can be taken at any time, or never;
a datagram in the socket's buffer is not told from one on its way, so a receive may
find any reply or none, and a blocking receive may time out at any time.  The labels
`call` of datagrams, `executed` and `confirmed` are history.

`Faults`: `duplicate` (a datagram is delivered again), `collision` (`rng()` repeats an
id that is in use), `garbage` (a datagram `CtrlMsg::read` rejects) and `socket` (binding
the port or sending fails); at the last two an `expect` panics, `ExpectFails`.

A call starts from a port with nothing left over: `Init` has no datagrams, so what is said
of the first call, or of one run of the tool, assumes that no reply to an earlier process
arrives on the port it bound.

### RemoteCall - what a caller of send_cmd is promised

No sockets, ids or replies: `Begin` a call to some devices, `Execute` or `Discard` what is
pending at any time, `Return` with confirmations of what was executed, and - only after a
call that was not answered - `StaleReply`, a panic; at any time a call may end in the other
one, `BadReply`, an `expect` that fails.  `SendCmd` implements it
(`KeepsContract`): a command is pending while it is still to be sent or its request is
on the way, and the reply is hidden.  A request may be discarded because the device does
not know the command or because the network duplicated it.

### Clients - programs over send_cmd

Extends `SendCmd` with programs that send a list of commands.  A *careful* one is the
loop of `bin/send_cmd.rs` over a command file: `NextCall` sends the next command if the
summary at hand is well, `ToolExit` returns `StatAbnormal`, `NotAllReplied`,
`HasInvalidReply` or `Ok`.  Whether a `QueryReply` shows an abnormal state is left open.
A *careless* one is `init_device` with `Sdr::new`, or `make_device`: it goes on whatever
became of the command before (`CarelessExit`).

### Discovery - bcast_cmd and find_device

Extends `SendCmd`: `send_cmd`, `find_device` (`FindDevice`) and the broadcasts of the tool
bcast_cmd (`BroadcastNext`) are mixed on one port.  `bdrain` and `bwait` are the two
receive loops of `bcast_cmd`, which accept any reply; `list` is the loop of `find_device`
over the normal replies, one turn per step.  `result` is the caller's array, where `None`
is a slot that was not written.

### FetchData - fetch_data_16 and fetch_data_cf32

Frames are numbered; a delivered point is the place it was read from: frame, byte
offset, and the function that read it.  `Offset` is the pointer arithmetic of each
function.  One turn of the copying loop is a step; `recv().unwrap()` waits, or panics
once `recv_pkt` is gone.  `AtHand` counts the points that can be had without waiting.

### Recorders - capture_pipeline and dump_bb

Extends `GapFilledStream`: what these programs can receive is what `recv_pkt` was shown
to deliver, and nothing else is assumed of it.  `Deliver` puts a frame, `PipelineTurn`
and `DumpTurn` are one turn of the loops, with everything a turn does in its order:
report, window, full dump, return, start over.  A frame in a file is known by its place
among the frames received (`got` is history); the numbered files are one function
`files`.  The names of the variables of the two programs are kept together: `file_no`,
`file_pkts`, `npkts` are `full_dump_cnt`, `npkts_full_dump`, `total_npkts_received` in
one and `current_file_no`, `current_file_pkts`, `npkts_received` in the other.  `Kill`
ends the process at any time; the frames still in the `BufWriter` of `dump_bb`
(`unflushed`, which the buffer passes on when it likes) are lost.  `capture_pipeline`
writes to files without a buffer.  `-m 0` is a command line like any other: the remainder
panics on the first frame (`PipelinePanics`, and `CapturePanics` below).

### Capture - the recorder that reads the socket itself

Extends `Recorders` with `capture`, which shares the dump window but asks for the number
that is due; any packet may come next.  `CapSpec` is one of the three programs.

`MCSendCmd`, `MCClients`, `MCDiscovery` and `MCCapture` give target lists, programs,
command lines, frames and the symmetry of message ids (ids are only compared for
equality) to the configurations.

## The runs

| Run | Instance | Shows |
|---|---|---|
| `recv_loss` | channel 2, 3 packets, 2 streams, runts | `StreamContiguous`, `SendNeverBlocks`, `AcceptedNotDropped` |
| `recv_hostile` | channel 2, four-valued number, any number on the wire | `TypeOK`, `NoForwardGap`, `GapInv`, `FrameIntegrity`, refinement `GapFilled` |
| `recv_reorder` | channel 2, 4 packets, late and duplicated | `FillersFollow`, `DestroyStops`, `AcceptedIsForwarded` |
| `life_free` | channel 1, every fault, control calls that are lost, late or panic | `UnwrapHolds`, `FreeReturns`, `JoinIsShort`, `LifeTypeOK` |
| `clients` | 2 devices, files of 3 commands and lists of 3 and 2, one command the devices do not know, 6 ids, undecodable datagrams, failing sockets | `ScriptFollowed`, `ToolNeverPanics`, `AnsweredIsSettled`, `Accounted`, `ConfirmedIsExecuted`, `FirstCallNeverPanics`, `TypeOK`, refinement `KeepsContract` |
| `recorders` | 5 frames, numbers 0 to 4, 14 command lines of capture_pipeline, 24 of dump_bb, 7 of capture, write buffer of 2 frames | `FullDumpSinceZero`, `SegmentsHoldAll`, `WindowFollows`, `DroppedOnlyGoingBack`, `CaptureAligned`, `CapTypeOK` |
| `find_device` | 2 devices, 2 calls or broadcasts, arrays of 0 to 2 slots, duplicated and undecodable datagrams, failing socket | `FoundAnswers`, `FindEnds`, `CallEnds`, `DiscTypeOK` |
| `fetch_mixed` | frames of 3 points, 3 frames, 0 to 6 points per call, both functions | `NothingSkipped`, `Ci16AsStored`, `ReadsInsideFrame`, `WrongInsideFrame`, `FetchEnds`, `TypeOK` |
| `recv_stall`, `recv_equality`, `send_assert`, `fetch_cf32` | as small as the effect allows | violations, see Findings |

Every property of a passing run comes with a mutant in `PROJECT.json`: a plausible
mistake in the modelled code under which the run finds the property violated.

### Bounds, and why they are enough

* `QueueCap` 1 and 2 (8192 in the code): the code tests only full or not full; with 2
  there is a pair of neighbours inside the channel.  `CmdCap` 1: Destroy is sent once.
* `SockCap` 1: the thread reads one datagram at a time, and `Late` and `Foreign`
  bring any other next; a longer queue adds nothing they cannot.
* `CntMod` 4 or 5 with up to 4 packets: gaps of 0, 1 and 2 numbers, going back, and -
  in `recv_hostile` - the largest number, after which the expected one wraps to 0.
* `MaxStream` 2: one restart.  `StatCap` 0 keeps the statistics out of the runs that
  do not look at them; `DropsAreFrames` is checked with counters that do not saturate
  before the violation.
* `MaxCall` 2 or 3 (the files' lengths in `clients`) with as many ids as datagrams can be around: a reply of one call
  meets the next.  `MaxReply` 2, `MaxN` 2: fewer answers than slots, as many, more.
* `FrameLen` 3, `MaxNpt` 6: a call inside a frame, to its end, across one and two
  ends, and of no points at all, from every cursor.
* `MaxFrames` 5 with files of 0, 1 and 2 frames, windows of 0 to 4 frames at multiples of 2
  and 3: two seams, a restart after each, windows that overlap their successor and windows
  that end before it; `CntMod` 5: every number, going back from any to any.  `BufCap` 2:
  less than a file, a file, and more.

For the properties that are also proved the bounds do not matter.

### Fairness

* `ThreadFairSpec`: the operating system schedules the receiver thread.  Its receives
  have a one-second timeout, so some step is always enabled except inside `send`, and
  `SendNeverBlocks` says that it never waits there.
* `AcceptedIsForwarded` assumes in the formula itself that the application keeps
  reading; `DestroyStops` does not.
* `FairLifeSpec`: the thread and the thread that calls `free_sdr_device` run.
* `FairDiscSpec`: the calling thread runs and the receive timeout, which the callers
  set to 1 to 10 seconds, fires when nothing arrives.  Nothing is assumed of devices
  or network, except that at most `MaxReply` replies reach one `bcast_cmd`: every
  reply restarts its timeout, so a device that never falls silent keeps it listening.
* `FetchData`'s `FairSpec`: the caller runs.  Nothing is assumed of the receiver thread:
  while the device is stopped it neither sends a frame nor ends, and a fetch waits as
  long.  So `FetchEnds` says when it must not wait: once the points asked for are in the
  unfinished frame and the channel (`Suffices`), the call returns.

A panic at an `expect` (`ExpectFails`: a datagram that cannot be decoded, a socket error) is
never assumed to come: it may not be what ends a call.  `CallEnds` and `FindEnds` count a
panic as an end, though, and `FreeReturns` the abort of the process.

That a loop ends needs a scheduler that runs it and a variant that falls.  The scheduler
is what the formulas above assume; the variants are proved for all constants, in the
theorems named `...CountsDown` below: each step of the loop lowers a natural number,
and no step of anybody else raises it while the loop runs.

## What is proved

Each component's theorems are in a module of their own, `<Component>_proofs`.  The
constants are arbitrary under the assumptions that the modules state, so the bounds of
the runs do not matter for what is proved.  Two kinds of further assumptions are written
into the theorems: which faults of the network (`Faults`) are excluded, and that the
number does not wrap (`MaxCnt < CntMod`) where the order of numbers is the subject.

`RecvPkt_proofs` (any faults):

* `TypeCorrect`: `Spec => []TypeOK`.  The step of interest is the wrap of `Succ`.
* `NoForwardGapHolds`.  `NoForwardGap` is not inductive: it says nothing of the frame
  about to be sent.  `GapInv` adds the thread's knowledge at each control point -
  `LocalsOK` (which locals exist and how they relate) and `ExpectedFollows` (the frame
  that the next send will put, the packet if it is due and else the expected number,
  may follow the last one given to the application).  Wrapping is the case that needs
  care: after the largest number the expected number is 0, and going back is allowed.
  `TypeOK /\ GapInv` is inductive; `GapInv` is an invariant of `recv_hostile`, too.
* `GapInvHolds`: the same invariant as a theorem.
* `SendNeverBlocksHolds`: only the thread adds to the channel.
* `FrameIntegrityHolds`: with `DataInv` - every buffer in the pool has zeros for data,
  every frame in use has zeros or the samples its header names.
* `ImplementsGapFilledStream`: initial states and steps map to those of
  `GapFilledStream`, from `TypeOK`, `GapInv` and `DataInv`.
* `AcceptedNotDroppedHolds`: the action property, from the same invariants.
* `DestroyCountsDown`: once a Destroy is queued, each step of the thread lowers
  `StepsToEnd`, at most `2 * CntMod + 2`, nobody raises it, and the Destroy stays queued
  until the thread ends.  The width of the number is in the bound because the loop that
  fills a gap looks at `rx_cmd` only when the channel is full: while a reader keeps making
  room, it goes on to the end of the gap.

`RecvOrder_proofs` (numbers do not wrap):

* `FillersFollowHolds` (no `foreign` numbers): with `NumberInv` - a number on the wire is
  one that the device has sent or is about to - and `NextIsDue`, the thread's expected
  number is the successor of the last frame it put whenever it is about to put zeros.
* `StreamContiguousHolds` (only losses, runts and restarts): `OrderInv` orders everything
  between device and application - held frame, channel, packet in hand, socket - by
  stream and number.  A retry on a full channel, where the expected number has passed the
  packet already, and the first packet after a restart, which goes back, are the cases
  that made it grow.

`SdrLifecycle_proofs`:

* The steps of `LifeSpec` are those of `RecvPkt` with more conjuncts, so all of the above
  carries over to the thread of a handle (lemma `LifeUsesRecvPkt`).
* `LifeTypeCorrect`: the handle's own state keeps its types, and the receiver's with it.
* `UnwrapAlwaysHolds`: with `AliveInv` - until Destroy is sent the thread is alive, its
  command channel empty and its receiver open.
* `JoinIsShortHolds`: with `FreeInv` - once sent, Destroy stays queued until the thread
  ends, and `stream_stop` and `join` come after `rx_payload` was dropped - every step of
  the thread that `free_sdr_device` waits for lowers `StepsLeft`, at most three.  No gap
  to be filled prolongs it: the next send fails, or a full channel makes the thread look
  at `rx_cmd` (compare `DestroyCountsDown`).
* `FreedLeavesNothing`: when `free_sdr_device` has returned, the thread has ended with no
  frame in its hands and its channel is closed.

`SendCmd_proofs`, for any number of devices, targets and calls:

* `TypeCorrect` (any faults).
* `ConfirmedIsExecutedHolds` (no repeated ids), from `LabelInv`: a datagram whose id is
  open belongs to the call under way, and a valid reply comes from an execution.
* `FirstCallNeverPanicsHolds` (nothing duplicated or repeated), from `OpenInv`: no two
  datagrams share an id, those of the call under way have open ids, and until a call is
  left unanswered there are no others - and none at all between calls.
* `AccountedHolds` (no repeated ids), from `AccountInv`: while a call is under way, each
  turn of the loop over the targets has left an open id or an entry of a list
  (`Balanced`), so a reply moves one unit from the open ids to a list, and the entries of
  `no_reply` are the ids left.  The theorem counts with the library's facts on finite sets.
* `ContractKept`: with these invariants each step of `send_cmd` is a step of `RemoteCall`
  or a stutter.
* `AnsweredInOrder` (nothing duplicated or repeated) is derived from `RemoteCall` alone, by
  `OrderInv`, and so from `ContractKept`: while every call was answered, each device has
  executed the calls in the order in which they were made, and no request is left between
  two calls.
* `CallCountsDown` (any faults): a call to n targets is over after at most `3n + 2` of its
  own steps.  A reply either strikes off an open id or fails the assertion, so duplicated
  and foreign replies cannot keep a call going.

`Clients_proofs` (nothing duplicated or repeated), on top of those:

* `ProgramsHaveContract`: every program steps as `SendCmd` does (`ClientsUseSendCmd`), so
  contract and confirmations carry over.
* `ToolNeverPanicsHolds`: `ToolInv` - while the tool runs, all datagrams around belong to
  its last call.
* `ScriptFollowedHolds` and `AnsweredIsSettledHolds`: `AnswerInv` accounts for every target
  of the call - its id is open, or it executed the command, or it does not know it and
  the summary has an invalid reply.
* `ProgramCountsDown` (any faults): a program with m commands for n targets is over, by its
  exit or by a panic, after at most `m(3n + 3) + 1` of its steps.

`Discovery_proofs`, for any faults:

* `DiscTypeCorrect`, from `FindInv`: what the control point says of the command at hand
  and of the replies counted so far.
* `FoundAnswersHolds`, from `ListInv`: in the loop all counted slots are written, in the
  order of the answers, and one is left unless nothing is counted yet.
* `FindCountsDown`: while at most m replies arrive, a broadcast and the loop of
  `find_device` after it take at most `2m + 3` steps.  `CallCountsDownThere`: a `send_cmd`
  from the same port keeps the bound of `CallCountsDown`.

`FetchData_proofs`:

* `FetchTypeCorrect`; `NothingSkippedHolds`, an induction on copied pieces (`FetchInv`:
  cursor and requested points fit the frame); `Ci16AsStoredHolds` and
  `ReadsInsideFrameHolds` from `PointsInPlace`, which says where each delivered point was
  read.
* `WrongInsideFrameHolds` gives the boundary of finding 4: a turn of `fetch_data_cf32`
  delivers wrong points if and only if it begins inside a frame.  `WholeFramesAsStored`:
  as long as every call asks for a multiple of the frame length, with either function,
  no turn begins there (`BetweenFrames`), and all points are the stored ones.
* `FetchCountsDown`: a call for n points takes at most `2n + 2` turns, each of which waits
  for at most one frame.  `SufficesKept`: once the points are there they stay there until
  the call has returned, and no turn panics.  The two are the argument for `FetchEnds`.

`Recorders_proofs`, for every command line:

* `RecTypeCorrect`, `SegmentsHoldAllHolds`, `FullDumpSinceZeroHolds`,
  `WindowFollowsHolds`, `DroppedOnlyGoingBackHolds`: for every gap-filled stream, each from
  an invariant that states its property for the running program with strict bounds (a
  file at hand is not yet full) and names the place of the last start.
* `CapTypeCorrect`; and `RecordersAlone`, which carries all of these to `CapSpec`.
* `CaptureAlignedHolds`, for every order of packets, from `AlignedInv`: while numbers only
  grow, the number that is due goes on where the open window ends, and lies behind the
  packet before the one at hand.  The wrap of the number is no exception: after the
  largest number none can come that is not late.
* `CaptureCountsDown`: `capture` writes one block for each number that is missing and one
  for the packet before it receives again.

Every invariant, every action property and every refinement of the passing runs is proved.
Only model-checked: liveness (`DestroyStops`, `AcceptedIsForwarded`, `FreeReturns`,
`CallEnds`, `FindEnds`, `FetchEnds`), since fairness is out of this prover's reach.  What
is proved of it is the variant: `DestroyCountsDown` and `JoinIsShortHolds` for the first
and the third, `CallCountsDownThere`, `FindCountsDown` and `FetchCountsDown` for the last
three (with `SufficesKept`).  `AcceptedIsForwarded` has none: how often a retry fails is the reader's affair.

## Findings

1. `recv_stall` - `ndropped += 1` (`pipeline.rs:210`) is executed again on every turn
   of the busy wait on a full channel that comes back to a gap, for the same missing
   packet; the printed "pkts dropped" has no bound but the length of the wait, and the
   counter is an `i32`.
2. `recv_equality` - "actually = is sufficient" (`pipeline.rs:191`) is not true: a retry
   on a full channel comes back with the expected number already past the packet.  With
   `=` the packet would never be sent: zeros for the numbers after it would be put
   without end.
3. `send_assert` - `assert!(x)` (`ctrl_msg.rs:743`, `695`) fails on a reply that arrives
   after its call timed out, during the next call from the port.  `ToolNeverPanics`
   shows that the tool avoids this by stopping at the first failure; `init_device` and
   the C interface go on, and in `Drop` the panic aborts the process.
4. `fetch_cf32` - `fetch_data_cf32` adds the cursor, a number of points, to a byte
   pointer (`c_interface.rs:196`), and delivers wrong samples whenever a call starts
   inside a frame, and only then (`WrongInsideFrame`): a caller who asks for whole frames
   does not see it (`WholeFramesAsStored`).  It stays inside the frame
   (`ReadsInsideFrame`).

Observed while modelling, without a statement in the repository that they contradict:
with `max_n` answers or more `find_device` reports a last slot it has not written, and
1 for an empty array (`FoundAnswers` states what does hold); with a repeated id in one
call `send_cmd` may report that all replied although one target did not, which is why
`clients` excludes `collision`; an `Sdr` that a Rust caller drops without sending
Destroy waits in `join` for ever if the device is silent (no program of the repository
does; it is the mutant `FreeOrder_NoDestroy` of `life_free`); a duplicated reply fails the
assertion of `send_cmd` as a late one does; and while the channel has room,
the loop that fills a gap does not look at `rx_cmd`, so a number far ahead delays a
Destroy sent before `rx_payload` is dropped by as many frames of zeros as numbers are
missing (`DestroyCountsDown`; `free_sdr_device` drops `rx_payload`, so there the next
send ends it, `JoinIsShort`).

Of the recorders: the frame numbered zero that starts a new full dump of
`capture_pipeline` is in no file, or only in the one before, and a late copy of packet
zero throws away the recording of its own stream (`FullDumpSinceZero` states what is
kept); "dropped N" is printed only when numbers go back, with an N that underflowed -
a debug build panics there - and never for a lost packet, since `recv_pkt` has filled the
gap (`DroppedOnlyGoingBack`); `-m 0` makes `capture_pipeline` and `capture` panic on the
first frame; `dump_bb` with `-p 0` writes one frame, and killed it loses
the end of the last file (`SegmentsHoldAll`); `capture` fills a gap with copies of the
packet after it (`CaptureAligned`).

## Not modelled, and why

* Field layouts and texts of `CtrlMsg`: derived codecs and formatting.  The stale tail of
  the 9000-byte receive buffer belongs to them.
* `utils.rs` byte views, socket options, joining multicast groups: unsafe casts and
  system calls.  `u8_hex_array` is used by no type of the crate.
* `convert_simd` is the conversion of each sample; `FetchData` looks at where samples
  come from.
* `set_mixer_freq` and `set_lo_freq` build one message and send it.
* Build scripts and command files.

## Plan

Done: `RecvPkt` over `GapFilledStream`, `SdrLifecycle`, `SendCmd` over `RemoteCall`,
`Clients`, `Discovery`, `FetchData`, `Recorders`, `Capture`, and the proofs above.

Left, in this order:

1. The control calls of `SdrLifecycle` as an instance of `RemoteCall`, instead of the
   abstraction `Sent`, `LateCommand`, `CallPanics`.
2. The codec of `CtrlMsg` as a table of variants: which reply answers which command, and
   what a short reply leaves of a long one in the receive buffer.
3. `RecvPkt` composed with the recorders, so that `SegmentsHoldAll` and
   `FullDumpSinceZero` speak of the packets of a device instead of `GapFilledStream`.
