------------------------------- MODULE Recorders -------------------------------
(***************************************************************************)
(* The recorders src/src/bin/capture_pipeline.rs and                       *)
(* src/src/bin/dump_bb.rs: a loop that takes one frame after the other     *)
(* from the channel of recv_pkt - unbounded here - and writes its samples  *)
(* to files.  What may come out of the channel is GapFilledStream.         *)
(*                                                                         *)
(* A frame in a file is known by its place among the frames received.  A   *)
(* turn of the loop is a step: nobody else touches its files.              *)
(***************************************************************************)
EXTENDS GapFilledStream

CONSTANTS
  PipelineArgs,  \* command lines of capture_pipeline: [out, m, n, full, k, p]
  DumpArgs,      \* command lines of dump_bb: [out, s, p]
  CntMod,        \* numbers a pkt_cnt can hold: 2^64 in the code
  BufCap,        \* frames that fit into the BufWriter of dump_bb
  MaxFrames      \* bound: frames received

Option(S) == S \cup {None}

\* The file names -o and -F, and the numbers -m, -n, -k, -p, -s.
ASSUME RecordersAssumption ==
  /\ CntMod \in Nat \ {0} /\ BufCap \in Nat /\ MaxFrames \in Nat
  /\ None \notin Nat /\ None \notin Frames
  /\ \A f \in Frames : f.cnt \in 0 .. CntMod - 1
  /\ \A a \in PipelineArgs :
       /\ a.out \in BOOLEAN /\ a.full \in BOOLEAN
       /\ a.m \in Nat /\ a.n \in Nat /\ a.k \in Nat /\ a.p \in Option(Nat)
  /\ \A a \in DumpArgs :
       a.out \in BOOLEAN /\ a.s \in Option(Nat) /\ a.p \in Option(Nat)

VARIABLES
  tool, args,            \* the program that runs, and its command line
  status,                \* "running"; "returned": it left its loop; "panicked"; "killed"
  got,                   \* history: the numbers of the frames received
  dropped,               \* what this turn printed as "dropped", or None
  npkt_to_dump, window,  \* frames dump_file still takes (0: none open); contents of its file
  file_no, file_pkts,    \* full_dump_cnt and npkts_full_dump; current_file_no and current_file_pkts
  npkts,                 \* total_npkts_received; npkts_received
  files,                 \* contents of the numbered files
  unflushed              \* frames of the current file still in the BufWriter

runVars    == <<tool, args, status>>
windowVars == <<npkt_to_dump, window>>
fileVars   == <<file_no, file_pkts, npkts, files, unflushed>>
recVars    == <<vars, runVars, got, dropped, windowVars, fileVars>>

FreshStart ==
  /\ Init
  /\ status = "running"
  /\ got = <<>> /\ dropped = None
  /\ npkt_to_dump = 0 /\ window = <<>>
  /\ file_no = 0 /\ file_pkts = 0 /\ npkts = 0
  /\ files = [j \in 0 .. MaxFrames |-> <<>>]
  /\ unflushed = 0

RecInit ==
  /\ FreshStart
  /\ \/ tool = "capture_pipeline" /\ args \in PipelineArgs
     \/ tool = "dump_bb" /\ args \in DumpArgs

\* recv_pkt puts the next frame; one at a time is enough, as nothing looks at the queue.
Deliver ==
  /\ tool \in {"capture_pipeline", "dump_bb"}
  /\ status = "running"
  /\ queue = <<>> /\ Len(got) < MaxFrames
  /\ \E f \in Frames : Put(f)
  /\ UNCHANGED <<runVars, got, dropped, windowVars, fileVars>>

\* rx.recv(): a frame with number Number comes, and gets place Place.
Number == Head(queue).cnt
Place  == Len(got) + 1

Receive ==
  /\ status = "running"
  /\ Get
  /\ got' = Append(got, Number)

-----------------------------------------------------------------------------
(* capture_pipeline.                                                       *)

\* `payload.pkt_cnt - c - 1` is printed for a number that is neither zero nor next.
ReportDropped ==
  LET c == got[Len(got)]
  IN  dropped' = IF got # <<>> /\ Number # 0 /\ (c + 1) % CntMod # Number
                 THEN (Number + CntMod - c - 1) % CntMod
                 ELSE None

Opens(num) == num % args.m = 0 /\ args.n > 0 /\ args.out

\* What is in the file `outname` when number num comes, and how many it wants.
Before_Appends(num) == window
Before(num) == IF Opens(num) THEN <<>> ELSE window
Wanted(num) == IF Opens(num) THEN args.n ELSE npkt_to_dump

\* The file `outname` takes n frames, from every number on that m divides.
DumpWindow(num, i) ==
  IF Wanted(num) = 0 THEN UNCHANGED windowVars
  ELSE /\ npkt_to_dump' = Wanted(num) - 1
       /\ window' = Append(Before(num), [num |-> num, place |-> i])

IsFullDumpEnd == file_pkts + 1 = args.k

\* The full dump after a frame: the current file, its length, all files.
FullDump ==
  LET written == [files EXCEPT ![file_no] = Append(@, Place)]
  IN  IF ~ args.full THEN [no |-> file_no, pkts |-> file_pkts, files |-> files]
      ELSE IF IsFullDumpEnd
           THEN [no |-> file_no + 1, pkts |-> 0, files |-> [written EXCEPT ![file_no + 1] = <<>>]]
           ELSE [no |-> file_no, pkts |-> file_pkts + 1, files |-> written]

\* After number zero the full dump d starts over with file 0.
StartOver_KeepsCount(d) ==
  [no |-> 0, pkts |-> d.pkts, files |-> IF args.full THEN [d.files EXCEPT ![0] = <<>>] ELSE d.files]

StartOver(d) ==
  [no |-> 0, pkts |-> 0, files |-> IF args.full THEN [d.files EXCEPT ![0] = <<>>] ELSE d.files]

PipelineTurn ==
  /\ tool = "capture_pipeline" /\ args.m > 0
  /\ Receive
  /\ ReportDropped
  /\ DumpWindow(Number, Place)
  /\ status' = IF npkts + 1 = args.p THEN "returned" ELSE "running"
  /\ LET again == status' = "running" /\ Number = 0
         d == IF again THEN StartOver(FullDump) ELSE FullDump
     IN  /\ file_no' = d.no /\ file_pkts' = d.pkts /\ files' = d.files
         /\ npkts' = IF again THEN 0 ELSE npkts + 1
  /\ UNCHANGED <<tool, args, unflushed>>

\* -m 0 is accepted; the remainder panics on the first frame.
PipelinePanics ==
  /\ tool = "capture_pipeline" /\ args.m = 0
  /\ Receive
  /\ ReportDropped
  /\ status' = "panicked"
  /\ UNCHANGED <<tool, args, windowVars, fileVars>>

-----------------------------------------------------------------------------
(* dump_bb.                                                                *)

IsSegmentEnd_Late ==
  args.out /\ args.s # None /\ args.s > 0 /\ file_pkts >= args.s

IsSegmentEnd ==
  args.out /\ args.s # None /\ args.s > 0 /\ file_pkts + 1 >= args.s

IsLast == args.p # None /\ npkts + 1 >= args.p

\* write_all to the BufWriter, which passes frames on when it likes.
Buffered == IF args.out THEN (0 .. unflushed + 1) \cap (0 .. BufCap) ELSE {0}

DumpTurn ==
  /\ tool = "dump_bb"
  /\ Receive
  /\ npkts' = npkts + 1
  /\ files' = IF args.out THEN [files EXCEPT ![file_no] = Append(@, Place)] ELSE files
  /\ \/ /\ IsLast                        \* main returns and flushes the BufWriter
        /\ status' = "returned"
        /\ file_no' = file_no /\ file_pkts' = file_pkts + 1 /\ unflushed' = 0
     \/ /\ ~ IsLast /\ ~ IsSegmentEnd
        /\ status' = status
        /\ file_no' = file_no /\ file_pkts' = file_pkts + 1
        /\ unflushed' \in Buffered
     \/ /\ ~ IsLast /\ IsSegmentEnd      \* so does its replacement by the next one
        /\ status' = status
        /\ file_no' = file_no + 1 /\ file_pkts' = 0 /\ unflushed' = 0
  /\ UNCHANGED <<tool, args, dropped, windowVars>>

-----------------------------------------------------------------------------
\* The user stops the program: what is in the BufWriter is lost.
Kill ==
  /\ status = "running"
  /\ status' = "killed"
  /\ files' = [files EXCEPT ![file_no] = SubSeq(@, 1, Len(@) - unflushed)]
  /\ UNCHANGED <<vars, tool, args, got, dropped, windowVars, file_no, file_pkts, npkts, unflushed>>

Over == (status # "running" \/ Len(got) = MaxFrames) /\ UNCHANGED recVars

RecNext == Deliver \/ PipelineTurn \/ PipelinePanics \/ DumpTurn \/ Kill \/ Over

RecSpec == RecInit /\ [][RecNext]_recVars

-----------------------------------------------------------------------------
(* Properties.                                                             *)

RecTypeOK ==
  /\ tool \in {"capture_pipeline", "dump_bb", "capture"}
  /\ status \in {"running", "returned", "panicked", "killed"}
  /\ got \in Seq(0 .. CntMod - 1) /\ Len(got) <= MaxFrames
  /\ dropped \in Option(0 .. CntMod - 1)
  /\ npkt_to_dump \in Nat
  /\ window \in Seq([num : 0 .. CntMod - 1, place : 1 .. MaxFrames])
  /\ file_no \in 0 .. MaxFrames /\ file_pkts \in 0 .. MaxFrames /\ npkts \in 0 .. MaxFrames
  /\ files \in [0 .. MaxFrames -> Seq(1 .. MaxFrames)]
  /\ unflushed \in 0 .. BufCap

\* The numbered files 0 .. file_no, k frames in each, hold the frames received from
\* place b + 1 on in their order, none missing and none twice at a seam; only a
\* program that was killed may leave the end of the last file out.
HoldAllSince(b, k) ==
  LET lost == IF status = "killed" THEN unflushed ELSE 0
  IN  /\ Len(got) - b = npkts
      /\ npkts = file_no * k + file_pkts
      /\ k = 0 \/ file_pkts <= k
      /\ Len(files[file_no]) = file_pkts - lost
      /\ \A j \in 0 .. file_no - 1 : Len(files[j]) = k
      /\ \A j \in 0 .. file_no : \A i \in 1 .. Len(files[j]) : files[j][i] = b + j * k + i

\* The full dump of capture_pipeline holds every frame after the last one numbered
\* zero.  That one is not in it: it is written to the file before, or to the file
\* that is then created anew.  (So a late copy of packet zero throws away what was
\* recorded of its own stream.)  -p counts from there, too.  A program that panicked on
\* -m 0 has recorded nothing.
FullDumpSinceZero ==
  tool = "capture_pipeline" /\ args.full /\ status # "panicked" =>
    /\ \E b \in 0 .. Len(got) :
         /\ b > 0 => got[b] = 0
         /\ \A i \in b + 1 .. Len(got) : got[i] = 0 => i = Len(got) /\ status = "returned"
         /\ HoldAllSince(b, args.k)
    /\ status = "returned" => npkts = args.p

\* The segments that dump_bb writes are the stream, and -p frames of it.  (Zero is
\* taken for one.)
SegmentsHoldAll ==
  tool = "dump_bb" /\ args.out =>
    /\ HoldAllSince(0, IF args.s = None THEN 0 ELSE args.s)
    /\ status = "returned" => npkts = IF args.p = 0 THEN 1 ELSE args.p

\* The file `outname` of capture_pipeline holds one unbroken run of frames, from the
\* last number on that m divides; it ends at the frame at hand or after n of them.
WindowFollows ==
  tool = "capture_pipeline" /\ window # <<>> =>
    LET first == window[1].place
    IN  /\ got[first] % args.m = 0
        /\ \A i \in first + 1 .. Len(got) : got[i] % args.m # 0
        /\ \A j \in 1 .. Len(window) : window[j] = [num |-> got[first + j - 1], place |-> first + j - 1]
        /\ Len(window) + npkt_to_dump = args.n
        /\ npkt_to_dump > 0 => first + Len(window) - 1 = Len(got)

\* "dropped N" never tells of a lost packet: recv_pkt has filled every gap, so the
\* message only comes when the numbers went back, and then N is the difference
\* modulo 2^64, more than any stream has packets.
DroppedOnlyGoingBack ==
  dropped # None =>
    LET i == Len(got)
    IN  i > 1 /\ got[i] <= got[i - 1] /\ dropped = CntMod - (got[i - 1] + 1 - got[i])

=============================================================================
