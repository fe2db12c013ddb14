--------------------------- MODULE Recorders_proofs ---------------------------
(***************************************************************************)
(* Proofs about the recorders (Recorders.tla, Capture.tla), for files of   *)
(* any length, windows of any size, and every stream that GapFilledStream  *)
(* or the network allows.                                                  *)
(***************************************************************************)
EXTENDS Capture, TLAPS

-----------------------------------------------------------------------------
(* Sequences and files.                                                    *)

\* What Append and SubSeq do to a sequence, and that a function on 1 .. n is one.
LEMMA Appended ==
  ASSUME NEW S, NEW s \in Seq(S), NEW x \in S
  PROVE  /\ Append(s, x) \in Seq(S) /\ Len(s) \in Nat /\ Len(Append(s, x)) = Len(s) + 1
         /\ Append(s, x)[Len(s) + 1] = x
         /\ \A i \in 1 .. Len(s) : Append(s, x)[i] = s[i]
         /\ Append(s, x) # <<>>
  OBVIOUS

\* The last element of a sequence.
LEMMA LastType ==
  ASSUME NEW S, NEW s \in Seq(S), s # <<>> PROVE Len(s) \in Nat \ {0} /\ s[Len(s)] \in S
  OBVIOUS

\* The elements of a sequence.
LEMMA ElementType ==
  ASSUME NEW S, NEW s \in Seq(S) PROVE \A i \in 1 .. Len(s) : s[i] \in S
  OBVIOUS

\* A prefix of a sequence.
LEMMA Prefix ==
  ASSUME NEW S, NEW s \in Seq(S), NEW n \in 0 .. Len(s)
  PROVE  /\ SubSeq(s, 1, n) \in Seq(S) /\ Len(SubSeq(s, 1, n)) = n
         /\ \A i \in 1 .. n : SubSeq(s, 1, n)[i] = s[i]
  OBVIOUS

\* The bound is a number.
LEMMA MaxNat == MaxFrames \in Nat
  BY RecordersAssumption

\* The contents of the numbered files.
Files == [0 .. MaxFrames -> Seq(1 .. MaxFrames)]

\* The files fs: n of them have k frames, file n has c, and they hold the frames from
\* place b + 1 on.
Filled(fs, b, k, n, c) ==
  /\ Len(fs[n]) = c
  /\ \A j \in 0 .. n - 1 : Len(fs[j]) = k
  /\ \A j \in 0 .. n : \A i \in 1 .. Len(fs[j]) : fs[j][i] = b + j * k + i

\* The next frame is put behind the last one.
LEMMA FilledAppend ==
  ASSUME NEW fs \in Files, NEW b \in Nat, NEW k \in Nat, NEW n \in 0 .. MaxFrames, NEW c \in Nat,
         NEW x \in 1 .. MaxFrames, x = b + n * k + c + 1,
         Filled(fs, b, k, n, c)
  PROVE  /\ [fs EXCEPT ![n] = Append(@, x)] \in Files
         /\ Filled([fs EXCEPT ![n] = Append(@, x)], b, k, n, c + 1)
  <1> DEFINE gs == [fs EXCEPT ![n] = Append(@, x)]
  <1>1. fs[n] \in Seq(1 .. MaxFrames) /\ Len(fs[n]) = c
    BY DEF Files, Filled
  <1>2. /\ Append(fs[n], x) \in Seq(1 .. MaxFrames) /\ Len(Append(fs[n], x)) = c + 1
        /\ Append(fs[n], x)[c + 1] = x
        /\ \A i \in 1 .. c : Append(fs[n], x)[i] = fs[n][i]
    BY <1>1, Appended
  <1>3. gs \in Files /\ gs[n] = Append(fs[n], x) /\ \A j \in 0 .. n - 1 : gs[j] = fs[j]
    BY <1>2, MaxNat DEF Files
  <1> HIDE DEF gs
  <1>4. ASSUME NEW j \in 0 .. n, NEW i \in 1 .. Len(gs[j]) PROVE gs[j][i] = b + j * k + i
    <2>1. CASE j = n
      <3>1. i \in 1 .. c + 1
        BY <1>2, <1>3, <2>1
      <3>2. CASE i = c + 1
        <4>1. gs[j][i] = x
          BY <1>2, <1>3, <2>1, <3>2
        <4>2. n * k \in Nat
          OBVIOUS
        <4> QED
          BY <2>1, <3>2, <4>1, <4>2
      <3>3. CASE i \in 1 .. c
        BY <1>1, <1>2, <1>3, <2>1, <3>3 DEF Filled
      <3> QED
        BY <3>1, <3>2, <3>3
    <2>2. CASE j \in 0 .. n - 1
      BY <1>3, <2>2 DEF Filled
    <2> QED
      BY <2>1, <2>2
  <1>5. Filled(gs, b, k, n, c + 1)
    BY <1>2, <1>3, <1>4 DEF Filled
  <1> QED
    BY <1>3, <1>5 DEF gs

\* A new file is begun when the last one has k frames.
LEMMA FilledNext ==
  ASSUME NEW fs \in Files, NEW gs \in Files, NEW b \in Nat, NEW k \in Nat,
         NEW n \in Nat, n + 1 <= MaxFrames,
         Filled(fs, b, k, n, k),
         gs[n + 1] = <<>>, \A j \in 0 .. n : gs[j] = fs[j]
  PROVE  Filled(gs, b, k, n + 1, 0)
  <1>1. Len(gs[n + 1]) = 0
    OBVIOUS
  <1>2. ASSUME NEW j \in 0 .. n PROVE Len(gs[j]) = k
    BY <1>2 DEF Filled
  <1>3. ASSUME NEW j \in 0 .. n + 1, NEW i \in 1 .. Len(gs[j]) PROVE gs[j][i] = b + j * k + i
    <2>1. j # n + 1
      BY <1>1, <1>3
    <2>2. j \in 0 .. n /\ gs[j] = fs[j]
      BY <2>1
    <2> QED
      BY <2>2 DEF Filled
  <1>4. 0 .. (n + 1) - 1 = 0 .. n
    OBVIOUS
  <1> QED
    BY <1>1, <1>2, <1>3, <1>4 DEF Filled

\* A program that is killed leaves its last file shorter.
LEMMA FilledCut ==
  ASSUME NEW fs \in Files, NEW b \in Nat, NEW k \in Nat, NEW n \in 0 .. MaxFrames, NEW c \in Nat,
         NEW u \in 0 .. c, Filled(fs, b, k, n, c)
  PROVE  /\ [fs EXCEPT ![n] = SubSeq(@, 1, Len(@) - u)] \in Files
         /\ Filled([fs EXCEPT ![n] = SubSeq(@, 1, Len(@) - u)], b, k, n, c - u)
  <1> DEFINE gs == [fs EXCEPT ![n] = SubSeq(@, 1, Len(@) - u)]
             t  == SubSeq(fs[n], 1, c - u)
  <1>1. fs[n] \in Seq(1 .. MaxFrames) /\ Len(fs[n]) = c /\ c - u \in 0 .. c
    BY DEF Files, Filled
  <1>2. /\ t \in Seq(1 .. MaxFrames) /\ Len(t) = c - u
        /\ \A i \in 1 .. c - u : t[i] = fs[n][i]
    BY <1>1, Prefix
  <1>3. gs \in Files /\ gs[n] = t /\ \A j \in 0 .. n - 1 : gs[j] = fs[j]
    BY <1>1, <1>2, MaxNat DEF Files
  <1> HIDE DEF gs, t
  <1>4. ASSUME NEW j \in 0 .. n, NEW i \in 1 .. Len(gs[j]) PROVE gs[j][i] = b + j * k + i
    <2>1. CASE j = n
      <3>1. i \in 1 .. c - u /\ i \in 1 .. Len(fs[j])
        BY <1>1, <1>2, <1>3, <2>1
      <3>2. gs[j][i] = fs[j][i]
        BY <1>2, <1>3, <2>1, <3>1
      <3> QED
        BY <3>1, <3>2 DEF Filled
    <2>2. CASE j \in 0 .. n - 1
      BY <1>3, <2>2 DEF Filled
    <2> QED
      BY <2>1, <2>2
  <1>5. Filled(gs, b, k, n, c - u)
    BY <1>2, <1>3, <1>4 DEF Filled
  <1> QED
    BY <1>3, <1>5 DEF gs

-----------------------------------------------------------------------------
(* Types.                                                                  *)

\* The types, the command line, and that no more comes than MaxFrames.
RecInv ==
  /\ RecTypeOK
  /\ \/ tool = "capture_pipeline" /\ args \in PipelineArgs
     \/ tool = "dump_bb" /\ args \in DumpArgs
  /\ queue \in Seq(Frames) /\ Len(queue) <= 1 /\ Len(got) + Len(queue) <= MaxFrames
  /\ npkts <= Len(got) /\ file_no <= Len(got) /\ file_pkts <= Len(got)
  /\ status = "running" => unflushed <= Len(files[file_no])
  /\ tool = "capture_pipeline" => unflushed = 0

\* What the command line of each program is.
LEMMA ArgsTypes ==
  ASSUME RecInv
  PROVE  /\ tool = "capture_pipeline" =>
              /\ args.out \in BOOLEAN /\ args.full \in BOOLEAN /\ args.m \in Nat
              /\ args.n \in Nat /\ args.k \in Nat /\ args.p \in Option(Nat)
         /\ tool = "dump_bb" =>
              args.out \in BOOLEAN /\ args.s \in Option(Nat) /\ args.p \in Option(Nat)
  BY RecordersAssumption DEF RecInv

\* What a turn of either loop receives.
LEMMA ReceiveType ==
  ASSUME RecInv, Receive
  PROVE  /\ Number \in 0 .. CntMod - 1
         /\ got' = Append(got, Number)
         /\ got' \in Seq(0 .. CntMod - 1)
         /\ Len(got) \in Nat /\ Len(got') = Len(got) + 1 /\ Len(got') <= MaxFrames
         /\ got'[Len(got')] = Number
         /\ \A i \in 1 .. Len(got) : got'[i] = got[i]
         /\ Place \in 1 .. MaxFrames /\ Place = Len(got')
         /\ queue' \in Seq(Frames) /\ Len(queue') = 0
  <1>1. queue \in Seq(Frames) /\ queue # <<>> /\ Len(queue) <= 1
    BY DEF RecInv, Receive, Get
  <1>2. Len(queue) = 1 /\ Head(queue) \in Frames
    BY <1>1
  <1>3. queue' = Tail(queue) /\ got' = Append(got, Number)
    BY DEF Receive, Get
  <1>4. queue' \in Seq(Frames) /\ Len(queue') = 0
    BY <1>1, <1>2, <1>3
  <1>5. Number \in 0 .. CntMod - 1
    BY <1>2, RecordersAssumption DEF Number
  <1>6. got \in Seq(0 .. CntMod - 1) /\ Len(got) + 1 <= MaxFrames
    BY <1>2 DEF RecInv, RecTypeOK
  <1>7. /\ got' \in Seq(0 .. CntMod - 1) /\ Len(got) \in Nat /\ Len(got') = Len(got) + 1
        /\ got'[Len(got) + 1] = Number /\ \A i \in 1 .. Len(got) : got'[i] = got[i]
    BY <1>3, <1>5, <1>6, Appended
  <1> QED
    BY <1>3, <1>4, <1>5, <1>6, <1>7, MaxNat DEF Place

\* The programs start well.
LEMMA RecInitInv == RecInit => RecInv
  BY RecordersAssumption
  DEF RecInit, FreshStart, Init, RecInv, RecTypeOK, Option

\* The window keeps its type.
LEMMA WindowType ==
  ASSUME RecTypeOK, args.n \in Nat,
         NEW num \in 0 .. CntMod - 1, NEW i \in 1 .. MaxFrames, DumpWindow(num, i)
  PROVE  npkt_to_dump' \in Nat /\ window' \in Seq([num : 0 .. CntMod - 1, place : 1 .. MaxFrames])
  <1> DEFINE W == [num : 0 .. CntMod - 1, place : 1 .. MaxFrames]
             w == [num |-> num, place |-> i]
  <1>1. npkt_to_dump \in Nat /\ window \in Seq(W) /\ <<>> \in Seq(W) /\ w \in W
    BY DEF RecTypeOK
  <1>2. Wanted(num) \in Nat
    BY <1>1 DEF Wanted
  <1> HIDE DEF W
  <1>3. Before(num) \in Seq(W)
    BY <1>1 DEF Before
  <1>4. CASE Wanted(num) = 0
    BY <1>1, <1>4 DEF DumpWindow, windowVars, W
  <1>5. CASE Wanted(num) # 0
    <2>1. npkt_to_dump' = Wanted(num) - 1 /\ window' = Append(Before(num), w)
      BY <1>5 DEF DumpWindow
    <2> HIDE DEF w
    <2>2. window' \in Seq(W)
      BY <1>1, <1>3, <2>1
    <2> QED
      BY <1>2, <1>5, <2>1, <2>2 DEF W
  <1> QED
    BY <1>4, <1>5

\* What FullDump and StartOver make of the files.
LEMMA DumpTypes ==
  ASSUME RecInv, tool = "capture_pipeline", Receive
  PROVE  /\ FullDump.no \in 0 .. Len(got') /\ FullDump.pkts \in 0 .. Len(got')
         /\ FullDump.files \in Files
         /\ StartOver(FullDump).no = 0 /\ StartOver(FullDump).pkts = 0
         /\ StartOver(FullDump).files \in Files
  <1> DEFINE written == [files EXCEPT ![file_no] = Append(@, Place)]
             next    == [written EXCEPT ![file_no + 1] = <<>>]
  <1>1. /\ files \in Files /\ file_no \in 0 .. MaxFrames /\ file_no <= Len(got)
        /\ file_pkts \in 0 .. MaxFrames /\ file_pkts <= Len(got)
    BY DEF RecInv, RecTypeOK, Files
  <1>2. Place \in 1 .. MaxFrames /\ Len(got) \in Nat /\ Len(got') = Len(got) + 1
    BY ReceiveType
  <1>3. files[file_no] \in Seq(1 .. MaxFrames)
    BY <1>1 DEF Files
  <1>4. Append(files[file_no], Place) \in Seq(1 .. MaxFrames)
    BY <1>2, <1>3
  <1>5. written \in Files
    BY <1>1, <1>4 DEF Files
  <1>6. <<>> \in Seq(1 .. MaxFrames)
    OBVIOUS
  <1>7. next \in Files
    <2> HIDE DEF written
    <2> QED
      BY <1>5, <1>6 DEF Files
  <1>8. \/ FullDump = [no |-> file_no, pkts |-> file_pkts, files |-> files]
        \/ FullDump = [no |-> file_no + 1, pkts |-> 0, files |-> next]
        \/ FullDump = [no |-> file_no, pkts |-> file_pkts + 1, files |-> written]
    BY DEF FullDump
  <1> HIDE DEF written, next
  <1>9. /\ FullDump.no \in 0 .. Len(got') /\ FullDump.pkts \in 0 .. Len(got')
        /\ FullDump.files \in Files
    <2>1. CASE FullDump = [no |-> file_no, pkts |-> file_pkts, files |-> files]
      BY <1>1, <1>2, <2>1
    <2>2. CASE FullDump = [no |-> file_no + 1, pkts |-> 0, files |-> next]
      BY <1>1, <1>2, <1>7, <2>2
    <2>3. CASE FullDump = [no |-> file_no, pkts |-> file_pkts + 1, files |-> written]
      BY <1>1, <1>2, <1>5, <2>3
    <2> QED
      BY <1>8, <2>1, <2>2, <2>3
  <1> DEFINE gs == [FullDump.files EXCEPT ![0] = <<>>]
  <1>10. gs \in Files
    BY <1>6, <1>9 DEF Files
  <1>11. StartOver(FullDump) = [no |-> 0, pkts |-> 0,
                                files |-> IF args.full THEN gs ELSE FullDump.files]
    BY DEF StartOver
  <1> HIDE DEF gs
  <1> QED
    BY <1>9, <1>10, <1>11

\* What is printed is a number.
LEMMA ReportType ==
  ASSUME RecInv, Receive, ReportDropped PROVE dropped' \in Option(0 .. CntMod - 1)
  <1>1. CASE dropped' = None
    BY <1>1 DEF Option
  <1>2. CASE dropped' # None
    <2>1. got # <<>> /\ dropped' = (Number + CntMod - got[Len(got)] - 1) % CntMod
      BY <1>2 DEF ReportDropped
    <2>2. got \in Seq(0 .. CntMod - 1) /\ Number \in 0 .. CntMod - 1
      BY ReceiveType DEF RecInv, RecTypeOK
    <2>3. got[Len(got)] \in 0 .. CntMod - 1
      BY <2>1, <2>2, LastType
    <2>4. Number + CntMod - got[Len(got)] - 1 \in Nat
      BY <2>2, <2>3, RecordersAssumption
    <2> QED
      BY <2>1, <2>4, RecordersAssumption DEF Option
  <1> QED
    BY <1>1, <1>2

\* A turn of capture_pipeline keeps the types.
LEMMA PipelineType == ASSUME RecInv, PipelineTurn PROVE RecInv'
  <1>1. Receive /\ tool = "capture_pipeline" /\ UNCHANGED <<tool, args, unflushed>>
    BY DEF PipelineTurn
  <1>2. /\ got' \in Seq(0 .. CntMod - 1) /\ Len(got) \in Nat /\ Len(got') = Len(got) + 1
        /\ Len(got') <= MaxFrames /\ queue' \in Seq(Frames) /\ Len(queue') = 0
        /\ Number \in 0 .. CntMod - 1 /\ Place \in 1 .. MaxFrames
    BY <1>1, ReceiveType
  <1>3. npkt_to_dump' \in Nat /\ window' \in Seq([num : 0 .. CntMod - 1, place : 1 .. MaxFrames])
    <2>1. RecTypeOK /\ args.n \in Nat
      BY <1>1, ArgsTypes DEF RecInv
    <2> QED
      BY <1>1, <1>2, <2>1, WindowType DEF PipelineTurn
  <1>4. dropped' \in Option(0 .. CntMod - 1)
    BY <1>1, ReportType DEF PipelineTurn
  <1>5. status' \in {"running", "returned"}
    BY DEF PipelineTurn
  <1>6. \E d \in {FullDump, StartOver(FullDump)} :
          file_no' = d.no /\ file_pkts' = d.pkts /\ files' = d.files
    BY DEF PipelineTurn
  <1>7. /\ file_no' \in 0 .. Len(got') /\ file_pkts' \in 0 .. Len(got') /\ files' \in Files
    <2>1. /\ FullDump.no \in 0 .. Len(got') /\ FullDump.pkts \in 0 .. Len(got')
          /\ FullDump.files \in Files
          /\ StartOver(FullDump).no = 0 /\ StartOver(FullDump).pkts = 0
          /\ StartOver(FullDump).files \in Files
      BY <1>1, DumpTypes
    <2> QED
      BY <1>2, <1>6, <2>1
  <1>8. npkts' \in 0 .. Len(got')
    <2>1. npkts' \in {0, npkts + 1}
      BY DEF PipelineTurn
    <2>2. npkts \in Nat /\ npkts <= Len(got)
      BY DEF RecInv, RecTypeOK
    <2> QED
      BY <1>2, <2>1, <2>2
  <1>9. /\ tool' \in {"capture_pipeline", "dump_bb", "capture"} /\ unflushed' \in 0 .. BufCap
        /\ status' \in {"running", "returned", "panicked", "killed"}
    BY <1>1, <1>5 DEF RecInv, RecTypeOK
  <1>10. file_no' \in 0 .. MaxFrames /\ file_pkts' \in 0 .. MaxFrames /\ npkts' \in 0 .. MaxFrames
    BY <1>2, <1>7, <1>8, MaxNat
  <1>11. RecTypeOK'
    BY <1>2, <1>3, <1>4, <1>7, <1>9, <1>10 DEF RecTypeOK, Files
  <1>12. unflushed' = 0 /\ Len(files'[file_no']) \in Nat
    BY <1>1, <1>7, <1>10 DEF RecInv, Files
  <1> QED
    BY <1>1, <1>2, <1>7, <1>8, <1>11, <1>12 DEF RecInv

\* A turn of dump_bb keeps the types.
LEMMA DumpType == ASSUME RecInv, DumpTurn PROVE RecInv'
  <1>1. Receive /\ tool = "dump_bb" /\ UNCHANGED <<tool, args, dropped, windowVars>>
    BY DEF DumpTurn
  <1>2. /\ got' \in Seq(0 .. CntMod - 1) /\ Len(got) \in Nat /\ Len(got') = Len(got) + 1
        /\ Len(got') <= MaxFrames /\ queue' \in Seq(Frames) /\ Len(queue') = 0
        /\ Place \in 1 .. MaxFrames
    BY <1>1, ReceiveType
  <1>3. /\ files \in Files /\ file_no \in 0 .. MaxFrames /\ file_no <= Len(got)
        /\ file_pkts \in Nat /\ file_pkts <= Len(got)
        /\ npkts \in Nat /\ npkts <= Len(got) /\ unflushed \in 0 .. BufCap
        /\ status \in {"running", "returned", "panicked", "killed"}
    BY DEF RecInv, RecTypeOK, Files
  <1>4. files' \in Files
    <2>1. files[file_no] \in Seq(1 .. MaxFrames)
      BY <1>3 DEF Files
    <2>2. Append(files[file_no], Place) \in Seq(1 .. MaxFrames)
      BY <1>2, <2>1
    <2>3. files' \in {files, [files EXCEPT ![file_no] = Append(@, Place)]}
      BY DEF DumpTurn
    <2> QED
      BY <1>3, <2>2, <2>3 DEF Files
  <1>5. /\ file_no' \in {file_no, file_no + 1} /\ file_pkts' \in {file_pkts + 1, 0}
        /\ unflushed' \in {0} \cup Buffered /\ status' \in {status, "returned"}
        /\ npkts' = npkts + 1
    BY DEF DumpTurn
  <1>6. unflushed' \in 0 .. BufCap
    BY <1>5, RecordersAssumption DEF Buffered
  <1>7. /\ file_no' \in 0 .. Len(got') /\ file_pkts' \in 0 .. Len(got') /\ npkts' \in 0 .. Len(got')
        /\ status' \in {"running", "returned", "panicked", "killed"}
    BY <1>2, <1>3, <1>5
  <1>8. file_no' \in 0 .. MaxFrames /\ file_pkts' \in 0 .. MaxFrames /\ npkts' \in 0 .. MaxFrames
    BY <1>2, <1>7, MaxNat
  <1>9. /\ tool' \in {"capture_pipeline", "dump_bb", "capture"}
        /\ dropped' \in Option(0 .. CntMod - 1) /\ npkt_to_dump' \in Nat
        /\ window' \in Seq([num : 0 .. CntMod - 1, place : 1 .. MaxFrames])
    BY <1>1 DEF RecTypeOK, RecInv, windowVars
  <1>10. RecTypeOK'
    BY <1>2, <1>4, <1>6, <1>7, <1>8, <1>9 DEF RecTypeOK, Files
  <1>11. status' = "running" => unflushed' <= Len(files'[file_no'])
    <2>1. Len(files'[file_no']) \in Nat
      BY <1>4, <1>8 DEF Files
    <2>2. CASE unflushed' = 0
      BY <2>1, <2>2
    <2>3. CASE unflushed' # 0
      <3>1. args.out /\ unflushed' \in 0 .. unflushed + 1 /\ file_no' = file_no
        BY <2>3 DEF DumpTurn, Buffered
      <3>2. unflushed <= Len(files[file_no])
        BY <1>1 DEF RecInv, Receive
      <3>3. files[file_no] \in Seq(1 .. MaxFrames)
        BY <1>3 DEF Files
      <3>4. files' = [files EXCEPT ![file_no] = Append(@, Place)]
        BY <3>1 DEF DumpTurn
      <3>5. files'[file_no'] = Append(files[file_no], Place)
        BY <1>3, <3>1, <3>4 DEF Files
      <3>6. Len(files'[file_no']) = Len(files[file_no]) + 1 /\ Len(files[file_no]) \in Nat
        BY <1>2, <3>3, <3>5
      <3> QED
        BY <1>3, <3>1, <3>2, <3>6
    <2> QED
      BY <2>2, <2>3
  <1> QED
    BY <1>1, <1>2, <1>7, <1>10, <1>11 DEF RecInv

\* A turn of capture_pipeline that panics.
LEMMA PanicType == ASSUME RecInv, PipelinePanics PROVE RecInv'
  <1>1. /\ Receive /\ ReportDropped /\ tool = "capture_pipeline" /\ status' = "panicked"
        /\ UNCHANGED <<tool, args, npkt_to_dump, window, file_no, file_pkts, npkts, files, unflushed>>
    BY DEF PipelinePanics, windowVars, fileVars
  <1>2. /\ got' \in Seq(0 .. CntMod - 1) /\ Len(got) \in Nat /\ Len(got') = Len(got) + 1
        /\ Len(got') <= MaxFrames /\ queue' \in Seq(Frames) /\ Len(queue') = 0
    BY <1>1, ReceiveType
  <1>3. dropped' \in Option(0 .. CntMod - 1)
    BY <1>1, ReportType
  <1>4. RecTypeOK'
    BY <1>1, <1>2, <1>3 DEF RecInv, RecTypeOK
  <1>5. npkts \in Nat /\ file_no \in Nat /\ file_pkts \in Nat
    BY DEF RecInv, RecTypeOK
  <1> QED
    BY <1>1, <1>2, <1>4, <1>5 DEF RecInv

\* The other steps keep the types.
LEMMA QuietType == ASSUME RecInv, Deliver \/ Kill \/ UNCHANGED recVars PROVE RecInv'
  <1>1. CASE Deliver
    <2>1. PICK f \in Frames : Put(f)
      BY <1>1 DEF Deliver
    <2>2. queue = <<>> /\ Len(got) < MaxFrames /\ queue' = Append(queue, f)
      BY <1>1, <2>1 DEF Deliver, Put
    <2>3. queue' \in Seq(Frames) /\ Len(queue') = 1
      BY <2>2
    <2>4. Len(got) \in Nat
      BY DEF RecInv, RecTypeOK
    <2>5. UNCHANGED <<tool, args, status, got, dropped, npkt_to_dump, window, file_no, file_pkts,
                      npkts, files, unflushed>>
      BY <1>1 DEF Deliver, runVars, windowVars, fileVars
    <2>6. RecTypeOK'
      BY <2>5 DEF RecInv, RecTypeOK
    <2> QED
      BY <2>2, <2>3, <2>4, <2>5, <2>6, MaxNat DEF RecInv
  <1>2. CASE Kill
    <2>1. UNCHANGED <<queue, tool, args, got, dropped, npkt_to_dump, window, file_no, file_pkts,
                      npkts, unflushed>> /\ status' = "killed"
      BY <1>2 DEF Kill, vars, windowVars
    <2> DEFINE t == SubSeq(files[file_no], 1, Len(files[file_no]) - unflushed)
    <2>2. files' = [files EXCEPT ![file_no] = t]
      BY <1>2 DEF Kill
    <2>3. /\ files \in Files /\ file_no \in 0 .. MaxFrames
          /\ unflushed \in 0 .. BufCap /\ BufCap \in Nat
      BY RecordersAssumption DEF RecInv, RecTypeOK, Files
    <2>4. files[file_no] \in Seq(1 .. MaxFrames)
      BY <2>3 DEF Files
    <2>5. t \in Seq(1 .. MaxFrames)
      <3>1. Len(files[file_no]) - unflushed \in 0 .. Len(files[file_no])
        BY <1>2, <2>3, <2>4 DEF Kill, RecInv
      <3> QED
        BY <2>4, <3>1, Prefix
    <2> HIDE DEF t
    <2>6. files' \in Files
      BY <2>2, <2>3, <2>5 DEF Files
    <2>7. RecTypeOK'
      <3>1. RecTypeOK
        BY DEF RecInv
      <3> QED
        BY <2>1, <2>6, <3>1 DEF RecTypeOK, Files
    <2> QED
      BY <2>1, <2>7 DEF RecInv
  <1>3. CASE UNCHANGED recVars
    BY <1>3 DEF RecInv, RecTypeOK, recVars, vars, runVars, windowVars, fileVars
  <1> QED
    BY <1>1, <1>2, <1>3

\* All steps keep the types.
LEMMA RecStep == RecInv /\ [RecNext]_recVars => RecInv'
  BY PipelineType, PanicType, DumpType, QuietType DEF RecNext, Over

\* The types of the recorders' state.
THEOREM RecTypeCorrect == RecSpec => []RecTypeOK
  <1>1. RecInv => RecTypeOK
    BY DEF RecInv
  <1> QED
    BY <1>1, RecInitInv, RecStep, PTL DEF RecSpec

-----------------------------------------------------------------------------
(* dump_bb: the segments are the stream.                                   *)

\* -s, where zero is no limit.
SegmentLen == IF args.s = None THEN 0 ELSE args.s

\* A segment is closed as soon as it is full, and the loop ends with frame number -p.
SegmentInv ==
  tool = "dump_bb" =>
    /\ npkts = Len(got)
    /\ status = "running" /\ args.p # None => npkts < args.p \/ npkts = 0
    /\ status = "returned" => npkts = IF args.p = 0 THEN 1 ELSE args.p
    /\ args.out =>
         /\ npkts = file_no * SegmentLen + file_pkts
         /\ SegmentLen > 0 => file_pkts <= SegmentLen
         /\ SegmentLen > 0 /\ status = "running" => file_pkts < SegmentLen
         /\ \A j \in file_no + 1 .. MaxFrames : files[j] = <<>>
         /\ unflushed <= file_pkts
         /\ Filled(files, 0, SegmentLen, file_no,
                   IF status = "killed" THEN file_pkts - unflushed ELSE file_pkts)

\* A turn of dump_bb.
LEMMA SegmentTurn == ASSUME RecInv, SegmentInv, DumpTurn PROVE SegmentInv'
  <1>1. Receive /\ tool = "dump_bb" /\ status = "running" /\ UNCHANGED <<tool, args>>
    BY DEF DumpTurn, Receive
  <1>2. /\ Len(got) \in Nat /\ Len(got') = Len(got) + 1 /\ Len(got') <= MaxFrames
        /\ Place \in 1 .. MaxFrames /\ Place = Len(got) + 1
    BY <1>1, ReceiveType
  <1>3. /\ files \in Files /\ file_no \in 0 .. MaxFrames /\ file_no <= Len(got)
        /\ file_pkts \in Nat /\ npkts \in Nat /\ unflushed \in Nat
    BY RecordersAssumption DEF RecInv, RecTypeOK, Files
  <1>4. SegmentLen \in Nat /\ SegmentLen' = SegmentLen /\ (args.p # None => args.p \in Nat)
    BY <1>1, ArgsTypes DEF SegmentLen, Option
  <1>5. npkts = Len(got) /\ npkts' = npkts + 1 /\ npkts' = Len(got')
    BY <1>1, <1>2 DEF SegmentInv, DumpTurn
  <1>6. status' \in {"running", "returned"} /\ (status' = "returned" <=> IsLast)
    BY <1>1 DEF DumpTurn
  <1>7. status' = "running" /\ args.p # None => npkts' < args.p
    BY <1>3, <1>4, <1>5, <1>6 DEF IsLast
  <1>8. status' = "returned" => npkts' = IF args.p = 0 THEN 1 ELSE args.p
    <2> SUFFICES ASSUME status' = "returned" PROVE npkts' = IF args.p = 0 THEN 1 ELSE args.p
      OBVIOUS
    <2>1. args.p # None /\ npkts + 1 >= args.p
      BY <1>6 DEF IsLast
    <2>2. npkts < args.p \/ npkts = 0
      BY <1>1, <2>1 DEF SegmentInv
    <2> QED
      BY <1>3, <1>4, <1>5, <2>1, <2>2
  <1>9. ASSUME args.out
        PROVE  /\ npkts' = file_no' * SegmentLen + file_pkts'
               /\ SegmentLen > 0 => file_pkts' <= SegmentLen
               /\ SegmentLen > 0 /\ status' = "running" => file_pkts' < SegmentLen
               /\ \A j \in file_no' + 1 .. MaxFrames : files'[j] = <<>>
               /\ unflushed' <= file_pkts'
               /\ Filled(files', 0, SegmentLen, file_no', file_pkts')
    <2>1. /\ npkts = file_no * SegmentLen + file_pkts
          /\ SegmentLen > 0 => file_pkts < SegmentLen
          /\ \A j \in file_no + 1 .. MaxFrames : files[j] = <<>>
          /\ unflushed <= file_pkts
          /\ Filled(files, 0, SegmentLen, file_no, file_pkts)
      BY <1>1, <1>9 DEF SegmentInv
    <2>2. file_no * SegmentLen \in Nat
      BY <1>3, <1>4
    <2>3. Place = 0 + file_no * SegmentLen + file_pkts + 1
      BY <1>2, <1>5, <2>1, <2>2
    <2>4. files' = [files EXCEPT ![file_no] = Append(@, Place)]
      BY <1>9 DEF DumpTurn
    <2>5. files' \in Files /\ Filled(files', 0, SegmentLen, file_no, file_pkts + 1)
      BY <1>2, <1>3, <1>4, <2>1, <2>3, <2>4, FilledAppend
    <2>6. \A j \in file_no + 1 .. MaxFrames : files'[j] = <<>>
      BY <1>3, <2>1, <2>4 DEF Files
    <2>7. npkts' = file_no * SegmentLen + (file_pkts + 1)
      BY <1>3, <1>5, <2>1, <2>2
    <2>8. CASE IsLast \/ ~ IsSegmentEnd
      <3>1. file_no' = file_no /\ file_pkts' = file_pkts + 1 /\ unflushed' \in {0} \cup 0 .. unflushed + 1
        BY <2>8 DEF DumpTurn, Buffered
      <3>2. SegmentLen > 0 /\ status' = "running" => file_pkts' < SegmentLen
        BY <1>3, <1>4, <1>6, <1>9, <2>8, <3>1 DEF IsSegmentEnd, SegmentLen
      <3>3. SegmentLen > 0 => file_pkts' <= SegmentLen
        BY <1>3, <1>4, <2>1, <3>1
      <3> QED
        BY <1>3, <2>1, <2>5, <2>6, <2>7, <3>1, <3>2, <3>3
    <2>9. CASE ~ IsLast /\ IsSegmentEnd
      <3>1. file_no' = file_no + 1 /\ file_pkts' = 0 /\ unflushed' = 0
        BY <2>9 DEF DumpTurn
      <3>2. SegmentLen > 0 /\ file_pkts + 1 >= SegmentLen
        BY <2>9 DEF IsSegmentEnd, SegmentLen
      <3>3. file_pkts + 1 = SegmentLen
        BY <1>3, <1>4, <2>1, <3>2
      <3>4. file_no + 1 <= MaxFrames
        BY <1>2, <1>3, MaxNat
      <3>5. files'[file_no + 1] = <<>>
        BY <1>3, <2>6, <3>4, MaxNat
      <3>6. Filled(files', 0, SegmentLen, file_no + 1, 0)
        <4>1. Filled(files', 0, SegmentLen, file_no, SegmentLen)
          BY <2>5, <3>3
        <4>2. files' \in Files /\ SegmentLen \in Nat /\ file_no \in Nat
          BY <1>3, <1>4, <2>5
        <4> QED
          BY <3>4, <3>5, <4>1, <4>2, FilledNext
      <3>7. (file_no + 1) * SegmentLen + 0 = file_no * SegmentLen + SegmentLen
        BY <1>3, <1>4
      <3> QED
        BY <1>3, <1>4, <2>6, <2>7, <3>1, <3>2, <3>3, <3>6, <3>7
    <2> QED
      BY <2>8, <2>9
  <1> QED
    BY <1>1, <1>4, <1>5, <1>6, <1>7, <1>8, <1>9 DEF SegmentInv

\* Other steps, and the programs that are no dump_bb.
LEMMA SegmentStep == RecInv /\ SegmentInv /\ [RecNext]_recVars => SegmentInv'
  <1> SUFFICES ASSUME RecInv, SegmentInv, [RecNext]_recVars PROVE SegmentInv'
    OBVIOUS
  <1>1. CASE DumpTurn
    BY <1>1, SegmentTurn
  <1>2. CASE PipelineTurn \/ PipelinePanics
    BY <1>2 DEF PipelineTurn, PipelinePanics, SegmentInv
  <1>3. CASE Kill
    <2>1. UNCHANGED <<tool, args, got, file_no, file_pkts, npkts, unflushed>>
          /\ status = "running" /\ status' = "killed"
      BY <1>3 DEF Kill
    <2>2. CASE tool = "dump_bb" /\ args.out
      <3>1. Filled(files, 0, SegmentLen, file_no, file_pkts) /\ unflushed <= file_pkts
        BY <2>1, <2>2 DEF SegmentInv
      <3>2. /\ files \in Files /\ file_no \in 0 .. MaxFrames /\ file_pkts \in Nat
            /\ unflushed \in Nat /\ SegmentLen \in Nat
        <4>1. SegmentLen \in Nat
          BY <2>2, ArgsTypes DEF SegmentLen, Option
        <4> QED
          BY <4>1, RecordersAssumption DEF RecInv, RecTypeOK, Files
      <3>3. files' = [files EXCEPT ![file_no] = SubSeq(@, 1, Len(@) - unflushed)]
        BY <1>3 DEF Kill
      <3>4. Filled(files', 0, SegmentLen, file_no, file_pkts - unflushed)
        <4>1. unflushed \in 0 .. file_pkts
          BY <3>1, <3>2
        <4> QED
          BY <3>1, <3>2, <3>3, <4>1, FilledCut
      <3>5. \A j \in file_no + 1 .. MaxFrames : files'[j] = <<>>
        <4>1. \A j \in file_no + 1 .. MaxFrames : files[j] = <<>> /\ files'[j] = files[j]
          BY <2>2, <3>2, <3>3 DEF SegmentInv, Files
        <4> QED
          BY <4>1
      <3>6. SegmentLen' = SegmentLen
        BY <2>1 DEF SegmentLen
      <3> QED
        BY <2>1, <2>2, <3>4, <3>5, <3>6 DEF SegmentInv
    <2>3. CASE ~ (tool = "dump_bb" /\ args.out)
      BY <2>1, <2>3 DEF SegmentInv
    <2> QED
      BY <2>2, <2>3
  <1>4. CASE Deliver \/ UNCHANGED recVars
    <2>1. UNCHANGED <<tool, args, status, got, file_no, file_pkts, npkts, files, unflushed>>
      BY <1>4 DEF Deliver, recVars, runVars, fileVars
    <2> QED
      BY <2>1 DEF SegmentInv, SegmentLen, Filled
  <1> QED
    BY <1>1, <1>2, <1>3, <1>4 DEF RecNext, Over

\* dump_bb: for every length of a segment, all segments but the last have it, and one
\* behind the other they are the frames received; only what was in the BufWriter of a
\* program that was killed is not in its file.
THEOREM SegmentsHoldAllHolds == RecSpec => []SegmentsHoldAll
  <1>1. RecInit => SegmentInv
    <2> SUFFICES ASSUME RecInit PROVE SegmentInv
      OBVIOUS
    <2>1. RecInv
      BY RecInitInv
    <2>2. /\ got = <<>> /\ npkts = 0 /\ file_no = 0 /\ file_pkts = 0 /\ unflushed = 0
          /\ status = "running" /\ files = [j \in 0 .. MaxFrames |-> <<>>]
      BY DEF RecInit, FreshStart
    <2>3. tool = "dump_bb" => SegmentLen \in Nat
      BY <2>1, ArgsTypes DEF SegmentLen, Option
    <2> QED
      BY <2>2, <2>3, MaxNat DEF SegmentInv, Filled
  <1>2. RecInv /\ SegmentInv => SegmentsHoldAll
    <2> SUFFICES ASSUME RecInv, SegmentInv, tool = "dump_bb", args.out PROVE SegmentsHoldAll
      BY DEF SegmentsHoldAll
    <2>1. Len(got) \in Nat /\ npkts = Len(got) /\ SegmentLen \in Nat /\ file_pkts \in Nat
      BY ArgsTypes DEF RecInv, RecTypeOK, SegmentInv, SegmentLen, Option
    <2>2. HoldAllSince(0, SegmentLen)
      BY <2>1 DEF HoldAllSince, SegmentInv, Filled
    <2> QED
      BY <2>2 DEF SegmentsHoldAll, SegmentInv, SegmentLen
  <1> QED
    BY <1>1, <1>2, RecInitInv, RecStep, SegmentStep, PTL DEF RecSpec

-----------------------------------------------------------------------------
(* capture_pipeline: the full dump.                                        *)

\* The full dump as it is after b frames and the npkts behind them.
DumpedSince(b) ==
  /\ Len(got) - b = npkts
  /\ npkts = file_no * args.k + file_pkts
  /\ args.k > 0 => file_pkts < args.k
  /\ Filled(files, b, args.k, file_no, file_pkts)

\* b is the place of the last frame numbered zero, or zero.
StartsAt(b) ==
  /\ b > 0 => got[b] = 0
  /\ \A i \in b + 1 .. Len(got) : got[i] = 0 => i = Len(got) /\ status = "returned"

\* The frames since the last start are in the files.
DumpInv ==
  tool = "capture_pipeline" /\ args.full /\ status # "panicked" =>
    /\ \E b \in 0 .. Len(got) : StartsAt(b) /\ DumpedSince(b)
    /\ status = "returned" => npkts = args.p

\* What FullDump makes of files that are filled.
LEMMA FullDumpFills ==
  ASSUME RecInv, tool = "capture_pipeline", args.full, Receive,
         NEW b \in 0 .. Len(got), DumpedSince(b)
  PROVE  /\ npkts + 1 = FullDump.no * args.k + FullDump.pkts
         /\ args.k > 0 => FullDump.pkts < args.k
         /\ Filled(FullDump.files, b, args.k, FullDump.no, FullDump.pkts)
  <1> DEFINE written == [files EXCEPT ![file_no] = Append(@, Place)]
             next    == [written EXCEPT ![file_no + 1] = <<>>]
  <1>1. /\ Len(got) \in Nat /\ Len(got') = Len(got) + 1 /\ Len(got') <= MaxFrames
        /\ Place \in 1 .. MaxFrames /\ Place = Len(got) + 1
    BY ReceiveType
  <1>2. /\ files \in Files /\ file_no \in 0 .. MaxFrames /\ file_no <= Len(got)
        /\ file_pkts \in Nat /\ npkts \in Nat
    BY DEF RecInv, RecTypeOK, Files
  <1>3. args.k \in Nat
    BY RecordersAssumption DEF RecInv
  <1>4. file_no * args.k \in Nat
    BY <1>2, <1>3
  <1>5. /\ Place = b + file_no * args.k + file_pkts + 1
        /\ npkts + 1 = file_no * args.k + (file_pkts + 1)
        /\ b \in Nat
        /\ Filled(files, b, args.k, file_no, file_pkts)
    <2>1. PICK x \in Nat : x = file_no * args.k
      BY <1>4
    <2>2. /\ npkts = x + file_pkts /\ Len(got) - b = npkts
          /\ Filled(files, b, args.k, file_no, file_pkts)
      BY <2>1 DEF DumpedSince
    <2>3. b \in Nat /\ Place = b + x + file_pkts + 1 /\ npkts + 1 = x + (file_pkts + 1)
      <3>1. x \in Nat
        BY <2>1
      <3>2. b \in Nat /\ Len(got) = npkts + b
        BY <1>1, <1>2, <2>2
      <3> QED
        BY <1>1, <1>2, <2>2, <3>1, <3>2
    <2> QED
      BY <2>1, <2>2, <2>3
  <1>6. written \in Files /\ Filled(written, b, args.k, file_no, file_pkts + 1)
    BY <1>1, <1>2, <1>3, <1>5, FilledAppend
  <1>7. FullDump = IF IsFullDumpEnd THEN [no |-> file_no + 1, pkts |-> 0, files |-> next]
                   ELSE [no |-> file_no, pkts |-> file_pkts + 1, files |-> written]
    BY DEF FullDump
  <1> HIDE DEF written
  <1>8. CASE IsFullDumpEnd
    <2>1. file_pkts + 1 = args.k
      BY <1>8 DEF IsFullDumpEnd
    <2>2. file_no + 1 <= MaxFrames
      BY <1>1, <1>2, MaxNat
    <2>3. /\ next \in Files /\ next[file_no + 1] = <<>>
          /\ \A j \in 0 .. file_no : next[j] = written[j]
      <3>1. <<>> \in Seq(1 .. MaxFrames) /\ file_no + 1 \in 0 .. MaxFrames
        BY <1>2, <2>2, MaxNat
      <3> QED
        BY <1>2, <1>6, <2>2, <3>1, MaxNat DEF Files
    <2> HIDE DEF next
    <2>4. Filled(next, b, args.k, file_no + 1, 0)
      BY <1>1, <1>2, <1>3, <1>6, <2>1, <2>2, <2>3, FilledNext
    <2>5. (file_no + 1) * args.k + 0 = file_no * args.k + args.k
      BY <1>2, <1>3
    <2>6. npkts + 1 = (file_no + 1) * args.k + 0
      BY <1>5, <2>1, <2>5
    <2> QED
      BY <1>3, <1>7, <1>8, <2>4, <2>6
  <1>9. CASE ~ IsFullDumpEnd
    <2>1. FullDump.no = file_no /\ FullDump.pkts = file_pkts + 1 /\ FullDump.files = written
      BY <1>7, <1>9
    <2>2. npkts + 1 = file_no * args.k + (file_pkts + 1)
      BY <1>2, <1>4 DEF DumpedSince
    <2>3. args.k > 0 => file_pkts + 1 < args.k
      BY <1>2, <1>3, <1>9 DEF IsFullDumpEnd, DumpedSince
    <2> QED
      BY <1>6, <2>1, <2>2, <2>3
  <1> QED
    BY <1>8, <1>9

\* A turn of capture_pipeline.
LEMMA DumpTurnKeeps == ASSUME RecInv, DumpInv, PipelineTurn PROVE DumpInv'
  <1> SUFFICES ASSUME args.full PROVE DumpInv'
    BY DEF PipelineTurn, DumpInv
  <1>1. /\ Receive /\ tool = "capture_pipeline" /\ status = "running"
        /\ UNCHANGED <<tool, args>>
    BY DEF PipelineTurn, Receive
  <1>2. /\ Len(got) \in Nat /\ Len(got') = Len(got) + 1
        /\ got'[Len(got')] = Number /\ \A i \in 1 .. Len(got) : got'[i] = got[i]
    BY <1>1, ReceiveType
  <1>3. PICK b \in 0 .. Len(got) : StartsAt(b) /\ DumpedSince(b)
    BY <1>1 DEF DumpInv
  <1>4. npkts \in Nat /\ args.k \in Nat
    BY <1>1, RecordersAssumption DEF RecInv, RecTypeOK
  <1>5. CASE status' = "running" /\ Number = 0
    <2>1. /\ file_no' = 0 /\ file_pkts' = 0 /\ npkts' = 0
          /\ files' = [FullDump.files EXCEPT ![0] = <<>>]
      BY <1>5 DEF PipelineTurn, StartOver
    <2>2. FullDump.files \in Files
      BY <1>1, DumpTypes
    <2>3. files'[0] = <<>>
      BY <2>1, <2>2, MaxNat DEF Files
    <2>4. PICK e \in Nat : e = Len(got')
      BY <1>2
    <2>5. Filled(files', e, args.k, 0, 0)
      <3>1. Len(files'[0]) = 0 /\ 0 .. 0 - 1 = {} /\ 0 .. 0 = {0} /\ 1 .. 0 = {}
        BY <2>3
      <3> QED
        BY <3>1 DEF Filled
    <2>6. StartsAt(e)'
      <3>1. got'[e] = 0 /\ e + 1 .. Len(got') = {}
        BY <1>2, <1>5, <2>4
      <3> QED
        BY <3>1 DEF StartsAt
    <2>7. 0 = 0 * args.k + 0 /\ Len(got') - e = 0
      BY <1>4, <2>4
    <2>8. DumpedSince(e)'
      BY <1>1, <2>1, <2>5, <2>7 DEF DumpedSince
    <2>9. e \in 0 .. Len(got')
      BY <2>4
    <2> QED
      BY <1>5, <2>6, <2>8, <2>9 DEF DumpInv
  <1>6. CASE ~ (status' = "running" /\ Number = 0)
    <2>1. /\ file_no' = FullDump.no /\ file_pkts' = FullDump.pkts /\ files' = FullDump.files
          /\ npkts' = npkts + 1
      BY <1>6 DEF PipelineTurn
    <2>2. status' = "returned" => npkts' = args.p
      BY <2>1 DEF PipelineTurn
    <2>3. /\ npkts + 1 = FullDump.no * args.k + FullDump.pkts
          /\ args.k > 0 => FullDump.pkts < args.k
          /\ Filled(FullDump.files, b, args.k, FullDump.no, FullDump.pkts)
      BY <1>1, <1>3, FullDumpFills
    <2>4. Len(got') - b = npkts + 1
      BY <1>2, <1>3, <1>4 DEF DumpedSince
    <2>5. DumpedSince(b)'
      BY <1>1, <2>1, <2>3, <2>4 DEF DumpedSince
    <2>6. StartsAt(b)'
      <3>1. ASSUME NEW i \in b + 1 .. Len(got'), got'[i] = 0
            PROVE  i = Len(got') /\ status' = "returned"
        <4>1. CASE i = Len(got')
          BY <1>2, <1>6, <3>1, <4>1 DEF PipelineTurn
        <4>2. CASE i # Len(got')
          <5>1. i \in b + 1 .. Len(got) /\ got[i] = 0
            BY <1>2, <3>1, <4>2
          <5> QED
            BY <1>1, <1>3, <5>1 DEF StartsAt
        <4> QED
          BY <4>1, <4>2
      <3>2. b > 0 => got'[b] = 0
        BY <1>2, <1>3 DEF StartsAt
      <3> QED
        BY <3>1, <3>2 DEF StartsAt
    <2>7. b \in 0 .. Len(got')
      BY <1>2
    <2> QED
      BY <1>1, <2>2, <2>5, <2>6, <2>7 DEF DumpInv
  <1> QED
    BY <1>5, <1>6

\* Other steps, and the programs that are no capture_pipeline.
LEMMA DumpStep == RecInv /\ DumpInv /\ [RecNext]_recVars => DumpInv'
  <1> SUFFICES ASSUME RecInv, DumpInv, [RecNext]_recVars PROVE DumpInv'
    OBVIOUS
  <1>1. CASE PipelineTurn
    BY <1>1, DumpTurnKeeps
  <1>2. CASE DumpTurn
    BY <1>2 DEF DumpTurn, DumpInv
  <1>3. CASE Kill /\ tool = "capture_pipeline"
    <2>1. UNCHANGED <<tool, args, got, file_no, file_pkts, npkts, unflushed>>
          /\ status = "running" /\ status' = "killed"
      BY <1>3 DEF Kill
    <2>2. files' = files
      <3>1. unflushed = 0 /\ files \in Files /\ file_no \in 0 .. MaxFrames
        BY <1>3 DEF RecInv, RecTypeOK, Files
      <3>2. files[file_no] \in Seq(1 .. MaxFrames)
        BY <3>1 DEF Files
      <3>3. SubSeq(files[file_no], 1, Len(files[file_no]) - unflushed) = files[file_no]
        BY <3>1, <3>2
      <3> QED
        BY <1>3, <3>1, <3>3 DEF Kill, Files
    <2>3. ASSUME NEW b, StartsAt(b), DumpedSince(b) PROVE StartsAt(b)' /\ DumpedSince(b)'
      BY <2>1, <2>2, <2>3 DEF StartsAt, DumpedSince, Filled
    <2> QED
      BY <2>1, <2>3 DEF DumpInv
  <1>4. CASE (Kill /\ tool # "capture_pipeline") \/ PipelinePanics
    BY <1>4 DEF Kill, PipelinePanics, DumpInv
  <1>5. CASE Deliver \/ UNCHANGED recVars
    <2>1. UNCHANGED <<tool, args, status, got, file_no, file_pkts, npkts, files>>
      BY <1>5 DEF Deliver, recVars, runVars, fileVars
    <2>2. ASSUME NEW b, StartsAt(b), DumpedSince(b) PROVE StartsAt(b)' /\ DumpedSince(b)'
      BY <2>1, <2>2 DEF StartsAt, DumpedSince, Filled
    <2> QED
      BY <2>1, <2>2 DEF DumpInv
  <1> QED
    BY <1>1, <1>2, <1>3, <1>4, <1>5 DEF RecNext, Over

\* capture_pipeline: for every length of a file, the files of the full dump hold all
\* frames after the last one numbered zero, none missing and none twice at a seam.
THEOREM FullDumpSinceZeroHolds == RecSpec => []FullDumpSinceZero
  <1>1. RecInit => DumpInv
    <2> SUFFICES ASSUME RecInit, tool = "capture_pipeline", args.full PROVE DumpInv
      BY DEF DumpInv
    <2>1. args.k \in Nat
      BY RecInitInv, ArgsTypes
    <2>2. /\ got = <<>> /\ npkts = 0 /\ file_no = 0 /\ file_pkts = 0
          /\ status = "running" /\ files = [j \in 0 .. MaxFrames |-> <<>>]
      BY DEF RecInit, FreshStart
    <2>3. Filled(files, 0, args.k, 0, 0)
      BY <2>2, MaxNat DEF Filled
    <2>4. 0 = 0 * args.k + 0 /\ Len(got) = 0
      BY <2>1, <2>2
    <2>5. StartsAt(0) /\ DumpedSince(0)
      BY <2>1, <2>2, <2>3, <2>4 DEF StartsAt, DumpedSince
    <2> QED
      BY <2>2, <2>4, <2>5 DEF DumpInv
  <1>2. RecInv /\ DumpInv => FullDumpSinceZero
    <2> SUFFICES ASSUME RecInv, DumpInv, tool = "capture_pipeline", args.full,
                        status # "panicked"
                 PROVE  FullDumpSinceZero
      BY DEF FullDumpSinceZero
    <2>1. PICK b \in 0 .. Len(got) : StartsAt(b) /\ DumpedSince(b)
      BY DEF DumpInv
    <2>2. args.k \in Nat /\ file_pkts \in Nat /\ unflushed = 0
      BY ArgsTypes DEF RecInv, RecTypeOK
    <2>3. HoldAllSince(b, args.k)
      BY <2>1, <2>2 DEF HoldAllSince, DumpedSince, Filled
    <2> QED
      BY <2>1, <2>3 DEF FullDumpSinceZero, StartsAt, DumpInv
  <1> QED
    BY <1>1, <1>2, RecInitInv, RecStep, DumpStep, PTL DEF RecSpec

-----------------------------------------------------------------------------
(* capture_pipeline: the file of -o.                                       *)

\* The window is one run of frames, and the countdown says how many it still takes.
WindowInv ==
  tool = "capture_pipeline" =>
    /\ window = <<>> => npkt_to_dump = 0
    /\ window # <<>> =>
         /\ args.m > 0 /\ args.out /\ args.n > 0
         /\ window[1].place + Len(window) - 1 <= Len(got)
    /\ WindowFollows

\* A turn of capture_pipeline.
LEMMA WindowTurn == ASSUME RecInv, WindowInv, PipelineTurn PROVE WindowInv'
  <1> DEFINE W == [num : 0 .. CntMod - 1, place : 1 .. MaxFrames]
             L == Len(got)
             w == [num |-> Number, place |-> L + 1]
  <1>1. /\ Receive /\ tool = "capture_pipeline" /\ UNCHANGED <<tool, args>>
        /\ DumpWindow(Number, Place)
    BY DEF PipelineTurn
  <1>2. /\ L \in Nat /\ Len(got') = L + 1 /\ Number \in 0 .. CntMod - 1
        /\ got'[L + 1] = Number /\ (\A i \in 1 .. L : got'[i] = got[i])
        /\ Place = L + 1 /\ Place \in 1 .. MaxFrames
    BY <1>1, ReceiveType
  <1>3. /\ args.m \in Nat \ {0} /\ args.n \in Nat /\ args.out \in BOOLEAN
    BY <1>1, ArgsTypes DEF PipelineTurn
  <1>4. npkt_to_dump \in Nat /\ window \in Seq(W) /\ w \in W
    BY <1>2 DEF RecInv, RecTypeOK
  <1> HIDE DEF W, L
  <1>5. CASE Opens(Number)
    <2>1. Wanted(Number) = args.n /\ args.n > 0 /\ args.out /\ Number % args.m = 0
      BY <1>5 DEF Wanted, Opens
    <2>2. npkt_to_dump' = args.n - 1 /\ window' = Append(<<>>, w)
      BY <1>1, <1>2, <1>3, <1>5, <2>1 DEF DumpWindow, Before
    <2>3. Len(window') = 1 /\ window'[1] = w /\ window' # <<>>
      BY <2>2
    <2>4. window'[1].place = L + 1 /\ window'[1].num = Number
      BY <2>3
    <2> HIDE DEF w
    <2>5. WindowFollows'
      BY <1>1, <1>2, <1>3, <2>1, <2>2, <2>3, <2>4 DEF WindowFollows, w
    <2> QED
      BY <1>1, <1>2, <1>3, <2>1, <2>3, <2>4, <2>5 DEF WindowInv
  <1>6. CASE ~ Opens(Number) /\ npkt_to_dump = 0
    <2>1. UNCHANGED <<npkt_to_dump, window>>
      BY <1>1, <1>6 DEF DumpWindow, Wanted, windowVars
    <2>2. CASE window = <<>>
      BY <1>6, <2>1, <2>2 DEF WindowInv, WindowFollows
    <2>3. CASE window # <<>>
      <3>1. /\ args.out /\ args.n > 0 /\ window[1].place + Len(window) - 1 <= L
            /\ Number % args.m # 0
        BY <1>1, <1>6, <2>3 DEF WindowInv, Opens, L
      <3>2. Len(window) \in Nat \ {0} /\ window[1] \in W
        BY <1>4, <2>3
      <3>3. window[1].place \in Nat \ {0}
        BY <3>2 DEF W
      <3>4. /\ got[window[1].place] % args.m = 0
            /\ \A i \in window[1].place + 1 .. L : got[i] % args.m # 0
            /\ \A j \in 1 .. Len(window) :
                 window[j] = [num |-> got[window[1].place + j - 1], place |-> window[1].place + j - 1]
            /\ Len(window) + npkt_to_dump = args.n
        BY <1>1, <2>3 DEF WindowInv, WindowFollows, L
      <3>5. \A i \in window[1].place + 1 .. L + 1 : got'[i] % args.m # 0
        <4>1. ASSUME NEW i \in window[1].place + 1 .. L + 1 PROVE got'[i] % args.m # 0
          <5>1. CASE i = L + 1
            BY <1>2, <3>1, <5>1
          <5>2. CASE i # L + 1
            <6>1. i \in window[1].place + 1 .. L /\ i \in 1 .. L
              BY <1>2, <3>3, <5>2
            <6> QED
              BY <1>2, <3>4, <6>1
          <5> QED
            BY <5>1, <5>2
        <4> QED
          BY <4>1
      <3>6. \A j \in 1 .. Len(window) :
              window[j] = [num |-> got'[window[1].place + j - 1], place |-> window[1].place + j - 1]
        <4>1. ASSUME NEW j \in 1 .. Len(window)
              PROVE  got'[window[1].place + j - 1] = got[window[1].place + j - 1]
          <5>1. window[1].place + j - 1 \in 1 .. L
            BY <1>2, <3>1, <3>2, <3>3
          <5> QED
            BY <1>2, <5>1
        <4> QED
          BY <3>4, <4>1
      <3>7. got'[window[1].place] % args.m = 0
        <4>1. window[1].place \in 1 .. L
          BY <1>2, <3>1, <3>2, <3>3
        <4> QED
          BY <1>2, <3>4, <4>1
      <3>8. WindowFollows'
        BY <1>1, <1>2, <1>6, <2>1, <3>4, <3>5, <3>6, <3>7 DEF WindowFollows
      <3>9. window[1].place + Len(window) - 1 <= Len(got')
        BY <1>2, <3>1, <3>2, <3>3
      <3> QED
        BY <1>1, <1>6, <2>1, <2>3, <3>1, <3>8, <3>9 DEF WindowInv
    <2> QED
      BY <2>2, <2>3
  <1>7. CASE ~ Opens(Number) /\ npkt_to_dump # 0
    <2>1. npkt_to_dump' = npkt_to_dump - 1 /\ window' = Append(window, w)
      BY <1>1, <1>2, <1>7 DEF DumpWindow, Wanted, Before
    <2>2. window # <<>>
      BY <1>1, <1>7 DEF WindowInv
    <2> DEFINE first == window[1].place
    <2>3. Len(window) \in Nat \ {0} /\ window[1] \in W
      BY <1>4, <2>2
    <2>4. first \in Nat \ {0}
      BY <2>3 DEF W
    <2>5. /\ args.out /\ args.n > 0 /\ Number % args.m # 0
          /\ first + Len(window) - 1 = L
          /\ got[first] % args.m = 0
          /\ \A i \in first + 1 .. L : got[i] % args.m # 0
          /\ \A j \in 1 .. Len(window) :
               window[j] = [num |-> got[first + j - 1], place |-> first + j - 1]
          /\ Len(window) + npkt_to_dump = args.n
      BY <1>1, <1>4, <1>7, <2>2 DEF WindowInv, WindowFollows, Opens, L
    <2>6. /\ Len(window') = Len(window) + 1 /\ window'[Len(window) + 1] = w /\ window' # <<>>
          /\ \A j \in 1 .. Len(window) : window'[j] = window[j]
      <3> HIDE DEF w
      <3> QED
        BY <1>4, <2>1, Appended
    <2>7. window'[1].place = first
      BY <2>3, <2>6
    <2> HIDE DEF first
    <2>8. \A i \in first + 1 .. L + 1 : got'[i] % args.m # 0
      <3>1. ASSUME NEW i \in first + 1 .. L + 1 PROVE got'[i] % args.m # 0
        <4>1. CASE i = L + 1
          BY <1>2, <2>5, <4>1
        <4>2. CASE i # L + 1
          <5>1. i \in first + 1 .. L /\ i \in 1 .. L
            BY <1>2, <2>4, <4>2
          <5> QED
            BY <1>2, <2>5, <5>1
        <4> QED
          BY <4>1, <4>2
      <3> QED
        BY <3>1
    <2>9. \A j \in 1 .. Len(window') :
            window'[j] = [num |-> got'[first + j - 1], place |-> first + j - 1]
      <3>1. ASSUME NEW j \in 1 .. Len(window')
            PROVE  window'[j] = [num |-> got'[first + j - 1], place |-> first + j - 1]
        <4>1. CASE j = Len(window) + 1
          <5>1. first + j - 1 = L + 1
            BY <2>3, <2>4, <2>5, <4>1
          <5> QED
            BY <1>2, <2>6, <4>1, <5>1
        <4>2. CASE j # Len(window) + 1
          <5>1. j \in 1 .. Len(window)
            BY <2>3, <2>6, <4>2
          <5>2. first + j - 1 \in 1 .. L
            BY <1>2, <2>3, <2>4, <2>5, <5>1
          <5> QED
            BY <1>2, <2>5, <2>6, <5>1, <5>2
        <4> QED
          BY <4>1, <4>2
      <3> QED
        BY <3>1
    <2>10. got'[first] % args.m = 0
      <3>1. first \in 1 .. L
        BY <1>2, <2>3, <2>4, <2>5
      <3> QED
        BY <1>2, <2>5, <3>1
    <2>11. /\ Len(window') + npkt_to_dump' = args.n
           /\ first + Len(window') - 1 = Len(got')
      <3>1. npkt_to_dump' = npkt_to_dump - 1 /\ npkt_to_dump \in Nat \ {0}
        BY <1>4, <1>7, <2>1
      <3>2. Len(window') = Len(window) + 1 /\ Len(got') = L + 1
        BY <1>2, <2>6
      <3>3. Len(window) + npkt_to_dump = args.n /\ first + Len(window) - 1 = L
        BY <2>5
      <3> QED
        BY <2>3, <2>4, <3>1, <3>2, <3>3
    <2>12. WindowFollows'
      BY <1>1, <1>2, <2>6, <2>7, <2>8, <2>9, <2>10, <2>11 DEF WindowFollows
    <2>13. window'[1].place + Len(window') - 1 <= Len(got')
      BY <1>2, <2>7, <2>11
    <2> QED
      BY <1>1, <2>5, <2>6, <2>12, <2>13 DEF WindowInv
  <1> QED
    BY <1>5, <1>6, <1>7

\* Other steps, and the programs that are no capture_pipeline.
LEMMA WindowStep == RecInv /\ WindowInv /\ [RecNext]_recVars => WindowInv'
  <1> SUFFICES ASSUME RecInv, WindowInv, [RecNext]_recVars PROVE WindowInv'
    OBVIOUS
  <1>1. CASE PipelineTurn
    BY <1>1, WindowTurn
  <1>2. CASE DumpTurn
    BY <1>2 DEF DumpTurn, WindowInv
  <1>4. CASE PipelinePanics
    <2>1. args.m = 0 /\ UNCHANGED <<tool, args, npkt_to_dump, window>>
      BY <1>4 DEF PipelinePanics, windowVars
    <2> QED
      BY <2>1 DEF WindowInv, WindowFollows
  <1>3. CASE Kill \/ Deliver \/ UNCHANGED recVars
    <2>1. UNCHANGED <<tool, args, got, npkt_to_dump, window>>
      BY <1>3 DEF Kill, Deliver, recVars, runVars, windowVars
    <2> QED
      BY <2>1 DEF WindowInv, WindowFollows
  <1> QED
    BY <1>1, <1>2, <1>3, <1>4 DEF RecNext, Over

\* capture_pipeline: whatever the sizes of -m and -n and however the stream goes back, the
\* file of -o holds one unbroken run of frames from the last number on that -m divides.
THEOREM WindowFollowsHolds == RecSpec => []WindowFollows
  <1>1. RecInit => WindowInv
    BY DEF RecInit, FreshStart, WindowInv, WindowFollows
  <1>2. RecInv /\ WindowInv => WindowFollows
    BY DEF WindowInv, WindowFollows
  <1> QED
    BY <1>1, <1>2, RecInitInv, RecStep, WindowStep, PTL DEF RecSpec

-----------------------------------------------------------------------------
(* capture_pipeline: the message "dropped".                                *)

\* The stream up to here: the frame at hand is the last one received, and the one in the
\* queue skips no number.
DropInv ==
  /\ (cur = None) <=> (got = <<>>)
  /\ got # <<>> => cur.cnt = got[Len(got)]
  /\ queue # <<>> /\ got # <<>> => Head(queue).cnt <= got[Len(got)] + 1
  /\ tool = "dump_bb" => dropped = None
  /\ DroppedOnlyGoingBack

\* What the message says of a number n that comes after c, when it is printed.
LEMMA ReportedBack ==
  ASSUME NEW M \in Nat \ {0}, NEW c \in 0 .. M - 1, NEW n \in 0 .. M - 1,
         n <= c + 1, n # 0, (c + 1) % M # n
  PROVE  n <= c /\ (n + M - c - 1) % M = M - (c + 1 - n)
  <1>1. n # c + 1
    <2>1. c + 1 < M => (c + 1) % M = c + 1
      OBVIOUS
    <2> QED
      BY <2>1
  <1>2. n <= c
    BY <1>1
  <1>3. n + M - c - 1 \in 0 .. M - 1
    BY <1>2
  <1> QED
    BY <1>2, <1>3

\* Both loops move the stream on.
LEMMA ReceiveDrop ==
  ASSUME RecInv, DropInv, Receive
  PROVE  /\ cur' # None /\ got' # <<>> /\ cur'.cnt = got'[Len(got')] /\ queue' = <<>>
         /\ got # <<>> => Number <= got[Len(got)] + 1
  <1>1. queue \in Seq(Frames) /\ queue # <<>> /\ cur' = Head(queue) /\ queue' = Tail(queue)
    BY DEF RecInv, Receive, Get
  <1>2. Head(queue) \in Frames
    BY <1>1
  <1>3. Number = Head(queue).cnt
    BY DEF Number
  <1>4. /\ got'[Len(got')] = Number /\ Len(got) \in Nat /\ Len(got') = Len(got) + 1
        /\ queue' \in Seq(Frames) /\ Len(queue') = 0
    BY ReceiveType
  <1>5. got' # <<>> /\ queue' = <<>>
    BY <1>4
  <1> QED
    BY <1>1, <1>2, <1>3, <1>4, <1>5, RecordersAssumption DEF DropInv

\* Every step keeps the stream without forward gaps and the message true.
LEMMA DropStep == RecInv /\ DropInv /\ [RecNext]_recVars => DropInv'
  <1> SUFFICES ASSUME RecInv, DropInv, [RecNext]_recVars PROVE DropInv'
    OBVIOUS
  <1>1. CASE PipelineTurn \/ PipelinePanics
    <2>1. Receive /\ ReportDropped /\ tool = "capture_pipeline" /\ tool' = tool
      BY <1>1 DEF PipelineTurn, PipelinePanics
    <2>2. /\ cur' # None /\ got' # <<>> /\ cur'.cnt = got'[Len(got')] /\ queue' = <<>>
          /\ got # <<>> => Number <= got[Len(got)] + 1
      BY <2>1, ReceiveDrop
    <2>3. /\ Len(got) \in Nat /\ Len(got') = Len(got) + 1 /\ Number \in 0 .. CntMod - 1
          /\ got'[Len(got')] = Number /\ \A i \in 1 .. Len(got) : got'[i] = got[i]
      BY <2>1, ReceiveType
    <2>4. got \in Seq(0 .. CntMod - 1)
      BY DEF RecInv, RecTypeOK
    <2>5. DroppedOnlyGoingBack'
      <3> SUFFICES ASSUME dropped' # None PROVE DroppedOnlyGoingBack'
        BY DEF DroppedOnlyGoingBack
      <3> DEFINE c == got[Len(got)]
      <3>1. /\ got # <<>> /\ Number # 0 /\ (c + 1) % CntMod # Number
            /\ dropped' = (Number + CntMod - c - 1) % CntMod
        BY <2>1 DEF ReportDropped
      <3>2. c \in 0 .. CntMod - 1 /\ Len(got) \in Nat \ {0}
        BY <2>4, <3>1, LastType
      <3>3. got'[Len(got') - 1] = c
        BY <2>3, <3>2
      <3>4. Number <= c + 1
        BY <2>2, <3>1
      <3> HIDE DEF c
      <3>5. Number <= c /\ dropped' = CntMod - (c + 1 - Number)
        BY <2>3, <3>1, <3>2, <3>4, ReportedBack, RecordersAssumption
      <3> QED
        BY <2>3, <3>2, <3>3, <3>5 DEF DroppedOnlyGoingBack
    <2> QED
      BY <2>1, <2>2, <2>5 DEF DropInv
  <1>2. CASE DumpTurn
    <2>1. Receive /\ tool = "dump_bb" /\ tool' = tool /\ dropped' = dropped
      BY <1>2 DEF DumpTurn
    <2>2. cur' # None /\ got' # <<>> /\ cur'.cnt = got'[Len(got')] /\ queue' = <<>>
      BY <2>1, ReceiveDrop
    <2> QED
      BY <2>1, <2>2 DEF DropInv, DroppedOnlyGoingBack
  <1>3. CASE Deliver
    <2>1. PICK f \in Frames : Put(f)
      BY <1>3 DEF Deliver
    <2>2. queue = <<>> /\ UNCHANGED <<tool, got, dropped>>
      BY <1>3 DEF Deliver, runVars
    <2>3. cur' = cur /\ queue' = Append(<<>>, f)
      BY <2>1, <2>2 DEF Put
    <2>4. Head(queue') = f
      BY <2>3
    <2>5. got # <<>> => f.cnt <= got[Len(got)] + 1
      BY <2>1, <2>2 DEF Put, DropInv, NothingYet, LastCnt
    <2> QED
      BY <2>2, <2>3, <2>4, <2>5 DEF DropInv, DroppedOnlyGoingBack
  <1>4. CASE Kill \/ UNCHANGED recVars
    <2>1. UNCHANGED <<cur, queue, tool, got, dropped>>
      BY <1>4 DEF Kill, recVars, vars, runVars
    <2> QED
      BY <2>1 DEF DropInv, DroppedOnlyGoingBack
  <1> QED
    BY <1>1, <1>2, <1>3, <1>4 DEF RecNext, Over

\* capture_pipeline: "dropped N" never tells of a lost packet; N is a difference that
\* went through zero.
THEOREM DroppedOnlyGoingBackHolds == RecSpec => []DroppedOnlyGoingBack
  <1>1. RecInit => DropInv
    BY DEF RecInit, FreshStart, Init, DropInv, DroppedOnlyGoingBack
  <1>2. DropInv => DroppedOnlyGoingBack
    BY DEF DropInv
  <1> QED
    BY <1>1, <1>2, RecInitInv, RecStep, DropStep, PTL DEF RecSpec

-----------------------------------------------------------------------------
(* capture, and which program runs.                                        *)

\* The types of capture's state: its first packet sets the number that is due.
CaptureInv ==
  /\ RecTypeOK /\ args \in CaptureArgs
  /\ next_cnt \in Option(0 .. CntMod - 1) /\ at_hand \in BOOLEAN
  /\ at_hand => got # <<>>
  /\ got # <<>> => next_cnt # None
  /\ (got # <<>> /\ ~ at_hand) => next_cnt = DueAfter
  /\ got = <<>> => window = <<>> /\ npkt_to_dump = 0 /\ next_cnt = None
  /\ at_hand => next_cnt # None

\* One of the three programs runs, and the other ones' state is left alone.
CapInv ==
  IF tool = "capture" THEN CaptureInv
  ELSE RecInv /\ next_cnt = None /\ at_hand = FALSE

\* The command line of capture.
LEMMA CaptureArgsTypes ==
  ASSUME CaptureInv PROVE args.out \in BOOLEAN /\ args.m \in Nat /\ args.n \in Nat
  BY CaptureAssumption DEF CaptureInv

\* What capture receives.
LEMMA CaptureReceives ==
  ASSUME CaptureInv, CaptureRecv
  PROVE  /\ Len(got) \in Nat /\ Len(got') = Len(got) + 1 /\ Len(got') <= MaxFrames
         /\ got' \in Seq(0 .. CntMod - 1) /\ got' # <<>>
         /\ \A i \in 1 .. Len(got) : got'[i] = got[i]
         /\ got'[Len(got')] \in 0 .. CntMod - 1
         /\ next_cnt' = IF next_cnt = None THEN got'[Len(got')] ELSE next_cnt
         /\ at_hand' = TRUE /\ ~ at_hand
         /\ UNCHANGED <<tool, args, status, dropped, window, npkt_to_dump>>
         /\ UNCHANGED <<file_no, file_pkts, npkts, files, unflushed>>
  <1>1. PICK f \in Frames : /\ got' = Append(got, f.cnt)
                            /\ next_cnt' = IF next_cnt = None THEN f.cnt ELSE next_cnt
    BY DEF CaptureRecv
  <1>2. f.cnt \in 0 .. CntMod - 1 /\ got \in Seq(0 .. CntMod - 1) /\ Len(got) < MaxFrames
    BY RecordersAssumption DEF CaptureInv, RecTypeOK, CaptureRecv
  <1>3. /\ got' \in Seq(0 .. CntMod - 1) /\ Len(got) \in Nat /\ Len(got') = Len(got) + 1
        /\ got'[Len(got) + 1] = f.cnt /\ got' # <<>>
        /\ \A i \in 1 .. Len(got) : got'[i] = got[i]
    BY <1>1, <1>2, Appended
  <1>4. Len(got') <= MaxFrames
    BY <1>2, <1>3, MaxNat
  <1> QED
    BY <1>1, <1>2, <1>3, <1>4 DEF CaptureRecv, runVars, windowVars, fileVars

\* What a turn of the inner loop of capture has at hand, and what is due afterwards.
LEMMA CaptureTurns ==
  ASSUME CaptureInv, CaptureTurn
  PROVE  /\ Len(got) \in 1 .. MaxFrames /\ PacketCnt \in 0 .. CntMod - 1
         /\ next_cnt \in 0 .. CntMod - 1 /\ next_cnt' \in 0 .. CntMod - 1
         /\ at_hand' \in BOOLEAN /\ (at_hand' <=> next_cnt < PacketCnt)
         /\ next_cnt' = IF next_cnt >= PacketCnt THEN DueAfter ELSE next_cnt + 1
         /\ DumpWindow(next_cnt, Len(got)) /\ at_hand
         /\ UNCHANGED <<tool, args, status, got, dropped>>
         /\ UNCHANGED <<file_no, file_pkts, npkts, files, unflushed>>
  <1>1. got # <<>> /\ got \in Seq(0 .. CntMod - 1) /\ Len(got) <= MaxFrames /\ next_cnt # None
    BY DEF CaptureInv, CaptureTurn, RecTypeOK
  <1>2. Len(got) \in 1 .. MaxFrames /\ PacketCnt \in 0 .. CntMod - 1
    <2>1. Len(got) \in Nat \ {0} /\ got[Len(got)] \in 0 .. CntMod - 1
      BY <1>1, LastType
    <2> QED
      BY <1>1, <2>1, MaxNat DEF PacketCnt
  <1>3. next_cnt \in 0 .. CntMod - 1
    BY <1>1 DEF CaptureInv, Option
  <1>4. DueAfter \in 0 .. CntMod - 1
    BY <1>2, RecordersAssumption DEF DueAfter
  <1>5. next_cnt < PacketCnt => next_cnt + 1 \in 0 .. CntMod - 1
    BY <1>2, <1>3, RecordersAssumption
  <1>6. /\ next_cnt' = IF next_cnt >= PacketCnt THEN DueAfter ELSE next_cnt + 1
        /\ at_hand' \in BOOLEAN /\ (at_hand' <=> next_cnt < PacketCnt)
    <2>1. /\ next_cnt' = IF next_cnt >= PacketCnt THEN DueAfter ELSE next_cnt + 1
          /\ at_hand' = (next_cnt < PacketCnt)
      BY DEF CaptureTurn
    <2>2. (next_cnt < PacketCnt) \in BOOLEAN
      OBVIOUS
    <2> QED
      BY <2>1, <2>2, Zenon
  <1>7. next_cnt' \in 0 .. CntMod - 1
    BY <1>2, <1>3, <1>4, <1>5, <1>6
  <1> QED
    BY <1>2, <1>3, <1>6, <1>7 DEF CaptureTurn, runVars, fileVars

\* The steps of capture keep the types.
LEMMA CaptureType == ASSUME CaptureInv, CaptureRecv \/ CaptureTurn PROVE CaptureInv'
  <1>1. CASE CaptureRecv
    <2>1. next_cnt' \in 0 .. CntMod - 1 /\ next_cnt' # None
      <3>1. /\ next_cnt' = IF next_cnt = None THEN got'[Len(got')] ELSE next_cnt
            /\ got'[Len(got')] \in 0 .. CntMod - 1
        BY <1>1, CaptureReceives
      <3>2. next_cnt \in (0 .. CntMod - 1) \cup {None}
        BY DEF CaptureInv, Option
      <3> QED
        BY <3>1, <3>2, RecordersAssumption
    <2>2. RecTypeOK'
      BY <1>1, CaptureReceives DEF CaptureInv, RecTypeOK
    <2> QED
      BY <1>1, <2>1, <2>2, CaptureReceives DEF CaptureInv, Option
  <1>2. CASE CaptureTurn
    <2>1. npkt_to_dump' \in Nat /\ window' \in Seq([num : 0 .. CntMod - 1, place : 1 .. MaxFrames])
      <3>1. RecTypeOK /\ args.n \in Nat
        BY CaptureArgsTypes DEF CaptureInv
      <3> QED
        BY <1>2, <3>1, CaptureTurns, WindowType
    <2>2. RecTypeOK'
      BY <1>2, <2>1, CaptureTurns DEF CaptureInv, RecTypeOK
    <2>3. next_cnt' # None /\ got # <<>> /\ got' = got
      BY <1>2, CaptureTurns, RecordersAssumption DEF CaptureInv
    <2>4. at_hand' \in BOOLEAN
      BY <1>2, CaptureTurns
    <2>5. ~ at_hand' => next_cnt' = DueAfter'
      <3>1. DueAfter' = DueAfter
        BY <2>3 DEF DueAfter, PacketCnt
      <3> QED
        BY <1>2, <3>1, CaptureTurns
    <2> QED
      BY <1>2, <2>2, <2>3, <2>4, <2>5, CaptureTurns DEF CaptureInv, Option
  <1> QED
    BY <1>1, <1>2

\* The programs start well.
LEMMA CapInitInv == CapInit => CapInv
  <1> SUFFICES ASSUME CapInit PROVE CapInv
    OBVIOUS
  <1>1. CASE RecInit
    <2>1. tool # "capture"
      BY <1>1 DEF RecInit
    <2> QED
      BY <1>1, <2>1, RecInitInv DEF CapInv, CapInit
  <1>2. CASE FreshStart /\ tool = "capture" /\ args \in CaptureArgs
    <2>1. /\ got = <<>> /\ window = <<>> /\ npkt_to_dump = 0 /\ dropped = None
          /\ status = "running" /\ file_no = 0 /\ file_pkts = 0 /\ npkts = 0 /\ unflushed = 0
          /\ files = [j \in 0 .. MaxFrames |-> <<>>] /\ next_cnt = None /\ at_hand = FALSE
      BY <1>2 DEF CapInit, FreshStart
    <2>2. RecTypeOK
      BY <1>2, <2>1, RecordersAssumption DEF RecTypeOK, Option
    <2> QED
      BY <1>2, <2>1, <2>2 DEF CapInv, CaptureInv, Option
  <1> QED
    BY <1>1, <1>2 DEF CapInit

\* A step of the recorders on the pipeline leaves the program the same.
LEMMA SameTool == RecNext => UNCHANGED <<tool, args>>
  BY DEF RecNext, Deliver, PipelineTurn, PipelinePanics, DumpTurn, Kill, Over, recVars, runVars

\* Every step of every program keeps the types.
LEMMA CapStep == CapInv /\ [CapNext]_capVars => CapInv'
  <1> SUFFICES ASSUME CapInv, [CapNext]_capVars PROVE CapInv'
    OBVIOUS
  <1>1. CASE CaptureRecv \/ CaptureTurn
    <2>1. tool = "capture" /\ tool' = "capture"
      BY <1>1 DEF CaptureRecv, CaptureTurn, runVars
    <2> QED
      BY <1>1, <2>1, CaptureType DEF CapInv
  <1>2. CASE UNCHANGED capVars
    <2>1. UNCHANGED recVars /\ UNCHANGED <<next_cnt, at_hand>>
      BY <1>2 DEF capVars
    <2>2. CASE tool = "capture"
      BY <2>1, <2>2
      DEF CapInv, CaptureInv, RecTypeOK, recVars, runVars, windowVars, fileVars, DueAfter, PacketCnt
    <2>3. CASE tool # "capture"
      <3>1. RecInv'
        BY <2>1, <2>3, RecStep DEF CapInv
      <3>2. tool' # "capture"
        BY <2>1, <2>3 DEF recVars, runVars
      <3> QED
        BY <2>1, <2>3, <3>1, <3>2 DEF CapInv
    <2> QED
      BY <2>2, <2>3
  <1>3. CASE tool # "capture" /\ RecNext /\ UNCHANGED <<next_cnt, at_hand>>
    <2>1. RecInv'
      BY <1>3, RecStep DEF CapInv
    <2> QED
      BY <1>3, <2>1, SameTool DEF CapInv
  <1>4. CASE CapturePanics
    <2>1. /\ tool = "capture" /\ status' = "panicked"
          /\ UNCHANGED <<tool, args, got, dropped, npkt_to_dump, window, file_no, file_pkts, npkts,
                         files, unflushed, next_cnt, at_hand>>
      BY <1>4 DEF CapturePanics, windowVars, fileVars
    <2> QED
      BY <2>1 DEF CapInv, CaptureInv, RecTypeOK, DueAfter, PacketCnt
  <1> QED
    BY <1>1, <1>2, <1>3, <1>4 DEF CapNext, CaptureOver

\* The types of all three recorders.
THEOREM CapTypeCorrect == CapSpec => []CapTypeOK
  <1>1. CapInv => CapTypeOK
    BY DEF CapInv, CaptureInv, RecInv, CapTypeOK, Option
  <1> QED
    BY <1>1, CapInitInv, CapStep, PTL DEF CapSpec

\* Another program than capture runs.
OnPipeline == tool # "capture"

\* On the pipeline, all that is proved of RecSpec holds.
THEOREM RecordersAlone == CapSpec /\ OnPipeline => RecSpec
  <1>1. CapInit /\ OnPipeline => RecInit
    BY DEF CapInit, OnPipeline
  <1>2. OnPipeline /\ [CapNext]_capVars => OnPipeline' /\ [RecNext]_recVars
    <2>1. UNCHANGED capVars => UNCHANGED recVars /\ UNCHANGED tool
      BY DEF capVars, recVars, runVars
    <2> QED
      BY <2>1, SameTool DEF OnPipeline, CapNext, CaptureRecv, CaptureTurn, CapturePanics, CaptureOver
  <1> QED
    BY <1>1, <1>2, PTL DEF CapSpec, RecSpec

-----------------------------------------------------------------------------
(* capture: the blocks stand for consecutive numbers.                      *)

Blocks == [num : 0 .. CntMod - 1, place : 1 .. MaxFrames]
Counts == Seq(0 .. CntMod - 1)

\* Block b stands for a number for which the packet it holds is the first that is not
\* before it.
Stands(g, b) ==
  /\ b.place <= Len(g)
  /\ b.num <= g[b.place]
  /\ b.place > 1 => g[b.place - 1] < b.num

Aligned(g, w) ==
  \A j \in 1 .. Len(w) : w[j].num = w[1].num + j - 1 /\ Stands(g, w[j])

\* The number that is due goes on where the open window ends.
AlignedInv ==
  tool = "capture" /\ OnlyLosses =>
    /\ Aligned(got, window)
    /\ at_hand => /\ next_cnt <= PacketCnt
                  /\ Len(got) > 1 => got[Len(got) - 1] < next_cnt
    /\ npkt_to_dump > 0 =>
         /\ window # <<>>
         /\ window[1].num + Len(window) = IF at_hand THEN next_cnt ELSE PacketCnt + 1

\* Packets that come later do not move the blocks.
LEMMA AlignedMore ==
  ASSUME NEW g \in Counts, NEW h \in Counts, NEW w \in Seq(Blocks), Aligned(g, w),
         Len(h) >= Len(g), \A i \in 1 .. Len(g) : h[i] = g[i]
  PROVE  Aligned(h, w)
  <1>1. ASSUME NEW j \in 1 .. Len(w) PROVE w[j].num = w[1].num + j - 1 /\ Stands(h, w[j])
    <2>1. w[j].place \in 1 .. MaxFrames /\ Stands(g, w[j]) /\ w[j].num = w[1].num + j - 1
      <3>1. w[j] \in Blocks
        OBVIOUS
      <3>2. w[j].place \in 1 .. MaxFrames
        BY <3>1 DEF Blocks
      <3> QED
        BY <3>2 DEF Aligned
    <2>2. Len(g) \in Nat /\ Len(h) \in Nat
      BY DEF Counts
    <2>3. w[j].place \in 1 .. Len(g)
      BY <2>1, <2>2, MaxNat DEF Stands
    <2>4. w[j].place > 1 => w[j].place - 1 \in 1 .. Len(g)
      BY <2>2, <2>3
    <2> QED
      BY <2>1, <2>2, <2>3, <2>4 DEF Stands
  <1> QED
    BY <1>1 DEF Aligned

\* The block that is written next.
LEMMA AlignedAppend ==
  ASSUME NEW g \in Counts, NEW w \in Seq(Blocks), NEW b \in Blocks, Aligned(g, w),
         Stands(g, b), w # <<>> => b.num = w[1].num + Len(w)
  PROVE  /\ Aligned(g, Append(w, b)) /\ Append(w, b) # <<>>
         /\ Append(w, b)[1].num + Len(Append(w, b)) = b.num + 1
  <1>1. /\ Len(w) \in Nat /\ Len(Append(w, b)) = Len(w) + 1 /\ Append(w, b)[Len(w) + 1] = b
        /\ \A i \in 1 .. Len(w) : Append(w, b)[i] = w[i]
        /\ Append(w, b) # <<>>
    BY Appended
  <1>2. b.num \in Nat /\ (w # <<>> => w[1].num \in Nat)
    <2>1. w # <<>> => w[1] \in Blocks
      OBVIOUS
    <2>2. CntMod \in Nat \ {0}
      BY RecordersAssumption
    <2> QED
      BY <2>1, <2>2 DEF Blocks
  <1>3. Append(w, b)[1].num = b.num - Len(w)
    <2>1. CASE w = <<>>
      BY <1>1, <1>2, <2>1
    <2>2. CASE w # <<>>
      <3>1. 1 \in 1 .. Len(w)
        BY <2>2
      <3> QED
        BY <1>1, <1>2, <2>2, <3>1
    <2> QED
      BY <2>1, <2>2
  <1>4. ASSUME NEW j \in 1 .. Len(w) + 1
        PROVE  /\ Append(w, b)[j].num = Append(w, b)[1].num + j - 1
               /\ Stands(g, Append(w, b)[j])
    <2>1. CASE j = Len(w) + 1
      BY <1>1, <1>2, <1>3, <2>1
    <2>2. CASE j # Len(w) + 1
      <3>1. j \in 1 .. Len(w) /\ 1 \in 1 .. Len(w) /\ w # <<>>
        BY <1>1, <2>2
      <3>2. Append(w, b)[j] = w[j] /\ Append(w, b)[1] = w[1]
        BY <1>1, <3>1
      <3> QED
        BY <3>1, <3>2 DEF Aligned
    <2> QED
      BY <2>1, <2>2
  <1>5. Aligned(g, Append(w, b))
    BY <1>1, <1>4 DEF Aligned
  <1>6. Append(w, b)[1].num + Len(Append(w, b)) = b.num + 1
    BY <1>1, <1>2, <1>3
  <1> QED
    BY <1>1, <1>5, <1>6

\* A packet is received.
LEMMA AlignedRecv == ASSUME CaptureInv, AlignedInv, CaptureRecv PROVE AlignedInv'
  <1> SUFFICES ASSUME tool = "capture", OnlyLosses' PROVE AlignedInv'
    BY CaptureReceives DEF AlignedInv
  <1> DEFINE L == Len(got)
  <1>1. /\ L \in Nat /\ Len(got') = L + 1 /\ got' \in Counts /\ got \in Counts
        /\ \A i \in 1 .. L : got'[i] = got[i]
        /\ PacketCnt' = got'[L + 1] /\ PacketCnt' \in 0 .. CntMod - 1
        /\ next_cnt' = IF next_cnt = None THEN PacketCnt' ELSE next_cnt
        /\ at_hand' = TRUE /\ ~ at_hand
        /\ UNCHANGED <<tool, window, npkt_to_dump>>
    BY CaptureReceives DEF PacketCnt, Counts, CaptureInv, RecTypeOK
  <1>2. window \in Seq(Blocks) /\ npkt_to_dump \in Nat
    BY DEF CaptureInv, RecTypeOK, Blocks
  <1>3. \A i \in 1 .. L : got'[i] < got'[i + 1]
    BY <1>1 DEF OnlyLosses
  <1>4. OnlyLosses
    <2>1. ASSUME NEW i \in 1 .. L - 1 PROVE got[i] < got[i + 1]
      <3>1. i \in 1 .. L /\ i + 1 \in 1 .. L
        BY <1>1
      <3> QED
        BY <1>1, <1>3, <3>1
    <2> QED
      BY <2>1 DEF OnlyLosses
  <1>5. Aligned(got', window')
    <2>1. Aligned(got, window) /\ Len(got') >= Len(got) /\ window' = window
      BY <1>1, <1>4 DEF AlignedInv
    <2> QED
      BY <1>1, <1>2, <2>1, AlignedMore
  <1>6. CASE got = <<>>
    <2>1. next_cnt' = PacketCnt' /\ Len(got') = 1 /\ npkt_to_dump' = 0
      BY <1>1, <1>6 DEF CaptureInv
    <2>2. next_cnt' <= PacketCnt'
      <3>1. PacketCnt' \in Nat
        BY <1>1, RecordersAssumption
      <3> QED
        BY <2>1, <3>1
    <2>3. ~ (Len(got') > 1) /\ ~ (npkt_to_dump' > 0)
      BY <2>1
    <2> QED
      BY <1>5, <2>2, <2>3 DEF AlignedInv
  <1>7. CASE got # <<>>
    <2>1. L \in Nat \ {0} /\ PacketCnt \in 0 .. CntMod - 1
      BY <1>1, <1>7, LastType DEF Counts, PacketCnt
    <2>2. PacketCnt < PacketCnt' /\ got'[L] = PacketCnt
      <3>1. L \in 1 .. L
        BY <2>1
      <3> QED
        BY <1>1, <1>3, <3>1 DEF PacketCnt
    <2>3. next_cnt = PacketCnt + 1
      <3>1. next_cnt = (PacketCnt + 1) % CntMod
        BY <1>1, <1>7 DEF CaptureInv, DueAfter
      <3>2. PacketCnt + 1 \in 0 .. CntMod - 1
        BY <1>1, <2>1, <2>2, RecordersAssumption
      <3>3. (PacketCnt + 1) % CntMod = PacketCnt + 1
        BY <3>2, RecordersAssumption
      <3> QED
        BY <3>1, <3>3
    <2>4. next_cnt' = PacketCnt + 1
      <3>1. next_cnt # None
        BY <1>7 DEF CaptureInv
      <3> QED
        BY <1>1, <2>3, <3>1
    <2>5. next_cnt' <= PacketCnt' /\ got'[L] < next_cnt'
      BY <1>1, <2>1, <2>2, <2>4
    <2>6. npkt_to_dump' > 0 =>
            /\ window' # <<>>
            /\ window'[1].num + Len(window') = next_cnt'
      BY <1>1, <1>4, <2>4 DEF AlignedInv
    <2>7. Len(got') - 1 = L
      BY <1>1
    <2> QED
      BY <1>1, <1>5, <2>5, <2>6, <2>7 DEF AlignedInv
  <1> QED
    BY <1>6, <1>7

\* A block is written, or not.
LEMMA AlignedTurn == ASSUME CaptureInv, AlignedInv, CaptureTurn PROVE AlignedInv'
  <1> SUFFICES ASSUME tool = "capture", OnlyLosses' PROVE AlignedInv'
    BY CaptureTurns DEF AlignedInv
  <1> DEFINE b == [num |-> next_cnt, place |-> Len(got)]
  <1>1. /\ Len(got) \in 1 .. MaxFrames /\ PacketCnt \in 0 .. CntMod - 1
        /\ next_cnt \in 0 .. CntMod - 1
        /\ at_hand' <=> next_cnt < PacketCnt
        /\ next_cnt' = IF next_cnt >= PacketCnt THEN DueAfter ELSE next_cnt + 1
        /\ DumpWindow(next_cnt, Len(got)) /\ at_hand
        /\ UNCHANGED <<tool, got>>
    BY CaptureTurns
  <1>2. OnlyLosses
    BY <1>1 DEF OnlyLosses
  <1>3. window \in Seq(Blocks) /\ npkt_to_dump \in Nat /\ got \in Counts
    BY DEF CaptureInv, RecTypeOK, Blocks, Counts
  <1>4. /\ Aligned(got, window) /\ next_cnt <= PacketCnt
        /\ Len(got) > 1 => got[Len(got) - 1] < next_cnt
        /\ npkt_to_dump > 0 => window # <<>> /\ window[1].num + Len(window) = next_cnt
    BY <1>1, <1>2 DEF AlignedInv
  <1>5. b \in Blocks /\ b.num = next_cnt /\ b.place = Len(got)
    BY <1>1 DEF Blocks
  <1>6. Stands(got, b)
    BY <1>1, <1>4, <1>5 DEF Stands, PacketCnt
  <1> HIDE DEF b
  <1>7. next_cnt + 1 = IF at_hand' THEN next_cnt' ELSE PacketCnt' + 1
    <2>1. PacketCnt' = PacketCnt
      BY <1>1 DEF PacketCnt
    <2>2. CASE next_cnt < PacketCnt
      <3>1. at_hand' /\ next_cnt' = next_cnt + 1
        BY <1>1, <2>2
      <3> QED
        BY <3>1
    <2>3. CASE ~ (next_cnt < PacketCnt)
      <3>1. ~ at_hand' /\ next_cnt = PacketCnt
        BY <1>1, <1>4, <2>3
      <3> QED
        BY <2>1, <3>1
    <2> QED
      BY <2>2, <2>3
  <1>8. at_hand' => /\ next_cnt' <= PacketCnt'
                    /\ Len(got') > 1 => got'[Len(got') - 1] < next_cnt'
    <2> SUFFICES ASSUME at_hand' PROVE /\ next_cnt' <= PacketCnt'
                                       /\ Len(got') > 1 => got'[Len(got') - 1] < next_cnt'
      OBVIOUS
    <2>1. PacketCnt' = PacketCnt /\ next_cnt < PacketCnt /\ next_cnt' = next_cnt + 1 /\ got' = got
      BY <1>1 DEF PacketCnt
    <2>2. Len(got) > 1 => got[Len(got) - 1] \in Nat
      <3>1. \A i \in 1 .. Len(got) : got[i] \in 0 .. CntMod - 1
        BY <1>3, ElementType DEF Counts
      <3>2. Len(got) > 1 => Len(got) - 1 \in 1 .. Len(got)
        BY <1>1
      <3> QED
        BY <3>1, <3>2
    <2> QED
      BY <1>1, <1>4, <2>1, <2>2
  <1>9. Aligned(got', window') /\ (npkt_to_dump' > 0 =>
           window' # <<>> /\ window'[1].num + Len(window') = next_cnt + 1)
    <2>1. CASE Wanted(next_cnt) = 0
      <3>1. UNCHANGED <<npkt_to_dump, window>>
        BY <1>1, <2>1 DEF DumpWindow, windowVars
      <3>2. npkt_to_dump = 0
        BY <2>1, CaptureArgsTypes DEF Wanted, Opens
      <3> QED
        BY <1>1, <1>4, <3>1, <3>2
    <2>2. CASE Wanted(next_cnt) # 0
      <3>1. window' = Append(Before(next_cnt), b)
        BY <1>1, <2>2 DEF DumpWindow, b
      <3>2. Before(next_cnt) \in Seq(Blocks)
        BY <1>3 DEF Before
      <3>3. Aligned(got, Before(next_cnt))
        BY <1>4 DEF Before, Aligned
      <3>4. Before(next_cnt) # <<>> => b.num = Before(next_cnt)[1].num + Len(Before(next_cnt))
        <4>1. CASE Opens(next_cnt)
          BY <4>1 DEF Before
        <4>2. CASE ~ Opens(next_cnt)
          <5>1. npkt_to_dump > 0 /\ Before(next_cnt) = window
            BY <1>3, <2>2, <4>2 DEF Wanted, Before
          <5> QED
            BY <1>4, <1>5, <5>1
        <4> QED
          BY <4>1, <4>2
      <3>5. /\ Aligned(got, window') /\ window' # <<>>
            /\ window'[1].num + Len(window') = b.num + 1
        BY <1>3, <1>5, <1>6, <3>1, <3>2, <3>3, <3>4, AlignedAppend
      <3> QED
        BY <1>1, <1>5, <3>5
    <2> QED
      BY <2>1, <2>2
  <1> QED
    BY <1>1, <1>7, <1>8, <1>9 DEF AlignedInv

\* Every step of every program.
LEMMA AlignedStep == CapInv /\ AlignedInv /\ [CapNext]_capVars => AlignedInv'
  <1> SUFFICES ASSUME CapInv, AlignedInv, [CapNext]_capVars PROVE AlignedInv'
    OBVIOUS
  <1>1. CASE CaptureRecv \/ CaptureTurn
    <2>1. CaptureInv
      BY <1>1 DEF CapInv, CaptureRecv, CaptureTurn
    <2> QED
      BY <1>1, <2>1, AlignedRecv, AlignedTurn
  <1>2. CASE UNCHANGED capVars
    BY <1>2
    DEF AlignedInv, OnlyLosses, Aligned, Stands, PacketCnt, capVars, recVars, runVars, windowVars
  <1>3. CASE tool # "capture" /\ RecNext
    BY <1>3, SameTool DEF AlignedInv
  <1>4. CASE CapturePanics
    <2>1. UNCHANGED <<tool, args, got, npkt_to_dump, window, next_cnt, at_hand>>
      BY <1>4 DEF CapturePanics, windowVars
    <2> QED
      BY <2>1 DEF AlignedInv, OnlyLosses, Aligned, Stands, PacketCnt
  <1> QED
    BY <1>1, <1>2, <1>3, <1>4 DEF CapNext, CaptureOver

\* capture: while packets are only lost, block j of its file stands for the j-th number
\* after the first, whatever the window and however long the gaps.
THEOREM CaptureAlignedHolds == CapSpec => []CaptureAligned
  <1>1. CapInit => AlignedInv
    <2> SUFFICES ASSUME CapInit PROVE AlignedInv
      OBVIOUS
    <2>1. tool = "capture" => got = <<>> /\ window = <<>> /\ npkt_to_dump = 0 /\ at_hand = FALSE
      BY DEF CapInit, RecInit, FreshStart
    <2> QED
      BY <2>1 DEF AlignedInv, Aligned
  <1>2. AlignedInv => CaptureAligned
    BY DEF AlignedInv, CaptureAligned, Aligned, Stands
  <1> QED
    BY <1>1, <1>2, CapInitInv, CapStep, AlignedStep, PTL DEF CapSpec

-----------------------------------------------------------------------------
(* How long capture is busy with a packet.                                 *)

\* Blocks that capture still writes for the packet at hand.
BlocksLeft ==
  IF ~ at_hand THEN 0 ELSE IF next_cnt <= PacketCnt THEN PacketCnt - next_cnt + 1 ELSE 1

\* Once the gap before a packet and the packet are written - a packet that comes too late
\* once - capture receives again: as many turns as numbers are missing, and one.  So how
\* long it leaves its socket alone is bounded by nothing but the width of the number.
THEOREM CaptureCountsDown ==
  CapSpec => /\ [](tool = "capture" => BlocksLeft \in 0 .. CntMod)
             /\ [][/\ CaptureTurn => BlocksLeft' = BlocksLeft - 1
                   /\ BlocksLeft' = BlocksLeft \/ CaptureTurn \/ CaptureRecv]_capVars
  <1> DEFINE Bounded == tool = "capture" => BlocksLeft \in 0 .. CntMod
             Nearer == /\ CaptureTurn => BlocksLeft' = BlocksLeft - 1
                       /\ BlocksLeft' = BlocksLeft \/ CaptureTurn \/ CaptureRecv
  <1>1. CapInv => Bounded
    <2> SUFFICES ASSUME CaptureInv PROVE BlocksLeft \in 0 .. CntMod
      BY DEF CapInv
    <2>1. CntMod \in Nat \ {0}
      BY RecordersAssumption
    <2>2. CASE ~ at_hand
      BY <2>1, <2>2 DEF BlocksLeft
    <2>3. CASE at_hand
      <3>1. got \in Seq(0 .. CntMod - 1) /\ got # <<>> /\ next_cnt \in 0 .. CntMod - 1
        BY <2>3 DEF CaptureInv, RecTypeOK, Option
      <3>2. PacketCnt \in 0 .. CntMod - 1
        BY <3>1, LastType DEF PacketCnt
      <3> QED
        BY <2>1, <2>3, <3>1, <3>2 DEF BlocksLeft
    <2> QED
      BY <2>2, <2>3
  <1>2. CapInv /\ [CapNext]_capVars => [Nearer]_capVars
    <2> SUFFICES ASSUME CapInv, [CapNext]_capVars PROVE Nearer
      OBVIOUS
    <2>1. ASSUME CaptureTurn PROVE BlocksLeft' = BlocksLeft - 1
      <3>1. CaptureInv
        BY <2>1 DEF CapInv, CaptureTurn
      <3>2. /\ at_hand /\ at_hand' \in BOOLEAN /\ (at_hand' <=> next_cnt < PacketCnt)
            /\ next_cnt \in 0 .. CntMod - 1 /\ PacketCnt \in 0 .. CntMod - 1
            /\ next_cnt' = IF next_cnt >= PacketCnt THEN DueAfter ELSE next_cnt + 1
            /\ got' = got
        BY <2>1, <3>1, CaptureTurns
      <3>3. PacketCnt' = PacketCnt
        BY <3>2 DEF PacketCnt
      <3>4. CntMod \in Nat
        BY RecordersAssumption
      <3>5. CASE next_cnt < PacketCnt
        BY <3>2, <3>3, <3>4, <3>5 DEF BlocksLeft
      <3>6. CASE ~ (next_cnt < PacketCnt)
        BY <3>2, <3>3, <3>4, <3>6 DEF BlocksLeft
      <3> QED
        BY <3>5, <3>6
    <2>2. ASSUME ~ CaptureTurn, ~ CaptureRecv PROVE BlocksLeft' = BlocksLeft
      <3>1. CASE UNCHANGED <<got, next_cnt, at_hand>>
        BY <3>1 DEF BlocksLeft, PacketCnt
      <3>2. CASE tool # "capture" /\ UNCHANGED <<next_cnt, at_hand>>
        <4>1. at_hand = FALSE
          BY <3>2 DEF CapInv
        <4> QED
          BY <3>2, <4>1 DEF BlocksLeft
      <3> QED
        BY <2>2, <3>1, <3>2 DEF CapNext, CapturePanics, CaptureOver, capVars, recVars
    <2> QED
      BY <2>1, <2>2
  <1> QED
    BY <1>1, <1>2, CapInitInv, CapStep, PTL DEF CapSpec

=============================================================================
