-------------------------------- MODULE Capture --------------------------------
(***************************************************************************)
(* The recorder src/src/bin/capture.rs.  It reads the payload socket       *)
(* itself, so nothing fills the gaps for it: for a number that is missing  *)
(* it writes the samples of the packet at hand.  Its dump file is opened   *)
(* and filled like that of capture_pipeline (Recorders), by the number     *)
(* that is due instead of the number of the packet.                        *)
(*                                                                         *)
(* The programs of Recorders and this one share a specification, in which  *)
(* one of them runs.                                                       *)
(***************************************************************************)
EXTENDS Recorders

CONSTANTS CaptureArgs    \* command lines of capture: [out, m, n]

ASSUME CaptureAssumption ==
  \A a \in CaptureArgs : a.out \in BOOLEAN /\ a.m \in Nat /\ a.n \in Nat

VARIABLES
  next_cnt,   \* the number that is due
  at_hand     \* `payload` has a packet that the inner loop is not done with

capVars == <<recVars, next_cnt, at_hand>>

CapInit ==
  /\ \/ RecInit
     \/ FreshStart /\ tool = "capture" /\ args \in CaptureArgs
  /\ next_cnt = None /\ at_hand = FALSE

\* recv_from: any packet may come.  The first one sets the number that is due.
CaptureRecv ==
  /\ tool = "capture" /\ status = "running"
  /\ ~ at_hand /\ Len(got) < MaxFrames
  /\ at_hand' = TRUE
  /\ \E f \in Frames :
       /\ got' = Append(got, f.cnt)
       /\ next_cnt' = IF next_cnt = None THEN f.cnt ELSE next_cnt
  /\ UNCHANGED <<vars, runVars, dropped, windowVars, fileVars>>

PacketCnt == got[Len(got)]

\* What is due after the packet at hand was.
DueAfter_Same == PacketCnt
DueAfter_NoWrap == PacketCnt + 1
DueAfter == (PacketCnt + 1) % CntMod

\* The block for number next_cnt is written: the packet, or a copy of it instead of
\* one that is missing.
CaptureTurn ==
  /\ tool = "capture" /\ args.m > 0
  /\ at_hand
  /\ DumpWindow(next_cnt, Len(got))
  /\ at_hand' = (next_cnt < PacketCnt)
  /\ next_cnt' = IF next_cnt >= PacketCnt THEN DueAfter ELSE next_cnt + 1
  /\ UNCHANGED <<vars, runVars, got, dropped, fileVars>>

\* -m 0 here, too.
CapturePanics ==
  /\ tool = "capture" /\ args.m = 0
  /\ at_hand /\ status = "running"
  /\ status' = "panicked"
  /\ UNCHANGED <<vars, tool, args, got, dropped, windowVars, fileVars, next_cnt, at_hand>>

CaptureOver ==
  /\ tool = "capture"
  /\ status = "panicked" \/ (~ at_hand /\ Len(got) = MaxFrames)
  /\ UNCHANGED capVars

CapNext ==
  \/ CaptureRecv \/ CaptureTurn \/ CapturePanics \/ CaptureOver
  \/ tool # "capture" /\ RecNext /\ UNCHANGED <<next_cnt, at_hand>>

CapSpec == CapInit /\ [][CapNext]_capVars

-----------------------------------------------------------------------------
(* Properties.                                                             *)

CapTypeOK ==
  /\ RecTypeOK
  /\ next_cnt \in Option(0 .. CntMod - 1) /\ at_hand \in BOOLEAN
  /\ at_hand => next_cnt # None

OnlyLosses == \A i \in 1 .. Len(got) - 1 : got[i] < got[i + 1]

\* While packets are only lost, the dump file of capture is aligned: block j stands
\* for the j-th number after the first, and holds the packet of this number, or of
\* the next number that arrived.
CaptureAligned ==
  tool = "capture" /\ OnlyLosses =>
    \A j \in 1 .. Len(window) :
      LET n == window[1].num + j - 1
          i == window[j].place
      IN  /\ window[j].num = n
          /\ n <= got[i]
          /\ i > 1 => got[i - 1] < n

=============================================================================
