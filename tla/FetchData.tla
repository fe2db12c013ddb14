------------------------------- MODULE FetchData -------------------------------
(***************************************************************************)
(* `fetch_data_16` and `fetch_data_cf32` of src/src/c_interface.rs: they   *)
(* cut the stream of payload frames into the piece sizes the caller asks   *)
(* for, and keep the unfinished frame and a cursor in the CSdr from one    *)
(* call to the next.  The frames come from the channel that RecvPkt fills. *)
(*                                                                         *)
(* A point is known by where its bytes lie, and by the function that read  *)
(* it.                                                                     *)
(***************************************************************************)
EXTENDS Naturals, Sequences

CONSTANTS
  FrameLen,    \* n_pt_per_frame::<i16>(): points in a frame (2048)
  QueueCap,    \* capacity of the payload channel
  MaxFrame,    \* bound: frames produced
  MaxNpt,      \* bound: points asked for in one call
  Kinds,       \* functions called: "ci16" for fetch_data_16, "cf32" for fetch_data_cf32
  None

ASSUME FetchDataAssumption ==
  /\ FrameLen \in Nat \ {0}
  /\ QueueCap \in Nat \ {0}
  /\ MaxFrame \in Nat
  /\ MaxNpt \in Nat
  /\ Kinds \subseteq {"ci16", "cf32"}
  /\ None \notin Nat

VARIABLES
  produced, taken, senderAlive,   \* rx_payload: frames sent, frames received, recv_pkt still there
  buffer, cursor,                 \* CSdr::buffer, CSdr::cursor
  pc, kind, npt, written,         \* the running call
  out                             \* history: every point delivered since the CSdr exists

chanVars == <<produced, taken, senderAlive>>
objVars  == <<buffer, cursor>>
callVars == <<pc, kind, npt, written>>
vars     == <<chanVars, objVars, callVars, out>>

PointBytes == 4     \* size_of::<Complex<i16>>()
FrameBytes == FrameLen * PointBytes

Init ==
  /\ produced = 0 /\ taken = 0 /\ senderAlive = TRUE
  /\ buffer = None /\ cursor = 0
  /\ pc = "idle" /\ kind = None /\ npt = 0 /\ written = 0
  /\ out = <<>>

-----------------------------------------------------------------------------
(* The caller.                                                             *)

HasFrame == taken < produced

\* A call begins; without a frame at hand it first waits for one.
Begin ==
  /\ pc = "idle"
  /\ kind' \in Kinds
  /\ npt' \in 0 .. MaxNpt
  /\ written' = 0
  /\ pc' = IF buffer = None THEN "first" ELSE "copy"
  /\ UNCHANGED <<chanVars, objVars, out>>

\* rx_payload.recv().unwrap()
Recv_KeepsCursor ==
  /\ HasFrame
  /\ buffer' = taken
  /\ UNCHANGED cursor
  /\ taken' = taken + 1

Recv ==
  /\ HasFrame
  /\ buffer' = taken
  /\ cursor' = 0
  /\ taken' = taken + 1

Available_Whole == FrameLen
Available == FrameLen - cursor

FirstFrame ==
  /\ pc = "first"
  /\ Recv
  /\ pc' = "copy"
  /\ UNCHANGED <<produced, senderAlive, kind, npt, written, out>>

NextFrame ==
  /\ pc = "copy"
  /\ written < npt
  /\ Available = 0
  /\ Recv
  /\ UNCHANGED <<produced, senderAlive, callVars, out>>

\* Nothing will come any more: unwrap() panics.
RecvFails ==
  /\ pc = "first" \/ (pc = "copy" /\ written < npt /\ Available = 0)
  /\ ~ HasFrame /\ ~ senderAlive
  /\ pc' = "panicked"
  /\ UNCHANGED <<chanVars, objVars, kind, npt, written, out>>

Offset_Bytes(i) == cursor + i * PointBytes

\* Where the point i places after the cursor is read: fetch_data_cf32 adds the
\* cursor to a pointer to bytes.
Offset(i) == IF kind = "ci16" THEN (cursor + i) * PointBytes
             ELSE cursor + i * PointBytes

CopyLen_WholeRequest == IF npt < Available THEN npt ELSE Available
CopyLen_Pairs == 2 * ((IF npt - written < Available THEN npt - written ELSE Available) \div 2)
CopyLen == IF npt - written < Available THEN npt - written ELSE Available

\* One turn of the copying loop.
CopyPoints ==
  /\ pc = "copy"
  /\ written < npt
  /\ Available # 0
  /\ out' = out \o [i \in 1 .. CopyLen |-> [frame |-> buffer, byte |-> Offset(i - 1), by |-> kind]]
  /\ cursor' = cursor + CopyLen
  /\ written' = written + CopyLen
  /\ UNCHANGED <<chanVars, buffer, pc, kind, npt>>

Return ==
  /\ pc = "copy"
  /\ written >= npt
  /\ pc' = "idle"
  /\ UNCHANGED <<chanVars, objVars, kind, npt, written, out>>

Fetch == FirstFrame \/ NextFrame \/ RecvFails \/ CopyPoints \/ Return

-----------------------------------------------------------------------------
(* The thread that fills the channel (RecvPkt).                            *)

Send ==
  /\ senderAlive
  /\ produced < MaxFrame
  /\ produced - taken < QueueCap
  /\ produced' = produced + 1
  /\ UNCHANGED <<taken, senderAlive, objVars, callVars, out>>

\* recv_pkt ends and drops tx_payload.  While there is a handle, only a panic of the
\* thread can do that (UnwrapHolds), as an overflow in a build with overflow checks.
Hangup ==
  /\ senderAlive
  /\ senderAlive' = FALSE
  /\ UNCHANGED <<produced, taken, objVars, callVars, out>>

Stopped == pc = "panicked" /\ UNCHANGED vars

Next == Begin \/ Fetch \/ Send \/ Hangup \/ Stopped

Spec == Init /\ [][Next]_vars

\* The caller runs.  Nothing is assumed of the thread: while the device is stopped it
\* neither sends a frame nor ends.
FairSpec == Spec /\ WF_vars(Fetch)

-----------------------------------------------------------------------------
(* Properties.                                                             *)

TypeOK ==
  /\ produced \in 0 .. MaxFrame /\ taken \in 0 .. produced /\ senderAlive \in BOOLEAN
  /\ buffer \in 0 .. MaxFrame \cup {None} /\ cursor \in 0 .. FrameLen
  /\ pc \in {"idle", "first", "copy", "panicked"} /\ kind \in Kinds \cup {None}
  /\ npt \in 0 .. MaxNpt /\ written \in 0 .. npt
  /\ out \in Seq([frame : Nat, byte : Nat, by : Kinds])

\* Pieces of whatever sizes, put one after the other, are the stream: no point is
\* skipped or delivered twice at the end of a call or of a frame.
NothingSkipped ==
  Len(out) = IF buffer = None THEN 0 ELSE buffer * FrameLen + cursor

\* The point that is number k of the stream, where it is stored.
Stored(k) == [frame |-> (k - 1) \div FrameLen, byte |-> ((k - 1) % FrameLen) * PointBytes]

IsStored(k) == out[k].frame = Stored(k).frame /\ out[k].byte = Stored(k).byte

\* fetch_data_16 delivers the points in the order and from the places in which they
\* are stored, whichever calls of either function came before it.
Ci16AsStored == \A k \in 1 .. Len(out) : out[k].by = "ci16" => IsStored(k)

\* The same of fetch_data_cf32; stated by its commented-out copy,
\* data[obj.cursor..obj.cursor + copy_len].
Cf32AsStored == \A k \in 1 .. Len(out) : out[k].by = "cf32" => IsStored(k)

\* Where fetch_data_cf32 goes wrong: every point of a turn that begins inside a frame, and
\* no other.  So a caller that always asks for whole frames gets what is stored.
WrongInsideFrame ==
  [][\A k \in Len(out) + 1 .. Len(out') :
       IsStored(k)' <=> (kind = "ci16" \/ cursor = 0)]_vars

\* No point is read from beyond the frame, and every point comes from the frame
\* that is its turn - in both functions, though both read through raw pointers.
ReadsInsideFrame ==
  \A k \in 1 .. Len(out) :
    /\ out[k].frame = Stored(k).frame
    /\ out[k].byte + PointBytes <= FrameBytes

\* The points that can be had without waiting: the rest of the frame at hand, and the
\* frames in the channel.
AtHand == (produced - taken) * FrameLen + IF buffer = None THEN 0 ELSE Available

\* The points asked for are there: what is left of the call needs no other frame.  (A
\* call without a frame at hand takes one first, even for no points.)
Suffices ==
  \/ pc = "copy" /\ npt - written <= AtHand
  \/ pc = "first" /\ HasFrame /\ npt <= AtHand

\* A fetch waits for the device, or panics on a closed channel, only if it has to: once
\* the points asked for are there it returns, though no other frame may ever come and
\* recv_pkt may be gone.
FetchEnds == Suffices ~> (pc = "idle")

=============================================================================
