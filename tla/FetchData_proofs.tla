--------------------------- MODULE FetchData_proofs ---------------------------
(***************************************************************************)
(* Proofs about the fetch functions (FetchData.tla), for frames of any     *)
(* length and pieces of any sizes: nothing is skipped or repeated, nothing *)
(* is read from beyond a frame, and fetch_data_16 reads the right places.  *)
(***************************************************************************)
EXTENDS FetchData, TLAPS

\* Products grow with their factors.
LEMMA TimesMonotone ==
  ASSUME NEW F \in Nat, NEW x \in Nat, NEW y \in Nat, x <= y PROVE F * x <= F * y
  <1>1. PICK d \in Nat : y = x + d
    <2>1. y - x \in Nat /\ y = x + (y - x)
      OBVIOUS
    <2> QED
      BY <2>1
  <1>2. F * (x + d) = F * x + F * d /\ F * d \in Nat /\ F * x \in Nat
    OBVIOUS
  <1> QED
    BY <1>1, <1>2

\* Point c of frame b, counted from the beginning of the stream, and back.
LEMMA DivMod ==
  ASSUME NEW F \in Nat \ {0}, NEW b \in Nat, NEW c \in 0 .. F - 1
  PROVE  (b * F + c) \div F = b /\ (b * F + c) % F = c
  <1> DEFINE q == (b * F + c) \div F
             r == (b * F + c) % F
  <1>1. F * b \in Nat /\ b * F = F * b
    OBVIOUS
  <1>2. q \in Nat /\ r \in 0 .. F - 1
    BY <1>1
  <1>3. F * b + c = F * q + r
    BY <1>1
  <1> HIDE DEF q, r
  <1>4. ~ q + 1 <= b
    <2>1. F * (q + 1) = F * q + F
      BY <1>2
    <2>2. F * q \in Nat
      BY <1>2
    <2> QED
      BY <1>1, <1>2, <1>3, <2>1, <2>2, TimesMonotone
  <1>5. ~ b + 1 <= q
    <2>1. F * (b + 1) = F * b + F
      OBVIOUS
    <2>2. F * q \in Nat
      BY <1>2
    <2> QED
      BY <1>1, <1>2, <1>3, <2>1, <2>2, TimesMonotone
  <1>6. q = b
    BY <1>2, <1>4, <1>5
  <1>7. r = c
    BY <1>1, <1>2, <1>3, <1>6
  <1> QED
    BY <1>6, <1>7 DEF q, r

-----------------------------------------------------------------------------
(* What holds between the steps: who has a frame, and that the last frame  *)
(* taken is the one at hand.                                               *)

FetchInv ==
  /\ TypeOK
  /\ buffer = None => taken = 0 /\ cursor = 0
  /\ buffer # None => taken = buffer + 1
  /\ pc \in {"first", "copy"} => kind \in Kinds
  /\ pc = "first" => buffer = None
  /\ pc = "copy" => buffer # None

\* A function on 1 .. n is a sequence.
LEMMA FunctionIsSeq ==
  ASSUME NEW S, NEW n \in Nat, NEW f \in [1 .. n -> S]
  PROVE  f \in Seq(S) /\ Len(f) = n /\ DOMAIN f = 1 .. n
  OBVIOUS

\* Lengths and elements of two sequences put together.
LEMMA Concatenated ==
  ASSUME NEW S, NEW s \in Seq(S), NEW t \in Seq(S)
  PROVE  /\ s \o t \in Seq(S)
         /\ Len(s) \in Nat /\ Len(s \o t) = Len(s) + Len(t)
         /\ \A k \in 1 .. Len(s) : (s \o t)[k] = s[k]
         /\ \A k \in Len(s) + 1 .. Len(s) + Len(t) : (s \o t)[k] = t[k - Len(s)]
  OBVIOUS

\* The set of all points.
Points == [frame : Nat, byte : Nat, by : Kinds]

\* A turn copies something, and no more than there is or is asked for.
LEMMA CopyBounds ==
  ASSUME FetchInv, pc = "copy", written < npt, Available # 0
  PROVE  /\ CopyLen \in Nat \ {0}
         /\ cursor + CopyLen <= FrameLen
         /\ written + CopyLen <= npt
         /\ buffer \in Nat /\ cursor \in Nat /\ kind \in Kinds
  BY FetchDataAssumption DEF FetchInv, TypeOK, CopyLen, Available

\* The points that a turn appends.
Copied == [i \in 1 .. CopyLen |-> [frame |-> buffer, byte |-> Offset(i - 1), by |-> kind]]

\* They are points, as many as were to be copied.
LEMMA CopiedType ==
  ASSUME FetchInv, pc = "copy", written < npt, Available # 0
  PROVE  /\ Copied \in Seq(Points)
         /\ Len(Copied) = CopyLen
         /\ DOMAIN Copied = 1 .. CopyLen
  <1>1. CopyLen \in Nat /\ buffer \in Nat /\ cursor \in Nat /\ kind \in Kinds
    BY CopyBounds
  <1>2. ASSUME NEW i \in 1 .. CopyLen PROVE Offset(i - 1) \in Nat
    BY <1>1, <1>2 DEF Offset, PointBytes
  <1>3. Copied \in [1 .. CopyLen -> Points]
    BY <1>1, <1>2 DEF Copied, Points
  <1> QED
    BY <1>1, <1>3, FunctionIsSeq

\* What that makes of the points delivered.
LEMMA CopiedAppended ==
  ASSUME FetchInv, pc = "copy", written < npt, Available # 0
  PROVE  /\ out \o Copied \in Seq(Points)
         /\ Len(out) \in Nat /\ Len(out \o Copied) = Len(out) + CopyLen
         /\ \A k \in 1 .. Len(out) : (out \o Copied)[k] = out[k]
         /\ \A k \in Len(out) + 1 .. Len(out) + CopyLen : (out \o Copied)[k] = Copied[k - Len(out)]
  <1>1. out \in Seq(Points)
    BY DEF FetchInv, TypeOK, Points
  <1>2. Copied \in Seq(Points) /\ Len(Copied) = CopyLen
    BY CopiedType
  <1> QED
    BY <1>1, <1>2, Concatenated

\* Frames are numbered, points have types, and so on: true at first.
LEMMA FetchInit == Init => FetchInv
  BY FetchDataAssumption DEF Init, FetchInv, TypeOK

\* Every step keeps the invariant.
LEMMA FetchStep == FetchInv /\ [Next]_vars => FetchInv'
  <1> SUFFICES ASSUME FetchInv, [Next]_vars PROVE FetchInv'
    OBVIOUS
  <1> USE FetchDataAssumption
  <1>1. CASE Begin
    BY <1>1 DEF Begin, FetchInv, TypeOK, chanVars, objVars
  <1>2. CASE FirstFrame
    BY <1>2 DEF FirstFrame, Recv, HasFrame, FetchInv, TypeOK
  <1>3. CASE NextFrame
    BY <1>3 DEF NextFrame, Recv, HasFrame, FetchInv, TypeOK, callVars
  <1>4. CASE RecvFails
    BY <1>4 DEF RecvFails, FetchInv, TypeOK, chanVars, objVars
  <1>5. CASE CopyPoints
    <2>1. pc = "copy" /\ written < npt /\ Available # 0
      BY <1>5 DEF CopyPoints
    <2>2. /\ CopyLen \in Nat /\ cursor + CopyLen <= FrameLen /\ written + CopyLen <= npt
      BY <2>1, CopyBounds
    <2>3. out' = out \o Copied
      BY <1>5 DEF CopyPoints, Copied
    <2>4. out' \in Seq(Points)
      BY <2>1, <2>3, CopiedAppended
    <2>5. /\ cursor' = cursor + CopyLen /\ written' = written + CopyLen
          /\ UNCHANGED <<produced, taken, senderAlive, buffer, pc, kind, npt>>
      BY <1>5 DEF CopyPoints, chanVars
    <2>6. cursor' \in 0 .. FrameLen /\ written' \in 0 .. npt'
      BY <2>2, <2>5 DEF FetchInv, TypeOK
    <2>7. TypeOK'
      BY <2>4, <2>5, <2>6 DEF FetchInv, TypeOK, Points
    <2> QED
      BY <2>1, <2>5, <2>7 DEF FetchInv
  <1>6. CASE Return
    BY <1>6 DEF Return, FetchInv, TypeOK, chanVars, objVars
  <1>7. CASE Send
    BY <1>7 DEF Send, FetchInv, TypeOK, objVars, callVars
  <1>8. CASE Hangup
    BY <1>8 DEF Hangup, FetchInv, TypeOK, objVars, callVars
  <1>9. CASE UNCHANGED vars
    BY <1>9 DEF FetchInv, TypeOK, vars, chanVars, objVars, callVars
  <1> QED
    BY <1>1, <1>2, <1>3, <1>4, <1>5, <1>6, <1>7, <1>8, <1>9 DEF Next, Fetch, Stopped

\* The types of the state of the fetch functions.
THEOREM FetchTypeCorrect == Spec => []TypeOK
  <1>1. FetchInv => TypeOK
    BY DEF FetchInv
  <1> QED
    BY <1>1, FetchInit, FetchStep, PTL DEF Spec

-----------------------------------------------------------------------------
(* Every point once, in the order of the stream.                           *)

\* Nothing but a turn of the loop delivers points.
LEMMA OutUnchanged ==
  ASSUME [Next]_vars, ~ CopyPoints PROVE out' = out
  BY DEF Next, Fetch, Begin, FirstFrame, NextFrame, RecvFails, Return, Send, Hangup, Stopped, vars

\* A step keeps what was delivered equal to what was passed over.
LEMMA SkipStep == FetchInv /\ NothingSkipped /\ [Next]_vars => NothingSkipped'
  <1> SUFFICES ASSUME FetchInv, NothingSkipped, [Next]_vars PROVE NothingSkipped'
    OBVIOUS
  <1> USE FetchDataAssumption
  <1>1. CASE FirstFrame
    <2>1. buffer = None /\ taken = 0 /\ Len(out) = 0
      BY <1>1 DEF FirstFrame, FetchInv, NothingSkipped
    <2>2. buffer' = 0 /\ cursor' = 0 /\ out' = out
      BY <1>1, <2>1 DEF FirstFrame, Recv
    <2>3. 0 * FrameLen + 0 = 0 /\ 0 # None
      OBVIOUS
    <2> QED
      BY <2>1, <2>2, <2>3 DEF NothingSkipped
  <1>2. CASE NextFrame
    <2>1. /\ buffer # None /\ taken = buffer + 1 /\ buffer \in Nat /\ cursor = FrameLen
      BY <1>2 DEF NextFrame, FetchInv, TypeOK, Available
    <2>2. buffer' = buffer + 1 /\ cursor' = 0 /\ out' = out
      BY <1>2, <2>1 DEF NextFrame, Recv
    <2>3. (buffer + 1) * FrameLen + 0 = buffer * FrameLen + FrameLen
      BY <2>1
    <2>4. buffer + 1 # None
      BY <2>1
    <2>5. Len(out) = buffer * FrameLen + cursor
      BY <2>1 DEF NothingSkipped
    <2> QED
      BY <2>1, <2>2, <2>3, <2>4, <2>5 DEF NothingSkipped
  <1>3. CASE CopyPoints
    <2>1. pc = "copy" /\ written < npt /\ Available # 0
      BY <1>3 DEF CopyPoints
    <2>2. CopyLen \in Nat /\ buffer \in Nat /\ cursor \in Nat
      BY <2>1, CopyBounds
    <2>3. out' = out \o Copied /\ buffer' = buffer /\ cursor' = cursor + CopyLen
      BY <1>3 DEF CopyPoints, Copied
    <2>4. Len(out') = Len(out) + CopyLen
      BY <2>1, <2>3, CopiedAppended
    <2>5. buffer * FrameLen \in Nat
      BY <2>2
    <2>6. Len(out) = buffer * FrameLen + cursor
      BY <2>1 DEF NothingSkipped, FetchInv
    <2>7. Len(out') = buffer * FrameLen + (cursor + CopyLen)
      BY <2>2, <2>4, <2>5, <2>6
    <2> QED
      BY <2>1, <2>3, <2>7 DEF NothingSkipped, FetchInv
  <1>4. CASE ~ FirstFrame /\ ~ NextFrame /\ ~ CopyPoints
    <2>1. UNCHANGED <<buffer, cursor, out>>
      BY <1>4 DEF Next, Fetch, Begin, RecvFails, Return, Send, Hangup, Stopped, vars, objVars
    <2> QED
      BY <2>1 DEF NothingSkipped
  <1> QED
    BY <1>1, <1>2, <1>3, <1>4

\* No point is skipped or delivered twice, whatever the sizes of the pieces and of the
\* frames, and wherever the calls end.
THEOREM NothingSkippedHolds == Spec => []NothingSkipped
  <1>1. Init => NothingSkipped
    BY DEF Init, NothingSkipped
  <1> QED
    BY <1>1, FetchInit, FetchStep, SkipStep, PTL DEF Spec

-----------------------------------------------------------------------------
(* Every point from its place.                                             *)

\* What is known of point number k of the stream, delivered as p.
InPlace(p, k) ==
  /\ p.frame = (k - 1) \div FrameLen
  /\ p.byte + PointBytes <= FrameBytes
  /\ p.by = "ci16" => p.byte = ((k - 1) % FrameLen) * PointBytes

PointsInPlace == \A k \in 1 .. Len(out) : InPlace(out[k], k)

\* Where the points of a turn are stored that come next in the stream.
LEMMA NextStored ==
  ASSUME FetchInv, pc = "copy", written < npt, Available # 0, NEW i \in 1 .. CopyLen,
         NEW k, k = buffer * FrameLen + cursor + i
  PROVE  (k - 1) \div FrameLen = buffer /\ (k - 1) % FrameLen = cursor + i - 1
  <1> USE FetchDataAssumption
  <1>1. CopyLen \in Nat \ {0} /\ cursor + CopyLen <= FrameLen /\ buffer \in Nat /\ cursor \in Nat
    BY CopyBounds
  <1> DEFINE c == cursor + i - 1
  <1>2. c \in 0 .. FrameLen - 1
    BY <1>1
  <1>3. buffer * FrameLen \in Nat
    BY <1>1
  <1>4. k - 1 = buffer * FrameLen + c
    BY <1>1, <1>3
  <1> HIDE DEF c
  <1>5. (buffer * FrameLen + c) \div FrameLen = buffer /\ (buffer * FrameLen + c) % FrameLen = c
    BY <1>1, <1>2, DivMod
  <1>6. (k - 1) \div FrameLen = buffer /\ (k - 1) % FrameLen = c
    BY <1>4, <1>5
  <1> QED
    BY <1>6 DEF c

\* Where the turn reads them: always inside the frame, and in the place where they are
\* stored unless fetch_data_cf32 reads from inside a frame.
LEMMA ReadFrom ==
  ASSUME FetchInv, pc = "copy", written < npt, Available # 0, NEW i \in 1 .. CopyLen
  PROVE  /\ Copied[i] = [frame |-> buffer, byte |-> Offset(i - 1), by |-> kind]
         /\ Offset(i - 1) + PointBytes <= FrameBytes
         /\ Offset(i - 1) = (cursor + i - 1) * PointBytes <=> (kind = "ci16" \/ cursor = 0)
  <1>1. /\ CopyLen \in Nat \ {0} /\ cursor + CopyLen <= FrameLen
        /\ buffer \in Nat /\ cursor \in Nat /\ FrameLen \in Nat
    BY CopyBounds, FetchDataAssumption
  <1>2. Copied[i] = [frame |-> buffer, byte |-> Offset(i - 1), by |-> kind]
    BY <1>1 DEF Copied
  <1>3. Offset(i - 1) + PointBytes <= FrameBytes
    BY <1>1 DEF Offset, PointBytes, FrameBytes
  <1>4. CASE kind = "ci16"
    BY <1>1, <1>2, <1>3, <1>4 DEF Offset, PointBytes
  <1>5. CASE kind # "ci16"
    <2>1. cursor + (i - 1) * 4 = (cursor + i - 1) * 4 <=> cursor = 0
      BY <1>1
    <2>2. Offset(i - 1) = cursor + (i - 1) * 4
      BY <1>5 DEF Offset, PointBytes
    <2> QED
      BY <1>2, <1>3, <1>5, <2>1, <2>2 DEF PointBytes
  <1> QED
    BY <1>4, <1>5

\* The points of a turn are in their places.
LEMMA CopiedInPlace ==
  ASSUME FetchInv, pc = "copy", written < npt, Available # 0, NEW i \in 1 .. CopyLen
  PROVE  InPlace(Copied[i], buffer * FrameLen + cursor + i)
  <1> DEFINE k == buffer * FrameLen + cursor + i
  <1>1. (k - 1) \div FrameLen = buffer /\ (k - 1) % FrameLen = cursor + i - 1
    BY NextStored
  <1>2. Copied[i] = [frame |-> buffer, byte |-> Offset(i - 1), by |-> kind]
    BY ReadFrom
  <1>3. Offset(i - 1) + PointBytes <= FrameBytes
    BY ReadFrom
  <1>4. kind = "ci16" => Offset(i - 1) = (cursor + i - 1) * PointBytes
    BY ReadFrom
  <1> HIDE DEF k
  <1>5. InPlace(Copied[i], k)
    BY <1>1, <1>2, <1>3, <1>4 DEF InPlace
  <1> QED
    BY <1>5 DEF k

\* A step leaves all points in their places.
LEMMA PlaceStep == FetchInv /\ NothingSkipped /\ PointsInPlace /\ [Next]_vars => PointsInPlace'
  <1> SUFFICES ASSUME FetchInv, NothingSkipped, PointsInPlace, [Next]_vars PROVE PointsInPlace'
    OBVIOUS
  <1>1. CASE CopyPoints
    <2>1. pc = "copy" /\ written < npt /\ Available # 0
      BY <1>1 DEF CopyPoints
    <2>2. out' = out \o Copied
      BY <1>1 DEF CopyPoints, Copied
    <2>3. CopyLen \in Nat /\ buffer \in Nat /\ cursor \in Nat
      BY <2>1, CopyBounds
    <2>4. Len(out) = buffer * FrameLen + cursor
      BY <2>1 DEF NothingSkipped, FetchInv
    <2>6. Len(out) \in Nat /\ Len(out') = Len(out) + CopyLen
      BY <2>1, <2>2, CopiedAppended
    <2>7. ASSUME NEW k \in 1 .. Len(out') PROVE InPlace(out'[k], k)
      <3>1. CASE k <= Len(out)
        <4>1. out'[k] = out[k]
          BY <2>1, <2>2, <2>6, <3>1, CopiedAppended
        <4> QED
          BY <2>6, <3>1, <4>1 DEF PointsInPlace
      <3>2. CASE k > Len(out)
        <4>1. k - Len(out) \in 1 .. CopyLen
          BY <2>3, <2>6, <3>2
        <4>2. out'[k] = Copied[k - Len(out)]
          BY <2>1, <2>2, <2>6, <3>2, CopiedAppended
        <4>3. buffer * FrameLen + cursor + (k - Len(out)) = k
          BY <2>4, <2>6
        <4> QED
          BY <2>1, <4>1, <4>2, <4>3, CopiedInPlace
      <3> QED
        BY <2>6, <3>1, <3>2
    <2> QED
      BY <2>7 DEF PointsInPlace, InPlace
  <1>2. CASE ~ CopyPoints
    <2>1. out' = out
      BY <1>2, OutUnchanged
    <2> QED
      BY <2>1 DEF PointsInPlace, InPlace
  <1> QED
    BY <1>1, <1>2

\* Whatever calls were made, every point is in its place.
LEMMA AlwaysInPlace == Spec => []PointsInPlace
  <1>1. Init => NothingSkipped /\ PointsInPlace
    BY DEF Init, NothingSkipped, PointsInPlace
  <1> QED
    BY <1>1, FetchInit, FetchStep, SkipStep, PlaceStep, PTL DEF Spec

\* fetch_data_16 delivers the points from the places in which they are stored, whichever
\* calls of fetch_data_cf32 come between.
THEOREM Ci16AsStoredHolds == Spec => []Ci16AsStored
  <1>1. PointsInPlace => Ci16AsStored
    BY DEF PointsInPlace, InPlace, Ci16AsStored, IsStored, Stored
  <1> QED
    BY <1>1, AlwaysInPlace, PTL

\* No read through the raw pointers leaves the frame, in either function.
THEOREM ReadsInsideFrameHolds == Spec => []ReadsInsideFrame
  <1>1. PointsInPlace => ReadsInsideFrame
    BY DEF PointsInPlace, InPlace, ReadsInsideFrame, Stored
  <1> QED
    BY <1>1, AlwaysInPlace, PTL

-----------------------------------------------------------------------------
(* Where fetch_data_cf32 goes wrong, and where not.                        *)

\* What a turn delivers: the next points of the stream, as they are stored unless
\* fetch_data_cf32 reads from inside a frame.
LEMMA TurnDelivers ==
  ASSUME FetchInv, NothingSkipped, CopyPoints, NEW k \in Len(out) + 1 .. Len(out')
  PROVE  IsStored(k)' <=> (kind = "ci16" \/ cursor = 0)
  <1>1. pc = "copy" /\ written < npt /\ Available # 0 /\ out' = out \o Copied
    BY DEF CopyPoints, Copied
  <1>2. Len(out) \in Nat /\ Len(out') = Len(out) + CopyLen
    BY <1>1, CopiedAppended
  <1>3. CopyLen \in Nat /\ buffer \in Nat /\ cursor \in Nat /\ FrameLen \in Nat
    BY <1>1, CopyBounds, FetchDataAssumption
  <1>4. PICK i \in 1 .. CopyLen : k = Len(out) + i
    <2>1. k - Len(out) \in 1 .. CopyLen /\ k = Len(out) + (k - Len(out))
      BY <1>2, <1>3
    <2> QED
      BY <2>1
  <1>5. out'[k] = Copied[i]
    <2>1. k - Len(out) = i
      BY <1>2, <1>4
    <2> QED
      BY <1>1, <1>2, <2>1, CopiedAppended
  <1>6. k = buffer * FrameLen + cursor + i
    <2>1. Len(out) = buffer * FrameLen + cursor
      BY <1>1 DEF NothingSkipped, FetchInv
    <2> QED
      BY <1>4, <2>1
  <1>7. (k - 1) \div FrameLen = buffer /\ (k - 1) % FrameLen = cursor + i - 1
    BY <1>1, <1>6, NextStored
  <1>8. out'[k].frame = buffer /\ out'[k].byte = Offset(i - 1)
    <2>1. Copied[i] = [frame |-> buffer, byte |-> Offset(i - 1), by |-> kind]
      BY <1>1, ReadFrom
    <2> QED
      BY <1>5, <2>1
  <1>9. Offset(i - 1) = (cursor + i - 1) * PointBytes <=> (kind = "ci16" \/ cursor = 0)
    BY <1>1, ReadFrom
  <1> QED
    BY <1>7, <1>8, <1>9 DEF IsStored, Stored

\* fetch_data_cf32 delivers wrong points in every turn that begins inside a frame, and
\* in no other, for frames of any length and pieces of any sizes.
THEOREM WrongInsideFrameHolds == Spec => WrongInsideFrame
  <1> DEFINE Delivers == \A k \in Len(out) + 1 .. Len(out') :
                           IsStored(k)' <=> (kind = "ci16" \/ cursor = 0)
  <1>1. ASSUME FetchInv, NothingSkipped, [Next]_vars PROVE [Delivers]_vars
    <2>1. CASE CopyPoints
      BY <1>1, <2>1, TurnDelivers
    <2>2. CASE ~ CopyPoints
      <3>1. out' = out /\ Len(out) \in Nat
        BY <1>1, <2>2, OutUnchanged DEF FetchInv, TypeOK
      <3> QED
        BY <3>1
    <2> QED
      BY <2>1, <2>2
  <1>2. Init => NothingSkipped
    BY DEF Init, NothingSkipped
  <1> QED
    BY <1>1, <1>2, FetchInit, FetchStep, SkipStep, PTL DEF Spec, WrongInsideFrame

\* The caller asks for nothing but whole frames.
WholeFrames == \E m \in Nat : npt = m * FrameLen

\* Then a call is between two frames whenever it is between two turns.
BetweenFrames ==
  /\ cursor \in {0, FrameLen}
  /\ pc = "copy" => \E r \in Nat : npt = written + r * FrameLen
  /\ pc = "first" => written = 0
  /\ \A k \in 1 .. Len(out) : IsStored(k)

\* A turn of the loop copies a whole frame then.
LEMMA WholeTurn ==
  ASSUME FetchInv, NothingSkipped, BetweenFrames, CopyPoints
  PROVE  BetweenFrames'
  <1>1. /\ pc = "copy" /\ written < npt /\ Available # 0 /\ out' = out \o Copied
        /\ cursor' = cursor + CopyLen /\ written' = written + CopyLen
        /\ UNCHANGED <<pc, npt>>
    BY DEF CopyPoints, Copied
  <1>2. cursor = 0 /\ Available = FrameLen /\ FrameLen \in Nat \ {0} /\ written \in Nat
    BY <1>1, FetchDataAssumption DEF BetweenFrames, Available, FetchInv, TypeOK
  <1>3. PICK r \in Nat : npt = written + r * FrameLen
    BY <1>1 DEF BetweenFrames
  <1>4. r - 1 \in Nat /\ r * FrameLen = FrameLen + (r - 1) * FrameLen /\ (r - 1) * FrameLen \in Nat
    <2>1. r # 0
      BY <1>1, <1>2, <1>3
    <2> QED
      BY <1>2, <2>1
  <1>5. CopyLen = FrameLen
    <2>1. npt - written = FrameLen + (r - 1) * FrameLen
      BY <1>2, <1>3, <1>4
    <2> QED
      BY <1>2, <1>4, <2>1 DEF CopyLen
  <1>6. npt' = written' + (r - 1) * FrameLen
    BY <1>1, <1>2, <1>3, <1>4, <1>5
  <1>7. ASSUME NEW k \in 1 .. Len(out') PROVE IsStored(k)'
    <2>1. Len(out) \in Nat /\ Len(out') = Len(out) + CopyLen
      BY <1>1, CopiedAppended
    <2>2. CASE k \in 1 .. Len(out)
      <3>1. out'[k] = out[k]
        BY <1>1, <2>2, CopiedAppended
      <3> QED
        BY <2>2, <3>1 DEF BetweenFrames, IsStored, Stored
    <2>3. CASE k \in Len(out) + 1 .. Len(out')
      BY <1>2, <2>3, TurnDelivers
    <2> QED
      BY <1>2, <1>5, <2>1, <2>2, <2>3
  <1> QED
    BY <1>1, <1>2, <1>4, <1>5, <1>6, <1>7 DEF BetweenFrames

\* So does everything else a call does.
LEMMA WholeStep ==
  ASSUME FetchInv, NothingSkipped, BetweenFrames, [Next]_vars, WholeFrames'
  PROVE  BetweenFrames'
  <1>1. CASE CopyPoints
    BY <1>1, WholeTurn
  <1>2. CASE ~ CopyPoints
    <2> DEFINE Stored1 == \A k \in 1 .. Len(out) : IsStored(k)
    <2>1. out' = out /\ Stored1'
      <3>1. out' = out
        BY <1>2, OutUnchanged
      <3> QED
        BY <3>1 DEF BetweenFrames, IsStored, Stored
    <2> HIDE DEF Stored1
    <2>2. CASE Begin
      <3>1. cursor' = cursor /\ written' = 0
        BY <2>2 DEF Begin, objVars
      <3>2. PICK m \in Nat : npt' = m * FrameLen
        BY DEF WholeFrames
      <3>3. npt' = written' + m * FrameLen
        BY <3>1, <3>2, FetchDataAssumption
      <3> QED
        BY <2>1, <3>1, <3>3 DEF BetweenFrames, Stored1
    <2>3. CASE FirstFrame \/ NextFrame
      <3>1. cursor' = 0 /\ UNCHANGED <<npt, written>> /\ pc' = "copy" /\ pc \in {"first", "copy"}
        BY <2>3 DEF FirstFrame, NextFrame, Recv, callVars
      <3>2. CASE pc = "copy"
        BY <2>1, <3>1, <3>2 DEF BetweenFrames, Stored1
      <3>3. CASE pc = "first"
        <4>1. PICK m \in Nat : npt' = m * FrameLen
          BY DEF WholeFrames
        <4>2. written' = 0 /\ npt' = written' + m * FrameLen
          BY <3>1, <3>3, <4>1, FetchDataAssumption DEF BetweenFrames
        <4> QED
          BY <2>1, <3>1, <4>2 DEF BetweenFrames, Stored1
      <3> QED
        BY <3>1, <3>2, <3>3
    <2>4. CASE RecvFails \/ Return
      BY <2>1, <2>4 DEF RecvFails, Return, objVars, BetweenFrames, Stored1
    <2>5. CASE Send \/ Hangup \/ UNCHANGED vars
      BY <2>1, <2>5 DEF Send, Hangup, vars, objVars, callVars, BetweenFrames, Stored1
    <2> QED
      BY <1>2, <2>2, <2>3, <2>4, <2>5 DEF Next, Fetch, Stopped
  <1> QED
    BY <1>1, <1>2

\* A caller that always asks for whole frames gets every point of either function as it
\* is stored: the mistake in fetch_data_cf32 does not show.
THEOREM WholeFramesAsStored == Spec /\ []WholeFrames => [](Cf32AsStored /\ Ci16AsStored)
  <1>1. Init => NothingSkipped /\ BetweenFrames
    BY DEF Init, NothingSkipped, BetweenFrames
  <1>2. FetchInv /\ NothingSkipped /\ BetweenFrames /\ [Next]_vars /\ WholeFrames' => BetweenFrames'
    BY WholeStep
  <1>3. BetweenFrames => Cf32AsStored /\ Ci16AsStored
    BY DEF BetweenFrames, Cf32AsStored, Ci16AsStored
  <1> QED
    BY <1>1, <1>2, <1>3, FetchInit, FetchStep, SkipStep, PTL DEF Spec

-----------------------------------------------------------------------------
(* How soon a call ends.                                                   *)

\* Turns that a call takes at most: one for each point and one for each frame it needs.
TurnsLeft ==
  CASE pc = "first" -> 2 * (npt - written) + 2
    [] pc = "copy" -> 2 * (npt - written) + (IF Available = 0 THEN 2 ELSE 1)
    [] OTHER -> 0

\* A call takes a bounded number of turns, each of which waits for at most one frame:
\* every one of them counts down, and recv_pkt does not count up.
THEOREM FetchCountsDown ==
  Spec => /\ [](TurnsLeft \in Nat /\ TurnsLeft <= 2 * npt + 2)
          /\ [][/\ Fetch => TurnsLeft' < TurnsLeft
                /\ ~ Fetch /\ ~ Begin => TurnsLeft' = TurnsLeft]_vars
  <1> DEFINE Bounded == TurnsLeft \in Nat /\ TurnsLeft <= 2 * npt + 2
             Nearer == /\ Fetch => TurnsLeft' < TurnsLeft
                       /\ ~ Fetch /\ ~ Begin => TurnsLeft' = TurnsLeft
  <1>1. FetchInv => Bounded
    <2> SUFFICES ASSUME FetchInv PROVE Bounded
      OBVIOUS
    <2>1. npt \in Nat /\ written \in Nat /\ npt - written \in Nat
      BY FetchDataAssumption DEF FetchInv, TypeOK
    <2> QED
      BY <2>1 DEF TurnsLeft
  <1>2. ASSUME FetchInv, [Next]_vars PROVE [Nearer]_vars
    <2>1. npt \in Nat /\ written \in Nat /\ npt - written \in Nat
      BY <1>2, FetchDataAssumption DEF FetchInv, TypeOK
    <2>2. CASE FirstFrame
      <3>1. pc = "first" /\ pc' = "copy" /\ cursor' = 0 /\ UNCHANGED <<npt, written>>
        BY <2>2 DEF FirstFrame, Recv
      <3>2. Available' # 0
        BY <3>1, FetchDataAssumption DEF Available
      <3> QED
        BY <2>1, <2>2, <3>1, <3>2 DEF TurnsLeft, Fetch
    <2>3. CASE NextFrame
      <3>1. pc = "copy" /\ Available = 0 /\ cursor' = 0 /\ UNCHANGED <<pc, npt, written>>
        BY <2>3 DEF NextFrame, Recv, callVars
      <3>2. Available' # 0
        BY <3>1, FetchDataAssumption DEF Available
      <3> QED
        BY <2>1, <2>3, <3>1, <3>2 DEF TurnsLeft, Fetch
    <2>4. CASE RecvFails \/ Return
      <3>1. pc \in {"first", "copy"} /\ pc' \in {"idle", "panicked"}
        BY <2>4 DEF RecvFails, Return
      <3> QED
        BY <2>1, <2>4, <3>1 DEF TurnsLeft, Fetch
    <2>5. CASE CopyPoints
      <3>1. /\ pc = "copy" /\ written < npt /\ Available # 0
            /\ written' = written + CopyLen /\ UNCHANGED <<pc, npt>>
        BY <2>5 DEF CopyPoints
      <3>2. CopyLen \in Nat \ {0} /\ written + CopyLen <= npt
        BY <1>2, <3>1, CopyBounds
      <3>3. npt' - written' \in Nat /\ npt' - written' < npt - written
        BY <2>1, <3>1, <3>2
      <3>4. TurnsLeft = 2 * (npt - written) + 1 /\ TurnsLeft' \in {2 * (npt' - written') + 1, 2 * (npt' - written') + 2}
        BY <3>1 DEF TurnsLeft
      <3>5. \A a, b \in Nat : a < b => 2 * a + 2 < 2 * b + 1
        OBVIOUS
      <3> QED
        BY <2>1, <2>5, <3>3, <3>4, <3>5 DEF Fetch
    <2>6. CASE Send \/ Hangup \/ UNCHANGED vars
      <3>1. UNCHANGED <<pc, npt, written, cursor>>
        BY <2>6 DEF Send, Hangup, vars, objVars, callVars
      <3>2. Available' = Available
        BY <3>1 DEF Available
      <3>3. TurnsLeft' = TurnsLeft
        BY <3>1, <3>2 DEF TurnsLeft
      <3>4. ~ Fetch \/ UNCHANGED vars
        BY <2>6 DEF Fetch, Send, Hangup, FirstFrame, NextFrame, RecvFails, CopyPoints, Return,
                    callVars, objVars, chanVars, vars
      <3> QED
        BY <3>3, <3>4
    <2> QED
      BY <1>2, <2>2, <2>3, <2>4, <2>5, <2>6 DEF Next, Fetch, Stopped
  <1> QED
    BY <1>1, <1>2, FetchInit, FetchStep, PTL DEF Spec

-----------------------------------------------------------------------------
(* When a call need not wait.                                              *)

\* What is at hand: frames in the channel, and the rest of the frame begun.
LEMMA AtHandSum ==
  ASSUME FetchInv
  PROVE  /\ FrameLen \in Nat \ {0} /\ produced - taken \in Nat
         /\ npt \in Nat /\ written \in Nat /\ npt - written \in Nat
         /\ (produced - taken) * FrameLen \in Nat /\ AtHand \in Nat
         /\ buffer = None => AtHand = (produced - taken) * FrameLen
         /\ buffer # None =>
              Available \in Nat /\ AtHand = (produced - taken) * FrameLen + Available
  <1>1. /\ FrameLen \in Nat \ {0} /\ produced - taken \in Nat /\ cursor \in 0 .. FrameLen
        /\ npt \in Nat /\ written \in Nat /\ npt - written \in Nat
    BY FetchDataAssumption DEF FetchInv, TypeOK
  <1>2. (produced - taken) * FrameLen \in Nat /\ Available \in Nat
    BY <1>1 DEF Available
  <1> HIDE DEF Available
  <1> QED
    BY <1>1, <1>2 DEF AtHand

\* A frame that is taken out of the channel stays at hand.
LEMMA FrameMoves ==
  ASSUME FetchInv, FetchInv', Recv, UNCHANGED produced
  PROVE  /\ produced - taken \in Nat \ {0}
         /\ AtHand' = (produced - taken) * FrameLen
  <1>1. /\ taken < produced /\ taken' = taken + 1 /\ produced' = produced
        /\ cursor' = 0 /\ buffer' = taken
    BY DEF Recv, HasFrame
  <1>2. /\ FrameLen \in Nat \ {0} /\ produced \in Nat /\ taken \in Nat /\ buffer' # None
    BY <1>1, FetchDataAssumption DEF FetchInv, TypeOK
  <1>3. AtHand' = (produced' - taken') * FrameLen + Available' /\ Available' = FrameLen
    BY <1>1, <1>2 DEF AtHand, Available
  <1>4. PICK d \in Nat : produced - taken = d + 1
    <2>1. produced - taken - 1 \in Nat /\ produced - taken = (produced - taken - 1) + 1
      BY <1>1, <1>2
    <2> QED
      BY <2>1
  <1>5. produced' - taken' = d
    BY <1>1, <1>2, <1>4
  <1>6. d * FrameLen + FrameLen = (d + 1) * FrameLen
    BY <1>2
  <1> QED
    BY <1>3, <1>4, <1>5, <1>6

\* Once the points asked for are there, they stay there until the call has returned,
\* whatever the thread does: no step of the call gives one away, and unwrap() does not
\* panic.  With FetchCountsDown this is the argument for FetchEnds.
THEOREM SufficesKept == Spec => [][Suffices => Suffices' \/ pc' = "idle"]_vars
  <1> DEFINE Kept == Suffices => Suffices' \/ pc' = "idle"
  <1>1. ASSUME FetchInv, [Next]_vars PROVE Kept
    <2> SUFFICES ASSUME Suffices PROVE Suffices' \/ pc' = "idle"
      OBVIOUS
    <2>1. FetchInv'
      BY <1>1, FetchStep
    <2>2. /\ FrameLen \in Nat \ {0} /\ produced - taken \in Nat
          /\ npt \in Nat /\ written \in Nat /\ npt - written \in Nat
          /\ (produced - taken) * FrameLen \in Nat
      BY <1>1, AtHandSum
    <2>3. CASE FirstFrame
      <3>1. pc = "first" /\ buffer = None /\ npt <= AtHand
        BY <1>1, <2>3 DEF FirstFrame, FetchInv, Suffices
      <3>2. AtHand' = AtHand
        BY <1>1, <2>1, <2>3, <3>1, FrameMoves, AtHandSum DEF FirstFrame
      <3>3. pc' = "copy" /\ npt' - written' <= AtHand'
        BY <2>2, <2>3, <3>1, <3>2, AtHandSum, <1>1 DEF FirstFrame
      <3> QED
        BY <3>3 DEF Suffices
    <2>4. CASE NextFrame
      <3>1. /\ pc = "copy" /\ pc' = "copy" /\ npt' - written' = npt - written
            /\ buffer # None /\ Available = 0 /\ npt - written <= AtHand
        BY <1>1, <2>4 DEF NextFrame, FetchInv, Suffices, callVars
      <3>2. AtHand' = AtHand
        <4>1. AtHand' = (produced - taken) * FrameLen
          BY <1>1, <2>1, <2>4, FrameMoves DEF NextFrame
        <4>2. AtHand = (produced - taken) * FrameLen + 0
          BY <1>1, <3>1, AtHandSum
        <4> QED
          BY <2>2, <4>1, <4>2
      <3> QED
        BY <3>1, <3>2 DEF Suffices
    <2>5. ~ RecvFails
      <3>1. SUFFICES ASSUME RecvFails PROVE FALSE
        OBVIOUS
      <3>2. ~ HasFrame /\ (pc = "first" \/ (pc = "copy" /\ written < npt /\ Available = 0))
        BY <3>1 DEF RecvFails
      <3>3. pc = "copy" /\ npt - written <= AtHand /\ buffer # None
        BY <1>1, <3>2 DEF Suffices, FetchInv
      <3>4. produced - taken = 0
        BY <1>1, <3>2 DEF HasFrame, FetchInv, TypeOK
      <3>5. AtHand = 0 * FrameLen + 0
        BY <1>1, <3>2, <3>3, <3>4, AtHandSum
      <3> QED
        BY <2>2, <3>2, <3>3, <3>5
    <2>6. CASE CopyPoints
      <3>1. /\ pc = "copy" /\ written < npt /\ Available # 0 /\ buffer # None
            /\ npt - written <= AtHand
        BY <1>1, <2>6 DEF CopyPoints, Suffices, FetchInv
      <3>2. CopyLen \in Nat /\ cursor \in Nat
        BY <1>1, <3>1, CopyBounds
      <3>3. /\ cursor' = cursor + CopyLen /\ written' = written + CopyLen
            /\ UNCHANGED <<produced, taken, buffer, pc, npt>>
        BY <2>6 DEF CopyPoints, chanVars
      <3>4. Available' = Available - CopyLen
        BY <2>2, <3>2, <3>3 DEF Available
      <3>5. AtHand = (produced - taken) * FrameLen + Available /\ Available \in Nat
        BY <1>1, <3>1, AtHandSum
      <3>6. AtHand' = (produced - taken) * FrameLen + Available'
        BY <3>1, <3>3 DEF AtHand
      <3>7. npt' - written' <= AtHand'
        BY <2>2, <3>1, <3>2, <3>3, <3>4, <3>5, <3>6
      <3> QED
        BY <3>1, <3>3, <3>7 DEF Suffices
    <2>7. CASE Return
      BY <2>7 DEF Return
    <2>8. CASE Send
      <3>1. /\ produced' = produced + 1
            /\ UNCHANGED <<taken, buffer, cursor, pc, npt, written>>
        BY <2>8 DEF Send, objVars, callVars
      <3>2. AtHand <= AtHand' /\ AtHand' \in Nat
        <4>1. produced \in Nat /\ taken \in Nat
          BY <1>1 DEF FetchInv, TypeOK
        <4>2. \A d, F \in Nat : (d + 1) * F = d * F + F
          OBVIOUS
        <4>3. produced' - taken' = (produced - taken) + 1
          BY <3>1, <4>1
        <4>4. (produced' - taken') * FrameLen = (produced - taken) * FrameLen + FrameLen
          BY <2>2, <4>2, <4>3
        <4>5. Available' = Available
          BY <3>1 DEF Available
        <4>6. CASE buffer = None
          BY <1>1, <2>1, <2>2, <3>1, <4>4, <4>6, AtHandSum DEF AtHand
        <4>7. CASE buffer # None
          <5>1. AtHand = (produced - taken) * FrameLen + Available /\ Available \in Nat
            BY <1>1, <4>7, AtHandSum
          <5>2. AtHand' = (produced' - taken') * FrameLen + Available
            BY <3>1, <4>5, <4>7 DEF AtHand
          <5> QED
            BY <2>2, <4>4, <5>1, <5>2
        <4> QED
          BY <4>6, <4>7
      <3>3. AtHand \in Nat
        BY <1>1, AtHandSum
      <3>4. HasFrame => HasFrame'
        BY <1>1, <3>1 DEF HasFrame, FetchInv, TypeOK
      <3> QED
        BY <2>2, <3>1, <3>2, <3>3, <3>4 DEF Suffices
    <2>9. CASE Begin \/ Stopped
      BY <2>9 DEF Begin, Stopped, Suffices
    <2>10. CASE Hangup \/ UNCHANGED vars
      <3>1. UNCHANGED <<produced, taken, buffer, cursor, pc, npt, written>>
        BY <2>10 DEF Hangup, vars, chanVars, objVars, callVars
      <3> QED
        BY <3>1 DEF Suffices, AtHand, Available, HasFrame
    <2> QED
      BY <1>1, <2>3, <2>4, <2>5, <2>6, <2>7, <2>8, <2>9, <2>10 DEF Next, Fetch
  <1> QED
    BY <1>1, FetchInit, FetchStep, PTL DEF Spec

=============================================================================
