------------------------------- MODULE MCCapture -------------------------------
(* Capture and Recorders: the command lines that are tried, and the frames. *)
EXTENDS Capture

CONSTANTS MaxNumber

Numbered == [cnt : 0 .. MaxNumber, data : {1}]

\* Windows within and beyond the distance of their starts; files of one frame, of
\* two, and never full; with and without an end.  And a distance of 0.
PipelineLines ==
  [out : {TRUE}, m : {2, 3}, n : {0, 2, 3}, full : {FALSE}, k : {2}, p : {None}] \cup
  [out : {FALSE}, m : {2}, n : {2}, full : {TRUE}, k : {0, 1, 2}, p : {None, 3}] \cup
  [out : {TRUE}, m : {0}, n : {2}, full : BOOLEAN, k : {2}, p : {None}]

DumpLines    == [out : BOOLEAN, s : {None, 0, 1, 2}, p : {None, 0, 3}]
CaptureLines == [out : {TRUE}, m : {2, 3}, n : {0, 2, 4}] \cup [out : {TRUE}, m : {0}, n : {2}]

=============================================================================
