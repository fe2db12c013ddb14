--------------------------- MODULE GapFilledStream ---------------------------
(***************************************************************************)
(* What recv_pkt promises to whoever reads rx_payload, without a thread, a *)
(* socket or a pool: a queue of numbered frames that may go back - the     *)
(* device started over, a packet was late - but never skips a number, and  *)
(* whose frames of zeros only ever continue what came before.              *)
(***************************************************************************)
EXTENDS Naturals, Sequences

CONSTANTS Frames, None

VARIABLES cur, queue, open

vars == <<cur, queue, open>>

Init == cur = None /\ queue = <<>> /\ open = TRUE

\* The last frame of the stream so far: none, the one being read, or the
\* youngest in the queue.
NothingYet == cur = None /\ queue = <<>>
LastCnt    == IF queue = <<>> THEN cur.cnt ELSE queue[Len(queue)].cnt

Put_Skips(f) ==
  /\ open
  /\ f.data = None => ~ NothingYet
  /\ queue' = Append(queue, f)
  /\ UNCHANGED <<cur, open>>

Put(f) ==
  /\ open
  /\ ~ NothingYet => f.cnt <= LastCnt + 1
  /\ f.data = None => ~ NothingYet
  /\ queue' = Append(queue, f)
  /\ UNCHANGED <<cur, open>>

Get ==
  /\ open
  /\ queue # <<>>
  /\ cur' = Head(queue)
  /\ queue' = Tail(queue)
  /\ UNCHANGED open

Close ==
  /\ open
  /\ open' = FALSE
  /\ queue' \in {queue, <<>>}
  /\ UNCHANGED cur

Next == (\E f \in Frames : Put(f)) \/ Get \/ Close

Spec == Init /\ [][Next]_vars

=============================================================================
