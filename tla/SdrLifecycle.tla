----------------------------- MODULE SdrLifecycle -----------------------------
(***************************************************************************)
(* The life of a device handle of the C interface: what is left of         *)
(* `Sdr::new` when it returns - the receiver thread (RecvPkt) and the      *)
(* channels to it -, the control calls and fetches of the application, and *)
(* `free_sdr_device` with the `Drop` of Sdr, which must get the thread to  *)
(* end before it can join it.                                              *)
(*                                                                         *)
(* A control call is what SendCmd says of it: its command is executed, now *)
(* or at any time later, or it is lost; and any call may panic, on a reply *)
(* it does not expect, on one it cannot decode, or on its socket.  A panic *)
(* does not leave a function of the C interface: it aborts the process.    *)
(* The application is one thread.                                          *)
(***************************************************************************)
EXTENDS RecvPkt

VARIABLES
  owner,       \* the application: "running", a step of FreeOrder, "gone"; "unwrap" and
               \* "panic" if the unwrap of free_sdr_device or a send_cmd aborted it
  streaming    \* the device sends packets

lifeVars == <<vars, owner, streaming>>

\* The order of free_sdr_device: Destroy, rx_payload, then Sdr::drop.
FreeOrder_ReceiverFirst == <<"rx", "destroy", "stop", "join">>
FreeOrder_NoDestroy     == <<"rx", "stop", "join">>
FreeOrder == <<"destroy", "rx", "stop", "join">>

\* From one step of freeing to the next.
Step(s) ==
  \E i \in 1 .. Len(FreeOrder) :
    /\ FreeOrder[i] = s
    /\ owner = s
    /\ owner' = IF i = Len(FreeOrder) THEN "gone" ELSE FreeOrder[i + 1]

\* Sdr::new has sent the commands of the file and StreamStop without looking at the
\* replies; the device may have missed any of them.
LifeInit ==
  /\ Init
  /\ owner = "running"
  /\ streaming \in BOOLEAN

Aborted == owner \in {"unwrap", "panic"}

-----------------------------------------------------------------------------
(* The application.                                                        *)

\* fetch_data_*: the next frame replaces the one at hand.
Fetch ==
  /\ owner = "running"
  /\ Take
  /\ UNCHANGED <<owner, streaming>>

\* The device executes StreamStart or StreamStop.
Starts == Restart /\ streaming' = TRUE
Stops  == UNCHANGED vars /\ streaming' = FALSE

\* What a control call has done when it returns: its effect, or nothing so far.  Its
\* summary is not looked at.
Sent(effect) == effect \/ UNCHANGED <<vars, streaming>>

\* A control call does not return: an assert! or expect() of send_cmd panics.
CallPanics ==
  /\ owner' = "panic"
  /\ UNCHANGED <<vars, streaming>>

\* start_data_stream
StartDataStream ==
  /\ owner = "running"
  /\ \/ Sent(Starts) /\ UNCHANGED owner
     \/ CallPanics

\* stop_data_stream
StopDataStream ==
  /\ owner = "running"
  /\ \/ Sent(Stops) /\ UNCHANGED owner
     \/ CallPanics

\* free_sdr_device is called.
Free ==
  /\ owner = "running"
  /\ owner' = FreeOrder[1]
  /\ UNCHANGED <<vars, streaming>>

\* tx_cmd.send(RecvCmd::Destroy).unwrap()
FreeDestroy ==
  /\ owner = "destroy"
  /\ \/ /\ pc = "done"
        /\ owner' = "unwrap"
        /\ UNCHANGED vars
     \/ /\ SendDestroy
        /\ Step("destroy")
  /\ UNCHANGED streaming

\* drop(rx_payload)
FreeReceiver ==
  /\ DropReceiver
  /\ Step("rx")
  /\ UNCHANGED streaming

\* Sdr::drop: stream_stop(), whose replies nobody looks at.
DropStop ==
  /\ owner = "stop"
  /\ \/ Sent(Stops) /\ Step("stop")
     \/ CallPanics

\* h1.join()
DropJoin ==
  /\ pc = "done"
  /\ Step("join")
  /\ UNCHANGED <<vars, streaming>>

Freeing == FreeDestroy \/ FreeReceiver \/ DropStop \/ DropJoin

-----------------------------------------------------------------------------
\* A command whose call has timed out, or a second copy of a command, reaches the device.
LateCommand ==
  /\ ~ Aborted
  /\ Starts \/ Stops
  /\ UNCHANGED owner

\* The thread and the traffic on the payload socket, as long as the process lives.
LifeThread  == ~ Aborted /\ Thread /\ UNCHANGED <<owner, streaming>>
LifeNetwork ==
  /\ ~ Aborted
  /\ (Emit /\ streaming) \/ Late \/ Foreign \/ Runt
  /\ UNCHANGED <<owner, streaming>>

LifeNext ==
  \/ Fetch \/ StartDataStream \/ StopDataStream \/ Free \/ Freeing
  \/ LateCommand \/ LifeThread \/ LifeNetwork
  \/ (owner = "gone" \/ Aborted) /\ UNCHANGED lifeVars

LifeSpec == LifeInit /\ [][LifeNext]_lifeVars

\* Both threads are scheduled.
FairLifeSpec == LifeSpec /\ WF_lifeVars(LifeThread) /\ WF_lifeVars(Freeing)

-----------------------------------------------------------------------------
(* Properties.                                                             *)

LifeTypeOK ==
  /\ TypeOK
  /\ owner \in {"running", "destroy", "rx", "stop", "join", "gone", "unwrap", "panic"}
  /\ streaming \in BOOLEAN

\* The unwrap() of free_sdr_device holds: until Destroy is sent the thread has no
\* reason to end, whatever it received and however full its channel was.
UnwrapHolds == owner # "unwrap"

\* free_sdr_device never hangs: the thread sees Destroy, with the channel full, the
\* receiver gone, the device silent or still sending - because StreamStop was lost, or a
\* StreamStart comes late - and is joined, unless stream_stop panics before.
FreeReturns == (owner \in {"destroy", "rx"}) ~> (owner \in {"gone", "panic"})

\* Turns that recv_pkt takes at most once it has a Destroy and its receiver is gone.
StepsLeft ==
  CASE pc = "done" -> 0 [] pc = "recv" -> 3 [] pc = "fill" -> 2 [] OTHER -> 1

\* join never waits for more than three turns of the thread, one of them in recv_from:
\* neither a gap that is being filled nor frames left in the channel, nor a device that
\* goes on sending, prolong it - which needs Destroy to be sent and rx_payload to be
\* dropped before, and recv_pkt to look for both.
JoinIsShort ==
  [][(owner \in {"stop", "join"}) /\ pc' # pc => StepsLeft' < StepsLeft]_lifeVars

=============================================================================
