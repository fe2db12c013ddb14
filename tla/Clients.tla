-------------------------------- MODULE Clients --------------------------------
(***************************************************************************)
(* Programs that send a list of commands, one `send_cmd` (SendCmd) after   *)
(* the other.  The tool src/src/bin/send_cmd.rs looks at every summary     *)
(* before it goes on; `init_device` of src/src/sdr.rs, `Sdr::new` after    *)
(* it, and `make_device` of src/src/c_interface.rs go on whatever became   *)
(* of the command before.                                                  *)
(***************************************************************************)
EXTENDS SendCmd

CONSTANTS
  Programs,  \* [careful, script]: TRUE for the tool, and the list of commands
  Queries    \* commands answered with a QueryReply

ASSUME ClientsAssumption ==
  /\ Programs \subseteq [careful : BOOLEAN, script : Seq(Cmds)]
  /\ \A p \in Programs : Len(p.script) <= MaxCall
  /\ Queries \subseteq Cmds
  /\ None \notin {"Ok", "StatAbnormal", "NotAllReplied", "HasInvalidReply"}

VARIABLES
  careful, script,  \* the program that runs
  exit              \* how it ended; None: it has not

progVars   == <<careful, script>>
clientVars == <<vars, progVars, exit>>

ClientInit ==
  /\ Init
  /\ \E p \in Programs : careful = p.careful /\ script = p.script
  /\ exit = None

-----------------------------------------------------------------------------
AllReplied == no_reply = {}

AllWell_AnyReply == AllReplied
AllWell_Careless == TRUE

\* The summary at hand lets the tool go on.
AllWell == AllReplied /\ invalid_reply = <<>>

\* The next command of the list.
NextCall ==
  /\ exit = None
  /\ careful /\ call > 0 => AllWell
  /\ call < Len(script)
  /\ Call
  /\ cmd' = script[call + 1]
  /\ UNCHANGED <<progVars, exit>>

\* A QueryReply may show unlocked clocks or wrong tick counts.  It is looked at
\* before anything else.
StatAbnormal ==
  /\ cmd \in Queries
  /\ normal_reply # <<>>
  /\ exit' = "StatAbnormal"

\* The tool returns on the first summary that is not well, or at the end of the file.
ToolExit ==
  /\ careful
  /\ exit = None
  /\ phase = "idle"
  /\ \/ StatAbnormal
     \/ ~ AllReplied /\ exit' = "NotAllReplied"
     \/ AllReplied /\ ~ AllWell /\ exit' = "HasInvalidReply"
     \/ AllWell /\ call = Len(script) /\ exit' = "Ok"
  /\ UNCHANGED <<vars, progVars>>

\* The others return when the list is at its end (make_device always with `true`).
CarelessExit ==
  /\ ~ careful
  /\ exit = None
  /\ phase = "idle" /\ call = Len(script)
  /\ exit' = "Ok"
  /\ UNCHANGED <<vars, progVars>>

\* The process is gone.
ClientOver == (exit # None \/ Panicked) /\ UNCHANGED clientVars

ClientNext ==
  \/ NextCall \/ ToolExit \/ CarelessExit \/ ClientOver
  \/ (Client \/ ExpectFails \/ Serve) /\ UNCHANGED <<progVars, exit>>

ClientSpec == ClientInit /\ [][ClientNext]_clientVars

-----------------------------------------------------------------------------
(* Properties.                                                             *)

TargetSet == {Targets[k] : k \in 1 .. NTargets}

\* The tool goes through its file in step with every target: whatever is lost or
\* late, a device has executed the first commands of the file in their order, all
\* that were sent before the one under way, and the whole file when the tool
\* returns Ok.
ScriptFollowed ==
  careful => \A d \in TargetSet :
    /\ \A i \in 1 .. Len(executed[d]) : executed[d][i] = i
    /\ Len(executed[d]) + 1 >= call
    /\ exit = "Ok" => Len(executed[d]) = Len(script)

\* Because the tool stops at the first command that is not answered by all, no
\* reply of an earlier call is left to fail the assertion of a later one.  (Of an
\* earlier process there may be one: the port is given on the command line.)
ToolNeverPanics == careful => phase # "assert"

\* Who does not look at the summaries gets no more than this: between two calls, if
\* all so far were answered, every target has executed the commands it knows, in
\* their order, and nothing is left that it might still execute.
AnsweredIsSettled ==
  phase = "idle" /\ ~ unanswered =>
    /\ reqs = {} /\ reps = {}
    /\ \A d \in TargetSet :
         /\ Seen(d) = {c \in 1 .. call : script[c] \in Known}
         /\ \A i, j \in 1 .. Len(executed[d]) : i < j => executed[d][i] < executed[d][j]

=============================================================================
