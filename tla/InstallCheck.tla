----------------------------- MODULE InstallCheck -----------------------------
(***************************************************************************)
(* scripts/verify_install.py: the commands of an installed wheel, run one  *)
(* after the other in a temporary directory, and its dashboard server,     *)
(* which is started, asked for its health and stopped.                     *)
(*                                                                         *)
(* The commands, the server, the clock and Ctrl-C are external.  The       *)
(* server may exit, answer anything or nothing, and not end when it is     *)
(* told to; and what answers on the port need not be the server, which     *)
(* binds it some time after the script has let go of it.                   *)
(***************************************************************************)
EXTENDS Naturals, Sequences

CONSTANTS MaxTicks  \* how often the clock ticks in the 15 seconds of the server

ASSUME TickAssumption == MaxTicks \in Nat \ {0}

VARIABLES
  at,         \* the command that is next, or where in the server's check it is
  temporary,  \* is the temporary directory there?
  server,     \* the server's process
  ticks,      \* of the clock since it was started
  passed,     \* does what is running through the finally return?
  verdict     \* how the script ended

installVars == <<at, temporary, server, ticks, passed, verdict>>

\* What is run, in its order; "serve" is verify_loopback_server().
Commands ==
  <<"venv", "pip lock", "pip wheel", "version", "locate", "probe", "check miner",
    "check validator", "doctor", "benchmark", "simulate", "report export", "receipt prepare",
    "sign", "receipt create", "receipt verify", "serve", "uninstall", "import">>

Rank(command) == CHOOSE i \in DOMAIN Commands : Commands[i] = command

Trying   == {"loop", "ask", "sleep"}
Stopping == {"finally", "wait", "kill", "last wait"}

InstallInit ==
  /\ at = "contents" /\ temporary = FALSE
  /\ server = "none" /\ ticks = 0 /\ passed = FALSE /\ verdict = "none"

\* The with statement removes the directory, whatever is raised in it; what it
\* cannot remove stays, and that is an error of its own.
Leaves(how) ==
  /\ at' = "ended" /\ temporary' \in {FALSE, temporary}
  /\ verdict' = IF temporary' /\ how = "passed" THEN "failed" ELSE how
  /\ UNCHANGED <<server, ticks, passed>>

Goto(there) == at' = there /\ UNCHANGED <<temporary, verdict>>
-----------------------------------------------------------------------------
\* verify_wheel_contents()
CheckContents ==
  /\ at = "contents"
  /\ \/ at' = Commands[1] /\ temporary' = TRUE /\ UNCHANGED <<server, ticks, passed, verdict>>
     \/ Leaves("failed")

\* A command fails, prints what is no contract of its, or has changed what it
\* should not: the script has no handler.
RunCommand(i) ==
  /\ at = Commands[i] /\ Commands[i] # "serve"
  /\ \/ /\ i < Len(Commands)
        /\ Goto(Commands[i + 1]) /\ UNCHANGED <<server, ticks, passed>>
     \/ Leaves("failed")
     \/ i = Len(Commands) /\ Leaves("passed")
-----------------------------------------------------------------------------
(* verify_loopback_server() *)

Popen ==
  /\ at = "serve"
  /\ \/ server' = "running" /\ ticks' = 0 /\ Goto("loop") /\ UNCHANGED passed
     \/ Leaves("failed")

Raises == Goto("finally") /\ passed' = FALSE /\ UNCHANGED <<server, ticks>>

\* Mutant: the loop is left only by an answer.
LoopForEver ==
  /\ at = "loop"
  /\ IF server # "running" THEN Raises
     ELSE Goto("ask") /\ UNCHANGED <<server, ticks, passed>>

\* The head of the loop: the deadline, and a server that has exited.
Loop ==
  /\ at = "loop"
  /\ IF ticks = MaxTicks \/ server # "running"
     THEN Raises
     ELSE Goto("ask") /\ UNCHANGED <<server, ticks, passed>>

\* What answers is what was expected, or anything else, or it is not to be
\* reached: only that is tried again, and an HTTP error is one of it.
Ask ==
  /\ at = "ask"
  /\ \/ Goto("finally") /\ passed' = TRUE
     \/ Goto("finally") /\ passed' = FALSE
     \/ Goto("sleep") /\ UNCHANGED passed
  /\ UNCHANGED <<server, ticks>>

Sleep == at = "sleep" /\ Goto("loop") /\ UNCHANGED <<server, ticks, passed>>

\* Past the finally the script goes on, or its exception does.
Continues ==
  IF passed
  THEN at' = Commands[Rank("serve") + 1] /\ UNCHANGED <<temporary, server, ticks, passed, verdict>>
  ELSE Leaves("failed")

\* poll() and terminate(), whatever led here.
FinallyStops(told) ==
  /\ at = "finally"
  /\ IF server = "running" /\ told
     THEN Goto("wait") /\ UNCHANGED <<server, ticks, passed>>
     ELSE Continues

\* Mutant: only a server that was healthy is stopped.
FinallyIfHealthy == FinallyStops(passed)

Finally == FinallyStops(TRUE)

\* wait(timeout=5): the server has ended, or it is killed.
Wait ==
  /\ at = "wait"
  /\ IF server = "exited" THEN Continues
     ELSE Goto("kill") /\ UNCHANGED <<server, ticks, passed>>

Kill == at = "kill" /\ Goto("last wait") /\ UNCHANGED <<server, ticks, passed>>

\* Not even the kernel may be rid of it in 5 seconds.
LastWait ==
  /\ at = "last wait"
  /\ IF server = "exited" THEN Continues ELSE Leaves("unreaped")
-----------------------------------------------------------------------------
ServerExits ==
  /\ server = "running"
  /\ server' = "exited"
  /\ UNCHANGED <<at, temporary, ticks, passed, verdict>>

Tick ==
  /\ at \in Trying /\ ticks < MaxTicks
  /\ ticks' = ticks + 1
  /\ UNCHANGED <<at, temporary, server, passed, verdict>>

\* Ctrl-C: in the try the finally runs; in the finally nothing does.
Interrupt ==
  \/ at \in Trying /\ Raises
  \/ at \in Stopping /\ Leaves("interrupted")
  \/ (\E i \in DOMAIN Commands : at = Commands[i]) /\ Leaves("interrupted")

Serving == Popen \/ Loop \/ Ask \/ Sleep \/ Finally \/ Wait \/ Kill \/ LastWait

InstallNext ==
  \/ CheckContents \/ \E i \in DOMAIN Commands : RunCommand(i)
  \/ Serving \/ ServerExits \/ Tick \/ Interrupt

\* The script and the clock go on; commands and server owe them nothing.
InstallFairness == WF_installVars(Serving) /\ WF_installVars(Tick)
-----------------------------------------------------------------------------
\* The script leaves no server running, unless Ctrl-C comes while it stops the
\* server or the kernel cannot end it (verify_install.py:67); one that passes
\* has ended its server and leaves no directory.
NothingLeftRunning ==
  /\ verdict = "passed" => ~temporary /\ server = "exited"
  /\ at = "ended" /\ server = "running" => verdict \in {"interrupted", "unreaped"}
  /\ at \in {"uninstall", "import"} => server = "exited"

\* A server that says nothing does not keep the script: it goes on or ends.
ServerCheckEnds == server = "running" ~> at \notin Trying \cup Stopping
=============================================================================
