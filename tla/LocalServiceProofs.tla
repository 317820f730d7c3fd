-------------------------- MODULE LocalServiceProofs --------------------------
(* What runs around `flopbench serve`, for any number of processes, requests   *)
(* and seeds and any clock: what the service has told it tells again, the      *)
(* accounting of a session follows from its events, a view shows the answer to *)
(* what it asked last, and the install script leaves no server behind.         *)
EXTENDS LocalService, TLAPS

\* Page and service are one behaviour, the script is another, and either may be
\* the one that stands still.
LEMMA Apart ==
  /\ Init => ApiInit /\ PageInit /\ InstallInit
  /\ [Next]_serviceVars => [InstallNext]_installVars
  /\ [Next]_serviceVars =>
       \/ ApiNext /\ UNCHANGED pageVars
       \/ PageNext
       \/ UNCHANGED <<apiVars, pageVars>>
  BY DEF Init, Next, serviceVars
-----------------------------------------------------------------------------
(* The install script *)

Before == {"venv", "pip lock", "pip wheel", "version", "locate", "probe", "check miner",
           "check validator", "doctor", "benchmark", "simulate", "report export",
           "receipt prepare", "sign", "receipt create", "receipt verify"}
After  == {"uninstall", "import"}

\* The server lives from Popen to the end of the finally; past its check it has
\* exited, and only two ends leave it running.
ServerLife ==
  /\ at \in {"contents"} \cup Before => server = "none"
  /\ at = "serve" => server = "none"
  /\ at \in Trying \cup Stopping => server \in {"running", "exited"}
  /\ at \in After => server = "exited"
  /\ at = "ended" /\ server = "running" => verdict \in {"interrupted", "unreaped"}

InstallInv ==
  /\ at \in {"contents", "serve", "ended"} \cup Before \cup After \cup Trying \cup Stopping
  /\ at # "ended" => verdict = "none"
  /\ verdict = "passed" => ~temporary /\ server = "exited"
  /\ ServerLife

\* The command that follows one before the server's check comes before it too
\* or is it; past it there are two more.
LEMMA CommandOrder ==
  /\ \A i \in DOMAIN Commands : Commands[i] \in {"serve"} \cup Before \cup After
  /\ \A i \in DOMAIN Commands : i < Len(Commands) /\ Commands[i] \in Before =>
       Commands[i + 1] \in {"serve"} \cup Before
  /\ \A i \in DOMAIN Commands : i < Len(Commands) /\ Commands[i] \in After =>
       Commands[i + 1] \in After
  /\ Commands[Rank("serve") + 1] = "uninstall"
  /\ Commands[Len(Commands)] \in After
<1>1. DOMAIN Commands = 1..19 /\ Len(Commands) = 19
  BY DEF Commands
<1>2. /\ Commands[1] = "venv" /\ Commands[2] = "pip lock" /\ Commands[3] = "pip wheel"
      /\ Commands[4] = "version" /\ Commands[5] = "locate" /\ Commands[6] = "probe"
      /\ Commands[7] = "check miner" /\ Commands[8] = "check validator"
      /\ Commands[9] = "doctor" /\ Commands[10] = "benchmark" /\ Commands[11] = "simulate"
      /\ Commands[12] = "report export" /\ Commands[13] = "receipt prepare"
      /\ Commands[14] = "sign" /\ Commands[15] = "receipt create"
      /\ Commands[16] = "receipt verify" /\ Commands[17] = "serve"
      /\ Commands[18] = "uninstall" /\ Commands[19] = "import"
  BY DEF Commands
<1>3. Commands[17] = "serve" /\ Commands[18] = "uninstall"
  BY DEF Commands
<1>4. ASSUME NEW i \in 1..16 PROVE Commands[i] \in Before
  <2>1. \/ i = 1 \/ i = 2 \/ i = 3 \/ i = 4 \/ i = 5 \/ i = 6 \/ i = 7 \/ i = 8 \/ i = 9
        \/ i = 10 \/ i = 11 \/ i = 12 \/ i = 13 \/ i = 14 \/ i = 15 \/ i = 16
    OBVIOUS
  <2> QED
    BY <1>2, <2>1 DEF Before
<1>5. ASSUME NEW i \in 18..19 PROVE Commands[i] \in After /\ Commands[i] \notin Before
  <2>1. i = 18 \/ i = 19
    OBVIOUS
  <2> QED
    BY <1>2, <2>1 DEF After, Before
<1>6. Commands[17] \notin Before \cup After
  BY <1>3 DEF Before, After
<1>7. Before \cap After = {} /\ "serve" \notin Before \cup After
  BY DEF Before, After
<1>8. ASSUME NEW i \in 1..19 PROVE i \in 1..16 \/ i \in 18..19 \/ i = 17
  OBVIOUS
<1>9. ASSUME NEW i \in 1..19, Commands[i] = "serve" PROVE i = 17
  <2>1. CASE i \in 1..16
    BY <1>4, <1>7, <1>9, <2>1
  <2>2. CASE i \in 18..19
    BY <1>5, <1>7, <1>9, <2>2
  <2> QED
    BY <1>8, <2>1, <2>2
<1>10. Rank("serve") = 17
  <2>1. 17 \in DOMAIN Commands /\ Commands[17] = "serve"
    BY <1>1, <1>3
  <2>2. Rank("serve") \in DOMAIN Commands /\ Commands[Rank("serve")] = "serve"
    BY <2>1, Zenon DEF Rank
  <2> QED
    BY <1>1, <1>9, <2>2
<1>11. ASSUME NEW i \in 1..19, i < 19, Commands[i] \in Before PROVE i + 1 \in 1..16 \/ i + 1 = 17
  BY <1>5, <1>6, <1>8, <1>11
<1>12. ASSUME NEW i \in 1..19, i < 19, Commands[i] \in After PROVE i + 1 \in 18..19
  BY <1>4, <1>6, <1>7, <1>8, <1>12
<1>13. ASSUME NEW i \in 1..19 PROVE Commands[i] \in {"serve"} \cup Before \cup After
  <2>1. CASE i \in 1..16
    BY <1>4, <2>1
  <2>2. CASE i \in 18..19
    BY <1>5, <2>2
  <2> QED
    BY <1>3, <1>8, <2>1, <2>2
<1>14. \A i \in 1..19 : i < 19 /\ Commands[i] \in Before => Commands[i + 1] \in {"serve"} \cup Before
  BY <1>3, <1>4, <1>11
<1>15. \A i \in 1..19 : i < 19 /\ Commands[i] \in After => Commands[i + 1] \in After
  BY <1>5, <1>12
<1>16. Commands[Rank("serve") + 1] = "uninstall"
  BY <1>3, <1>10
<1>17. Commands[19] \in After
  BY <1>5
<1> QED
  BY <1>1, <1>13, <1>14, <1>15, <1>16, <1>17

\* A command runs before the server is started or after it has exited.
LEMMA CommandStep ==
  ASSUME InstallInv, NEW i \in DOMAIN Commands, RunCommand(i)
  PROVE  InstallInv'
<1> USE DEF InstallInv, ServerLife, Trying, Stopping
<1>1. Commands[i] \in Before \cup After /\ at = Commands[i]
  BY CommandOrder DEF RunCommand
<1>2. CASE i < Len(Commands) /\ Goto(Commands[i + 1]) /\ UNCHANGED <<server, ticks, passed>>
  BY <1>1, <1>2, CommandOrder DEF Goto, Before, After
<1>3. CASE Leaves("failed")
  BY <1>1, <1>3 DEF Leaves, Before, After
<1>4. CASE i = Len(Commands) /\ Leaves("passed")
  <2>1. at \in After /\ server = "exited"
    BY <1>1, <1>4, CommandOrder
  <2> QED
    BY <2>1, <1>4 DEF Leaves, Before, After
<1> QED
  BY <1>2, <1>3, <1>4 DEF RunCommand

\* Whoever goes on or leaves past the finally has seen that the server exited.
LEMMA ContinuesStep ==
  ASSUME InstallInv, at \in Stopping, server # "running", Continues
  PROVE  InstallInv'
  BY CommandOrder DEF InstallInv, ServerLife, Trying, Stopping, Continues, Leaves, Before, After

LEMMA ServingStep ==
  ASSUME InstallInv, Serving
  PROVE  InstallInv'
<1> USE DEF InstallInv, ServerLife, Trying, Stopping, Before, After, Goto, Leaves, Raises
<1>1. CASE Popen
  BY <1>1 DEF Popen
<1>2. CASE Loop
  BY <1>2 DEF Loop
<1>3. CASE Ask
  BY <1>3 DEF Ask
<1>4. CASE Sleep
  BY <1>4 DEF Sleep
<1>5. CASE Finally
  <2>1. CASE server = "running"
    BY <1>5, <2>1 DEF Finally, FinallyStops
  <2>2. CASE server # "running"
    BY <1>5, <2>2, ContinuesStep DEF Finally, FinallyStops
  <2> QED
    BY <2>1, <2>2
<1>6. CASE Wait
  <2>1. CASE server = "exited"
    BY <1>6, <2>1, ContinuesStep DEF Wait
  <2>2. CASE server # "exited"
    BY <1>6, <2>2 DEF Wait
  <2> QED
    BY <2>1, <2>2
<1>7. CASE Kill
  BY <1>7 DEF Kill
<1>8. CASE LastWait
  <2>1. CASE server = "exited"
    BY <1>8, <2>1, ContinuesStep DEF LastWait
  <2>2. CASE server # "exited"
    BY <1>8, <2>2 DEF LastWait
  <2> QED
    BY <2>1, <2>2
<1> QED
  BY <1>1, <1>2, <1>3, <1>4, <1>5, <1>6, <1>7, <1>8 DEF Serving

LEMMA InstallStep ==
  ASSUME InstallInv, [InstallNext]_installVars
  PROVE  InstallInv'
<1> USE DEF InstallInv, ServerLife, Trying, Stopping, Before, After, Leaves
<1>1. CASE CheckContents
  BY <1>1, Commands[1] = "venv" DEF CheckContents, Commands
<1>2. ASSUME NEW i \in DOMAIN Commands, RunCommand(i) PROVE InstallInv'
  BY <1>2, CommandStep
<1>3. CASE Serving
  BY <1>3, ServingStep
<1>4. CASE ServerExits
  BY <1>4 DEF ServerExits
<1>5. CASE Tick
  BY <1>5 DEF Tick
<1>6. CASE Interrupt
  BY <1>6, CommandOrder DEF Interrupt, Raises, Goto
<1>7. CASE UNCHANGED installVars
  BY <1>7 DEF installVars
<1> QED
  BY <1>1, <1>2, <1>3, <1>4, <1>5, <1>6, <1>7 DEF InstallNext

\* The script leaves no server unless Ctrl-C came while it stopped it or the
\* kernel could not end it, and one that passes no directory either.
THEOREM ServerIsStopped == Spec => []NothingLeftRunning
<1>1. InstallInit => InstallInv
  BY DEF InstallInit, InstallInv, ServerLife, Trying, Stopping, Before, After
<1>2. InstallInv => NothingLeftRunning
  BY DEF InstallInv, ServerLife, NothingLeftRunning, After
<1> QED
  BY Apart, InstallStep, <1>1, <1>2, PTL DEF Spec
-----------------------------------------------------------------------------
(* Sessions *)

\* The machine after one step more.
LEMMA CourseSteps ==
  ASSUME NEW steps, Len(steps) \in 0..7
  PROVE  /\ Course(steps)[0] = NewMachine
         /\ \A n \in 1..Len(steps) : Course(steps)[n] = Transition(Course(steps)[n - 1], steps[n])
<1> DEFINE m0 == NewMachine
           m1 == Transition(m0, steps[1])
           m2 == Transition(m1, steps[2])
           m3 == Transition(m2, steps[3])
           m4 == Transition(m3, steps[4])
           m5 == Transition(m4, steps[5])
           m6 == Transition(m5, steps[6])
           m7 == Transition(m6, steps[7])
           machine == [n \in 0..Len(steps) |->
                         CASE n = 0 -> m0 [] n = 1 -> m1 [] n = 2 -> m2 [] n = 3 -> m3
                           [] n = 4 -> m4 [] n = 5 -> m5 [] n = 6 -> m6 [] OTHER -> m7]
           Is(f) == f = [n \in 0..Len(steps) |->
                           IF n = 0 THEN NewMachine ELSE Transition(f[n - 1], steps[n])]
<1>0. \A k \in 0..7 : \A n \in 0..k :
        n = 0 \/ n = 1 \/ n = 2 \/ n = 3 \/ n = 4 \/ n = 5 \/ n = 6 \/ n = 7
  OBVIOUS
<1>1. machine = [n \in 0..Len(steps) |->
                   IF n = 0 THEN NewMachine ELSE Transition(machine[n - 1], steps[n])]
  <2>1. ASSUME NEW n \in 0..Len(steps)
        PROVE  machine[n] = IF n = 0 THEN NewMachine ELSE Transition(machine[n - 1], steps[n])
    <3>1. n = 0 \/ n = 1 \/ n = 2 \/ n = 3 \/ n = 4 \/ n = 5 \/ n = 6 \/ n = 7
      BY <1>0
    <3> QED
      BY <3>1
  <2>2. machine = [n \in 0..Len(steps) |-> machine[n]]
    OBVIOUS
  <2> HIDE DEF machine
  <2> QED
    BY <2>1, <2>2
<1>2. Is(machine)
  BY <1>1
<1> HIDE DEF machine
<1>3. Is(CHOOSE f : Is(f))
  BY <1>2, Zenon
<1>4. Course(steps) = CHOOSE f : Is(f)
  BY DEF Course
<1>5. Is(Course(steps))
  BY <1>3, <1>4
<1> QED
  BY <1>5

SessionEvents == [from : SessionState \cup {"none"}, to : SessionState]
Machines      == [state : SessionState, events : Seq(SessionEvents), raised : BOOLEAN]

\* A machine that has come by the table, event by event, through these states.
CameBy(machine, visited) ==
  LET last == Len(machine.events)
  IN  /\ machine \in Machines /\ ~machine.raised
      /\ last > 0 /\ machine.events[last].to = machine.state
      /\ \A i \in 2..last :
           /\ machine.events[i].from = machine.events[i - 1].to
           /\ machine.events[i].to \in AllowedTransitions[machine.events[i].from]
      /\ \A s : Visits(machine, s) <=> s \in visited

\* A transition of the table adds its event and its state and nothing else.
LEMMA ComesOn ==
  ASSUME NEW machine, NEW visited, CameBy(machine, visited),
         NEW to \in SessionState, to \in AllowedTransitions[machine.state]
  PROVE  /\ CameBy(Transition(machine, to), visited \cup {to})
         /\ Transition(machine, to).state = to
<1> DEFINE event == Event(machine.state, to)
           next  == Transition(machine, to)
           last  == Len(machine.events)
<1>1. machine \in Machines /\ ~machine.raised /\ last \in Nat \ {0}
  BY DEF CameBy, Machines
<1>2. next = [machine EXCEPT !.state = to, !.events = Append(@, event)]
  BY <1>1 DEF Transition
<1>3. /\ next.state = to /\ next.events = Append(machine.events, event)
      /\ next.raised = machine.raised
  BY <1>1, <1>2 DEF Machines
<1>4. event \in SessionEvents /\ event.from = machine.state /\ event.to = to
  BY <1>1 DEF Machines, SessionEvents, Event
<1>5. next \in Machines
  <2>1. Append(machine.events, event) \in Seq(SessionEvents)
    BY <1>1, <1>4 DEF Machines
  <2>2. next = [state |-> to, events |-> Append(machine.events, event), raised |-> machine.raised]
    BY <1>1, <1>2 DEF Machines
  <2> QED
    BY <1>1, <2>1, <2>2 DEF Machines
<1>6. /\ Len(next.events) = last + 1 /\ next.events[last + 1] = event
      /\ \A i \in 1..last : next.events[i] = machine.events[i]
      /\ DOMAIN machine.events = 1..last /\ DOMAIN next.events = 1..(last + 1)
  BY <1>1, <1>3, <1>4 DEF Machines
<1> HIDE DEF event, next, last
<1>7. ASSUME NEW i \in 2..Len(next.events)
      PROVE  /\ next.events[i].from = next.events[i - 1].to
             /\ next.events[i].to \in AllowedTransitions[next.events[i].from]
  <2>1. CASE i = last + 1
    BY <1>1, <1>4, <1>6, <2>1 DEF CameBy, last
  <2>2. CASE i # last + 1
    <3>1. i \in 2..last /\ i \in 1..last /\ i - 1 \in 1..last
      BY <1>1, <1>6, <2>2
    <3> QED
      BY <1>6, <3>1 DEF CameBy, last
  <2> QED
    BY <2>1, <2>2
<1>8. ASSUME NEW s PROVE Visits(next, s) <=> s \in visited \cup {to}
  <2>1. ASSUME NEW i \in 1..(last + 1), next.events[i].to = s PROVE Visits(machine, s) \/ s = to
    <3>1. i \in 1..last \/ i = last + 1
      BY <1>1
    <3> QED
      BY <1>4, <1>6, <2>1, <3>1 DEF Visits
  <2>2. ASSUME NEW i \in 1..last PROVE i \in 1..(last + 1) /\ next.events[i] = machine.events[i]
    BY <1>1, <1>6
  <2>3. last + 1 \in 1..(last + 1)
    BY <1>1
  <2>4. Visits(next, s) <=> Visits(machine, s) \/ s = to
    BY <1>4, <1>6, <2>1, <2>2, <2>3 DEF Visits
  <2> QED
    BY <2>4 DEF CameBy
<1>9. CameBy(next, visited \cup {to})
  BY <1>1, <1>3, <1>4, <1>5, <1>6, <1>7, <1>8 DEF CameBy
<1> QED
  BY <1>3, <1>9 DEF next

Disputed == {"wrong-model", "high-latency", "canned-answer", "validator-mismatch"}
Accepted == {"success", "validator-match"}

\* The four paths.
LEMMA Paths ==
  /\ Steps("miner-cancel") = <<"offered", "accepted", "running", "cancelled">>
  /\ Steps("timeout") = <<"offered", "accepted", "running", "timed_out">>
  /\ \A s \in Accepted : Steps(s) =
       <<"offered", "accepted", "running", "submitted", "validating", "settled">>
  /\ \A s \in Disputed : Steps(s) =
       <<"offered", "accepted", "running", "submitted", "validating", "challenged", "rejected">>
  BY DEF Steps, Reason, Accepted, Disputed

\* A machine begins where it was created.
LEMMA Begun == CameBy(NewMachine, {"created"})
<1>1. NewMachine \in Machines
  BY DEF NewMachine, Machines, Event, SessionEvents, SessionState, AllowedTransitions
<1>2. Len(NewMachine.events) = 1 /\ NewMachine.events[1].to = "created" /\ ~NewMachine.raised
      /\ NewMachine.state = "created" /\ DOMAIN NewMachine.events = 1..1
  BY DEF NewMachine, Event
<1> QED
  BY <1>1, <1>2 DEF CameBy, Visits

LEMMA Table ==
  /\ "offered" \in AllowedTransitions["created"] /\ "accepted" \in AllowedTransitions["offered"]
  /\ "running" \in AllowedTransitions["accepted"] /\ "cancelled" \in AllowedTransitions["running"]
  /\ "timed_out" \in AllowedTransitions["running"]
  /\ "submitted" \in AllowedTransitions["running"]
  /\ "validating" \in AllowedTransitions["submitted"]
  /\ "settled" \in AllowedTransitions["validating"]
  /\ "challenged" \in AllowedTransitions["validating"]
  /\ "rejected" \in AllowedTransitions["challenged"]
  /\ {"created", "offered", "accepted", "running", "cancelled", "timed_out", "submitted",
      "validating", "settled", "challenged", "rejected"} \subseteq SessionState
  BY DEF AllowedTransitions, SessionState

\* All paths begin alike.
LEMMA FirstThree ==
  ASSUME NEW steps, Len(steps) \in 3..7,
         steps[1] = "offered", steps[2] = "accepted", steps[3] = "running"
  PROVE  /\ CameBy(Course(steps)[3], {"created", "offered", "accepted", "running"})
         /\ Course(steps)[3].state = "running"
<1> DEFINE m == Course(steps)
<1>1. m[0] = NewMachine /\ m[1] = Transition(m[0], "offered") /\ m[2] = Transition(m[1], "accepted")
      /\ m[3] = Transition(m[2], "running")
  <2>1. Len(steps) \in 0..7 /\ 1 \in 1..Len(steps) /\ 2 \in 1..Len(steps) /\ 3 \in 1..Len(steps)
    OBVIOUS
  <2> QED
    BY <2>1, CourseSteps
<1> DEFINE v1 == {"created"} \cup {"offered"}
           v2 == v1 \cup {"accepted"}
           v3 == v2 \cup {"running"}
<1> HIDE DEF m
<1>2. CameBy(m[0], {"created"}) /\ m[0].state = "created"
  BY <1>1, Begun DEF NewMachine
<1>3. CameBy(m[1], v1) /\ m[1].state = "offered"
  BY <1>1, <1>2, ComesOn, Table
<1>4. CameBy(m[2], v2) /\ m[2].state = "accepted"
  <2> HIDE DEF v1
  <2> QED
    BY <1>1, <1>3, ComesOn, Table
<1>5. CameBy(m[3], v3) /\ m[3].state = "running"
  <2> HIDE DEF v2
  <2>1. "running" \in SessionState /\ "running" \in AllowedTransitions[m[2].state]
    BY <1>4, Table
  <2>2. CameBy(Transition(m[2], "running"), v2 \cup {"running"})
        /\ Transition(m[2], "running").state = "running"
    BY <1>4, <2>1, ComesOn
  <2> QED
    BY <1>1, <2>2
<1>6. v3 = {"created", "offered", "accepted", "running"}
  OBVIOUS
<1> QED
  BY <1>5, <1>6 DEF m

\* A path that ends after one more transition, or after three, or four.
LEMMA EndsWithOne ==
  ASSUME NEW end \in {"cancelled", "timed_out"}
  PROVE  LET steps == <<"offered", "accepted", "running", end>>
         IN  CameBy(Course(steps)[4], {"created", "offered", "accepted", "running", end})
             /\ Course(steps)[4].state = end
<1> DEFINE steps == <<"offered", "accepted", "running", end>>
           m     == Course(steps)
           v3    == {"created", "offered", "accepted", "running"}
<1>1. /\ Len(steps) = 4 /\ steps[1] = "offered" /\ steps[2] = "accepted"
      /\ steps[3] = "running" /\ steps[4] = end
  OBVIOUS
<1> HIDE DEF steps
<1>2. CameBy(m[3], v3) /\ m[3].state = "running"
  BY <1>1, FirstThree
<1>3. m[4] = Transition(m[3], end)
  BY <1>1, CourseSteps
<1> HIDE DEF m, v3
<1>4. end \in SessionState /\ end \in AllowedTransitions[m[3].state]
  BY <1>2, Table
<1>5. CameBy(m[4], v3 \cup {end}) /\ m[4].state = end
  BY <1>2, <1>3, <1>4, ComesOn
<1>6. v3 \cup {end} = {"created", "offered", "accepted", "running", end}
  BY DEF v3
<1> QED
  BY <1>5, <1>6 DEF m, steps

LEMMA EndsWithMore ==
  ASSUME NEW steps, Len(steps) \in 6..7,
         steps[1] = "offered", steps[2] = "accepted", steps[3] = "running",
         steps[4] = "submitted", steps[5] = "validating"
  PROVE  /\ CameBy(Course(steps)[5],
                   {"created", "offered", "accepted", "running", "submitted", "validating"})
         /\ Course(steps)[5].state = "validating"
<1> DEFINE m  == Course(steps)
           v3 == {"created", "offered", "accepted", "running"}
           v4 == v3 \cup {"submitted"}
<1>1. m[4] = Transition(m[3], "submitted") /\ m[5] = Transition(m[4], "validating")
  <2>1. Len(steps) \in 0..7 /\ 4 \in 1..Len(steps) /\ 5 \in 1..Len(steps)
    OBVIOUS
  <2> QED
    BY <2>1, CourseSteps
<1>2. CameBy(m[3], v3) /\ m[3].state = "running"
  BY FirstThree
<1> HIDE DEF m, v3
<1>3. CameBy(m[4], v4) /\ m[4].state = "submitted"
  <2>1. "submitted" \in SessionState /\ "submitted" \in AllowedTransitions[m[3].state]
    BY <1>2, Table
  <2>2. CameBy(Transition(m[3], "submitted"), v3 \cup {"submitted"})
        /\ Transition(m[3], "submitted").state = "submitted"
    BY <1>2, <2>1, ComesOn
  <2> QED
    BY <1>1, <2>2
<1> HIDE DEF v4
<1>4. "validating" \in SessionState /\ "validating" \in AllowedTransitions[m[4].state]
  BY <1>3, Table
<1>5. CameBy(m[5], v4 \cup {"validating"}) /\ m[5].state = "validating"
  BY <1>1, <1>3, <1>4, ComesOn
<1>6. v4 \cup {"validating"}
        = {"created", "offered", "accepted", "running", "submitted", "validating"}
  BY DEF v3, v4
<1> QED
  BY <1>5, <1>6 DEF m

\* How each scenario ends, and what it visits.
Ends == {"cancelled", "timed_out", "settled", "rejected"}

EndsIn(scenario, end, visited) ==
  LET machine == Course(Steps(scenario))[Len(Steps(scenario))]
  IN  CameBy(machine, visited) /\ machine.state = end

LEMMA Endings ==
  /\ EndsIn("miner-cancel", "cancelled", {"created", "offered", "accepted", "running", "cancelled"})
  /\ EndsIn("timeout", "timed_out", {"created", "offered", "accepted", "running", "timed_out"})
  /\ \A s \in Accepted :
       EndsIn(s, "settled", {"created", "offered", "accepted", "running", "submitted",
                             "validating", "settled"})
  /\ \A s \in Disputed :
       EndsIn(s, "rejected", {"created", "offered", "accepted", "running", "submitted",
                              "validating", "challenged", "rejected"})
<1>1. EndsIn("miner-cancel", "cancelled", {"created", "offered", "accepted", "running", "cancelled"})
  BY Paths, EndsWithOne DEF EndsIn
<1>2. EndsIn("timeout", "timed_out", {"created", "offered", "accepted", "running", "timed_out"})
  BY Paths, EndsWithOne DEF EndsIn
<1> DEFINE v5 == {"created", "offered", "accepted", "running", "submitted", "validating"}
<1>3. ASSUME NEW s \in Accepted
      PROVE  EndsIn(s, "settled", {"created", "offered", "accepted", "running", "submitted",
                                   "validating", "settled"})
  <2> DEFINE steps == <<"offered", "accepted", "running", "submitted", "validating", "settled">>
             m     == Course(steps)
  <2>1. Steps(s) = steps
    BY Paths
  <2>2. /\ Len(steps) = 6 /\ steps[1] = "offered" /\ steps[2] = "accepted"
        /\ steps[3] = "running" /\ steps[4] = "submitted" /\ steps[5] = "validating"
        /\ steps[6] = "settled"
    OBVIOUS
  <2> HIDE DEF steps
  <2>3. CameBy(m[5], v5) /\ m[5].state = "validating"
    BY <2>2, EndsWithMore
  <2>4. m[6] = Transition(m[5], "settled")
    <3>1. Len(steps) \in 0..7 /\ 6 \in 1..Len(steps)
      BY <2>2
    <3>2. Course(steps)[6] = Transition(Course(steps)[6 - 1], steps[6])
      BY <3>1, CourseSteps
    <3> QED
      BY <2>2, <3>2
  <2> HIDE DEF m, v5
  <2>5. "settled" \in SessionState /\ "settled" \in AllowedTransitions[m[5].state]
    BY <2>3, Table
  <2>6. CameBy(m[6], v5 \cup {"settled"}) /\ m[6].state = "settled"
    BY <2>3, <2>4, <2>5, ComesOn
  <2>7. v5 \cup {"settled"} = {"created", "offered", "accepted", "running", "submitted",
                               "validating", "settled"}
    BY DEF v5
  <2> QED
    BY <2>1, <2>2, <2>6, <2>7 DEF EndsIn, m
<1>4. ASSUME NEW s \in Disputed
      PROVE  EndsIn(s, "rejected", {"created", "offered", "accepted", "running", "submitted",
                                    "validating", "challenged", "rejected"})
  <2> DEFINE steps == <<"offered", "accepted", "running", "submitted", "validating",
                        "challenged", "rejected">>
             m     == Course(steps)
             v6    == v5 \cup {"challenged"}
  <2>1. Steps(s) = steps
    BY Paths
  <2>2. /\ Len(steps) = 7 /\ steps[1] = "offered" /\ steps[2] = "accepted"
        /\ steps[3] = "running" /\ steps[4] = "submitted" /\ steps[5] = "validating"
        /\ steps[6] = "challenged" /\ steps[7] = "rejected"
    OBVIOUS
  <2> HIDE DEF steps
  <2>3. CameBy(m[5], v5) /\ m[5].state = "validating"
    BY <2>2, EndsWithMore
  <2>4. m[6] = Transition(m[5], "challenged") /\ m[7] = Transition(m[6], "rejected")
    <3>1. Len(steps) \in 0..7 /\ 6 \in 1..Len(steps) /\ 7 \in 1..Len(steps)
      BY <2>2
    <3>2. /\ Course(steps)[6] = Transition(Course(steps)[6 - 1], steps[6])
          /\ Course(steps)[7] = Transition(Course(steps)[7 - 1], steps[7])
      BY <3>1, CourseSteps
    <3> QED
      BY <2>2, <3>2
  <2> HIDE DEF m, v5
  <2>5. "challenged" \in SessionState /\ "challenged" \in AllowedTransitions[m[5].state]
    BY <2>3, Table
  <2>6. CameBy(m[6], v6) /\ m[6].state = "challenged"
    BY <2>3, <2>4, <2>5, ComesOn
  <2> HIDE DEF v6
  <2>7. "rejected" \in SessionState /\ "rejected" \in AllowedTransitions[m[6].state]
    BY <2>6, Table
  <2>8. CameBy(m[7], v6 \cup {"rejected"}) /\ m[7].state = "rejected"
    BY <2>4, <2>6, <2>7, ComesOn
  <2>9. v6 \cup {"rejected"} = {"created", "offered", "accepted", "running", "submitted",
                                "validating", "challenged", "rejected"}
    BY DEF v5, v6
  <2> QED
    BY <2>1, <2>2, <2>8, <2>9 DEF EndsIn, m
<1> QED
  BY <1>1, <1>2, <1>3, <1>4

\* The accounting of a scenario is that of its end and of what it visits.
LEMMA ScenariosAccounted ==
  ASSUME NEW s \in Scenarios
  PROVE  Accounted(RunSimulation(s)) /\ ~RunSimulation(s).raised /\ RunSimulation(s).scenario = s
<1> DEFINE machine == Course(Steps(s))[Len(Steps(s))]
           result  == RunSimulation(s)
<1>1. /\ result.events = machine.events /\ result.raised = machine.raised /\ result.scenario = s
      /\ result.challenge = Challenge(s) /\ result.accounting = Accounting(machine.state)
  BY DEF RunSimulation
<1>2. \A x : Visits(result, x) <=> Visits(machine, x)
  BY <1>1 DEF Visits
<1> HIDE DEF machine, result
<1>3. PICK end, visited :
        /\ end \in Ends /\ CameBy(machine, visited) /\ machine.state = end
        /\ "settled" \in visited <=> end = "settled"
        /\ "challenged" \in visited <=> end = "rejected"
        /\ Challenge(s) # "none" <=> end = "rejected"
  <2>1. CASE s = "miner-cancel"
    BY <2>1, Endings DEF EndsIn, Ends, Challenge, machine
  <2>2. CASE s = "timeout"
    BY <2>2, Endings DEF EndsIn, Ends, Challenge, machine
  <2>3. CASE s \in Accepted
    BY <2>3, Endings DEF EndsIn, Ends, Challenge, Reason, Accepted, machine
  <2>4. CASE s \in Disputed
    BY <2>4, Endings DEF EndsIn, Ends, Challenge, Reason, Disputed, machine
  <2> QED
    BY <2>1, <2>2, <2>3, <2>4 DEF Scenarios, Accepted, Disputed
<1>4. AllowedTransitions[end] = {}
  BY <1>3 DEF Ends, AllowedTransitions
<1>5. /\ Accounting(end).charged > 0 <=> end = "settled"
      /\ Accounting(end).slashed > 0 <=> end = "rejected"
      /\ Accounting(end).slashed + Accounting(end).refunded = MockStake
  BY <1>3 DEF Ends, Accounting, AccountingIf, RequestedFee, MockStake, MockSlash
<1> QED
  BY <1>1, <1>2, <1>3, <1>4, <1>5 DEF Accounted, CameBy, result
-----------------------------------------------------------------------------
(* The service *)

Plain == {"miner", "validator", "preview", "benchmarks"}
Asked == [path : Plain] \cup [path : {"simulations", "detail"}, scenario : Scenarios, seed : Seeds]

Answered == {None, Success, Failure} \cup {RunSimulation(s) : s \in Scenarios}
Stages   == {"sent", "handled", "computed", "answered"}
Ids      == Int \ {0}
Requests == [id : Ids, ask : Asked, token : Nat, stage : Stages, answer : Answered]

\* What is on its way to be kept or shown is the session of what was asked.
Sane(c) ==
  /\ c \in Requests
  /\ c.ask.path = "simulations" =>
       /\ c.stage = "computed" => c.answer = RunSimulation(c.ask.scenario)
       /\ c.stage = "answered" => c.answer \in {Failure, RunSimulation(c.ask.scenario)}

CallsSane ==
  /\ serial \in 0..MaxCalls
  /\ started \in Nat /\ process \in Nat
  /\ \A c \in calls : Sane(c) /\ c.id <= serial

\* A session that is kept under an id is the one that the id is made of.
StoreSane ==
  \A id \in DOMAIN simulations : \E s \in Scenarios, n \in Seeds :
    id = SessionId(s, n) /\ simulations[id] = RunSimulation(s)

\* Also of a process that has ended: nothing is read of it any more.
ToldSane ==
  \A t \in told :
    t.id \in benchmarks \/ (t.id \in DOMAIN simulations /\ simulations[t.id] = t.answer)

ApiInv == CallsSane /\ StoreSane /\ ToldSane

\* Simulations and their details ask for a scenario; nothing else has an answer
\* that is a session.
LEMMA AskedParts ==
  ASSUME NEW ask \in Asked
  PROVE  /\ ask.path \in Plain \cup {"simulations", "detail"}
         /\ ask.path \in {"simulations", "detail"} => ask.scenario \in Scenarios /\ ask.seed \in Seeds
  BY DEF Asked, Plain

\* An id is of one scenario.
LEMMA OneScenario ==
  ASSUME NEW s, NEW n, NEW t, NEW k, SessionId(s, n) = SessionId(t, k)
  PROVE  s = t
  BY DEF SessionId

\* A request that goes on keeps its id and what it asks.
LEMMA StageGoesOn ==
  ASSUME NEW c \in Requests, NEW stage \in Stages
  PROVE  /\ [c EXCEPT !.stage = stage] \in Requests
         /\ [c EXCEPT !.stage = stage].id = c.id /\ [c EXCEPT !.stage = stage].ask = c.ask
         /\ [c EXCEPT !.stage = stage].stage = stage
         /\ [c EXCEPT !.stage = stage].answer = c.answer
  BY DEF Requests

LEMMA CallGoesOn ==
  ASSUME NEW c \in Requests, NEW stage \in Stages, NEW answer \in Answered
  PROVE  /\ [c EXCEPT !.stage = stage, !.answer = answer] \in Requests
         /\ [c EXCEPT !.stage = stage, !.answer = answer].id = c.id
         /\ [c EXCEPT !.stage = stage, !.answer = answer].ask = c.ask
         /\ [c EXCEPT !.stage = stage, !.answer = answer].stage = stage
         /\ [c EXCEPT !.stage = stage, !.answer = answer].answer = answer
  BY DEF Requests

LEMMA FailedCall ==
  ASSUME NEW c, Sane(c)
  PROVE  Sane(Failed(c)) /\ Failed(c).id = c.id /\ Failed(c).ask = c.ask
<1>1. c \in Requests /\ Failure \in Answered /\ "answered" \in Stages
  BY DEF Sane, Answered, Stages
<1>2. Failed(c) \in Requests /\ Failed(c).id = c.id /\ Failed(c).ask = c.ask
      /\ Failed(c).stage = "answered" /\ Failed(c).answer = Failure
  <2> DEFINE d == [c EXCEPT !.stage = "answered", !.answer = Failure]
  <2>1. Failed(c) = d
    BY DEF Failed
  <2>2. d \in Requests /\ d.id = c.id /\ d.ask = c.ask /\ d.stage = "answered" /\ d.answer = Failure
    BY <1>1 DEF Requests
  <2> HIDE DEF d
  <2> QED
    BY <2>1, <2>2
<1> QED
  BY <1>2 DEF Sane

\* A request that becomes another one of its kind leaves the rest alone.
LEMMA BecomesSane ==
  ASSUME CallsSane, NEW c \in calls, NEW d, Becomes(c, d), Sane(d), d.id = c.id,
         UNCHANGED <<running, serial>>
  PROVE  CallsSane'
  BY DEF CallsSane, Becomes, running

LEMMA StoreStands ==
  ASSUME StoreSane, ToldSane, UNCHANGED store
  PROVE  StoreSane' /\ ToldSane'
  BY DEF StoreSane, ToldSane, store

LEMMA ServeStep ==
  ASSUME ApiInv, NEW host, Serve(host)
  PROVE  ApiInv'
  BY DEF ApiInv, CallsSane, StoreSane, ToldSane, Serve, NoSimulations, Sane

LEMMA ServerStopsStep ==
  ASSUME ApiInv, ServerStops
  PROVE  ApiInv'
<1>1. PICK arrived : calls' = {IF c \in arrived THEN c ELSE Failed(c) : c \in calls}
  BY DEF ServerStops
<1>2. ASSUME NEW d \in calls' PROVE Sane(d) /\ d.id <= serial
  <2>1. PICK c \in calls : d = IF c \in arrived THEN c ELSE Failed(c)
    BY <1>1
  <2>2. Sane(c) /\ c.id <= serial
    BY DEF ApiInv, CallsSane
  <2> QED
    BY <2>1, <2>2, FailedCall
<1>3. CallsSane'
  BY <1>2 DEF ApiInv, CallsSane, ServerStops, Sane
<1> QED
  BY <1>3, StoreStands DEF ApiInv, ServerStops

LEMMA ReceiveStep ==
  ASSUME ApiInv, NEW c \in calls, Receive(c)
  PROVE  ApiInv'
<1>1. Sane(c) /\ c \in Requests
  BY DEF ApiInv, CallsSane, Sane
<1>2. PICK d : Becomes(c, d) /\ d \in {[c EXCEPT !.stage = "handled"], Failed(c)}
  BY DEF Receive
<1>3. Sane(d) /\ d.id = c.id
  <2>1. CASE d = Failed(c)
    BY <1>1, <2>1, FailedCall
  <2>2. CASE d = [c EXCEPT !.stage = "handled"]
    <3>1. "handled" \in Stages
      BY DEF Stages
    <3>2. d \in Requests /\ d.id = c.id /\ d.stage = "handled"
      BY <1>1, <2>2, <3>1, StageGoesOn
    <3> QED
      BY <3>2 DEF Sane
  <2> QED
    BY <1>2, <2>1, <2>2
<1>4. CallsSane'
  BY <1>2, <1>3, BecomesSane DEF ApiInv, Receive
<1> QED
  BY <1>4, StoreStands DEF ApiInv, Receive

LEMMA ArriveStep ==
  ASSUME ApiInv, NEW ask \in Strangers, Arrive(ask)
  PROVE  ApiInv'
<1> DEFINE sent == Call(-serial - 1, ask, process)
           d    == [sent EXCEPT !.stage = "handled"]
<1>1. ask \in Asked
  <2>1. ASSUME NEW s \in {"success", "wrong-model"}, NEW n \in Seeds
        PROVE  /\ Simulation(s, n) \in Asked
               /\ [Simulation("success", n) EXCEPT !.path = "detail"] \in Asked
    <3>1. s \in Scenarios /\ "success" \in Scenarios
      BY DEF Scenarios
    <3>2. [Simulation("success", n) EXCEPT !.path = "detail"]
            = [path |-> "detail", scenario |-> "success", seed |-> n]
      BY DEF Simulation
    <3>3. [path |-> "simulations", scenario |-> s, seed |-> n] \in Asked
      BY <3>1 DEF Asked
    <3>4. [path |-> "detail", scenario |-> "success", seed |-> n] \in Asked
      BY <3>1 DEF Asked
    <3> QED
      BY <3>2, <3>3, <3>4 DEF Simulation
  <2>2. \/ \E s \in {"success", "wrong-model"}, n \in Seeds : ask = Simulation(s, n)
        \/ \E n \in Seeds : ask = [Simulation("success", n) EXCEPT !.path = "detail"]
    BY DEF Strangers
  <2> QED
    BY <2>1, <2>2
<1>2. serial \in Nat /\ serial + 1 \in 0..MaxCalls /\ process \in Nat
  BY ApiAssumption DEF ApiInv, CallsSane, Arrive
<1>3. sent \in Requests /\ sent.id <= serial + 1
  <2>1. -serial - 1 \in Ids /\ -serial - 1 <= serial + 1
    BY <1>2 DEF Ids
  <2>2. "sent" \in Stages /\ None \in Answered
    BY DEF Stages, Answered
  <2> QED
    BY <1>1, <1>2, <2>1, <2>2 DEF Requests, Call
<1>4. calls' = calls \cup {d} /\ serial' = serial + 1 /\ UNCHANGED <<running, store>>
  BY DEF Arrive
<1> HIDE DEF sent
<1>5. Sane(d) /\ d.id <= serial + 1
  <2>1. "handled" \in Stages
    BY DEF Stages
  <2>2. d \in Requests /\ d.id = sent.id /\ d.stage = "handled"
    BY <1>3, <2>1, StageGoesOn
  <2> QED
    BY <1>3, <2>2 DEF Sane
<1> HIDE DEF d
<1>6. CallsSane'
  <2>1. ASSUME NEW c \in calls PROVE Sane(c) /\ c.id <= serial + 1
    <3>1. Sane(c) /\ c.id \in Int /\ c.id <= serial
      BY DEF ApiInv, CallsSane, Sane, Requests, Ids
    <3> QED
      BY <1>2, <3>1
  <2>2. \A c \in calls' : Sane(c) /\ c.id <= serial + 1
    BY <1>4, <1>5, <2>1
  <2> QED
    BY <1>2, <1>4, <2>2 DEF ApiInv, CallsSane, running, Sane
<1> QED
  BY <1>4, <1>6, StoreStands DEF ApiInv

\* The answer of a request that is answered is one that it may have.
LEMMA AnswersStep ==
  ASSUME ApiInv, NEW c \in calls, NEW answer \in Answered, Answers(c, answer),
         c.ask.path = "simulations" => answer \in {Failure, RunSimulation(c.ask.scenario)}
  PROVE  CallsSane'
<1> DEFINE d == [c EXCEPT !.stage = "answered", !.answer = answer]
<1>1. Sane(c) /\ c \in Requests /\ "answered" \in Stages
  BY DEF ApiInv, CallsSane, Sane, Stages
<1>2. Becomes(c, d) /\ UNCHANGED <<running, serial>>
  BY DEF Answers
<1>3. d \in Requests /\ d.id = c.id /\ d.ask = c.ask /\ d.stage = "answered" /\ d.answer = answer
  BY <1>1 DEF Requests
<1> HIDE DEF d
<1>4. Sane(d)
  BY <1>3 DEF Sane
<1> QED
  BY <1>2, <1>3, <1>4, BecomesSane DEF ApiInv

LEMMA InspectStep ==
  ASSUME ApiInv, NEW c \in calls, Inspect(c)
  PROVE  ApiInv'
<1>1. c.ask.path # "simulations" /\ UNCHANGED store
  BY DEF Inspect, Handles
<1>2. PICK answer \in {Success, Failure} : Answers(c, answer)
  BY DEF Inspect
<1>3. answer \in Answered
  BY DEF Answered
<1> QED
  BY <1>1, <1>2, <1>3, AnswersStep, StoreStands DEF ApiInv

LEMMA ComputeStep ==
  ASSUME ApiInv, NEW c \in calls, Compute(c)
  PROVE  ApiInv'
<1>1. Sane(c) /\ c \in Requests /\ "computed" \in Stages
  BY DEF ApiInv, CallsSane, Sane, Stages
<1>2. UNCHANGED <<running, serial, store>>
  BY DEF Compute
<1>3. CASE Becomes(c, Failed(c))
  BY <1>1, <1>2, <1>3, FailedCall, BecomesSane, StoreStands DEF ApiInv
<1>4. CASE Handles(c, "simulations") /\ ~Becomes(c, Failed(c))
  <2> DEFINE result == RunSimulation(c.ask.scenario)
             d      == [c EXCEPT !.stage = "computed", !.answer = result]
  <2>1. c.ask \in Asked /\ c.ask.path = "simulations"
    BY <1>1, <1>4 DEF Requests, Handles
  <2>2. result \in Answered
    BY <2>1, AskedParts DEF Answered
  <2>3. Becomes(c, d)
    BY <1>4, <2>1 DEF Compute, Handles
  <2> HIDE DEF result
  <2>4. d \in Requests /\ d.id = c.id /\ d.ask = c.ask /\ d.stage = "computed" /\ d.answer = result
    BY <1>1, <2>2 DEF Requests
  <2> HIDE DEF d
  <2>5. Sane(d)
    BY <2>4 DEF Sane, result
  <2> QED
    BY <1>2, <2>3, <2>4, <2>5, BecomesSane, StoreStands DEF ApiInv
<1>5. CASE Handles(c, "benchmarks") /\ ~Becomes(c, Failed(c))
  <2> DEFINE d == [c EXCEPT !.stage = "computed", !.answer = Success]
  <2>1. Success \in Answered /\ c.ask.path = "benchmarks"
    BY <1>5 DEF Answered, Handles
  <2>2. Becomes(c, d)
    BY <1>5, <2>1 DEF Compute, Handles
  <2>3. d \in Requests /\ d.id = c.id /\ d.ask = c.ask
    BY <1>1, <2>1 DEF Requests
  <2> HIDE DEF d
  <2>4. Sane(d)
    BY <2>1, <2>3 DEF Sane
  <2> QED
    BY <1>2, <2>2, <2>3, <2>4, BecomesSane, StoreStands DEF ApiInv
<1> QED
  BY <1>3, <1>4, <1>5 DEF Compute

\* What is kept is what the id is made of: whoever kept it before kept the same.
LEMMA KeepSimulationStep ==
  ASSUME ApiInv, NEW c \in calls, KeepSimulation(c)
  PROVE  ApiInv'
<1> DEFINE s  == c.ask.scenario
           id == SessionId(s, c.ask.seed)
<1>1. /\ Sane(c) /\ c \in Requests /\ c.ask.path = "simulations" /\ c.stage = "computed"
      /\ c.answer = RunSimulation(s) /\ c.answer \in Answered
  BY DEF ApiInv, CallsSane, Sane, KeepSimulation, Requests
<1>2. s \in Scenarios /\ c.ask.seed \in Seeds
  BY <1>1, AskedParts DEF Requests
<1>3. /\ simulations' = [i \in DOMAIN simulations \cup {id} |->
                           IF i = id THEN c.answer ELSE simulations[i]]
      /\ told' = told \cup {[id |-> id, answer |-> c.answer]}
      /\ benchmarks' = benchmarks /\ Answers(c, c.answer)
  BY DEF KeepSimulation
<1>4. CallsSane'
  BY <1>1, <1>3, AnswersStep
<1>5. \A i \in DOMAIN simulations : simulations'[i] = simulations[i] /\ i \in DOMAIN simulations'
  <2> SUFFICES ASSUME NEW i \in DOMAIN simulations, i = id PROVE simulations[i] = RunSimulation(s)
    BY <1>1, <1>3
  <2>1. PICK t \in Scenarios, n \in Seeds :
          i = SessionId(t, n) /\ simulations[i] = RunSimulation(t)
    BY DEF ApiInv, StoreSane
  <2> QED
    BY <2>1, OneScenario
<1>6. simulations'[id] = RunSimulation(s) /\ id \in DOMAIN simulations'
  BY <1>1, <1>3
<1>7. DOMAIN simulations' = DOMAIN simulations \cup {id}
  BY <1>3
<1>8. StoreSane'
  <2>1. ASSUME NEW i \in DOMAIN simulations
        PROVE  \E t \in Scenarios, n \in Seeds :
                 i = SessionId(t, n) /\ simulations'[i] = RunSimulation(t)
    BY <1>5 DEF ApiInv, StoreSane
  <2>2. \E t \in Scenarios, n \in Seeds :
          id = SessionId(t, n) /\ simulations'[id] = RunSimulation(t)
    BY <1>2, <1>6
  <2> HIDE DEF id
  <2> QED
    BY <1>7, <2>1, <2>2 DEF StoreSane
<1>9. ToldSane'
  <2> DEFINE new == [id |-> id, answer |-> c.answer]
  <2>1. new.id \in DOMAIN simulations' /\ simulations'[new.id] = new.answer
    BY <1>1, <1>6
  <2>2. ASSUME NEW t \in told
        PROVE  t.id \in benchmarks' \/ (t.id \in DOMAIN simulations' /\ simulations'[t.id] = t.answer)
    BY <1>3, <1>5 DEF ApiInv, ToldSane
  <2>3. told' = told \cup {new}
    BY <1>3
  <2> HIDE DEF new
  <2> QED
    BY <2>1, <2>2, <2>3 DEF ToldSane
<1> QED
  BY <1>4, <1>8, <1>9 DEF ApiInv

LEMMA KeepBenchmarkStep ==
  ASSUME ApiInv, NEW c \in calls, KeepBenchmark(c)
  PROVE  ApiInv'
<1> DEFINE id == <<"benchmark", c.id>>
<1>1. c \in Requests /\ c.answer \in Answered /\ c.ask.path # "simulations"
  BY DEF ApiInv, CallsSane, Sane, KeepBenchmark, Requests
<1>2. /\ benchmarks' = benchmarks \cup {id} /\ told' = told \cup {[id |-> id, answer |-> c.answer]}
      /\ simulations' = simulations /\ Answers(c, c.answer)
  BY DEF KeepBenchmark
<1>3. CallsSane'
  BY <1>1, <1>2, AnswersStep
<1>4. StoreSane'
  BY <1>2 DEF ApiInv, StoreSane
<1>5. ToldSane'
  <2> HIDE DEF id
  <2> QED
    BY <1>2 DEF ApiInv, ToldSane
<1> QED
  BY <1>3, <1>4, <1>5 DEF ApiInv

\* A detail is what is kept, so that it is told again as it was.
LEMMA DetailStep ==
  ASSUME ApiInv, NEW c \in calls, Detail(c)
  PROVE  ApiInv'
<1> DEFINE id == SessionId(c.ask.scenario, c.ask.seed)
<1>1. c.ask.path # "simulations" /\ UNCHANGED <<benchmarks, simulations>>
  BY DEF Detail, Handles
<1>2. StoreSane'
  BY <1>1 DEF ApiInv, StoreSane
<1>3. CASE id \in DOMAIN simulations
  <2>1. /\ told' = told \cup {[id |-> id, answer |-> simulations[id]]}
        /\ Answers(c, simulations[id])
    BY <1>3 DEF Detail
  <2> HIDE DEF id
  <2>2. simulations[id] \in Answered
    BY <1>3 DEF ApiInv, StoreSane, Answered
  <2>3. CallsSane'
    BY <1>1, <2>1, <2>2, AnswersStep
  <2>4. ToldSane'
    BY <1>1, <1>3, <2>1 DEF ApiInv, ToldSane
  <2> QED
    BY <1>2, <2>3, <2>4 DEF ApiInv
<1>4. CASE id \notin DOMAIN simulations
  <2>1. Answers(c, Failure) /\ UNCHANGED told /\ Failure \in Answered
    BY <1>4 DEF Detail, Answered
  <2>2. CallsSane'
    BY <1>1, <2>1, AnswersStep
  <2>3. ToldSane'
    BY <1>1, <2>1 DEF ApiInv, ToldSane
  <2> QED
    BY <1>2, <2>2, <2>3 DEF ApiInv
<1> QED
  BY <1>3, <1>4

\* Requests that are taken out, be it by another client or by the page.
LEMMA TakenOut ==
  ASSUME ApiInv, calls' \subseteq calls, UNCHANGED <<running, serial, store>>
  PROVE  ApiInv'
<1>1. CallsSane'
  BY DEF ApiInv, CallsSane, running
<1> QED
  BY <1>1, StoreStands DEF ApiInv

LEMMA ApiStep ==
  ASSUME ApiInv, ApiNext
  PROVE  ApiInv'
<1>1. ASSUME NEW host, Serve(host) PROVE ApiInv'
  BY <1>1, ServeStep
<1>2. CASE ServerStops
  BY <1>2, ServerStopsStep
<1>3. ASSUME NEW ask \in Strangers, Arrive(ask) PROVE ApiInv'
  BY <1>3, ArriveStep
<1>4. ASSUME NEW c \in calls, Receive(c) \/ Inspect(c) \/ Compute(c) PROVE ApiInv'
  BY <1>4, ReceiveStep, InspectStep, ComputeStep
<1>5. ASSUME NEW c \in calls, KeepSimulation(c) \/ KeepBenchmark(c) \/ Detail(c) PROVE ApiInv'
  BY <1>5, KeepSimulationStep, KeepBenchmarkStep, DetailStep
<1>6. ASSUME NEW c \in calls, Delivered(c) PROVE ApiInv'
  BY <1>6, TakenOut DEF Delivered
<1> QED
  BY <1>1, <1>2, <1>3, <1>4, <1>5, <1>6 DEF ApiNext
-----------------------------------------------------------------------------
(* The page *)

\* A request of the page.
LEMMA SendsStep ==
  ASSUME ApiInv, NEW ask \in Asked, NEW token \in Nat, Sends(ask, token)
  PROVE  ApiInv'
<1> DEFINE c == Call(serial', ask, token)
<1>1. serial \in Nat /\ serial' = serial + 1 /\ serial' \in 1..MaxCalls
  BY ApiAssumption DEF ApiInv, CallsSane, Sends
<1>2. c \in Requests /\ c.id <= serial' /\ c.stage = "sent"
  BY <1>1 DEF Call, Requests, Ids, Stages, Answered
<1>3. calls' = calls \cup {c} /\ UNCHANGED <<running, store>>
  BY DEF Sends
<1> HIDE DEF c
<1>4. Sane(c)
  BY <1>2 DEF Sane
<1>5. ASSUME NEW d \in calls PROVE Sane(d) /\ d.id <= serial'
  <2>1. Sane(d) /\ d.id \in Int /\ d.id <= serial
    BY DEF ApiInv, CallsSane, Sane, Requests, Ids
  <2> QED
    BY <1>1, <2>1
<1>6. \A d \in calls' : Sane(d) /\ d.id <= serial'
  BY <1>2, <1>3, <1>4, <1>5
<1>7. CallsSane'
  BY <1>1, <1>3, <1>6 DEF ApiInv, CallsSane, running, Sane
<1> QED
  BY <1>3, <1>7, StoreStands DEF ApiInv

\* Whoever is current is asked about what the view asks.
PageAsks ==
  /\ page \in Nat /\ view \in Views /\ role \in Roles
  /\ question \in 0..serial /\ pressed \in 0..serial
  /\ \A c \in calls :
       /\ c.id = question => c.ask.path = role
       /\ c.id = pressed => c.ask.path = view

\* What is shown is of the view, and a session is the one that was asked for.
PageShows ==
  /\ page # 0 /\ view = "overview" /\ ~loading =>
       failed \/ (data # None /\ data.question = question)
  /\ data # None => data.role = role
  /\ shown # None /\ state = "idle" => shown.question = pressed
  /\ shown # None =>
       /\ shown.ask.path = view
       /\ view = "simulations" => shown.answer.scenario = shown.ask.scenario

PageInv == PageAsks /\ PageShows

\* What the service does to a request leaves its id and what it asks; other
\* clients' requests have ids that the page has not.
Untouched == \A d \in calls' : d.id < 0 \/ \E c \in calls : c.id = d.id /\ c.ask = d.ask

LEMMA BecomesUntouched ==
  ASSUME NEW c \in calls, NEW d, Becomes(c, d), d.id = c.id, d.ask = c.ask
  PROVE  Untouched
  BY DEF Becomes, Untouched

LEMMA AnswersUntouched ==
  ASSUME NEW c \in calls, c \in Requests, NEW answer, Answers(c, answer)
  PROVE  Untouched /\ serial' = serial
<1> DEFINE d == [c EXCEPT !.stage = "answered", !.answer = answer]
<1>1. Becomes(c, d) /\ serial' = serial
  BY DEF Answers
<1>2. d.id = c.id /\ d.ask = c.ask
  BY DEF Requests
<1> HIDE DEF d
<1> QED
  BY <1>1, <1>2, BecomesUntouched

LEMMA ApiLeavesAsked ==
  ASSUME ApiInv, ApiNext
  PROVE  Untouched /\ (serial' = serial \/ serial' = serial + 1)
<1>1. \A c \in calls : c \in Requests /\ Sane(c)
  BY DEF ApiInv, CallsSane, Sane
<1>2. ASSUME NEW host, Serve(host) PROVE Untouched /\ serial' = serial
  BY <1>2 DEF Serve, Untouched
<1>3. CASE ServerStops
  <2>1. PICK arrived : calls' = {IF c \in arrived THEN c ELSE Failed(c) : c \in calls}
    BY <1>3 DEF ServerStops
  <2>2. ASSUME NEW d \in calls' PROVE \E c \in calls : c.id = d.id /\ c.ask = d.ask
    <3>1. PICK c \in calls : d = IF c \in arrived THEN c ELSE Failed(c)
      BY <2>1
    <3> QED
      BY <1>1, <3>1, FailedCall
  <2> QED
    BY <1>3, <2>2 DEF ServerStops, Untouched
<1>4. ASSUME NEW ask \in Strangers, Arrive(ask) PROVE Untouched /\ serial' = serial + 1
  <2> DEFINE id == -serial - 1
             d  == [Call(id, ask, process) EXCEPT !.stage = "handled"]
  <2>1. id < 0
    BY <1>4 DEF ApiInv, CallsSane
  <2>2. calls' = calls \cup {d} /\ serial' = serial + 1
    BY <1>4 DEF Arrive
  <2> HIDE DEF id
  <2>3. d.id = id
    BY DEF Call
  <2> HIDE DEF d
  <2> QED
    BY <2>1, <2>2, <2>3 DEF Untouched
<1>5. ASSUME NEW c \in calls, Receive(c) PROVE Untouched /\ serial' = serial
  <2>1. PICK d : Becomes(c, d) /\ d \in {[c EXCEPT !.stage = "handled"], Failed(c)}
    BY <1>5 DEF Receive
  <2>2. [c EXCEPT !.stage = "handled"].id = c.id /\ [c EXCEPT !.stage = "handled"].ask = c.ask
    BY <1>1 DEF Requests
  <2>3. Failed(c).id = c.id /\ Failed(c).ask = c.ask
    BY <1>1, FailedCall
  <2>4. d.id = c.id /\ d.ask = c.ask
    BY <2>1, <2>2, <2>3
  <2> QED
    BY <1>5, <2>1, <2>4, BecomesUntouched DEF Receive
<1>6. ASSUME NEW c \in calls, Compute(c) PROVE Untouched /\ serial' = serial
  <2>1. PICK answer : Becomes(c, [c EXCEPT !.stage = "computed", !.answer = answer])
                        \/ Becomes(c, Failed(c))
    BY <1>6 DEF Compute
  <2> DEFINE d == [c EXCEPT !.stage = "computed", !.answer = answer]
  <2>2. d.id = c.id /\ d.ask = c.ask
    BY <1>1 DEF Requests
  <2>3. Failed(c).id = c.id /\ Failed(c).ask = c.ask
    BY <1>1, FailedCall
  <2>4. Becomes(c, d) \/ Becomes(c, Failed(c))
    BY <2>1
  <2> HIDE DEF d
  <2> QED
    BY <1>6, <2>2, <2>3, <2>4, BecomesUntouched DEF Compute
<1>7. ASSUME NEW c \in calls, Inspect(c) \/ KeepSimulation(c) \/ KeepBenchmark(c) \/ Detail(c)
      PROVE  Untouched /\ serial' = serial
  <2>1. PICK answer : Answers(c, answer)
    BY <1>7 DEF Inspect, KeepSimulation, KeepBenchmark, Detail
  <2> QED
    BY <1>1, <2>1, AnswersUntouched
<1>8. ASSUME NEW c \in calls, Delivered(c) PROVE Untouched /\ serial' = serial
  BY <1>8 DEF Delivered, Untouched
<1> QED
  BY <1>2, <1>3, <1>4, <1>5, <1>6, <1>7, <1>8 DEF ApiNext

LEMMA ServiceStep ==
  ASSUME ApiInv, PageInv, ApiNext, UNCHANGED pageVars
  PROVE  PageInv'
<1>1. serial \in Nat /\ Untouched /\ (serial' = serial \/ serial' = serial + 1)
  BY ApiLeavesAsked DEF ApiInv, CallsSane
<1>2. ASSUME NEW d \in calls'
      PROVE  (d.id = question => d.ask.path = role) /\ (d.id = pressed => d.ask.path = view)
  BY <1>1 DEF Untouched, PageInv, PageAsks
<1>3. PageAsks'
  BY <1>1, <1>2 DEF PageInv, PageAsks, pageVars
<1>4. PageShows'
  BY DEF PageInv, PageShows, pageVars
<1> QED
  BY <1>3, <1>4 DEF PageInv

\* A new request is the only one of its id.
LEMMA SentIsNew ==
  ASSUME ApiInv, NEW ask, NEW token, Sends(ask, token)
  PROVE  /\ serial \in Nat /\ serial' = serial + 1 /\ serial' \in 1..MaxCalls
         /\ \A d \in calls' : (d.id = serial' /\ d.ask = ask) \/ (d \in calls /\ d.id <= serial)
         /\ \A d \in calls : d.id \in Int \ {0} /\ d.id <= serial
<1>1. serial \in Nat /\ serial' = serial + 1 /\ serial' \in 1..MaxCalls
  BY ApiAssumption DEF ApiInv, CallsSane, Sends
<1>2. \A d \in calls : d.id \in Int \ {0} /\ d.id <= serial
  BY DEF ApiInv, CallsSane, Sane, Requests, Ids
<1>3. Call(serial', ask, token).id = serial' /\ Call(serial', ask, token).ask = ask
  BY DEF Call
<1>4. calls' = calls \cup {Call(serial', ask, token)}
  BY DEF Sends
<1> QED
  BY <1>1, <1>2, <1>3, <1>4

\* An Overview that is mounted waits for what it asks, and nothing is pressed in
\* the workspace beside.
LEMMA OverviewMounted ==
  ASSUME ApiInv, NEW asked \in Roles, NEW token \in Nat, MountOverview(asked, token),
         role' = asked, view' = "overview", page' \in Nat, pressed' = 0, shown' = None
  PROVE  ApiInv' /\ PageInv'
<1>1. Sends(Asks(asked), token) /\ question' = serial' /\ data' = None /\ loading' = TRUE
  BY DEF MountOverview
<1>2. Asks(asked) \in Asked /\ Asks(asked).path = asked
  BY DEF Asks, Asked, Plain, Roles
<1>3. ApiInv'
  BY <1>1, <1>2, SendsStep
<1>4. /\ serial \in Nat /\ serial' = serial + 1
      /\ \A d \in calls' : (d.id = serial' /\ d.ask = Asks(asked)) \/ (d \in calls /\ d.id <= serial)
      /\ \A d \in calls : d.id \in Int \ {0} /\ d.id <= serial
  BY <1>1, SentIsNew
<1>5. ASSUME NEW d \in calls'
      PROVE  (d.id = question' => d.ask.path = role') /\ (d.id = pressed' => d.ask.path = view')
  BY <1>1, <1>2, <1>4
<1>6. PageAsks'
  BY <1>1, <1>4, <1>5 DEF PageAsks, Views, Roles
<1>7. PageShows'
  BY <1>1 DEF PageShows
<1> QED
  BY <1>3, <1>6, <1>7 DEF PageInv

LEMMA LoadStep ==
  ASSUME ApiInv, PageInv, Load
  PROVE  ApiInv' /\ PageInv'
<1>1. process \in Nat /\ "miner" \in Roles
  BY DEF ApiInv, CallsSane, Roles
<1> QED
  BY <1>1, OverviewMounted DEF Load, MountWorkspace

LEMMA SelectViewStep ==
  ASSUME ApiInv, PageInv, NEW v \in Views, SelectView(v)
  PROVE  ApiInv' /\ PageInv'
<1>1. page \in Nat /\ role \in Roles
  BY DEF PageInv, PageAsks
<1>2. CASE v = "overview"
  BY <1>1, <1>2, OverviewMounted DEF SelectView, MountWorkspace
<1>3. CASE v # "overview"
  <2>1. /\ UNCHANGED apiVars /\ view' = v /\ question' = 0 /\ pressed' = 0 /\ data' = None
        /\ shown' = None /\ UNCHANGED <<page, role>>
    BY <1>3 DEF SelectView, MountWorkspace
  <2>2. ApiInv'
    BY <2>1 DEF ApiInv, CallsSane, StoreSane, ToldSane, Sane, apiVars
  <2>3. \A d \in calls : d.id # 0
    BY DEF ApiInv, CallsSane, Sane, Requests, Ids
  <2>4. PageAsks'
    BY <2>1, <2>3 DEF PageInv, PageAsks, apiVars, ApiInv, CallsSane
  <2>5. PageShows'
    BY <1>3, <2>1 DEF PageShows
  <2> QED
    BY <2>2, <2>4, <2>5 DEF PageInv
<1> QED
  BY <1>2, <1>3

\* The Overview asks again, for its role or for another one.
LEMMA AskedAgain ==
  ASSUME ApiInv, PageInv, NEW r \in Roles, Sends(Asks(r), page), question' = serial', role' = r,
         loading' = TRUE, data' = None \/ (data' = data /\ r = role),
         UNCHANGED <<page, view, pressed, shown, state>>
  PROVE  ApiInv' /\ PageInv'
<1>1. page \in Nat /\ pressed \in 0..serial
  BY DEF PageInv, PageAsks
<1>2. Asks(r) \in Asked /\ Asks(r).path = r
  BY DEF Asks, Asked, Plain, Roles
<1>3. ApiInv'
  BY <1>1, <1>2, SendsStep
<1>4. /\ serial \in Nat /\ serial' = serial + 1
      /\ \A d \in calls' :
           (d.id = serial' /\ d.ask = Asks(r)) \/ (d \in calls /\ d.id <= serial)
      /\ \A d \in calls : d.id \in Int \ {0} /\ d.id <= serial
  BY SentIsNew
<1>5. ASSUME NEW d \in calls'
      PROVE  (d.id = question' => d.ask.path = role') /\ (d.id = pressed' => d.ask.path = view')
  <2>1. CASE d.id = serial' /\ d.ask = Asks(r)
    BY <1>1, <1>2, <1>4, <2>1
  <2>2. CASE d \in calls /\ d.id <= serial
    BY <1>1, <1>4, <2>2 DEF PageInv, PageAsks
  <2> QED
    BY <1>4, <2>1, <2>2
<1>6. PageAsks'
  BY <1>1, <1>4, <1>5 DEF PageInv, PageAsks
<1>7. PageShows'
  BY DEF PageInv, PageShows
<1> QED
  BY <1>3, <1>6, <1>7 DEF PageInv

LEMMA SelectRoleStep ==
  ASSUME ApiInv, PageInv, NEW r \in Roles, SelectRole(r)
  PROVE  ApiInv' /\ PageInv'
  BY AskedAgain DEF SelectRole, MountOverview, workspace

LEMMA RefreshStep ==
  ASSUME ApiInv, PageInv, Refresh
  PROVE  ApiInv' /\ PageInv'
<1>1. role \in Roles
  BY DEF PageInv, PageAsks
<1> QED
  BY <1>1, AskedAgain DEF Refresh, app, workspace

LEMMA PressStep ==
  ASSUME ApiInv, PageInv, Press
  PROVE  ApiInv' /\ PageInv'
<1>1. PICK s \in Scenarios, seed \in Seeds :
        Sends(IF view = "simulations" THEN Simulation(s, seed) ELSE Asks(view), page)
  BY DEF Press
<1> DEFINE ask == IF view = "simulations" THEN Simulation(s, seed) ELSE Asks(view)
<1>2. /\ view \in Views /\ view # "overview" /\ page \in Nat /\ question \in 0..serial
      /\ state' = "running" /\ pressed' = serial'
      /\ UNCHANGED <<page, view, role, question, data, loading, failed, shown>>
  BY DEF PageInv, PageAsks, Press, app, overview
<1>3. ask \in Asked /\ ask.path = view
  BY <1>2 DEF Views, Asks, Simulation, Asked, Plain
<1>4. Sends(ask, page)
  BY <1>1
<1> HIDE DEF ask
<1>5. ApiInv'
  BY <1>2, <1>3, <1>4, SendsStep
<1>6. /\ serial \in Nat /\ serial' = serial + 1
      /\ \A d \in calls' : (d.id = serial' /\ d.ask = ask) \/ (d \in calls /\ d.id <= serial)
      /\ \A d \in calls : d.id \in Int \ {0} /\ d.id <= serial
  BY <1>4, SentIsNew
<1>7. ASSUME NEW d \in calls'
      PROVE  (d.id = question' => d.ask.path = role') /\ (d.id = pressed' => d.ask.path = view')
  <2>1. CASE d.id = serial' /\ d.ask = ask
    BY <1>2, <1>3, <1>6, <2>1
  <2>2. CASE d \in calls /\ d.id <= serial
    BY <1>2, <1>6, <2>2 DEF PageInv, PageAsks
  <2> QED
    BY <1>6, <2>1, <2>2
<1>8. PageAsks'
  BY <1>2, <1>6, <1>7 DEF PageInv, PageAsks
<1>9. PageShows'
  BY <1>2 DEF PageInv, PageShows
<1> QED
  BY <1>5, <1>8, <1>9 DEF PageInv

\* An answer is taken: it is no longer on its way.
LEMMA AnswerTaken ==
  ASSUME ApiInv, PageInv, calls' \subseteq calls, UNCHANGED <<running, serial, store>>,
         UNCHANGED <<page, view, role, question, pressed>>
  PROVE  ApiInv' /\ PageAsks'
<1>1. ApiInv'
  BY TakenOut
<1>2. PageAsks'
  BY DEF PageInv, PageAsks
<1> QED
  BY <1>1, <1>2

LEMMA OverviewAnsweredStep ==
  ASSUME ApiInv, PageInv, NEW c \in calls, OverviewAnswered(c)
  PROVE  ApiInv' /\ PageInv'
<1>1. /\ calls' \subseteq calls /\ UNCHANGED <<running, serial, store>>
      /\ UNCHANGED <<page, view, role, question, pressed, shown, state>>
  BY DEF OverviewAnswered, OverviewTakes, overview, app, workspace
<1>2. ApiInv' /\ PageAsks'
  BY <1>1, AnswerTaken
<1>3. CASE c.id # question
  <2>1. UNCHANGED <<question, data, loading, failed>>
    BY <1>3 DEF OverviewAnswered, OverviewTakes, overview
  <2>2. PageShows'
    BY <1>1, <2>1 DEF PageInv, PageShows
  <2> QED
    BY <1>2, <2>2 DEF PageInv
<1>4. CASE c.id = question /\ c.answer.raised
  <2>1. failed' = TRUE /\ data' = data
    BY <1>4 DEF OverviewAnswered, OverviewTakes
  <2>2. PageShows'
    BY <1>1, <2>1 DEF PageInv, PageShows
  <2> QED
    BY <1>2, <2>2 DEF PageInv
<1>5. CASE c.id = question /\ ~c.answer.raised
  <2>1. question \in 1..MaxCalls /\ c.ask.path = role /\ role \in Roles
    BY <1>5, ApiAssumption
    DEF ApiInv, CallsSane, Sane, Requests, Ids, PageInv, PageAsks
  <2> DEFINE taken == [role |-> role, question |-> question]
  <2>2. data' = taken
    BY <1>5, <2>1 DEF OverviewAnswered, OverviewTakes
  <2>3. taken # None /\ taken.role = role /\ taken.question = question
    BY <2>1, NoneAssumption
  <2> HIDE DEF taken
  <2>4. PageShows'
    BY <1>1, <2>2, <2>3 DEF PageInv, PageShows
  <2> QED
    BY <1>2, <2>4 DEF PageInv
<1> QED
  BY <1>2, <1>3, <1>4, <1>5 DEF PageInv

LEMMA WorkspaceAnsweredStep ==
  ASSUME ApiInv, PageInv, NEW c \in calls, WorkspaceAnswered(c)
  PROVE  ApiInv' /\ PageInv'
<1>1. /\ calls' \subseteq calls /\ UNCHANGED <<running, serial, store>>
      /\ UNCHANGED <<page, view, role, question, data, loading, failed, pressed>>
  BY DEF WorkspaceAnswered, overview, app
<1>2. ApiInv' /\ PageAsks'
  BY <1>1, AnswerTaken
<1>3. CASE c.id # pressed
  <2>1. UNCHANGED <<shown, state>>
    BY <1>3 DEF WorkspaceAnswered
  <2>2. PageShows'
    BY <1>1, <2>1 DEF PageInv, PageShows
  <2> QED
    BY <1>2, <2>2 DEF PageInv
<1>4. CASE c.id = pressed /\ c.answer.raised
  <2>1. state' = "failed" /\ shown' = shown
    BY <1>4 DEF WorkspaceAnswered
  <2>2. PageShows'
    BY <1>1, <2>1 DEF PageInv, PageShows
  <2> QED
    BY <1>2, <2>2 DEF PageInv
<1>5. CASE c.id = pressed /\ ~c.answer.raised
  <2> DEFINE taken == [ask |-> c.ask, question |-> c.id, answer |-> c.answer]
  <2>1. shown' = taken /\ Sane(c) /\ c.stage = "answered" /\ c.ask.path = view
    BY <1>5 DEF WorkspaceAnswered, ApiInv, CallsSane, PageInv, PageAsks
  <2>2. view = "simulations" => c.answer.scenario = c.ask.scenario
    <3> SUFFICES ASSUME view = "simulations" PROVE c.answer.scenario = c.ask.scenario
      OBVIOUS
    <3>1. c.answer = RunSimulation(c.ask.scenario) /\ c.ask.scenario \in Scenarios
      BY <1>5, <2>1, AskedParts DEF Sane, Failure, Requests
    <3> QED
      BY <3>1, ScenariosAccounted
  <2>3. taken.ask = c.ask /\ taken.question = c.id /\ taken.answer = c.answer
    OBVIOUS
  <2> HIDE DEF taken
  <2>4. PageShows'
    BY <1>1, <1>5, <2>1, <2>2, <2>3 DEF PageInv, PageShows
  <2> QED
    BY <1>2, <2>4 DEF PageInv
<1> QED
  BY <1>2, <1>3, <1>4, <1>5 DEF PageInv
-----------------------------------------------------------------------------
LocalInv == ApiInv /\ PageInv

LEMMA LocalStep ==
  ASSUME LocalInv, [Next]_serviceVars
  PROVE  LocalInv'
<1>1. CASE ApiNext /\ UNCHANGED pageVars
  BY <1>1, ApiStep, ServiceStep DEF LocalInv
<1>2. CASE PageNext
  BY <1>2, LoadStep, SelectViewStep, SelectRoleStep, RefreshStep, PressStep,
     OverviewAnsweredStep, WorkspaceAnsweredStep
  DEF LocalInv, PageNext
<1>3. CASE UNCHANGED <<apiVars, pageVars>>
  <2>1. ApiInv'
    BY <1>3 DEF LocalInv, ApiInv, CallsSane, StoreSane, ToldSane, Sane, apiVars
  <2>2. PageInv'
    BY <1>3 DEF LocalInv, PageInv, PageAsks, PageShows, apiVars, pageVars
  <2> QED
    BY <2>1, <2>2 DEF LocalInv
<1> QED
  BY <1>1, <1>2, <1>3, Apart

LEMMA LocalInvariant == Spec => []LocalInv
<1>1. Init => LocalInv
  BY Apart, ApiAssumption
  DEF ApiInit, PageInit, NoSimulations, LocalInv, ApiInv, CallsSane, StoreSane, ToldSane, Sane,
      PageInv, PageAsks, PageShows, Views, Roles
<1> QED
  BY <1>1, LocalStep, PTL DEF Spec

\* What the process has answered for an id it would answer again, whoever runs
\* simulations beside, in whatever order what they computed is kept.
THEOREM ToldAgain == Spec => []ToldIsKept
<1>1. LocalInv => ToldIsKept
  BY DEF LocalInv, ApiInv, ToldSane, ToldIsKept
<1> QED
  BY <1>1, LocalInvariant, PTL

\* A session that is kept has come by the table from created to one of its
\* ends, and its accounting follows from its events.
THEOREM SessionsAccounted == Spec => []AccountingFollowsEvents
<1>1. LocalInv => AccountingFollowsEvents
  BY ScenariosAccounted DEF LocalInv, ApiInv, StoreSane, AccountingFollowsEvents
<1> QED
  BY <1>1, LocalInvariant, PTL

\* What a view shows, once it waits for nothing, answers what it asked last.
THEOREM LastAnswerShown == Spec => []ShownAnswersLast
<1>1. LocalInv => ShownAnswersLast
  BY DEF LocalInv, PageInv, PageShows, ShownAnswersLast
<1> QED
  BY <1>1, LocalInvariant, PTL
===============================================================================
