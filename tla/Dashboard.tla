------------------------------ MODULE Dashboard ------------------------------
(***************************************************************************)
(* The page (apps/web/src/App.tsx, api.ts) before the API: its views ask   *)
(* and are left, asked again or loaded anew while answers are on the way,  *)
(* which come in any order.                                                *)
(*                                                                         *)
(* What React does for one event is one step: the state that is set, the   *)
(* cleanup of the effect before and the next effect.                       *)
(***************************************************************************)
EXTENDS WebApi

VARIABLES
  page,      \* the token in the page, or 0 before there is one
  view,      \* of App
  role,      \* of App
  question,  \* the request of the Overview's effect that is current, or 0
  data,      \* the Overview's: the role and the request that it answers
  loading,   \* the Overview's
  failed,    \* the Overview's
  pressed,   \* the last request of the other view that is mounted, or 0
  shown,     \* its report, preview or result: the request that it answers
  state      \* its "idle", "running" or "failed"

pageVars  == <<page, view, role, question, data, loading, failed, pressed, shown, state>>
app       == <<page, view, role>>
overview  == <<question, data, loading, failed>>
workspace == <<pressed, shown, state>>

Views == {"overview", "benchmarks", "preview", "simulations"}
Roles == {"miner", "validator"}

\* What the Overview holds is told from nothing.
ASSUME NoneAssumption ==
  \A asked \in Roles, id \in 1..MaxCalls : [role |-> asked, question |-> id] # None

PageInit ==
  /\ page = 0 /\ view = "overview" /\ role = "miner"
  /\ question = 0 /\ data = None /\ loading = FALSE /\ failed = FALSE
  /\ pressed = 0 /\ shown = None /\ state = "idle"

\* apiRequest(): the token is read from the page at every request.
Sends(ask, token) ==
  /\ serial < MaxCalls
  /\ serial' = serial + 1
  /\ calls' = calls \cup {Call(serial', ask, token)}
  /\ UNCHANGED <<running, store>>

\* An Overview is mounted and its effect asks.
MountOverview(asked, token) ==
  /\ Sends(Asks(asked), token)
  /\ question' = serial' /\ data' = None /\ loading' = TRUE /\ failed' = FALSE

MountWorkspace == pressed' = 0 /\ shown' = None /\ state' = "idle"

\* dashboard(): the page is sent with the token of the process in it.
Load ==
  /\ process # 0
  /\ page' = process /\ view' = "overview" /\ role' = "miner"
  /\ MountOverview("miner", process) /\ MountWorkspace

\* A view that is left is unmounted: its cleanup runs.
SelectView(v) ==
  /\ page # 0 /\ v # view
  /\ view' = v
  /\ IF v = "overview" THEN MountOverview(role, page)
     ELSE /\ question' = 0 /\ data' = None /\ loading' = FALSE /\ failed' = FALSE
          /\ UNCHANGED apiVars
  /\ MountWorkspace
  /\ UNCHANGED <<page, role>>

\* The Overview's key is the role: another one is mounted.
SelectRole(r) ==
  /\ page # 0 /\ view = "overview" /\ r # role
  /\ role' = r
  /\ MountOverview(r, page)
  /\ UNCHANGED <<page, view, workspace>>

\* There is no button while the first answer is waited for.
Refresh ==
  /\ page # 0 /\ view = "overview" /\ ~(loading /\ data = None)
  /\ loading' = TRUE /\ failed' = FALSE
  /\ Sends(Asks(role), page) /\ question' = serial'
  /\ UNCHANGED <<app, data, workspace>>

\* The button is disabled while a request runs; the scenario is whatever is
\* selected then, and may be another when the answer comes.
Press ==
  /\ page # 0 /\ view # "overview" /\ state # "running"
  /\ state' = "running"
  /\ \E s \in Scenarios, seed \in Seeds :
       Sends(IF view = "simulations" THEN Simulation(s, seed) ELSE Asks(view), page)
  /\ pressed' = serial'
  /\ UNCHANGED <<app, overview, shown>>
-----------------------------------------------------------------------------
(* Answers *)

OverviewTakes(c, current) ==
  /\ c.stage = "answered" /\ c.ask.path \in Roles
  /\ calls' = calls \ {c}
  /\ IF ~current THEN UNCHANGED overview
     ELSE /\ IF c.answer.raised THEN failed' = TRUE /\ UNCHANGED data
             ELSE data' = [role |-> c.ask.path, question |-> c.id] /\ UNCHANGED failed
          /\ loading' = FALSE /\ UNCHANGED question
  /\ UNCHANGED <<running, serial, store, app, workspace>>

\* Mutant: the effect has no cleanup, and a mounted Overview takes any answer.
OverviewTakesAny(c) == OverviewTakes(c, view = "overview")

\* then(), catch() and finally() of the effect: only for what is current.
OverviewAnswered(c) == OverviewTakes(c, c.id = question)

\* An answer for a view that was left sets the state of nothing.
WorkspaceAnswered(c) ==
  /\ c.stage = "answered" /\ c.ask.path \in Views
  /\ c.id > 0
  /\ calls' = calls \ {c}
  /\ IF c.id # pressed THEN UNCHANGED <<shown, state>>
     ELSE IF c.answer.raised THEN state' = "failed" /\ UNCHANGED shown
     ELSE state' = "idle" /\ shown' = [ask |-> c.ask, question |-> c.id, answer |-> c.answer]
  /\ UNCHANGED <<running, serial, store, app, overview, pressed>>

PageNext ==
  \/ Load
  \/ \E v \in Views : SelectView(v)
  \/ \E r \in Roles : SelectRole(r)
  \/ Refresh
  \/ Press
  \/ \E c \in calls : OverviewAnswered(c) \/ WorkspaceAnswered(c)
-----------------------------------------------------------------------------
\* What a view shows, once it waits for nothing, answers what it asked last:
\* not an earlier question, not the other role, not a view that was left and
\* not another scenario (App.tsx:310-325, 523-531).
ShownAnswersLast ==
  /\ page # 0 /\ view = "overview" /\ ~loading =>
       failed \/ (data # None /\ data.question = question)
  /\ data # None => data.role = role
  /\ shown # None /\ state = "idle" => shown.question = pressed
  /\ shown # None /\ view = "simulations" => shown.answer.scenario = shown.ask.scenario
=============================================================================
