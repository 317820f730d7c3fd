------------------------- MODULE VramObserverProofs -------------------------
(***************************************************************************)
(* Proofs about VramObserver, for any number of requests and any readings. *)
(* The peak of a request is its own until an NVML call outlasts a join:    *)
(* up to then at most one sampler is alive, it is the one _thread names,   *)
(* and the unlocked updates of _peak are in fact sequential.               *)
(***************************************************************************)
EXTENDS VramObserver, TLAPS

\* A sampler with a reading it has not stored yet.
Holds(s) == spc[s] \in {"peek", "merge", "store"}

\* The peak has reached u, or a thread that holds u is about to store it.
Covered(u) ==
  \/ peak # None /\ u <= peak.used
  \/ Holds(cur) /\ u = used[cur].used
  \/ pc \in {"merge", "store"} /\ u = mine.used

\* Who may be alive when: start() finds no sampler.
Lifetimes ==
  /\ OnlyOwnSampler
  /\ thread # NoThread => thread = cur /\ pc \in {"running", "join"}
  /\ initialized => nvml
  /\ pc # "idle" => cur \in Request

\* Every reading in flight is of the request in progress.
Tags ==
  /\ \A s \in Request : Holds(s) \/ spc[s] = "calling" => used[s] \in Reading /\ used[s].of = s
  /\ \A s \in Request : spc[s] = "store" => base[s] = peak
  /\ \A s \in Request : spc[s] = "merge" => peak # None
  /\ pc \in {"merge", "store"} => mine \in Reading /\ mine.of = cur
  /\ pc = "store" => mybase = peak
  /\ pc \notin {"idle", "reset"} /\ peak # None => peak.of = cur

\* What has been read so far and what has been returned.
Accounts ==
  /\ \A r \in Request : r > cur => seen[r] = {}
  /\ pc \in {"reset", "init"} => seen[cur] = {}
  /\ pc = "init" => peak = None
  /\ pc \notin {"idle", "reset"} => \A u \in seen[cur] : Covered(u)
  /\ \A r \in Request : results[r] # None => r < cur \/ pc \in {"shutdown", "idle"}
  /\ \A r \in Request : results[r] # None => r <= cur

\* A reading can only be taken for a request that has begun.
TypeInv ==
  /\ TypeOK
  /\ pc # "idle" => cur \in Request
  /\ \A s \in Request : spc[s] # "unborn" => cur \in Request
  /\ \A s \in Request : spc[s] = "calling" => used[s] \in Reading

IInv ==
  /\ TypeInv
  /\ Lifetimes
  /\ Tags
  /\ Accounts
  /\ PeakFromOwnRequest
  /\ PeakCoversReadings
-----------------------------------------------------------------------------
LEMMA HigherType ==
  ASSUME NEW old \in Reading \cup {None}, NEW new \in Reading \cup {None}
  PROVE  Higher(old, new) \in Reading \cup {None}
BY DEF Higher

\* A stored maximum is one of the two readings and below neither.
LEMMA HigherBounds ==
  ASSUME NEW old \in Reading \cup {None}, NEW new \in Reading
  PROVE  /\ Higher(old, new) # None
         /\ Higher(old, new) = old \/ Higher(old, new) = new
         /\ new.used <= Higher(old, new).used
         /\ old # None => old.used <= Higher(old, new).used
<1>1. new # None BY DEF Reading, Request, None
<1>2. new.used \in Nat BY LevelsAssumption DEF Reading
<1>3. old # None => old.used \in Nat BY LevelsAssumption DEF Reading
<1> QED BY <1>1, <1>2, <1>3 DEF Higher

LEMMA NextRequest ==
  ASSUME cur \in 0..Requests, cur < Requests
  PROVE  cur + 1 \in Request /\ cur + 1 \in 0..Requests
BY RequestsAssumption DEF Request

LEMMA TypeInit == Init => TypeInv
<1> SUFFICES ASSUME Init PROVE TypeInv
  OBVIOUS
<1>1. cur \in 0..Requests /\ thread \in Request \cup {NoThread}
  BY RequestsAssumption DEF Init, NoThread
<1>2. results \in [Request -> Reading \cup {None}] /\ seen \in [Request -> SUBSET Levels]
  BY DEF Init
<1> QED BY <1>1, <1>2 DEF Init, TypeInv, TypeOK, CallerAt, SamplerAt

LEMMA TypeStep == TypeInv /\ [Next]_vars => TypeInv'
<1> SUFFICES ASSUME TypeInv, [Next]_vars PROVE TypeInv'
  OBVIOUS
<1> USE DEF TypeInv, TypeOK, observer, caller, samplers, history, At, SamplerMoves, CallerAt, SamplerAt
<1>1. CASE StartClear BY <1>1, NextRequest DEF StartClear
<1>2. CASE StartReset BY <1>2 DEF StartReset
<1>3. CASE StartSampler BY <1>3 DEF StartSampler
<1>4. CASE StartUnavailable BY <1>4 DEF StartUnavailable
<1>5. CASE StopSignal BY <1>5 DEF StopSignal
<1>6. CASE StopJoin BY <1>6 DEF StopJoin, JoinAfter
<1>15. CASE StopChecks BY <1>15 DEF StopChecks
<1>7. CASE StopReads
  <2>1. mine' \in Reading /\ mine'.used \in Levels BY <1>7 DEF StopReads, Reading
  <2> QED BY <1>7, <2>1 DEF StopReads
<1>8. CASE StopReadFails BY <1>8 DEF StopReadFails
<1>9. CASE StopMerges BY <1>9 DEF StopMerges
<1>10. CASE StopStores BY <1>10, HigherType DEF StopStores
<1>11. CASE StopResult BY <1>11 DEF StopResult
<1>12. CASE StopShutdown BY <1>12 DEF StopShutdown
<1>13. ASSUME NEW s \in Request, Sampler(s) PROVE TypeInv'
  <2>1. CASE SamplerOpens(s) BY <2>1 DEF SamplerOpens
  <2>2. CASE SamplerChecks(s) BY <2>2 DEF SamplerChecks
  <2>3. CASE SamplerCalls(s)
    <3>1. PICK u \in Levels : used' = [used EXCEPT ![s] = [of |-> cur, used |-> u]]
      BY <2>3 DEF SamplerCalls
    <3>2. cur \in Request BY <1>13, <2>3 DEF SamplerCalls
    <3>3. [of |-> cur, used |-> u] \in Reading BY <3>2 DEF Reading
    <3> QED BY <1>13, <2>3, <3>1, <3>3 DEF SamplerCalls
  <2>4. CASE SamplerReads(s)
    <3>1. cur \in Request /\ used[s] \in Reading
      BY <1>13, <2>4 DEF SamplerReads
    <3>2. ASSUME NEW u \in Levels PROVE [of |-> cur, used |-> u] \in Reading
      BY <3>1 DEF Reading
    <3>3. used' \in [Request -> Reading \cup {None}] /\ used'[s] \in Reading
      BY <1>13, <2>4, <3>1, <3>2 DEF SamplerReads
    <3>4. used'[s].used \in Levels BY <3>3 DEF Reading
    <3>5. seen' \in [Request -> SUBSET Levels] BY <2>4, <3>4 DEF SamplerReads
    <3>6. \A t \in Request : t # s => spc'[t] = spc[t] /\ used'[t] = used[t]
      BY <1>13, <2>4 DEF SamplerReads
    <3> QED BY <1>13, <2>4, <3>1, <3>3, <3>5, <3>6 DEF SamplerReads
  <2>5. CASE SamplerNvmlFails(s) BY <2>5 DEF SamplerNvmlFails, InNvml
  <2>6. CASE SamplerPeeks(s) BY <2>6 DEF SamplerPeeks
  <2>7. CASE SamplerMerges(s) BY <2>7 DEF SamplerMerges
  <2>8. CASE SamplerStores(s) BY <2>8, HigherType DEF SamplerStores
  <2>9. CASE SamplerGivesUp(s)
    <3>1. spc' \in [Request -> SamplerAt] BY <1>13, <2>9 DEF SamplerGivesUp
    <3>2. available' \in BOOLEAN BY <2>9 DEF SamplerGivesUp
    <3> QED BY <2>9, <3>1, <3>2 DEF SamplerGivesUp
  <2> QED BY <1>13, <2>1, <2>2, <2>3, <2>4, <2>5, <2>6, <2>7, <2>8, <2>9
        DEF Sampler, SamplerRuns
<1>14. CASE UNCHANGED vars BY <1>14 DEF vars
<1> QED BY <1>1, <1>2, <1>3, <1>4, <1>5, <1>6, <1>7, <1>8, <1>9, <1>10, <1>11,
           <1>12, <1>13, <1>14, <1>15 DEF Next, Benchmark

\* Every variable keeps its type, whether or not joins time out
\* (vram.py:29-33).
THEOREM TypeCorrect == Spec => []TypeOK
<1>1. Init => TypeInv BY TypeInit
<1>2. TypeInv /\ [Next]_vars => TypeInv' BY TypeStep
<1>3. TypeInv => TypeOK BY DEF TypeInv
<1>4. QED BY <1>1, <1>2, <1>3, PTL DEF Spec
-----------------------------------------------------------------------------
LEMMA SafetyInit == Init => IInv
<1> SUFFICES ASSUME Init PROVE IInv
  OBVIOUS
<1>1. TypeInv BY TypeInit
<1>2. Lifetimes BY DEF Init, Lifetimes, OnlyOwnSampler, Live
<1>3. Tags BY DEF Init, Tags, Holds
<1>4. Accounts BY DEF Init, Accounts
<1>5. PeakFromOwnRequest /\ PeakCoversReadings
  BY DEF Init, PeakFromOwnRequest, PeakCoversReadings
<1> QED BY <1>1, <1>2, <1>3, <1>4, <1>5 DEF IInv

LEMMA StartClearSafe ==
  ASSUME ~gaveUp', IInv, TypeInv', StartClear
  PROVE  IInv'
<1> USE DEF IInv, TypeInv, TypeOK, observer, caller, samplers, history, At, SamplerMoves, CallerAt,
        SamplerAt, NoThread, Request, Live, Holds, InNvml, StartClear
<1>1. Lifetimes' BY RequestsAssumption DEF Lifetimes, OnlyOwnSampler
<1>2. Tags' BY RequestsAssumption DEF Lifetimes, OnlyOwnSampler, Tags
<1>3. Accounts' BY RequestsAssumption DEF Lifetimes, OnlyOwnSampler, Tags, Accounts, Covered
<1>4. PeakFromOwnRequest' BY RequestsAssumption DEF Lifetimes, Tags, Accounts, PeakFromOwnRequest
<1>5. PeakCoversReadings'
  BY RequestsAssumption DEF Lifetimes, OnlyOwnSampler, Tags, Accounts, Covered, PeakCoversReadings
<1> QED BY <1>1, <1>2, <1>3, <1>4, <1>5

LEMMA StartResetSafe ==
  ASSUME ~gaveUp', IInv, TypeInv', StartReset
  PROVE  IInv'
<1> USE DEF IInv, TypeInv, TypeOK, observer, caller, samplers, history, At, SamplerMoves, CallerAt,
        SamplerAt, NoThread, Request, Live, Holds, InNvml, StartReset
<1>1. Lifetimes' BY RequestsAssumption DEF Lifetimes, OnlyOwnSampler
<1>2. Tags' BY RequestsAssumption DEF Lifetimes, OnlyOwnSampler, Tags
<1>3. Accounts' BY RequestsAssumption DEF Lifetimes, OnlyOwnSampler, Tags, Accounts, Covered
<1>4. PeakFromOwnRequest' BY RequestsAssumption DEF Lifetimes, Tags, Accounts, PeakFromOwnRequest
<1>5. PeakCoversReadings'
  BY RequestsAssumption DEF Lifetimes, OnlyOwnSampler, Tags, Accounts, Covered, PeakCoversReadings
<1> QED BY <1>1, <1>2, <1>3, <1>4, <1>5

LEMMA StartSamplerSafe ==
  ASSUME ~gaveUp', IInv, TypeInv', StartSampler
  PROVE  IInv'
<1> USE DEF IInv, TypeInv, TypeOK, observer, caller, samplers, history, At, SamplerMoves, CallerAt,
        SamplerAt, NoThread, Request, Live, Holds, InNvml, StartSampler
<1>1. Lifetimes' BY RequestsAssumption DEF Lifetimes, OnlyOwnSampler
<1>2. Tags' BY RequestsAssumption DEF Lifetimes, OnlyOwnSampler, Tags
<1>3. Accounts' BY RequestsAssumption DEF Lifetimes, OnlyOwnSampler, Tags, Accounts, Covered
<1>4. PeakFromOwnRequest' BY RequestsAssumption DEF Lifetimes, Tags, Accounts, PeakFromOwnRequest
<1>5. PeakCoversReadings'
  BY RequestsAssumption DEF Lifetimes, OnlyOwnSampler, Tags, Accounts, Covered, PeakCoversReadings
<1> QED BY <1>1, <1>2, <1>3, <1>4, <1>5

LEMMA StartUnavailableSafe ==
  ASSUME ~gaveUp', IInv, TypeInv', StartUnavailable
  PROVE  IInv'
<1> USE DEF IInv, TypeInv, TypeOK, observer, caller, samplers, history, At, SamplerMoves, CallerAt,
        SamplerAt, NoThread, Request, Live, Holds, InNvml, StartUnavailable
<1>1. Lifetimes' BY RequestsAssumption DEF Lifetimes, OnlyOwnSampler
<1>2. Tags' BY RequestsAssumption DEF Lifetimes, OnlyOwnSampler, Tags
<1>3. Accounts' BY RequestsAssumption DEF Lifetimes, OnlyOwnSampler, Tags, Accounts, Covered
<1>4. PeakFromOwnRequest' BY RequestsAssumption DEF Lifetimes, Tags, Accounts, PeakFromOwnRequest
<1>5. PeakCoversReadings'
  BY RequestsAssumption DEF Lifetimes, OnlyOwnSampler, Tags, Accounts, Covered, PeakCoversReadings
<1> QED BY <1>1, <1>2, <1>3, <1>4, <1>5

LEMMA StopSignalSafe ==
  ASSUME ~gaveUp', IInv, TypeInv', StopSignal
  PROVE  IInv'
<1> USE DEF IInv, TypeInv, TypeOK, observer, caller, samplers, history, At, SamplerMoves, CallerAt,
        SamplerAt, NoThread, Request, Live, Holds, InNvml, StopSignal
<1>1. Lifetimes' BY RequestsAssumption DEF Lifetimes, OnlyOwnSampler
<1>2. Tags' BY RequestsAssumption DEF Lifetimes, OnlyOwnSampler, Tags
<1>3. Accounts' BY RequestsAssumption DEF Lifetimes, OnlyOwnSampler, Tags, Accounts, Covered
<1>4. PeakFromOwnRequest' BY RequestsAssumption DEF Lifetimes, Tags, Accounts, PeakFromOwnRequest
<1>5. PeakCoversReadings'
  BY RequestsAssumption DEF Lifetimes, OnlyOwnSampler, Tags, Accounts, Covered, PeakCoversReadings
<1> QED BY <1>1, <1>2, <1>3, <1>4, <1>5

LEMMA StopJoinSafe ==
  ASSUME ~gaveUp', IInv, TypeInv', StopJoin
  PROVE  IInv'
<1> USE DEF IInv, TypeInv, TypeOK, observer, caller, samplers, history, At, SamplerMoves, CallerAt,
        SamplerAt, NoThread, Request, Live, Holds, InNvml, StopJoin, JoinAfter
<1>1. Lifetimes' BY RequestsAssumption DEF Lifetimes, OnlyOwnSampler
<1>2. Tags' BY RequestsAssumption DEF Lifetimes, OnlyOwnSampler, Tags
<1>3. Accounts' BY RequestsAssumption DEF Lifetimes, OnlyOwnSampler, Tags, Accounts, Covered
<1>4. PeakFromOwnRequest' BY RequestsAssumption DEF Lifetimes, Tags, Accounts, PeakFromOwnRequest
<1>5. PeakCoversReadings'
  BY RequestsAssumption DEF Lifetimes, OnlyOwnSampler, Tags, Accounts, Covered, PeakCoversReadings
<1> QED BY <1>1, <1>2, <1>3, <1>4, <1>5

LEMMA StopChecksSafe ==
  ASSUME ~gaveUp', IInv, TypeInv', StopChecks
  PROVE  IInv'
<1> USE DEF IInv, TypeInv, TypeOK, observer, caller, samplers, history, At, SamplerMoves, CallerAt,
        SamplerAt, NoThread, Request, Live, Holds, InNvml, StopChecks
<1>1. Lifetimes' BY RequestsAssumption DEF Lifetimes, OnlyOwnSampler
<1>2. Tags' BY RequestsAssumption DEF Lifetimes, OnlyOwnSampler, Tags
<1>3. Accounts' BY RequestsAssumption DEF Lifetimes, OnlyOwnSampler, Tags, Accounts, Covered
<1>4. PeakFromOwnRequest' BY RequestsAssumption DEF Lifetimes, Tags, Accounts, PeakFromOwnRequest
<1>5. PeakCoversReadings'
  BY RequestsAssumption DEF Lifetimes, OnlyOwnSampler, Tags, Accounts, Covered, PeakCoversReadings
<1> QED BY <1>1, <1>2, <1>3, <1>4, <1>5

LEMMA StopReadsSafe ==
  ASSUME ~gaveUp', IInv, TypeInv', StopReads
  PROVE  IInv'
<1> USE DEF IInv, TypeInv, TypeOK, observer, caller, samplers, history, At, SamplerMoves, CallerAt,
        SamplerAt, NoThread, Request, Live, Holds, InNvml, StopReads
<1>1. Lifetimes' BY RequestsAssumption DEF Lifetimes, OnlyOwnSampler
<1>2. Tags'
  <2>1. mine' \in Reading /\ mine'.of = cur BY DEF Reading
  <2> QED BY <2>1 DEF Lifetimes, OnlyOwnSampler, Tags
<1>3. Accounts' BY RequestsAssumption DEF Lifetimes, OnlyOwnSampler, Tags, Accounts, Covered
<1>4. PeakFromOwnRequest' BY RequestsAssumption DEF Lifetimes, Tags, Accounts, PeakFromOwnRequest
<1>5. PeakCoversReadings'
  BY RequestsAssumption DEF Lifetimes, OnlyOwnSampler, Tags, Accounts, Covered, PeakCoversReadings
<1> QED BY <1>1, <1>2, <1>3, <1>4, <1>5

LEMMA StopReadFailsSafe ==
  ASSUME ~gaveUp', IInv, TypeInv', StopReadFails
  PROVE  IInv'
<1> USE DEF IInv, TypeInv, TypeOK, observer, caller, samplers, history, At, SamplerMoves, CallerAt,
        SamplerAt, NoThread, Request, Live, Holds, InNvml, StopReadFails
<1>1. Lifetimes' BY RequestsAssumption DEF Lifetimes, OnlyOwnSampler
<1>2. Tags' BY RequestsAssumption DEF Lifetimes, OnlyOwnSampler, Tags
<1>3. Accounts' BY RequestsAssumption DEF Lifetimes, OnlyOwnSampler, Tags, Accounts, Covered
<1>4. PeakFromOwnRequest' BY RequestsAssumption DEF Lifetimes, Tags, Accounts, PeakFromOwnRequest
<1>5. PeakCoversReadings'
  BY RequestsAssumption DEF Lifetimes, OnlyOwnSampler, Tags, Accounts, Covered, PeakCoversReadings
<1> QED BY <1>1, <1>2, <1>3, <1>4, <1>5

LEMMA StopMergesSafe ==
  ASSUME ~gaveUp', IInv, TypeInv', StopMerges
  PROVE  IInv'
<1> USE DEF IInv, TypeInv, TypeOK, observer, caller, samplers, history, At, SamplerMoves, CallerAt,
        SamplerAt, NoThread, Request, Live, Holds, InNvml, StopMerges
<1>1. Lifetimes' BY RequestsAssumption DEF Lifetimes, OnlyOwnSampler
<1>2. Tags' BY RequestsAssumption DEF Lifetimes, OnlyOwnSampler, Tags
<1>3. Accounts' BY RequestsAssumption DEF Lifetimes, OnlyOwnSampler, Tags, Accounts, Covered
<1>4. PeakFromOwnRequest' BY RequestsAssumption DEF Lifetimes, Tags, Accounts, PeakFromOwnRequest
<1>5. PeakCoversReadings'
  BY RequestsAssumption DEF Lifetimes, OnlyOwnSampler, Tags, Accounts, Covered, PeakCoversReadings
<1> QED BY <1>1, <1>2, <1>3, <1>4, <1>5

LEMMA StopStoresSafe ==
  ASSUME ~gaveUp', IInv, TypeInv', StopStores
  PROVE  IInv'
<1> USE DEF IInv, TypeInv, TypeOK, observer, caller, samplers, history, At, SamplerMoves, CallerAt,
        SamplerAt, NoThread, Request, Live, Holds, InNvml, StopStores
<1>1. Lifetimes' BY RequestsAssumption DEF Lifetimes, OnlyOwnSampler
<1>2. Tags'
  <2>1. peak' # None /\ peak'.of = cur
    <3>1. mine \in Reading /\ mine.of = cur /\ mybase = peak BY DEF Tags
    <3>2. peak # None => peak.of = cur BY DEF Tags
    <3>3. /\ Higher(peak, mine) # None
          /\ Higher(peak, mine) = peak \/ Higher(peak, mine) = mine
      BY <3>1, HigherBounds
    <3> QED BY <3>1, <3>2, <3>3
  <2> QED BY <2>1 DEF Lifetimes, OnlyOwnSampler, Tags
<1>3. Accounts'
  <2>1. \A s \in Request : ~Live(s) BY DEF Lifetimes, OnlyOwnSampler
  <2>2. ASSUME NEW u \in seen[cur] PROVE Covered(u)'
    <3>1. u \in Nat /\ Covered(u) BY LevelsAssumption DEF Lifetimes, Accounts
    <3>2. ~Holds(cur) BY <2>1 DEF Lifetimes
    <3>3. peak' # None /\ mine.used <= peak'.used /\ (peak # None => peak.used <= peak'.used)
      BY HigherBounds DEF Tags
    <3>4. peak'.used \in Nat /\ (peak # None => peak.used \in Nat)
      BY <3>3, LevelsAssumption DEF Reading
    <3>5. u <= peak'.used BY <3>1, <3>2, <3>3, <3>4 DEF Covered
    <3> QED BY <3>3, <3>5 DEF Covered
  <2> QED BY <2>2 DEF Lifetimes, Accounts
<1>4. PeakFromOwnRequest' BY RequestsAssumption DEF Lifetimes, Tags, Accounts, PeakFromOwnRequest
<1>5. PeakCoversReadings'
  BY RequestsAssumption DEF Lifetimes, OnlyOwnSampler, Tags, Accounts, Covered, PeakCoversReadings
<1> QED BY <1>1, <1>2, <1>3, <1>4, <1>5

LEMMA StopResultSafe ==
  ASSUME ~gaveUp', IInv, TypeInv', StopResult
  PROVE  IInv'
<1> USE DEF IInv, TypeInv, TypeOK, observer, caller, samplers, history, At, SamplerMoves, CallerAt,
        SamplerAt, NoThread, Request, Live, Holds, InNvml, StopResult
<1>1. Lifetimes' BY RequestsAssumption DEF Lifetimes, OnlyOwnSampler
<1>2. Tags' BY RequestsAssumption DEF Lifetimes, OnlyOwnSampler, Tags
<1>3. Accounts' BY RequestsAssumption DEF Lifetimes, OnlyOwnSampler, Tags, Accounts, Covered
<1>4. PeakFromOwnRequest' BY RequestsAssumption DEF Lifetimes, Tags, Accounts, PeakFromOwnRequest
<1>5. PeakCoversReadings'
  BY RequestsAssumption DEF Lifetimes, OnlyOwnSampler, Tags, Accounts, Covered, PeakCoversReadings
<1> QED BY <1>1, <1>2, <1>3, <1>4, <1>5

LEMMA StopShutdownSafe ==
  ASSUME ~gaveUp', IInv, TypeInv', StopShutdown
  PROVE  IInv'
<1> USE DEF IInv, TypeInv, TypeOK, observer, caller, samplers, history, At, SamplerMoves, CallerAt,
        SamplerAt, NoThread, Request, Live, Holds, InNvml, StopShutdown
<1>1. Lifetimes' BY RequestsAssumption DEF Lifetimes, OnlyOwnSampler
<1>2. Tags' BY RequestsAssumption DEF Lifetimes, OnlyOwnSampler, Tags
<1>3. Accounts' BY RequestsAssumption DEF Lifetimes, OnlyOwnSampler, Tags, Accounts, Covered
<1>4. PeakFromOwnRequest' BY RequestsAssumption DEF Lifetimes, Tags, Accounts, PeakFromOwnRequest
<1>5. PeakCoversReadings'
  BY RequestsAssumption DEF Lifetimes, OnlyOwnSampler, Tags, Accounts, Covered, PeakCoversReadings
<1> QED BY <1>1, <1>2, <1>3, <1>4, <1>5

LEMMA SamplerOpensSafe ==
  ASSUME ~gaveUp', IInv, TypeInv', NEW s \in Request, SamplerOpens(s)
  PROVE  IInv'
<1> USE DEF IInv, TypeInv, TypeOK, observer, caller, samplers, history, At, SamplerMoves, CallerAt,
        SamplerAt, NoThread, Request, Live, Holds, InNvml, SamplerOpens
<1>1. Lifetimes' BY RequestsAssumption DEF Lifetimes, OnlyOwnSampler
<1>2. Tags' BY RequestsAssumption DEF Lifetimes, OnlyOwnSampler, Tags
<1>3. Accounts' BY RequestsAssumption DEF Lifetimes, OnlyOwnSampler, Tags, Accounts, Covered
<1>4. PeakFromOwnRequest' BY RequestsAssumption DEF Lifetimes, Tags, Accounts, PeakFromOwnRequest
<1>5. PeakCoversReadings'
  BY RequestsAssumption DEF Lifetimes, OnlyOwnSampler, Tags, Accounts, Covered, PeakCoversReadings
<1> QED BY <1>1, <1>2, <1>3, <1>4, <1>5

LEMMA SamplerChecksSafe ==
  ASSUME ~gaveUp', IInv, TypeInv', NEW s \in Request, SamplerChecks(s)
  PROVE  IInv'
<1> USE DEF IInv, TypeInv, TypeOK, observer, caller, samplers, history, At, SamplerMoves, CallerAt,
        SamplerAt, NoThread, Request, Live, Holds, InNvml, SamplerChecks
<1>1. Lifetimes' BY RequestsAssumption DEF Lifetimes, OnlyOwnSampler
<1>2. Tags' BY RequestsAssumption DEF Lifetimes, OnlyOwnSampler, Tags
<1>3. Accounts' BY RequestsAssumption DEF Lifetimes, OnlyOwnSampler, Tags, Accounts, Covered
<1>4. PeakFromOwnRequest' BY RequestsAssumption DEF Lifetimes, Tags, Accounts, PeakFromOwnRequest
<1>5. PeakCoversReadings'
  BY RequestsAssumption DEF Lifetimes, OnlyOwnSampler, Tags, Accounts, Covered, PeakCoversReadings
<1> QED BY <1>1, <1>2, <1>3, <1>4, <1>5

LEMMA SamplerCallsSafe ==
  ASSUME ~gaveUp', IInv, TypeInv', NEW s \in Request, SamplerCalls(s)
  PROVE  IInv'
<1> USE DEF IInv, TypeInv, TypeOK, observer, caller, samplers, history, At, SamplerMoves, CallerAt,
        SamplerAt, NoThread, Request, Live, Holds, InNvml, SamplerCalls
<1>1. Lifetimes' BY RequestsAssumption DEF Lifetimes, OnlyOwnSampler
<1>2. Tags'
  <2>1. cur = s /\ cur \in Request BY DEF Lifetimes, OnlyOwnSampler
  <2>2. PICK u \in Levels : used' = [used EXCEPT ![s] = [of |-> s, used |-> u]] BY <2>1
  <2>3. used'[s] = [of |-> s, used |-> u] BY <2>2
  <2>4. used'[s] \in Reading /\ used'[s].of = s BY <2>1, <2>3 DEF Reading
  <2>5. \A t \in Request : t # s => used'[t] = used[t] /\ spc'[t] = spc[t] BY <2>2
  <2>6. spc'[s] = "calling" BY RequestsAssumption
  <2> QED BY <2>4, <2>5, <2>6 DEF Tags
<1>3. Accounts' BY RequestsAssumption DEF Lifetimes, OnlyOwnSampler, Tags, Accounts, Covered
<1>4. PeakFromOwnRequest' BY RequestsAssumption DEF Lifetimes, Tags, Accounts, PeakFromOwnRequest
<1>5. PeakCoversReadings'
  BY RequestsAssumption DEF Lifetimes, OnlyOwnSampler, Tags, Accounts, Covered, PeakCoversReadings
<1> QED BY <1>1, <1>2, <1>3, <1>4, <1>5

LEMMA SamplerReadsSafe ==
  ASSUME ~gaveUp', IInv, TypeInv', NEW s \in Request, SamplerReads(s)
  PROVE  IInv'
<1> USE DEF IInv, TypeInv, TypeOK, observer, caller, samplers, history, At, SamplerMoves, CallerAt,
        SamplerAt, NoThread, Request, Live, Holds, InNvml, SamplerReads
<1>1. Lifetimes' BY RequestsAssumption DEF Lifetimes, OnlyOwnSampler
<1>2. Tags'
  <2>1. cur = s BY DEF Lifetimes, OnlyOwnSampler
  <2>2. used'[s] \in Reading /\ used'[s].of = s
    <3>1. used[s] \in Reading /\ used[s].of = s BY DEF Tags
    <3>2. ASSUME NEW u \in Levels PROVE [of |-> s, used |-> u] \in Reading
      BY DEF Reading
    <3>3. CASE UNCHANGED used BY <3>1, <3>3
    <3>4. ASSUME NEW u \in Levels, used' = [used EXCEPT ![s] = [of |-> cur, used |-> u]]
          PROVE  used'[s] \in Reading /\ used'[s].of = s
      <4>1. used'[s] = [of |-> s, used |-> u] BY <2>1, <3>4
      <4> QED BY <3>2, <4>1
    <3> QED BY <3>3, <3>4
  <2>3. \A t \in Request : t # s => used'[t] = used[t] /\ spc'[t] = spc[t]
    OBVIOUS
  <2> QED BY <2>2, <2>3 DEF Lifetimes, OnlyOwnSampler, Tags
<1>3. Accounts'
  <2>1. cur = s /\ cur' = s /\ pc' = pc /\ pc \in {"running", "join"}
    BY DEF Lifetimes, OnlyOwnSampler
  <2>2. used'[s].of = s BY <1>2, RequestsAssumption DEF Tags
  <2>3. seen' = [seen EXCEPT ![s] = @ \cup {used'[s].used}] BY <2>2
  <2>4. \A u \in seen'[cur'] : Covered(u)'
    <3>1. \A u \in seen[s] : Covered(u) BY <2>1 DEF Accounts
    <3>2. \A u \in seen[s] : Covered(u)' BY <2>1, <3>1 DEF Covered
    <3>3. Covered(used[s].used)' BY <2>1 DEF Covered
    <3> QED BY <2>1, <2>3, <3>2, <3>3
  <2>5. \A r \in Request : r > cur => seen'[r] = {}
    <3>1. \A r \in Request : r # s => seen'[r] = seen[r] BY <2>3
    <3>2. \A r \in Request : r > cur => r # s BY <2>1, RequestsAssumption
    <3>3. \A r \in Request : r > cur => seen[r] = {} BY DEF Accounts
    <3> QED BY <3>1, <3>2, <3>3
  <2>6. results' = results OBVIOUS
  <2> HIDE DEF SamplerReads, TypeInv, TypeOK
  <2> QED BY <2>1, <2>4, <2>5, <2>6 DEF Accounts
<1>4. PeakFromOwnRequest' BY RequestsAssumption DEF Lifetimes, Tags, Accounts, PeakFromOwnRequest
<1>5. PeakCoversReadings'
  BY RequestsAssumption DEF Lifetimes, OnlyOwnSampler, Tags, Accounts, Covered, PeakCoversReadings
<1> QED BY <1>1, <1>2, <1>3, <1>4, <1>5

LEMMA SamplerNvmlFailsSafe ==
  ASSUME ~gaveUp', IInv, TypeInv', NEW s \in Request, SamplerNvmlFails(s)
  PROVE  IInv'
<1> USE DEF IInv, TypeInv, TypeOK, observer, caller, samplers, history, At, SamplerMoves, CallerAt,
        SamplerAt, NoThread, Request, Live, Holds, InNvml, SamplerNvmlFails
<1>1. Lifetimes' BY RequestsAssumption DEF Lifetimes, OnlyOwnSampler
<1>2. Tags' BY RequestsAssumption DEF Lifetimes, OnlyOwnSampler, Tags
<1>3. Accounts' BY RequestsAssumption DEF Lifetimes, OnlyOwnSampler, Tags, Accounts, Covered
<1>4. PeakFromOwnRequest' BY RequestsAssumption DEF Lifetimes, Tags, Accounts, PeakFromOwnRequest
<1>5. PeakCoversReadings'
  BY RequestsAssumption DEF Lifetimes, OnlyOwnSampler, Tags, Accounts, Covered, PeakCoversReadings
<1> QED BY <1>1, <1>2, <1>3, <1>4, <1>5

LEMMA SamplerPeeksSafe ==
  ASSUME ~gaveUp', IInv, TypeInv', NEW s \in Request, SamplerPeeks(s)
  PROVE  IInv'
<1> USE DEF IInv, TypeInv, TypeOK, observer, caller, samplers, history, At, SamplerMoves, CallerAt,
        SamplerAt, NoThread, Request, Live, Holds, InNvml, SamplerPeeks
<1>1. Lifetimes' BY RequestsAssumption DEF Lifetimes, OnlyOwnSampler
<1>2. Tags' BY RequestsAssumption DEF Lifetimes, OnlyOwnSampler, Tags
<1>3. Accounts' BY RequestsAssumption DEF Lifetimes, OnlyOwnSampler, Tags, Accounts, Covered
<1>4. PeakFromOwnRequest' BY RequestsAssumption DEF Lifetimes, Tags, Accounts, PeakFromOwnRequest
<1>5. PeakCoversReadings'
  BY RequestsAssumption DEF Lifetimes, OnlyOwnSampler, Tags, Accounts, Covered, PeakCoversReadings
<1> QED BY <1>1, <1>2, <1>3, <1>4, <1>5

LEMMA SamplerMergesSafe ==
  ASSUME ~gaveUp', IInv, TypeInv', NEW s \in Request, SamplerMerges(s)
  PROVE  IInv'
<1> USE DEF IInv, TypeInv, TypeOK, observer, caller, samplers, history, At, SamplerMoves, CallerAt,
        SamplerAt, NoThread, Request, Live, Holds, InNvml, SamplerMerges
<1>1. Lifetimes' BY RequestsAssumption DEF Lifetimes, OnlyOwnSampler
<1>2. Tags' BY RequestsAssumption DEF Lifetimes, OnlyOwnSampler, Tags
<1>3. Accounts' BY RequestsAssumption DEF Lifetimes, OnlyOwnSampler, Tags, Accounts, Covered
<1>4. PeakFromOwnRequest' BY RequestsAssumption DEF Lifetimes, Tags, Accounts, PeakFromOwnRequest
<1>5. PeakCoversReadings'
  BY RequestsAssumption DEF Lifetimes, OnlyOwnSampler, Tags, Accounts, Covered, PeakCoversReadings
<1> QED BY <1>1, <1>2, <1>3, <1>4, <1>5

LEMMA SamplerStoresSafe ==
  ASSUME ~gaveUp', IInv, TypeInv', NEW s \in Request, SamplerStores(s)
  PROVE  IInv'
<1> USE DEF IInv, TypeInv, TypeOK, observer, caller, samplers, history, At, SamplerMoves, CallerAt,
        SamplerAt, NoThread, Request, Live, Holds, InNvml, SamplerStores
<1>1. Lifetimes' BY RequestsAssumption DEF Lifetimes, OnlyOwnSampler
<1>2. Tags'
  <2>1. cur = s BY DEF Lifetimes, OnlyOwnSampler
  <2>2. peak' # None /\ peak'.of = cur
    <3>1. used[s] \in Reading /\ used[s].of = s /\ base[s] = peak BY DEF Tags
    <3>2. peak # None => peak.of = cur BY <2>1 DEF Lifetimes, OnlyOwnSampler, Tags
    <3>3. /\ Higher(peak, used[s]) # None
          /\ Higher(peak, used[s]) = peak \/ Higher(peak, used[s]) = used[s]
      BY <3>1, HigherBounds
    <3> QED BY <2>1, <3>1, <3>2, <3>3
  <2>3. \A t \in Request : Live(t)' => t = s BY DEF Lifetimes, OnlyOwnSampler
  <2> QED BY <2>2, <2>3 DEF Lifetimes, OnlyOwnSampler, Tags
<1>3. Accounts'
  <2>1. cur = s /\ pc \in {"running", "join"} BY DEF Lifetimes, OnlyOwnSampler
  <2>2. ASSUME NEW u \in seen[cur] PROVE Covered(u)'
    <3>1. u \in Nat /\ Covered(u) BY <2>1, LevelsAssumption DEF Accounts
    <3>2. base[s] = peak /\ used[s] \in Reading BY DEF Tags
    <3>3. peak' # None /\ used[s].used <= peak'.used /\ (peak # None => peak.used <= peak'.used)
      BY <3>2, HigherBounds
    <3>4. peak'.used \in Nat /\ (peak # None => peak.used \in Nat)
      BY <3>3, LevelsAssumption DEF Reading
    <3>5. u <= peak'.used BY <2>1, <3>1, <3>2, <3>3, <3>4 DEF Covered
    <3> QED BY <3>3, <3>5 DEF Covered
  <2> QED BY <2>1, <2>2 DEF Lifetimes, Accounts
<1>4. PeakFromOwnRequest' BY RequestsAssumption DEF Lifetimes, Tags, Accounts, PeakFromOwnRequest
<1>5. PeakCoversReadings'
  BY RequestsAssumption DEF Lifetimes, OnlyOwnSampler, Tags, Accounts, Covered, PeakCoversReadings
<1> QED BY <1>1, <1>2, <1>3, <1>4, <1>5

LEMMA SamplerGivesUpSafe ==
  ASSUME ~gaveUp', IInv, TypeInv', NEW s \in Request, SamplerGivesUp(s)
  PROVE  IInv'
<1> USE DEF IInv, TypeInv, TypeOK, observer, caller, samplers, history, At, SamplerMoves, CallerAt,
        SamplerAt, NoThread, Request, Live, Holds, InNvml, SamplerGivesUp
<1>1. Lifetimes' BY RequestsAssumption DEF Lifetimes, OnlyOwnSampler
<1>2. Tags' BY RequestsAssumption DEF Lifetimes, OnlyOwnSampler, Tags
<1>3. Accounts' BY RequestsAssumption DEF Lifetimes, OnlyOwnSampler, Tags, Accounts, Covered
<1>4. PeakFromOwnRequest' BY RequestsAssumption DEF Lifetimes, Tags, Accounts, PeakFromOwnRequest
<1>5. PeakCoversReadings'
  BY RequestsAssumption DEF Lifetimes, OnlyOwnSampler, Tags, Accounts, Covered, PeakCoversReadings
<1> QED BY <1>1, <1>2, <1>3, <1>4, <1>5
-----------------------------------------------------------------------------
LEMMA SafetyStep ==
  ASSUME IInv, [Next]_vars, ~gaveUp'
  PROVE  IInv'
<1>1. TypeInv' BY TypeStep DEF IInv
<1>2. CASE Benchmark
  BY <1>1, <1>2, StartClearSafe, StartResetSafe, StartSamplerSafe, StartUnavailableSafe,
     StopSignalSafe, StopJoinSafe, StopChecksSafe, StopReadsSafe, StopReadFailsSafe, StopMergesSafe,
     StopStoresSafe, StopResultSafe, StopShutdownSafe DEF Benchmark
<1>3. ASSUME NEW s \in Request, Sampler(s) PROVE IInv'
  BY <1>1, <1>3, SamplerOpensSafe, SamplerChecksSafe, SamplerCallsSafe, SamplerReadsSafe,
     SamplerNvmlFailsSafe, SamplerPeeksSafe, SamplerMergesSafe, SamplerStoresSafe,
     SamplerGivesUpSafe DEF Sampler, SamplerRuns
<1>4. CASE UNCHANGED vars
  BY <1>1, <1>4 DEF vars, observer, caller, samplers, history, IInv, Lifetimes, Tags, Accounts,
     OnlyOwnSampler, Live, Holds, Covered, PeakFromOwnRequest, PeakCoversReadings
<1> QED BY <1>2, <1>3, <1>4 DEF Next

\* Once a join has timed out it has.
LEMMA GivenUpForGood == [Next]_vars /\ gaveUp => gaveUp'
<1> SUFFICES ASSUME [Next]_vars, gaveUp PROVE gaveUp'
  OBVIOUS
<1>1. CASE Benchmark
  BY <1>1 DEF Benchmark, StartClear, StartReset, StartSampler, StartUnavailable, StopSignal,
     StopJoin, JoinAfter, StopChecks, StopReads, StopReadFails, StopMerges, StopStores, StopResult,
     StopShutdown, history
<1>2. ASSUME NEW s \in Request, Sampler(s) PROVE gaveUp'
  BY <1>2 DEF Sampler, SamplerRuns, SamplerOpens, SamplerChecks, SamplerCalls, SamplerReads,
     SamplerNvmlFails, SamplerPeeks, SamplerMerges, SamplerStores, SamplerGivesUp, history
<1>3. CASE UNCHANGED vars
  BY <1>3 DEF vars, history
<1> QED BY <1>1, <1>2, <1>3 DEF Next

\* Until a join has timed out, samplers of two requests never coexist, and the
\* peak returned for a request was read during it and is below none of its
\* readings (vram.py:35-82).
THEOREM JoinedSafety == Spec => []JoinedSafe
<1> DEFINE Joined == ~gaveUp => IInv
<1>1. Init => Joined BY SafetyInit
<1>2. Joined /\ [Next]_vars => Joined' BY SafetyStep, GivenUpForGood
<1>3. Joined => JoinedSafe
  BY DEF IInv, Lifetimes, JoinedSafe
<1>4. QED BY <1>1, <1>2, <1>3, PTL DEF Spec
=============================================================================
