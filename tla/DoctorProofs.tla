----------------------------- MODULE DoctorProofs -----------------------------
(* The active tests for any sizes: what they leave behind, what they send    *)
(* after a cancellation, and that they report.                               *)
EXTENDS Doctor, TLAPS

\* Reads follow writes, answers follow attempts, and no chunk begins late.
Counting ==
  /\ read <= written /\ received <= tried
  /\ pc = "chunk" => written < Chunks
  /\ pc = "block" => read < written
  /\ late <= 1 /\ (late > 0 => expired)
  /\ pc \in {"chunk", "block"} => late = 0

TypeInv == TypeOK /\ Counting

InTest  == InDirectory \ {"cleanup"}
Before  == {"plan", "root", "make"}
Started == {"network", "clock", "report", "exited"}

\* The directory exists only inside the with block, and the exception that
\* leaves the block is the one that stopped the test, or the removal's.
Block ==
  /\ ~stuck /\ pc \notin InDirectory => ~directory
  /\ pc \in Before \cup InTest \cup {"network", "clock", "report"} => raising = "none"
  /\ pc \in Before \cup InTest => ~cancelled
  /\ ~stuck /\ pc \in {"network", "clock"} => ~cancelled
  /\ ~stuck /\ cancelled /\ pc \in {"cleanup", "left"} => raising = "cancelled"
  /\ ~stuck /\ cancelled => tried = 0 /\ ~queried
  /\ pc \notin Started => tried = 0 /\ ~queried

BlockInv == TypeInv /\ Block

\* The results there are by the time each test is over, before the limit.
Results ==
  ~expired =>
    /\ Acceptable(disk) /\ Acceptable(network) /\ Acceptable(clock)
    /\ pc \in Before \cup InTest \cup {"network", "clock", "report"} => raising = "none"
    /\ raising # "validation"
    /\ pc \in {"cleanup", "left"} /\ raising = "none" => disk.status # "none"
    /\ pc \in {"network", "clock", "report"} => disk.status # "none"
    /\ pc \in {"clock", "report"} => network.status # "none"
    /\ pc = "report" => clock.status # "none"
    /\ pc # "exited" => exit = "running"
    /\ pc = "exited" => exit \in {"declined", "interrupted", "reported"} \/ "strange" \in {target, server}
    /\ exit = "reported" => \A r \in {disk, network, clock} : r.status # "none"

ResultInv == TypeInv /\ Results

-----------------------------------------------------------------------------
\* Every status makes a result, with or without its metrics.
LEMMA ResultTypes ==
  ASSUME NEW s \in Status
  PROVE  Is(s) \in Result /\ Scored(s) \in Result
  BY DEF Is, Scored, Result

Raised == {"none", "os", "cancelled", "validation", "interrupt", "unicode", "encode"}

\* What a return leaves: the result, or the refusal of its validator.
LEMMA ReturnTypes ==
  ASSUME TypeInv, NEW s \in Status, Return(Is(s)) \/ Return(Scored(s))
  PROVE  disk' \in Result /\ raising' \in Raised
<1>1. disk' \in {disk, Is(s), Scored(s)} /\ raising' \in {raising, "validation"}
  BY DEF Return
<1> QED
  BY <1>1, ResultTypes DEF TypeInv, TypeOK, Raised

LEMMA TypeInit == Init => TypeInv
<1> SUFFICES ASSUME Init PROVE TypeInv
  OBVIOUS
<1>1. NoResult \in Result
  BY DEF NoResult, Result, Status
<1>2. written \in 0..Chunks /\ read \in 0..Chunks /\ tried \in 0..Attempts /\ received \in 0..Attempts
  BY SizeAssumption DEF Init
<1>3. disk \in Result /\ network \in Result /\ clock \in Result
  BY <1>1 DEF Init
<1>4. Counting
  BY DEF Init, Counting
<1>5. pc \in Places /\ exit \in Exits /\ late \in Nat
  BY DEF Init, Places, Exits
<1>6. target \in Names /\ server \in Names /\ stuck \in BOOLEAN
  BY DEF Init
<1>7. directory \in BOOLEAN /\ expired \in BOOLEAN /\ cancelled \in BOOLEAN /\ queried \in BOOLEAN
  BY DEF Init
<1> QED
  BY <1>2, <1>3, <1>4, <1>5, <1>6, <1>7 DEF Init, TypeInv, TypeOK

\* Types and counters.
LEMMA TypeStep ==
  ASSUME TypeInv, [Next]_vars
  PROVE  TypeInv'
<1> USE DEF vars, setup, files, timing, probes, results, Go, InDirectory,
        TypeInv, TypeOK, Counting, Places, Exits, Raised
<1> USE SizeAssumption
<1>1. ASSUME Approve PROVE TypeInv'
  BY <1>1 DEF Approve
<1>2. ASSUME Decline PROVE TypeInv'
  BY <1>2 DEF Decline
<1>3. ASSUME RejectRoot PROVE TypeInv'
  <2>1. disk' \in Result
    BY <1>3, ResultTypes DEF RejectRoot, Status
  <2> QED
    BY <1>3, <2>1 DEF RejectRoot
<1>4. ASSUME AcceptRoot PROVE TypeInv'
  BY <1>4 DEF AcceptRoot
<1>5. ASSUME MakeDirectory PROVE TypeInv'
  BY <1>5 DEF MakeDirectory
<1>6. ASSUME MakeFails PROVE TypeInv'
  BY <1>6 DEF MakeFails
<1>7. ASSUME RejectBoundary PROVE TypeInv'
  <2>1. disk' \in Result /\ raising' \in Raised
    BY <1>7, ReturnTypes DEF RejectBoundary, Status
  <2> QED
    BY <1>7, <2>1 DEF RejectBoundary, Return
<1>8. ASSUME AcceptBoundary PROVE TypeInv'
  BY <1>8 DEF AcceptBoundary
<1>9. ASSUME OpenFile PROVE TypeInv'
  BY <1>9 DEF OpenFile
<1>10. ASSUME DiskFails PROVE TypeInv'
  BY <1>10 DEF DiskFails
<1>11. ASSUME LimitStop PROVE TypeInv'
  <2>1. disk' \in Result /\ raising' \in Raised
    BY <1>11, ReturnTypes DEF LimitStop, Status
  <2> QED
    BY <1>11, <2>1 DEF LimitStop, Return
<1>12. ASSUME BeginChunk PROVE TypeInv'
  BY <1>12 DEF BeginChunk, ChunkBegins
<1>13. ASSUME EndChunk PROVE TypeInv'
  <2>1. late' \in Nat
    BY <1>13 DEF EndChunk
  <2>2. pc' \in {"writing", "reading", "cleanup"} /\ raising' \in {raising, "cancelled"}
    BY <1>13 DEF EndChunk
  <2>3. cancelled' \in BOOLEAN /\ directory' = directory
    BY <1>13 DEF EndChunk
  <2>4. written' \in 0..Chunks /\ read' \in 0..Chunks /\ read' <= written'
    BY <1>13 DEF EndChunk
  <2> QED
    BY <1>13, <2>1, <2>2, <2>3, <2>4 DEF EndChunk
<1>14. ASSUME ShortRead PROVE TypeInv'
  <2>1. disk' \in Result /\ raising' \in Raised
    BY <1>14, ReturnTypes DEF ShortRead, Status
  <2> QED
    BY <1>14, <2>1 DEF ShortRead, Return
<1>15. ASSUME WritesEnd PROVE TypeInv'
  BY <1>15 DEF WritesEnd
<1>16. ASSUME Synced PROVE TypeInv'
  BY <1>16 DEF Synced
<1>17. ASSUME ReadsEnd PROVE TypeInv'
  BY <1>17 DEF ReadsEnd
<1>18. ASSUME Judge PROVE TypeInv'
  <2>1. PICK s \in Completed : Return(Scored(s))
    BY <1>18 DEF Judge
  <2>2. disk' \in Result /\ raising' \in Raised
    BY <2>1, ReturnTypes DEF Completed, Status
  <2> QED
    BY <1>18, <2>1, <2>2 DEF Judge, Return
<1>19. ASSUME RemoveDirectory PROVE TypeInv'
  BY <1>19 DEF RemoveDirectory, CleanUp
<1>20. ASSUME RemoveFails PROVE TypeInv'
  BY <1>20 DEF RemoveFails
<1>21. ASSUME DiskDone PROVE TypeInv'
  <2>1. disk' \in Result
    BY <1>21, ResultTypes DEF DiskDone, Status
  <2> QED
    BY <1>21, <2>1 DEF DiskDone
<1>22. ASSUME DiskCancelled PROVE TypeInv'
  <2>1. disk' \in Result /\ network' \in Result /\ clock' \in Result
    BY <1>22, ResultTypes DEF DiskCancelled, Status
  <2> QED
    BY <1>22, <2>1 DEF DiskCancelled
<1>23. ASSUME SkipNetwork PROVE TypeInv'
  <2>1. network' \in Result
    BY <1>23, ResultTypes DEF SkipNetwork, Status
  <2> QED
    BY <1>23, <2>1 DEF SkipNetwork
<1>24. ASSUME Probe PROVE TypeInv'
  BY <1>24 DEF Probe, ProbeUpTo
<1>25. ASSUME JudgeNetwork PROVE TypeInv'
  <2>1. PICK s \in StatusOf(Attempts - received) : network' = IF received = 0 THEN Is("unknown") ELSE Scored(s)
    BY <1>25 DEF JudgeNetwork
  <2>2. s \in Status
    BY <2>1 DEF StatusOf, Status
  <2>3. network' \in Result
    BY <2>1, <2>2, ResultTypes DEF Status
  <2> QED
    BY <1>25, <2>3 DEF JudgeNetwork
<1>26. ASSUME SkipClock PROVE TypeInv'
  <2>1. clock' \in Result
    BY <1>26, ResultTypes DEF SkipClock, Status
  <2> QED
    BY <1>26, <2>1 DEF SkipClock
<1>27. ASSUME QueryClock PROVE TypeInv'
  <2>1. clock' \in Result
    <3>1. CASE clock' = Is("unknown")
      BY <3>1, ResultTypes DEF Status
    <3>2. CASE \E s \in Completed : clock' = Scored(s)
      BY <3>2, ResultTypes DEF Completed, Status
    <3> QED
      BY <1>27, <3>1, <3>2 DEF QueryClock
  <2> QED
    BY <1>27, <2>1 DEF QueryClock
<1>28. ASSUME Report PROVE TypeInv'
  BY <1>28 DEF Report
<1>29. ASSUME Escape PROVE TypeInv'
  BY <1>29 DEF Escape
<1>30. ASSUME Interrupt PROVE TypeInv'
  BY <1>30 DEF Interrupt
<1>31. ASSUME Expire PROVE TypeInv'
  BY <1>31 DEF Expire
<1>32. ASSUME UNCHANGED vars PROVE TypeInv'
  BY <1>32
<1>33. ASSUME ProbeRaises PROVE TypeInv'
  BY <1>33 DEF ProbeRaises, Crash
<1>34. ASSUME QueryRaises PROVE TypeInv'
  BY <1>34 DEF QueryRaises, Crash
<1> QED
  BY <1>1, <1>2, <1>3, <1>4, <1>5, <1>6, <1>7, <1>8, <1>9, <1>10, <1>11,
     <1>12, <1>13, <1>14, <1>15, <1>16, <1>17, <1>18, <1>19, <1>20,
     <1>21, <1>22, <1>23, <1>24, <1>25, <1>26, <1>27, <1>28, <1>29,
     <1>30, <1>31, <1>32, <1>33, <1>34
  DEF Next, Program, DiskTest

-----------------------------------------------------------------------------
LEMMA BlockInit == Init => Block
  BY DEF Init, Block, InDirectory, Before, InTest, Started

\* What leaves the with block.
LEMMA BlockStep ==
  ASSUME TypeInv, Block, [Next]_vars
  PROVE  Block'
<1> USE DEF vars, setup, files, timing, probes, results, Go, Return, InDirectory,
        Block, Places, Before, InTest, Started
<1>0. pc \in Places
  BY DEF TypeInv, TypeOK
<1>1. ASSUME Approve PROVE Block'
  BY <1>1 DEF Approve
<1>2. ASSUME Decline PROVE Block'
  BY <1>2 DEF Decline
<1>3. ASSUME RejectRoot PROVE Block'
  BY <1>3 DEF RejectRoot
<1>4. ASSUME AcceptRoot PROVE Block'
  BY <1>4 DEF AcceptRoot
<1>5. ASSUME MakeDirectory PROVE Block'
  BY <1>5 DEF MakeDirectory
<1>6. ASSUME MakeFails PROVE Block'
  BY <1>6 DEF MakeFails
<1>7. ASSUME RejectBoundary PROVE Block'
  BY <1>7 DEF RejectBoundary
<1>8. ASSUME AcceptBoundary PROVE Block'
  BY <1>8 DEF AcceptBoundary
<1>9. ASSUME OpenFile PROVE Block'
  BY <1>9 DEF OpenFile
<1>10. ASSUME DiskFails PROVE Block'
  BY <1>10 DEF DiskFails
<1>11. ASSUME LimitStop PROVE Block'
  BY <1>11 DEF LimitStop
<1>12. ASSUME BeginChunk PROVE Block'
  BY <1>12 DEF BeginChunk, ChunkBegins
<1>13. ASSUME EndChunk PROVE Block'
  BY <1>13 DEF EndChunk
<1>14. ASSUME ShortRead PROVE Block'
  BY <1>14 DEF ShortRead
<1>15. ASSUME WritesEnd PROVE Block'
  BY <1>15 DEF WritesEnd
<1>16. ASSUME Synced PROVE Block'
  BY <1>16 DEF Synced
<1>17. ASSUME ReadsEnd PROVE Block'
  BY <1>17 DEF ReadsEnd
<1>18. ASSUME Judge PROVE Block'
  BY <1>18 DEF Judge
<1>19. ASSUME RemoveDirectory PROVE Block'
  BY <1>19 DEF RemoveDirectory, CleanUp
<1>20. ASSUME RemoveFails PROVE Block'
  BY <1>20 DEF RemoveFails
<1>21. ASSUME DiskDone PROVE Block'
  BY <1>21 DEF DiskDone
<1>22. ASSUME DiskCancelled PROVE Block'
  BY <1>22 DEF DiskCancelled
<1>23. ASSUME SkipNetwork PROVE Block'
  BY <1>23 DEF SkipNetwork
<1>24. ASSUME Probe PROVE Block'
  BY <1>24 DEF Probe, ProbeUpTo
<1>25. ASSUME JudgeNetwork PROVE Block'
  BY <1>25 DEF JudgeNetwork
<1>26. ASSUME SkipClock PROVE Block'
  BY <1>26 DEF SkipClock
<1>27. ASSUME QueryClock PROVE Block'
  BY <1>27 DEF QueryClock
<1>28. ASSUME Report PROVE Block'
  BY <1>28 DEF Report
<1>29. ASSUME Escape PROVE Block'
  BY <1>29 DEF Escape
<1>30. ASSUME Interrupt PROVE Block'
  BY <1>30 DEF Interrupt
<1>31. ASSUME Expire PROVE Block'
  BY <1>31 DEF Expire
<1>32. ASSUME UNCHANGED vars PROVE Block'
  BY <1>32
<1>33. ASSUME ProbeRaises PROVE Block'
  BY <1>33 DEF ProbeRaises, Crash
<1>34. ASSUME QueryRaises PROVE Block'
  BY <1>34 DEF QueryRaises, Crash
<1> QED
  BY <1>1, <1>2, <1>3, <1>4, <1>5, <1>6, <1>7, <1>8, <1>9, <1>10, <1>11,
     <1>12, <1>13, <1>14, <1>15, <1>16, <1>17, <1>18, <1>19, <1>20,
     <1>21, <1>22, <1>23, <1>24, <1>25, <1>26, <1>27, <1>28, <1>29,
     <1>30, <1>31, <1>32, <1>33, <1>34
  DEF Next, Program, DiskTest

-----------------------------------------------------------------------------
\* A status is what it is, and the validator accepts it measured or not at all.
LEMMA ResultFacts ==
  ASSUME NEW s
  PROVE  /\ Is(s).status = s /\ Scored(s).status = s
         /\ Acceptable(Scored(s))
         /\ s \notin Completed => Acceptable(Is(s))
  BY DEF Is, Scored, Acceptable

LEMMA ResultInit == Init => Results
<1>1. Acceptable(NoResult)
  BY DEF NoResult, Acceptable, Completed
<1> QED
  BY <1>1 DEF Init, Results, Before, InTest, InDirectory

\* The results at each place, before the limit is reached.
LEMMA ResultStep ==
  ASSUME TypeInv, Results, [Next]_vars
  PROVE  Results'
<1> USE DEF vars, setup, files, timing, probes, results, Go, InDirectory, Results, Before, InTest
<1>1. ASSUME Approve PROVE Results'
  BY <1>1 DEF Approve
<1>2. ASSUME Decline PROVE Results'
  BY <1>2 DEF Decline
<1>3. ASSUME RejectRoot PROVE Results'
  <2>1. Acceptable(disk') /\ disk'.status # "none"
    BY <1>3, ResultFacts DEF RejectRoot, Completed
  <2> QED
    BY <1>3, <2>1 DEF RejectRoot
<1>4. ASSUME AcceptRoot PROVE Results'
  BY <1>4 DEF AcceptRoot
<1>5. ASSUME MakeDirectory PROVE Results'
  BY <1>5 DEF MakeDirectory
<1>6. ASSUME MakeFails PROVE Results'
  BY <1>6 DEF MakeFails
<1>7. ASSUME RejectBoundary PROVE Results'
  <2>1. Acceptable(disk') /\ disk'.status # "none" /\ raising' = raising
    BY <1>7, ResultFacts DEF RejectBoundary, Return, Completed
  <2> QED
    BY <1>7, <2>1 DEF RejectBoundary, Return
<1>8. ASSUME AcceptBoundary PROVE Results'
  BY <1>8 DEF AcceptBoundary
<1>9. ASSUME OpenFile PROVE Results'
  BY <1>9 DEF OpenFile
<1>10. ASSUME DiskFails PROVE Results'
  BY <1>10 DEF DiskFails
<1>11. ASSUME LimitStop PROVE Results'
  BY <1>11 DEF LimitStop
<1>12. ASSUME BeginChunk PROVE Results'
  BY <1>12 DEF BeginChunk, ChunkBegins
<1>13. ASSUME EndChunk PROVE Results'
  BY <1>13 DEF EndChunk
<1>14. ASSUME ShortRead PROVE Results'
  <2>1. Acceptable(disk') /\ disk'.status # "none" /\ raising' = raising
    BY <1>14, ResultFacts DEF ShortRead, Return, Completed
  <2> QED
    BY <1>14, <2>1 DEF ShortRead, Return
<1>15. ASSUME WritesEnd PROVE Results'
  BY <1>15 DEF WritesEnd
<1>16. ASSUME Synced PROVE Results'
  BY <1>16 DEF Synced
<1>17. ASSUME ReadsEnd PROVE Results'
  BY <1>17 DEF ReadsEnd
<1>18. ASSUME Judge PROVE Results'
  <2>1. PICK s \in Completed : Return(Scored(s))
    BY <1>18 DEF Judge
  <2>2. Acceptable(disk') /\ disk'.status # "none" /\ raising' = raising
    BY <2>1, ResultFacts DEF Return, Completed
  <2> QED
    BY <1>18, <2>1, <2>2 DEF Judge, Return
<1>19. ASSUME RemoveDirectory PROVE Results'
  BY <1>19 DEF RemoveDirectory, CleanUp
<1>20. ASSUME RemoveFails PROVE Results'
  BY <1>20 DEF RemoveFails
<1>21. ASSUME DiskDone PROVE Results'
  <2>1. ~expired => Acceptable(disk') /\ disk'.status # "none"
    BY <1>21, ResultFacts DEF DiskDone, Completed
  <2> QED
    BY <1>21, <2>1 DEF DiskDone
<1>22. ASSUME DiskCancelled PROVE Results'
  <2>1. Acceptable(Is("skipped")) /\ Is("skipped").status # "none"
    BY ResultFacts DEF Completed
  <2> QED
    BY <1>22, <2>1 DEF DiskCancelled
<1>23. ASSUME SkipNetwork PROVE Results'
  <2>1. Acceptable(network') /\ network'.status # "none"
    BY <1>23, ResultFacts DEF SkipNetwork, Completed
  <2> QED
    BY <1>23, <2>1 DEF SkipNetwork
<1>24. ASSUME Probe PROVE Results'
  BY <1>24 DEF Probe, ProbeUpTo
<1>25. ASSUME JudgeNetwork PROVE Results'
  <2>1. PICK s \in StatusOf(Attempts - received) : network' = IF received = 0 THEN Is("unknown") ELSE Scored(s)
    BY <1>25 DEF JudgeNetwork
  <2>2. s \in Completed
    BY <2>1 DEF StatusOf, Completed
  <2>3. Acceptable(network') /\ network'.status # "none"
    BY <2>1, <2>2, ResultFacts DEF Completed
  <2> QED
    BY <1>25, <2>3 DEF JudgeNetwork
<1>26. ASSUME SkipClock PROVE Results'
  <2>1. Acceptable(clock') /\ clock'.status # "none"
    BY <1>26, ResultFacts DEF SkipClock, Completed
  <2> QED
    BY <1>26, <2>1 DEF SkipClock
<1>27. ASSUME QueryClock PROVE Results'
  <2>1. Acceptable(clock') /\ clock'.status # "none"
    BY <1>27, ResultFacts DEF QueryClock, Completed
  <2> QED
    BY <1>27, <2>1 DEF QueryClock
<1>28. ASSUME Report PROVE Results'
  BY <1>28 DEF Report
<1>29. ASSUME Escape PROVE Results'
  BY <1>29 DEF Escape
<1>30. ASSUME Interrupt PROVE Results'
  BY <1>30 DEF Interrupt
<1>31. ASSUME Expire PROVE Results'
  BY <1>31 DEF Expire
<1>32. ASSUME UNCHANGED vars PROVE Results'
  BY <1>32
<1>33. ASSUME ProbeRaises PROVE Results'
  BY <1>33 DEF ProbeRaises, Crash
<1>34. ASSUME QueryRaises PROVE Results'
  BY <1>34 DEF QueryRaises, Crash
<1> QED
  BY <1>1, <1>2, <1>3, <1>4, <1>5, <1>6, <1>7, <1>8, <1>9, <1>10, <1>11,
     <1>12, <1>13, <1>14, <1>15, <1>16, <1>17, <1>18, <1>19, <1>20,
     <1>21, <1>22, <1>23, <1>24, <1>25, <1>26, <1>27, <1>28, <1>29,
     <1>30, <1>31, <1>32, <1>33, <1>34
  DEF Next, Program, DiskTest

-----------------------------------------------------------------------------
\* Type correctness: the counters stay within the sizes of the test, and each
\* result is one of the model's (Doctor's TypeOK).
THEOREM TypeCorrect == Spec => []TypeOK
<1>1. Spec => []TypeInv
  BY TypeInit, TypeStep, PTL DEF Spec
<1> QED
  BY <1>1, PTL DEF TypeInv

\* A directory that can be removed is gone as soon as the disk test is over: an
\* error, a refused result, a cancellation and Ctrl-C included.
THEOREM NothingIsLeft == Spec => []DirectoryRemoved
<1>1. Init => BlockInv
  BY TypeInit, BlockInit DEF BlockInv
<1>2. BlockInv /\ [Next]_vars => BlockInv'
  BY TypeStep, BlockStep DEF BlockInv
<1>3. BlockInv => DirectoryRemoved
  BY DEF BlockInv, Block, DirectoryRemoved
<1> QED
  BY <1>1, <1>2, <1>3, PTL DEF Spec

\* With such a directory, nothing is sent once the disk test is cancelled; and
\* with any, at most one chunk ends after the limit.
THEOREM TestStops == Spec => []StopsWhenTold
<1>1. Init => BlockInv
  BY TypeInit, BlockInit DEF BlockInv
<1>2. BlockInv /\ [Next]_vars => BlockInv'
  BY TypeStep, BlockStep DEF BlockInv
<1>3. BlockInv => StopsWhenTold
  BY DEF BlockInv, Block, TypeInv, Counting, StopsWhenTold
<1> QED
  BY <1>1, <1>2, <1>3, PTL DEF Spec

\* The network result is made once, of all the attempts.
Judged ==
  /\ network.status # "none" => pc \in {"clock", "report", "exited"}
  /\ NetworkHonest

LEMMA JudgedStep ==
  ASSUME TypeInv, Judged, Next
  PROVE  Judged'
<1> USE DEF TypeInv, TypeOK, Judged, NetworkHonest, Go, Is, setup, files, timing, probes, results, Result
<1>1. ASSUME SkipNetwork PROVE Judged'
  BY <1>1 DEF SkipNetwork
<1>2. ASSUME Probe PROVE Judged'
  BY <1>2 DEF Probe, ProbeUpTo
<1>3. ASSUME DiskCancelled PROVE Judged'
  BY <1>3 DEF DiskCancelled
<1>4. ASSUME JudgeNetwork PROVE Judged'
  <2>1. PICK s \in StatusOf(Attempts - received) : network' = IF received = 0 THEN Is("unknown") ELSE Scored(s)
    BY <1>4 DEF JudgeNetwork
  <2>2. tried = Attempts /\ tried' = tried /\ received' = received /\ pc' = "clock"
    BY <1>4 DEF JudgeNetwork
  <2>3. Attempts \in Nat \ {0} /\ received \in 0..Attempts
    BY SizeAssumption
  <2>4. CASE received = 0
    BY <2>1, <2>2, <2>3, <2>4
  <2>5. CASE received # 0
    <3>1. network'.status = s
      BY <2>1, <2>5 DEF Scored
    <3>2. CASE 2 * (Attempts - received) >= Attempts
      <4>1. s = "fail"
        BY <2>1, <3>2 DEF StatusOf
      <4> QED
        BY <2>2, <2>5, <3>1, <4>1
    <3>3. CASE 2 * (Attempts - received) < Attempts /\ Attempts - received > 0
      <4>1. s = "warn"
        BY <2>1, <2>3, <3>3 DEF StatusOf
      <4>2. 2 * received > Attempts
        BY <2>3, <3>3
      <4> QED
        BY <2>2, <2>5, <3>1, <4>1, <4>2
    <3>4. CASE 2 * (Attempts - received) < Attempts /\ ~(Attempts - received > 0)
      <4>1. s \in {"pass", "warn"}
        BY <2>1, <2>3, <3>4 DEF StatusOf
      <4>2. received = Attempts /\ 2 * received > Attempts
        BY <2>3, <3>4
      <4> QED
        BY <2>2, <2>5, <3>1, <4>1, <4>2
    <3> QED
      BY <2>3, <3>2, <3>3, <3>4
  <2> QED
    BY <2>4, <2>5
<1>5. ASSUME ~SkipNetwork, ~Probe, ~DiskCancelled, ~JudgeNetwork PROVE Judged'
  <2>1. UNCHANGED <<network, tried, received>> /\ (pc \in {"clock", "report", "exited"} => pc' \in {"clock", "report", "exited"})
    BY <1>5 DEF Next, Program, DiskTest, Approve, Decline, RejectRoot, AcceptRoot, MakeDirectory, MakeFails,
       RejectBoundary, AcceptBoundary, OpenFile, DiskFails, LimitStop, BeginChunk, ChunkBegins, EndChunk,
       ShortRead, WritesEnd, Synced, ReadsEnd, Judge, Return, RemoveDirectory, CleanUp, RemoveFails, DiskDone,
       SkipClock, QueryClock, ProbeRaises, QueryRaises, Crash, Report, Escape, Interrupt, Expire, InDirectory
  <2> QED
    BY <2>1
<1> QED
  BY <1>1, <1>2, <1>3, <1>4, <1>5

\* Every approved command whose names can be looked up ends, unless interrupted
\* or late, in a report with three acceptable results, of which the network's is
\* what was counted.
THEOREM ReportIsMade == Spec => []ReportedInTime
<1>1. Init => ResultInv /\ Judged
  BY TypeInit, ResultInit DEF ResultInv, Init, Judged, NetworkHonest, NoResult
<1>2. ResultInv /\ Judged /\ [Next]_vars => ResultInv' /\ Judged'
  <2>1. ASSUME UNCHANGED vars, Judged PROVE Judged'
    BY <2>1 DEF vars, probes, results, Judged, NetworkHonest
  <2> QED
    BY <2>1, TypeStep, ResultStep, JudgedStep DEF ResultInv
<1>3. ResultInv /\ Judged => ReportedInTime
  BY DEF ResultInv, Results, Judged, ReportedInTime, Ordinary, Reported
<1> QED
  BY <1>1, <1>2, <1>3, PTL DEF Spec

=============================================================================
