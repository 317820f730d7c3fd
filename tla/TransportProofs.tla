----------------------------- MODULE TransportProofs -----------------------------
(* The connection for any number of addresses and any length of request: what *)
(* is left of it, what it connects to, and what its deadline costs.           *)
EXTENDS Transport, TLAPS

Before == Resolving \cup {"start", "reap", "next"}

\* Where the connection is says what it holds and what it has heard.
Holding ==
  /\ pc \in Dialing \cup Sending => open = {at} /\ at \in 1..known
  /\ pc \in Before => open = {}
  /\ pc \in Before \cup Dialing => ~connected
  /\ pc \in Before \cup Dialing => sent = 0
  /\ pc \in Sending => connected /\ sent < Chunks
  /\ open \subseteq {at} /\ (connected => at \in 1..known)
  /\ pc = "ended" /\ ~connected => open = {}
  /\ pc = "closed" => open = {}
  /\ pc \in {"start"} \cup Resolving \cup {"reap"} => at = 0
  /\ pc = "start" => known = 0 /\ resolver = "none"
  /\ pc \in {"ask", "poll"} => resolver \in {"running", "resolved", "failed"}
  /\ pc \in {"answer", "next", "ended", "closed"} \cup Dialing \cup Sending =>
       resolver \in {"none", "reaped"}
  /\ pc \notin {"reap", "ended", "closed"} => raising = "none"

TypeInv == TypeOK /\ Holding

\* The addresses already tried do not work, and the handshake is with one
\* that listens.
Tried ==
  /\ \A i \in 1..(at - 1) : ~Good(i)
  /\ pc = "next" => \A i \in 1..at : ~Good(i)
  /\ pc \in {"hello", "shake", "stall"} => tls
  /\ connected => Good(at)
  /\ raising = "os" /\ ~connected =>
       /\ \A i \in 1..at : ~Good(i)
       /\ at < known => peer[at + 1] = "unsupported"

TriedInv == TypeInv /\ Tried

\* The one late operation is between a check that passes and the next one.
Lateness ==
  /\ late <= 1
  /\ late > 0 => cancelled \/ expired
  /\ pc \in {"dial", "look", "shake", "push"} => late = 0
  /\ pc \notin {"reap", "ended", "closed"} => noticed = "none"
  /\ noticed # "none" => raising = noticed

LateInv == TypeInv /\ Lateness
-----------------------------------------------------------------------------
LEMMA TypeInit == Init => TypeInv
<1> SUFFICES ASSUME Init PROVE TypeInv
  OBVIOUS
<1>1. Holding
  BY DEF Init, Holding, Resolving, Dialing, Sending, Before
<1>2. 0 \in 0..MaxAddresses /\ 0 \in 0..Chunks /\ 0 \in 0..known
  BY SizeAssumption DEF Init
<1>3. TypeOK
  BY <1>2 DEF Init, TypeOK, Places
<1> QED
  BY <1>1, <1>3 DEF TypeInv

\* What the connection holds, step by step.
LEMMA TypeStep ==
  ASSUME TypeInv, [Next]_vars
  PROVE  TypeInv'
<1> USE DEF vars, endpoint, clock, names, socket, Go, Addresses, Resolving, Dialing, Sending,
        Places, Before, TypeInv, TypeOK, Holding
<1> USE SizeAssumption
<1>1. ASSUME CheckPasses PROVE TypeInv'
  BY <1>1 DEF CheckPasses, PassIf, Rounds
<1>2. ASSUME CheckFails PROVE TypeInv'
  BY <1>2 DEF CheckFails, Leave, Exit, Rounds, Deadline
<1>3. ASSUME Literal PROVE TypeInv'
  BY <1>3 DEF Literal
<1>4. ASSUME StartResolver PROVE TypeInv'
  BY <1>4 DEF StartResolver
<1>5. ASSUME CannotStartResolver PROVE TypeInv'
  BY <1>5 DEF CannotStartResolver, Leave, Exit
<1>6. ASSUME Communicate PROVE TypeInv'
  BY <1>6 DEF Communicate
<1>7. ASSUME StillRunning PROVE TypeInv'
  BY <1>7 DEF StillRunning
<1>8. ASSUME Answer PROVE TypeInv'
  BY <1>8 DEF Answer, Leave, Exit, Deadline
<1>9. ASSUME Reap PROVE TypeInv'
  BY <1>9 DEF Reap, EndResolver
<1>10. ASSUME TryNext PROVE TypeInv'
  <2>1. at' \in 1..known /\ at' \in Addresses /\ at' \in 0..known /\ known' = known
    BY <1>10 DEF TryNext, TryUpTo
  <2>2. open' = {at'} /\ pc' = "dial"
    BY <1>10 DEF TryNext, TryUpTo
  <2> QED
    BY <1>10, <2>1, <2>2 DEF TryNext, TryUpTo
<1>11. ASSUME NoSocket PROVE TypeInv'
  BY <1>11 DEF NoSocket, Leave, Exit
<1>12. ASSUME AllFailed PROVE TypeInv'
  BY <1>12 DEF AllFailed, Leave, Exit
<1>13. ASSUME Dial PROVE TypeInv'
  BY <1>13 DEF Dial, Touch
<1>14. ASSUME NotReady PROVE TypeInv'
  BY <1>14 DEF NotReady, Touch
<1>15. ASSUME Join PROVE TypeInv'
  <2>1. CASE tls
    <3>1. pc' = "hello" /\ connected' = FALSE
      BY <1>15, <2>1, Zenon DEF Join, JoinIf
    <3> QED
      BY <1>15, <3>1 DEF Join, JoinIf, Touch
  <2>2. CASE ~tls
    <3>1. pc' = "write" /\ connected' = TRUE
      BY <1>15, <2>2, Zenon DEF Join, JoinIf
    <3> QED
      BY <1>15, <3>1 DEF Join, JoinIf, Touch
  <2> QED
    BY <2>1, <2>2
<1>16. ASSUME Handshake PROVE TypeInv'
  BY <1>16 DEF Handshake, Touch
<1>17. ASSUME Drop PROVE TypeInv'
  BY <1>17 DEF Drop, Touch
<1>18. ASSUME Push PROVE TypeInv'
  BY <1>18 DEF Push, Touch
<1>19. ASSUME PushFails PROVE TypeInv'
  BY <1>19 DEF PushFails, Leave, Exit, Touch
<1>20. ASSUME Close PROVE TypeInv'
  BY <1>20 DEF Close
<1>21. ASSUME ResolverEnds PROVE TypeInv'
  BY <1>21 DEF ResolverEnds
<1>22. ASSUME Interrupt PROVE TypeInv'
  BY <1>22 DEF Interrupt, Leave, Exit
<1>23. ASSUME Cancel PROVE TypeInv'
  BY <1>23 DEF Cancel
<1>24. ASSUME Expire PROVE TypeInv'
  BY <1>24 DEF Expire
<1>25. ASSUME UNCHANGED vars PROVE TypeInv'
  BY <1>25
<1> QED
  BY <1>1, <1>2, <1>3, <1>4, <1>5, <1>6, <1>7, <1>8, <1>9, <1>10, <1>11,
     <1>12, <1>13, <1>14, <1>15, <1>16, <1>17, <1>18, <1>19, <1>20,
     <1>21, <1>22, <1>23, <1>24, <1>25
  DEF Next, Program

\* For any numbers of addresses and chunks, every step keeps the types.
THEOREM TypeCorrect == Spec => []TypeOK
<1>1. TypeInv => TypeOK
  BY DEF TypeInv
<1> QED
  BY TypeInit, TypeStep, <1>1, PTL DEF Spec

\* A request that is over has left no subprocess and no socket, and at no time
\* has more than one of them.
THEOREM NothingIsLeft == Spec => []NothingLeft
<1>1. TypeInv => NothingLeft
  BY DEF TypeInv, TypeOK, Holding, NothingLeft, Before, Resolving, Dialing, Sending, Places
<1> QED
  BY TypeInit, TypeStep, <1>1, PTL DEF Spec

\* What has been tried, step by step.
LEMMA TriedStep ==
  ASSUME TriedInv, [Next]_vars
  PROVE  TriedInv'
<1>0. TypeInv /\ TypeInv'
  BY TypeStep DEF TriedInv
<1> SUFFICES Tried'
  BY <1>0 DEF TriedInv
<1> USE DEF vars, endpoint, clock, names, socket, Go, Addresses, Resolving, Dialing, Sending,
        Before, TypeInv, TypeOK, Holding, TriedInv, Tried, Good, Listens, Kinds
<1> USE SizeAssumption, <1>0
<1>1. ASSUME CheckPasses PROVE Tried'
  BY <1>1 DEF CheckPasses, PassIf, Rounds
<1>2. ASSUME CheckFails PROVE Tried'
  BY <1>2 DEF CheckFails, Leave, Exit, Rounds, Deadline
<1>3. ASSUME Literal PROVE Tried'
  BY <1>3 DEF Literal
<1>4. ASSUME StartResolver PROVE Tried'
  BY <1>4 DEF StartResolver
<1>5. ASSUME CannotStartResolver PROVE Tried'
  BY <1>5 DEF CannotStartResolver, Leave, Exit
<1>6. ASSUME Communicate PROVE Tried'
  BY <1>6 DEF Communicate
<1>7. ASSUME StillRunning PROVE Tried'
  BY <1>7 DEF StillRunning
<1>8. ASSUME Answer PROVE Tried'
  BY <1>8 DEF Answer, Leave, Exit, Deadline
<1>9. ASSUME Reap PROVE Tried'
  BY <1>9 DEF Reap, EndResolver
<1>10. ASSUME TryNext PROVE Tried'
  BY <1>10 DEF TryNext, TryUpTo
<1>11. ASSUME NoSocket PROVE Tried'
  BY <1>11 DEF NoSocket, Leave, Exit
<1>12. ASSUME AllFailed PROVE Tried'
  BY <1>12 DEF AllFailed, Leave, Exit
<1>13. ASSUME Dial PROVE Tried'
  BY <1>13 DEF Dial, Touch
<1>14. ASSUME NotReady PROVE Tried'
  BY <1>14 DEF NotReady, Touch
<1>15. ASSUME Join PROVE Tried'
  BY <1>15 DEF Join, JoinIf, Touch
<1>16. ASSUME Handshake PROVE Tried'
  BY <1>16 DEF Handshake, Touch
<1>17. ASSUME Drop PROVE Tried'
  BY <1>17 DEF Drop, Touch
<1>18. ASSUME Push PROVE Tried'
  BY <1>18 DEF Push, Touch
<1>19. ASSUME PushFails PROVE Tried'
  BY <1>19 DEF PushFails, Leave, Exit, Touch
<1>20. ASSUME Close PROVE Tried'
  BY <1>20 DEF Close
<1>21. ASSUME ResolverEnds PROVE Tried'
  BY <1>21 DEF ResolverEnds
<1>22. ASSUME Interrupt PROVE Tried'
  BY <1>22 DEF Interrupt, Leave, Exit
<1>23. ASSUME Cancel PROVE Tried'
  BY <1>23 DEF Cancel
<1>24. ASSUME Expire PROVE Tried'
  BY <1>24 DEF Expire
<1>25. ASSUME UNCHANGED vars PROVE Tried'
  BY <1>25
<1> QED
  BY <1>1, <1>2, <1>3, <1>4, <1>5, <1>6, <1>7, <1>8, <1>9, <1>10, <1>11,
     <1>12, <1>13, <1>14, <1>15, <1>16, <1>17, <1>18, <1>19, <1>20,
     <1>21, <1>22, <1>23, <1>24, <1>25
  DEF Next, Program

LEMMA TriedInit == Init => TriedInv
<1>1. Init => Tried
  BY DEF Init, Tried
<1> QED
  BY <1>1, TypeInit DEF TriedInv

\* The request goes to the first address that works, with its certificate
\* verified, and fails when every address has, or where no socket can be made.
THEOREM FirstIsUsed == Spec => []AddressesInOrder
<1>1. TriedInv => AddressesInOrder
  BY DEF TriedInv, Tried, AddressesInOrder
<1> QED
  BY TriedInit, TriedStep, <1>1, PTL DEF Spec

\* What comes late, step by step.
LEMMA LateStep ==
  ASSUME LateInv, [Next]_vars
  PROVE  LateInv'
<1>0. TypeInv /\ TypeInv'
  BY TypeStep DEF LateInv
<1> SUFFICES Lateness'
  BY <1>0 DEF LateInv
<1> USE DEF vars, endpoint, clock, names, socket, Go, Resolving, Dialing, Sending,
        TypeInv, TypeOK, Holding, LateInv, Lateness, Deadline
<1> USE <1>0
<1>1. ASSUME CheckPasses PROVE Lateness'
  BY <1>1 DEF CheckPasses, PassIf, Rounds
<1>2. ASSUME CheckFails PROVE Lateness'
  BY <1>2 DEF CheckFails, Leave, Exit, Rounds, Deadline
<1>3. ASSUME Literal PROVE Lateness'
  BY <1>3 DEF Literal
<1>4. ASSUME StartResolver PROVE Lateness'
  BY <1>4 DEF StartResolver
<1>5. ASSUME CannotStartResolver PROVE Lateness'
  BY <1>5 DEF CannotStartResolver, Leave, Exit
<1>6. ASSUME Communicate PROVE Lateness'
  BY <1>6 DEF Communicate
<1>7. ASSUME StillRunning PROVE Lateness'
  BY <1>7 DEF StillRunning
<1>8. ASSUME Answer PROVE Lateness'
  BY <1>8 DEF Answer, Leave, Exit, Deadline
<1>9. ASSUME Reap PROVE Lateness'
  BY <1>9 DEF Reap, EndResolver
<1>10. ASSUME TryNext PROVE Lateness'
  BY <1>10 DEF TryNext, TryUpTo
<1>11. ASSUME NoSocket PROVE Lateness'
  BY <1>11 DEF NoSocket, Leave, Exit
<1>12. ASSUME AllFailed PROVE Lateness'
  BY <1>12 DEF AllFailed, Leave, Exit
<1>13. ASSUME Dial PROVE Lateness'
  BY <1>13 DEF Dial, Touch
<1>14. ASSUME NotReady PROVE Lateness'
  BY <1>14 DEF NotReady, Touch
<1>15. ASSUME Join PROVE Lateness'
  BY <1>15 DEF Join, JoinIf, Touch
<1>16. ASSUME Handshake PROVE Lateness'
  BY <1>16 DEF Handshake, Touch
<1>17. ASSUME Drop PROVE Lateness'
  BY <1>17 DEF Drop, Touch
<1>18. ASSUME Push PROVE Lateness'
  BY <1>18 DEF Push, Touch
<1>19. ASSUME PushFails PROVE Lateness'
  BY <1>19 DEF PushFails, Leave, Exit, Touch
<1>20. ASSUME Close PROVE Lateness'
  BY <1>20 DEF Close
<1>21. ASSUME ResolverEnds PROVE Lateness'
  BY <1>21 DEF ResolverEnds
<1>22. ASSUME Interrupt PROVE Lateness'
  BY <1>22 DEF Interrupt, Leave, Exit
<1>23. ASSUME Cancel PROVE Lateness'
  BY <1>23 DEF Cancel
<1>24. ASSUME Expire PROVE Lateness'
  BY <1>24 DEF Expire
<1>25. ASSUME UNCHANGED vars PROVE Lateness'
  BY <1>25
<1> QED
  BY <1>1, <1>2, <1>3, <1>4, <1>5, <1>6, <1>7, <1>8, <1>9, <1>10, <1>11,
     <1>12, <1>13, <1>14, <1>15, <1>16, <1>17, <1>18, <1>19, <1>20,
     <1>21, <1>22, <1>23, <1>24, <1>25
  DEF Next, Program

LEMMA LateInit == Init => LateInv
<1>1. Init => Lateness
  BY DEF Init, Lateness
<1> QED
  BY <1>1, TypeInit DEF LateInv

\* After the deadline a socket is used once more at most, and no except clause
\* hides what a check raised.
THEOREM DeadlineIsKept == Spec => []DeadlineHolds
<1>1. LateInv => DeadlineHolds
  BY DEF LateInv, Lateness, DeadlineHolds
<1> QED
  BY LateInit, LateStep, <1>1, PTL DEF Spec
==================================================================================
