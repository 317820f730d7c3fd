---------------------------- MODULE SignedReports ----------------------------
(* What receipts promise: a report is verified for a key only if the holder *)
(* of that key has signed a statement about that very document.             *)
CONSTANTS
  Keys,      \* the keys of those who sign
  Documents  \* the documents they may sign for

VARIABLES
  signed,   \* the pairs of a key and the document its holder has signed for
  verified  \* the pairs that `flopbench receipt verify` has accepted

Init == signed = {} /\ verified = {}

Sign ==
  \E statement \in Keys \X Documents :
    signed' = signed \cup {statement} /\ UNCHANGED verified
Verify ==
  \E statement \in signed : verified' = verified \cup {statement} /\ UNCHANGED signed

Next == Sign \/ Verify

Spec == Init /\ [][Next]_<<signed, verified>>
=============================================================================
