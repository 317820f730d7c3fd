----------------------------- MODULE FileCommands -----------------------------
(* The commands that work on files alone: receipts, the diff and comparison  *)
(* of exports, the release, and the export of a report.  They share no state: *)
(* a behaviour is one of the four.                                           *)
EXTENDS Receipt, ReportCompare, Release, ReportStore

VARIABLE which  \* "receipt", "report", "release" or "export"

fileVars == <<receiptVars, compareVars, releaseVars, storeVars, which>>

Init ==
  /\ which \in {"receipt", "report", "release", "export"}
  /\ ReceiptInit /\ (which # "receipt" => export = CHOOSE e \in Export : TRUE)
  /\ IF which = "report" THEN CompareInit ELSE CompareNone
  /\ ReleaseInit
  /\ StoreInit /\ (which # "export" => file = Absent)

Next ==
  /\ UNCHANGED which
  /\ \/ which = "receipt" /\ ReceiptNext /\ UNCHANGED <<compareVars, releaseVars, storeVars>>
     \/ which = "report" /\ CompareNext /\ UNCHANGED <<receiptVars, releaseVars, storeVars>>
     \/ which = "release" /\ ReleaseNext /\ UNCHANGED <<receiptVars, compareVars, storeVars>>
     \/ which = "export" /\ StoreNext /\ UNCHANGED <<receiptVars, compareVars, releaseVars>>

Spec == Init /\ [][Next]_fileVars
=============================================================================
