--------------------------- MODULE MCVramObserver ---------------------------
(* Instances of VramObserver: the readings are small numbers, so that the   *)
(* largest of them can be compared.                                         *)
EXTENDS VramObserver

TwoLevels == 1..2
=============================================================================
