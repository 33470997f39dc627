--------------------------- MODULE MCLockManager ---------------------------
(* Instances of LockManager for TLC.  Callers and locks are model values.  *)
EXTENDS LockRefinement, TLC

CONSTANTS l1, l2, l3, h1, h2, h3

(* All callers, or all but the gold caller h1, can be exchanged, and so    *)
(* can the locks.                                                          *)
Interchangeable == Permutations({l1, l2, l3}) \cup Permutations({h2, h3})
AllInterchangeable == Permutations({l1, l2, l3}) \cup Permutations({h1, h2, h3})

(* What requests, batches and crashes can do within one second: nothing    *)
(* expires, so three locks and three callers fit, enough for every shape   *)
(* of a deadlock of three and for batches refused after two locks.         *)
OneSecondSpec ==
  Init /\ [][Request \/ BatchRequest \/ MethodStep \/ Crash \/ Start]_vars
=============================================================================
