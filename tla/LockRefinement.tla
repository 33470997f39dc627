--------------------------- MODULE LockRefinement ---------------------------
(***************************************************************************)
(* The lock manager as a LockService.  A lock is granted when its row in   *)
(* leases exists, not when the row in locks names a holder: between the    *)
(* two writes, which a crash may part for ever, the caller has no lease.   *)
(***************************************************************************)
EXTENDS LockManager

(* The places in the queues, also while a reordering has them in hand *)
Places == waitQueue \cup (IF step.op = "requeue" THEN step.rows ELSE {})

(* The caller that the method under mu is about to give a lease *)
Chosen ==
  IF step.op \in {"hold", "lease"} THEN {<<step.lock, step.holder>>} ELSE {}

Service == INSTANCE LockService WITH
  granted <- leases,
  wanted <- {<<r.lock, r.holder>> : r \in Places} \cup Chosen

(* The lock manager implements the lock service: over any sequence of its  *)
(* half-finished methods, timers, crashes and restarts a caller is leased  *)
(* only what it asked for and nobody else has, and a lease past its end is *)
(* never renewed.                                                          *)
ServiceSpec == Service!Spec
=============================================================================
