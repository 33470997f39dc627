---------------------------- MODULE MCLockBudget ----------------------------
(***************************************************************************)
(* LockBudget for TLC.  Two instances share the run: one caller with two   *)
(* locks and time to be late, or two callers with transfers, one lock and  *)
(* short periods.  calling says which: the caller, or "all".               *)
(***************************************************************************)
EXTENDS LockBudget, TLC

CONSTANTS c1, c2, l1, l2

VARIABLE calling

Alone == calling # "all"

(* What may be asked for: periods of two seconds alone, of one otherwise,  *)
(* where only l1 is held.                                                  *)
Asked ==
  /\ \A i \in DOMAIN todo :
       todo[i].do = "configure" => todo[i].config.period = IF Alone THEN 2 ELSE 1
  /\ Alone \/ \A c \in Callers : holdings[c][l2] = None

(* The bounds of the second instance on time                               *)
Brief ==
  /\ \A c \in Callers : Known(c) => callers[c].left > -1 /\ callers[c].consumed <= 1
  /\ \A c \in Callers : Held(c, l1) => meter[c][l1].age < 3

MCInit == Init /\ calling \in Callers \cup {"all"}

MCNext ==
  /\ UNCHANGED calling
  /\ \/ IF Alone THEN CallOf(calling) /\ Asked' ELSE Call /\ Asked'
     \/ Poll \/ MethodStep \/ Crash \/ Start
     \/ (Alone \/ Brief) /\ Tick

MCSpec == MCInit /\ [][MCNext]_<<vars, calling>>

(* No definition chooses among callers. *)
CallerSymmetry == Permutations(Callers)
=============================================================================
