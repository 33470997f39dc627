---------------------------- MODULE MCCooldown ----------------------------
(* The names of the goroutines in the instances of Cooldown TLC checks. *)
EXTENDS Cooldown

CONSTANTS checker, main, none, w1, op1
===========================================================================
