----------------------------- MODULE MCHeartbeat -----------------------------
(* Heartbeat for TLC.                                                      *)
EXTENDS Heartbeat

(* One caller is frozen when lost, the other's resources are released.     *)
MCRegistrations ==
  {[caller |-> "a", group |-> "g1", freeze |-> TRUE],
   [caller |-> "b", group |-> "g2", freeze |-> FALSE]}

MCDependencies == {<<"g2", "g1">>, <<"g3", "g2">>, <<"g3", "g1">>}

Spec == HbInit /\ [][HbNext]_hbVars /\ HbFairness
=============================================================================
