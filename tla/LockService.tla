---------------------------- MODULE LockService ----------------------------
(***************************************************************************)
(* What the lock manager promises to those who call it: a lock is leased   *)
(* to one caller at a time, to nobody who did not ask for it, and a lease  *)
(* that is over stays over.  Nothing is said of how it is kept: no queue   *)
(* order, no timers, no tables, no crashes.                                *)
(***************************************************************************)
EXTENDS Integers

CONSTANTS Locks, Holders

VARIABLES
  granted,   \* the leases: lock, holder, seconds left (-1: past its end)
  wanted     \* the pairs <<lock, caller>> that were asked for and not answered

Granted(l) == {g \in granted : g.lock = l}

Init == granted = {} /\ wanted = {}

Ask(l, h) ==
  /\ wanted' = wanted \cup {<<l, h>>}
  /\ UNCHANGED granted

(* Refused, timed out, cancelled, or forgotten by a crash *)
GiveUp ==
  /\ wanted' \in SUBSET wanted
  /\ UNCHANGED granted

(* A caller may have asked twice and go on waiting. *)
Grant(l, h) ==
  /\ <<l, h>> \in wanted
  /\ Granted(l) = {}
  /\ \E g \in granted' : /\ g.lock = l /\ g.holder = h /\ g.left >= 0
                         /\ granted' = granted \cup {g}
  /\ wanted' \in {wanted, wanted \ {<<l, h>>}}

(* Renewed or shortened *)
Adjust(g) ==
  /\ \E n \in granted' : /\ n = [g EXCEPT !.left = n.left]
                         /\ n.left > g.left => g.left >= 0
                         /\ granted' = (granted \ {g}) \cup {n}
  /\ UNCHANGED wanted

End(l) ==
  /\ granted' = granted \ Granted(l)
  /\ UNCHANGED wanted

Elapse ==
  /\ granted' = {[g EXCEPT !.left = IF @ < 0 THEN @ ELSE @ - 1] : g \in granted}
  /\ UNCHANGED wanted

Next ==
  \/ \E l \in Locks, h \in Holders : Ask(l, h) \/ Grant(l, h)
  \/ GiveUp
  \/ \E g \in granted : Adjust(g)
  \/ \E l \in Locks : End(l)
  \/ Elapse

Spec == Init /\ [][Next]_<<granted, wanted>>
=============================================================================
