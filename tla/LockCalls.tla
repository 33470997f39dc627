------------------------------ MODULE LockCalls ------------------------------
(***************************************************************************)
(* The lock manager as the managers built on it see it: each call runs     *)
(* under its mutex and is one step.  LockManager has what goes on inside.  *)
(* Leases run out, and waits time out, at any moment.                      *)
(***************************************************************************)
EXTENDS Integers, Sequences, SequencesExt

CONSTANTS
  Locks, Holders,
  None,         \* no holder, no entry
  Budgeted,     \* holders with a lock budget, which may refuse them a lock
  MaxCount,     \* bound: re-entries
  Others        \* holders that also call the lock manager directly

VARIABLES
  lockRow,      \* table locks: holder, count, reentrant
  lockQueue     \* table wait_queue, by lock, in the order of service

lockVars == <<lockRow, lockQueue>>

FreeLock == [holder |-> None, count |-> 0, reentrant |-> FALSE]

LocksInit ==
  /\ lockRow = [l \in Locks |-> FreeLock]
  /\ lockQueue = [l \in Locks |-> <<>>]

HeldBy(h) == {l \in Locks : lockRow[l].holder = h}
Waiter(h, reentrant) == [holder |-> h, reentrant |-> reentrant]
Queued(l, h) == \E i \in DOMAIN lockQueue[l] : lockQueue[l][i].holder = h

(* A holder waits for a lock once.                                         *)
Without(l, h) ==
  IF Queued(l, h)
  THEN RemoveAt(lockQueue[l], CHOOSE i \in DOMAIN lockQueue[l] : lockQueue[l][i].holder = h)
  ELSE lockQueue[l]

(* What a search along edges gets to from n: the least set that holds      *)
(* every successor of n and of its own members.                            *)
Onward(edges, n, S) == \A e \in edges : e[1] = n \/ e[1] \in S => e[2] \in S
Reach(nodes, edges, n) ==
  {m \in nodes : \A S \in SUBSET nodes : Onward(edges, n, S) => m \in S}

(* Who waits for a lock of whom; if h waits for l, too, a cycle can be     *)
(* reached from it, which need not go through it.                          *)
WaitEdges ==
  {e \in Holders \X Holders :
     e[1] # e[2] /\ \E l \in Locks : Queued(l, e[1]) /\ lockRow[l].holder = e[2]}
ClosesCycle(l, h) ==
  LET edges == WaitEdges \cup {<<h, lockRow[l].holder>>}
  IN  \E k \in {h} \cup Reach(Holders, edges, h) : k \in Reach(Holders, edges, k)

(* AcquireLock, by what it answers *)
Acquire(l, h, reentrant, answer) ==
  \/ /\ answer = "acquired" /\ lockRow[l].holder = None
     /\ lockRow' = [lockRow EXCEPT ![l] =
                      [holder |-> h, count |-> 1, reentrant |-> reentrant]]
     /\ UNCHANGED lockQueue
  \/ /\ answer = "again" /\ lockRow[l].holder = h
     /\ lockRow[l].reentrant /\ reentrant /\ lockRow[l].count < MaxCount
     /\ lockRow' = [lockRow EXCEPT ![l].count = @ + 1]
     /\ UNCHANGED lockQueue
  \/ /\ answer = "queued" /\ lockRow[l].holder \notin {h, None}
     /\ ~ClosesCycle(l, h) /\ ~Queued(l, h)
     /\ lockQueue' = [lockQueue EXCEPT ![l] = Append(@, Waiter(h, reentrant))]
     /\ UNCHANGED lockRow
  \/ /\ answer = "deadlock" /\ lockRow[l].holder \notin {h, None} /\ ClosesCycle(l, h)
     /\ UNCHANGED lockVars
  \/ /\ answer = "error"
     /\ \/ lockRow[l].holder = h /\ ~(lockRow[l].reentrant /\ reentrant)
        \/ lockRow[l].holder \notin {h, None} /\ ~ClosesCycle(l, h) /\ Queued(l, h)
     /\ UNCHANGED lockVars
  \/ /\ answer \in {"rejected", "error"} /\ h \in Budgeted
     /\ UNCHANGED lockVars

(* tryGrantNextLocked: the first in the queue that is still in time and    *)
(* within its budget; those before it are dropped.                         *)
FreeAndGrant(l) ==
  \/ /\ lockRow' = [lockRow EXCEPT ![l] = FreeLock]
     /\ lockQueue' = [lockQueue EXCEPT ![l] = <<>>]
  \/ \E n \in DOMAIN lockQueue[l] :
       /\ lockRow' = [lockRow EXCEPT ![l] =
            [holder |-> lockQueue[l][n].holder, count |-> 1,
             reentrant |-> lockQueue[l][n].reentrant]]
       /\ lockQueue' = [lockQueue EXCEPT ![l] = SubSeq(@, n + 1, Len(@))]

(* ReleaseLock; of a lock that is not its own it is an error.              *)
Release(l, h) ==
  IF lockRow[l].holder # h THEN UNCHANGED lockVars
  ELSE IF lockRow[l].reentrant /\ lockRow[l].count > 1
       THEN /\ lockRow' = [lockRow EXCEPT ![l].count = @ - 1]
            /\ UNCHANGED lockQueue
       ELSE FreeAndGrant(l)

(* CancelWaitForHolder: every wait of the holder, whoever began it         *)
CancelWaits(h) ==
  /\ lockQueue' = [l \in Locks |-> Without(l, h)]
  /\ UNCHANGED lockRow

LeaseEnds(l) == lockRow[l].holder # None /\ FreeAndGrant(l)

WaitTimesOut(l, h) ==
  /\ Queued(l, h)
  /\ lockQueue' = [lockQueue EXCEPT ![l] = Without(l, h)]
  /\ UNCHANGED lockRow

(* Callers that come to the lock manager directly                          *)
OtherCalls(l) ==
  \E h \in Others : Acquire(l, h, FALSE, "acquired") \/ Release(l, h)

LeasesNext ==
  \E l \in Locks : LeaseEnds(l) \/ \E h \in Holders : WaitTimesOut(l, h)
=============================================================================
