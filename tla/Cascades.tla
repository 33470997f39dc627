------------------------------ MODULE Cascades ------------------------------
(***************************************************************************)
(* internal/topology/manager.go, what a cascade does once it has read the  *)
(* graph: it takes the locks and tokens of the nodes in the order it was   *)
(* given, or gives the locks back.  Its calls to the lock manager and the  *)
(* rate limiter hold no mutex of the topology's, so cascades and other     *)
(* callers of the lock manager interleave.                                 *)
(*                                                                         *)
(* A definition whose comment begins "Faulty:" is no part of the model: it *)
(* is a slip one could make in the definition after it.                    *)
(***************************************************************************)
EXTENDS LockCalls

CONSTANTS
  Nodes,
  LockOf,         \* each node's lock
  Charged,        \* nodes with a rate policy and a token cost
  CascadeHolders  \* bound: who runs cascades, one at a time each

VARIABLE
  topoJobs        \* by holder, its call of CascadeAcquire or CascadeRelease

(* A call of each kind; got is the acquired of CascadeAcquire.             *)
Item == [node : Nodes, paid : BOOLEAN, wasHeld : BOOLEAN]
AcquireJob ==
  [do : {"lock", "tokens", "done", "undo", "rolled_back"}, left : Seq(Nodes),
   reentrant : BOOLEAN, got : Seq(Item), paid : Int,
   held : SUBSET Locks, waits : SUBSET Locks, queuedFor : SUBSET Locks]
ReleaseJob == [do : {"release"}, left : Seq(Nodes)]

ASSUME CascadeAssumption ==
  /\ LockOf \in [Nodes -> Locks]
  /\ CascadeHolders \subseteq Holders \ Others
  /\ None \notin Holders \cup AcquireJob \cup ReleaseJob

-----------------------------------------------------------------------------
(* CascadeAcquire.  The locks held and waited for at its start are kept    *)
(* for the properties, like the tokens it has paid and not had returned.   *)

WaitsOf(h) == {l \in Locks : Queued(l, h)}
CascadeDoes(h, what) == topoJobs[h] # None /\ topoJobs[h].do = what

BeginAcquire(h, order, reentrant) ==
  /\ topoJobs[h] = None
  /\ topoJobs' = [topoJobs EXCEPT ![h] =
       [do |-> "lock", left |-> order, reentrant |-> reentrant,
        got |-> <<>>, paid |-> 0, held |-> HeldBy(h), waits |-> WaitsOf(h), queuedFor |-> {}]]
  /\ UNCHANGED lockVars

(* The next node's lock.  A lock the budget refuses counts as acquired.    *)
CascadeLock(h) ==
  /\ CascadeDoes(h, "lock") /\ topoJobs[h].left # <<>>
  /\ LET n == Head(topoJobs[h].left)
         next == IF n \in Charged THEN "tokens" ELSE "lock"
     IN  \/ \E answer \in {"acquired", "again", "rejected"} :
              /\ Acquire(LockOf[n], h, topoJobs[h].reentrant, answer)
              /\ topoJobs' = [topoJobs EXCEPT
                   ![h].do = next, ![h].left = Tail(@),
                   ![h].got = Append(@, [node |-> n, paid |-> FALSE,
                                         wasHeld |-> answer = "again"])]
         \/ \E answer \in {"queued", "deadlock", "error"} :
              /\ Acquire(LockOf[n], h, topoJobs[h].reentrant, answer)
              /\ topoJobs' = [topoJobs EXCEPT
                   ![h].do = "undo",
                   ![h].queuedFor = IF answer = "queued" THEN {LockOf[n]} ELSE {}]

CascadeTokens(h) ==
  /\ CascadeDoes(h, "tokens")
  /\ \/ topoJobs' = [topoJobs EXCEPT
          ![h].do = "lock", ![h].paid = @ + 1,
          ![h].got[Len(topoJobs[h].got)].paid = TRUE]
     \/ topoJobs' = [topoJobs EXCEPT ![h].do = "undo"]
  /\ UNCHANGED lockVars

CascadeAcquired(h) ==
  /\ CascadeDoes(h, "lock") /\ topoJobs[h].left = <<>>
  /\ topoJobs' = [topoJobs EXCEPT ![h].do = "done"]
  /\ UNCHANGED lockVars

(* Faulty: gives back nothing for a node whose lock was held already       *)
CascadeUndoNewOnly(h) ==
  /\ CascadeDoes(h, "undo") /\ topoJobs[h].got # <<>>
  /\ LET item == Last(topoJobs[h].got)
     IN  /\ topoJobs' = [topoJobs EXCEPT
              ![h].got = Front(@),
              ![h].paid = IF item.paid /\ ~item.wasHeld THEN @ - 1 ELSE @]
         /\ IF item.wasHeld THEN UNCHANGED lockVars ELSE Release(LockOf[item.node], h)

CascadeUndo(h) ==
  /\ CascadeDoes(h, "undo") /\ topoJobs[h].got # <<>>
  /\ LET item == Last(topoJobs[h].got)
     IN  /\ topoJobs' = [topoJobs EXCEPT
              ![h].got = Front(@), ![h].paid = IF item.paid THEN @ - 1 ELSE @]
         /\ IF item.wasHeld THEN UNCHANGED lockVars ELSE Release(LockOf[item.node], h)

CascadeRolledBack(h) ==
  /\ CascadeDoes(h, "undo") /\ topoJobs[h].got = <<>>
  /\ topoJobs' = [topoJobs EXCEPT ![h].do = "rolled_back"]
  /\ UNCHANGED lockVars

(* CascadeRelease *)
BeginRelease(h, order) ==
  /\ topoJobs[h] = None
  /\ topoJobs' = [topoJobs EXCEPT ![h] = [do |-> "release", left |-> order]]
  /\ UNCHANGED lockVars

(* A lock that is not the holder's is an error, which force goes past.     *)
CascadeReleaseNext(h) ==
  /\ CascadeDoes(h, "release") /\ topoJobs[h].left # <<>>
  /\ Release(LockOf[Head(topoJobs[h].left)], h)
  /\ topoJobs' = [topoJobs EXCEPT ![h].left = Tail(@)]

CascadeReturns(h) ==
  /\ \/ CascadeDoes(h, "release") /\ topoJobs[h].left = <<>>
     \/ CascadeDoes(h, "done") \/ CascadeDoes(h, "rolled_back")
  /\ topoJobs' = [topoJobs EXCEPT ![h] = None]
  /\ UNCHANGED lockVars

CascadeSteps(h) ==
  \/ CascadeLock(h) \/ CascadeTokens(h) \/ CascadeAcquired(h) \/ CascadeUndo(h)
  \/ CascadeRolledBack(h) \/ CascadeReleaseNext(h) \/ CascadeReturns(h)

-----------------------------------------------------------------------------
(* Properties *)

(* A cascade that was rolled back has paid nothing, and without re-entry   *)
(* leaves its holder with no lock more than before, but for one that it    *)
(* queued for and was granted since.                                       *)
CascadeGivesBack ==
  \A h \in CascadeHolders : CascadeDoes(h, "rolled_back") =>
    /\ topoJobs[h].paid = 0
    /\ topoJobs[h].reentrant
       \/ HeldBy(h) \subseteq topoJobs[h].held \cup topoJobs[h].waits \cup topoJobs[h].queuedFor
=============================================================================
