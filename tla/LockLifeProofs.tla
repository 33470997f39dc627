--------------------------- MODULE LockLifeProofs ---------------------------
(***************************************************************************)
(* That a held lock is leased and its lease watched, that nobody waits on  *)
(* a free lock, that only stale callbacks end a lease early, that a        *)
(* refused batch holds nothing, that the longest waiter is served, and     *)
(* that queueing up closes no cycle of waits: theorems about LockManager   *)
(* for every set of locks and callers and every bound.                     *)
(***************************************************************************)
EXTENDS LockManagerProofs

-----------------------------------------------------------------------------
(* Held locks and timers.  A lock's entry in Manager.timers is a timer     *)
(* object in use for this very lock, and is gone with the lease: so no     *)
(* object that is armed anew, or done with, is the timer of another lock.  *)

TimersOwn ==
  \A l \in Locks : timers[l] # NoTimer =>
    timer[timers[l]] # IdleTimer /\ timer[timers[l]].lock = l
TimersLeased == \A l \in Locks : timers[l] # NoTimer => Lease(l) # {}

(* A method has still to write the lease of l, or to free l. *)
Writing(l) == step.op \in {"free", "next", "hold", "lease"} /\ step.lock = l
LeasedUnlessWriting ==
  \A l \in Locks \ torn : Held(l) /\ ~Writing(l) => Lease(l) # {}

TimedInv == TimersOwn /\ TimersLeased /\ LeaseIsTimed /\ LeasedUnlessWriting

(* The invariant says what we want of held locks. *)
LEMMA TimedInvImplies == TimedInv => HeldLockIsTimed
  BY DEF TimedInv, HeldLockIsTimed, LeasedUnlessWriting, HeldLockHasLease, Writing,
         Busy, Idle

(* setLeaseTimerLocked: the lock has a timer, and the others keep theirs. *)
LEMMA SetTimerOwn ==
  ASSUME TypeOK, TimersOwn, NEW l \in Locks, NEW left, SetLeaseTimer(l, left)
  PROVE  /\ timers'[l] # NoTimer
         /\ timer'[timers'[l]] = [state |-> "armed", lock |-> l, left |-> left]
         /\ \A k \in Locks \ {l} :
              /\ timers'[k] = timers[k]
              /\ timers[k] # NoTimer => timer'[timers[k]] = timer[timers[k]]
<1>1. PICK t \in TimerIds :
        /\ AfterStop(l)[t].state = "idle"
        /\ timer' = [AfterStop(l) EXCEPT
                       ![t] = [state |-> "armed", lock |-> l, left |-> left]]
        /\ timers' = [timers EXCEPT ![l] = t]
  BY DEF SetLeaseTimer
<1>2. /\ timer \in [TimerIds -> TimerObject] /\ AfterStop(l) \in [TimerIds -> TimerObject]
      /\ timers \in [Locks -> TimerIds \cup {NoTimer}]
  BY StopTyped DEF TypeOK, TimersTyped
<1>3. t # NoTimer /\ timers'[l] = t
  BY <1>1, <1>2 DEF TimerIds, NoTimer
<1>4. ASSUME NEW k \in Locks \ {l}, timers[k] # NoTimer
      PROVE  timer'[timers[k]] = timer[timers[k]]
  <2>1. timer[timers[k]] # IdleTimer /\ timer[timers[k]].lock = k /\ timers[k] \in TimerIds
    BY <1>2, <1>4 DEF TimersOwn
  <2>2. timers[l] # NoTimer => timers[l] # timers[k]
    BY <2>1 DEF TimersOwn
  <2>3. AfterStop(l)[timers[k]] = timer[timers[k]]
    BY <1>2, <2>1, <2>2 DEF AfterStop
  <2>4. timer[timers[k]].state # "idle"
    BY <1>2, <2>1 DEF TimerObject
  <2>5. t # timers[k]
    BY <1>1, <2>3, <2>4
  <2> QED
    BY <1>1, <1>2, <2>1, <2>3, <2>5
<1> QED
  BY <1>1, <1>2, <1>3, <1>4

(* stopLeaseTimerLocked: the lock has none, and the others keep theirs. *)
LEMMA StopTimerOwn ==
  ASSUME TypeOK, TimersOwn, NEW l \in Locks, StopLeaseTimer(l)
  PROVE  /\ timers'[l] = NoTimer
         /\ \A k \in Locks \ {l} :
              /\ timers'[k] = timers[k]
              /\ timers[k] # NoTimer => timer'[timers[k]] = timer[timers[k]]
<1>1. /\ timer \in [TimerIds -> TimerObject]
      /\ timers \in [Locks -> TimerIds \cup {NoTimer}]
  BY DEF TypeOK
<1>2. ASSUME NEW k \in Locks \ {l}, timers[k] # NoTimer
      PROVE  timer'[timers[k]] = timer[timers[k]]
  <2>1. timers[l] # NoTimer => timers[l] # timers[k]
    BY <1>2 DEF TimersOwn
  <2> QED
    BY <1>1, <1>2, <2>1 DEF StopLeaseTimer, AfterStop
<1> QED
  BY <1>1, <1>2 DEF StopLeaseTimer

(* A step that leaves leases and timers alone, and no lock held and        *)
(* written that was not before.                                            *)
LEMMA TimedStutter ==
  ASSUME TimedInv, UNCHANGED <<leases, timer, timers, up>>,
         \A l \in Locks : Unscanned(l) => Unscanned(l)',
         \A l \in Locks \ torn' : Held(l)' /\ ~Writing(l)' =>
           l \notin torn /\ Held(l) /\ ~Writing(l),
         leases \subseteq LeaseRow
  PROVE  TimedInv'
<1>1. TimersOwn' /\ TimersLeased' /\ LeasedUnlessWriting'
  BY DEF TimedInv, TimersOwn, TimersLeased, LeasedUnlessWriting, Lease
<1>2. LeaseIsTimed'
  BY DEF TimedInv, LeaseIsTimed, LeaseRow
<1> QED
  BY <1>1, <1>2 DEF TimedInv

(* The first write of a release or an expiry, whichever timer that ends.   *)
LEMMA TimedEnd ==
  ASSUME TypeOK, TimedInv, NEW l \in Locks, step = Idle,
         leases' = leases \ Lease(l), step' = [op |-> "free", lock |-> l],
         timers'[l] = NoTimer,
         \A k \in Locks \ {l} :
           /\ timers'[k] = timers[k]
           /\ timers[k] # NoTimer => timer'[timers[k]] = timer[timers[k]],
         UNCHANGED <<lock, up, torn>>,
         \A k \in Locks \ {l} : Unscanned(k) => Unscanned(k)'
  PROVE  TimedInv'
<1>1. \A r \in leases' : r \in leases /\ r.lock \in Locks \ {l}
  BY DEF Lease, TypeOK, LeaseRow
<1>2. \A k \in Locks \ {l} : Lease(k)' = Lease(k)
  BY DEF Lease
<1>3. TimersOwn' /\ TimersLeased'
  BY <1>2 DEF TimedInv, TimersOwn, TimersLeased
<1>4. LeaseIsTimed'
  BY <1>1 DEF TimedInv, LeaseIsTimed
<1>5. LeasedUnlessWriting'
  BY <1>2 DEF TimedInv, LeasedUnlessWriting, Writing, Held, Idle
<1> QED
  BY <1>3, <1>4, <1>5 DEF TimedInv

(* A lease of l with its timer, in place of the one l may have had. *)
LEMMA TimedLease ==
  ASSUME TypeOK, TimedInv, NEW l \in Locks, NEW new, new.lock = l,
         leases' = (leases \ Lease(l)) \cup {new},
         SetLeaseTimer(l, new.left),
         step = Idle \/ Writing(l), step' = Idle,
         UNCHANGED <<lock, up, torn>>,
         \A k \in Locks \ {l} : Unscanned(k) => Unscanned(k)'
  PROVE  TimedInv'
<1>1. /\ timers'[l] # NoTimer
      /\ timer'[timers'[l]] = [state |-> "armed", lock |-> l, left |-> new.left]
      /\ \A k \in Locks \ {l} :
           /\ timers'[k] = timers[k]
           /\ timers[k] # NoTimer => timer'[timers[k]] = timer[timers[k]]
  BY SetTimerOwn DEF TimedInv
<1>2. /\ Lease(l)' = {new}
      /\ \A k \in Locks \ {l} : Lease(k)' = Lease(k)
  BY DEF Lease
<1>3. timer'[timers'[l]] # IdleTimer
  BY <1>1 DEF IdleTimer
<1>4. TimersOwn' /\ TimersLeased'
  BY <1>1, <1>2, <1>3 DEF TimedInv, TimersOwn, TimersLeased
<1>5. LeaseIsTimed'
  <2> SUFFICES ASSUME NEW r \in leases', up', ~Unscanned(r.lock)'
               PROVE  /\ timers'[r.lock] # NoTimer
                      /\ timer'[timers'[r.lock]] # IdleTimer
                      /\ timer'[timers'[r.lock]].lock = r.lock
                      /\ timer'[timers'[r.lock]].left = r.left
    BY DEF LeaseIsTimed
  <2>1. CASE r = new
    BY <1>1, <1>3, <2>1
  <2>2. CASE r # new
    <3>1. r \in leases /\ r.lock \in Locks \ {l}
      BY <2>2 DEF Lease, TypeOK, LeaseRow
    <3> QED
      BY <1>1, <3>1 DEF TimedInv, LeaseIsTimed
  <2> QED
    BY <2>1, <2>2
<1>6. LeasedUnlessWriting'
  BY <1>2 DEF TimedInv, LeasedUnlessWriting, Writing, Held, Idle
<1> QED
  BY <1>4, <1>5, <1>6 DEF TimedInv

(* A lease that runs on until another time, under a new timer. *)
LEMMA TimedMoved ==
  ASSUME TypeOK, LeaseInv, TimedInv, NEW l \in Locks, NEW r \in Lease(l), NEW left,
         leases' = (leases \ {r}) \cup {[r EXCEPT !.left = left]},
         SetLeaseTimer(l, left),
         step = Idle, UNCHANGED <<lock, up, step, job, torn>>
  PROVE  TimedInv'
<1> DEFINE new == [r EXCEPT !.left = left]
<1>1. r \in LeaseRow /\ Lease(l) = {r}
  BY DEF TypeOK, Lease, LeaseInv, OneLease
<1>2. new.lock = l /\ new.left = left
  BY <1>1 DEF LeaseRow, Lease
<1>3. leases' = (leases \ Lease(l)) \cup {new}
  BY <1>1
<1>4. \A k \in Locks : Unscanned(k) => Unscanned(k)'
  BY DEF Unscanned
<1> HIDE DEF new
<1> QED
  BY <1>2, <1>3, <1>4, TimedLease

(* No lock is held, no lease is there. *)
LEMMA TimedInit == Init => TimedInv
  BY DEF Init, TimedInv, TimersOwn, TimersLeased, LeaseIsTimed, LeasedUnlessWriting,
         Held, FreeRow

(* The calls that enter a method, or are one step. *)
LEMMA TimedRequest ==
  ASSUME TypeOK, LeaseInv, TimedInv, Request \/ BatchRequest \/ CooldownRequest
  PROVE  TimedInv'
<1> USE DEF memory, control, history, disk
<1>t. leases \subseteq LeaseRow /\ lock \in [Locks -> Row]
  BY DEF TypeOK
<1>1. ASSUME NEW l \in Locks, NEW h \in Holders, NEW sec \in LeaseSecs,
             NEW reentrant \in Flags, AcquireFree(l, h, sec, reentrant)
      PROVE  TimedInv'
  <2>1. /\ \A k \in Locks \ {l} : lock'[k] = lock[k]
        /\ step = Idle /\ step'.op = "lease" /\ step'.lock = l /\ job = NoJob /\ job' = NoJob
        /\ UNCHANGED <<leases, timer, timers, up, torn>>
    BY <1>1, <1>t DEF AcquireFree, MutexFree, Hold
  <2> QED
    BY <1>t, <2>1, TimedStutter DEF Unscanned, Writing, Held, Idle
<1>2. ASSUME NEW l \in Locks, NEW h \in Holders, NEW sec \in LeaseSecs,
             NEW reentrant \in Flags, Enqueue(l, h, sec, reentrant)
      PROVE  TimedInv'
  <2>1. /\ step = Idle /\ step'.op \in {"reorder", "idle"}
        /\ UNCHANGED <<lock, leases, timer, timers, up, torn, job>>
    BY <1>2 DEF Enqueue, MutexFree, Idle
  <2> QED
    BY <1>t, <2>1, TimedStutter DEF Unscanned, Writing, Held, Idle
<1>3. ASSUME NEW l \in Locks, NEW h \in Holders,
             AcquireAgain(l, h) \/ ReleaseOnce(l, h)
      PROVE  TimedInv'
  <2>1. \A k \in Locks : lock'[k].holder = lock[k].holder
    BY <1>3 DEF AcquireAgain, ReleaseOnce, TypeOK, Row
  <2>2. UNCHANGED <<leases, timer, timers, up, torn, step, job>>
    BY <1>3 DEF AcquireAgain, ReleaseOnce
  <2> QED
    BY <1>t, <2>1, <2>2, TimedStutter DEF Unscanned, Writing, Held
<1>4. ASSUME NEW l \in Locks, NEW h \in Holders, Release(l, h)
      PROVE  TimedInv'
  BY <1>4, StopTimerOwn, TimedEnd DEF Release, ReleaseLocked, MutexFree, Unscanned, TimedInv
<1>5. ASSUME NEW l \in Locks, NEW h \in Holders, NEW add \in LeaseSecs,
             RenewLease(l, h, add)
      PROVE  TimedInv'
  BY <1>5, TimedMoved DEF RenewLease, MutexFree
<1>6. ASSUME NEW l \in Locks, NEW sec \in CooldownSecs, ShortenLease(l, sec)
      PROVE  TimedInv'
  BY <1>6, TimedMoved DEF ShortenLease, MutexFree
<1>7. ASSUME \/ \E h \in Holders : CancelWaitForHolder(h)
             \/ \E l \in Locks, sec \in CooldownSecs \cup {0} : SetAcceleratedGrant(l, sec)
      PROVE  TimedInv'
  <2>1. UNCHANGED <<lock, leases, timer, timers, up, torn, step, job>>
    BY <1>7 DEF CancelWaitForHolder, SetAcceleratedGrant
  <2> QED
    BY <1>t, <2>1, TimedStutter DEF Unscanned, Writing, Held
<1>8. ASSUME NEW h \in Holders, NEW names \in SUBSET Locks,
             NEW sec \in LeaseSecs, NEW reentrant \in Flags,
             BatchStart(h, names, sec, reentrant)
      PROVE  TimedInv'
  <2>1. job = NoJob /\ UNCHANGED <<lock, leases, timer, timers, up, torn, step>>
    BY <1>8 DEF BatchStart, MutexFree
  <2> QED
    BY <1>t, <2>1, TimedStutter DEF Unscanned, Writing, Held
<1> QED
  BY <1>1, <1>2, <1>3, <1>4, <1>5, <1>6, <1>7, <1>8
  DEF Request, BatchRequest, CooldownRequest

(* The writes of a method under way. *)
LEMMA TimedMethodStep ==
  ASSUME TypeOK, LeaseInv, TimedInv, MethodStep
  PROVE  TimedInv'
<1> USE DEF memory, control, history, disk
<1>t. leases \subseteq LeaseRow /\ lock \in [Locks -> Row]
  BY DEF TypeOK
<1>1. CASE ReorderDelete \/ ReorderInsert
  <2>1. /\ step.op \in {"reorder", "requeue"} /\ step'.op \in {"requeue", "idle"}
        /\ UNCHANGED <<lock, leases, timer, timers, up, torn, job>>
    BY <1>1 DEF ReorderDelete, ReorderInsert, Idle
  <2> QED
    BY <1>t, <2>1, TimedStutter DEF Unscanned, Writing, Held
<1>2. CASE CreateLease
  <2> DEFINE new == [lock |-> step.lock, holder |-> step.holder, left |-> step.sec]
  <2>1. step.op = "lease" /\ step.lock \in Locks /\ Lease(step.lock) = {}
    BY <1>2, StepFields
    DEF CreateLease, TypeOK, LeaseInv, WriterUnleased, Unleased, Lease
  <2>2. /\ leases' = (leases \ Lease(step.lock)) \cup {new}
        /\ SetLeaseTimer(step.lock, new.left) /\ Writing(step.lock)
        /\ step' = Idle /\ UNCHANGED <<lock, up, torn, job>>
    BY <1>2, <2>1 DEF CreateLease, Writing
  <2>3. new.lock = step.lock
    OBVIOUS
  <2>4. \A k \in Locks : Unscanned(k) => Unscanned(k)'
    BY <2>2 DEF Unscanned
  <2> HIDE DEF new
  <2> QED
    BY <2>1, <2>2, <2>3, <2>4, TimedLease
<1>3. CASE FreeLock
  <2>1. /\ step.op = "free" /\ step'.op = "next" /\ step'.lock = step.lock
        /\ \A k \in Locks : k # step.lock => lock'[k] = lock[k]
        /\ UNCHANGED <<leases, timer, timers, up, torn, job>>
    BY <1>3, <1>t DEF FreeLock
  <2> QED
    BY <1>t, <2>1, TimedStutter DEF Unscanned, Writing, Held
<1>4. CASE GrantNobody
  <2>1. /\ step.op = "next" /\ ~Held(step.lock) /\ step' = Idle
        /\ UNCHANGED <<lock, leases, timer, timers, up, torn, job>>
    BY <1>4 DEF GrantNobody, LeaseInv, GranteeFindsFree
  <2> QED
    BY <1>t, <2>1, TimedStutter DEF Unscanned, Writing, Held
<1>5. CASE SkipWaiter
  <2>1. UNCHANGED <<lock, leases, timer, timers, up, torn, step, job>>
    BY <1>5 DEF SkipWaiter
  <2> QED
    BY <1>t, <2>1, TimedStutter DEF Unscanned, Writing, Held
<1>6. CASE TakeWaiter
  <2>1. /\ step.op = "next" /\ step'.op = "hold" /\ step'.lock = step.lock
        /\ UNCHANGED <<lock, leases, timer, timers, up, torn, job>>
    BY <1>6 DEF TakeWaiter
  <2> QED
    BY <1>t, <2>1, TimedStutter DEF Unscanned, Writing, Held
<1>7. CASE HoldForWaiter
  <2>1. /\ step.op = "hold" /\ step'.op = "lease" /\ step'.lock = step.lock
        /\ \A k \in Locks : k # step.lock => lock'[k] = lock[k]
        /\ UNCHANGED <<leases, timer, timers, up, torn, job>>
    BY <1>7, <1>t DEF HoldForWaiter, Hold
  <2> QED
    BY <1>t, <2>1, TimedStutter DEF Unscanned, Writing, Held
<1>8. CASE BatchRefused \/ FinishJob
  <2>1. /\ job.kind = "batch" \/ job.todo = {}
        /\ UNCHANGED <<lock, leases, timer, timers, up, torn, step>>
    BY <1>8 DEF BatchRefused, FinishJob
  <2> QED
    BY <1>t, <2>1, TimedStutter DEF Unscanned, Writing, Held
<1>9. ASSUME NEW l \in Locks, BatchNext(l)
      PROVE  TimedInv'
  <2>1. /\ job.kind = "batch" /\ step = Idle /\ step'.op = "lease" /\ step'.lock = l
        /\ \A k \in Locks \ {l} : lock'[k] = lock[k]
        /\ UNCHANGED <<leases, timer, timers, up, torn>>
    BY <1>9, <1>t DEF BatchNext, Hold
  <2> QED
    BY <1>t, <2>1, TimedStutter DEF Unscanned, Writing, Held, Idle
<1>10. ASSUME NEW l \in Locks, RollbackNext(l)
       PROVE  TimedInv'
  BY <1>10, StopTimerOwn, TimedEnd DEF RollbackNext, ReleaseLocked, Unscanned, TimedInv
<1>11. ASSUME NEW l \in Locks, job.kind = "start", l \in job.todo,
              job' = [job EXCEPT !.todo = @ \ {l}]
       PROVE  \A k \in Locks \ {l} : Unscanned(k) => Unscanned(k)'
  BY <1>11 DEF Unscanned, TypeOK, JobType, NoJob
<1>12. ASSUME NEW l \in Locks, StartExpire(l)
       PROVE  TimedInv'
  <2>1. \A k \in Locks \ {l} : Unscanned(k) => Unscanned(k)'
    BY <1>11, <1>12 DEF StartExpire
  <2> QED
    BY <1>12, <2>1, TimedEnd DEF StartExpire, ExpireLocked, TypeOK
<1>13. ASSUME NEW l \in Locks, StartArm(l)
       PROVE  TimedInv'
  <2>1. \A k \in Locks \ {l} : Unscanned(k) => Unscanned(k)'
    BY <1>11, <1>13 DEF StartArm
  <2>2. PICK r \in Lease(l) : SetLeaseTimer(l, r.left)
    BY <1>13 DEF StartArm
  <2>3. r.lock = l /\ leases' = (leases \ Lease(l)) \cup {r}
    BY <1>13, <2>2 DEF StartArm, Lease, LeaseInv, OneLease
  <2> QED
    BY <1>13, <2>1, <2>2, <2>3, TimedLease DEF StartArm
<1> QED
  BY <1>1, <1>2, <1>3, <1>4, <1>5, <1>6, <1>7, <1>8, <1>9, <1>10, <1>12, <1>13
  DEF MethodStep

(* Timers, sweep, crash, restart and clock. *)
LEMMA TimedOtherStep ==
  ASSUME TypeOK, LeaseInv, TimedInv,
         \/ \E t \in TimerIds : FireTimer(t) \/ Callback(t)
         \/ CheckWaitQueueTimeouts
         \/ Crash \/ Start \/ Tick
  PROVE  TimedInv'
<1> USE DEF memory, control, history, disk
<1>t. /\ leases \subseteq LeaseRow /\ lock \in [Locks -> Row]
      /\ timer \in [TimerIds -> TimerObject]
      /\ timers \in [Locks -> TimerIds \cup {NoTimer}]
  BY DEF TypeOK
<1>1. ASSUME NEW t \in TimerIds, FireTimer(t)
      PROVE  TimedInv'
  <2>1. /\ UNCHANGED <<lock, leases, timers, up, torn, step, job>>
        /\ timer[t] # IdleTimer
        /\ timer' = [timer EXCEPT ![t].state = "fired"]
    BY <1>1 DEF FireTimer, IdleTimer
  <2>2. /\ timer'[t].lock = timer[t].lock /\ timer'[t].left = timer[t].left
        /\ timer'[t] # IdleTimer
        /\ \A u \in TimerIds \ {t} : timer'[u] = timer[u]
    BY <1>t, <2>1 DEF TimerObject, IdleTimer
  <2>3. \A k \in Locks : timers[k] # NoTimer => timers[k] \in TimerIds
    BY <1>t
  <2>4. TimersOwn' /\ TimersLeased' /\ LeasedUnlessWriting'
    BY <2>1, <2>2, <2>3
    DEF TimedInv, TimersOwn, TimersLeased, LeasedUnlessWriting, Lease, Held, Writing
  <2>5. LeaseIsTimed'
    BY <1>t, <2>1, <2>2, <2>3 DEF TimedInv, LeaseIsTimed, LeaseRow, Unscanned
  <2> QED
    BY <2>4, <2>5 DEF TimedInv
<1>2. ASSUME NEW t \in TimerIds, ExpireLock(t)
      PROVE  TimedInv'
  <2> DEFINE l == timer[t].lock
  <2>1. l \in Locks
    BY <1>2, <1>t DEF ExpireLock, TimerObject, IdleTimer
  <2>2. \A k \in Locks \ {l} : timers[k] # NoTimer => timers[k] # t
    BY DEF TimedInv, TimersOwn
  <2>3. \A k \in Locks \ {l} :
          /\ timers'[k] = timers[k]
          /\ timers[k] # NoTimer => timer'[timers[k]] = timer[timers[k]]
    BY <1>2, <1>t, <2>1, <2>2 DEF ExpireLock, ExpireLocked
  <2>4. timers'[l] = NoTimer
    BY <1>2, <1>t, <2>1 DEF ExpireLock, ExpireLocked
  <2> QED
    BY <1>2, <2>1, <2>3, <2>4, TimedEnd
    DEF ExpireLock, ExpireLocked, MutexFree, Unscanned
<1>3. ASSUME NEW t \in TimerIds, ExpireNothing(t)
      PROVE  TimedInv'
  <2>1. /\ UNCHANGED <<lock, leases, timers, up, torn, step, job>>
        /\ timer' = [timer EXCEPT ![t] = IdleTimer]
    BY <1>3 DEF ExpireNothing
  <2>2. ASSUME NEW k \in Locks, timers[k] # NoTimer
        PROVE  timer'[timers[k]] = timer[timers[k]]
    <3>1. PICK r \in leases : r.lock = k
      BY <2>2 DEF TimedInv, TimersLeased, Lease
    <3>2. lock[k].holder = r.holder /\ r.holder # NoHolder
      BY <1>t, <3>1, HoldersAssumption DEF LeaseInv, HoldersLease, LeaseRow
    <3>3. timers[k] # t
      BY <1>3, <2>2, <3>2 DEF TimedInv, TimersOwn, ExpireNothing, Held
    <3> QED
      BY <1>t, <2>1, <2>2, <3>3
  <2>3. TimersOwn' /\ TimersLeased' /\ LeasedUnlessWriting'
    BY <2>1, <2>2
    DEF TimedInv, TimersOwn, TimersLeased, LeasedUnlessWriting, Lease, Held, Writing
  <2>4. LeaseIsTimed'
    BY <1>t, <2>1, <2>2 DEF TimedInv, LeaseIsTimed, LeaseRow, Unscanned
  <2> QED
    BY <2>3, <2>4 DEF TimedInv
<1>4. CASE CheckWaitQueueTimeouts
  <2>1. UNCHANGED <<lock, leases, timer, timers, up, torn, step, job>>
    BY <1>4 DEF CheckWaitQueueTimeouts
  <2> QED
    BY <1>t, <2>1, TimedStutter DEF Unscanned, Writing, Held
<1>5. CASE Crash
  <2>1. /\ timers' = [l \in Locks |-> NoTimer] /\ up' = FALSE
        /\ UNCHANGED <<lock, leases>>
        /\ \A l \in Locks \ torn' : l \notin torn /\ ~Writing(l)
    BY <1>5 DEF Crash, Writing, Idle
  <2> QED
    BY <2>1 DEF TimedInv, TimersOwn, TimersLeased, LeaseIsTimed, LeasedUnlessWriting,
                Held, Lease
<1>6. CASE Start
  <2>1. /\ job' = [kind |-> "start", todo |-> {r.lock : r \in leases}]
        /\ UNCHANGED <<lock, leases, timer, timers, step, torn>>
    BY <1>6 DEF Start
  <2>2. \A r \in leases : Unscanned(r.lock)'
    BY <2>1 DEF Unscanned, NoJob
  <2>3. LeaseIsTimed'
    BY <2>1, <2>2 DEF LeaseIsTimed
  <2> QED
    BY <2>1, <2>3
    DEF TimedInv, TimersOwn, TimersLeased, LeasedUnlessWriting, Held, Lease, Writing
<1>7. CASE Tick
  <2> DEFINE later(r) == [r EXCEPT !.left = Dec(@)]
  <2>1. /\ leases' = {later(r) : r \in leases}
        /\ timer' = [t \in TimerIds |-> IF timer[t] = IdleTimer THEN IdleTimer
                                        ELSE [timer[t] EXCEPT !.left = Dec(@)]]
        /\ UNCHANGED <<lock, timers, up, torn, step, job>>
    BY <1>7 DEF Tick
  <2>2. \A r \in leases : later(r).lock = r.lock /\ later(r).left = Dec(r.left)
    BY <1>t DEF LeaseRow
  <2>3. ASSUME NEW k \in Locks, timers[k] # NoTimer, timer[timers[k]] # IdleTimer
        PROVE  /\ timer'[timers[k]] # IdleTimer
               /\ timer'[timers[k]].lock = timer[timers[k]].lock
               /\ timer'[timers[k]].left = Dec(timer[timers[k]].left)
    <3>1. timers[k] \in TimerIds
      BY <1>t, <2>3
    <3> QED
      BY <1>t, <2>1, <2>3, <3>1 DEF TimerObject, IdleTimer
  <2> HIDE DEF later
  <2>4. \A k \in Locks : Lease(k) # {} <=> Lease(k)' # {}
    BY <2>1, <2>2 DEF Lease
  <2>5. TimersOwn' /\ TimersLeased' /\ LeasedUnlessWriting'
    BY <2>1, <2>3, <2>4
    DEF TimedInv, TimersOwn, TimersLeased, LeasedUnlessWriting, Held, Writing
  <2>6. LeaseIsTimed'
    <3> SUFFICES ASSUME NEW r \in leases, up, ~Unscanned(r.lock)
                 PROVE  /\ timers[r.lock] # NoTimer
                        /\ timer'[timers[r.lock]] # IdleTimer
                        /\ timer'[timers[r.lock]].lock = r.lock
                        /\ timer'[timers[r.lock]].left = Dec(r.left)
      BY <2>1, <2>2 DEF LeaseIsTimed, Unscanned
    <3>1. r.lock \in Locks
      BY <1>t DEF LeaseRow
    <3> QED
      BY <2>3, <3>1 DEF TimedInv, LeaseIsTimed
  <2> QED
    BY <2>5, <2>6 DEF TimedInv
<1> QED
  BY <1>1, <1>2, <1>3, <1>4, <1>5, <1>6, <1>7 DEF Callback

(* Every step keeps the invariant. *)
LEMMA TimedStep == TypeOK /\ LeaseInv /\ TimedInv /\ [Next]_vars => TimedInv'
<1> SUFFICES ASSUME TypeOK, LeaseInv, TimedInv, [Next]_vars PROVE TimedInv'
  OBVIOUS
<1>1. CASE Next
  BY <1>1, TimedRequest, TimedMethodStep, TimedOtherStep DEF Next
<1>2. CASE UNCHANGED vars
  BY <1>2, TimedStutter
  DEF vars, disk, memory, control, history, TypeOK, Unscanned, Writing, Held
<1> QED
  BY <1>1, <1>2

(* A held lock has a lease, apart from locks a crash left between two      *)
(* writes, and a lease has the timer that ends it: whatever is renewed,    *)
(* shortened, granted, expired or scanned at the start, no lock stays held *)
(* for ever.                                                               *)
THEOREM TimedCorrect == Spec => []HeldLockIsTimed
<1> QED
  BY TypeCorrect, LeaseInvariant, TimedInit, TimedStep, TimedInvImplies, PTL DEF Spec

-----------------------------------------------------------------------------
(* Waiters.  The rows that the gold reordering has deleted and is about to *)
(* insert again count as waiting; a caller waits for a lock in one row, so *)
(* that whoever is granted it does not wait for it any more.               *)

InHand == IF step.op = "requeue" THEN step.rows ELSE {}
OnePlace ==
  \A r, s \in waitQueue \cup InHand :
    r.lock = s.lock /\ r.holder = s.holder => r = s
InHandOfLock == \A r \in InHand : r.lock = step.lock
GranteeGone ==
  step.op = "hold" =>
    \A r \in waitQueue : r.lock = step.lock => r.holder # step.holder

(* A method is handing l on. *)
Granting(l) == step.op \in {"free", "next", "hold"} /\ step.lock = l
WaitersServed ==
  \A r \in waitQueue \cup InHand :
    r.lock \notin torn /\ ~Granting(r.lock) =>
      Held(r.lock) /\ r.holder # lock[r.lock].holder

QueueInv == OnePlace /\ InHandOfLock /\ GranteeGone /\ WaitersServed

(* The invariant says what we want of the waiters. *)
LEMMA QueueInvImplies == QueueInv => NoStrandedWaiter
  BY DEF QueueInv, WaitersServed, NoStrandedWaiter, Granting, Busy, Idle, Waiters

(* A step that adds no waiter, and leaves locks with waiters to those who  *)
(* had them.                                                               *)
LEMMA QueueStutter ==
  ASSUME QueueInv, waitQueue' \cup InHand' \subseteq waitQueue \cup InHand,
         step' = step \/ step'.op \in {"idle", "free", "next", "lease"},
         \A r \in waitQueue' \cup InHand' :
           r.lock \notin torn' /\ ~Granting(r.lock)' =>
             /\ r.lock \notin torn /\ ~Granting(r.lock)
             /\ lock'[r.lock].holder = lock[r.lock].holder
  PROVE  QueueInv'
<1>1. OnePlace'
  BY DEF QueueInv, OnePlace
<1>2. InHandOfLock'
  BY DEF QueueInv, InHandOfLock, InHand
<1>3. GranteeGone'
  <2> SUFFICES ASSUME step'.op = "hold", NEW r \in waitQueue', r.lock = step'.lock
               PROVE  r.holder # step'.holder
    BY DEF GranteeGone
  <2>1. step' = step /\ InHand = {}
    BY DEF InHand
  <2> QED
    BY <2>1 DEF QueueInv, GranteeGone
<1>4. WaitersServed'
  BY DEF QueueInv, WaitersServed, Held
<1> QED
  BY <1>1, <1>2, <1>3, <1>4 DEF QueueInv

(* No queue, no waiter. *)
LEMMA QueueInit == Init => QueueInv
  BY DEF Init, QueueInv, OnePlace, InHandOfLock, GranteeGone, WaitersServed, InHand, Idle

(* Between methods, and in their loops, nobody waits on a free lock. *)
LEMMA FreeIsWaitless ==
  ASSUME QueueInv, step = Idle, NEW l \in Locks \ torn, ~Held(l)
  PROVE  \A r \in waitQueue : r.lock # l
  BY DEF QueueInv, WaitersServed, Granting, Idle

(* A lock taken while it is free. *)
LEMMA QueueTaken ==
  ASSUME TypeOK, QueueInv, NEW l \in Locks, ~Held(l), step = Idle,
         \A k \in Locks \ {l} : lock'[k] = lock[k],
         step'.op = "lease", step'.lock = l, UNCHANGED <<waitQueue, torn>>
  PROVE  QueueInv'
<1>1. InHand = {} /\ InHand' = {}
  BY DEF InHand, Idle
<1>2. \A r \in waitQueue : r.lock \in Locks
  BY DEF TypeOK, WaitRow
<1>3. ASSUME NEW r \in waitQueue', r.lock \notin torn'
      PROVE  ~Granting(r.lock) /\ lock'[r.lock].holder = lock[r.lock].holder
  <2>1. r.lock # l
    BY <1>3, FreeIsWaitless
  <2> QED
    BY <1>2, <2>1 DEF Granting, Idle
<1> QED
  BY <1>1, <1>3, QueueStutter

(* The first write of a release or an expiry. *)
LEMMA QueueEnd ==
  ASSUME QueueInv, NEW l, step = Idle, step' = [op |-> "free", lock |-> l],
         UNCHANGED <<lock, waitQueue, torn>>
  PROVE  QueueInv'
  BY QueueStutter DEF InHand, Granting, Idle

(* A step that has nothing to do with the queue. *)
LEMMA QueueAside ==
  ASSUME QueueInv, UNCHANGED <<lock, waitQueue, step, torn>>
  PROVE  QueueInv'
  BY QueueStutter DEF InHand, Granting

(* The calls that enter a method, or are one step. *)
LEMMA QueueRequest ==
  ASSUME TypeOK, QueueInv, Request \/ BatchRequest \/ CooldownRequest
  PROVE  QueueInv'
<1> USE DEF memory, control, history, disk
<1>t. waitQueue \subseteq WaitRow /\ lock \in [Locks -> Row]
  BY DEF TypeOK
<1>1. ASSUME NEW l \in Locks, NEW h \in Holders, NEW sec \in LeaseSecs,
             NEW reentrant \in Flags, AcquireFree(l, h, sec, reentrant)
      PROVE  QueueInv'
  <2>1. \A k \in Locks \ {l} : lock'[k] = lock[k]
    BY <1>1, <1>t DEF AcquireFree, Hold
  <2> QED
    BY <1>1, <2>1, QueueTaken DEF AcquireFree, MutexFree
<1>2. ASSUME NEW l \in Locks, NEW h \in Holders, NEW sec \in LeaseSecs,
             NEW reentrant \in Flags, Enqueue(l, h, sec, reentrant)
      PROVE  QueueInv'
  <2>1. PICK k \in Ticket : waitQueue' = waitQueue \cup
            {[lock |-> l, holder |-> h, reentrant |-> reentrant, sec |-> sec,
              left |-> WaitTimeoutSec, ticket |-> k]}
    BY <1>2 DEF Enqueue
  <2> DEFINE new == [lock |-> l, holder |-> h, reentrant |-> reentrant, sec |-> sec,
                     left |-> WaitTimeoutSec, ticket |-> k]
  <2>2. new.lock = l /\ new.holder = h /\ waitQueue' = waitQueue \cup {new}
    BY <2>1
  <2> HIDE DEF new
  <2>3. /\ step = Idle /\ step'.op \in {"reorder", "idle"}
        /\ Held(l) /\ lock[l].holder # h /\ UNCHANGED <<lock, torn>>
        /\ \A r \in waitQueue : r.lock = l => r.holder # h
    BY <1>2 DEF Enqueue, MutexFree, Idle, Waits, Waiters
  <2>4. InHand = {} /\ InHand' = {}
    BY <2>3 DEF InHand, Idle
  <2>5. OnePlace'
    BY <2>2, <2>3, <2>4 DEF QueueInv, OnePlace
  <2>6. WaitersServed'
    BY <2>2, <2>3, <2>4 DEF QueueInv, WaitersServed, Granting, Idle, Held
  <2> QED
    BY <2>3, <2>4, <2>5, <2>6 DEF QueueInv, InHandOfLock, GranteeGone
<1>3. ASSUME NEW l \in Locks, NEW h \in Holders,
             AcquireAgain(l, h) \/ ReleaseOnce(l, h)
      PROVE  QueueInv'
  <2>1. \A k \in Locks : lock'[k].holder = lock[k].holder
    BY <1>3 DEF AcquireAgain, ReleaseOnce, TypeOK, Row
  <2>2. UNCHANGED <<waitQueue, torn>> /\ step = Idle /\ step' = Idle
    BY <1>3 DEF AcquireAgain, ReleaseOnce, MutexFree
  <2>3. \A r \in waitQueue : r.lock \in Locks
    BY <1>t DEF WaitRow
  <2> QED
    BY <2>1, <2>2, <2>3, QueueStutter DEF InHand, Granting, Idle
<1>4. ASSUME NEW l \in Locks, NEW h \in Holders, Release(l, h)
      PROVE  QueueInv'
  BY <1>4, QueueEnd DEF Release, ReleaseLocked, MutexFree
<1>5. ASSUME \/ \E l \in Locks, h \in Holders, add \in LeaseSecs : RenewLease(l, h, add)
             \/ \E l \in Locks, sec \in CooldownSecs : ShortenLease(l, sec)
             \/ \E l \in Locks, sec \in CooldownSecs \cup {0} : SetAcceleratedGrant(l, sec)
             \/ \E h \in Holders, names \in SUBSET Locks, sec \in LeaseSecs, reentrant \in Flags :
                  BatchStart(h, names, sec, reentrant)
      PROVE  QueueInv'
  <2>1. UNCHANGED <<lock, waitQueue, step, torn>>
    BY <1>5 DEF RenewLease, ShortenLease, SetAcceleratedGrant, BatchStart
  <2> QED
    BY <2>1, QueueAside
<1>6. ASSUME NEW h \in Holders, CancelWaitForHolder(h)
      PROVE  QueueInv'
  <2>1. waitQueue' \subseteq waitQueue /\ UNCHANGED <<lock, step, torn>>
    BY <1>6 DEF CancelWaitForHolder
  <2> QED
    BY <2>1, QueueStutter DEF InHand, Granting
<1> QED
  BY <1>1, <1>2, <1>3, <1>4, <1>5, <1>6 DEF Request, BatchRequest, CooldownRequest

(* The writes of a method under way. *)
LEMMA QueueMethodStep ==
  ASSUME TypeOK, LeaseInv, QueueInv, MethodStep
  PROVE  QueueInv'
<1> USE DEF memory, control, history, disk
<1>t. /\ waitQueue \subseteq WaitRow /\ lock \in [Locks -> Row] /\ step \in StepType
      /\ \A r \in waitQueue : r.lock \in Locks
  BY DEF TypeOK, WaitRow
<1>1. CASE ReorderDelete
  <2>1. PICK k \in Ticket :
          step' = [op |-> "requeue", lock |-> step.lock,
                   rows |-> {IF r.holder = step.holder
                             THEN [r EXCEPT !.ticket = k] ELSE r
                             : r \in Waiters(step.lock)}]
    BY <1>1 DEF ReorderDelete
  <2> DEFINE moved(r) == IF r.holder = step.holder THEN [r EXCEPT !.ticket = k] ELSE r
  <2>2. /\ InHand' = {moved(r) : r \in Waiters(step.lock)} /\ InHand = {}
        /\ step.op = "reorder" /\ step'.op = "requeue" /\ step'.lock = step.lock
        /\ waitQueue' = waitQueue \ Waiters(step.lock)
        /\ UNCHANGED <<lock, torn>>
    BY <1>1, <2>1 DEF ReorderDelete, InHand
  <2>3. \A r \in waitQueue : moved(r).lock = r.lock /\ moved(r).holder = r.holder
    BY <1>t DEF WaitRow
  <2> HIDE DEF moved
  <2>4. \A s \in InHand' : \E r \in waitQueue :
          s = moved(r) /\ r.lock = step.lock /\ s.lock = step.lock /\ s.holder = r.holder
    BY <2>2, <2>3 DEF Waiters
  <2>5. \A r \in waitQueue' : r \in waitQueue /\ r.lock # step.lock
    BY <2>2 DEF Waiters
  <2>6. OnePlace'
    BY <2>2, <2>4, <2>5 DEF QueueInv, OnePlace
  <2>7. InHandOfLock' /\ GranteeGone'
    BY <2>2, <2>4 DEF InHandOfLock, GranteeGone
  <2>8. WaitersServed'
    BY <2>2, <2>4, <2>5 DEF QueueInv, WaitersServed, Granting, Held
  <2> QED
    BY <2>6, <2>7, <2>8 DEF QueueInv
<1>2. CASE ReorderInsert
  <2>1. PICK r \in step.rows :
          /\ waitQueue' = waitQueue \cup {r}
          /\ step' = IF step.rows = {r} THEN Idle
                     ELSE [op |-> "requeue", lock |-> step.lock, rows |-> step.rows \ {r}]
    BY <1>2 DEF ReorderInsert
  <2>2. step.op = "requeue" /\ UNCHANGED <<lock, torn>> /\ InHand = step.rows
    BY <1>2 DEF ReorderInsert, InHand
  <2>3. InHand' = step.rows \ {r} /\ step'.op \in {"requeue", "idle"}
    BY <2>1, <2>2 DEF InHand, Idle
  <2>4. waitQueue' \cup InHand' = waitQueue \cup InHand
    BY <2>1, <2>2, <2>3
  <2>5. InHandOfLock'
    BY <2>1, <2>2, <2>3 DEF QueueInv, InHandOfLock
  <2>6. OnePlace' /\ GranteeGone' /\ WaitersServed'
    BY <2>2, <2>3, <2>4 DEF QueueInv, OnePlace, GranteeGone, WaitersServed, Granting, Held
  <2> QED
    BY <2>5, <2>6 DEF QueueInv
<1>3. CASE CreateLease
  <2>1. step.op = "lease" /\ step' = Idle /\ UNCHANGED <<lock, waitQueue, torn>>
    BY <1>3 DEF CreateLease
  <2> QED
    BY <2>1, QueueStutter DEF InHand, Granting, Idle
<1>4. CASE FreeLock
  <2>1. /\ step.op = "free" /\ step'.op = "next" /\ step'.lock = step.lock
        /\ \A k \in Locks : k # step.lock => lock'[k] = lock[k]
        /\ UNCHANGED <<waitQueue, torn>>
    BY <1>4, <1>t DEF FreeLock
  <2> QED
    BY <1>t, <2>1, QueueStutter DEF InHand, Granting
<1>5. CASE GrantNobody
  <2>1. /\ step.op = "next" /\ \A r \in waitQueue : r.lock # step.lock
        /\ step' = Idle /\ UNCHANGED <<lock, waitQueue, torn>>
    BY <1>5 DEF GrantNobody, Waiters
  <2> QED
    BY <2>1, QueueStutter DEF InHand, Granting, Idle
<1>6. CASE SkipWaiter
  <2>1. waitQueue' \subseteq waitQueue /\ UNCHANGED <<lock, step, torn>>
    BY <1>6 DEF SkipWaiter
  <2> QED
    BY <2>1, QueueStutter DEF InHand, Granting
<1>7. CASE TakeWaiter
  <2>1. PICK r \in waitQueue :
          /\ Head(step.lock, r) /\ waitQueue' = waitQueue \ {r}
          /\ step' = [op |-> "hold", lock |-> step.lock, holder |-> r.holder,
                      reentrant |-> r.reentrant, sec |-> r.sec]
    BY <1>7 DEF TakeWaiter
  <2>2. step.op = "next" /\ r.lock = step.lock /\ UNCHANGED <<lock, torn>>
    BY <1>7, <2>1 DEF TakeWaiter, Head, Waiters
  <2>3. /\ step'.op = "hold" /\ step'.lock = step.lock /\ step'.holder = r.holder
        /\ InHand = {} /\ InHand' = {}
    BY <2>1, <2>2 DEF InHand
  <2>4. OnePlace' /\ InHandOfLock'
    BY <2>1, <2>3 DEF QueueInv, OnePlace, InHandOfLock
  <2>5. GranteeGone'
    BY <2>1, <2>2, <2>3 DEF QueueInv, OnePlace, GranteeGone
  <2>6. WaitersServed'
    BY <2>1, <2>2, <2>3 DEF QueueInv, WaitersServed, Granting, Held
  <2> QED
    BY <2>4, <2>5, <2>6 DEF QueueInv
<1>8. CASE HoldForWaiter
  <2>1. /\ step.op = "hold" /\ step.lock \in Locks /\ step.holder \in Holders
        /\ lock'[step.lock].holder = step.holder
        /\ \A k \in Locks : k # step.lock => lock'[k] = lock[k]
        /\ step'.op = "lease" /\ step'.lock = step.lock
        /\ UNCHANGED <<waitQueue, torn>>
    BY <1>8, <1>t, StepFields DEF HoldForWaiter, Hold
  <2>2. InHand = {} /\ InHand' = {}
    BY <2>1 DEF InHand
  <2>3. OnePlace' /\ InHandOfLock' /\ GranteeGone'
    BY <2>1, <2>2 DEF QueueInv, OnePlace, InHandOfLock, GranteeGone
  <2>4. WaitersServed'
    <3> SUFFICES ASSUME NEW r \in waitQueue, r.lock \notin torn
                 PROVE  lock'[r.lock].holder # NoHolder /\ r.holder # lock'[r.lock].holder
      BY <2>1, <2>2 DEF WaitersServed, Held
    <3>1. CASE r.lock = step.lock
      BY <2>1, <3>1, HoldersAssumption DEF QueueInv, GranteeGone
    <3>2. CASE r.lock # step.lock
      BY <1>t, <2>1, <3>2 DEF QueueInv, WaitersServed, Granting, Held
    <3> QED
      BY <3>1, <3>2
  <2> QED
    BY <2>3, <2>4 DEF QueueInv
<1>9. CASE \/ BatchRefused \/ FinishJob
           \/ \E l \in Locks : StartArm(l)
  <2>1. UNCHANGED <<lock, waitQueue, step, torn>>
    BY <1>9 DEF BatchRefused, FinishJob, StartArm
  <2> QED
    BY <2>1, QueueAside
<1>10. ASSUME NEW l \in Locks, BatchNext(l)
       PROVE  QueueInv'
  <2>1. ~Held(l)
    BY <1>10 DEF BatchNext, LeaseInv, BatchFindsFree
  <2>2. \A k \in Locks \ {l} : lock'[k] = lock[k]
    BY <1>10, <1>t DEF BatchNext, Hold
  <2> QED
    BY <1>10, <2>1, <2>2, QueueTaken DEF BatchNext
<1>11. ASSUME NEW l \in Locks, RollbackNext(l) \/ StartExpire(l)
       PROVE  QueueInv'
  BY <1>11, QueueEnd DEF RollbackNext, ReleaseLocked, StartExpire, ExpireLocked
<1> QED
  BY <1>1, <1>2, <1>3, <1>4, <1>5, <1>6, <1>7, <1>8, <1>9, <1>10, <1>11
  DEF MethodStep

(* Timers, sweep, crash, restart and clock. *)
LEMMA QueueOtherStep ==
  ASSUME TypeOK, QueueInv,
         \/ \E t \in TimerIds : FireTimer(t) \/ Callback(t)
         \/ CheckWaitQueueTimeouts
         \/ Crash \/ Start \/ Tick
  PROVE  QueueInv'
<1> USE DEF memory, control, history, disk
<1>1. ASSUME NEW t \in TimerIds, FireTimer(t) \/ ExpireNothing(t)
      PROVE  QueueInv'
  BY <1>1, QueueAside DEF FireTimer, ExpireNothing
<1>2. ASSUME NEW t \in TimerIds, ExpireLock(t)
      PROVE  QueueInv'
  BY <1>2, QueueEnd DEF ExpireLock, ExpireLocked, MutexFree
<1>3. CASE CheckWaitQueueTimeouts
  <2>1. waitQueue' \subseteq waitQueue /\ UNCHANGED <<lock, step, torn>>
    BY <1>3 DEF CheckWaitQueueTimeouts
  <2> QED
    BY <2>1, QueueStutter DEF InHand, Granting
<1>4. CASE Crash
  <2>1. /\ UNCHANGED <<lock, waitQueue>> /\ step' = Idle
        /\ torn' = IF step = Idle THEN torn ELSE torn \cup {step.lock}
    BY <1>4 DEF Crash
  <2>2. \A r \in waitQueue : r.lock \notin torn' => r.lock \notin torn /\ ~Granting(r.lock)
    BY <2>1 DEF Granting, Idle
  <2> QED
    BY <2>1, <2>2, QueueStutter DEF InHand, Idle
<1>5. CASE Start
  BY <1>5, QueueAside DEF Start
<1>6. CASE Tick
  <2> DEFINE later(r) == [r EXCEPT !.left = Dec(@)]
  <2>1. /\ waitQueue' = {later(r) : r \in waitQueue}
        /\ step = Idle /\ UNCHANGED <<lock, step, torn>>
    BY <1>6 DEF Tick
  <2>2. \A r \in waitQueue : later(r).lock = r.lock /\ later(r).holder = r.holder
    BY DEF TypeOK, WaitRow
  <2> HIDE DEF later
  <2>3. InHand = {} /\ InHand' = {}
    BY <2>1 DEF InHand, Idle
  <2>4. OnePlace' /\ WaitersServed'
    BY <2>1, <2>2, <2>3 DEF QueueInv, OnePlace, WaitersServed, Granting, Held
  <2> QED
    BY <2>1, <2>3, <2>4 DEF QueueInv, InHandOfLock, GranteeGone, Idle
<1> QED
  BY <1>1, <1>2, <1>3, <1>4, <1>5, <1>6 DEF Callback

(* Every step keeps the invariant. *)
LEMMA QueueStep == TypeOK /\ LeaseInv /\ QueueInv /\ [Next]_vars => QueueInv'
<1> SUFFICES ASSUME TypeOK, LeaseInv, QueueInv, [Next]_vars PROVE QueueInv'
  OBVIOUS
<1>1. CASE Next
  BY <1>1, QueueRequest, QueueMethodStep, QueueOtherStep DEF Next
<1>2. CASE UNCHANGED vars
  BY <1>2, QueueAside DEF vars, disk, control, history
<1> QED
  BY <1>1, <1>2

(* Nobody waits on a free lock or on a lock of its own, apart from locks a *)
(* crash left between two writes: the release, expiry, cancel, timeout and *)
(* reordering paths leave no waiter behind.                                *)
THEOREM QueueCorrect == Spec => []NoStrandedWaiter
<1> QED
  BY TypeCorrect, LeaseInvariant, QueueInit, QueueStep, QueueInvImplies, PTL DEF Spec

-----------------------------------------------------------------------------
(* Callbacks.  A timer fires when it is due; nothing but its callback, and *)
(* a crash, takes a timer that has fired away.                             *)

FiredIsDue == \A t \in TimerIds : timer[t].state = "fired" => timer[t].left <= 0

FiredAlone ==
  \A t \in TimerIds : "fired" \in {timer[t].state, timer'[t].state} => timer'[t] = timer[t]

(* setLeaseTimerLocked and stopLeaseTimerLocked let fired timers be.       *)
LEMMA SetLeavesFired ==
  ASSUME TypeOK, NEW l \in Locks, NEW left, SetLeaseTimer(l, left)
  PROVE  FiredAlone
<1>1. timer \in [TimerIds -> TimerObject] /\ timers \in [Locks -> TimerIds \cup {NoTimer}]
  BY DEF TypeOK
<1>2. AfterStop(l) \in [TimerIds -> TimerObject]
  BY <1>1, StopTyped DEF TimersTyped
<1>3. \A t \in TimerIds :
        "fired" \in {timer[t].state, AfterStop(l)[t].state} => AfterStop(l)[t] = timer[t]
  BY <1>1 DEF AfterStop, IdleTimer
<1>4. PICK t \in TimerIds :
        /\ AfterStop(l)[t].state = "idle"
        /\ timer' = [AfterStop(l) EXCEPT
                       ![t] = [state |-> "armed", lock |-> l, left |-> left]]
  BY DEF SetLeaseTimer
<1>5. /\ timer'[t].state = "armed"
      /\ \A u \in TimerIds \ {t} : timer'[u] = AfterStop(l)[u]
  BY <1>2, <1>4
<1>6. timer[t].state # "fired"
  BY <1>3, <1>4
<1> QED
  BY <1>3, <1>5, <1>6 DEF FiredAlone

LEMMA StopLeavesFired ==
  ASSUME TypeOK, NEW l \in Locks, StopLeaseTimer(l)
  PROVE  FiredAlone
  BY DEF TypeOK, StopLeaseTimer, AfterStop, FiredAlone, IdleTimer

LEMMA FiredStays ==
  ASSUME TypeOK, Next
  PROVE  FiredAlone \/ Tick \/ Crash \/ \E t \in TimerIds : FireTimer(t) \/ Callback(t)
<1> USE DEF memory, FiredAlone
<1>1. ASSUME UNCHANGED timer PROVE FiredAlone
  BY <1>1
<1>2. CASE Request
  <2>1. ASSUME NEW l \in Locks, NEW h, Release(l, h) PROVE FiredAlone
    BY <2>1, StopLeavesFired DEF Release, ReleaseLocked
  <2>2. ASSUME NEW l \in Locks, NEW h, NEW add, RenewLease(l, h, add) PROVE FiredAlone
    BY <2>2, SetLeavesFired DEF RenewLease
  <2> QED
    BY <1>1, <1>2, <2>1, <2>2
    DEF Request, AcquireFree, Enqueue, AcquireAgain, ReleaseOnce, CancelWaitForHolder
<1>3. CASE BatchRequest \/ CooldownRequest
  <2>1. ASSUME NEW l \in Locks, NEW sec, ShortenLease(l, sec) PROVE FiredAlone
    BY <2>1, SetLeavesFired DEF ShortenLease
  <2> QED
    BY <1>1, <1>3, <2>1 DEF BatchRequest, BatchStart, CooldownRequest, SetAcceleratedGrant
<1>4. CASE MethodStep
  <2>1. CASE CreateLease
    <3>1. step.lock \in Locks
      BY <2>1, StepFields DEF CreateLease, TypeOK
    <3> QED
      BY <2>1, <3>1, SetLeavesFired DEF CreateLease
  <2>2. ASSUME NEW l \in Locks, RollbackNext(l) PROVE FiredAlone
    BY <2>2, StopLeavesFired DEF RollbackNext, ReleaseLocked
  <2>3. ASSUME NEW l \in Locks, StartArm(l) PROVE FiredAlone
    BY <2>3, SetLeavesFired DEF StartArm
  <2> QED
    BY <1>1, <1>4, <2>1, <2>2, <2>3
    DEF MethodStep, ReorderDelete, ReorderInsert, FreeLock, GrantNobody, SkipWaiter,
        TakeWaiter, HoldForWaiter, BatchRefused, FinishJob, BatchNext, StartExpire
<1>5. CASE CheckWaitQueueTimeouts \/ Start
  BY <1>1, <1>5 DEF CheckWaitQueueTimeouts, Start
<1> QED
  BY <1>2, <1>3, <1>4, <1>5 DEF Next

LEMMA FiredStep == TypeOK /\ FiredIsDue /\ [Next]_vars => FiredIsDue'
<1> SUFFICES ASSUME TypeOK, FiredIsDue, [Next]_vars PROVE FiredIsDue'
  OBVIOUS
<1>t. timer \in [TimerIds -> TimerObject]
  BY DEF TypeOK
<1>1. CASE FiredAlone \/ UNCHANGED timer
  BY <1>1 DEF FiredAlone, FiredIsDue
<1>2. CASE Tick
  <2> SUFFICES ASSUME NEW t \in TimerIds, timer'[t].state = "fired"
               PROVE  timer'[t].left <= 0
    BY DEF FiredIsDue
  <2>1. timer[t] \in TimerObject
    BY <1>t
  <2>2. timer[t] # IdleTimer /\ timer'[t] = [timer[t] EXCEPT !.left = Dec(@)]
    BY <1>2 DEF Tick, IdleTimer
  <2>3. timer[t].left \in Left /\ timer'[t].left = Dec(timer[t].left) /\ timer[t].state = "fired"
    BY <2>1, <2>2 DEF TimerObject
  <2> QED
    BY <2>3 DEF FiredIsDue, Dec, Left
<1>3. ASSUME NEW t \in TimerIds, FireTimer(t) PROVE FiredIsDue'
  <2>1. timer[t].left <= 0 /\ timer[t].state = "armed"
        /\ timer' = [timer EXCEPT ![t].state = "fired"]
    BY <1>3 DEF FireTimer
  <2>2. timer'[t].left = timer[t].left /\ \A u \in TimerIds \ {t} : timer'[u] = timer[u]
    BY <1>t, <2>1 DEF TimerObject, IdleTimer
  <2> QED
    BY <2>1, <2>2 DEF FiredIsDue
<1>4. ASSUME NEW t \in TimerIds, Callback(t) PROVE FiredIsDue'
  <2>1. timer' = [timer EXCEPT ![t] = IdleTimer]
    BY <1>4 DEF Callback, ExpireLock, ExpireNothing
  <2> QED
    BY <1>t, <2>1 DEF FiredIsDue, IdleTimer
<1>5. CASE Crash
  BY <1>5 DEF Crash, FiredIsDue, IdleTimer
<1> QED
  BY <1>1, <1>2, <1>3, <1>4, <1>5, FiredStays DEF vars, memory

(* A callback that ends a lease before its time is not that of the timer   *)
(* which watches the lease.                                                *)
THEOREM EarlyCallbacksStale == Spec => OnlyStaleCallbacksComeEarly
<1> DEFINE Stale ==
      \A t \in TimerIds, r \in leases : EndsEarly(t, r) => timers[r.lock] # t
<1>1. Init => FiredIsDue
  BY DEF Init, FiredIsDue, IdleTimer
<1>2. TypeOK /\ TimedInv /\ FiredIsDue /\ [Next]_vars => [Stale]_vars
  <2> SUFFICES ASSUME TypeOK, TimedInv, FiredIsDue, Next, NEW t \in TimerIds, NEW r \in leases,
                      EndsEarly(t, r), timers[r.lock] = t
               PROVE  FALSE
    OBVIOUS
  <2>t. timer \in [TimerIds -> TimerObject] /\ r \in LeaseRow
    BY DEF TypeOK
  <2>1. timer[t].state = "fired" /\ timer'[t].state = "idle" /\ up' /\ r.left > 0
    BY DEF EndsEarly
  <2>2. \E u \in TimerIds : Callback(u)
    <3>1. CASE Tick
      <4>1. timer'[t].state = timer[t].state
        BY <2>t, <3>1 DEF Tick, TimerObject, IdleTimer
      <4> QED
        BY <2>1, <4>1
    <3>2. ASSUME NEW u \in TimerIds, FireTimer(u) PROVE FALSE
      <4>1. timer' = [timer EXCEPT ![u].state = "fired"]
        BY <3>2 DEF FireTimer
      <4>2. timer'[t].state = "fired"
        BY <2>t, <2>1, <3>2, <4>1 DEF FireTimer, TimerObject, IdleTimer
      <4> QED
        BY <2>1, <4>2
    <3> QED
      BY <2>1, <3>1, <3>2, FiredStays DEF FiredAlone, Crash
  <2>3. up /\ ~Unscanned(r.lock)
    BY <2>2 DEF Callback, ExpireLock, ExpireNothing, MutexFree, Unscanned
  <2>4. timer[t].left = r.left
    BY <2>3 DEF TimedInv, LeaseIsTimed
  <2> QED
    BY <2>t, <2>1, <2>4 DEF FiredIsDue, LeaseRow, Left
<1> QED
  BY <1>1, <1>2, FiredStep, TypeCorrect, LeaseInvariant, TimedInit, TimedStep, PTL
  DEF Spec, OnlyStaleCallbacksComeEarly

-----------------------------------------------------------------------------
(* Batches.  Nobody waits for a lock that a batch has found free, so its   *)
(* rollback hands none of them on; a lock it is done with stays with       *)
(* nobody, or with somebody else where a crash had left waiters.           *)

InBatch == job.kind \in {"batch", "rollback"}
BatchUnqueued == InBatch => \A r \in waitQueue : r.lock \notin job.names \ torn
BatchWhole ==
  /\ job.kind = "batch" => job.names = job.todo \cup job.done
  /\ job.kind = "rollback" => job.todo \subseteq job.names
RollbackServesNobody ==
  job.kind = "rollback" =>
    \/ step.op = "idle"
    \/ step.op \in {"free", "next"} /\ step.lock \in job.names
    \/ step.op \in {"hold", "lease"} /\ step.lock \in torn
RolledBack ==
  job.kind = "rollback" =>
    \A l \in job.names \ (job.todo \cup torn) :
      lock[l].holder = job.holder => step.op = "free" /\ step.lock = l

BatchInv == BatchUnqueued /\ BatchWhole /\ RollbackServesNobody /\ RolledBack

(* Outside a batch there is nothing to keep. *)
LEMMA BatchOver ==
  ASSUME job'.kind \notin {"batch", "rollback"}
  PROVE  BatchInv'
  BY DEF BatchInv, InBatch, BatchUnqueued, BatchWhole, RollbackServesNobody, RolledBack

(* A step that is none of the batch's. *)
LEMMA BatchAside ==
  ASSUME BatchInv, waitQueue' \subseteq waitQueue, UNCHANGED <<lock, step, job, torn>>
  PROVE  BatchInv'
  BY DEF BatchInv, InBatch, BatchUnqueued, BatchWhole, RollbackServesNobody, RolledBack

(* The start of a batch: its locks are free, so nobody waits for them.     *)
LEMMA BatchBegins ==
  ASSUME TypeOK, QueueInv, NEW h \in Holders, NEW names \in SUBSET Locks, NEW sec,
         NEW reentrant, BatchStart(h, names, sec, reentrant)
  PROVE  BatchInv'
<1>1. /\ job'.kind = "batch" /\ job'.names = names
      /\ job'.todo = names /\ job'.done = {}
      /\ step = Idle /\ UNCHANGED <<waitQueue, torn>>
      /\ \A l \in names : ~Held(l)
  BY DEF BatchStart, MutexFree, disk, history
<1>2. \A r \in waitQueue : r.lock \notin names \ torn
  BY <1>1, FreeIsWaitless
<1> QED
  BY <1>1, <1>2
  DEF BatchInv, InBatch, BatchUnqueued, BatchWhole, RollbackServesNobody, RolledBack

(* A method is entered only while no other is under way. *)
LEMMA RequestsNeedMutex ==
  ASSUME Request \/ BatchRequest \/ CooldownRequest
  PROVE  MutexFree
<1>1. ASSUME NEW l \in Locks, NEW h \in Holders, NEW sec, NEW reentrant,
             AcquireFree(l, h, sec, reentrant) \/ Enqueue(l, h, sec, reentrant)
      PROVE  MutexFree
  BY <1>1 DEF AcquireFree, Enqueue
<1>2. ASSUME NEW l \in Locks, NEW h \in Holders,
             \/ AcquireAgain(l, h) \/ ReleaseOnce(l, h) \/ Release(l, h)
             \/ CancelWaitForHolder(h) \/ \E add \in LeaseSecs : RenewLease(l, h, add)
      PROVE  MutexFree
  BY <1>2 DEF AcquireAgain, ReleaseOnce, Release, CancelWaitForHolder, RenewLease
<1>3. ASSUME BatchRequest \/ CooldownRequest
      PROVE  MutexFree
  BY <1>3 DEF BatchRequest, BatchStart, CooldownRequest, ShortenLease, SetAcceleratedGrant
<1> QED
  BY <1>1, <1>2, <1>3 DEF Request

LEMMA BatchMethodStep ==
  ASSUME TypeOK, LeaseInv, BatchInv, MethodStep
  PROVE  BatchInv'
<1> USE DEF memory, control, history, disk
<1>t. /\ lock \in [Locks -> Row] /\ step \in StepType /\ job \in JobType
      /\ NoHolder \notin Holders
  BY HoldersAssumption DEF TypeOK
<1>j. InBatch => job.names \subseteq Locks /\ job.holder \in Holders /\ job.todo \subseteq Locks
  BY <1>t, JobFields DEF InBatch
<1>b. job.kind = "batch" => step.op \in {"idle", "lease"} /\ \A l \in job.todo : ~Held(l)
  BY DEF LeaseInv, BatchFindsFree
<1> USE DEF BatchInv, InBatch, BatchUnqueued, BatchWhole, RollbackServesNobody, RolledBack
<1>1. CASE ReorderDelete \/ ReorderInsert
  <2>1. step.op \in {"reorder", "requeue"} /\ UNCHANGED job
    BY <1>1 DEF ReorderDelete, ReorderInsert
  <2> QED
    BY <1>b, <2>1, BatchOver
<1>2. CASE CreateLease \/ GrantNobody
  <2>1. UNCHANGED <<lock, waitQueue, job, torn>> /\ step.op \in {"lease", "next"} /\ step' = Idle
    BY <1>2 DEF CreateLease, GrantNobody
  <2> QED
    BY <1>t, <2>1 DEF Idle
<1>3. CASE FreeLock
  <2>1. /\ step.op = "free" /\ step'.op = "next" /\ step'.lock = step.lock
        /\ UNCHANGED <<waitQueue, job, torn>>
        /\ lock' = [lock EXCEPT ![step.lock] = FreeRow]
    BY <1>3 DEF FreeLock
  <2>2. \A l \in Locks : /\ l = step.lock => lock'[l].holder = NoHolder
                         /\ l # step.lock => lock'[l] = lock[l]
    BY <1>t, <2>1 DEF FreeRow
  <2> QED
    BY <1>t, <1>b, <1>j, <2>1, <2>2
<1>4. CASE SkipWaiter
  BY <1>4, BatchAside DEF SkipWaiter
<1>5. CASE TakeWaiter
  <2>1. PICK r \in waitQueue : r.lock = step.lock
    BY <1>5 DEF TakeWaiter, Head, Waiters
  <2>2. /\ step.op = "next" /\ step'.op = "hold" /\ step'.lock = step.lock
        /\ waitQueue' \subseteq waitQueue
        /\ UNCHANGED <<lock, job, torn>>
    BY <1>5 DEF TakeWaiter
  <2> QED
    BY <1>b, <2>1, <2>2, BatchOver
<1>6. CASE HoldForWaiter
  <2>1. /\ step.op = "hold" /\ step'.op = "lease" /\ step'.lock = step.lock
        /\ UNCHANGED <<waitQueue, job, torn>>
        /\ \A l \in Locks : l # step.lock => lock'[l] = lock[l]
    BY <1>6, <1>t DEF HoldForWaiter, Hold
  <2> QED
    BY <1>b, <1>j, <2>1
<1>7. ASSUME NEW l \in Locks, BatchNext(l) PROVE BatchInv'
  <2>1. /\ job.kind = "batch" /\ l \in job.todo
        /\ job' = [job EXCEPT !.todo = @ \ {l}, !.done = @ \cup {l}]
        /\ UNCHANGED <<waitQueue, torn>>
    BY <1>7 DEF BatchNext
  <2>2. /\ job'.kind = "batch" /\ job'.names = job.names
        /\ job'.todo = job.todo \ {l} /\ job'.done = job.done \cup {l}
    BY <1>t, <2>1 DEF JobType, NoJob
  <2> QED
    BY <2>1, <2>2
<1>8. CASE BatchRefused
  <2>1. /\ job.kind = "batch" /\ step = Idle /\ step' = Idle
        /\ job'.kind = "rollback" /\ job'.names = job.names
        /\ job'.holder = job.holder /\ job'.todo = job.done
        /\ UNCHANGED <<lock, waitQueue, torn>>
    BY <1>8 DEF BatchRefused
  <2>2. \A l \in job.todo : lock[l].holder # job.holder
    BY <1>t, <1>b, <1>j, <2>1 DEF Held
  <2> QED
    BY <2>1, <2>2 DEF Idle
<1>9. ASSUME NEW l \in Locks, RollbackNext(l) PROVE BatchInv'
  <2>1. /\ job.kind = "rollback" /\ l \in job.todo /\ step = Idle
        /\ job' = [job EXCEPT !.todo = @ \ {l}]
        /\ step'.op = "free" /\ step'.lock = l
        /\ UNCHANGED <<lock, waitQueue, torn>>
    BY <1>9 DEF RollbackNext, ReleaseLocked
  <2>2. /\ job'.kind = "rollback" /\ job'.names = job.names
        /\ job'.holder = job.holder /\ job'.todo = job.todo \ {l}
    BY <1>t, <2>1 DEF JobType, NoJob
  <2> QED
    BY <2>1, <2>2 DEF Idle
<1>10. CASE FinishJob
  BY <1>10, BatchOver DEF FinishJob, NoJob
<1>11. ASSUME NEW l \in Locks, StartExpire(l) \/ StartArm(l) PROVE BatchInv'
  <2>1. job.kind = "start" /\ job' = [job EXCEPT !.todo = @ \ {l}]
    BY <1>11 DEF StartExpire, StartArm
  <2>2. job'.kind = "start"
    BY <1>t, <2>1 DEF JobType, NoJob
  <2> QED
    BY <2>2, BatchOver
<1> QED
  BY <1>1, <1>2, <1>3, <1>4, <1>5, <1>6, <1>7, <1>8, <1>9, <1>10, <1>11 DEF MethodStep

LEMMA BatchStep == TypeOK /\ LeaseInv /\ QueueInv /\ BatchInv /\ [Next]_vars => BatchInv'
<1> SUFFICES ASSUME TypeOK, LeaseInv, QueueInv, BatchInv, [Next]_vars PROVE BatchInv'
  OBVIOUS
<1> USE DEF memory, control, history, disk
<1>1. ASSUME MutexFree, UNCHANGED job PROVE BatchInv'
  BY <1>1, BatchOver DEF MutexFree, NoJob
<1>2. CASE Request \/ CooldownRequest
  BY <1>1, <1>2
  DEF Request, AcquireFree, Enqueue, AcquireAgain, ReleaseOnce, Release, RenewLease,
      CancelWaitForHolder, CooldownRequest, ShortenLease, SetAcceleratedGrant
<1>3. CASE BatchRequest
  BY <1>3, BatchBegins DEF BatchRequest
<1>4. ASSUME NEW t \in TimerIds, FireTimer(t) \/ Callback(t) PROVE BatchInv'
  BY <1>1, <1>4, BatchAside DEF FireTimer, Callback, ExpireLock, ExpireNothing
<1>5. CASE CheckWaitQueueTimeouts
  BY <1>1, <1>5 DEF CheckWaitQueueTimeouts
<1>6. CASE Crash \/ Start
  BY <1>6, BatchOver DEF Crash, Start, NoJob
<1>7. CASE Tick
  <2> DEFINE later(r) == [r EXCEPT !.left = Dec(@)]
  <2>1. waitQueue' = {later(r) : r \in waitQueue} /\ UNCHANGED <<lock, step, job, torn>>
    BY <1>7 DEF Tick
  <2>2. \A r \in waitQueue : later(r).lock = r.lock
    BY DEF TypeOK, WaitRow
  <2> HIDE DEF later
  <2> QED
    BY <2>1, <2>2
    DEF BatchInv, InBatch, BatchUnqueued, BatchWhole, RollbackServesNobody, RolledBack
<1>8. CASE UNCHANGED vars
  BY <1>8, BatchAside DEF vars
<1> QED
  BY <1>2, <1>3, <1>4, <1>5, <1>6, <1>7, <1>8, BatchMethodStep DEF Next

(* A batch refused half way has given back every lock it took, however     *)
(* many it asked for and whichever the refusal came at, apart from locks   *)
(* that a crash had left with waiters.                                     *)
THEOREM RefusedBatchFrees == Spec => RefusedBatchHoldsNothing
<1> DEFINE Given ==
      (job # NoJob /\ job.kind = "rollback" /\ job' = NoJob /\ up')
      => \A l \in job.names \ torn : lock[l].holder # job.holder
<1>1. Init => BatchInv
  BY DEF Init, NoJob, BatchInv, InBatch, BatchUnqueued, BatchWhole,
         RollbackServesNobody, RolledBack
<1>2. TypeOK /\ BatchInv /\ [Next]_vars => [Given]_vars
  <2> SUFFICES ASSUME TypeOK, BatchInv, Next, job # NoJob, job.kind = "rollback",
                      job' = NoJob, up'
               PROVE  \A l \in job.names \ torn : lock[l].holder # job.holder
    OBVIOUS
  <2> USE DEF memory, control, history, disk
  <2>1. FinishJob
    <3>1. job \in JobType
      BY DEF TypeOK
    <3>2. ~(Request \/ BatchRequest \/ CooldownRequest)
      BY RequestsNeedMutex DEF MutexFree
    <3>3. \A l \in Locks : ~RollbackNext(l)
      BY <3>1 DEF RollbackNext, JobType, NoJob
    <3>4. MethodStep => FinishJob
      BY <3>3 DEF MethodStep, ReorderDelete, ReorderInsert, CreateLease, FreeLock, GrantNobody,
             SkipWaiter, TakeWaiter, HoldForWaiter, BatchRefused, BatchNext, StartExpire, StartArm
    <3>5. MethodStep
      BY <3>2 DEF Next, FireTimer, Callback, ExpireLock, ExpireNothing, MutexFree,
             CheckWaitQueueTimeouts, Crash, Start, Tick, NoJob
    <3> QED
      BY <3>4, <3>5
  <2> QED
    BY <2>1 DEF FinishJob, BatchInv, RolledBack, Idle
<1> QED
  BY <1>1, <1>2, BatchStep, TypeCorrect, LeaseInvariant, QueueInit, QueueStep, PTL
  DEF Spec, RefusedBatchHoldsNothing

-----------------------------------------------------------------------------
(* The order of the queue.  Apart from gold callers, whose rows alone are  *)
(* moved, a row further back has waited less: it has more time left.       *)

QueueRows == waitQueue \cup InHand
InOrder ==
  \A r, s \in QueueRows :
    (/\ r.lock = s.lock
     /\ r.holder \notin Gold /\ s.holder \notin Gold
     /\ r.ticket <= s.ticket)
    => r.left <= s.left
WaitBounded == \A r \in QueueRows : r.left <= WaitTimeoutSec
OnlyGoldOvertakes == step.op = "reorder" => step.holder \in Gold

OrderInv == InOrder /\ WaitBounded /\ OnlyGoldOvertakes

(* A step that lets nobody in, and moves nobody. *)
LEMMA OrderStutter ==
  ASSUME OrderInv, QueueRows' \subseteq QueueRows, step' = step \/ step'.op # "reorder"
  PROVE  OrderInv'
  BY DEF OrderInv, InOrder, WaitBounded, OnlyGoldOvertakes

LEMMA OrderMethodStep ==
  ASSUME TypeOK, OrderInv, MethodStep
  PROVE  OrderInv'
<1> USE DEF memory, control, history, disk
<1>t. waitQueue \subseteq WaitRow /\ step \in StepType
  BY DEF TypeOK
<1>1. CASE ReorderDelete
  <2>1. PICK k \in Ticket :
          step' = [op |-> "requeue", lock |-> step.lock,
                   rows |-> {IF r.holder = step.holder
                             THEN [r EXCEPT !.ticket = k] ELSE r
                             : r \in Waiters(step.lock)}]
    BY <1>1 DEF ReorderDelete
  <2> DEFINE moved(r) == IF r.holder = step.holder THEN [r EXCEPT !.ticket = k] ELSE r
  <2>2. /\ InHand' = {moved(r) : r \in Waiters(step.lock)}
        /\ step.op = "reorder" /\ step'.op = "requeue"
        /\ waitQueue' \subseteq waitQueue
    BY <1>1, <2>1 DEF ReorderDelete, InHand
  <2>3. \A r \in waitQueue : /\ moved(r).holder = r.holder /\ moved(r).left = r.left
                             /\ r.holder # step.holder => moved(r) = r
    BY <1>t DEF WaitRow
  <2> HIDE DEF moved
  <2>4. \A s \in QueueRows' : \E r \in waitQueue :
          s.holder = r.holder /\ s.left = r.left /\ (r.holder \notin Gold => s = r)
    BY <2>2, <2>3 DEF QueueRows, Waiters, OrderInv, OnlyGoldOvertakes
  <2>5. \A s \in QueueRows' : (s.holder \notin Gold => s \in QueueRows) /\ s.left <= WaitTimeoutSec
    BY <2>4 DEF OrderInv, WaitBounded, QueueRows
  <2> QED
    BY <2>2, <2>5 DEF OrderInv, InOrder, WaitBounded, OnlyGoldOvertakes
<1>2. CASE ReorderInsert
  <2>1. PICK r \in step.rows :
          /\ waitQueue' = waitQueue \cup {r}
          /\ step' = IF step.rows = {r} THEN Idle
                     ELSE [op |-> "requeue", lock |-> step.lock, rows |-> step.rows \ {r}]
    BY <1>2 DEF ReorderInsert
  <2>2. /\ InHand = step.rows /\ InHand' = step.rows \ {r}
        /\ step'.op \in {"requeue", "idle"}
    BY <1>2, <2>1 DEF ReorderInsert, InHand, Idle
  <2> QED
    BY <2>1, <2>2, OrderStutter DEF QueueRows
<1>3. CASE \/ CreateLease \/ FreeLock \/ GrantNobody \/ SkipWaiter \/ TakeWaiter
           \/ HoldForWaiter \/ BatchRefused \/ FinishJob
           \/ \E l \in Locks :
                BatchNext(l) \/ RollbackNext(l) \/ StartExpire(l) \/ StartArm(l)
  <2>1. waitQueue' \subseteq waitQueue
    BY <1>3 DEF CreateLease, FreeLock, GrantNobody, SkipWaiter, TakeWaiter,
           HoldForWaiter, BatchRefused, FinishJob, BatchNext, RollbackNext, ReleaseLocked,
           StartExpire, ExpireLocked, StartArm
  <2>2. UNCHANGED step \/ step'.op \in {"idle", "free", "next", "hold", "lease"}
    <3>1. CASE \E l \in Locks :
                 BatchNext(l) \/ RollbackNext(l) \/ StartExpire(l) \/ StartArm(l)
      BY <3>1 DEF BatchNext, RollbackNext, ReleaseLocked, StartExpire, ExpireLocked, StartArm
    <3>2. CASE CreateLease \/ GrantNobody \/ SkipWaiter \/ BatchRefused \/ FinishJob
      BY <3>2 DEF CreateLease, GrantNobody, SkipWaiter, BatchRefused, FinishJob, Idle
    <3>3. CASE FreeLock \/ TakeWaiter \/ HoldForWaiter
      BY <3>3 DEF FreeLock, TakeWaiter, HoldForWaiter
    <3> QED
      BY <1>3, <3>1, <3>2, <3>3
  <2>3. QueueRows' \subseteq QueueRows
    BY <2>1, <2>2 DEF QueueRows, InHand
  <2> QED
    BY <2>2, <2>3, OrderStutter
<1> QED
  BY <1>1, <1>2, <1>3 DEF MethodStep

(* A new row is behind all of its lock, with the whole timeout left. *)
LEMMA OrderEnqueue ==
  ASSUME TypeOK, OrderInv, NEW l \in Locks, NEW h \in Holders, NEW sec \in LeaseSecs,
         NEW reentrant \in Flags, Enqueue(l, h, sec, reentrant)
  PROVE  OrderInv'
<1>1. PICK k \in Ticket :
        /\ Behind(l, k)
        /\ waitQueue' = waitQueue \cup
             {[lock |-> l, holder |-> h, reentrant |-> reentrant, sec |-> sec,
               left |-> WaitTimeoutSec, ticket |-> k]}
  BY DEF Enqueue
<1> DEFINE new == [lock |-> l, holder |-> h, reentrant |-> reentrant, sec |-> sec,
                   left |-> WaitTimeoutSec, ticket |-> k]
<1>2. /\ new.lock = l /\ new.left = WaitTimeoutSec /\ new.ticket = k
      /\ waitQueue' = waitQueue \cup {new}
  BY <1>1
<1> HIDE DEF new
<1>3. InHand = {} /\ InHand' = {} /\ OnlyGoldOvertakes'
  BY DEF Enqueue, MutexFree, InHand, Idle, OnlyGoldOvertakes
<1>4. QueueRows' = QueueRows \cup {new} /\ QueueRows = waitQueue
  BY <1>2, <1>3 DEF QueueRows
<1>5. \A r \in waitQueue : r.lock = l => ~(k <= r.ticket)
  <2> SUFFICES ASSUME NEW r \in waitQueue, r.lock = l PROVE ~(k <= r.ticket)
    OBVIOUS
  <2>1. r.ticket < k
    BY <1>1 DEF Behind, Waiters
  <2>2. r.ticket \in Int /\ k \in Int
    BY BoundsAssumption DEF TypeOK, WaitRow, Ticket
  <2> QED
    BY <2>1, <2>2
<1>6. WaitBounded'
  BY <1>2, <1>4, RequestsAssumption DEF OrderInv, WaitBounded
<1>7. InOrder'
  <2> SUFFICES ASSUME NEW r \in QueueRows', NEW s \in QueueRows',
                      r.lock = s.lock, r.holder \notin Gold, s.holder \notin Gold,
                      r.ticket <= s.ticket
               PROVE  r.left <= s.left
    BY DEF InOrder
  <2>1. CASE s = new
    BY <1>2, <1>6, <2>1 DEF WaitBounded
  <2>2. CASE r = new /\ s \in QueueRows
    BY <1>2, <1>4, <1>5, <2>2
  <2>3. CASE r \in QueueRows /\ s \in QueueRows
    BY <2>3 DEF OrderInv, InOrder
  <2> QED
    BY <1>4, <2>1, <2>2, <2>3
<1> QED
  BY <1>3, <1>6, <1>7 DEF OrderInv

(* A second takes the same from all of them. *)
LEMMA OrderTick ==
  ASSUME TypeOK, OrderInv, Tick
  PROVE  OrderInv'
<1> DEFINE later(r) == [r EXCEPT !.left = Dec(@)]
<1>1. /\ waitQueue' = {later(r) : r \in waitQueue}
      /\ step = Idle /\ step' = Idle
  BY DEF Tick, control
<1>2. QueueRows = waitQueue /\ QueueRows' = waitQueue'
  BY <1>1 DEF QueueRows, InHand, Idle
<1>3. \A r \in waitQueue : /\ later(r).lock = r.lock /\ later(r).holder = r.holder
                           /\ later(r).ticket = r.ticket /\ later(r).left = Dec(r.left)
                           /\ r.left \in Left
  BY DEF TypeOK, WaitRow
<1> HIDE DEF later
<1>4. \A x, y \in Left : x <= y => Dec(x) <= Dec(y)
  BY DEF Left, Dec
<1>5. \A x \in Left : x <= WaitTimeoutSec => Dec(x) <= WaitTimeoutSec
  BY RequestsAssumption DEF Left, Dec
<1>6. InOrder'
  BY <1>1, <1>2, <1>3, <1>4 DEF OrderInv, InOrder
<1>7. WaitBounded' /\ OnlyGoldOvertakes'
  BY <1>1, <1>2, <1>3, <1>5 DEF OrderInv, WaitBounded, OnlyGoldOvertakes, Idle
<1> QED
  BY <1>6, <1>7 DEF OrderInv

LEMMA OrderStep == TypeOK /\ OrderInv /\ [Next]_vars => OrderInv'
<1> SUFFICES ASSUME TypeOK, OrderInv, [Next]_vars PROVE OrderInv'
  OBVIOUS
<1> USE DEF memory, control, history, disk
<1>1. ASSUME waitQueue' \subseteq waitQueue,
             UNCHANGED step \/ step'.op \in {"idle", "free", "lease"}
      PROVE  OrderInv'
  BY <1>1, OrderStutter DEF QueueRows, InHand
<1>2. CASE Request
  <2>1. ASSUME NEW l \in Locks, NEW h \in Holders, NEW sec, NEW reentrant,
               AcquireFree(l, h, sec, reentrant)
        PROVE  OrderInv'
    BY <1>1, <2>1 DEF AcquireFree
  <2>2. ASSUME NEW l \in Locks, NEW h \in Holders,
               \/ AcquireAgain(l, h) \/ ReleaseOnce(l, h) \/ Release(l, h)
               \/ \E add \in LeaseSecs : RenewLease(l, h, add)
               \/ CancelWaitForHolder(h)
        PROVE  OrderInv'
    BY <1>1, <2>2
    DEF AcquireAgain, ReleaseOnce, Release, ReleaseLocked, RenewLease, CancelWaitForHolder
  <2> QED
    BY <1>2, <2>1, <2>2, OrderEnqueue DEF Request
<1>3. CASE BatchRequest \/ CooldownRequest
  BY <1>1, <1>3 DEF BatchRequest, BatchStart, CooldownRequest, ShortenLease, SetAcceleratedGrant
<1>4. ASSUME NEW t \in TimerIds, FireTimer(t) \/ Callback(t) PROVE OrderInv'
  BY <1>1, <1>4 DEF FireTimer, Callback, ExpireLock, ExpireLocked, ExpireNothing
<1>5. CASE CheckWaitQueueTimeouts \/ Crash \/ Start
  BY <1>1, <1>5 DEF CheckWaitQueueTimeouts, Crash, Start, Idle
<1>6. CASE UNCHANGED vars
  BY <1>1, <1>6 DEF vars
<1> QED
  BY <1>2, <1>3, <1>4, <1>5, <1>6, OrderMethodStep, OrderTick DEF Next

(* The lock passes to the caller that has waited longest, gold callers     *)
(* apart, whatever gold callers were moved in front, whoever left, and     *)
(* however long the queue.                                                 *)
THEOREM LongestServed == Spec => LongestWaiterFirst
<1> DEFINE Served ==
      (step.op = "next" /\ step'.op = "hold" /\ step'.holder \notin Gold)
      => \A r \in waitQueue', taken \in waitQueue \ waitQueue' :
           r.lock = step.lock /\ r.holder \notin Gold => taken.left <= r.left
<1>1. Init => OrderInv
  BY DEF Init, OrderInv, InOrder, WaitBounded, OnlyGoldOvertakes, QueueRows, InHand, Idle
<1>2. TypeOK /\ OrderInv /\ [Next]_vars => [Served]_vars
  <2> SUFFICES ASSUME TypeOK, OrderInv, Next, step.op = "next", step'.op = "hold",
                      step'.holder \notin Gold,
                      NEW r \in waitQueue', NEW taken \in waitQueue \ waitQueue',
                      r.lock = step.lock, r.holder \notin Gold
               PROVE  taken.left <= r.left
    OBVIOUS
  <2> USE DEF memory, control, history, disk
  <2>1. TakeWaiter
    <3>1. ~MutexFree /\ step # Idle /\ step' # step /\ step' # Idle
      BY DEF MutexFree, Idle
    <3>2. ~(Request \/ BatchRequest \/ CooldownRequest)
      BY <3>1, RequestsNeedMutex
    <3>3. MethodStep
      BY <3>1, <3>2 DEF Next, FireTimer, Callback, ExpireLock, ExpireNothing,
             CheckWaitQueueTimeouts, Crash, Start, Tick
    <3> QED
      BY <3>1, <3>3 DEF MethodStep, ReorderDelete, ReorderInsert, CreateLease, FreeLock,
             GrantNobody, SkipWaiter, HoldForWaiter, BatchRefused, FinishJob, BatchNext,
             RollbackNext, StartExpire, StartArm
  <2>2. PICK head \in waitQueue :
          /\ Head(step.lock, head) /\ waitQueue' = waitQueue \ {head}
          /\ step' = [op |-> "hold", lock |-> step.lock, holder |-> head.holder,
                      reentrant |-> head.reentrant, sec |-> head.sec]
    BY <2>1 DEF TakeWaiter
  <2>3. taken = head /\ head.holder \notin Gold /\ r \in waitQueue
    BY <2>2
  <2>4. head.lock = step.lock /\ head.ticket <= r.ticket
    BY <2>2, <2>3 DEF Head, Waiters
  <2> QED
    BY <2>3, <2>4 DEF OrderInv, InOrder, QueueRows
<1> QED
  BY <1>1, <1>2, OrderStep, TypeCorrect, PTL DEF Spec, LongestWaiterFirst

-----------------------------------------------------------------------------
(* Cycles.  Reach is the least set closed under the edges. *)

LEMMA ReachClosed ==
  ASSUME NEW edges \in SUBSET (Holders \X Holders), NEW h
  PROVE  Reach(h, edges) \in SUBSET Holders /\ ClosedFrom(h, edges, Reach(h, edges))
  BY DEF Reach, ClosedFrom

LEMMA ReachLeast ==
  ASSUME NEW edges, NEW h, NEW S \in SUBSET Holders, ClosedFrom(h, edges, S)
  PROVE  Reach(h, edges) \subseteq S
  BY DEF Reach

(* More edges, more reach. *)
LEMMA ReachGrows ==
  ASSUME NEW more \in SUBSET (Holders \X Holders), NEW edges \in SUBSET more, NEW h
  PROVE  Reach(h, edges) \subseteq Reach(h, more)
<1>1. ClosedFrom(h, edges, Reach(h, more))
  BY ReachClosed DEF ClosedFrom
<1> QED
  BY <1>1, ReachClosed, ReachLeast

(* Edges into k that do not put k on a cycle put nobody on one. *)
LEMMA NoCycleAdded ==
  ASSUME NEW more \in SUBSET (Holders \X Holders),
         NEW edges \in SUBSET (Holders \X Holders),
         NEW k \in Holders,
         \A e \in more : e \in edges \/ e[2] = k,
         \A h \in Holders : h \notin Reach(h, edges),
         k \notin Reach(k, more)
  PROVE  \A h \in Holders : h \notin Reach(h, more)
<1> SUFFICES ASSUME NEW h \in Holders, h \in Reach(h, more) PROVE FALSE
  OBVIOUS
<1>1. h \in {k} \cup Reach(k, more)
  <2> DEFINE S == Reach(h, edges) \cup {k} \cup Reach(k, more)
  <2>1. S \in SUBSET Holders /\ ClosedFrom(h, more, S)
    BY ReachClosed DEF ClosedFrom
  <2>2. h \in S
    BY <2>1, ReachLeast
  <2> QED
    BY <2>2
<1>2. h \in Reach(k, more)
  BY <1>1
<1>3. Reach(h, more) \subseteq Reach(k, more)
  <2>1. ClosedFrom(h, more, Reach(k, more))
    BY <1>2, ReachClosed DEF ClosedFrom
  <2> QED
    BY <2>1, ReachClosed, ReachLeast
<1>4. k \notin Reach(h, more)
  BY <1>3
<1>5. ClosedFrom(h, more, Reach(h, more) \cap Reach(h, edges))
  <2> SUFFICES ASSUME NEW e \in more, e[1] = h \/ e[1] \in Reach(h, more) \cap Reach(h, edges)
               PROVE  e[2] \in Reach(h, more) \cap Reach(h, edges)
    BY DEF ClosedFrom
  <2>1. e[2] \in Reach(h, more)
    BY ReachClosed DEF ClosedFrom
  <2>2. e \in edges
    BY <1>4, <2>1
  <2> QED
    BY <2>1, <2>2, ReachClosed DEF ClosedFrom
<1>6. h \in Reach(h, edges)
  BY <1>5, ReachClosed, ReachLeast
<1> QED
  BY <1>6

(* A gold caller that is being moved in front waits on the holder of the   *)
(* lock: nobody did, directly or not, on whom that holder waits.           *)
Moving == step.op \in {"reorder", "requeue"}
MovesClosingNoCycle ==
  Moving =>
    /\ lock[step.lock].holder \in Holders
    /\ lock[step.lock].holder \notin Reach(lock[step.lock].holder, WaitEdges(QueueRows))

(* The rows still to be inserted are of the same callers and the same lock. *)
LEMMA MovingStutter ==
  ASSUME MovesClosingNoCycle,
         Moving' => /\ Moving /\ UNCHANGED lock /\ step'.lock = step.lock
                    /\ \A s \in QueueRows' : \E r \in QueueRows :
                         r.lock = s.lock /\ r.holder = s.holder
  PROVE  MovesClosingNoCycle'
<1> SUFFICES ASSUME Moving'
             PROVE  /\ lock'[step'.lock].holder \in Holders
                    /\ lock'[step'.lock].holder
                         \notin Reach(lock'[step'.lock].holder, WaitEdges(QueueRows)')
  BY DEF MovesClosingNoCycle, Reach
<1>1. WaitEdges(QueueRows)' \subseteq WaitEdges(QueueRows)
  BY DEF WaitEdges
<1>2. WaitEdges(QueueRows) \in SUBSET (Holders \X Holders)
  BY DEF WaitEdges
<1>3. Reach(lock[step.lock].holder, WaitEdges(QueueRows)')
        \subseteq Reach(lock[step.lock].holder, WaitEdges(QueueRows))
  BY <1>1, <1>2, ReachGrows
<1> QED
  BY <1>3 DEF MovesClosingNoCycle

(* A request that queues up has been found not to close a cycle. *)
LEMMA EnqueuedEdges ==
  ASSUME TypeOK, NEW l \in Locks, NEW h \in Holders, NEW sec, NEW reentrant,
         Enqueue(l, h, sec, reentrant)
  PROVE  /\ lock[l].holder \in Holders
         /\ \A e \in WaitEdges(waitQueue)' :
              e \in WaitEdges(waitQueue) \/ e[2] = lock[l].holder
         /\ lock[l].holder \notin Reach(lock[l].holder, WaitEdges(waitQueue)')
<1> DEFINE k == lock[l].holder
           edges == WaitEdges(waitQueue) \cup {<<h, k>>}
<1>1. k \in Holders
  BY DEF Enqueue, Held, TypeOK, Row
<1>2. edges \in SUBSET (Holders \X Holders)
  BY <1>1 DEF WaitEdges
<1>3. PICK i \in Ticket : waitQueue' = waitQueue \cup
          {[lock |-> l, holder |-> h, reentrant |-> reentrant, sec |-> sec,
            left |-> WaitTimeoutSec, ticket |-> i]}
  BY DEF Enqueue
<1> DEFINE new == [lock |-> l, holder |-> h, reentrant |-> reentrant, sec |-> sec,
                   left |-> WaitTimeoutSec, ticket |-> i]
<1>4. new.lock = l /\ new.holder = h /\ waitQueue' = waitQueue \cup {new} /\ lock' = lock
  BY <1>3 DEF Enqueue
<1> HIDE DEF new
<1>5. \A e \in WaitEdges(waitQueue)' : e \in edges
  <2> SUFFICES ASSUME NEW v \in Holders, NEW w \in Holders, <<v, w>> \in WaitEdges(waitQueue)'
               PROVE  <<v, w>> \in edges
    BY DEF WaitEdges
  <2>1. PICK r \in waitQueue' : v # w /\ r.holder = v /\ lock[r.lock].holder = w
    BY <1>4 DEF WaitEdges
  <2>2. CASE r = new
    BY <1>4, <2>1, <2>2
  <2>3. CASE r \in waitQueue
    BY <2>1, <2>3 DEF WaitEdges
  <2> QED
    BY <1>4, <2>1, <2>2, <2>3
<1>6. k \in Reach(h, edges)
  <2>1. <<h, k>> \in edges /\ <<h, k>>[1] = h /\ <<h, k>>[2] = k
    OBVIOUS
  <2> HIDE DEF edges
  <2> QED
    BY <1>2, <2>1, ReachClosed DEF ClosedFrom
<1>7. k \notin Reach(k, edges)
  BY <1>6 DEF Enqueue, DeadlockDetected
<1>8. Reach(k, WaitEdges(waitQueue)') \subseteq Reach(k, edges)
  <2> HIDE DEF edges
  <2> QED
    BY <1>2, <1>5, ReachGrows
<1>9. \A e \in WaitEdges(waitQueue)' : e \in WaitEdges(waitQueue) \/ e[2] = k
  BY <1>5
<1> QED
  BY <1>1, <1>7, <1>8, <1>9

LEMMA MovingMethodStep ==
  ASSUME TypeOK, MovesClosingNoCycle, MethodStep
  PROVE  MovesClosingNoCycle'
<1> USE DEF memory, control, history, disk
<1>t. waitQueue \subseteq WaitRow
  BY DEF TypeOK
<1>1. CASE ReorderDelete
  <2>1. PICK k \in Ticket :
          step' = [op |-> "requeue", lock |-> step.lock,
                   rows |-> {IF r.holder = step.holder
                             THEN [r EXCEPT !.ticket = k] ELSE r
                             : r \in Waiters(step.lock)}]
    BY <1>1 DEF ReorderDelete
  <2> DEFINE moved(r) == IF r.holder = step.holder THEN [r EXCEPT !.ticket = k] ELSE r
  <2>2. /\ InHand' = {moved(r) : r \in Waiters(step.lock)}
        /\ step.op = "reorder" /\ step'.lock = step.lock /\ lock' = lock
        /\ waitQueue' \subseteq waitQueue
    BY <1>1, <2>1 DEF ReorderDelete, InHand
  <2>3. \A r \in waitQueue : moved(r).lock = r.lock /\ moved(r).holder = r.holder
    BY <1>t DEF WaitRow
  <2> HIDE DEF moved
  <2>4. \A s \in QueueRows' : \E r \in QueueRows : r.lock = s.lock /\ r.holder = s.holder
    BY <2>2, <2>3 DEF QueueRows, Waiters
  <2> QED
    BY <2>2, <2>4, MovingStutter DEF Moving
<1>2. CASE ReorderInsert
  <2>1. PICK r \in step.rows :
          /\ waitQueue' = waitQueue \cup {r}
          /\ step' = IF step.rows = {r} THEN Idle
                     ELSE [op |-> "requeue", lock |-> step.lock, rows |-> step.rows \ {r}]
    BY <1>2 DEF ReorderInsert
  <2>2. /\ step.op = "requeue" /\ lock' = lock
        /\ InHand = step.rows /\ InHand' = step.rows \ {r}
        /\ Moving' => step'.lock = step.lock
    BY <1>2, <2>1 DEF ReorderInsert, InHand, Idle, Moving
  <2> QED
    BY <2>1, <2>2, MovingStutter DEF QueueRows, Moving
<1>3. CASE \/ CreateLease \/ FreeLock \/ GrantNobody \/ SkipWaiter \/ TakeWaiter
           \/ HoldForWaiter \/ BatchRefused \/ FinishJob
           \/ \E l \in Locks :
                BatchNext(l) \/ RollbackNext(l) \/ StartExpire(l) \/ StartArm(l)
  <2>1. ~Moving'
    <3>1. CASE \E l \in Locks :
                 BatchNext(l) \/ RollbackNext(l) \/ StartExpire(l) \/ StartArm(l)
      BY <3>1 DEF Moving, BatchNext, RollbackNext, ReleaseLocked, StartExpire, ExpireLocked,
             StartArm, Idle
    <3>2. CASE CreateLease \/ GrantNobody \/ SkipWaiter \/ BatchRefused \/ FinishJob
      BY <3>2 DEF Moving, CreateLease, GrantNobody, SkipWaiter, BatchRefused, FinishJob, Idle
    <3>3. CASE FreeLock \/ TakeWaiter \/ HoldForWaiter
      BY <3>3 DEF Moving, FreeLock, TakeWaiter, HoldForWaiter
    <3> QED
      BY <1>3, <3>1, <3>2, <3>3
  <2> QED
    BY <2>1 DEF MovesClosingNoCycle, Moving
<1> QED
  BY <1>1, <1>2, <1>3 DEF MethodStep

LEMMA MovingStep ==
  TypeOK /\ MovesClosingNoCycle /\ [Next]_vars => MovesClosingNoCycle'
<1> SUFFICES ASSUME TypeOK, MovesClosingNoCycle, [Next]_vars PROVE MovesClosingNoCycle'
  OBVIOUS
<1> USE DEF memory, control, history, disk
<1>1. ASSUME ~Moving' PROVE MovesClosingNoCycle'
  BY <1>1 DEF MovesClosingNoCycle, Moving
<1>2. CASE Request
  <2>1. step = Idle
    BY <1>2, RequestsNeedMutex DEF MutexFree
  <2>2. ASSUME NEW l \in Locks, NEW h \in Holders, NEW sec, NEW reentrant,
               Enqueue(l, h, sec, reentrant)
        PROVE  MovesClosingNoCycle'
    <3>1. /\ lock' = lock /\ step'.op # "requeue"
          /\ step'.op = "reorder" => step'.lock = l
      BY <2>2 DEF Enqueue, Idle
    <3>2. Moving' => QueueRows' = waitQueue' /\ step'.lock = l
      BY <3>1 DEF QueueRows, InHand, Moving
    <3>3. ASSUME Moving' PROVE WaitEdges(QueueRows)' = WaitEdges(waitQueue)'
      BY <3>2, <3>3 DEF WaitEdges
    <3> QED
      BY <2>2, <3>1, <3>2, <3>3, EnqueuedEdges DEF MovesClosingNoCycle, Reach
  <2>3. ASSUME NEW l \in Locks, NEW h \in Holders,
               \/ \E sec \in LeaseSecs, reentrant \in Flags : AcquireFree(l, h, sec, reentrant)
               \/ AcquireAgain(l, h) \/ ReleaseOnce(l, h) \/ Release(l, h)
               \/ \E add \in LeaseSecs : RenewLease(l, h, add)
               \/ CancelWaitForHolder(h)
        PROVE  ~Moving'
    BY <2>1, <2>3
    DEF Moving, Idle, AcquireFree, AcquireAgain, ReleaseOnce, Release, ReleaseLocked,
        RenewLease, CancelWaitForHolder
  <2> QED
    BY <1>1, <1>2, <2>2, <2>3 DEF Request
<1>3. CASE BatchRequest \/ CooldownRequest
  <2>1. step = Idle
    BY <1>3, RequestsNeedMutex DEF MutexFree
  <2> QED
    BY <1>1, <1>3, <2>1
    DEF Moving, Idle, BatchRequest, BatchStart, CooldownRequest, ShortenLease, SetAcceleratedGrant
<1>4. ASSUME NEW t \in TimerIds, Callback(t) PROVE ~Moving'
  BY <1>4 DEF Moving, Idle, MutexFree, Callback, ExpireLock, ExpireLocked, ExpireNothing
<1>5. ASSUME \/ \E t \in TimerIds : FireTimer(t)
             \/ Start \/ UNCHANGED vars
      PROVE  MovesClosingNoCycle'
  <2>1. UNCHANGED <<lock, waitQueue, step>>
    BY <1>5 DEF FireTimer, Start, vars
  <2> QED
    BY <2>1, MovingStutter DEF Moving, QueueRows, InHand
<1>6. CASE CheckWaitQueueTimeouts \/ Crash \/ Tick
  BY <1>1, <1>6 DEF CheckWaitQueueTimeouts, MutexFree, Crash, Tick, Moving, Idle
<1> QED
  BY <1>1, <1>2, <1>3, <1>4, <1>5, <1>6, MovingMethodStep DEF Next

(* A step that lets nobody in adds no edge. *)
LEMMA AcyclicKept ==
  ASSUME Acyclic, waitQueue \subseteq WaitRow,
         \A l \in Locks : lock'[l].holder = lock[l].holder,
         \A s \in waitQueue' : \E r \in waitQueue : r.lock = s.lock /\ r.holder = s.holder
  PROVE  Acyclic'
<1> SUFFICES ASSUME NEW h \in Holders PROVE h \notin Reach(h, WaitEdges(waitQueue)')
  BY DEF Acyclic, Reach
<1>1. \A r \in waitQueue : r.lock \in Locks
  BY DEF WaitRow
<1>2. WaitEdges(waitQueue)' \subseteq WaitEdges(waitQueue)
  BY <1>1 DEF WaitEdges
<1>3. WaitEdges(waitQueue) \in SUBSET (Holders \X Holders)
  BY DEF WaitEdges
<1>4. Reach(h, WaitEdges(waitQueue)') \subseteq Reach(h, WaitEdges(waitQueue))
  BY <1>2, <1>3, ReachGrows
<1> QED
  BY <1>4 DEF Acyclic

(* Whatever lets somebody in lets it in behind a holder on no cycle. *)
LEMMA AcyclicJoined ==
  ASSUME Acyclic, NEW k \in Holders,
         \A e \in WaitEdges(waitQueue)' : e \in WaitEdges(waitQueue) \/ e[2] = k,
         k \notin Reach(k, WaitEdges(waitQueue)')
  PROVE  Acyclic'
<1>1. /\ WaitEdges(waitQueue) \in SUBSET (Holders \X Holders)
      /\ WaitEdges(waitQueue)' \in SUBSET (Holders \X Holders)
  BY DEF WaitEdges
<1>2. \A h \in Holders : h \notin Reach(h, WaitEdges(waitQueue))
  BY DEF Acyclic
<1>3. \A h \in Holders : h \notin Reach(h, WaitEdges(waitQueue)')
  BY <1>1, <1>2, NoCycleAdded
<1> QED
  BY <1>3 DEF Acyclic, Reach

(* A row of a caller that is being moved in front comes back. *)
LEMMA AcyclicInsert ==
  ASSUME TypeOK, InHandOfLock, MovesClosingNoCycle, Acyclic, ReorderInsert
  PROVE  Acyclic'
<1> DEFINE k == lock[step.lock].holder
<1>1. PICK r \in step.rows : waitQueue' = waitQueue \cup {r}
  BY DEF ReorderInsert
<1>2. step.op = "requeue" /\ lock' = lock /\ InHand = step.rows
  BY DEF ReorderInsert, InHand
<1>3. r.lock = step.lock /\ waitQueue' \subseteq QueueRows
  BY <1>1, <1>2 DEF InHandOfLock, QueueRows
<1>4. k \in Holders /\ k \notin Reach(k, WaitEdges(QueueRows))
  BY <1>2 DEF MovesClosingNoCycle, Moving
<1>5. /\ WaitEdges(waitQueue)' \subseteq WaitEdges(QueueRows)
      /\ \A e \in WaitEdges(waitQueue)' : e \in WaitEdges(waitQueue) \/ e[2] = k
  BY <1>1, <1>2, <1>3 DEF WaitEdges
<1>6. WaitEdges(QueueRows) \in SUBSET (Holders \X Holders)
  BY DEF WaitEdges
<1>7. Reach(k, WaitEdges(waitQueue)') \subseteq Reach(k, WaitEdges(QueueRows))
  BY <1>5, <1>6, ReachGrows
<1> QED
  BY <1>4, <1>5, <1>7, AcyclicJoined

(* Every step under which the locks stay where they are. *)
LEMMA AcyclicStep ==
  ASSUME TypeOK, InHandOfLock, MovesClosingNoCycle, Acyclic, Next,
         \A l \in Locks : lock'[l].holder = lock[l].holder
  PROVE  Acyclic'
<1> USE DEF memory, control, history, disk
<1>t. waitQueue \subseteq WaitRow
  BY DEF TypeOK
<1>1. ASSUME waitQueue' \subseteq waitQueue PROVE Acyclic'
  BY <1>1, <1>t, AcyclicKept
<1>2. CASE Request
  <2>1. ASSUME NEW l \in Locks, NEW h \in Holders, NEW sec, NEW reentrant,
               Enqueue(l, h, sec, reentrant)
        PROVE  Acyclic'
    BY <2>1, EnqueuedEdges, AcyclicJoined
  <2>2. ASSUME NEW l \in Locks, NEW h \in Holders,
               \/ \E sec \in LeaseSecs, reentrant \in Flags : AcquireFree(l, h, sec, reentrant)
               \/ AcquireAgain(l, h) \/ ReleaseOnce(l, h) \/ Release(l, h)
               \/ \E add \in LeaseSecs : RenewLease(l, h, add)
               \/ CancelWaitForHolder(h)
        PROVE  Acyclic'
    BY <1>1, <2>2
    DEF AcquireFree, AcquireAgain, ReleaseOnce, Release, ReleaseLocked, RenewLease,
        CancelWaitForHolder
  <2> QED
    BY <1>2, <2>1, <2>2 DEF Request
<1>3. CASE BatchRequest \/ CooldownRequest
  BY <1>1, <1>3 DEF BatchRequest, BatchStart, CooldownRequest, ShortenLease, SetAcceleratedGrant
<1>4. CASE MethodStep
  <2>1. CASE ReorderDelete \/ CreateLease \/ FreeLock \/ GrantNobody \/ SkipWaiter
             \/ TakeWaiter \/ HoldForWaiter
    BY <1>1, <2>1
    DEF ReorderDelete, CreateLease, FreeLock, GrantNobody, SkipWaiter, TakeWaiter, HoldForWaiter
  <2>2. CASE BatchRefused \/ FinishJob
    BY <1>1, <2>2 DEF BatchRefused, FinishJob
  <2>3. ASSUME NEW l \in Locks, BatchNext(l) \/ StartArm(l) PROVE Acyclic'
    BY <1>1, <2>3 DEF BatchNext, StartArm
  <2>4. ASSUME NEW l \in Locks, RollbackNext(l) \/ StartExpire(l) PROVE Acyclic'
    BY <1>1, <2>4 DEF RollbackNext, ReleaseLocked, StartExpire, ExpireLocked
  <2> QED
    BY <1>4, <2>1, <2>2, <2>3, <2>4, AcyclicInsert DEF MethodStep
<1>5. ASSUME NEW t \in TimerIds, FireTimer(t) \/ Callback(t) PROVE Acyclic'
  BY <1>1, <1>5 DEF FireTimer, Callback, ExpireLock, ExpireLocked, ExpireNothing
<1>6. CASE CheckWaitQueueTimeouts \/ Crash \/ Start
  BY <1>1, <1>6 DEF CheckWaitQueueTimeouts, Crash, Start
<1>7. CASE Tick
  <2> DEFINE later(r) == [r EXCEPT !.left = Dec(@)]
  <2>1. waitQueue' = {later(r) : r \in waitQueue}
    BY <1>7 DEF Tick
  <2>2. \A r \in waitQueue : later(r).lock = r.lock /\ later(r).holder = r.holder
    BY <1>t DEF WaitRow
  <2> HIDE DEF later
  <2> QED
    BY <1>t, <2>1, <2>2, AcyclicKept
<1> QED
  BY <1>2, <1>3, <1>4, <1>5, <1>6, <1>7 DEF Next

(* While the locks stay where they are, no request that queues up closes a *)
(* cycle of the wait-for graph, nor does moving a gold caller in front,    *)
(* whose rows are out of the table meanwhile: checkDeadlockLocked saw them *)
(* there, and mu keeps everyone else out.  This for every number of        *)
(* callers, so for cycles of every length.                                 *)
THEOREM EnqueuesSafely == Spec => EnqueueClosesNoCycle
<1>1. Init => MovesClosingNoCycle
  BY DEF Init, MovesClosingNoCycle, Moving, Idle
<1>2. QueueInv => InHandOfLock
  BY DEF QueueInv
<1>3. TypeOK /\ InHandOfLock /\ MovesClosingNoCycle /\ [Next]_vars
      => [(Acyclic /\ \A l \in Locks : lock'[l].holder = lock[l].holder) => Acyclic']_vars
  BY AcyclicStep
<1> QED
  BY <1>1, <1>2, <1>3, MovingStep, TypeCorrect, LeaseInvariant, QueueInit, QueueStep, PTL
  DEF Spec, EnqueueClosesNoCycle
=============================================================================
