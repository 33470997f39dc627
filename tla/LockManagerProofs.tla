------------------------- MODULE LockManagerProofs -------------------------
(***************************************************************************)
(* Types, mutual exclusion, one lease to a lock, and that the lock manager *)
(* implements LockService: theorems about LockManager and LockRefinement   *)
(* for every set of locks and callers, every lease length and bound.       *)
(***************************************************************************)
EXTENDS LockRefinement, TLAPS

-----------------------------------------------------------------------------
(* Type correctness *)

(* What the type of the pending write says of its fields. *)
LEMMA StepFields ==
  ASSUME step \in StepType
  PROVE  /\ step.op \in {"free", "next"} => step.lock \in Locks
         /\ step.op = "reorder" => step.lock \in Locks /\ step.holder \in Holders
         /\ step.op = "requeue" =>
              \E l \in Locks, rows \in SUBSET WaitRow :
                step = [op |-> "requeue", lock |-> l, rows |-> rows]
         /\ step.op = "hold" => /\ step.lock \in Locks /\ step.holder \in Holders
                                /\ step.reentrant \in BOOLEAN /\ step.sec \in Nat
         /\ step.op = "lease" => /\ step.lock \in Locks /\ step.holder \in Holders
                                 /\ step.sec \in Nat
  BY DEF StepType, Idle

(* What the type of the pending loop says of its fields. *)
LEMMA JobFields ==
  ASSUME job \in JobType, job.kind \in {"start", "rollback", "batch"}
  PROVE  /\ job # NoJob
         /\ job.todo \subseteq Locks
         /\ job.kind # "start" =>
              job.holder \in Holders /\ job.names \subseteq Locks
         /\ job.kind = "batch" =>
              /\ job.reentrant \in BOOLEAN /\ job.sec \in Nat
              /\ job.done \subseteq Locks
  BY DEF JobType, NoJob

TimersTyped ==
  /\ timer \in [TimerIds -> TimerObject]
  /\ timers \in [Locks -> TimerIds \cup {NoTimer}]

(* Arming and stopping timers keeps their types. *)
LEMMA StopTyped ==
  ASSUME TimersTyped, NEW l \in Locks
  PROVE  AfterStop(l) \in [TimerIds -> TimerObject]
  BY DEF TimersTyped, AfterStop, TimerObject

(* setLeaseTimerLocked keeps timers and timer objects well typed. *)
LEMMA SetTimerTyped ==
  ASSUME TimersTyped, NEW l \in Locks, NEW left \in Left, SetLeaseTimer(l, left)
  PROVE  TimersTyped'
<1>1. PICK t \in TimerIds :
        /\ timer' = [AfterStop(l) EXCEPT
                       ![t] = [state |-> "armed", lock |-> l, left |-> left]]
        /\ timers' = [timers EXCEPT ![l] = t]
  BY DEF SetLeaseTimer
<1>2. [state |-> "armed", lock |-> l, left |-> left] \in TimerObject
  BY DEF TimerObject
<1> QED
  BY <1>1, <1>2, StopTyped DEF TimersTyped

(* stopLeaseTimerLocked keeps timers and timer objects well typed. *)
LEMMA StopTimerTyped ==
  ASSUME TimersTyped, NEW l \in Locks, StopLeaseTimer(l)
  PROVE  TimersTyped'
  BY StopTyped DEF TimersTyped, StopLeaseTimer, NoTimer

(* Writing the locks table keeps its type. *)
LEMMA HoldTyped ==
  ASSUME lock \in [Locks -> Row], NEW l \in Locks, NEW h \in Holders,
         NEW reentrant \in BOOLEAN, Hold(l, h, reentrant)
  PROVE  lock' \in [Locks -> Row]
  BY DEF Hold, Row

(* A cooldown's cap of a lease length is a lease length. *)
LEMMA CappedTyped ==
  ASSUME accelerated \in [Locks -> Nat], NEW l \in Locks, NEW sec \in Nat
  PROVE  Capped(l, sec) \in Nat
  BY DEF Capped

(* A renewal of a lease that runs leaves it running. *)
LEMMA NewExpiryTyped ==
  ASSUME accelerated \in [Locks -> Nat], NEW l \in Locks,
         NEW left \in Left, ~(left < 0), NEW add \in Nat
  PROVE  NewExpiry(l, left, add) \in Nat
  BY DEF NewExpiry, Left

(* A second less, or still past: both are seconds left. *)
LEMMA DecTyped ==
  ASSUME NEW x \in Left
  PROVE  Dec(x) \in Left
  BY DEF Dec, Left

(* The records the methods write to "step" have its type. *)
LEMMA StepsTyped ==
  /\ Idle \in StepType
  /\ \A l \in Locks :
       /\ [op |-> "free", lock |-> l] \in StepType
       /\ [op |-> "next", lock |-> l] \in StepType
       /\ \A h \in Holders :
            /\ [op |-> "reorder", lock |-> l, holder |-> h] \in StepType
            /\ \A sec \in Nat :
                 /\ [op |-> "lease", lock |-> l, holder |-> h, sec |-> sec] \in StepType
                 /\ \A reentrant \in BOOLEAN :
                      [op |-> "hold", lock |-> l, holder |-> h,
                       reentrant |-> reentrant, sec |-> sec] \in StepType
       /\ \A rows \in SUBSET WaitRow :
            [op |-> "requeue", lock |-> l, rows |-> rows] \in StepType
  BY DEF StepType

(* The records the methods write to "job" have its type. *)
LEMMA JobsTyped ==
  /\ NoJob \in JobType
  /\ \A todo \in SUBSET Locks :
       /\ [kind |-> "start", todo |-> todo] \in JobType
       /\ \A h \in Holders, names \in SUBSET Locks :
            /\ [kind |-> "rollback", holder |-> h, names |-> names,
                todo |-> todo] \in JobType
            /\ \A reentrant \in BOOLEAN, sec \in Nat, done \in SUBSET Locks :
                 [kind |-> "batch", holder |-> h, reentrant |-> reentrant,
                  sec |-> sec, names |-> names, todo |-> todo,
                  done |-> done] \in JobType
  BY DEF JobType

(* Taking a lock off the loop of a method keeps the loop's type. *)
LEMMA LoopTyped ==
  ASSUME job \in JobType, job # NoJob, NEW todo \in SUBSET Locks,
         NEW done \in SUBSET Locks
  PROVE  /\ [job EXCEPT !.todo = todo] \in JobType
         /\ job.kind = "batch" =>
              [job EXCEPT !.todo = todo, !.done = done] \in JobType
  BY DEF JobType, NoJob

(* The request constants, without the other assumptions. *)
LEMMA RequestConstants ==
  /\ \A sec \in LeaseSecs : sec \in Nat /\ sec \in Left
  /\ \A sec \in CooldownSecs \cup {0} : sec \in Nat /\ sec \in Left
  /\ \A reentrant \in Flags : reentrant \in BOOLEAN
  /\ WaitTimeoutSec \in Left
  /\ \A n \in Nat : n \in Left
  BY RequestsAssumption DEF Left

(* The empty tables are well typed. *)
LEMMA TypeInit == Init => TypeOK
  BY BoundsAssumption
  DEF Init, TypeOK, Row, FreeRow, LeaseRow, WaitRow, TimerObject, StepType,
      JobType, NoTimer

(* The requests of callers. *)
LEMMA RequestTyped ==
  ASSUME TypeOK, Request
  PROVE  TypeOK'
<1> USE DEF TypeOK, disk, memory, control, history
<1> PICK l \in Locks, h \in Holders :
      \/ \E sec \in LeaseSecs, reentrant \in Flags :
           \/ AcquireFree(l, h, sec, reentrant)
           \/ Enqueue(l, h, sec, reentrant)
      \/ AcquireAgain(l, h)
      \/ ReleaseOnce(l, h)
      \/ Release(l, h)
      \/ \E add \in LeaseSecs : RenewLease(l, h, add)
      \/ CancelWaitForHolder(h)
  BY DEF Request
<1>1. ASSUME NEW sec \in LeaseSecs, NEW reentrant \in Flags,
             AcquireFree(l, h, sec, reentrant)
      PROVE  TypeOK'
  BY <1>1, HoldTyped, CappedTyped, StepsTyped, RequestConstants DEF AcquireFree
<1>2. ASSUME NEW sec \in LeaseSecs, NEW reentrant \in Flags,
             Enqueue(l, h, sec, reentrant)
      PROVE  TypeOK'
  <2>1. PICK k \in Ticket : waitQueue' = waitQueue \cup
            {[lock |-> l, holder |-> h, reentrant |-> reentrant, sec |-> sec,
              left |-> WaitTimeoutSec, ticket |-> k]}
    BY <1>2 DEF Enqueue
  <2>2. k \in Int
    BY BoundsAssumption DEF Ticket
  <2>3. [lock |-> l, holder |-> h, reentrant |-> reentrant, sec |-> sec,
         left |-> WaitTimeoutSec, ticket |-> k] \in WaitRow
    BY <2>2, RequestConstants DEF WaitRow
  <2>4. step' \in StepType
    BY <1>2, StepsTyped DEF Enqueue
  <2> QED
    BY <1>2, <2>1, <2>3, <2>4 DEF Enqueue
<1>3. ASSUME AcquireAgain(l, h)
      PROVE  TypeOK'
  BY <1>3 DEF AcquireAgain, Row
<1>4. ASSUME ReleaseOnce(l, h)
      PROVE  TypeOK'
  BY <1>4 DEF ReleaseOnce, Row
<1>5. ASSUME Release(l, h)
      PROVE  TypeOK'
  BY <1>5, StopTimerTyped, StepsTyped DEF Release, ReleaseLocked, TimersTyped
<1>6. ASSUME NEW add \in LeaseSecs, RenewLease(l, h, add)
      PROVE  TypeOK'
  <2>1. PICK r \in Lease(l) :
          /\ ~Past(r)
          /\ leases' = (leases \ {r}) \cup
                         {[r EXCEPT !.left = NewExpiry(l, r.left, add)]}
          /\ SetLeaseTimer(l, NewExpiry(l, r.left, add))
    BY <1>6 DEF RenewLease
  <2>2. r \in LeaseRow
    BY DEF Lease
  <2>3. NewExpiry(l, r.left, add) \in Left
    BY <2>1, <2>2, NewExpiryTyped, RequestConstants DEF LeaseRow, Past
  <2>4. [r EXCEPT !.left = NewExpiry(l, r.left, add)] \in LeaseRow
    BY <2>2, <2>3 DEF LeaseRow
  <2> QED
    BY <1>6, <2>1, <2>3, <2>4, SetTimerTyped DEF RenewLease, TimersTyped
<1>7. ASSUME CancelWaitForHolder(h)
      PROVE  TypeOK'
  BY <1>7 DEF CancelWaitForHolder
<1> QED
  BY <1>1, <1>2, <1>3, <1>4, <1>5, <1>6, <1>7

(* The calls of the cooldown manager. *)
LEMMA CooldownTyped ==
  ASSUME TypeOK, CooldownRequest
  PROVE  TypeOK'
<1> USE DEF TypeOK, disk, memory, control, history
<1> PICK l \in Locks :
      \/ \E sec \in CooldownSecs : ShortenLease(l, sec)
      \/ \E sec \in CooldownSecs \cup {0} : SetAcceleratedGrant(l, sec)
  BY DEF CooldownRequest
<1>1. ASSUME NEW sec \in CooldownSecs, ShortenLease(l, sec)
      PROVE  TypeOK'
  <2> DEFINE left(r) == IF sec > r.left THEN r.left ELSE sec
  <2>1. PICK r \in Lease(l) :
          /\ leases' = (leases \ {r}) \cup {[r EXCEPT !.left = left(r)]}
          /\ SetLeaseTimer(l, left(r))
    BY <1>1 DEF ShortenLease
  <2>2. r \in LeaseRow
    BY DEF Lease
  <2>3. left(r) \in Left
    BY <2>1, <2>2, RequestConstants DEF LeaseRow
  <2>4. [r EXCEPT !.left = left(r)] \in LeaseRow
    BY <2>2, <2>3 DEF LeaseRow
  <2> QED
    BY <1>1, <2>1, <2>3, <2>4, SetTimerTyped DEF ShortenLease, TimersTyped
<1>2. ASSUME NEW sec \in CooldownSecs \cup {0}, SetAcceleratedGrant(l, sec)
      PROVE  TypeOK'
  BY <1>2, RequestConstants DEF SetAcceleratedGrant
<1> QED
  BY <1>1, <1>2

(* The start of a batch. *)
LEMMA BatchTyped ==
  ASSUME TypeOK, BatchRequest
  PROVE  TypeOK'
<1> USE DEF TypeOK, disk, memory, control, history
<1> PICK h \in Holders, names \in SUBSET Locks, sec \in LeaseSecs,
         reentrant \in Flags : BatchStart(h, names, sec, reentrant)
  BY DEF BatchRequest
<1> QED
  BY JobsTyped, RequestConstants DEF BatchStart

(* The steps of the queue, of a grant and of a release. *)
LEMMA QueueStepTyped ==
  ASSUME TypeOK,
         \/ ReorderDelete \/ ReorderInsert \/ CreateLease
         \/ FreeLock \/ GrantNobody \/ SkipWaiter \/ TakeWaiter \/ HoldForWaiter
  PROVE  TypeOK'
<1> USE DEF TypeOK, disk, memory, control, history
<1>1. CASE ReorderDelete
  <2>1. step.lock \in Locks
    BY <1>1, StepFields DEF ReorderDelete
  <2>2. PICK k \in Ticket :
          step' = [op |-> "requeue", lock |-> step.lock,
                   rows |-> {IF r.holder = step.holder
                             THEN [r EXCEPT !.ticket = k] ELSE r
                             : r \in Waiters(step.lock)}]
    BY <1>1 DEF ReorderDelete
  <2>3. \A r \in Waiters(step.lock) :
          (IF r.holder = step.holder THEN [r EXCEPT !.ticket = k] ELSE r)
            \in WaitRow
    BY BoundsAssumption DEF Waiters, WaitRow, Ticket
  <2>4. step' \in StepType
    <3>1. PICK rows : rows = {IF r.holder = step.holder THEN [r EXCEPT !.ticket = k] ELSE r
                              : r \in Waiters(step.lock)}
      OBVIOUS
    <3>2. rows \in SUBSET WaitRow
      BY <2>3, <3>1
    <3>3. [op |-> "requeue", lock |-> step.lock, rows |-> rows] \in StepType
      BY <2>1, <3>2 DEF StepType
    <3> QED
      BY <2>2, <3>1, <3>3
  <2> QED
    BY <1>1, <2>4 DEF ReorderDelete
<1>2. CASE ReorderInsert
  <2>1. PICK l \in Locks, rows \in SUBSET WaitRow :
          step = [op |-> "requeue", lock |-> l, rows |-> rows]
    BY <1>2, StepFields DEF ReorderInsert
  <2>2. PICK r \in rows :
          /\ waitQueue' = waitQueue \cup {r}
          /\ step' = IF rows = {r} THEN Idle
                     ELSE [op |-> "requeue", lock |-> l, rows |-> rows \ {r}]
    BY <1>2, <2>1 DEF ReorderInsert
  <2>3. step' \in StepType
    BY <2>2, StepsTyped
  <2> QED
    BY <1>2, <2>2, <2>3 DEF ReorderInsert
<1>3. CASE CreateLease
  <2>1. /\ step.lock \in Locks /\ step.holder \in Holders
        /\ step.sec \in Left
    BY <1>3, StepFields, RequestConstants DEF CreateLease
  <2>2. [lock |-> step.lock, holder |-> step.holder, left |-> step.sec]
          \in LeaseRow
    BY <2>1 DEF LeaseRow
  <2> QED
    BY <1>3, <2>1, <2>2, SetTimerTyped, StepsTyped DEF CreateLease, TimersTyped
<1>4. CASE FreeLock
  BY <1>4, StepFields, StepsTyped DEF FreeLock, FreeRow, Row
<1>5. CASE GrantNobody
  BY <1>5, StepsTyped DEF GrantNobody
<1>6. CASE SkipWaiter
  BY <1>6 DEF SkipWaiter
<1>7. CASE TakeWaiter
  <2>1. PICK r \in waitQueue :
          step' = [op |-> "hold", lock |-> step.lock, holder |-> r.holder,
                   reentrant |-> r.reentrant, sec |-> r.sec]
    BY <1>7 DEF TakeWaiter
  <2>2. /\ step.lock \in Locks /\ r.holder \in Holders
        /\ r.reentrant \in BOOLEAN /\ r.sec \in Nat
    BY <1>7, StepFields DEF TakeWaiter, WaitRow
  <2> QED
    BY <1>7, <2>1, <2>2, StepsTyped DEF TakeWaiter
<1>8. CASE HoldForWaiter
  BY <1>8, StepFields, HoldTyped, CappedTyped, StepsTyped DEF HoldForWaiter
<1> QED
  BY <1>1, <1>2, <1>3, <1>4, <1>5, <1>6, <1>7, <1>8

(* The steps of the loops over locks. *)
LEMMA LoopStepTyped ==
  ASSUME TypeOK,
         \/ BatchRefused \/ FinishJob
         \/ \E l \in Locks :
              BatchNext(l) \/ RollbackNext(l) \/ StartExpire(l) \/ StartArm(l)
  PROVE  TypeOK'
<1> USE DEF TypeOK, disk, memory, control, history
<1>1. CASE BatchRefused
  <2>1. /\ job.holder \in Holders /\ job.names \subseteq Locks
        /\ job.done \subseteq Locks
    BY <1>1, JobFields DEF BatchRefused
  <2>2. job' \in JobType
    BY <1>1, <2>1, JobsTyped DEF BatchRefused
  <2> QED
    BY <1>1, <2>2 DEF BatchRefused
<1>2. CASE FinishJob
  BY <1>2, JobsTyped DEF FinishJob
<1>3. ASSUME NEW l \in Locks, BatchNext(l)
      PROVE  TypeOK'
  <2>1. /\ job # NoJob /\ job.kind = "batch"
        /\ job.todo \subseteq Locks /\ job.done \subseteq Locks
        /\ job.holder \in Holders /\ job.reentrant \in BOOLEAN /\ job.sec \in Nat
    BY <1>3, JobFields DEF BatchNext
  <2>2. job' \in JobType
    BY <1>3, <2>1, LoopTyped DEF BatchNext
  <2> QED
    BY <1>3, <2>1, <2>2, HoldTyped, StepsTyped DEF BatchNext
<1>4. ASSUME NEW l \in Locks, RollbackNext(l)
      PROVE  TypeOK'
  <2>1. job # NoJob /\ job.todo \subseteq Locks
    BY <1>4, JobFields DEF RollbackNext
  <2>2. job' \in JobType
    BY <1>4, <2>1, LoopTyped DEF RollbackNext
  <2> QED
    BY <1>4, <2>2, StopTimerTyped, StepsTyped
    DEF RollbackNext, ReleaseLocked, TimersTyped
<1>5. ASSUME NEW l \in Locks, StartExpire(l)
      PROVE  TypeOK'
  <2>1. job # NoJob /\ job.todo \subseteq Locks
    BY <1>5, JobFields DEF StartExpire
  <2>2. job' \in JobType
    BY <1>5, <2>1, LoopTyped DEF StartExpire
  <2> QED
    BY <1>5, <2>2, StepsTyped DEF StartExpire, ExpireLocked, NoTimer
<1>6. ASSUME NEW l \in Locks, StartArm(l)
      PROVE  TypeOK'
  <2>1. job # NoJob /\ job.todo \subseteq Locks
    BY <1>6, JobFields DEF StartArm
  <2>2. job' \in JobType
    BY <1>6, <2>1, LoopTyped DEF StartArm
  <2>3. PICK r \in Lease(l) : SetLeaseTimer(l, r.left)
    BY <1>6 DEF StartArm
  <2>4. r.left \in Left
    BY DEF Lease, LeaseRow
  <2> QED
    BY <1>6, <2>2, <2>3, <2>4, SetTimerTyped DEF StartArm, TimersTyped
<1> QED
  BY <1>1, <1>2, <1>3, <1>4, <1>5, <1>6

(* The steps of timers and of the sweep. *)
LEMMA TimerStepTyped ==
  ASSUME TypeOK,
         \/ \E t \in TimerIds : FireTimer(t) \/ Callback(t)
         \/ CheckWaitQueueTimeouts
  PROVE  TypeOK'
<1> USE DEF TypeOK, disk, memory, control, history
<1>1. ASSUME NEW t \in TimerIds, FireTimer(t)
      PROVE  TypeOK'
  <2>1. [timer[t] EXCEPT !.state = "fired"] \in TimerObject
    BY <1>1 DEF FireTimer, TimerObject, IdleTimer
  <2> QED
    BY <1>1, <2>1 DEF FireTimer
<1>2. ASSUME NEW t \in TimerIds, Callback(t)
      PROVE  TypeOK'
  <2>1. timer[t].lock \in Locks
    BY <1>2 DEF Callback, ExpireLock, ExpireNothing, TimerObject, IdleTimer
  <2>2. IdleTimer \in TimerObject
    BY DEF TimerObject
  <2> QED
    BY <1>2, <2>1, <2>2, StepsTyped
    DEF Callback, ExpireLock, ExpireLocked, ExpireNothing, NoTimer
<1>3. CASE CheckWaitQueueTimeouts
  BY <1>3 DEF CheckWaitQueueTimeouts
<1> QED
  BY <1>1, <1>2, <1>3

(* The steps of the process and of the clock. *)
LEMMA ProcessStepTyped ==
  ASSUME TypeOK, Crash \/ Start \/ Tick
  PROVE  TypeOK'
<1> USE DEF TypeOK, disk, memory, control, history
<1>1. CASE Crash
  <2>1. step # Idle => step.lock \in Locks
    BY StepFields DEF StepType
  <2>2. timer' \in [TimerIds -> TimerObject]
    BY <1>1 DEF Crash, TimerObject
  <2>3. torn' \subseteq Locks
    BY <1>1, <2>1 DEF Crash
  <2>4. step' \in StepType /\ job' \in JobType
    BY <1>1, StepsTyped, JobsTyped DEF Crash
  <2>5. timers' \in [Locks -> TimerIds \cup {NoTimer}]
    BY <1>1 DEF Crash
  <2>6. accelerated' \in [Locks -> Nat] /\ crashes' \in Nat
    BY <1>1 DEF Crash
  <2>7. up' \in BOOLEAN
    BY <1>1, Zenon DEF Crash
  <2> QED
    BY <1>1, <2>2, <2>3, <2>4, <2>5, <2>6, <2>7 DEF Crash
<1>2. CASE Start
  <2>1. {r.lock : r \in leases} \subseteq Locks
    BY DEF LeaseRow
  <2> QED
    BY <1>2, <2>1, JobsTyped DEF Start
<1>3. CASE Tick
  <2>1. leases' \subseteq LeaseRow
    BY <1>3, DecTyped DEF Tick, LeaseRow
  <2>2. waitQueue' \subseteq WaitRow
    BY <1>3, DecTyped DEF Tick, WaitRow
  <2>3. timer' \in [TimerIds -> TimerObject]
    BY <1>3, DecTyped DEF Tick, TimerObject, IdleTimer
  <2> QED
    BY <1>3, <2>1, <2>2, <2>3 DEF Tick
<1> QED
  BY <1>1, <1>2, <1>3

(* One case per group of actions: no step leaves the types. *)
LEMMA TypeStep == TypeOK /\ [Next]_vars => TypeOK'
<1> SUFFICES ASSUME TypeOK, [Next]_vars PROVE TypeOK'
  OBVIOUS
<1>1. CASE Next
  BY <1>1, RequestTyped, BatchTyped, CooldownTyped, QueueStepTyped,
     LoopStepTyped, TimerStepTyped, ProcessStepTyped DEF Next, MethodStep
<1>2. CASE UNCHANGED vars
  BY <1>2 DEF vars, disk, memory, control, history, TypeOK
<1> QED
  BY <1>1, <1>2

(* Every variable keeps its type in every behaviour: requests, callbacks,  *)
(* crashes and restarts write only well-formed rows, timers and control.   *)
THEOREM TypeCorrect == Spec => []TypeOK
<1> QED
  BY TypeInit, TypeStep, PTL DEF Spec

-----------------------------------------------------------------------------
(* Leases belong to holders.  By itself LeaseBelongsToHolder is not        *)
(* inductive: a method that writes the locks table first and the lease     *)
(* later (or the other way round) must be known to find no lease, a free   *)
(* lock or its own holder at each of its writes, and a batch must still    *)
(* find free what it found free when it began.                             *)
HoldersLease == \A r \in leases : lock[r.lock].holder = r.holder
OneLease == \A r, s \in leases : r.lock = s.lock => r = s
Unleased(l) == \A r \in leases : r.lock # l
WriterUnleased ==
  step.op \in {"free", "next", "hold", "lease"} => Unleased(step.lock)
GranteeFindsFree == step.op \in {"next", "hold"} => ~Held(step.lock)
LesseeHolds == step.op = "lease" => lock[step.lock].holder = step.holder
BatchFindsFree ==
  job.kind = "batch" => /\ step.op \in {"idle", "lease"}
                        /\ \A l \in job.todo : ~Held(l)

LeaseInv ==
  /\ HoldersLease /\ OneLease
  /\ WriterUnleased /\ GranteeFindsFree /\ LesseeHolds
  /\ BatchFindsFree

(* The strengthened invariant says what we want of the leases. *)
LEMMA LeaseInvImplies == LeaseInv => LeaseBelongsToHolder
  BY DEF LeaseInv, HoldersLease, OneLease, LeaseBelongsToHolder, Lease

(* A lock that is not held has no lease. *)
LEMMA FreeIsUnleased ==
  ASSUME TypeOK, LeaseInv, NEW l \in Locks, ~Held(l)
  PROVE  Unleased(l)
  BY HoldersAssumption
  DEF TypeOK, LeaseRow, LeaseInv, HoldersLease, Held, Unleased

(* The first write of a release or an expiry. *)
LEMMA EndOfLease ==
  ASSUME LeaseInv, NEW l \in Locks, leases' = leases \ Lease(l),
         lock' = lock, step' = [op |-> "free", lock |-> l],
         job'.kind # "batch"
  PROVE  LeaseInv'
  BY DEF LeaseInv, HoldersLease, OneLease, Unleased, WriterUnleased,
         GranteeFindsFree, LesseeHolds, BatchFindsFree, Lease

(* A lease that gets another expires_at keeps its lock and its holder. *)
LEMMA LeaseMoved ==
  ASSUME TypeOK, LeaseInv, NEW r \in leases, NEW left,
         leases' = (leases \ {r}) \cup {[r EXCEPT !.left = left]},
         step = Idle, job = NoJob, UNCHANGED <<lock, step, job>>
  PROVE  LeaseInv'
<1> DEFINE moved == [r EXCEPT !.left = left]
<1>1. moved.lock = r.lock /\ moved.holder = r.holder
  BY DEF TypeOK, LeaseRow
<1>2. leases' = (leases \ {r}) \cup {moved}
  OBVIOUS
<1> HIDE DEF moved
<1>3. HoldersLease' /\ OneLease'
  BY <1>1, <1>2 DEF LeaseInv, HoldersLease, OneLease
<1>4. step' = Idle /\ job' = NoJob
  OBVIOUS
<1> QED
  BY <1>3, <1>4 DEF LeaseInv, WriterUnleased, GranteeFindsFree, LesseeHolds,
                    BatchFindsFree, Idle, NoJob

(* A step that leaves the tables locks and leases, the pending write and   *)
(* the loop alone.                                                         *)
LEMMA LeaseStutter ==
  ASSUME LeaseInv, UNCHANGED <<lock, leases, step, job>>
  PROVE  LeaseInv'
  BY DEF LeaseInv, HoldersLease, OneLease, Unleased, WriterUnleased,
         GranteeFindsFree, LesseeHolds, BatchFindsFree, Held

(* With no lease there is nothing to relate. *)
LEMMA LeaseInit == Init => LeaseInv
  BY DEF Init, LeaseInv, HoldersLease, OneLease, WriterUnleased,
         GranteeFindsFree, LesseeHolds, BatchFindsFree, Idle, NoJob

(* The calls that enter a method, or are one step. *)
LEMMA LeaseRequest ==
  ASSUME TypeOK, LeaseInv, Request \/ BatchRequest \/ CooldownRequest
  PROVE  LeaseInv'
<1> USE DEF memory, control, history
<1>1. ASSUME NEW l \in Locks, NEW h \in Holders, NEW sec \in LeaseSecs,
             NEW reentrant \in Flags, AcquireFree(l, h, sec, reentrant)
      PROVE  LeaseInv'
  <2>1. Unleased(l)
    BY <1>1, FreeIsUnleased DEF AcquireFree
  <2>2. /\ lock' = [lock EXCEPT ![l] =
                      [holder |-> h, reentrant |-> reentrant, count |-> 1]]
        /\ step' = [op |-> "lease", lock |-> l, holder |-> h,
                    sec |-> Capped(l, sec)]
        /\ leases' = leases /\ job' = NoJob
    BY <1>1 DEF AcquireFree, MutexFree, Hold
  <2>3. lock'[l].holder = h /\ \A r \in leases : lock'[r.lock] = lock[r.lock]
    BY <2>1, <2>2 DEF TypeOK, Unleased
  <2> QED
    BY <2>1, <2>2, <2>3
    DEF LeaseInv, HoldersLease, OneLease, Unleased, WriterUnleased,
        GranteeFindsFree, LesseeHolds, BatchFindsFree, NoJob
<1>2. ASSUME NEW l \in Locks, NEW h \in Holders, NEW sec \in LeaseSecs,
             NEW reentrant \in Flags, Enqueue(l, h, sec, reentrant)
      PROVE  LeaseInv'
  <2>1. /\ step'.op \in {"reorder", "idle"} /\ job'.kind = "none"
        /\ UNCHANGED <<lock, leases>>
    BY <1>2 DEF Enqueue, MutexFree, Idle, NoJob
  <2> QED
    BY <2>1 DEF LeaseInv, HoldersLease, OneLease, WriterUnleased,
                GranteeFindsFree, LesseeHolds, BatchFindsFree
<1>3. ASSUME NEW l \in Locks, NEW h \in Holders,
             AcquireAgain(l, h) \/ ReleaseOnce(l, h)
      PROVE  LeaseInv'
  <2>1. \A k \in Locks : lock'[k].holder = lock[k].holder
    BY <1>3 DEF AcquireAgain, ReleaseOnce, TypeOK, Row
  <2>2. step' = Idle /\ job' = NoJob /\ leases' = leases
    BY <1>3 DEF AcquireAgain, ReleaseOnce, MutexFree
  <2> QED
    BY <2>1, <2>2
    DEF LeaseInv, HoldersLease, OneLease, WriterUnleased, GranteeFindsFree,
        LesseeHolds, BatchFindsFree, TypeOK, LeaseRow, Idle, NoJob
<1>4. ASSUME NEW l \in Locks, NEW h \in Holders, Release(l, h)
      PROVE  LeaseInv'
  BY <1>4, EndOfLease DEF Release, ReleaseLocked, MutexFree, NoJob
<1>5. ASSUME NEW l \in Locks, NEW h \in Holders, NEW add \in LeaseSecs,
             RenewLease(l, h, add)
      PROVE  LeaseInv'
  BY <1>5, LeaseMoved DEF RenewLease, MutexFree, Lease
<1>6. ASSUME NEW l \in Locks, NEW sec \in CooldownSecs, ShortenLease(l, sec)
      PROVE  LeaseInv'
  BY <1>6, LeaseMoved DEF ShortenLease, MutexFree, Lease
<1>7. ASSUME NEW h \in Holders, CancelWaitForHolder(h)
      PROVE  LeaseInv'
  BY <1>7, LeaseStutter DEF CancelWaitForHolder
<1>8. ASSUME NEW l \in Locks, NEW sec \in CooldownSecs \cup {0},
             SetAcceleratedGrant(l, sec)
      PROVE  LeaseInv'
  BY <1>8, LeaseStutter DEF SetAcceleratedGrant, disk
<1>9. ASSUME NEW h \in Holders, NEW names \in SUBSET Locks,
             NEW sec \in LeaseSecs, NEW reentrant \in Flags,
             BatchStart(h, names, sec, reentrant)
      PROVE  LeaseInv'
  <2>1. /\ step' = Idle /\ UNCHANGED <<lock, leases>>
        /\ job'.todo = names /\ \A l \in names : ~Held(l)
    BY <1>9 DEF BatchStart, MutexFree, disk
  <2> QED
    BY <2>1 DEF LeaseInv, HoldersLease, OneLease, WriterUnleased,
                GranteeFindsFree, LesseeHolds, BatchFindsFree, Idle, Held
<1> QED
  BY <1>1, <1>2, <1>3, <1>4, <1>5, <1>6, <1>7, <1>8, <1>9
  DEF Request, BatchRequest, CooldownRequest

(* The writes of a method under way. *)
LEMMA LeaseMethodStep ==
  ASSUME TypeOK, LeaseInv, MethodStep
  PROVE  LeaseInv'
<1> USE DEF memory, control, history
<1>1. CASE ReorderDelete \/ ReorderInsert
  <2>1. /\ step.op \in {"reorder", "requeue"}
        /\ step'.op \in {"requeue", "idle"}
        /\ UNCHANGED <<lock, leases, job>>
    BY <1>1 DEF ReorderDelete, ReorderInsert, Idle
  <2> QED
    BY <2>1 DEF LeaseInv, HoldersLease, OneLease, WriterUnleased,
                GranteeFindsFree, LesseeHolds, BatchFindsFree
<1>2. CASE CreateLease
  <2> DEFINE new == [lock |-> step.lock, holder |-> step.holder,
                     left |-> step.sec]
  <2>1. /\ new.lock = step.lock /\ new.holder = lock[step.lock].holder
        /\ Unleased(step.lock)
    BY <1>2 DEF CreateLease, LeaseInv, LesseeHolds, WriterUnleased
  <2>2. /\ leases' = leases \cup {new}
        /\ step' = Idle /\ UNCHANGED <<lock, job>>
    BY <1>2 DEF CreateLease
  <2> HIDE DEF new
  <2>3. HoldersLease' /\ OneLease'
    BY <2>1, <2>2 DEF LeaseInv, HoldersLease, OneLease, Unleased
  <2> QED
    BY <2>2, <2>3 DEF LeaseInv, WriterUnleased, GranteeFindsFree, LesseeHolds,
                      BatchFindsFree, Idle, Held
<1>3. CASE FreeLock
  <2>1. /\ step.op = "free" /\ step.lock \in Locks
        /\ lock' = [lock EXCEPT ![step.lock] = FreeRow]
        /\ step' = [op |-> "next", lock |-> step.lock]
        /\ UNCHANGED <<leases, job>>
    BY <1>3, StepFields DEF FreeLock, TypeOK
  <2>2. Unleased(step.lock) /\ job.kind # "batch"
    BY <2>1 DEF LeaseInv, WriterUnleased, BatchFindsFree
  <2>3. \A r \in leases : lock'[r.lock] = lock[r.lock]
    BY <2>1, <2>2 DEF Unleased, TypeOK
  <2>4. lock'[step.lock].holder = NoHolder
    BY <2>1 DEF TypeOK, FreeRow
  <2> QED
    BY <2>1, <2>2, <2>3, <2>4
    DEF LeaseInv, HoldersLease, OneLease, Unleased, WriterUnleased,
        GranteeFindsFree, LesseeHolds, BatchFindsFree, Held
<1>4. CASE GrantNobody
  BY <1>4 DEF GrantNobody, disk, Idle, LeaseInv, HoldersLease, OneLease,
              WriterUnleased, GranteeFindsFree, LesseeHolds, BatchFindsFree, Held
<1>5. CASE SkipWaiter
  BY <1>5, LeaseStutter DEF SkipWaiter
<1>6. CASE TakeWaiter
  <2>1. /\ step.op = "next"
        /\ step'.op = "hold" /\ step'.lock = step.lock
        /\ UNCHANGED <<lock, leases, job>>
    BY <1>6 DEF TakeWaiter
  <2> QED
    BY <2>1 DEF LeaseInv, HoldersLease, OneLease, Unleased, WriterUnleased,
                GranteeFindsFree, LesseeHolds, BatchFindsFree, Held
<1>7. CASE HoldForWaiter
  <2>1. /\ step.op = "hold" /\ step.lock \in Locks
        /\ lock' = [lock EXCEPT ![step.lock] =
                      [holder |-> step.holder, reentrant |-> step.reentrant,
                       count |-> 1]]
        /\ step'.op = "lease" /\ step'.lock = step.lock
        /\ step'.holder = step.holder
        /\ UNCHANGED <<leases, job>>
    BY <1>7, StepFields DEF HoldForWaiter, Hold, TypeOK
  <2>2. Unleased(step.lock) /\ job.kind # "batch"
    BY <2>1 DEF LeaseInv, WriterUnleased, BatchFindsFree
  <2>3. /\ lock'[step.lock].holder = step.holder
        /\ \A r \in leases : lock'[r.lock] = lock[r.lock]
    BY <2>1, <2>2 DEF Unleased, TypeOK
  <2> QED
    BY <2>1, <2>2, <2>3
    DEF LeaseInv, HoldersLease, OneLease, Unleased, WriterUnleased,
        GranteeFindsFree, LesseeHolds, BatchFindsFree
<1>8. CASE BatchRefused \/ FinishJob
  <2>1. step' = Idle /\ UNCHANGED <<lock, leases>>
        /\ job'.kind \in {"rollback", "none"}
    BY <1>8 DEF BatchRefused, FinishJob, disk, NoJob
  <2> QED
    BY <2>1 DEF LeaseInv, HoldersLease, OneLease, WriterUnleased,
                GranteeFindsFree, LesseeHolds, BatchFindsFree, Idle
<1>9. ASSUME NEW l \in Locks, BatchNext(l)
      PROVE  LeaseInv'
  <2>1. /\ job.kind = "batch" /\ job # NoJob /\ l \in job.todo
        /\ lock' = [lock EXCEPT ![l] =
                      [holder |-> job.holder, reentrant |-> job.reentrant,
                       count |-> 1]]
        /\ step' = [op |-> "lease", lock |-> l, holder |-> job.holder,
                    sec |-> job.sec]
        /\ leases' = leases
    BY <1>9 DEF BatchNext, Hold, NoJob
  <2>2. \A k \in job.todo : ~Held(k)
    BY <2>1 DEF LeaseInv, BatchFindsFree
  <2>3. Unleased(l)
    BY <2>1, <2>2, FreeIsUnleased
  <2>4. job'.todo = job.todo \ {l} /\ job.todo \subseteq Locks
    BY <1>9, <2>1, JobFields DEF BatchNext, TypeOK, JobType, NoJob
  <2>5. /\ lock'[l].holder = job.holder
        /\ \A r \in leases : lock'[r.lock] = lock[r.lock]
        /\ \A k \in job.todo \ {l} : lock'[k] = lock[k]
    BY <2>1, <2>3, <2>4 DEF Unleased, TypeOK
  <2>6. HoldersLease' /\ OneLease' /\ Unleased(l)'
    BY <2>1, <2>3, <2>5 DEF LeaseInv, HoldersLease, OneLease, Unleased
  <2>7. BatchFindsFree'
    BY <2>1, <2>2, <2>4, <2>5 DEF BatchFindsFree, Held
  <2> QED
    BY <2>1, <2>5, <2>6, <2>7
    DEF LeaseInv, WriterUnleased, GranteeFindsFree, LesseeHolds
<1>10. ASSUME NEW l \in Locks, RollbackNext(l)
       PROVE  LeaseInv'
  <2>1. job'.kind = "rollback"
    BY <1>10 DEF RollbackNext, TypeOK, JobType, NoJob
  <2> QED
    BY <1>10, <2>1, EndOfLease DEF RollbackNext, ReleaseLocked
<1>11. ASSUME NEW l \in Locks, StartExpire(l)
       PROVE  LeaseInv'
  <2>1. job'.kind = "start"
    BY <1>11 DEF StartExpire, TypeOK, JobType, NoJob
  <2> QED
    BY <1>11, <2>1, EndOfLease DEF StartExpire, ExpireLocked
<1>12. ASSUME NEW l \in Locks, StartArm(l)
       PROVE  LeaseInv'
  <2>1. /\ job'.kind = "start" /\ step' = Idle /\ UNCHANGED <<lock, leases>>
    BY <1>12 DEF StartArm, disk, TypeOK, JobType, NoJob
  <2> QED
    BY <2>1 DEF LeaseInv, HoldersLease, OneLease, WriterUnleased,
                GranteeFindsFree, LesseeHolds, BatchFindsFree, Idle
<1> QED
  BY <1>1, <1>2, <1>3, <1>4, <1>5, <1>6, <1>7, <1>8, <1>9, <1>10, <1>11, <1>12
  DEF MethodStep

(* Timers, sweep, crash, restart and clock. *)
LEMMA LeaseOtherStep ==
  ASSUME TypeOK, LeaseInv,
         \/ \E t \in TimerIds : FireTimer(t) \/ Callback(t)
         \/ CheckWaitQueueTimeouts
         \/ Crash \/ Start \/ Tick
  PROVE  LeaseInv'
<1> USE DEF memory, control, history
<1>1. ASSUME NEW t \in TimerIds, FireTimer(t) \/ ExpireNothing(t)
      PROVE  LeaseInv'
  BY <1>1, LeaseStutter DEF FireTimer, ExpireNothing, disk
<1>2. ASSUME NEW t \in TimerIds, ExpireLock(t)
      PROVE  LeaseInv'
  <2>1. timer[t].lock \in Locks
    BY <1>2 DEF ExpireLock, TypeOK, TimerObject, IdleTimer
  <2> QED
    BY <1>2, <2>1, EndOfLease DEF ExpireLock, ExpireLocked, MutexFree, NoJob
<1>3. CASE CheckWaitQueueTimeouts
  BY <1>3, LeaseStutter DEF CheckWaitQueueTimeouts
<1>4. CASE Crash \/ Start
  <2>1. /\ step' \in {Idle, step}
        /\ UNCHANGED <<lock, leases>> /\ job'.kind # "batch"
    BY <1>4 DEF Crash, Start, disk, NoJob
  <2> QED
    BY <2>1 DEF LeaseInv, HoldersLease, OneLease, Unleased, WriterUnleased,
                GranteeFindsFree, LesseeHolds, BatchFindsFree, Idle, Held
<1>5. CASE Tick
  <2> DEFINE later(r) == [r EXCEPT !.left = Dec(@)]
  <2>1. /\ leases' = {later(r) : r \in leases}
        /\ step' = Idle /\ UNCHANGED <<lock, job>>
    BY <1>5 DEF Tick
  <2>2. \A r \in leases : later(r).lock = r.lock /\ later(r).holder = r.holder
    BY DEF TypeOK, LeaseRow
  <2> HIDE DEF later
  <2>3. HoldersLease' /\ OneLease'
    BY <2>1, <2>2 DEF LeaseInv, HoldersLease, OneLease
  <2> QED
    BY <2>1, <2>3 DEF LeaseInv, WriterUnleased, GranteeFindsFree, LesseeHolds,
                      BatchFindsFree, Idle, Held
<1> QED
  BY <1>1, <1>2, <1>3, <1>4, <1>5 DEF Callback

(* Every step keeps the strengthened invariant. *)
LEMMA LeaseStep == TypeOK /\ LeaseInv /\ [Next]_vars => LeaseInv'
<1> SUFFICES ASSUME TypeOK, LeaseInv, [Next]_vars PROVE LeaseInv'
  OBVIOUS
<1>1. CASE Next
  BY <1>1, LeaseRequest, LeaseMethodStep, LeaseOtherStep DEF Next
<1>2. CASE UNCHANGED vars
  BY <1>2, LeaseStutter DEF vars, disk, control
<1> QED
  BY <1>1, <1>2

(* The strengthened invariant holds in every behaviour. *)
THEOREM LeaseInvariant == Spec => []LeaseInv
<1> QED
  BY TypeCorrect, LeaseInit, LeaseStep, PTL DEF Spec

(* Whatever requests, callbacks, cooldowns, batches, crashes and restarts  *)
(* do, an active lease belongs to the caller the locks table names, and a  *)
(* lock has at most one.                                                   *)
THEOREM LeaseCorrect == Spec => []LeaseBelongsToHolder
<1> QED
  BY LeaseInvariant, LeaseInvImplies, PTL

-----------------------------------------------------------------------------
(* Refinement: the lock manager implements the lock service, for any       *)
(* locks, callers, lease lengths and bounds, one crash or many.            *)

Wanted == {<<r.lock, r.holder>> : r \in Places} \cup Chosen

(* The refinement mapping's image of a step in which no lease changes and  *)
(* nobody asks: callers may give up.                                       *)
LEMMA Quiet ==
  ASSUME UNCHANGED leases, Wanted' \subseteq Wanted
  PROVE  Service!Next
<1>1. Wanted' \in SUBSET Wanted
  OBVIOUS
<1> QED
  BY <1>1 DEF Wanted, Service!Next, Service!GiveUp

(* One caller asks. *)
LEMMA Asked ==
  ASSUME NEW l \in Locks, NEW h \in Holders, UNCHANGED leases,
         Wanted' = Wanted \cup {<<l, h>>}
  PROVE  Service!Next
BY DEF Wanted, Service!Next, Service!Ask

(* A lease ends. *)
LEMMA Ended ==
  ASSUME NEW l \in Locks, leases' = leases \ Lease(l), Wanted' = Wanted
  PROVE  Service!Next
<1>1. Service!Granted(l) = Lease(l)
  BY DEF Service!Granted, Lease
<1> QED
  BY <1>1 DEF Wanted, Service!Next, Service!End

(* A lease gets another end. *)
LEMMA Adjusted ==
  ASSUME TypeOK, NEW r \in leases, NEW left \in Left, left > r.left => ~Past(r),
         leases' = (leases \ {r}) \cup {[r EXCEPT !.left = left]}, Wanted' = Wanted
  PROVE  Service!Next
<1> DEFINE n == [r EXCEPT !.left = left]
<1>1. r \in LeaseRow
  BY DEF TypeOK
<1>2. n.left = left /\ n = [r EXCEPT !.left = n.left] /\ n \in leases'
  BY <1>1 DEF LeaseRow
<1>3. n.left > r.left => r.left >= 0
  BY <1>1, <1>2 DEF Past, LeaseRow, Left
<1>4. leases' = (leases \ {r}) \cup {n}
  OBVIOUS
<1> HIDE DEF n
<1> QED
  BY <1>2, <1>3, <1>4 DEF Wanted, Service!Next, Service!Adjust

(* The queue and the pending write as the service sees them. *)
LEMMA WantedIs ==
  /\ Wanted = {<<r.lock, r.holder>> : r \in waitQueue}
              \cup (IF step.op = "requeue" THEN {<<r.lock, r.holder>> : r \in step.rows} ELSE {})
              \cup (IF step.op \in {"hold", "lease"} THEN {<<step.lock, step.holder>>} ELSE {})
  /\ Wanted' = {<<r.lock, r.holder>> : r \in waitQueue'}
              \cup (IF step'.op = "requeue" THEN {<<r.lock, r.holder>> : r \in step'.rows} ELSE {})
              \cup (IF step'.op \in {"hold", "lease"} THEN {<<step'.lock, step'.holder>>} ELSE {})
BY DEF Wanted, Places, Chosen

(* The calls that enter a method, or are one step. *)
LEMMA RequestImplements ==
  ASSUME TypeOK, LeaseInv, Request \/ BatchRequest \/ CooldownRequest
  PROVE  Service!Next \/ UNCHANGED <<leases, Wanted>>
<1> USE DEF MutexFree, Idle
<1>1. ASSUME NEW l \in Locks, NEW h \in Holders, NEW sec, NEW reentrant,
             AcquireFree(l, h, sec, reentrant)
      PROVE  Service!Next
  <2>1. /\ waitQueue' = waitQueue /\ step.op = "idle"
        /\ step'.op = "lease" /\ step'.lock = l /\ step'.holder = h
    BY <1>1 DEF AcquireFree
  <2>2. Wanted' = Wanted \cup {<<l, h>>}
    BY <2>1, WantedIs
  <2> QED
    BY <1>1, <2>2, Asked DEF AcquireFree
<1>2. ASSUME NEW l \in Locks, NEW h \in Holders, NEW sec, NEW reentrant,
             Enqueue(l, h, sec, reentrant)
      PROVE  Service!Next
  <2>1. /\ step.op = "idle" /\ step'.op \in {"idle", "reorder"}
    BY <1>2 DEF Enqueue
  <2>2. PICK k \in Ticket :
          waitQueue' = waitQueue \cup
            {[lock |-> l, holder |-> h, reentrant |-> reentrant, sec |-> sec,
              left |-> WaitTimeoutSec, ticket |-> k]}
    BY <1>2 DEF Enqueue
  <2> DEFINE row == [lock |-> l, holder |-> h, reentrant |-> reentrant, sec |-> sec,
                     left |-> WaitTimeoutSec, ticket |-> k]
  <2>3. waitQueue' = waitQueue \cup {row} /\ row.lock = l /\ row.holder = h
    BY <2>2
  <2> HIDE DEF row
  <2>4. Wanted' = Wanted \cup {<<l, h>>}
    BY <2>1, <2>3, WantedIs
  <2> QED
    BY <1>2, <2>4, Asked DEF Enqueue
<1>3. ASSUME NEW l \in Locks, NEW h \in Holders, AcquireAgain(l, h) \/ ReleaseOnce(l, h)
      PROVE  UNCHANGED <<leases, Wanted>>
  BY <1>3, WantedIs DEF AcquireAgain, ReleaseOnce, control
<1>4. ASSUME NEW l \in Locks, NEW h \in Holders, Release(l, h)
      PROVE  Service!Next
  <2>1. Wanted' = Wanted
    BY <1>4, WantedIs DEF Release, ReleaseLocked
  <2> QED
    BY <1>4, <2>1, Ended DEF Release, ReleaseLocked
<1>5. ASSUME NEW l \in Locks, NEW h \in Holders, NEW add \in LeaseSecs, RenewLease(l, h, add)
      PROVE  Service!Next
  <2>1. Wanted' = Wanted
    BY <1>5, WantedIs DEF RenewLease, control
  <2>2. PICK r \in Lease(l) : ~Past(r) /\
          leases' = (leases \ {r}) \cup {[r EXCEPT !.left = NewExpiry(l, r.left, add)]}
    BY <1>5 DEF RenewLease
  <2>3. r \in leases /\ r.left \in Left
    BY DEF Lease, TypeOK, LeaseRow
  <2>4. ~(r.left < 0) /\ add \in Nat /\ accelerated \in [Locks -> Nat]
    BY <2>2, RequestConstants DEF Past, TypeOK
  <2>5. NewExpiry(l, r.left, add) \in Left
    BY <2>3, <2>4, NewExpiryTyped, RequestConstants
  <2> QED
    BY <2>1, <2>2, <2>3, <2>5, Adjusted
<1>6. ASSUME NEW h \in Holders, CancelWaitForHolder(h)
      PROVE  Service!Next
  BY <1>6, WantedIs, Quiet DEF CancelWaitForHolder, control
<1>7. CASE BatchRequest
  BY <1>7, WantedIs DEF BatchRequest, BatchStart, disk
<1>8. ASSUME NEW l \in Locks, NEW sec \in CooldownSecs, ShortenLease(l, sec)
      PROVE  Service!Next
  <2>1. Wanted' = Wanted
    BY <1>8, WantedIs DEF ShortenLease, control
  <2>2. PICK r \in Lease(l) :
          leases' = (leases \ {r}) \cup {[r EXCEPT !.left = IF sec > r.left THEN r.left ELSE sec]}
    BY <1>8 DEF ShortenLease
  <2> DEFINE left == IF sec > r.left THEN r.left ELSE sec
  <2>3. r \in leases /\ r.left \in Left /\ sec \in Nat
    BY RequestConstants DEF Lease, TypeOK, LeaseRow
  <2>4. left \in Left /\ ~(left > r.left)
    BY <2>3 DEF Left
  <2> QED
    BY <2>1, <2>2, <2>3, <2>4, Adjusted
<1>9. ASSUME NEW l \in Locks, NEW sec, SetAcceleratedGrant(l, sec)
      PROVE  UNCHANGED <<leases, Wanted>>
  BY <1>9, WantedIs DEF SetAcceleratedGrant, disk, control
<1> QED
  BY <1>1, <1>2, <1>3, <1>4, <1>5, <1>6, <1>7, <1>8, <1>9 DEF Request, CooldownRequest

(* The writes inside a method.  A caller gets its lease in CreateLease,    *)
(* which finds none there (WriterUnleased).                                *)
LEMMA MethodImplements ==
  ASSUME TypeOK, LeaseInv, MethodStep
  PROVE  Service!Next \/ UNCHANGED <<leases, Wanted>>
<1>1. CASE CreateLease
  <2>1. step.op = "lease" /\ step.lock \in Locks /\ step.holder \in Holders /\ step.sec \in Nat
    BY <1>1, StepFields DEF CreateLease, TypeOK
  <2>2. PICK l \in Locks, h \in Holders : l = step.lock /\ h = step.holder
    BY <2>1
  <2> DEFINE new == [lock |-> l, holder |-> h, left |-> step.sec]
             queued == {<<r.lock, r.holder>> : r \in waitQueue}
  <2>3. /\ leases' = leases \cup {new} /\ step'.op = "idle" /\ waitQueue' = waitQueue
        /\ new.lock = l /\ new.holder = h /\ new.left >= 0
    BY <1>1, <2>1, <2>2 DEF CreateLease, Idle
  <2>4. Wanted = queued \cup {<<l, h>>} /\ Wanted' = queued
    BY <2>1, <2>2, <2>3, WantedIs
  <2>5. <<l, h>> \in Wanted /\ Wanted' \in {Wanted, Wanted \ {<<l, h>>}}
    BY <2>4
  <2>6. Service!Granted(l) = {}
    BY <2>1, <2>2 DEF Service!Granted, LeaseInv, WriterUnleased, Unleased
  <2> HIDE DEF new, queued
  <2>7. new \in leases' /\ leases' = leases \cup {new}
    BY <2>3
  <2>8. Service!Grant(l, h)
    BY <2>3, <2>5, <2>6, <2>7 DEF Service!Grant, Wanted
  <2> QED
    BY <2>8 DEF Service!Next
<1>2. CASE ReorderDelete
  <2>1. PICK k \in Ticket :
          step' = [op |-> "requeue", lock |-> step.lock,
                   rows |-> {IF r.holder = step.holder
                             THEN [r EXCEPT !.ticket = k] ELSE r
                             : r \in Waiters(step.lock)}]
    BY <1>2 DEF ReorderDelete
  <2>2. \A r \in waitQueue : LET m == IF r.holder = step.holder
                                      THEN [r EXCEPT !.ticket = k] ELSE r
                             IN  m.lock = r.lock /\ m.holder = r.holder
    BY DEF TypeOK, WaitRow
  <2>3. {<<r.lock, r.holder>> : r \in step'.rows}
          \subseteq {<<r.lock, r.holder>> : r \in waitQueue}
    <3>1. ASSUME NEW q \in step'.rows
          PROVE  \E r \in waitQueue : q.lock = r.lock /\ q.holder = r.holder
      BY <2>1, <2>2 DEF Waiters
    <3> QED
      BY <3>1
  <2>4. step.op = "reorder" /\ step'.op = "requeue" /\ waitQueue' \subseteq waitQueue
    BY <1>2, <2>1 DEF ReorderDelete
  <2>5. Wanted' \subseteq Wanted
    BY <2>3, <2>4, WantedIs
  <2> QED
    BY <1>2, <2>5, Quiet DEF ReorderDelete
<1>3. CASE ReorderInsert
  <2>1. /\ step.op = "requeue" /\ step'.op \in {"idle", "requeue"}
        /\ step'.op = "requeue" => step'.rows \subseteq step.rows
        /\ \E r \in step.rows : waitQueue' = waitQueue \cup {r}
    BY <1>3 DEF ReorderInsert, Idle
  <2>2. Wanted' \subseteq Wanted
    BY <2>1, WantedIs
  <2> QED
    BY <1>3, <2>2, Quiet DEF ReorderInsert
<1>4. CASE FreeLock \/ GrantNobody \/ SkipWaiter
  <2>1. /\ step.op \in {"free", "next"} /\ step'.op \in {"next", "idle"}
        /\ waitQueue' \subseteq waitQueue /\ UNCHANGED leases
    BY <1>4 DEF FreeLock, GrantNobody, SkipWaiter, Idle, disk, control
  <2> QED
    BY <2>1, WantedIs, Quiet
<1>5. CASE TakeWaiter
  <2>1. PICK r \in waitQueue :
          /\ r.lock = step.lock /\ waitQueue' = waitQueue \ {r}
          /\ step'.op = "hold" /\ step'.lock = r.lock /\ step'.holder = r.holder
    BY <1>5 DEF TakeWaiter, Head, Waiters
  <2>2. Wanted' \subseteq Wanted
    BY <2>1, WantedIs
  <2> QED
    BY <1>5, <2>2, Quiet DEF TakeWaiter
<1>6. CASE HoldForWaiter
  <2>1. /\ step.op = "hold" /\ step'.op = "lease"
        /\ step'.lock = step.lock /\ step'.holder = step.holder
        /\ UNCHANGED <<leases, waitQueue>>
    BY <1>6 DEF HoldForWaiter
  <2> QED
    BY <2>1, WantedIs, Quiet
<1>7. CASE BatchRefused \/ FinishJob
  BY <1>7, WantedIs DEF BatchRefused, FinishJob, disk
<1>8. ASSUME NEW l \in Locks, BatchNext(l)
      PROVE  Service!Next
  <2>1. job.holder \in Holders /\ step.op = "idle"
    BY <1>8, JobFields DEF BatchNext, TypeOK, Idle
  <2>2. /\ step'.op = "lease" /\ step'.lock = l /\ step'.holder = job.holder
        /\ UNCHANGED <<leases, waitQueue>>
    BY <1>8 DEF BatchNext
  <2>3. Wanted' = Wanted \cup {<<l, job.holder>>}
    BY <2>1, <2>2, WantedIs
  <2> QED
    BY <2>1, <2>2, <2>3, Asked
<1>9. ASSUME NEW l \in Locks, RollbackNext(l) \/ StartExpire(l)
      PROVE  Service!Next
  <2>1. /\ step.op = "idle" /\ step'.op = "free" /\ waitQueue' = waitQueue
        /\ leases' = leases \ Lease(l)
    BY <1>9 DEF RollbackNext, StartExpire, ReleaseLocked, ExpireLocked, Idle
  <2>2. Wanted' = Wanted
    BY <2>1, WantedIs
  <2> QED
    BY <2>1, <2>2, Ended
<1>10. ASSUME NEW l \in Locks, StartArm(l)
       PROVE  UNCHANGED <<leases, Wanted>>
  BY <1>10, WantedIs DEF StartArm, disk
<1> QED
  BY <1>1, <1>2, <1>3, <1>4, <1>5, <1>6, <1>7, <1>8, <1>9, <1>10 DEF MethodStep

(* Timers, sweeps, crashes, restarts and the clock. *)
LEMMA OtherImplements ==
  ASSUME TypeOK, LeaseInv,
         \/ \E t \in TimerIds : FireTimer(t) \/ Callback(t)
         \/ CheckWaitQueueTimeouts \/ Crash \/ Start \/ Tick
  PROVE  Service!Next \/ UNCHANGED <<leases, Wanted>>
<1>1. ASSUME NEW t \in TimerIds, FireTimer(t) \/ ExpireNothing(t)
      PROVE  UNCHANGED <<leases, Wanted>>
  BY <1>1, WantedIs DEF FireTimer, ExpireNothing, disk, control
<1>2. ASSUME NEW t \in TimerIds, ExpireLock(t)
      PROVE  Service!Next
  <2>1. /\ step.op = "idle" /\ step'.op = "free" /\ waitQueue' = waitQueue
        /\ leases' = leases \ Lease(timer[t].lock)
    BY <1>2 DEF ExpireLock, ExpireLocked, MutexFree, Idle
  <2>2. timer[t].lock \in Locks
    BY <1>2 DEF ExpireLock, TypeOK, TimerObject, IdleTimer
  <2>3. Wanted' = Wanted
    BY <2>1, WantedIs
  <2> QED
    BY <2>1, <2>2, <2>3, Ended
<1>3. CASE CheckWaitQueueTimeouts
  <2>1. waitQueue' \subseteq waitQueue /\ step.op = "idle" /\ step' = step
    BY <1>3 DEF CheckWaitQueueTimeouts, MutexFree, Idle, control
  <2> QED
    BY <1>3, <2>1, WantedIs, Quiet DEF CheckWaitQueueTimeouts
<1>4. CASE Crash
  BY <1>4, WantedIs, Quiet DEF Crash, disk, Idle
<1>5. CASE Start
  BY <1>5, WantedIs DEF Start, disk
<1>6. CASE Tick
  <2>1. \A r \in waitQueue : LET m == [r EXCEPT !.left = Dec(@)]
                             IN  m.lock = r.lock /\ m.holder = r.holder
    BY DEF TypeOK, WaitRow
  <2>2. /\ waitQueue' = {[r EXCEPT !.left = Dec(@)] : r \in waitQueue}
        /\ step.op = "idle" /\ step' = step
    BY <1>6 DEF Tick, Idle, control
  <2>3. /\ \A q \in waitQueue' : \E r \in waitQueue : q.lock = r.lock /\ q.holder = r.holder
        /\ \A r \in waitQueue : \E q \in waitQueue' : q.lock = r.lock /\ q.holder = r.holder
    BY <2>1, <2>2
  <2>4. {<<r.lock, r.holder>> : r \in waitQueue'} = {<<r.lock, r.holder>> : r \in waitQueue}
    BY <2>3
  <2>5. Wanted' = Wanted
    BY <2>2, <2>4, WantedIs
  <2>6. leases' = {[g EXCEPT !.left = IF @ < 0 THEN @ ELSE @ - 1] : g \in leases}
    BY <1>6 DEF Tick, Dec
  <2> QED
    BY <2>5, <2>6 DEF Wanted, Service!Next, Service!Elapse
<1> QED
  BY <1>1, <1>2, <1>3, <1>4, <1>5, <1>6 DEF Callback

(* Every step of the lock manager is a step of the lock service, or none. *)
LEMMA StepImplements ==
  TypeOK /\ LeaseInv /\ [Next]_vars => [Service!Next]_<<leases, Wanted>>
<1> SUFFICES ASSUME TypeOK, LeaseInv, [Next]_vars
             PROVE  Service!Next \/ UNCHANGED <<leases, Wanted>>
  OBVIOUS
<1>1. CASE UNCHANGED vars
  BY <1>1, WantedIs DEF vars, disk, control
<1> QED
  BY <1>1, RequestImplements, MethodImplements, OtherImplements DEF Next

(* With empty tables nobody has asked and nobody has been answered. *)
LEMMA InitImplements == Init => Service!Init
  BY WantedIs DEF Init, Service!Init, Wanted, Idle

(* The lock manager, its half-finished methods, its timers, its crashes    *)
(* and its restarts (manager.go) implement the lock service.               *)
THEOREM Implements == Spec => ServiceSpec
<1>1. TypeOK /\ LeaseInv /\ [Next]_vars => [Service!Next]_<<leases, Wanted>>
  BY StepImplements
<1> QED
  BY <1>1, InitImplements, TypeCorrect, LeaseInvariant, PTL
  DEF Spec, ServiceSpec, Service!Spec, Wanted
=============================================================================
