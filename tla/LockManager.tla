---------------------------- MODULE LockManager ----------------------------
(***************************************************************************)
(* The lock manager of internal/lock/manager.go over the tables locks,     *)
(* leases and wait_queue of internal/storage/sqlite.go.                    *)
(*                                                                         *)
(* Every exported method runs under Manager.mu; m.mu is free exactly when  *)
(* MutexFree holds.  Inside a method each storage write is a step of its   *)
(* own (variable "step"), because the process may die between two writes   *)
(* and nothing but the tables survives.  A method that loops over locks    *)
(* (AcquireLocksBatch, its rollback, the startup scan) keeps what is left  *)
(* of the loop in "job".                                                   *)
(*                                                                         *)
(* A time.Time is kept as the seconds left until it, -1 standing for any   *)
(* moment in the past: x.Before(now) is left < 0.  A method reads the      *)
(* clock once, so the clock moves only between the steps of a method.      *)
(*                                                                         *)
(* A definition whose comment begins "Faulty:" is no part of the model: it *)
(* is a slip one could make in the definition after it, kept to see that   *)
(* a property notices.                                                     *)
(***************************************************************************)
EXTENDS Integers, FiniteSets

CONSTANTS
  Locks,            \* lock names
  Holders,          \* callers
  NoHolder,         \* the empty holder of a lock that is not held
  Gold,             \* callers ShouldPrioritizeInQueue says yes to
  Flags,            \* reentrant flags a request may carry
  LeaseSecs,        \* lease_sec values a request may carry (positive)
  CooldownSecs,     \* cooldown lease lengths (positive)
  WaitTimeoutSec,   \* how long a caller stays queued
  MaxLeft,          \* bound: no renewal goes past it
  MaxCount,         \* bound on re-entries
  MaxTicket,        \* bound on wait_queue ids
  MaxTimers,        \* bound on time.Timer objects alive at once, see FireTimer
  MaxCrashes        \* bound on crashes

ASSUME HoldersAssumption == NoHolder \notin Holders /\ Gold \subseteq Holders
ASSUME RequestsAssumption ==
  /\ Flags \subseteq BOOLEAN
  /\ LeaseSecs \subseteq Nat \ {0}
  /\ CooldownSecs \subseteq Nat \ {0}
  /\ WaitTimeoutSec \in Nat \ {0}
ASSUME BoundsAssumption ==
  /\ MaxLeft \in Nat /\ MaxCount \in Nat /\ MaxTicket \in Nat
  /\ MaxTimers \in Nat /\ MaxCrashes \in Nat

VARIABLES
  lock,         \* table locks: holder, reentrant, count of every name
  leases,       \* the active rows of table leases
  waitQueue,    \* the rows of table wait_queue; a row's ticket is its id
  timer,        \* the time.Timer objects: idle, armed, or fired (callback waits for mu)
  timers,       \* Manager.timers: the timer object a lock maps to
  accelerated,  \* Manager.acceleratedGrants, 0 when a lock has no entry
  up,           \* the process runs
  step,         \* the write the method under mu does next
  job,          \* what the loop of that method still has to do
  torn,         \* history: locks whose method was cut short by a crash
  crashes       \* history: crashes so far

disk == <<lock, leases, waitQueue>>
memory == <<timer, timers, accelerated>>
control == <<up, step, job>>
history == <<torn, crashes>>
vars == <<disk, memory, control, history>>

TimerIds == 1..MaxTimers
NoTimer == 0
Ticket == (-MaxTicket)..MaxTicket
Left == {x \in Int : x >= -1}

FreeRow == [holder |-> NoHolder, reentrant |-> FALSE, count |-> 0]
IdleTimer == [state |-> "idle"]
Idle == [op |-> "idle"]
NoJob == [kind |-> "none"]

-----------------------------------------------------------------------------
(* Reading the tables *)

Held(l) == lock[l].holder # NoHolder
Lease(l) == {r \in leases : r.lock = l}
Waiters(l) == {r \in waitQueue : r.lock = l}
Waits(l, h) == \E r \in Waiters(l) : r.holder = h
Past(r) == r.left < 0
(* Faulty: the newest row first *)
HeadNewest(l, r) == r \in Waiters(l) /\ \A s \in Waiters(l) : r.ticket >= s.ticket

Head(l, r) == r \in Waiters(l) /\ \A s \in Waiters(l) : r.ticket <= s.ticket

MutexFree == up /\ step = Idle /\ job = NoJob

(* The wait-for graph of buildWaitGraphLocked, drawn from queue rows. *)
WaitEdges(rows) ==
  {e \in Holders \X Holders :
     e[1] # e[2] /\ \E r \in rows : r.holder = e[1] /\ lock[r.lock].holder = e[2]}

(* What the search of detectCycle gets to from h, by one edge or more: the *)
(* least set that holds every successor of h and of its own members.       *)
ClosedFrom(h, edges, S) == \A e \in edges : e[1] = h \/ e[1] \in S => e[2] \in S
Reach(h, edges) ==
  {n \in Holders : \A S \in SUBSET Holders : ClosedFrom(h, edges, S) => n \in S}

(* Faulty: sees a deadlock of two only *)
DeadlockOfTwo(w, h) == <<h, w>> \in WaitEdges(waitQueue)

(* The search runs with the edge the new request would add, and a cycle    *)
(* anywhere in what the requester reaches counts.                          *)
DeadlockDetected(w, h) ==
  LET edges == WaitEdges(waitQueue) \cup {<<w, h>>}
  IN  \E n \in {w} \cup Reach(w, edges) : n \in Reach(n, edges)

(* The cap a cooldown puts on a lease granted while it lasts *)
Capped(l, sec) ==
  IF accelerated[l] > 0 /\ sec > accelerated[l] THEN accelerated[l] ELSE sec

-----------------------------------------------------------------------------
(* Timers: Stop does not take back a callback that already started *)

AfterStop(l) ==
  IF timers[l] # NoTimer /\ timer[timers[l]].state = "armed"
  THEN [timer EXCEPT ![timers[l]] = IdleTimer]
  ELSE timer

SetLeaseTimer(l, left) ==
  \E t \in TimerIds :
    /\ AfterStop(l)[t].state = "idle"
    /\ \A u \in TimerIds : AfterStop(l)[u].state = "idle" => t <= u
    /\ timer' = [AfterStop(l) EXCEPT
                   ![t] = [state |-> "armed", lock |-> l, left |-> left]]
    /\ timers' = [timers EXCEPT ![l] = t]

StopLeaseTimer(l) ==
  /\ timer' = AfterStop(l)
  /\ timers' = [timers EXCEPT ![l] = NoTimer]

-----------------------------------------------------------------------------
Init ==
  /\ lock = [l \in Locks |-> FreeRow]
  /\ leases = {}
  /\ waitQueue = {}
  /\ timer = [t \in TimerIds |-> IdleTimer]
  /\ timers = [l \in Locks |-> NoTimer]
  /\ accelerated = [l \in Locks |-> 0]
  /\ up = TRUE
  /\ step = Idle
  /\ job = NoJob
  /\ torn = {}
  /\ crashes = 0

-----------------------------------------------------------------------------
(* AcquireLock.  A request the budget, the bronze limit or the deadlock    *)
(* check turns down, and a second non-reentrant acquire, change nothing.   *)

Hold(l, h, reentrant) ==
  lock' = [lock EXCEPT ![l] = [holder |-> h, reentrant |-> reentrant, count |-> 1]]

AcquireFree(l, h, sec, reentrant) ==
  /\ MutexFree
  /\ ~Held(l)
  /\ Hold(l, h, reentrant)
  /\ step' = [op |-> "lease", lock |-> l, holder |-> h, sec |-> Capped(l, sec)]
  /\ UNCHANGED <<leases, waitQueue, memory, up, job, history>>

AcquireAgain(l, h) ==
  /\ MutexFree
  /\ lock[l].holder = h
  /\ lock[l].reentrant
  /\ lock[l].count < MaxCount
  /\ lock' = [lock EXCEPT ![l].count = @ + 1]
  /\ UNCHANGED <<leases, waitQueue, memory, control, history>>

(* The id of a new row: behind every row of the lock *)
Behind(l, k) ==
  /\ \A r \in Waiters(l) : r.ticket < k
  /\ IF Waiters(l) = {} THEN k = 1 ELSE \E r \in Waiters(l) : r.ticket = k - 1

Enqueue(l, h, sec, reentrant) ==
  /\ MutexFree
  /\ Held(l)
  /\ lock[l].holder # h
  /\ ~DeadlockDetected(h, lock[l].holder)
  /\ ~Waits(l, h)
  /\ \E k \in Ticket :
       /\ Behind(l, k)
       /\ waitQueue' = waitQueue \cup
            {[lock |-> l, holder |-> h, reentrant |-> reentrant, sec |-> sec,
              left |-> WaitTimeoutSec, ticket |-> k]}
  /\ step' = IF h \in Gold /\ Waiters(l) # {}
             THEN [op |-> "reorder", lock |-> l, holder |-> h]
             ELSE Idle
  /\ UNCHANGED <<lock, leases, memory, up, job, history>>

(* ReorderWaitQueueForGold deletes the rows of the lock, then inserts the  *)
(* gold caller's and the others again, one INSERT each.                    *)
ReorderDelete ==
  /\ step.op = "reorder"
  /\ \E k \in Ticket :
       /\ \A r \in Waiters(step.lock) : k < r.ticket
       /\ \E r \in Waiters(step.lock) : k = r.ticket - 1
       /\ step' = [op |-> "requeue", lock |-> step.lock,
                   rows |-> {IF r.holder = step.holder
                             THEN [r EXCEPT !.ticket = k] ELSE r
                             : r \in Waiters(step.lock)}]
  /\ waitQueue' = waitQueue \ Waiters(step.lock)
  /\ UNCHANGED <<lock, leases, memory, up, job, history>>

ReorderInsert ==
  /\ step.op = "requeue"
  /\ \E r \in step.rows :
       /\ \A s \in step.rows : r.ticket <= s.ticket
       /\ waitQueue' = waitQueue \cup {r}
       /\ step' = IF step.rows = {r} THEN Idle
                  ELSE [op |-> "requeue", lock |-> step.lock,
                        rows |-> step.rows \ {r}]
  /\ UNCHANGED <<lock, leases, memory, up, job, history>>

CreateLease ==
  /\ step.op = "lease"
  /\ leases' = leases \cup
       {[lock |-> step.lock, holder |-> step.holder, left |-> step.sec]}
  /\ SetLeaseTimer(step.lock, step.sec)
  /\ step' = Idle
  /\ UNCHANGED <<lock, waitQueue, accelerated, up, job, history>>

-----------------------------------------------------------------------------
(* ReleaseLock, then tryGrantNextLocked *)

(* Faulty: counts down without looking *)
ReleaseUncounted(l, h) ==
  /\ MutexFree
  /\ lock[l].holder = h
  /\ lock' = [lock EXCEPT ![l].count = @ - 1]
  /\ UNCHANGED <<leases, waitQueue, memory, control, history>>

ReleaseOnce(l, h) ==
  /\ MutexFree
  /\ lock[l].holder = h
  /\ lock[l].reentrant /\ lock[l].count > 1
  /\ lock' = [lock EXCEPT ![l].count = @ - 1]
  /\ UNCHANGED <<leases, waitQueue, memory, control, history>>

(* Faulty: leaves the lease active *)
ReleaseKeepingLease(l, h) ==
  /\ lock[l].holder = h
  /\ ~(lock[l].reentrant /\ lock[l].count > 1)
  /\ StopLeaseTimer(l)
  /\ step' = [op |-> "free", lock |-> l]
  /\ UNCHANGED <<lock, leases, waitQueue, accelerated, up, history>>

ReleaseLocked(l, h) ==
  /\ lock[l].holder = h
  /\ ~(lock[l].reentrant /\ lock[l].count > 1)
  /\ StopLeaseTimer(l)
  /\ leases' = leases \ Lease(l)
  /\ step' = [op |-> "free", lock |-> l]
  /\ UNCHANGED <<lock, waitQueue, accelerated, up, history>>

Release(l, h) == MutexFree /\ ReleaseLocked(l, h) /\ UNCHANGED job

FreeLock ==
  /\ step.op = "free"
  /\ lock' = [lock EXCEPT ![step.lock] = FreeRow]
  /\ step' = [op |-> "next", lock |-> step.lock]
  /\ UNCHANGED <<leases, waitQueue, memory, up, job, history>>

(* The queue is empty: the lock stays free *)
GrantNobody ==
  /\ step.op = "next"
  /\ Waiters(step.lock) = {}
  /\ step' = Idle
  /\ UNCHANGED <<disk, memory, up, job, history>>

(* Faulty: drops the head and leaves it at that *)
SkipWaiterAndStop ==
  /\ step.op = "next"
  /\ \E r \in waitQueue : Head(step.lock, r) /\ waitQueue' = waitQueue \ {r}
  /\ step' = Idle
  /\ UNCHANGED <<lock, leases, memory, up, job, history>>

(* The head of the queue has timed out, or its budget is exhausted (the    *)
(* budget manager may say so of anyone): it is dropped and the next tried. *)
SkipWaiter ==
  /\ step.op = "next"
  /\ \E r \in waitQueue :
       /\ Head(step.lock, r)
       /\ waitQueue' = waitQueue \ {r}
  /\ UNCHANGED <<lock, leases, memory, control, history>>

TakeWaiter ==
  /\ step.op = "next"
  /\ \E r \in waitQueue :
       /\ Head(step.lock, r)
       /\ ~Past(r)
       /\ waitQueue' = waitQueue \ {r}
       /\ step' = [op |-> "hold", lock |-> step.lock, holder |-> r.holder,
                   reentrant |-> r.reentrant, sec |-> r.sec]
  /\ UNCHANGED <<lock, leases, memory, up, job, history>>

HoldForWaiter ==
  /\ step.op = "hold"
  /\ Hold(step.lock, step.holder, step.reentrant)
  /\ step' = [op |-> "lease", lock |-> step.lock, holder |-> step.holder,
              sec |-> Capped(step.lock, step.sec)]
  /\ UNCHANGED <<leases, waitQueue, memory, up, job, history>>

-----------------------------------------------------------------------------
(* RenewLease, ShortenLease, SetAcceleratedGrant *)

NewExpiry(l, left, add) ==
  left + (IF accelerated[l] > 0 /\ left + add > accelerated[l]
          THEN accelerated[l] ELSE add)

(* Faulty: leaves the timer where it was *)
RenewWithoutTimer(l, h, add) ==
  /\ MutexFree
  /\ \E r \in Lease(l) :
       /\ r.holder = h
       /\ ~Past(r)
       /\ NewExpiry(l, r.left, add) <= MaxLeft
       /\ leases' = (leases \ {r}) \cup
                      {[r EXCEPT !.left = NewExpiry(l, r.left, add)]}
  /\ UNCHANGED <<lock, waitQueue, memory, control, history>>

(* Faulty: renews a lease that is over and whose callback is on its way *)
RenewPast(l, h, add) ==
  /\ MutexFree
  /\ \E r \in Lease(l) :
       /\ r.holder = h
       /\ NewExpiry(l, r.left, add) <= MaxLeft
       /\ leases' = (leases \ {r}) \cup
                      {[r EXCEPT !.left = NewExpiry(l, r.left, add)]}
       /\ SetLeaseTimer(l, NewExpiry(l, r.left, add))
  /\ UNCHANGED <<lock, waitQueue, accelerated, control, history>>

RenewLease(l, h, add) ==
  /\ MutexFree
  /\ \E r \in Lease(l) :
       /\ r.holder = h
       /\ ~Past(r)
       /\ NewExpiry(l, r.left, add) <= MaxLeft
       /\ leases' = (leases \ {r}) \cup
                      {[r EXCEPT !.left = NewExpiry(l, r.left, add)]}
       /\ SetLeaseTimer(l, NewExpiry(l, r.left, add))
  /\ UNCHANGED <<lock, waitQueue, accelerated, control, history>>

(* Faulty: leaves the timer where it was *)
ShortenWithoutTimer(l, sec) ==
  /\ MutexFree
  /\ \E r \in Lease(l) :
       leases' = (leases \ {r}) \cup
                   {[r EXCEPT !.left = IF sec > r.left THEN r.left ELSE sec]}
  /\ UNCHANGED <<lock, waitQueue, memory, control, history>>

ShortenLease(l, sec) ==
  /\ MutexFree
  /\ \E r \in Lease(l) :
       LET left == IF sec > r.left THEN r.left ELSE sec IN
       /\ leases' = (leases \ {r}) \cup {[r EXCEPT !.left = left]}
       /\ SetLeaseTimer(l, left)
  /\ UNCHANGED <<lock, waitQueue, accelerated, control, history>>

SetAcceleratedGrant(l, sec) ==
  /\ MutexFree
  /\ accelerated' = [accelerated EXCEPT ![l] = sec]
  /\ UNCHANGED <<disk, timer, timers, control, history>>

-----------------------------------------------------------------------------
(* Lease expiry: the callback of a timer, once it has mu, expires whatever *)
(* its lock holds by then.                                                 *)

(* A timer object that is not just waiting as its lock's current timer *)
Loose(t) ==
  /\ timer[t] # IdleTimer
  /\ timer[t].state = "fired" \/ timers[timer[t].lock] # t

(* Bound: a timer fires only while there are objects left to arm others *)
FireTimer(t) ==
  /\ timer[t].state = "armed"
  /\ timer[t].left <= 0
  /\ Cardinality({u \in TimerIds \ {t} : Loose(u)}) + Cardinality(Locks) < MaxTimers
  /\ timer' = [timer EXCEPT ![t].state = "fired"]
  /\ UNCHANGED <<disk, timers, accelerated, control, history>>

ExpireLocked(l) ==
  /\ timers' = [timers EXCEPT ![l] = NoTimer]
  /\ leases' = leases \ Lease(l)
  /\ step' = [op |-> "free", lock |-> l]
  /\ UNCHANGED <<lock, waitQueue, accelerated, up, history>>

ExpireLock(t) ==
  /\ MutexFree
  /\ timer[t].state = "fired"
  /\ Held(timer[t].lock)
  /\ ExpireLocked(timer[t].lock)
  /\ timer' = [timer EXCEPT ![t] = IdleTimer]
  /\ UNCHANGED job

ExpireNothing(t) ==
  /\ MutexFree
  /\ timer[t].state = "fired"
  /\ ~Held(timer[t].lock)
  /\ timer' = [timer EXCEPT ![t] = IdleTimer]
  /\ UNCHANGED <<disk, timers, accelerated, control, history>>

-----------------------------------------------------------------------------
(* The wait queue's own exits *)

(* Faulty: sweeps only the queues of free locks *)
CheckFreeLocksOnly ==
  /\ MutexFree
  /\ \E r \in waitQueue : Past(r) /\ ~Held(r.lock)
  /\ waitQueue' = {r \in waitQueue : Held(r.lock) \/ ~Past(r)}
  /\ UNCHANGED <<lock, leases, memory, control, history>>

CheckWaitQueueTimeouts ==
  /\ MutexFree
  /\ \E r \in waitQueue : Past(r)
  /\ waitQueue' = {r \in waitQueue : ~Past(r)}
  /\ UNCHANGED <<lock, leases, memory, control, history>>

CancelWaitForHolder(h) ==
  /\ MutexFree
  /\ waitQueue' = {r \in waitQueue : r.holder # h}
  /\ UNCHANGED <<lock, leases, memory, control, history>>

-----------------------------------------------------------------------------
(* AcquireLocksBatch: all locks or none, without queueing and without the  *)
(* cooldown's cap; a refusal by the budget on the way rolls back.          *)

BatchStart(h, names, sec, reentrant) ==
  /\ MutexFree
  /\ \A l \in names : ~Held(l)
  /\ job' = [kind |-> "batch", holder |-> h, reentrant |-> reentrant,
             sec |-> sec, names |-> names, todo |-> names, done |-> {}]
  /\ UNCHANGED <<disk, memory, up, step, history>>

BatchNext(l) ==
  /\ job.kind = "batch" /\ step = Idle
  /\ l \in job.todo
  /\ Hold(l, job.holder, job.reentrant)
  /\ step' = [op |-> "lease", lock |-> l, holder |-> job.holder, sec |-> job.sec]
  /\ job' = [job EXCEPT !.todo = @ \ {l}, !.done = @ \cup {l}]
  /\ UNCHANGED <<leases, waitQueue, memory, up, history>>

(* Faulty: gives up without a rollback *)
BatchAbandoned ==
  /\ job.kind = "batch" /\ step = Idle
  /\ job.todo # {}
  /\ job' = [kind |-> "rollback", holder |-> job.holder, names |-> job.names,
             todo |-> {}]
  /\ UNCHANGED <<disk, memory, up, step, history>>

BatchRefused ==
  /\ job.kind = "batch" /\ step = Idle
  /\ job.todo # {}
  /\ job' = [kind |-> "rollback", holder |-> job.holder, names |-> job.names,
             todo |-> job.done]
  /\ UNCHANGED <<disk, memory, up, step, history>>

RollbackNext(l) ==
  /\ job.kind = "rollback" /\ step = Idle
  /\ l \in job.todo
  /\ ReleaseLocked(l, job.holder)
  /\ job' = [job EXCEPT !.todo = @ \ {l}]

FinishJob ==
  /\ job # NoJob /\ step = Idle
  /\ job.todo = {}
  /\ job' = NoJob
  /\ UNCHANGED <<disk, memory, up, step, history>>

-----------------------------------------------------------------------------
(* The process dies and starts again: rebuildTimersLocked visits every     *)
(* active lease before anyone else gets mu.                                *)

Crash ==
  /\ up
  /\ crashes < MaxCrashes
  /\ crashes' = crashes + 1
  /\ up' = FALSE
  /\ torn' = IF step = Idle THEN torn ELSE torn \cup {step.lock}
  /\ step' = Idle
  /\ job' = NoJob
  /\ timer' = [t \in TimerIds |-> IdleTimer]
  /\ timers' = [l \in Locks |-> NoTimer]
  /\ accelerated' = [l \in Locks |-> 0]
  /\ UNCHANGED disk

Start ==
  /\ ~up
  /\ up' = TRUE
  /\ job' = [kind |-> "start", todo |-> {r.lock : r \in leases}]
  /\ UNCHANGED <<disk, memory, step, history>>

(* Faulty: passes over a lease that ran out while the process was down *)
StartPassOver(l) ==
  /\ job.kind = "start" /\ step = Idle
  /\ l \in job.todo
  /\ \E r \in Lease(l) : Past(r)
  /\ job' = [job EXCEPT !.todo = @ \ {l}]
  /\ UNCHANGED <<disk, memory, up, step, history>>

StartExpire(l) ==
  /\ job.kind = "start" /\ step = Idle
  /\ l \in job.todo
  /\ \E r \in Lease(l) : Past(r)
  /\ ExpireLocked(l)
  /\ job' = [job EXCEPT !.todo = @ \ {l}]
  /\ UNCHANGED timer

StartArm(l) ==
  /\ job.kind = "start" /\ step = Idle
  /\ l \in job.todo
  /\ \E r \in Lease(l) : ~Past(r) /\ SetLeaseTimer(l, r.left)
  /\ job' = [job EXCEPT !.todo = @ \ {l}]
  /\ UNCHANGED <<disk, accelerated, up, step, history>>

-----------------------------------------------------------------------------
(* One second passes *)
Dec(x) == IF x < 0 THEN x ELSE x - 1

Tick ==
  /\ step = Idle
  /\ leases' = {[r EXCEPT !.left = Dec(@)] : r \in leases}
  /\ waitQueue' = {[r EXCEPT !.left = Dec(@)] : r \in waitQueue}
  /\ timer' = [t \in TimerIds |-> IF timer[t] = IdleTimer THEN IdleTimer
                                  ELSE [timer[t] EXCEPT !.left = Dec(@)]]
  /\ UNCHANGED <<lock, timers, accelerated, control, history>>

-----------------------------------------------------------------------------
Request ==
  \E l \in Locks, h \in Holders :
    \/ \E sec \in LeaseSecs, reentrant \in Flags :
         \/ AcquireFree(l, h, sec, reentrant)
         \/ Enqueue(l, h, sec, reentrant)
    \/ AcquireAgain(l, h)
    \/ ReleaseOnce(l, h)
    \/ Release(l, h)
    \/ \E add \in LeaseSecs : RenewLease(l, h, add)
    \/ CancelWaitForHolder(h)

BatchRequest ==
  \E h \in Holders, names \in SUBSET Locks \ {{}},
     sec \in LeaseSecs, reentrant \in Flags :
    BatchStart(h, names, sec, reentrant)

CooldownRequest ==
  \E l \in Locks :
    \/ \E sec \in CooldownSecs : ShortenLease(l, sec)
    \/ \E sec \in CooldownSecs \cup {0} : SetAcceleratedGrant(l, sec)

MethodStep ==
  \/ ReorderDelete \/ ReorderInsert \/ CreateLease
  \/ FreeLock \/ GrantNobody \/ SkipWaiter \/ TakeWaiter \/ HoldForWaiter
  \/ BatchRefused \/ FinishJob
  \/ \E l \in Locks :
       BatchNext(l) \/ RollbackNext(l) \/ StartExpire(l) \/ StartArm(l)

Callback(t) == ExpireLock(t) \/ ExpireNothing(t)

Next ==
  \/ Request \/ BatchRequest \/ CooldownRequest
  \/ MethodStep
  \/ \E t \in TimerIds : FireTimer(t) \/ Callback(t)
  \/ CheckWaitQueueTimeouts
  \/ Crash \/ Start
  \/ Tick

(* Fairness.  A method that has mu goes on; a due timer fires; Go's        *)
(* starvation-free sync.Mutex lets the callback and the one-second sweep   *)
(* in, however many requests compete (hence strong); a supervisor restarts *)
(* the server; seconds pass.                                               *)
Fairness ==
  /\ WF_vars(MethodStep)
  /\ \A t \in TimerIds : WF_vars(FireTimer(t)) /\ SF_vars(Callback(t))
  /\ SF_vars(CheckWaitQueueTimeouts)
  /\ WF_vars(Start)
  /\ SF_vars(Tick)

Spec == Init /\ [][Next]_vars
FairSpec == Spec /\ Fairness
-----------------------------------------------------------------------------
(* Properties *)

Row == [holder : Holders \cup {NoHolder}, reentrant : BOOLEAN, count : Nat]
LeaseRow == [lock : Locks, holder : Holders, left : Left]
WaitRow == [lock : Locks, holder : Holders, reentrant : BOOLEAN, sec : Nat,
            left : Left, ticket : Int]
TimerObject == {IdleTimer} \cup
               [state : {"armed", "fired"}, lock : Locks, left : Left]
StepType ==
  {Idle}
  \cup [op : {"free", "next"}, lock : Locks]
  \cup [op : {"reorder"}, lock : Locks, holder : Holders]
  \cup [op : {"requeue"}, lock : Locks, rows : SUBSET WaitRow]
  \cup [op : {"hold"}, lock : Locks, holder : Holders, reentrant : BOOLEAN,
        sec : Nat]
  \cup [op : {"lease"}, lock : Locks, holder : Holders, sec : Nat]
JobType ==
  {NoJob}
  \cup [kind : {"start"}, todo : SUBSET Locks]
  \cup [kind : {"rollback"}, holder : Holders, names : SUBSET Locks,
        todo : SUBSET Locks]
  \cup [kind : {"batch"}, holder : Holders, reentrant : BOOLEAN, sec : Nat,
        names : SUBSET Locks, todo : SUBSET Locks, done : SUBSET Locks]

(* Every variable has its type. *)
TypeOK ==
  /\ lock \in [Locks -> Row]
  /\ leases \subseteq LeaseRow
  /\ waitQueue \subseteq WaitRow
  /\ timer \in [TimerIds -> TimerObject]
  /\ timers \in [Locks -> TimerIds \cup {NoTimer}]
  /\ accelerated \in [Locks -> Nat]
  /\ up \in BOOLEAN
  /\ step \in StepType
  /\ job \in JobType
  /\ torn \subseteq Locks
  /\ crashes \in Nat

(* A method is at work on lock l. *)
Busy(l) == step # Idle /\ step.lock = l

(* The startup scan has not reached lock l yet. *)
Unscanned(l) == job # NoJob /\ job.kind = "start" /\ l \in job.todo

(* An active lease belongs to whoever the locks table says holds the lock, *)
(* and a lock has at most one, in every state a crash can leave on disk:   *)
(* a lease that outlived its lock would let RenewLease and the startup     *)
(* scan act for a caller that holds nothing.                               *)
LeaseBelongsToHolder ==
  \A r \in leases :
    /\ lock[r.lock].holder = r.holder
    /\ Lease(r.lock) = {r}

(* While the process runs, every active lease is watched by the timer      *)
(* object Manager.timers maps its lock to, due exactly when the lease ends *)
(* (or already fired and waiting for mu): whatever was renewed, shortened, *)
(* granted, expired or scanned at startup, no lease is left without the    *)
(* callback that ends it.                                                  *)
LeaseIsTimed ==
  \A r \in leases : up /\ ~Unscanned(r.lock) =>
    /\ timers[r.lock] # NoTimer
    /\ timer[timers[r.lock]] # IdleTimer
    /\ timer[timers[r.lock]].lock = r.lock
    /\ timer[timers[r.lock]].left = r.left

(* A held lock has a lease, so that it cannot stay held for ever: true of  *)
(* every lock no method is writing, unless a crash fell between two writes *)
(* of a method on it (UpsertLock and CreateLease are separate statements). *)
HeldLockHasLease ==
  \A l \in Locks : Held(l) /\ ~Busy(l) /\ l \notin torn => Lease(l) # {}

(* No lock stays held for ever: it has a lease and the lease its timer.    *)
HeldLockIsTimed == HeldLockHasLease /\ LeaseIsTimed

(* Nobody waits on a lock that is free, and nobody waits on a lock it      *)
(* holds itself: the release, expiry, cancel and timeout paths leave no    *)
(* waiter behind, again unless a crash fell between the free and the grant.*)
NoStrandedWaiter ==
  \A l \in Locks : ~Busy(l) /\ l \notin torn =>
    \A r \in Waiters(l) : Held(l) /\ r.holder # lock[l].holder

(* The wait-for graph has no cycle. *)
Acyclic == \A h \in Holders : h \notin Reach(h, WaitEdges(waitQueue))

(* While every lock stays with its holder, requests that queue up never    *)
(* close a cycle of the wait-for graph: checkDeadlockLocked turns down     *)
(* the one that would.  (A grant to the next waiter can close one; only    *)
(* timeouts and leases undo that.)                                         *)
EnqueueClosesNoCycle ==
  [][ (Acyclic /\ \A l \in Locks : lock'[l].holder = lock[l].holder)
      => Acyclic' ]_vars

(* A lock passes to the caller that has waited longest, apart from gold    *)
(* callers: whoever is taken from the queue was enqueued no later than     *)
(* anyone, not gold, who stays in it.                                      *)
LongestWaiterFirst ==
  [][ (step.op = "next" /\ step'.op = "hold" /\ step'.holder \notin Gold)
      => \A r \in waitQueue', taken \in waitQueue \ waitQueue' :
           r.lock = step.lock /\ r.holder \notin Gold => taken.left <= r.left
    ]_vars

(* The callback of timer t ends a lease that is not due. *)
EndsEarly(t, r) ==
  /\ timer[t].state = "fired" /\ timer'[t].state = "idle"
  /\ up'
  /\ r \in leases /\ r.lock = timer[t].lock /\ r.left > 0
  /\ r \notin leases'

(* A lease that a callback ends before its expires_at was ended by a stale *)
(* callback: one of a timer that had fired before the lease was renewed,   *)
(* shortened or granted, or that had been dropped from Manager.timers      *)
(* without Stop.  The timer of the lease itself never comes early.         *)
OnlyStaleCallbacksComeEarly ==
  [][ \A t \in TimerIds, r \in leases : EndsEarly(t, r) => timers[r.lock] # t
    ]_vars

(* A batch that was refused half way ends with none of its locks in the    *)
(* caller's hands, apart from locks a crash had left with waiters (where   *)
(* the rollback may serve the caller's own place in the queue).            *)
RefusedBatchHoldsNothing ==
  [][ (job # NoJob /\ job.kind = "rollback" /\ job' = NoJob /\ up')
      => \A l \in job.names \ torn : lock[l].holder # job.holder ]_vars

(* Caller h has a place in the queue of lock l, in the table or in the     *)
(* hands of the reordering.                                                *)
Queued(l, h) ==
  \/ Waits(l, h)
  \/ step.op = "requeue" /\ \E r \in step.rows : r.lock = l /\ r.holder = h

(* Every caller that waits stops waiting: it gets the lock, is skipped,    *)
(* cancelled or times out, whatever the others and one crash do.           *)
WaitEnds ==
  \A l \in Locks, h \in Holders : Queued(l, h) ~> ~Queued(l, h)

(* A lease past its expires_at is ended, also across a crash. *)
PastLeaseEnds ==
  \A l \in Locks : (\E r \in Lease(l) : Past(r)) ~> ~(\E r \in Lease(l) : Past(r))

(* What "lease expired" (history of expireLockLocked) says: the callback   *)
(* ends only leases that are due.  The code does not keep it, see          *)
(* OnlyStaleCallbacksComeEarly.                                            *)
ExpiryEndsDueLeasesOnly ==
  [][ \A t \in TimerIds, r \in leases : ~EndsEarly(t, r) ]_vars
=============================================================================
