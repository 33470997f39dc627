# TLA+ verification of the lock server

The repository is a lock server in Go: named locks with leases and wait queues
over SQLite, and around them managers for budgets, rate limits, cooldowns of
contended locks, multi-lock transactions, cascades along a dependency graph, handovers,
heartbeats, circuit breakers, debts, trial configurations and rate alerts. This directory
models all the managers but one, checks them with TLC and proves most of the safety it
checks with TLAPS. Section 1 is the inventory, 2 to 11 go through the modules, 12 says what is not
modelled, 13 what is proved and what is only checked, 14 what comes next.

| file | what it is |
|---|---|
| `LockManager.tla`, `MCLockManager.tla`, `lock_*.cfg` | the lock manager and its three tables; the instances TLC checks |
| `LockService.tla`, `LockRefinement.tla` | what the lock manager promises, and how its state maps to that |
| `LockManagerProofs.tla`, `LockLifeProofs.tla` | theorems about `LockManager`, for all values of its constants: its tables, and that it keeps the promise; its timers, queues, batches and wait-for graph |
| `Cooldown.tla`, `MCCooldown.tla`, `cooldown*.cfg` | the cooldown of a lock: `heatmap`'s and the lock manager's mutex, the rows, the cap on grants |
| `CooldownProofs.tla` | theorems about `Cooldown` |
| `LockBudget.tla`, `MCLockBudget.tla`, `budget.cfg`, `LockBudgetProofs.tla` | the budgets: holdings, periods, settlement, arrears, transfers; theorems |
| `RateLimit.tla`, `MCRateLimit.tla`, `rate.cfg`, `RateLimitProofs.tla` | the rate limiter: tokens, queue, loans, reservations; theorems |
| `LockCalls.tla` | the lock manager as its callers see it, one step per call |
| `Orchestration.tla`, `Topology.tla`, `Cascades.tla`, `MCTransactions.tla`, `transactions.cfg` | transactions; the resource graph and cascades over it; all of them over `LockCalls` |
| `Handover.tla`, `Debt.tla`, `Audit.tla`, `Shadow.tla`, `RateAlert.tla`, `MCManagers.tla`, `managers.cfg`, `debt_paid_twice.cfg` | five managers that keep to themselves, checked in one run |
| `TransactionProofs.tla` | theorems about `Orchestration`, `Cascades` and `Topology` |
| `ManagersProofs.tla` | theorems about the five managers of the run `managers`, and about `Heartbeat` |
| `CommonLemmas.tla` | what the proofs share: lists of tasks, sums over finite sets, greatest elements |
| `Heartbeat.tla`, `MCHeartbeat.tla`, `heartbeat.cfg` | callers that fall silent, frozen resources, groups |
| `PROJECT.json` | components, runs, mutants, the map from definitions to lines, findings, hazards, theorems |

In every module each write to a table is a step of its own where a crash after it
matters, what a method has yet to do is a variable (`step`, `todo`, `...Job`), and "history"
variables exist for the properties only. A definition whose comment begins "Faulty:" is not
part of the model: it is a slip one could make in the next one, and TLC must
find that the property named in `PROJECT.json` fails with it.

## 1. Inventory

`cmd/lock-server/main.go` opens the database (one connection, `SetMaxOpenConns(1)`),
builds the managers, wires them to each other and starts them in a fixed order;
the HTTP handlers of `internal/api/handler.go` run concurrently and call them.
Every manager has one mutex of its own and keeps most of its state in SQLite.

| component | state | operations | calls | hard parts | what makes it correct |
|---|---|---|---|---|---|
| lock manager (`internal/lock`) | tables `locks`, `leases`, `wait_queue`; lease timers, accelerated grants in memory | acquire, release, renew, batch, shorten, cancel waits; timer callbacks, one-second sweep, startup scan | budget, heatmap, reputation, under its mutex | stale timers, crash between two writes, deadlock of callers, queue order | a lease belongs to the holder, is timed and ends; nobody waits on a free lock; waits end; no cycle by enqueueing |
| cooldown (`internal/heatmap`) | cooldown rows, heat buckets; waits, hot and cool counters, accelerated grants in memory | record request/wait/grant, check cooldown, start and stop by hand or automatically, restore at start | lock manager (both directions) | two mutexes taken in both orders, check-then-act on rows | at most one active cooldown; grants are capped exactly while one is active; every call returns |
| lock budget (`internal/lockbudget`) | budgets, holdings, arrears, bills; running consumption in memory | check, start/stop holding, meter, transfer, settle | lock manager calls it | integer accounting, period change, expiry against metering | units are neither lost nor counted twice |
| rate limiter (`internal/ratelimit`) | policies, bindings, loans, reservations; buckets and windows in memory, waiting queue in both | request, wait, return, bind, adjust, lend, reserve, 500 ms refill | orchestration, topology, handover, heartbeat, audit call it | limits lowered under what was spent, two rows per loan, reservations that overlap, a queue in two places | used tokens within the limit, loans create no quota, a reservation has its tokens as long as it lasts, the queue survives |
| orchestration (`internal/orchestration`) | transactions with their locks and tokens; timers | create, rollback, release, time out, restart | lock manager, rate limiter | a timer racing a release, rollback by (lock, holder), crash | tokens come back once; every committed transaction ends |
| topology (`internal/topology`) | nodes and edges, in memory and in tables | edit the graph, cascade acquire and release | lock manager, rate limiter | cycles, shared ancestors, failure half way | ancestors are locked first; a failed cascade gives back |
| handover (`internal/handover`) | handovers and their resources | create, check, initiate, confirm, cancel, expire | writes the lock, quota, transaction and reservation tables itself | no common mutex, partial rollback, deadlines | a resource arrives whole or stays; a pending handover ends |
| debt (`internal/debt`) | debts, rules, restrictions | borrow, return, liquidate, write off, collect by hand | rate limiter | returns over several debts, attempts counted in two places | a collected debt is paid; a due debt ends |
| audit (`internal/audit`) | log, rules, breakers, their history | wraps acquire, release, request; opens, recovers, closes by hand | lock manager, rate limiter | a breaker read before the call it guards | the history tells which breakers are open |
| shadow plans (`internal/shadow`) | plans, in memory and in a table; differences | start, cancel, replay, mirror, apply | rate limiter, lock manager, audit | partial apply, methods that overlap | a plan is applied whole or not at all |
| rate alerts (`internal/ratealert`) | rules, events, freezes; window and count in memory | set and delete rules, record consumption, alert, freeze, lift | lock budget calls it (record, and check at acquire) | late records, suppressed alerts, a count that a crash loses | who is frozen had the alerts |
| heartbeat (`internal/heartbeat`) | registrations, frozen resources, groups, dependencies | report, 500 ms tick, lost, freeze, release, groups | lock manager, rate limiter, orchestration | status races, clean-up row by row, cascades of degradation | silence is noticed; frozen resources belong to frozen callers; groups are degraded for a cause |
| reputation (`internal/reputation`) | scores and tiers | update; tier and limits of a caller | lock manager and lock budget ask it | statistics | (not modelled: its answers are inputs) |
| API, model types, storage, server start | none of their own, except the tables | | | | |

## 2. The lock manager: `LockManager.tla`

**State.** `lock`, `leases` and `waitQueue` are the tables `locks`, `leases`
(active rows) and `wait_queue`; they survive a crash. `timer` holds the
`time.Timer` objects, `timers` is the map `Manager.timers` from locks to them,
`accelerated` is `Manager.acceleratedGrants`; a crash loses them. `step` and
`job` say what the method that has `Manager.mu` still does: `step` its next
storage write, `job` what is left of a loop over locks (batch, rollback, startup
scan). `torn` and `crashes` record crashes, for the properties only.

**Atomicity.** Every method runs under `Manager.mu`, so methods do not
interleave. But a method makes several storage writes and the process may die
between any two of them, so each write is an action: acquire is
`AcquireFree ; CreateLease`, release is `Release ; FreeLock`, then
`SkipWaiter`*, then `GrantNobody` or `TakeWaiter ; HoldForWaiter ; CreateLease`,
exactly in the order of the code. Exceptions, where several writes are one step:
the two writes of an expiry that mark the lock expired and free it at once, and
the row-by-row deletes of the sweep and of `CancelWaitForHolder` (both only
delete rows, so a crash in the middle leaves what a crash before plus another
sweep leaves).

**Time.** A moment is kept as the seconds left until it, -1 for the past. `Tick`
moves all of them; it does not move while a method is between two writes.
A timer due at 0 may fire at once or any number of seconds later, and a fired
callback may wait for the mutex as long as it likes: this is where a callback
meets a lease that was renewed in the meantime.

**Crash and restart.** `Crash` may come between any two writes. `Start` is
`Manager.Start`: the scan of `rebuildTimersLocked` visits every active lease,
in any order, before anybody else gets the mutex.

**The neighbours.** The budget manager may refuse any grant (a refused acquire
changes nothing; a refused waiter is `SkipWaiter`, a refused batch is
`BatchRefused`). `Gold` is the set of callers the reputation manager lets past
others. The cooldown manager calls `ShortenLease` and `SetAcceleratedGrant` at
any time. Methods are called after `Start` only.

### Runs

| run | instance | shows |
|---|---|---|
| `lock_safety` | 1 lock, 3 callers (1 gold), re-entry, cooldowns, 2 timer objects, 1 crash | types; a lease belongs to the holder of its lock and is the only one (`LeaseBelongsToHolder`); a held lock has a lease, watched by the right timer that is due when it ends (`HeldLockIsTimed`), and nobody waits on a free lock (`NoStrandedWaiter`), unless a crash tore a method on it; first come first served apart from gold (`LongestWaiterFirst`); only stale callbacks end a lease early (`OnlyStaleCallbacksComeEarly`); the lock manager implements `LockService` |
| `lock_batch` | 3 locks, 3 callers, batches, one second (`OneSecondSpec`), 1 crash | a refused batch ends with nothing in the caller's hands (`RefusedBatchHoldsNothing`); queueing up closes no cycle of two or three waiters (`EnqueueClosesNoCycle`) |
| `lock_live` | 1 lock, 2 callers, 1 crash, fairness | every wait ends (`WaitEnds`); every lease past its end is ended (`PastLeaseEnds`) |
| `lock_early_expiry` | violation | a callback that was already waiting for the mutex ends a lease that was renewed |

**Bounds.** One lock is enough for everything that is local to a lock: no action
on a lock reads another one, except through the wait-for graph and in a batch
(`lock_batch`: three callers for a cycle that two-party checks miss, three locks for a batch
refused after two). Nothing expires within the second of `lock_batch`; an expiry that
meets a batch is an expiry that meets each of its acquires, which `lock_safety` has. Three
callers are a holder, a waiter and one who overtakes.
In `lock_safety` every request carries the re-entrant flag: one without it differs only in that a second
acquire is an error, which changes nothing; the other runs have those requests.
Leases of 1 and 2 seconds, a wait of 2 seconds (1 in `lock_live`) and `MaxLeft` 2 let every order of
timeout, expiry and renewal happen. `MaxTimers` leaves one timer object beside
the locks' current ones, the stale callback; `FireTimer` is held back rather
than left without an object to arm. One crash reaches every pair of
consecutive writes; a second one meets only states the first one's restart
already produced.

**Fairness** (`FairSpec`, run `lock_live` only). Weak for the steps of a method
(a goroutine that has the mutex goes on), for firing a due timer (the Go
runtime) and for `Start` (docker-compose says `restart: unless-stopped`).
Strong for a fired callback and the one-second sweep: `sync.Mutex` hands the lock
to a waiter that starved for 1 ms, so whoever keeps asking gets in. Strong for
`Tick`: seconds pass between methods.

### What the findings say

`lock_early_expiry`: `t.Stop()` does not take back a callback that already runs.
The callback ends whatever lease the lock has when it gets the mutex, and does
not look at `expires_at`. `OnlyStaleCallbacksComeEarly`, which holds, says that
this is the only way a lease ends early.

Met while modelling and in the model, without a run: under a cooldown `RenewLease` computes
the time added relative to now but adds it to the old expiry (`lock/manager.go:549-559`), so
renewals run past the cap.

### Proofs: `LockManagerProofs.tla`, `LockLifeProofs.tla`

For any sets of locks and callers and any bounds, from the assumptions named in
`LockManager.tla` (callers do not include `NoHolder`, lease lengths positive):

* `TypeCorrect`: `Spec => []TypeOK`, one case per action.
* `LeaseInvariant`, `LeaseCorrect`: `Spec => []LeaseBelongsToHolder`. The property is
  not inductive: halfway through a method the tables rely on what the method
  checked before. `LeaseInv` adds, for each pending write, what it stands on: a
  release about to free a lock has ended its lease (`WriterUnleased`), a grant
  finds the lock free (`GranteeFindsFree`), a lease is created for the holder
  the row already names (`LesseeHolds`), a batch has only free locks left to
  take (`BatchFindsFree`). TLC checked `LeaseInv` on the instances of
  `lock_safety` and of a two-lock batch before it was proved.
* `TimedCorrect`: `Spec => []HeldLockIsTimed`. What the property adds up to is not
  enough to carry it: a timer object that a method frees, or arms for another lock,
  must be nobody's entry in `Manager.timers`. So `TimedInv` says that the entry of a lock
  is an object in use for that very lock (`TimersOwn`), which is gone with the lease
  (`TimersLeased`), and that a held lock has a lease except between the writes that make
  it one or end it (`LeasedUnlessWriting`).
* `QueueCorrect`: `Spec => []NoStrandedWaiter`. `QueueInv` counts the rows which the gold
  reordering has deleted and not yet inserted again as waiting (`InHand`), has a caller
  wait for a lock in one row only (`OnePlace`; else the grant would leave its second row
  behind, waiting on its own lock), and lets waiters stand on a free lock only while a
  method is handing it on (`WaitersServed`).

* `EarlyCallbacksStale`: `Spec => OnlyStaleCallbacksComeEarly`, an action property. What
  it needs is that a timer that has fired was due (`FiredIsDue`), and `TimersOwn`.
* `RefusedBatchFrees`: `Spec => RefusedBatchHoldsNothing`. `BatchInv` follows the rollback: what
  it has still to do and what it has undone are the batch's locks (`BatchWhole`), a lock it
  has undone is not its caller's, or just being freed (`RolledBack`), and since nobody can have queued
  on the batch's locks meanwhile (`BatchUnqueued`) the frees hand them to nobody.
* `LongestServed`: `Spec => LongestWaiterFirst`. `OrderInv` says that tickets order the waiters who
  are not gold by the time they have left, in the table and in the rows which the reordering
  has in hand, and that only gold reorders.

TLC checked `TimedInv`, `QueueInv`, `BatchInv` and `OrderInv` on the instances of `lock_safety` and `lock_batch` first. They rest on
`TypeOK` and `LeaseInv`.

The theorems speak of the lock manager alone: `handover` writes the same tables
without its mutex and is outside the model.

### The lock service: `LockService.tla`

What callers may rely on, without queues, timers, tables or crashes: they ask, give
up, are granted a lease if they asked and nobody has one, have it renewed while it
runs, and it ends. `LockRefinement.tla` maps the lock manager to it. A lock is
granted when its row in `leases` exists: the row in `locks` is written earlier, and
a crash in between leaves a held lock that nobody was told of. A caller wants a
lock while it is in the queue, in the rows the gold reordering has in hand, or in
the pending write of a grant; so a crash and a dropped waiter are both `GiveUp`.

`LockManagerProofs.tla` proves `Implements`, `Spec => ServiceSpec`: each action maps to an action of the
service or to a stutter, with `TypeOK` and `LeaseInv` as the invariants (that `CreateLease` finds no lease
on its lock is `WriterUnleased`). `lock_safety` checks the same on its instance. The
order of grants and the end of waits are no part of the service; they are
properties of `LockManager`.

`EnqueuesSafely`, `Spec => EnqueueClosesNoCycle`. What the depth-first search gets to is defined as the least set closed
under the edges (`Reach`), so the proof needs no induction over paths. `NoCycleAdded` is the fact about graphs: edges
that all lead to `k`, and put `k` on no cycle, put nobody on one; `ReachGrows` says that fewer edges reach less. The invariant,
`MovesClosingNoCycle`, is about `ReorderWaitQueueForGold`, which takes all rows of a lock out of the
table and puts them back one by one, so that the wait-for graph loses edges and gets them again without another
search: until the last row is back, the holder of the lock is on no cycle of the graph that counts the
rows in hand as well. The bound of the run, three callers, is gone: cycles of every length are meant.

Only model-checked: liveness under fairness, which is beyond TLAPS here.

## 3. The cooldown: `Cooldown.tla`

When a lock is contended for several cycles, `heatmap.Manager` starts a cooldown:
a row in `lock_cooldown_states`, a shortened lease, and a cap on the leases the
lock manager grants. It ends by hand, by age or after some cool cycles.

**State.** `rows` is the table (with the number of history records of each
cooldown in `ends`), `lease` the lock's lease seen from the cooldown: none,
shorter or longer than the cooldown's length. `heatmapMu` and `lockMu` are the two
mutexes, `capped` is `acceleratedGrants` of the lock manager, `hot` and `cool` are
the two counters of `checkCooldown`. One lock stands for all: the mutexes are shared
by all of them, and the rest of the state is per lock.

**Threads.** Unlike the lock manager's methods, these operations are not atomic:
`startCooldown` takes and leaves both mutexes several times. `at[t].pc` says what
thread `t` does next; a step is one access to the table or the taking or
leaving of a mutex. Operators are HTTP goroutines, workers are goroutines inside the lock
manager (they hold `lockMu` from the first step to the last and call `heatmap` in
between), the checker is the background goroutine, `Main` is `main`. A crash may
come at any time; it loses mutexes, cap and counters.

**Start.** `main` starts the rate limiter, orchestration and others first (`Boot`), then `heatmap.Manager`
(`main.go:116`; `Start` to `RestoreEnd`), which has `heatmap.mu` until the restore is done, and listens for HTTP last. So no cooldown is
started, stopped or checked before the restore has ended, and no lock is acquired or renewed. But the timeouts
of orchestrated transactions release locks from the boot on (`main.go:79`, `orchestration/manager.go:68` and 82), which hands
them to waiters whose leases may run out: a worker may `Enter` for these while the restore runs.

**Left out.** How hot a lock is (any answer is possible), the count of shortened
leases (only the row it writes back), alerts, configuration changes. The unguarded
access to the maps of the counters is a data race of the code that the model does not
carry further than a crash at any time.

### Runs

| run | instance | shows |
|---|---|---|
| `cooldown` | 1 operator, 1 worker, checker, main, 2 rows, 1 crash and the start after it, fairness | who has which mutex; two calls block each other only in `stopCooldown` or in the restore; apart from that every call returns; the cap is set exactly while a row is active, and no cooldown ends twice, unless two operations overlapped (`CooldownConsistent`: types, `CapMatchesCooldown`, `EndsOnce`); the count of shortened leases never revives a cooldown |
| `cooldown_blocked` | violation | a stop has `heatmap.mu` and waits for `lock.mu`, a request has `lock.mu` and waits for `heatmap.mu` |

**Bounds.** The two mutexes make cycles of two; an operator and the checker are two
cooldown operations that overlap, a worker is a call from the other side. Two rows: a
cooldown and one after it. A hot cycle starts a cooldown (`HotCycles` 1), a cool
cycle alone does not end it (`CoolCycles` 2). One crash, because the start goes the
same way each time.

**Fairness** (`FairSpec`). Strong for the steps of each thread: Go's `sync.Mutex`
starves nobody, so a goroutine goes on if the mutex it waits for is free again
and again. Weak for `Boot` (restart policy). Nothing makes anybody begin an
operation.

**Precondition.** `CapMatchesCooldown` and `EndsOnce` hold until two cooldown operations
overlap (`raced`). The code does not prevent an overlap: a stop during a start leaves grants
capped without a cooldown, or its row is written back as active by
`triggerCooldownActions`; two stops write two history records.

### What the findings say

`cooldown_blocked`: `stopCooldown` keeps `heatmap.mu` while it calls
`SetAcceleratedGrant`; each request calls `RecordLockRequest` with `lock.mu` held. When the
two meet, both mutexes are lost, and the server with them.

The restore blocks itself, which `OnlyStopAndRestoreBlock` lets stand: after a restart with an
active cooldown and a longer lease, `Start` keeps `heatmap.mu` (`heatmap/manager.go:77`) while it
calls `ShortenLease` (128), which reports the shortened lease back (`lock/manager.go:1241`)
to a method that takes `heatmap.mu` (`heatmap/manager.go:1088`). And a transaction that times out during the restore
has `lock.mu` in `ReleaseLock` and waits for `heatmap.mu`, while `Start` waits for `lock.mu` in `SetAcceleratedGrant`,
`GetActiveLease` or `ShortenLease`: then the server never comes up.

### Proofs: `CooldownProofs.tla`

For any sets of operators and workers and any bounds, from the assumptions in
`Cooldown.tla` (the threads are distinct):

* `TypeCorrect`: `Spec => []TypeOK`.
* `MutexesOwned`: `Spec => []MutexInv`. The mutex variables are tied to the places in the
  code: a thread has `heatmapMu` exactly in the middle of `stopCooldown` or in
  `heatmap.Start`, and `lockMu` exactly inside a method of the lock manager. To be
  inductive this needs that no cooldown operation is under way while the server starts, though methods of the lock
  manager may be (`NoCooldownDuringStart`), that `Start` leaves its
  count for its own end (`StartPath`), and that a row read as active and about to be written
  back stays active or is being stopped right now (`ReadRowsStand`): the restore lets go of `heatmap.mu` with such a write waiting.
* `OnlyTheseBlock` and `NoRevival` follow from it: the deadlock of the finding is the only one
  there is, with any number of goroutines, and the stale row of
  `IncrementLeaseShortenedCount` does no harm. The latter rests on `lock.mu` being
  held around both: whoever repairs the deadlock by releasing `heatmap.mu` before
  `SetAcceleratedGrant` breaks it (this is its mutant).
* `CapFollowsCooldown`: `Spec => []CooldownConsistent`. Until two operations overlap there is one under
  way (`OneChanger`), so what it has read of the rows, or written to them, stands until it uses it
  (`OperationsStand`): before a start inserts there is no active row, before a stop writes there is one and
  it has no end. The cap follows the rows except between an operation's write to the one and to the
  other (`CapFollows`), or while the restore has not come to it. TLC checked `OperationInv` first.

Only model-checked: that calls return.

## 4. The lock budget: `LockBudget.tla`

A caller with a budget pays a unit for each second it holds a lock, and half a unit more
for what goes beyond its limit if it has an overdraft. At the end of a period it gets a bill;
what the next period cannot bear becomes arrears, which only a recharge pays.

**State.** `config`, `row` and `arrears` are the tables of configurations, holdings
and active arrears. `callers` and `holdings` are the memory of the manager; a crash loses
both. `todo` is what the method that has `Manager.mu` still does, one task per
storage write. `meter` counts, for the properties only, how long a lock is held and
the units charged for it, on bills and since.

**Atomicity and time.** As in the lock manager, methods exclude each other, each
storage write is a step and a crash may come between two of them. A tick is half a second:
metering charges whole seconds and keeps the rest, a release rounds up, a reset
counts periods in whole seconds, so all of them differ between two seconds. The
poll may be late by any number of ticks.

**Crash and restart.** `main` defers `budgetMgr.Stop`, which would settle everyone, but its
`r.Run` never returns and `log.Fatalf` does not run deferred calls: every end of the process
is a crash. `Start` begins a new period for everyone. The condition under which
`loadHoldingsLocked` restores consumption (metered since the period's start, which is now)
is never true, so a restart forgets what was consumed.

**The neighbours.** Only the holder of a lock starts a holding (the lock manager stops
the last one's first), and no lease past its end is renewed (part of `LockService`). Freezes by the rate alerts, the limits and refusals
of the reputation manager only restrict who calls.

### Runs

| run | instance | shows |
|---|---|---|
| `budget` | either one caller alone, 2 locks, a period of 2 s noticed up to 3 s late; or two callers who transfer, 1 lock, a period of 1 s | types; no second of a holding is charged twice, in memory or by a restart after the bill, and a release rounds up by less than a second (`MeteringConsistent`); a late reset catches up with the period that now is (`PeriodCatchesUp`); arrears only shrink, by payment (`ArrearsOnlyPaid`); a transfer gives away only what is left when all holdings are charged up to now (`TransferWithinBudget`) |

**Bounds.** Only a transfer concerns two callers, and it reads each one's account
alone; so a behaviour is of one caller (`calling` names it) with room for two locks and long times,
or of both with little time. `MaxLate` 6 ticks is
a period and a half: the first delay at which the number of periods is rounded up. `MaxAge` 4 ticks
lets a holding live through a period's end and be metered before and after. `MaxUnits`
stops time while a caller has consumed more than twice its limit, which is enough for
overdraft, penalty and arrears. `MaxNet` lets a unit be given, and given back.
Callers are interchangeable (`CallerSymmetry`).

Met while modelling, and in the model, without a property: the bill carries over what the caller
is below zero, the reset deducts `currentOverdraft + overdraftPenalty` (`lockbudget/manager.go:243`
and 343-347), and consumed units contain the penalty already, while units charged by the
settlement are not in `currentOverdraft`: what is deducted is not what was billed. The settlement's balance
counts a transfer twice, a receiver with less consumed than it is given loses the rest, a crash
between a bill and its arrears loses the debt, a recharge leaves the overdraft as it was.

**Proofs: `LockBudgetProofs.tla`**, for any callers, locks, limits, periods and bounds.

* `NoSecondChargedTwice`: `Spec => []MeteringConsistent`. The property says what is charged for a holding that
  is running or over. `Metered` splits it: in memory what is charged and the remainder kept (`lag`) make at most the
  time the lock is held, and so do the charges and the remainder in the row, which is what a
  restart goes on from; a lease that runs in memory runs in the row. `AgendaInv` says that a method's tasks come in
  the order of the code (`Rank`) and that what each relies on is still so when its turn comes (`Ready`): a metering finds
  its holdings open, a bill no arrears, a reset its period over.
* `TransfersCovered`: `Spec => TransferWithinBudget`. The clause of `AgendaInv` for it: before a transfer everything
  the giver holds is metered up to now, or its metering comes first.
* `PeriodsCatchUp`, `ArrearsShrink`: the action properties `PeriodCatchesUp` and `ArrearsOnlyPaid`, from
  the same invariant: a reset finds its period over and advances by as many as have passed, and nothing but the bill opens
  an account of arrears.

TLC checked `BudgetInv` on the run's instance first.

## 5. The rate limiter: `RateLimit.tla`

A caller is bound to a policy and spends its tokens, waits for them in a queue, lends its
quota to others and reserves more of it for a time to come.

**State.** `bindings`, `waitQueue` and `reservations` are the manager's memory; `policies`,
`bindingRow`, `waitRows`, `reservationRow` and `loans` are the tables (`loans` counts the active
borrow records). A row of the queue has its id, from `Items`: rows are deleted by it and a restart
lists them by it. `todo` is what the method or the refill tick under `Manager.mu` still does.

**Actions.** One for each method (`CreatePolicy`, `BindCaller`, `RequestTokens`, `Enqueue`,
`ReturnTokens`, `AdjustQuota`, `BorrowQuota`, `ReturnQuota`, `CreateReservation`,
`CancelReservation`, `GetCallerStatus`) and the refill tick, which drops the requests past their time (`CleanUp`),
activates and completes reservations, refills and grants from the queue, in the code's order; each row they write is a
step. `Crash` may come between two of them, `Start` loads the tables and reconciles the
bindings with them (`Reconciled`). How much a tick gives back depends on the algorithm and on fractions of a
second: it may give back anything the algorithm can.

| run | instance | shows |
|---|---|---|
| `rate` | 2 callers of a policy of one token, 2 reservations, requests that queue, loans, clock up to 2, 2 rows in all, 1 crash | nobody has spent more than it may, in memory or in the rows (`UsedWithinLimit`); no more of a policy is reserved at any moment than it has (`NeverOverbooked`); all that is borrowed has been lent (`BorrowedIsLent`); a caller has the tokens of its reservations while they last (`ReservationsKept`); memory and table agree on the queue and its order (`QueueSurvives`) |

**Bounds.** A loan needs two callers, a conflict two reservations. With one token each pair of
them collides, and every operation of one lowers what another has left. `MaxRows` 2 are two reservations,
a loan and a reservation, a request in the queue beside either. `Items` 3 is an id more than rows at a time: a new
row comes behind one that is still being deleted. Clock 2 is a reservation that begins now or later and ends
while another one is pending. A fixed window stands for the algorithms, as a tick may give back
anything anyhow. A crash, and a caller bound again or its quota adjusted, are not in one behaviour
(`OneUpheaval`), but for the crash that loses an adjustment whose row is unwritten; the theorems have them together.

**Preconditions.** A caller bound again forgets its loans and reservations (`rebound`), and a crash
between a reservation's two rows leaves one without the other (`torn`); the properties say where
they speak of neither.

Met while modelling: `ReturnBorrow` looks up the record of the loan with lender and borrower
exchanged, so no record is ever marked returned; reservations that end while the process is down
keep their tokens; two reservations back to back may be refused; a large request at the
head of the queue is passed over again and again by smaller ones.

**Proofs: `RateLimitProofs.tla`**, for any callers, policies, algorithms, amounts, reservations and bounds. All five
properties of the run are theorems; each rests on `BaseInv` (types; the order of a method's tasks and what each relies
on; memory and tables know the same callers), which each action preserves.

* `SpentCorrect`: `Spec => []UsedWithinLimit`. The property is inductive over `BaseInv`: each operation that
  lowers a limit must lower what is used with it (`Clamped`), and both rows of a loan must be written whole.
* `LoansCorrect`: `Spec => []BorrowedIsLent`. Between the two writes of a loan the sums in the table lie between
  those of memory before and after. `LoansInv` says which rows may differ from memory, and that
  the first of the two pending ones is written on the side that creates nothing: the lender first when quota is
  lent, the borrower first when it comes back. The sums are over any finite set of callers (`CommonLemmas`).
* `BookCorrect`: `Spec => []NeverOverbooked`. The property looks at the starts of reservations, as the check does;
  the invariant `BookedInv` needs every moment, and has it because the reservations that overlap at some moment
  all overlap at the latest start among them (`OneIsGreatest`). It also speaks of the rows that a restart would take up
  (`LiveRow`), which can lag behind memory by a pending write (`RowsInv`).
* `ReservedCorrect`: `Spec => []ReservationsKept`. `KeptInv` keeps the account in the middle of a method, and, once the process
  is down, between the rows of reservations and of bindings that the restart reads.
* `QueueCorrect`: `Spec => []QueueSurvives`. In the middle of a loop the queue is what was put back so far, what the
  loop has still in hand, and what is about to be deleted: `QueueInv` says that the first two are what is in the table
  and stays there, in the order of the ids, and that ids name one row each.

TLC checked these invariants on the run's instance first. An earlier form of the model filtered the queue with `SelectSeq`, of
which the provers know nothing; the loop is now taken step by step, as in the code, which also showed that
rows have to be told apart by their ids.

## 6. Transactions and cascades: `LockCalls.tla`, `Orchestration.tla`, `Topology.tla`, `Cascades.tla`

`LockCalls` is the lock manager for those who call it: one step per call with each answer it can
give, the queues, the cycle check, and leases that run out and waits that time out at any moment. What is
behind a step is `LockManager`. The check refuses a wait if any cycle can be reached from the waiter, as
`detectCycle` does, whether it goes through the waiter or not (`ClosesCycle`, over `Reach`).

**`Orchestration`.** `CreateTx` takes the locks one after the other (`TxAcquire`), requests tokens
(`TxRequestTokens`) and commits, or rolls back: tokens, last first, then locks, last first, and all
waits of the holder. A committed transaction ends by `ReleaseTx`, by its timer
(`TxTimerFires`, then `TimeoutTx` when the callback gets `mu`) or at `TxStart`, which makes up for
those that ran out while the process was down. Each call to another manager, with the row
that records it, is a step, and a crash may come between two.

**`Topology` and `Cascades`.** The three depth-first searches of the code are state machines: `topoScan` has the path (the
frames of the recursion, and `recStack`), the edges not walked yet, the nodes visited and what is listed so far, and a step
walks one edge or goes back one node. So no operator is RECURSIVE, and the searches can be proved about. `DeclareEdge` starts the check
for a cycle (`CheckFrom`, `CheckChild`, `CheckBack`, `CheckPassed`), `CascadeAcquire` the search for ancestors
(`ClimbParent`, `ClimbBack`, `Climbed`), `ForceRelease`, which is `CascadeRelease` with `force`, that for descendants
(`DescendChild`, `DescendBack`, `Descended`). All hold `Manager.mu` (`MuFree`). The
code walks a node's children in the order they were declared in; here any order goes. What a cascade does with the list it was
given is `Cascades` (`BeginAcquire`, `CascadeLock`, `CascadeTokens`, `CascadeUndo`, `BeginRelease`, ...), which knows no graph:
it takes the locks of the ancestors and of the node, and undoes them in reverse if one is refused; these
calls hold no mutex and interleave with expiries and with other callers.

| run | instance | shows |
|---|---|---|
| `transactions` | 3 locks, 2 holders; 2 transactions with 1 crash, or 3 nodes and cascades with re-entry and force | tokens come back once, whatever timer, release and restart race for it (`TokensComeBackOnce`); every committed transaction ends (`CommittedTxEnds`, with fairness); in every graph that can be declared a node's ancestors, and only they, are locked before it (`AncestorsFirst`, so no graph has a cycle); a cascade rolled back has paid nothing and keeps no lock it did not have (`CascadeGivesBack`) |

**Bounds.** Transactions and cascades meet only in the lock manager, where either has another caller
beside it: so a behaviour has the one or the other. Graphs are built and taken apart in any order
over three nodes, and searched in every way; cascades take locks in the one where two paths lead to a node. Leases and other
callers rest while a search runs: it reads and writes nothing of theirs. Two transactions
share a lock. One crash, as `TxStart` begins in the same way each time.

**Fairness** (`TxFairness`). Weak for the steps of a method, for `Start` (restart policy) and for a due
timer; strong for a fired callback, which waits for `mu` (`sync.Mutex` starves nobody).

**Proofs: `TransactionProofs.tla`.** `TokensCorrect`, `TxSpec => []TokensComeBackOnce`, where `TxSpec`
lets anything happen that leaves the transactions' own variables alone: the lock manager's answers
are any. The invariant `TokensInv` keeps the account of every transaction no crash has torn. At rest:
what is paid is what was asked for if it is committed or released and nothing otherwise, and a committed
one has a row in `orch_tx_tokens` for each token paid. Under a method: what is paid is what is granted
so far, then what is left to return. Returning walks over those rows, hence the second clause. TLC checked
`TokensInv` in the run's instance first.

`CascadesGiveBack`, `CascadeSpec => []CascadeGivesBack`: cascades of any number of holders, each along any order of any nodes
(so whatever the graph), with anybody else at the lock manager taking, re-entering, queueing, releasing and cancelling as they
like, leases that end and waits that time out. A lock the holder has after the rollback it had before, or waited for
before, or queued for. The invariant `CascadeInv` says this of a cascade under way with one more way out: the lock is that of an
item still to be undone, and not taken more than once (`ToUndo`). Hence undoing an item loses nothing: `ReleaseLock`
frees the lock, hands it to the first in its queue, which is the holder only where it waits, or takes one level off a
lock that has several, which the cascade cannot have taken itself. That a step of anybody else is harmless is one
lemma about each call (`AcquireEffect`, `ReleaseEffect`, `GrantsAreWaitedFor`, `WaitsEnd`), all with the conclusion `Gentle`. For tokens the
invariant counts: what is paid is the number of items in `got` that are marked so (`PaidByJob`). Cascades with
re-entry keep the account of their tokens only: the code releases a re-entered lock only where it was not held before, so
its levels stay. The invariant was checked by TLC in the run `transactions` before it was proved.

`AncestorsCorrect`, `DescendantsCorrect`, `RefusalsCorrect`, from `TopoSpec`: the graph and its searches alone, for any nodes, edges
declared and removed in any order. Beyond a node is what every set closed under the edges has, so that no proof is an induction
over paths. All three need `TopoInv`, which says of a search under way (`Searched`): each node on its path is
beyond those before it; those it has come back from are closed under the edges (`Over`); and every edge walked from a node
on the path leads to one of them or is the way on. Hence a search that is back at its start has found all that is beyond it and
nothing else. `CheckInv` adds that no node it is back from is on a cycle: closing a node whose edges all lead to
such ones keeps that, and when all nodes are visited the edge may be stored. `ClimbInv` and `DescendInv` add what is listed:
the nodes it is back from, in an order where all that is above a node comes before it (`Ordered`); the nodes
visited, once each. Acyclic graphs are needed there: the search for descendants does not mark its own node as visited, and lists it
if a path leads back. `AncestorsFirst` is checked in the run; `DescendantsOnce`, `RefusedForACycle` and
`TopoInv` are stated in `TransactionProofs`, where TLC checked them in the same instance before they were proved.

Met while modelling: an ancestor that two paths lead to is listed twice, so without re-entry a cascade in such a graph asks twice
for its lock, is told that it has it already, and rolls back. A forced release goes through its list backwards, which puts a node before one
of its children where the child is reached on another path first. A rollback cancels every wait of the holder, also those of other
transactions; a lock that queued and is granted before that cancel stays with the holder until its lease
ends; a cascade that fails never cancels the wait it queued for, and keeps the re-entries it
has counted; a lock refused for the budget is counted as acquired; a crash leaves "created"
transactions that nothing cleans up.

## 7. Handovers: `Handover.tla`

One caller's locks, quota, transactions and reservations become another's. `Manager.mu` is held
throughout, but the rows belong to other managers whose mutexes are not.

**State.** `handovers` are the two tables; `hoOwner` and `hoSecond` the one or two rows that name the
owner of a resource, `hoBound` who has a row in `rl_caller_bindings`; `hoJob` is the execution under way: what is left, and what is to be undone.

**Actions.** `CreateHandover`, `PreCheck`, `Initiate`, `Confirm`, `Cancel`, the tick
`CheckAndCancelExpired`; the execution statement by statement (`CheckSource`, `TransferHolder`,
`TransferSecond`, `TransferReservationCaller`, `TransferQuotaTo`, `TransferQuotaFrom`), its
rollback (`UndoQuota`, `UndoReservation`, `UndoOther`), a crash anywhere; `LockManagerMoves` is the
lock manager that gives the same lock to somebody else in between, `BindCaller` the rate limiter that binds one more caller, `HoEnds` a transaction or a
reservation that ends.

In the run `managers` two handovers of the same caller to two others, one to be confirmed, with
four kinds of resources between them. `HandedOverWholly`: a transaction or reservation is in all its rows with whom
the completed handovers gave it to, so a handover that fails leaves none moved. `PendingHandoverEnds`, under `HoFairness` (weak for the steps
of an execution, strong for the ticker, which competes for `mu`).

Locks are not among the promises: a lock is checked and then written without the lock manager's
mutex, and a release, expiry or grant in between is overwritten. It is in the model, and there is nothing that
holds of it. Nor is quota: the used tokens of both callers are read and written in the table (`handover/manager.go:800`-840)
behind the back of the rate limiter, which goes on from its memory and overwrites them at the next request, return or
tick. So the model has the statements and whether a row is there, which decides if they fail, and not the
numbers; nothing that one could say of them holds. Further: a crash during the execution leaves it
partly moved, and the next attempts fail; a transaction moved without its locks cannot release them.

**Proofs (`ManagersProofs.tla`).** `HandoversCorrect`, `HoSpec => []HandedOverWholly`, for requests of any length. In the middle of an
execution `Underway` says of each resource what its rows tell: those in `undo` are with the receiver, the others with the owner,
and the one at hand is between its two rows.

## 8. Debts: `Debt.tla`

**State and actions.** `debts`, `debtRules`, `debtRestricted`, `debtFailures` are the tables; `debtJob` what the
method or the tick under `mu` still does. `RecordBorrow`, `RecordSystemDebt`, `RecordReturn` (over several debts, in
order), the tick (`RunLiquidationTick`, `MarkOverdue`, `WriteOff`, `Attempt`, `Collect`, `Settle`,
`CollectFails`, `ApplyRestrictionsIfNeeded`), `ManualCollect` (of a debt to a caller by payment, of one to the system without), restrictions and rules by hand, a crash
between any two rows.

In the run `managers`: one debtor, a debt of 1 to the system and debts of 2 to another caller, returns of 3.
`CollectedIsPaid`: no debt to another caller counts as collected before it is paid in full. `DueDebtEnds`: every
due debt is collected or written off, under `DebtFairness` (weak for the steps of the method, strong for the tick: the ticker goes on, and
`mu` passes over nobody).

The run `debt_paid_twice` (violation of `NotPaidTwice`): a return that covers part of a debt lowers the
amount in memory and calls `UpdateDebtRecord`, whose UPDATE does not name the column; whoever collects
next takes the whole amount.

Met while modelling: a debt collected or written off by the tick leaves the debtor's restrictions standing; a crash
between the payment and the row collects twice; debts to the system are never collected by the tick, only written
off, and collected by hand without any payment (`debt/manager.go:815`); failures are counted over 300 periods of the tick, so a protection above 300 never writes off.

**Proof (`ManagersProofs.tla`).** `DebtsPaid`, `DebtSpec => []CollectedIsPaid`, for any debts and rules. The row is written after the
payment, so the invariant adds that the debt which a method is about to write as collected is paid (`PaidBeforeSettled`) and
that amounts in the table never change once written.

## 9. Breakers, plans, alerts: `Audit.tla`, `Shadow.tla`, `RateAlert.tla`

**`Audit`.** A call is let through while the breaker is closed (`GuardedCall`), returns later
(`GuardedCallReturns`), and if it failed is counted with `mu` held (`CheckAndTriggerCircuitBreaker`). Time takes
failures out of the window and brings the end of the cooldown; the tick and people close. `HistoryTellsOpen`: however many
calls were past the breaker when it opened, its history has one row not yet recovered while it
is open, none otherwise. A crash between the history row and the status row can break it.

Met while modelling: calls that were past the breaker still run after it opens; rejected calls count as failures; after
recovery the old failures of the window open it again at the next failure.

**`Shadow`.** Methods read a plan from the table, go by what they read, write the table, then
`Manager.plans`; nothing excludes two of them, so each of these is a step of one of two methods under way. Only
the loop over the overrides holds `applyMu`. Replays are goroutines of their own. `AppliedWhollyOrNot`: when
nobody is applying, the configuration is what the last plan applied whole left, also where three overrides change
one target and the last one fails; unless a crash cut it short or an undo was refused.

Met while modelling: the end of a replay or mirror writes "completed" over "cancelled" and "applied", and a
cancelled plan can then be applied; two concurrent applies both run; `StartPlan` sets the range of a replay
only in memory, `runReplay` reads it from the table and replays nothing.

**`RateAlert`.** The lock budget reports each consumption (`RecordConsumption`, up to `AlertDelay` late), the window
slides, an alert is written unless one was less than half a window ago, and after `trigger` alerts the caller is frozen until
somebody lifts it. The window and the count are memory; rules, alerts and freezes are rows, a step each. `FreezeFollowsAlerts`: a
frozen caller has in the table as many alerts as its freeze counts, half a window between any two of them,
though rules are set anew, records come late and a crash comes between an alert and its freeze.

Met while modelling: a quiet time does not end the count of "consecutive" alerts; a crash loses it, and so a freeze that was
due; `CheckAcquire` reads the freeze before the grant, so a caller frozen in between gets the lock; a frozen caller's
consumption is not recorded; a crash in `DeleteRule` brings the rule back.

### The run `managers`

`Handover`, `Debt`, `Audit`, `Shadow` and `RateAlert` share no state that any of them models, so a behaviour of
`MCManagers` is of one of them (`acting`), and the run checks each on its own instance: 3 callers and
2 handovers; 2 debts; one caller with its own or the default rule, thresholds 1 and 2, 2 calls at a time; 1 plan
with 3 overrides of one target and 2 methods at a time; one caller with rules that freeze at the second and at the third alert and a disabled one, a clock up to 3. Each has one
crash. The bounds are the least at which each hazard happens: two handovers promise the same resource, one return covers a
debt and half of the next, two calls fail past a breaker of threshold 1, two methods overlap,
an alert is held back by the one before. Deadlock is not checked, as bounded counters come to an end.

## 10. Heartbeats and groups: `Heartbeat.tla`

Callers report that they are alive. One that is silent is suspect, then lost, and its resources are
released or frozen, as its strategy says; a group with too few alive is unhealthy, and the groups
that depend on it are degraded, with a search that restores them later.

**State.** `hbRegs`, `hbFrozen`, `hbGroups`, `hbDeps` are the tables; `hbSilence` says how long a caller has not
reported ("heard", "late", "gone"); `hbTodo` is what the method or tick under `Manager.mu` still does, a row per
task.

**Actions.** `Register`, `ReportHeartbeat`, `HbTick` and for each caller `CheckCaller`, then
`ReleaseResources` or `FreezeResources` and a `CreateFrozenResource` per row; `ReleaseFrozenResource`, `ReleaseAllFrozenResources`
(`ThawRow`, `Thawed`); groups created, dependencies added and removed; a group deleted dependency by dependency (`DeleteDependency`) and then
itself (`DeleteGroupRow`); `UpdateGroupHealth`, which writes one row and leaves the groups that depend on it to `DegradeGroup` or
`TryRestoreGroup`, a row per step; `HbCrash` between any two rows, `HbStart` with the check of those overdue.

| run | instance | shows |
|---|---|---|
| `heartbeat` | 2 callers, one frozen and one released when lost; 3 groups in a chain; 2 resources; 1 crash; fairness | a resource is frozen only while its caller is (`FrozenTogether`); a group is degraded only while one it depends on fails, unless it has still to be tried, or a crash or the deletion of a group kept it from being tried (`DegradedForACause`); a caller that stays silent is lost or frozen in the end (`SilenceIsNoticed`) |

**Bounds.** Two strategies, a caller each. A chain of three groups is the least in which the restoration of one has
to restore, or must not restore, another in turn. Two resources are thawed one by one.

**Fairness** (`HbFairness`). Weak for the steps of a method and for `Start`, strong for the 500 ms tick: the
ticker goes on and `sync.Mutex` starves nobody.

Met while modelling: a crash between the status Lost and the disposal leaves the resources for ever, one between
Frozen and the group leaves a stale count; the dependents of a group restored into Unhealthy are not degraded; deleting a group
leaves its dependents degraded, and so does a crash between a group's row and those restored with it (both are `hbOrphans`); recomputing a group overwrites its status Degraded;
`releaseLocks` releases a re-entrant lock once only; a caller let go from frozen is lost again at the next tick
unless it reports before.

**Restoration.** The code restores a group and lets those that depend on it try in turn, depth first. `hbTodo` is the stack of that
search: a task is the groups one call has still to try, in any order, and a group restored puts its own
dependents in front (`DependentsTry`). Groups in such a task are `HbPending`; those of them that a crash keeps from being restored
become `hbOrphans`, and stop being so when a later call tries them.

**Proofs (`ManagersProofs.tla`).** `FrozenCorrect`, `HbSpec => []FrozenTogether`: the row "frozen" of the caller is written
before the rows of its resources, so `TasksStand` adds that resources are only ever being frozen for a caller that is frozen
already, and that while some are released nothing else is under way; the last one released lets the caller go.
`DegradedCorrect`, `HbSpec => []DegradedForACause`, for every graph of groups, cycles included. `GraphInv` says that a group degraded
has a cause unless it is an orphan or pending (`CausesStand`), and that the groups on the stack that are to be degraded depend on one that fails
(`CascadeStands`). A row written takes a cause away only from groups that depend on it, and they are pushed by the same step; one
popped either is restored or still has a cause.

## 11. How the modules meet

`LockManager` takes the budget's and reputation's answers as choices, and the cooldown's calls at any time; `LockService`
is what it promises, `LockCalls` what its callers see. `Cooldown` and `LockManager` meet in two mutexes, which `Cooldown` has
both of. `Orchestration` and `Topology` are composed with `LockCalls`. `Handover` has the lock manager beside it as
`LockManagerMoves`. `LockBudget` and `RateAlert` meet in one direction: the budget's records come at any time and may be
late, a freeze is one more refusal. All others call the managers they guard or dispose of, whose answers are choices.

## 12. Not modelled

* *Reputation*: statistics of holds, waits and violations become a score and a tier. What
  the tiers do is in `LockManager` (`Gold`, refusals). A crash between the row and the tier event loses the event; callers
  whose budget is deleted keep their tier.
* *HTTP API* and *server start*: requests become calls, managers are started in order; neither keeps state. What the order
  means for the cooldown's restore is in `Cooldown` (`Boot`).
* In the lock manager: storage errors while the process lives, methods called
  before `Start` (the cooldown and orchestration managers start earlier), query
  methods, history records. In the cooldown: heat statistics, alerts, suggestions, changes of the
  configuration. In the budget: warnings and exhaust events, period summaries.
* In the rate limiter: the arithmetic of refilling, events and statistics.
* In orchestration: `PreCheck`, which changes nothing. In topology: a crash inside a cascade, which
  keeps its locks until their leases end, and the history rows.
* In the handover: the numbers of a quota handed over, the expansion of a topology subtree into its resources, timeline, summaries.
* In debts: scopes and kinds of a restriction, grace periods, the ledger.
* In shadow plans: what a replay or mirror predicts and its rows of differences; `AddOverride` and `RemoveOverride`. That the
  audit log feeds both.
* Everywhere: queries, and storage errors while the process lives (a crash between the writes stands for them where the
  method returns; where the code goes on after an error it is left out).

## 13. What is proved, and what is only checked

| theorem | for every | from |
|---|---|---|
| `LockManagerProofs`: `TypeCorrect`, `LeaseInvariant`, `LeaseCorrect`, `Implements` | locks, callers, lease lengths, bounds | section 2 |
| `LockLifeProofs`: `TimedCorrect`, `QueueCorrect`, `EarlyCallbacksStale`, `RefusedBatchFrees`, `LongestServed`, `EnqueuesSafely` | the same, and timer objects | `TypeOK`, `LeaseInv`; section 2 |
| `CooldownProofs`: `TypeCorrect`, `MutexesOwned`, `OnlyTheseBlock`, `NoRevival`, `CapFollowsCooldown` | goroutines, rows, bounds | section 3 |
| `LockBudgetProofs`: `NoSecondChargedTwice`, `TransfersCovered`, `PeriodsCatchUp`, `ArrearsShrink` | callers, locks, limits, periods | section 4 |
| `RateLimitProofs`: `SpentCorrect`, `LoansCorrect`, `BookCorrect`, `ReservedCorrect`, `QueueCorrect` | callers, policies, amounts, reservations, requests | section 5 |
| `TransactionProofs`: `TokensCorrect` | transactions, requests, crashes | section 6 |
| `TransactionProofs`: `CascadesGiveBack` | holders, nodes, orders, other callers | section 6 |
| `TransactionProofs`: `AncestorsCorrect`, `DescendantsCorrect`, `RefusalsCorrect` | nodes, graphs, orders of the lists | section 6 |
| `ManagersProofs`: `HandoversCorrect` | callers, handovers, resources | section 7 |
| `ManagersProofs`: `DebtsPaid` | debts, rules, returns | section 8 |
| `ManagersProofs`: `HistoryCorrect` | callers, rules, calls at a time | the invariant says, for each job under `mu`, what its rows already tell: a "trip" has no open history row yet, a "recover" one too many |
| `ManagersProofs`: `AppliedCorrect` | plans, overrides, targets, methods at a time | the invariant: undoing what is applied so far, last first, gives `planAgreed`; proved over sequences, one override at a time |
| `ManagersProofs`: `FrozenWithCause` | callers, rules, lateness | the invariant: the last `consecutive` alerts in the table are half a window apart and the last one is `lastAlertAt` (`CountedAlertsStand`), and an alert being written is due (`AlertUnderWay`) |
| `ManagersProofs`: `FrozenCorrect`, `DegradedCorrect` | callers, resources, graphs of groups, crashes | section 10 |

The theorems use only the ASSUMEs of the modules they are about, which say that the inputs are of their
types, the sets that are summed over finite, and the markers ("none") none of the values they stand beside.

`CommonLemmas` has what several proofs need: what a sequence of tasks lists after its head is done or tasks are put before
it, and what a sum over a finite set does when one or two of its terms change. A sum is a fold, so
this is an induction; as the provers cannot use the library's induction theorems, which take an operator,
the lemmas take a smallest counterexample instead (`SmallestSet`), which exists because proper inclusion among the
subsets of a finite set is well founded.

Only model-checked: the seven liveness properties, as TLAPS has no rule here for fairness and ENABLED. Every invariant and action
property of a passing run is a theorem. The types of a module are proved as part of
its invariant and listed as a theorem only where a run checks them.

## 14. Plan

1. An abstract ledger of units that the budget should implement, where it can: the code does not
   conserve them across transfers and bills.
2. That `LockManager` implements `LockCalls`. The row of the old holder is cleared before the next one is known, so a
   mapping needs a history variable; and `LockCalls` has neither the gold reordering, between whose rows others see a
   shorter queue, nor crashes.
