------------------------------ MODULE Cooldown ------------------------------
(***************************************************************************)
(* The cooldown of one lock: internal/heatmap/manager.go, the calls it     *)
(* makes to internal/lock/manager.go and the calls it gets back, over the  *)
(* table lock_cooldown_states.                                             *)
(*                                                                         *)
(* Both managers have a mutex, and each calls the other while it may hold  *)
(* its own.  A thread is a goroutine in the middle of one operation;       *)
(* at[t].pc names what it does next.  A step reads or writes the table     *)
(* once, or takes or leaves a mutex.  A call that only waits for a mutex   *)
(* and leaves it (RecordLockRequest, AddCooldownHistory, ...) is a step    *)
(* that needs the mutex free.                                              *)
(*                                                                         *)
(* A definition whose comment begins "Faulty:" is no part of the model: it *)
(* is a slip one could make in the definition after it, kept to see that   *)
(* a property notices.                                                     *)
(***************************************************************************)
EXTENDS Naturals, Sequences, FiniteSets

CONSTANTS
  Operators,        \* goroutines of the HTTP calls that start and stop cooldowns
  Workers,          \* goroutines inside the lock manager: acquires, releases, expiries
  Checker,          \* the background goroutine, which runs checkCooldown
  Main,             \* the goroutine of main, which runs Start
  NoThread,         \* the owner of a free mutex
  Accelerated,      \* config: Cooldown.AcceleratedGrant
  HotCycles,        \* config: ConsecutiveHotCycles
  CoolCycles,       \* config: ResolveConsecutiveCycles
  MaxRows,          \* bound on rows of lock_cooldown_states
  MaxCrashes        \* bound on crashes

ASSUME ThreadsAssumption ==
  /\ Operators \cap Workers = {}
  /\ Checker \notin Operators \cup Workers
  /\ Main \notin Operators \cup Workers \cup {Checker}
  /\ NoThread \notin Operators \cup Workers \cup {Checker, Main}
ASSUME ConfigAssumption ==
  /\ Accelerated \in BOOLEAN
  /\ HotCycles \in Nat \ {0} /\ CoolCycles \in Nat \ {0}
  /\ MaxRows \in Nat /\ MaxCrashes \in Nat

VARIABLES
  rows,         \* lock_cooldown_states by id, with the history records of each
  lease,        \* the lock's lease: none, or its remaining time next to the cooldown's length
  heatmapMu,    \* who has heatmap.Manager.mu
  lockMu,       \* who has lock.Manager.mu
  capped,       \* lock.Manager.acceleratedGrants has the lock
  hot, cool,    \* consecutiveHotCycles, consecutiveCoolCycles
  at,           \* what each thread does
  up,           \* the process runs
  crashes,      \* history: crashes so far
  raced         \* history: two cooldown operations overlapped

mutexes == <<heatmapMu, lockMu>>
counters == <<hot, cool>>
process == <<up, crashes>>
vars == <<rows, lease, mutexes, capped, counters, at, process, raced>>

Changers == Operators \cup {Checker}
Threads == Changers \cup Workers \cup {Main}

Idle == [pc |-> "idle", id |-> 0, auto |-> FALSE, held |-> FALSE,
         read |-> 0, after |-> "idle"]

Active == {i \in DOMAIN rows : rows[i].status = "active"}
Busy(t) == at[t].pc # "idle"
Serving == up /\ ~Busy(Main)
GoTo(t, pc) == at' = [at EXCEPT ![t].pc = pc]
Return(t) == at' = [at EXCEPT ![t] = Idle]
NoteLast(t) == at' = [at EXCEPT ![t] = [Idle EXCEPT !.pc = "note"]]

(* An UPDATE that would make a second active row breaks the unique index:  *)
(* the error is logged and the table stays.                                *)
Update(i, status) ==
  IF status = "active" /\ Active \ {i} # {} THEN rows
  ELSE [rows EXCEPT ![i].status = status]

Init ==
  /\ rows = <<>>
  /\ lease = "none"
  /\ heatmapMu = NoThread /\ lockMu = NoThread
  /\ capped = FALSE
  /\ hot = 0 /\ cool = 0
  /\ at = [t \in Threads |-> Idle]
  /\ up = TRUE
  /\ crashes = 0
  /\ raced = FALSE

-----------------------------------------------------------------------------
(* In the lock manager.  A worker has lock.mu from its first step to its   *)
(* last and calls the heatmap in between.                                  *)

(* A lease is created; while the lock is capped a longer one is cut to the *)
(* cooldown's length and counted (pc "count"), else the method goes on.    *)
Grant(t, after) ==
  /\ lease' \in {"short", "long"}
  /\ capped => lease' = "short"
  /\ at' \in {[at EXCEPT ![t].pc = p, ![t].after = IF p = "count" THEN after ELSE "idle"]
              : p \in {after} \cup (IF capped THEN {"count"} ELSE {})}

(* Acquires come in by HTTP, which listens last.  Leases end from the boot *)
(* on: the timeouts of the orchestration's transactions release them, and  *)
(* those a release hands on expire.                                        *)
Enter(t) ==
  /\ up /\ ~Busy(t)
  /\ lockMu = NoThread
  /\ lockMu' = t
  /\ \/ Serving /\ GoTo(t, "request") /\ UNCHANGED lease
     \/ lease # "none" /\ lease' = "none" /\ GoTo(t, "released")
  /\ UNCHANGED <<rows, heatmapMu, capped, counters, process, raced>>

(* RecordLockRequest, then the request is turned down, queued or granted *)
Request(t) ==
  /\ at[t].pc = "request" /\ heatmapMu = NoThread
  /\ \/ Return(t) /\ lockMu' = NoThread /\ UNCHANGED lease
     \/ lease # "none" /\ GoTo(t, "enqueued") /\ UNCHANGED <<lockMu, lease>>
     \/ lease = "none" /\ Grant(t, "idle") /\ lockMu' = IF at'[t].pc = "idle"
                                                       THEN NoThread ELSE t
  /\ UNCHANGED <<rows, heatmapMu, capped, counters, process, raced>>

(* RecordLockEnqueue, RecordLockGrantedWithEnqueue: the last call of the   *)
(* method.                                                                 *)
Recorded(t) ==
  /\ at[t].pc \in {"enqueued", "granted"} /\ heatmapMu = NoThread
  /\ Return(t)
  /\ lockMu' = NoThread
  /\ UNCHANGED <<rows, lease, heatmapMu, capped, counters, process, raced>>

(* After a release or an expiry: nobody waits, the next waiter is granted  *)
(* the lock, or those that timed out are recorded first.                   *)
HandOn(t) ==
  \/ Return(t) /\ lockMu' = NoThread /\ UNCHANGED lease
  \/ Grant(t, "granted") /\ UNCHANGED lockMu

Released(t) ==
  /\ at[t].pc = "released"
  /\ HandOn(t) \/ (GoTo(t, "timedout") /\ UNCHANGED <<lockMu, lease>>)
  /\ UNCHANGED <<rows, heatmapMu, capped, counters, process, raced>>

(* RecordLockTimeoutWithEnqueue *)
TimedOut(t) ==
  /\ at[t].pc = "timedout" /\ heatmapMu = NoThread
  /\ HandOn(t)
  /\ UNCHANGED <<rows, heatmapMu, capped, counters, process, raced>>

(* Time, and renewals, which do not call the heatmap *)
Elapse ==
  /\ lease = "long"
  /\ lease' = "short"
  /\ UNCHANGED <<rows, mutexes, capped, counters, at, process, raced>>

Renew ==
  /\ Serving
  /\ lockMu = NoThread
  /\ lease = "short"
  /\ lease' = "long"
  /\ UNCHANGED <<rows, mutexes, capped, counters, at, process, raced>>

(* IncrementLeaseShortenedCount, called with lock.mu held: the row is read *)
(* before heatmap.mu is taken and written back whole, status included.     *)

(* Faulty: takes the count for the end of every method *)
EndCountUnlocked(t) ==
  /\ at' = [at EXCEPT ![t].pc = at[t].after, ![t].read = 0, ![t].after = "idle"]
  /\ lockMu' = NoThread

EndCount(t) ==
  /\ at' = [at EXCEPT ![t].pc = at[t].after, ![t].read = 0, ![t].after = "idle"]
  /\ lockMu' = IF at[t].after = "granted" THEN t ELSE NoThread

CountRead(t) ==
  /\ at[t].pc = "count"
  /\ \/ Active = {} /\ EndCount(t)
     \/ \E i \in Active :
          /\ at' = [at EXCEPT ![t].pc = "write", ![t].read = i]
          /\ UNCHANGED lockMu
  /\ UNCHANGED <<rows, lease, heatmapMu, capped, counters, process, raced>>

CountWrite(t) ==
  /\ at[t].pc = "write" /\ heatmapMu = NoThread
  /\ rows' = Update(at[t].read, "active")
  /\ EndCount(t)
  /\ UNCHANGED <<lease, heatmapMu, capped, counters, process, raced>>

-----------------------------------------------------------------------------
(* Bound: an operation starts a cooldown only if a row is left for it *)
Room(t) ==
  Len(rows) + Cardinality({u \in Changers \ {t} : at[u].pc \in {"start", "lease", "insert"}})
    < MaxRows

(* checkCooldown.  The configuration is read under heatmap.mu, then the    *)
(* active rows; how hot the lock was is up to the callers.                 *)

Begin(t, pc) ==
  /\ Serving /\ ~Busy(t)
  /\ GoTo(t, pc)
  /\ raced' = (raced \/ \E u \in Changers : Busy(u))

CheckBegin ==
  /\ heatmapMu = NoThread
  /\ Begin(Checker, "list")
  /\ UNCHANGED <<rows, lease, mutexes, capped, counters, process>>

CheckList ==
  /\ at[Checker].pc = "list"
  /\ \/ Active = {} /\ GoTo(Checker, "warm")
     \/ \E i \in Active :
          at' = [at EXCEPT ![Checker].pc = "chill", ![Checker].id = i]
  /\ UNCHANGED <<rows, lease, mutexes, capped, counters, process, raced>>

(* A cooldown runs: it stops once it is too old or there is no heat data,  *)
(* or after enough cool cycles.                                            *)
CheckActive ==
  /\ at[Checker].pc = "chill"
  /\ \/ GoTo(Checker, "stop") /\ UNCHANGED cool
     \/ Return(Checker) /\ cool' = 0
     \/ /\ cool' = IF cool < CoolCycles THEN cool + 1 ELSE cool
        /\ IF cool + 1 >= CoolCycles THEN GoTo(Checker, "stop")
                                     ELSE Return(Checker)
  /\ UNCHANGED <<rows, lease, mutexes, capped, hot, process, raced>>

(* None runs: one starts after enough hot cycles. *)
CheckInactive ==
  /\ at[Checker].pc = "warm"
  /\ \/ Return(Checker) /\ UNCHANGED counters
     \/ Return(Checker) /\ hot' = 0 /\ UNCHANGED cool
     \/ /\ Room(Checker)
        /\ hot' = IF hot < HotCycles THEN hot + 1 ELSE hot
        /\ cool' = 0
        /\ IF hot + 1 >= HotCycles
           THEN at' = [at EXCEPT ![Checker].pc = "start", ![Checker].auto = TRUE]
           ELSE Return(Checker)
  /\ UNCHANGED <<rows, lease, mutexes, capped, process, raced>>

-----------------------------------------------------------------------------
(* ManualStartCooldown; from pc "start" on also startCooldown *)

ManualStart(t) ==
  /\ Active = {}
  /\ Room(t)
  /\ Begin(t, "start")
  /\ UNCHANGED <<rows, lease, mutexes, capped, counters, process>>

(* Faulty: keeps heatmap.mu for the calls that follow *)
StartHeatKept(t) ==
  /\ at[t].pc = "start" /\ heatmapMu = NoThread
  /\ GoTo(t, "lease")
  /\ heatmapMu' = t
  /\ UNCHANGED <<rows, lease, lockMu, capped, counters, process, raced>>

StartHeat(t) ==
  /\ at[t].pc = "start" /\ heatmapMu = NoThread
  /\ GoTo(t, "lease")
  /\ UNCHANGED <<rows, lease, mutexes, capped, counters, process, raced>>

StartLease(t) ==
  /\ at[t].pc = "lease" /\ lockMu = NoThread
  /\ at' = [at EXCEPT ![t].pc = "insert", ![t].held = lease # "none"]
  /\ UNCHANGED <<rows, lease, mutexes, capped, counters, process, raced>>

(* The INSERT fails when a row is active by now, and so does the call.     *)
StartInsert(t) ==
  /\ at[t].pc = "insert"
  /\ \/ Active # {} /\ Return(t) /\ UNCHANGED rows
     \/ /\ Active = {}
        /\ Len(rows) < MaxRows
        /\ rows' = Append(rows, [status |-> "active", ends |-> 0])
        /\ at' = [at EXCEPT ![t].id = Len(rows) + 1, ![t].held = FALSE,
                            ![t].pc = IF at[t].held THEN "shorten" ELSE "accelerate"]
  /\ UNCHANGED <<lease, mutexes, capped, counters, process, raced>>

(* triggerCooldownActions: lock.ShortenLease, which fails when the lease   *)
(* has ended by now, ...                                                   *)
StartShorten(t) ==
  /\ at[t].pc = "shorten" /\ lockMu = NoThread
  /\ \/ lease = "none" /\ GoTo(t, "accelerate") /\ UNCHANGED <<lease, lockMu>>
     \/ /\ lease # "none"
        /\ lease' = "short"
        /\ lockMu' = t
        /\ at' = [at EXCEPT ![t].pc = "count", ![t].after = "rewrite"]
  /\ UNCHANGED <<rows, heatmapMu, capped, counters, process, raced>>

(* ... the row again, as the call made it, ... *)
StartRewrite(t) ==
  /\ at[t].pc = "rewrite" /\ heatmapMu = NoThread
  /\ rows' = Update(at[t].id, "active")
  /\ GoTo(t, "accelerate")
  /\ UNCHANGED <<lease, mutexes, capped, counters, process, raced>>

(* ... lock.SetAcceleratedGrant ... *)
StartAccelerate(t) ==
  /\ at[t].pc = "accelerate"
  /\ \/ at[t].auto /\ ~Accelerated /\ NoteLast(t) /\ UNCHANGED capped
     \/ /\ ~at[t].auto \/ Accelerated
        /\ lockMu = NoThread
        /\ capped' = TRUE
        /\ at' = [at EXCEPT ![t] = [Idle EXCEPT !.pc = "mirror"]]
  /\ UNCHANGED <<rows, lease, mutexes, counters, process, raced>>

(* ... and heatmap's own record of it, which nothing reads. *)
StartMirror(t) ==
  /\ at[t].pc = "mirror" /\ heatmapMu = NoThread
  /\ NoteLast(t)
  /\ UNCHANGED <<rows, lease, mutexes, capped, counters, process, raced>>

(* AddCooldownHistory *)
Note(t) ==
  /\ at[t].pc = "note" /\ lockMu = NoThread
  /\ Return(t)
  /\ UNCHANGED <<rows, lease, mutexes, capped, counters, process, raced>>

-----------------------------------------------------------------------------
(* ManualStopCooldown; from pc "stop" on also stopCooldown *)

ManualStop(t) ==
  /\ \E i \in Active :
       /\ Serving /\ ~Busy(t)
       /\ at' = [at EXCEPT ![t].pc = "stop", ![t].id = i]
  /\ raced' = (raced \/ \E u \in Changers : Busy(u))
  /\ UNCHANGED <<rows, lease, mutexes, capped, counters, process>>

StopResolve(t) ==
  /\ at[t].pc = "stop" /\ heatmapMu = NoThread
  /\ heatmapMu' = t
  /\ rows' = Update(at[t].id, "resolved")
  /\ GoTo(t, "record")
  /\ UNCHANGED <<lease, lockMu, capped, counters, process, raced>>

(* Faulty: leaves heatmap.mu before it calls the lock manager *)
StopRecordUnlocked(t) ==
  /\ at[t].pc = "record"
  /\ rows' = [rows EXCEPT ![at[t].id].ends = @ + 1]
  /\ heatmapMu' = NoThread
  /\ GoTo(t, "uncap")
  /\ UNCHANGED <<lease, lockMu, capped, counters, process, raced>>

(* CreateCooldownHistory *)
StopRecord(t) ==
  /\ at[t].pc = "record"
  /\ rows' = [rows EXCEPT ![at[t].id].ends = @ + 1]
  /\ GoTo(t, "uncap")
  /\ UNCHANGED <<lease, mutexes, capped, counters, process, raced>>

(* Faulty: forgets to leave heatmap.mu *)
StopUncapKept(t) ==
  /\ at[t].pc = "uncap" /\ lockMu = NoThread
  /\ capped' = FALSE
  /\ hot' = 0 /\ cool' = 0
  /\ NoteLast(t)
  /\ UNCHANGED <<rows, lease, mutexes, process, raced>>

StopUncap(t) ==
  /\ at[t].pc = "uncap" /\ lockMu = NoThread
  /\ capped' = FALSE
  /\ hot' = 0 /\ cool' = 0
  /\ heatmapMu' = NoThread
  /\ NoteLast(t)
  /\ UNCHANGED <<rows, lease, lockMu, process, raced>>

-----------------------------------------------------------------------------
(* The process dies and starts again.  main starts the other managers      *)
(* first (pc "boot"), then heatmap.Start, which has heatmap.mu until the   *)
(* end of the restore.                                                     *)

Crash ==
  /\ up
  /\ crashes < MaxCrashes
  /\ crashes' = crashes + 1
  /\ up' = FALSE
  /\ heatmapMu' = NoThread /\ lockMu' = NoThread
  /\ capped' = FALSE
  /\ hot' = 0 /\ cool' = 0
  /\ at' = [t \in Threads |-> Idle]
  /\ UNCHANGED <<rows, lease, raced>>

Boot ==
  /\ ~up
  /\ up' = TRUE
  /\ GoTo(Main, "boot")
  /\ UNCHANGED <<rows, lease, mutexes, capped, counters, crashes, raced>>

Start ==
  /\ at[Main].pc = "boot" /\ heatmapMu = NoThread
  /\ heatmapMu' = Main
  /\ GoTo(Main, "restore")
  /\ UNCHANGED <<rows, lease, lockMu, capped, counters, process, raced>>

(* Faulty: restores the row and not the cap *)
RestoreUncapped ==
  /\ at[Main].pc = "restore"
  /\ GoTo(Main, "peek")
  /\ UNCHANGED <<rows, lease, mutexes, capped, counters, process, raced>>

(* lock.SetAcceleratedGrant, if a cooldown is active *)
Restore ==
  /\ at[Main].pc = "restore"
  /\ Active # {} => lockMu = NoThread
  /\ capped' = (Active # {})
  /\ GoTo(Main, IF Active = {} THEN "started" ELSE "peek")
  /\ UNCHANGED <<rows, lease, mutexes, counters, process, raced>>

(* lock.GetActiveLease *)
RestorePeek ==
  /\ at[Main].pc = "peek" /\ lockMu = NoThread
  /\ GoTo(Main, IF lease = "long" THEN "reshorten" ELSE "started")
  /\ UNCHANGED <<rows, lease, mutexes, capped, counters, process, raced>>

(* lock.ShortenLease, which fails when the lease has ended by now.  Its    *)
(* IncrementLeaseShortenedCount then needs the heatmap.mu its caller has:  *)
(* what follows it in Start is never reached.                              *)
RestoreShorten ==
  /\ at[Main].pc = "reshorten" /\ lockMu = NoThread
  /\ \/ lease = "none" /\ GoTo(Main, "started") /\ UNCHANGED <<lease, lockMu>>
     \/ /\ lease # "none"
        /\ lease' = "short"
        /\ lockMu' = Main
        /\ at' = [at EXCEPT ![Main].pc = "count", ![Main].after = "started"]
  /\ UNCHANGED <<rows, heatmapMu, capped, counters, process, raced>>

RestoreEnd ==
  /\ at[Main].pc = "started"
  /\ heatmapMu' = NoThread
  /\ Return(Main)
  /\ UNCHANGED <<rows, lease, lockMu, capped, counters, process, raced>>

-----------------------------------------------------------------------------
MethodStep(t) ==
  \/ Request(t) \/ Recorded(t) \/ Released(t) \/ TimedOut(t)
  \/ CountRead(t) \/ CountWrite(t)

StartStep(t) ==
  \/ StartHeat(t) \/ StartLease(t) \/ StartInsert(t) \/ StartShorten(t)
  \/ StartRewrite(t) \/ StartAccelerate(t) \/ StartMirror(t) \/ Note(t)

StopStep(t) == StopResolve(t) \/ StopRecord(t) \/ StopUncap(t)

CheckStep == CheckList \/ CheckActive \/ CheckInactive

MainStep == Start \/ Restore \/ RestorePeek \/ RestoreShorten \/ RestoreEnd

Step(t) ==
  \/ MethodStep(t)
  \/ t \in Changers /\ (StartStep(t) \/ StopStep(t))
  \/ t = Checker /\ CheckStep
  \/ t = Main /\ MainStep

Next ==
  \/ \E t \in Workers : Enter(t)
  \/ \E t \in Operators : ManualStart(t) \/ ManualStop(t)
  \/ CheckBegin
  \/ \E t \in Threads : Step(t)
  \/ Elapse \/ Renew
  \/ Crash \/ Boot

(* Fairness.  A goroutine goes on as long as the mutex it waits for is     *)
(* free again and again: Go's sync.Mutex starves nobody.  A supervisor     *)
(* restarts the server.                                                    *)
Fairness == (\A t \in Threads : SF_vars(Step(t))) /\ WF_vars(Boot)

Spec == Init /\ [][Next]_vars
FairSpec == Spec /\ Fairness
-----------------------------------------------------------------------------
(* Properties *)

Pcs == {"idle", "request", "enqueued", "granted", "released", "timedout",
        "count", "write", "list", "chill", "warm", "start", "lease", "insert",
        "shorten", "rewrite", "accelerate", "mirror", "note", "stop", "record",
        "uncap", "boot", "restore", "peek", "reshorten", "started"}

RowType == [status : {"active", "resolved"}, ends : Nat]
AtType == [pc : Pcs, id : Nat, auto : BOOLEAN, held : BOOLEAN, read : Nat,
           after : {"idle", "granted", "rewrite", "started"}]

(* Every variable has its type. *)
TypeOK ==
  /\ rows \in Seq(RowType)
  /\ lease \in {"none", "short", "long"}
  /\ {heatmapMu, lockMu} \subseteq Threads \cup {NoThread}
  /\ capped \in BOOLEAN
  /\ hot \in Nat /\ cool \in Nat
  /\ at \in [Threads -> AtType]
  /\ up \in BOOLEAN
  /\ crashes \in Nat
  /\ raced \in BOOLEAN

(* What the thread waits for, if its next step takes a mutex *)
Wants(t) ==
  CASE at[t].pc \in {"request", "enqueued", "granted", "timedout", "write",
                     "start", "rewrite", "mirror", "stop", "boot"} -> {heatmapMu}
    [] at[t].pc \in {"lease", "shorten", "accelerate", "uncap", "note",
                     "peek", "reshorten"} -> {lockMu}
    [] at[t].pc = "restore" -> IF Active = {} THEN {} ELSE {lockMu}
    [] OTHER -> {}

(* Two threads, or one, wait for each other's mutex. *)
MutexCycle ==
  \E t, u \in Threads : u \in Wants(t) /\ t \in Wants(u)

(* A call always returns, unless two threads (or the restore alone) hold   *)
(* the two mutexes and wait for each other: no path of a method forgets a  *)
(* mutex, and there is no other way to hang.                               *)
CallsReturn == \A t \in Threads : Busy(t) ~> (~Busy(t) \/ MutexCycle)

(* Two threads block each other only inside stopCooldown or the restore:   *)
(* everybody else lets go of heatmap.mu before it calls the lock manager.  *)
OnlyStopAndRestoreBlock ==
  MutexCycle => heatmapMu = Main \/ at[heatmapMu].pc = "uncap"

(* Where a thread has heatmap.mu: in the middle of stopCooldown and in the *)
(* whole of heatmap.Start; ... *)
InHeatmap(t) ==
  at[t].pc \in {"record", "uncap"} \/ (t = Main /\ at[t].pc \notin {"idle", "boot"})

(* ... and where it has lock.mu. *)
InLock(t) ==
  at[t].pc \in {"request", "enqueued", "granted", "released", "timedout", "count", "write"}

MutexOwners ==
  \A t \in Threads : (InHeatmap(t) <=> heatmapMu = t) /\ (InLock(t) <=> lockMu = t)

(* While the process is down nobody runs, and while it starts nobody is in *)
(* a cooldown operation: a method of the lock manager may be under way.    *)
NoCooldownDuringStart ==
  /\ ~up => \A t \in Threads : ~Busy(t)
  /\ Busy(Main) => \A t \in Changers : ~Busy(t)

StartPath ==
  /\ at[Main].pc \in {"idle", "boot", "restore", "peek", "reshorten", "count", "write", "started"}
  /\ at[Main].pc \in {"count", "write"} => at[Main].after = "started"

(* A row that was read as active and will be written back as active is     *)
(* active still, or a stop of it has heatmap.mu and nobody can write it.   *)
ReadRowsStand ==
  \A t \in Threads :
    at[t].pc = "write" =>
      /\ at[t].read \in DOMAIN rows
      /\ rows[at[t].read].status = "active" \/ heatmapMu \in Changers

(* Each mutex has the owner that the code's control flow gives it: no path *)
(* of any method, failing ones included, takes a mutex twice or forgets    *)
(* it, and no stop of a cooldown ends between the read and the write of a  *)
(* row it stops.                                                           *)
MutexInv == MutexOwners /\ NoCooldownDuringStart /\ StartPath /\ ReadRowsStand

(* With no cooldown operation under way, and none that ever overlapped     *)
(* another one, the lock manager caps grants exactly while a cooldown is   *)
(* active: across starts, stops, grants in between, crashes and restores.  *)
CapMatchesCooldown ==
  (Accelerated /\ Serving /\ ~raced /\ \A t \in Changers : ~Busy(t))
    => capped = (Active # {})

(* A cooldown ends at most once, and an active one has not ended, as long  *)
(* as no two cooldown operations overlapped.                               *)
EndsOnce ==
  ~raced => \A i \in DOMAIN rows :
              rows[i].ends <= (IF rows[i].status = "active" THEN 0 ELSE 1)

(* Rows, cap and operations agree. *)
CooldownConsistent == TypeOK /\ CapMatchesCooldown /\ EndsOnce

(* The row that IncrementLeaseShortenedCount writes back never brings a    *)
(* resolved cooldown to life, although it was read before heatmap.mu was   *)
(* taken: its caller has lock.mu all along, and stopCooldown does not let  *)
(* go of heatmap.mu before it had lock.mu too.                             *)
CountRevivesNothing ==
  [][ \A t \in Threads, i \in DOMAIN rows :
        (at[t].pc = "write" /\ at'[t].pc # "write" /\ rows[i].status = "resolved" /\ up')
          => rows'[i].status = "resolved" ]_vars

(* What the answer of a stop says (success, handler.go), and a grant's:    *)
(* they are given, because nobody waits for the other's mutex.             *)
NoMutexCycle == ~MutexCycle
=============================================================================
