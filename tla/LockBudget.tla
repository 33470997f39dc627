----------------------------- MODULE LockBudget -----------------------------
(***************************************************************************)
(* The budgets of internal/lockbudget/manager.go: a caller pays a unit per *)
(* second for each lock it holds, out of a budget that is settled period   *)
(* by period, with overdraft, arrears and transfers between callers.       *)
(*                                                                         *)
(* Every exported method and the one-second poll run under Manager.mu and  *)
(* read the clock once.  Inside a method each storage write, with the      *)
(* change in memory that goes with it, is a step; "todo" holds what is     *)
(* left of the method, first task first, and mu is free when it is empty.  *)
(* The process may die between two steps: only the tables survive.  It     *)
(* never ends otherwise: main's deferred Stop calls are not reached.       *)
(*                                                                         *)
(* Time goes by in ticks of half a second, so that things happen between   *)
(* two seconds too.  A moment is kept relative to now: "left" is the ticks *)
(* until it (negative: past), "lag" the ticks since.                       *)
(*                                                                         *)
(* A definition whose comment begins "Faulty:" is no part of the model: it *)
(* is a slip one could make in the definition after it.                    *)
(***************************************************************************)
EXTENDS Integers, Sequences

CONSTANTS
  Callers,
  Locks,
  None,            \* no entry
  Limits, Periods, OverdraftLimits,   \* what SetBudget may be asked for
  LeaseSecs,       \* lease lengths of a holding, and what a renewal adds
  Amounts,         \* units of a transfer or a recharge
  MaxUnits,        \* bound: time stops while somebody has consumed more
  MaxLimit,        \* bound on a recharged limit
  MaxLate,         \* bound: ticks the end of a period may go unnoticed
  MaxNet,          \* bound: units a caller gains by transfers in a period
  MaxAge,          \* bound: ticks a lock is held
  MaxLease         \* bound: seconds a lease is renewed to

Config == [limit : Nat, period : Nat \ {0}, overdraftLimit : Nat]
Runtime == [limit : Nat, period : Nat \ {0}, overdraftLimit : Nat, consumed : Nat,
            overdraft : Nat, penalty : Nat, net : Int, left : Int]
Holding == [left : Int, lag : Nat]

ASSUME NoneAssumption == None \notin Config \cup Runtime \cup Holding
ASSUME RequestsAssumption ==
  /\ Limits \subseteq Nat \ {0} /\ Periods \subseteq Nat \ {0}
  /\ OverdraftLimits \subseteq Nat
  /\ LeaseSecs \subseteq Nat \ {0} /\ Amounts \subseteq Nat \ {0}
ASSUME BoundsAssumption ==
  /\ MaxUnits \in Nat /\ MaxLimit \in Nat /\ MaxLate \in Nat /\ MaxAge \in Nat
  /\ MaxLease \in Nat /\ MaxNet \in Nat

VARIABLES
  config,     \* table lock_budget_configs
  row,        \* table lock_budget_holdings, by caller and lock
  arrears,    \* table lock_budget_caller_arrears: the active amount, or 0
  callers,    \* Manager.callers; net is transferredIn - transferredOut
  holdings,   \* callerRuntimeState.holdings
  up,         \* the process runs
  todo,       \* what the method under mu still does
  meter       \* history: how long a lock is held, and units charged for it
              \* (penalties apart): on bills, and since the last bill

tables == <<config, row, arrears>>
memory == <<callers, holdings>>
vars == <<tables, memory, up, todo, meter>>

MutexFree == up /\ todo = <<>>
Task == Head(todo)
Doing(what) == todo # <<>> /\ Task.do = what
Done == todo' = Tail(todo)
Then(tasks) == todo' = tasks \o Tail(todo)

Known(c) == callers[c] # None
Open(c) == {l \in Locks : holdings[c][l] # None}
Owes(c) == arrears[c] > 0

Fresh(cfg) ==
  [limit |-> cfg.limit, period |-> cfg.period, overdraftLimit |-> cfg.overdraftLimit,
   consumed |-> 0, overdraft |-> 0, penalty |-> 0, net |-> 0,
   left |-> 2 * cfg.period]

NotMetered == [age |-> 0, billed |-> 0, unbilled |-> 0]

Init ==
  /\ config = [c \in Callers |-> None]
  /\ row = [c \in Callers |-> [l \in Locks |-> None]]
  /\ arrears = [c \in Callers |-> 0]
  /\ callers = [c \in Callers |-> None]
  /\ holdings = [c \in Callers |-> [l \in Locks |-> None]]
  /\ up = TRUE
  /\ todo = <<>>
  /\ meter = [c \in Callers |-> [l \in Locks |-> NotMetered]]

-----------------------------------------------------------------------------
(* Charging a holding *)

(* applyOverdraftPenaltyLocked: half as much again for what goes beyond    *)
(* the limit, rounded up, if the caller has an overdraft                   *)
Penalty(b, units) ==
  LET remaining == IF b.consumed < b.limit THEN b.limit - b.consumed ELSE 0
  IN  IF b.overdraftLimit = 0 \/ units <= remaining THEN 0
      ELSE (units - remaining + 1) \div 2

Charged(b, units) ==
  [b EXCEPT !.consumed = @ + units + Penalty(b, units),
            !.penalty = @ + Penalty(b, units)]

Overdrawn(b) ==
  [b EXCEPT !.overdraft = IF b.consumed > b.limit THEN b.consumed - b.limit ELSE @]

Count(c, l, units) ==
  meter' = [meter EXCEPT ![c][l].unbilled = @ + units]

(* UPDATE of last_metered_at *)
MeterRow(c, l, lag) ==
  row' = IF row[c][l] = None THEN row ELSE [row EXCEPT ![c][l].lag = lag]

-----------------------------------------------------------------------------
(* refreshCallerLocked and the poll: a period that is over is settled and  *)
(* reset, then every holding is metered and those past their end dropped.  *)

(* A loop over no lock is over, but for the bill that follows settling. *)
Loop(task) == IF task.locks = {} /\ task.do # "settle" THEN <<>> ELSE <<task>>

(* Faulty: does not look for arrears *)
SettlementUnchecked(c, end) ==
  [do |-> "settle", caller |-> c, owing |-> FALSE, end |-> end, locks |-> Open(c)]

Settlement(c, end) ==
  [do |-> "settle", caller |-> c, owing |-> Owes(c), end |-> end, locks |-> Open(c)]

Refresh ==
  /\ Doing("refresh")
  /\ LET c == Task.caller
         over == callers[c].left <= 0
         live == {l \in Open(c) : holdings[c][l].left > 0}
     IN  Then((IF over
               THEN <<Settlement(c, -callers[c].left),
                      [do |-> "reset", caller |-> c, owing |-> Owes(c)]>>
               ELSE <<>>)
              \o Loop([do |-> "meter", caller |-> c, owing |-> Owes(c), locks |-> live])
              \o Loop([do |-> "drop", caller |-> c, locks |-> Open(c) \ live]))
  /\ UNCHANGED <<tables, memory, up, meter>>

Poll ==
  /\ MutexFree
  /\ \E c \in Callers : Known(c)
  /\ todo' = <<[do |-> "poll", callers |-> {c \in Callers : Known(c)}]>>
  /\ UNCHANGED <<tables, memory, up, meter>>

PollNext(c) ==
  /\ Doing("poll")
  /\ c \in Task.callers
  /\ Then(<<[do |-> "refresh", caller |-> c]>>
           \o (IF Task.callers = {c} THEN <<>> ELSE <<[Task EXCEPT !.callers = @ \ {c}]>>))
  /\ UNCHANGED <<tables, memory, up, meter>>

LoopOn(l) == Then(Loop([Task EXCEPT !.locks = @ \ {l}]))

(* Faulty: remembers only in memory what it has charged *)
MeterUnrecorded(l) ==
  /\ Doing("meter")
  /\ l \in Task.locks
  /\ LET c == Task.caller
         lag == holdings[c][l].lag
         units == lag \div 2
     IN  IF Task.owing
         THEN /\ holdings' = [holdings EXCEPT ![c][l].lag = 0]
              /\ UNCHANGED <<callers, meter>>
         ELSE /\ callers' = [callers EXCEPT ![c] = Overdrawn(Charged(@, units))]
              /\ Count(c, l, units)
              /\ holdings' = [holdings EXCEPT ![c][l].lag = lag - 2 * units]
  /\ LoopOn(l)
  /\ UNCHANGED <<config, row, arrears, up>>

Meter(l) ==
  /\ Doing("meter")
  /\ l \in Task.locks
  /\ LET c == Task.caller
         lag == holdings[c][l].lag
         units == lag \div 2
     IN  \/ /\ Task.owing
            /\ holdings' = [holdings EXCEPT ![c][l].lag = 0]
            /\ MeterRow(c, l, 0)
            /\ UNCHANGED <<callers, meter>>
         \/ /\ ~Task.owing /\ units > 0
            /\ callers' = [callers EXCEPT ![c] = Overdrawn(Charged(@, units))]
            /\ Count(c, l, units)
            /\ holdings' = [holdings EXCEPT ![c][l].lag = lag - 2 * units]
            /\ MeterRow(c, l, lag - 2 * units)
         \/ /\ ~Task.owing /\ units = 0
            /\ UNCHANGED <<row, memory, meter>>
  /\ LoopOn(l)
  /\ UNCHANGED <<config, arrears, up>>

Drop(l) ==
  /\ Doing("drop")
  /\ l \in Task.locks
  /\ holdings' = [holdings EXCEPT ![Task.caller][l] = None]
  /\ row' = [row EXCEPT ![Task.caller][l] = None]
  /\ LoopOn(l)
  /\ UNCHANGED <<config, arrears, callers, up, meter>>

-----------------------------------------------------------------------------
(* finalizeCurrentPeriodLocked: charge what is open until the end of the   *)
(* period, write the bill, then the arrears the next period cannot bear.   *)

Settle(l) ==
  /\ Doing("settle")
  /\ l \in Task.locks
  /\ LET c == Task.caller
         lag == holdings[c][l].lag
         units == (lag - Task.end) \div 2
     IN  \/ /\ Task.owing /\ lag > Task.end
            /\ holdings' = [holdings EXCEPT ![c][l].lag = Task.end]
            /\ MeterRow(c, l, Task.end)
            /\ UNCHANGED <<callers, meter>>
         \/ /\ ~Task.owing /\ units > 0
            /\ callers' = [callers EXCEPT ![c] = Charged(@, units)]
            /\ Count(c, l, units)
            /\ holdings' = [holdings EXCEPT ![c][l].lag = Task.end]
            /\ MeterRow(c, l, Task.end)
         \/ /\ IF Task.owing THEN lag <= Task.end ELSE units <= 0
            /\ UNCHANGED <<row, memory, meter>>
  /\ LoopOn(l)
  /\ UNCHANGED <<config, arrears, up>>

CarryOver(b) ==
  LET balance == b.limit - b.consumed + b.net
  IN  IF balance < 0 THEN -balance ELSE 0

(* A caller in arrears gets no bill. *)
NoBill ==
  /\ Doing("settle") /\ Task.locks = {} /\ Task.owing
  /\ Done
  /\ UNCHANGED <<tables, memory, up, meter>>

Bill ==
  /\ Doing("settle") /\ Task.locks = {} /\ ~Task.owing
  /\ LET c == Task.caller
         excess == CarryOver(callers[c]) - callers[c].limit
     IN  /\ meter' = [meter EXCEPT ![c] =
              [l \in Locks |-> [meter[c][l] EXCEPT !.billed = @ + meter[c][l].unbilled,
                                                   !.unbilled = 0]]]
         /\ Then(IF excess > 0
                 THEN <<[do |-> "arrears", caller |-> c, amount |-> excess]>>
                 ELSE <<>>)
  /\ UNCHANGED <<tables, memory, up>>

CreateArrears ==
  /\ Doing("arrears")
  /\ arrears' = [arrears EXCEPT ![Task.caller] = Task.amount]
  /\ Done
  /\ UNCHANGED <<config, row, memory, up, meter>>

-----------------------------------------------------------------------------
(* The reset after a settlement: as many periods further as have gone by   *)
(* unnoticed, counted in whole seconds.                                    *)

(* Faulty: leaves out the period that has begun *)
PeriodsPassed(b) ==
  LET elapsed == (-b.left) \div 2
  IN  IF elapsed > b.period THEN elapsed \div b.period ELSE 1

PeriodsToAdvance(b) ==
  LET elapsed == (-b.left) \div 2
  IN  IF elapsed > b.period
      THEN elapsed \div b.period + (IF elapsed % b.period > 0 THEN 1 ELSE 0)
      ELSE 1

Unmetered(c) ==
  holdings' = [holdings EXCEPT ![c] =
    [l \in Locks |-> IF holdings[c][l] = None THEN None
                     ELSE [holdings[c][l] EXCEPT !.lag = 0]]]

Reset ==
  /\ Doing("reset")
  /\ LET c == Task.caller
         b == callers[c]
     IN  /\ callers' = [callers EXCEPT ![c] =
              [b EXCEPT !.consumed = IF Task.owing THEN 0 ELSE b.overdraft + b.penalty,
                        !.overdraft = 0, !.penalty = 0, !.net = 0,
                        !.left = @ + 2 * b.period * PeriodsToAdvance(b)]]
         /\ Unmetered(c)
  /\ Done
  /\ UNCHANGED <<tables, up, meter>>

-----------------------------------------------------------------------------
(* Calls of the lock manager.  CheckAcquire, and every query of a caller's *)
(* budget, refresh it; the check of a caller in arrears changes nothing.   *)

CheckAcquire(c) ==
  /\ MutexFree /\ Known(c)
  /\ todo' = <<[do |-> "refresh", caller |-> c]>>
  /\ UNCHANGED <<tables, memory, up, meter>>

StartHolding(c, l, sec) ==
  /\ MutexFree /\ Known(c)
  /\ \A d \in Callers \ {c} : holdings[d][l] = None   \* the lock manager's part
  /\ holdings' = [holdings EXCEPT ![c][l] = [left |-> 2 * sec, lag |-> 0]]
  /\ row' = [row EXCEPT ![c][l] = [left |-> 2 * sec, lag |-> 0]]
  /\ meter' = [meter EXCEPT ![c][l] = NotMetered]
  /\ UNCHANGED <<config, arrears, callers, up, todo>>

(* A second that began is paid. *)
StopHolding(c, l) ==
  /\ MutexFree /\ Known(c)
  /\ holdings[c][l] # None
  /\ LET units == (holdings[c][l].lag + 1) \div 2 IN
       /\ callers' = [callers EXCEPT ![c] =
            IF units > 0 THEN Overdrawn(Charged(@, units)) ELSE @]
       /\ Count(c, l, units)
  /\ holdings' = [holdings EXCEPT ![c][l] = None]
  /\ row' = [row EXCEPT ![c][l] = None]
  /\ UNCHANGED <<config, arrears, up, todo>>

(* RenewLease renews no lease past its end. *)
RenewHolding(c, l, sec) ==
  /\ MutexFree /\ Known(c)
  /\ holdings[c][l] # None /\ holdings[c][l].left \in 0..(2 * (MaxLease - sec))
  /\ holdings' = [holdings EXCEPT ![c][l].left = @ + 2 * sec]
  /\ row' = IF row[c][l] = None THEN row ELSE [row EXCEPT ![c][l].left = holdings[c][l].left + 2 * sec]
  /\ UNCHANGED <<config, arrears, callers, up, todo, meter>>

-----------------------------------------------------------------------------
(* TransferBudget: both callers are refreshed before the balance is read.  *)

TransferTask(from, to, n) == [do |-> "transfer", from |-> from, to |-> to, amount |-> n]

(* Faulty: reads the balance of the last poll *)
TransferUnrefreshed(from, to, n) ==
  /\ MutexFree /\ Known(from) /\ Known(to) /\ from # to
  /\ callers[to].net + n <= MaxNet
  /\ todo' = <<[do |-> "refresh", caller |-> to], TransferTask(from, to, n)>>
  /\ UNCHANGED <<tables, memory, up, meter>>

TransferBudget(from, to, n) ==
  /\ MutexFree /\ Known(from) /\ Known(to) /\ from # to
  /\ callers[to].net + n <= MaxNet
  /\ todo' = <<[do |-> "refresh", caller |-> from], [do |-> "refresh", caller |-> to],
               TransferTask(from, to, n)>>
  /\ UNCHANGED <<tables, memory, up, meter>>

Covered == callers[Task.from].limit - callers[Task.from].consumed >= Task.amount

Transfer ==
  /\ Doing("transfer") /\ Covered
  /\ LET to == callers[Task.to]
         left == to.consumed - Task.amount
         consumed == IF left < 0 THEN 0 ELSE left
     IN  callers' = [callers EXCEPT
           ![Task.from].consumed = @ + Task.amount,
           ![Task.from].net = @ - Task.amount,
           ![Task.to] = Overdrawn([to EXCEPT !.consumed = consumed, !.overdraft = 0,
                                             !.net = @ + Task.amount])]
  /\ Done
  /\ UNCHANGED <<tables, holdings, up, meter>>

TransferRefused ==
  /\ Doing("transfer") /\ ~Covered
  /\ Done
  /\ UNCHANGED <<tables, memory, up, meter>>

-----------------------------------------------------------------------------
(* SetBudgetWithOverdraft and DeleteBudget settle what there is up to now. *)

SetBudget(c, cfg) ==
  /\ MutexFree
  /\ todo' = (IF Known(c) THEN <<Settlement(c, 0)>> ELSE <<>>)
               \o <<[do |-> "configure", caller |-> c, config |-> cfg]>>
  /\ UNCHANGED <<tables, memory, up, meter>>

Configure ==
  /\ Doing("configure")
  /\ callers' = [callers EXCEPT ![Task.caller] = Fresh(Task.config)]
  /\ config' = [config EXCEPT ![Task.caller] = Task.config]
  /\ Unmetered(Task.caller)
  /\ Done
  /\ UNCHANGED <<row, arrears, up, meter>>

DeleteBudget(c) ==
  /\ MutexFree /\ Known(c)
  /\ todo' = <<Settlement(c, 0)>> \o Loop([do |-> "drop", caller |-> c, locks |-> Open(c)])
               \o <<[do |-> "forget", caller |-> c]>>
  /\ UNCHANGED <<tables, memory, up, meter>>

Forget ==
  /\ Doing("forget")
  /\ callers' = [callers EXCEPT ![Task.caller] = None]
  /\ config' = [config EXCEPT ![Task.caller] = None]
  /\ Done
  /\ UNCHANGED <<row, arrears, holdings, up, meter>>

(* RechargeBudget: one transaction pays arrears first and adds the rest to *)
(* the limit.                                                              *)
RechargeBudget(c, n) ==
  /\ MutexFree
  /\ config[c] # None
  /\ LET paid == IF n < arrears[c] THEN n ELSE arrears[c]
         limit == config[c].limit + n - paid
     IN  /\ limit <= MaxLimit
         /\ arrears' = [arrears EXCEPT ![c] = @ - paid]
         /\ config' = [config EXCEPT ![c].limit = limit]
         /\ callers' = IF Known(c) THEN [callers EXCEPT ![c].limit = limit] ELSE callers
  /\ UNCHANGED <<row, holdings, up, todo, meter>>

-----------------------------------------------------------------------------
(* The process dies, with what was consumed since the last bill; Start     *)
(* begins a period for everyone and takes up the holdings that still run.  *)

Crash ==
  /\ up
  /\ up' = FALSE
  /\ todo' = <<>>
  /\ callers' = [c \in Callers |-> None]
  /\ holdings' = [c \in Callers |-> [l \in Locks |-> None]]
  /\ meter' = [c \in Callers |-> [l \in Locks |-> [meter[c][l] EXCEPT !.unbilled = 0]]]
  /\ UNCHANGED tables

Running(r) == r # None /\ r.left >= 0

Start ==
  /\ ~up
  /\ up' = TRUE
  /\ callers' = [c \in Callers |-> IF config[c] = None THEN None ELSE Fresh(config[c])]
  /\ holdings' = [c \in Callers |-> [l \in Locks |->
       IF config[c] # None /\ Running(row[c][l]) THEN row[c][l] ELSE None]]
  /\ UNCHANGED <<tables, todo, meter>>

-----------------------------------------------------------------------------
(* Half a second goes by.  A row past its end is not read again.           *)
Older(h) == [left |-> h.left - 1, lag |-> h.lag + 1]
Held(c, l) == holdings[c][l] # None \/ Running(row[c][l])

Tick ==
  /\ todo = <<>>
  /\ \A c \in Callers : Known(c) => /\ callers[c].left > -MaxLate
                                    /\ callers[c].consumed <= MaxUnits
  /\ \A c \in Callers, l \in Locks : Held(c, l) => meter[c][l].age < MaxAge
  /\ callers' = [c \in Callers |-> IF Known(c) THEN [callers[c] EXCEPT !.left = @ - 1] ELSE None]
  /\ holdings' = [c \in Callers |-> [l \in Locks |->
       IF holdings[c][l] = None THEN None ELSE Older(holdings[c][l])]]
  /\ row' = [c \in Callers |-> [l \in Locks |->
       IF Running(row[c][l]) THEN Older(row[c][l])
       ELSE IF row[c][l] = None THEN None ELSE [row[c][l] EXCEPT !.lag = 0]]]
  /\ meter' = [c \in Callers |-> [l \in Locks |->
       IF Held(c, l) THEN [meter[c][l] EXCEPT !.age = @ + 1] ELSE NotMetered]]
  /\ UNCHANGED <<config, arrears, up, todo>>

-----------------------------------------------------------------------------
CallOf(c) ==
  \/ CheckAcquire(c)
  \/ \E l \in Locks :
       \/ StopHolding(c, l)
       \/ \E sec \in LeaseSecs : StartHolding(c, l, sec) \/ RenewHolding(c, l, sec)
  \/ \E limit \in Limits, period \in Periods, overdraft \in OverdraftLimits :
       SetBudget(c, [limit |-> limit, period |-> period, overdraftLimit |-> overdraft])
  \/ DeleteBudget(c)
  \/ \E n \in Amounts : \/ RechargeBudget(c, n)
                        \/ \E d \in Callers : TransferBudget(c, d, n)

Call == \E c \in Callers : CallOf(c)

MethodStep ==
  \/ Refresh
  \/ \E c \in Callers : PollNext(c)
  \/ \E l \in Locks : Meter(l) \/ Drop(l) \/ Settle(l)
  \/ NoBill \/ Bill \/ CreateArrears \/ Reset
  \/ Transfer \/ TransferRefused
  \/ Configure \/ Forget

Next == Call \/ Poll \/ MethodStep \/ Crash \/ Start \/ Tick

Spec == Init /\ [][Next]_vars
-----------------------------------------------------------------------------
(* Properties *)

LocksLoop == [do : {"meter"}, caller : Callers, owing : BOOLEAN, locks : SUBSET Locks]
             \cup [do : {"drop"}, caller : Callers, locks : SUBSET Locks]
             \cup [do : {"settle"}, caller : Callers, owing : BOOLEAN, end : Nat,
                   locks : SUBSET Locks]
TaskType ==
  LocksLoop
  \cup [do : {"poll"}, callers : SUBSET Callers]
  \cup [do : {"refresh", "forget"}, caller : Callers]
  \cup [do : {"reset"}, caller : Callers, owing : BOOLEAN]
  \cup [do : {"arrears"}, caller : Callers, amount : Nat]
  \cup [do : {"configure"}, caller : Callers, config : Config]
  \cup [do : {"transfer"}, from : Callers, to : Callers, amount : Nat]

(* Every variable has its type. *)
TypeOK ==
  /\ config \in [Callers -> Config \cup {None}]
  /\ row \in [Callers -> [Locks -> Holding \cup {None}]]
  /\ arrears \in [Callers -> Nat]
  /\ callers \in [Callers -> Runtime \cup {None}]
  /\ holdings \in [Callers -> [Locks -> Holding \cup {None}]]
  /\ up \in BOOLEAN
  /\ todo \in Seq(TaskType)
  /\ meter \in [Callers -> [Locks -> [age : Nat, billed : Nat, unbilled : Nat]]]

(* A caller is never charged twice for the same second: what is on its     *)
(* bills for a lock, what it was charged since the last one, and what is   *)
(* still to be charged from last_metered_at on, fit into the time it has   *)
(* held the lock - in memory, and in the row a restart goes on from, which *)
(* may be older than what memory and the bills know.  Once the lock is     *)
(* given up, less than a second may be charged on top, for rounding up.    *)
NeverOvercharged ==
  \A c \in Callers, l \in Locks :
    /\ holdings[c][l] # None =>
         2 * (meter[c][l].billed + meter[c][l].unbilled) + holdings[c][l].lag
           <= meter[c][l].age
    /\ Running(row[c][l]) =>
         2 * meter[c][l].billed + row[c][l].lag <= meter[c][l].age
    /\ ~Held(c, l) =>
         2 * (meter[c][l].billed + meter[c][l].unbilled) <= meter[c][l].age + 1

(* Tables, memory and meters agree. *)
MeteringConsistent == TypeOK /\ NeverOvercharged

(* However late the end of a period is noticed, the reset finds the period *)
(* that now is: its end lies ahead, by one period at most, or less than a  *)
(* second back (elapsed time is counted in whole seconds).                 *)
PeriodCatchesUp ==
  [][ \A c \in Callers :
        (Doing("reset") /\ Task.caller = c /\ up') =>
          callers'[c].left \in (-1)..(2 * callers[c].period) ]_vars

(* No settlement takes back or replaces arrears: an active debt only       *)
(* shrinks, by what is paid, whatever periods end, budgets are deleted and *)
(* set anew, or processes die meanwhile.                                   *)
ArrearsOnlyPaid ==
  [][ \A c \in Callers : Owes(c) =>
        /\ arrears'[c] <= arrears[c]
        /\ arrears'[c] < arrears[c] => todo = <<>> ]_vars

(* A caller gives away only what it has not used: at a transfer its whole  *)
(* seconds of holding up to now are charged, and with what it gives it     *)
(* stays within its limit.                                                 *)
TransferWithinBudget ==
  [][ \A c \in Callers :
        (Doing("transfer") /\ Task.from = c /\ up' /\ callers' # callers) =>
          /\ callers'[c].consumed <= callers'[c].limit
          /\ \A l \in Open(c) : holdings[c][l].lag < 2 ]_vars
=============================================================================
