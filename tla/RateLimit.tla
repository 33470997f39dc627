------------------------------ MODULE RateLimit ------------------------------
(***************************************************************************)
(* The token limiter of internal/ratelimit/manager.go: callers bound to a  *)
(* policy spend tokens, queue for them, lend their quota to each other and *)
(* reserve more of it for a time to come.                                  *)
(*                                                                         *)
(* Every method and the 500 ms refill tick run under Manager.mu and read   *)
(* the clock once.  Each write to a table that follows a change in memory  *)
(* is a step of its own: "todo" holds what is left of the method, first    *)
(* task first, and mu is free when it is empty.  The process may die       *)
(* between two steps: only the tables survive (Stop is never reached).     *)
(*                                                                         *)
(* How much the three algorithms give back depends on fractions of a       *)
(* second; a tick may give back whatever the algorithm can.                *)
(*                                                                         *)
(* A definition whose comment begins "Faulty:" is no part of the model: it *)
(* is a slip one could make in the definition after it.                    *)
(***************************************************************************)
EXTENDS Integers, Sequences, FiniteSetsExt, SequencesExt

CONSTANTS
  Callers,
  Policies,
  None,            \* no entry
  Algorithms,      \* of a new policy: "fixed_window", "token_bucket", "sliding_window"
  MaxTokens,       \* of every policy
  Quotas,          \* what BindCaller may be asked for
  NewQuotas,       \* and AdjustQuota
  Amounts,         \* tokens of a request, a loan, a return or a reservation
  Waits,           \* how long a request may wait
  Starts, Lengths, \* how far ahead a reservation begins (< 0: in the past) and
                   \* how long it lasts
  Reservations,    \* bound: identifiers of reservations, 1..n
  Items,           \* bound: identifiers of requests that wait
  MaxNow,          \* bound on the clock
  MaxRows,         \* bound on the queue, the loans and the reservations, together
  Crashes          \* bound on the number of crashes

CallerBinding ==
  [policy : Policies, quota : Nat, used : Nat, borrowed : Nat, lent : Nat, reserved : Nat]
WaitItem == [id : Items, caller : Callers, tokens : Nat, until : Nat]
QuotaReservation ==
  [policy : Policies, caller : Callers, tokens : Nat, start : Int, end : Int,
   status : {"pending", "active", "completed", "cancelled"}]

ASSUME NoneAssumption ==
  None \notin {"fixed_window", "token_bucket", "sliding_window"} \cup CallerBinding
                \cup QuotaReservation
ASSUME InputsAssumption ==
  /\ Quotas \subseteq Nat /\ NewQuotas \subseteq Nat
  /\ Amounts \subseteq Nat \ {0} /\ Starts \subseteq Int /\ Lengths \subseteq Nat
  /\ Waits \subseteq Nat \ {0} /\ MaxTokens \in Nat
ASSUME BoundsAssumption ==
  /\ MaxNow \in Nat /\ MaxRows \in Nat /\ Crashes \in Nat
  /\ Reservations \subseteq Nat /\ Items \subseteq Nat
  /\ IsFiniteSet(Reservations) /\ IsFiniteSet(Callers)

VARIABLES
  policies,      \* Manager.policies and table rl_policies: the algorithm
  bindings,      \* Manager.bindings
  waitQueue,     \* Manager.waitQueue
  reservations,  \* Manager.reservations
  bindingRow,    \* table rl_caller_bindings
  waitRows,      \* table rl_wait_queue
  reservationRow,\* table rl_reservations
  loans,         \* table rl_borrow_records: how many are active, by lender,
                 \* borrower and amount
  now,
  up,            \* the process runs
  todo,          \* what the method under mu still does
  crashes,       \* how often the process has died
  torn,          \* history: a crash cut a reservation's two writes apart
  rebound        \* history: a caller was bound again

memory == <<bindings, waitQueue, reservations>>
tables == <<policies, bindingRow, waitRows, reservationRow, loans>>
history == <<crashes, torn, rebound>>
vars == <<memory, tables, now, up, todo, history>>

MutexFree == up /\ todo = <<>>
Task == Head(todo)
Doing(what) == todo # <<>> /\ Task.do = what
Done == todo' = Tail(todo)
Then(tasks) == todo' = tasks \o Tail(todo)

Minimum(a, b) == IF a < b THEN a ELSE b
Less(a, b) == IF a > b THEN a - b ELSE 0

(* A caller's binding as BindCaller writes it *)
Fresh(policy, quota) ==
  [policy |-> policy, quota |-> quota, used |-> 0, borrowed |-> 0, lent |-> 0,
   reserved |-> 0]

Bound == {c \in Callers : bindings[c] # None}
Room ==
  Cardinality(waitRows) + FoldFunction(+, 0, loans)
    + Cardinality({r \in Reservations : reservationRow[r] # None}) < MaxRows
Known == {r \in Reservations : reservations[r] # None}

Init ==
  /\ policies = [p \in Policies |-> None]
  /\ bindings = [c \in Callers |-> None] /\ bindingRow = bindings
  /\ waitQueue = <<>> /\ waitRows = {}
  /\ reservations = [r \in Reservations |-> None] /\ reservationRow = reservations
  /\ loans = [l \in Callers \X Callers \X Amounts |-> 0]
  /\ now = 0 /\ up = TRUE /\ todo = <<>>
  /\ crashes = 0 /\ torn = FALSE /\ rebound = FALSE

-----------------------------------------------------------------------------
(* What a binding may spend *)

EffectiveLimit(b) ==
  Less(Minimum(b.quota, MaxTokens) + b.borrowed + b.reserved, b.lent)

Remaining(b) == Less(EffectiveLimit(b), b.used)

(* The window is over or it is not; a bucket is refilled, and the count of *)
(* a sliding window decays, by any part: both round what is left down.     *)
Ticked(b) ==
  {[b EXCEPT !.used = n] :
     n \in IF policies[b.policy] = "fixed_window" THEN {0, b.used} ELSE 0..b.used}

(* completeReservationLocked and others cut what is used to the limit.     *)
Clamped(b) == [b EXCEPT !.used = Minimum(@, EffectiveLimit(b))]

(* Faulty: forgets that less may be left than was spent *)
UnreservedOnly(b, tokens) == [b EXCEPT !.reserved = Less(@, tokens)]

Unreserved(b, tokens) == Clamped([b EXCEPT !.reserved = Less(@, tokens)])

WriteBinding(c) == [do |-> "binding", caller |-> c]
WriteStatus(r) == [do |-> "status", reservation |-> r]
RemoveItem(item) == [do |-> "remove", id |-> item.id]

(* What the storage does for a method's first write, at once with the     *)
(* change in memory that goes with it: a crash in between leaves neither.  *)
UpsertCallerBinding(c, b) == bindingRow' = [bindingRow EXCEPT ![c] = b]
AddWaitItem(item) == waitRows' = waitRows \cup {item}
InsertReservation(r, new) == reservationRow' = [reservationRow EXCEPT ![r] = new]
CreateBorrowRecord(f, t, amount) == loans' = [loans EXCEPT ![<<f, t, amount>>] = @ + 1]

(* UPDATE rl_caller_bindings: the row becomes what memory holds *)
UpdateCallerBinding ==
  /\ Doing("binding")
  /\ bindingRow' = [bindingRow EXCEPT ![Task.caller] = bindings[Task.caller]]
  /\ Done
  /\ UNCHANGED <<memory, policies, waitRows, reservationRow, loans, now, up, history>>

UpdateReservationStatus ==
  /\ Doing("status")
  /\ reservationRow' = [reservationRow EXCEPT ![Task.reservation].status =
                          reservations[Task.reservation].status]
  /\ Done
  /\ UNCHANGED <<memory, policies, bindingRow, waitRows, loans, now, up, history>>

(* Faulty: leaves the row of a granted or expired request *)
RemoveWaitItemNever ==
  /\ Doing("remove")
  /\ Done
  /\ UNCHANGED <<memory, tables, now, up, history>>

RemoveWaitItem ==
  /\ Doing("remove")
  /\ waitRows' = {item \in waitRows : item.id # Task.id}
  /\ Done
  /\ UNCHANGED <<memory, policies, bindingRow, reservationRow, loans, now, up, history>>

-----------------------------------------------------------------------------
(* Policies, bindings, tokens *)

CreatePolicy(p, algorithm) ==
  /\ MutexFree /\ policies[p] = None
  /\ policies' = [policies EXCEPT ![p] = algorithm]
  /\ UNCHANGED <<memory, bindingRow, waitRows, reservationRow, loans, now, up, todo, history>>

(* A caller that is bound already starts anew: what it has lent, borrowed  *)
(* and reserved is forgotten on its side only.                             *)
BindCaller(c, p, quota) ==
  /\ MutexFree /\ policies[p] # None
  /\ ~(rebound /\ c \in Bound)   \* bound: once
  /\ bindings' = [bindings EXCEPT ![c] = Fresh(p, quota)]
  /\ UpsertCallerBinding(c, Fresh(p, quota))
  /\ rebound' = (rebound \/ c \in Bound)
  /\ UNCHANGED <<policies, waitQueue, reservations, waitRows, reservationRow,
                 loans, now, up, todo, crashes, torn>>

RequestTokens(c, tokens) ==
  /\ MutexFree /\ c \in Bound
  /\ \E b \in Ticked(bindings[c]) :
       bindings' = [bindings EXCEPT ![c] =
         IF Remaining(b) >= tokens THEN [b EXCEPT !.used = @ + tokens] ELSE b]
  /\ todo' = <<WriteBinding(c)>>
  /\ UNCHANGED <<waitQueue, reservations, tables, now, up, history>>

(* The ids grow: the next one is greater than those in the table. An id    *)
(* whose row is gone may serve again, where AUTOINCREMENT takes a new one: *)
(* nothing names it any more.                                              *)
NextItem(n) ==
  /\ \A item \in waitRows : item.id < n
  /\ \A k \in Items : k < n => \E item \in waitRows : k <= item.id

(* The same with waitable set, when there are too few *)
Enqueue(c, tokens, wait) ==
  /\ MutexFree /\ c \in Bound
  /\ Room /\ now + wait <= MaxNow
  /\ \E b \in Ticked(bindings[c]) :
       /\ Remaining(b) < tokens
       /\ bindings' = [bindings EXCEPT ![c] = b]
  /\ \E n \in Items :
       LET item == [id |-> n, caller |-> c, tokens |-> tokens, until |-> now + wait]
       IN  /\ NextItem(n) /\ AddWaitItem(item)
           /\ waitQueue' = Append(waitQueue, item)
  /\ todo' = <<WriteBinding(c)>>
  /\ UNCHANGED <<policies, reservations, bindingRow, reservationRow, loans, now, up, history>>

ReturnTokens(c, tokens) ==
  /\ MutexFree /\ c \in Bound
  /\ \E b \in Ticked(bindings[c]) :
       bindings' = [bindings EXCEPT ![c] = [b EXCEPT !.used = Less(@, tokens)]]
  /\ todo' = <<WriteBinding(c)>>
  /\ UNCHANGED <<waitQueue, reservations, tables, now, up, history>>

AdjustQuota(c, quota) ==
  /\ MutexFree /\ c \in Bound
  /\ \E b \in Ticked(bindings[c]) :
       bindings' = [bindings EXCEPT ![c] = Clamped([b EXCEPT !.quota = quota])]
  /\ todo' = <<WriteBinding(c)>>
  /\ UNCHANGED <<waitQueue, reservations, tables, now, up, history>>

-----------------------------------------------------------------------------
(* Loans of quota: "f" gives "t" a part of its limit. *)

Lend(bs, f, t, amount) ==
  LET lent == [bs EXCEPT ![f].lent = @ + amount]
      both == [lent EXCEPT ![t].borrowed = @ + amount]
  IN  [both EXCEPT ![f] = Clamped(@)]

TickedBoth(f, t) ==
  {[bindings EXCEPT ![f] = b, ![t] = IF t = f THEN b ELSE d] :
     b \in Ticked(bindings[f]), d \in Ticked(bindings[t])}

(* CreateBorrowRecord is the first write: a crash before it leaves nothing. *)
Borrow(f, t, amount, writes) ==
  /\ MutexFree /\ {f, t} \subseteq Bound
  /\ Room
  /\ \E bs \in TickedBoth(f, t) :
       \/ /\ Remaining(bs[f]) >= amount
          /\ bindings' = Lend(bs, f, t, amount)
          /\ CreateBorrowRecord(f, t, amount)
          /\ todo' = writes
       \/ /\ Remaining(bs[f]) < amount
          /\ bindings' = bs
          /\ UNCHANGED <<loans, todo>>
  /\ UNCHANGED <<policies, waitQueue, reservations, bindingRow, waitRows, reservationRow,
                 now, up, history>>

(* Faulty: the borrower's row before the lender's *)
BorrowQuotaUnordered(f, t, amount) ==
  Borrow(f, t, amount, <<WriteBinding(t), WriteBinding(f)>>)

BorrowQuota(f, t, amount) ==
  Borrow(f, t, amount, <<WriteBinding(f), WriteBinding(t)>>)

(* ReturnBorrow looks for the record under the two callers as they are     *)
(* given here, borrower first; BorrowQuota has recorded the lender first.  *)
ReturnBorrow(f, t, amount) ==
  [loans EXCEPT ![<<f, t, amount>>] = Less(@, 1)]

(* "f" gives "t" back what it has borrowed. *)
ReturnQuota(f, t, amount) ==
  /\ MutexFree /\ {f, t} \subseteq Bound
  /\ bindings[f].borrowed >= amount /\ bindings[t].lent >= amount
  /\ LET less == [bindings EXCEPT ![f].borrowed = @ - amount]
         both == [less EXCEPT ![t].lent = @ - amount]
     IN  bindings' = [both EXCEPT ![f] = Clamped(@)]
  /\ loans' = ReturnBorrow(f, t, amount)
  /\ todo' = <<WriteBinding(f), WriteBinding(t)>>
  /\ UNCHANGED <<policies, waitQueue, reservations, bindingRow, waitRows, reservationRow,
                 now, up, history>>

-----------------------------------------------------------------------------
(* Reservations: from start to end the caller's limit is higher. *)

Pending(r) == reservations[r].status = "pending"
Active(r) == reservations[r].status = "active"
Due(r) == \/ Pending(r) /\ reservations[r].start <= now
          \/ Active(r) /\ reservations[r].end <= now

TokensOf(rs) == SumFunctionOnSet([r \in rs |-> reservations[r].tokens], rs)

(* What is reserved of a policy around the moment t, by the reservations   *)
(* under way and a new one *)
Reserved(new, t) ==
  LET rs == {r \in Known : /\ Pending(r) \/ Active(r)
                           /\ reservations[r].policy = new.policy
                           /\ reservations[r].start <= t /\ t < reservations[r].end}
  IN  TokensOf(rs) + IF new.start <= t /\ t < new.end THEN new.tokens ELSE 0

Moments(new) ==
  {new.start, new.end} \cup {reservations[r].start : r \in Known}
    \cup {reservations[r].end : r \in Known}

(* Faulty: sees what is reserved at the beginning only *)
NoConflictAtStart(new) == Reserved(new, new.start) <= MaxTokens

(* checkConflictLocked adds up beginnings and ends in the order of time;   *)
(* its sort leaves those of one moment in any order, so that it may refuse *)
(* a reservation that begins where another ends.                           *)
NoConflict(new) == \A t \in Moments(new) : Reserved(new, t) <= MaxTokens

(* The policy need not be the caller's own. *)
CreateReservation(r, p, c, tokens, start, end) ==
  LET new == [policy |-> p, caller |-> c, tokens |-> tokens, start |-> start,
              end |-> end, status |-> IF start <= now THEN "active" ELSE "pending"]
  IN  /\ MutexFree /\ start < end /\ now <= end
      /\ policies[p] # None /\ tokens <= MaxTokens /\ c \in Bound
      /\ NoConflict(new) /\ Room
      /\ reservationRow[r] = None
      /\ \A s \in Reservations : s < r => reservationRow[s] # None
      /\ InsertReservation(r, new)
      /\ reservations' = [reservations EXCEPT ![r] = new]
      /\ IF new.status = "active"
         THEN /\ bindings' = [bindings EXCEPT ![c].reserved = @ + tokens]
              /\ todo' = <<WriteBinding(c)>>
         ELSE UNCHANGED <<bindings, todo>>
      /\ UNCHANGED <<policies, waitQueue, bindingRow, waitRows, loans, now, up, history>>

(* Faulty: gives back tokens that a pending reservation never had *)
CancelReservationAnyhow(r) ==
  /\ MutexFree /\ r \in Known /\ (Pending(r) \/ Active(r))
  /\ reservations' = [reservations EXCEPT ![r].status = "cancelled"]
  /\ LET c == reservations[r].caller
     IN  /\ bindings' = [bindings EXCEPT ![c] = Unreserved(@, reservations[r].tokens)]
         /\ todo' = <<WriteBinding(c), WriteStatus(r)>>
  /\ UNCHANGED <<waitQueue, tables, now, up, history>>

CancelReservation(r) ==
  /\ MutexFree /\ r \in Known /\ (Pending(r) \/ Active(r))
  /\ reservations' = [reservations EXCEPT ![r].status = "cancelled"]
  /\ LET c == reservations[r].caller
     IN  IF Active(r)
         THEN /\ bindings' = [bindings EXCEPT ![c] = Unreserved(@, reservations[r].tokens)]
              /\ todo' = <<WriteBinding(c), WriteStatus(r)>>
         ELSE /\ todo' = <<WriteStatus(r)>>
              /\ UNCHANGED bindings
  /\ UNCHANGED <<waitQueue, tables, now, up, history>>

-----------------------------------------------------------------------------
(* The refill tick *)

Expired(item) == item.until <= now

RefillTick ==
  /\ MutexFree
  /\ waitQueue' = <<>>
  /\ todo' = <<[do |-> "clean", left |-> waitQueue],
               [do |-> "reserve", left |-> {r \in Known : Due(r)}],
               [do |-> "refill"]>>
  /\ UNCHANGED <<bindings, reservations, tables, now, up, history>>

(* cleanupExpiredWaitItemsLocked: waitQueue is what remains so far.        *)
CleanUp ==
  /\ Doing("clean") /\ Task.left # <<>>
  /\ LET item == Head(Task.left)
         rest == [Task EXCEPT !.left = Tail(@)]
     IN  IF Expired(item)
         THEN Then(<<RemoveItem(item), rest>>) /\ UNCHANGED waitQueue
         ELSE Then(<<rest>>) /\ waitQueue' = Append(waitQueue, item)
  /\ UNCHANGED <<bindings, reservations, tables, now, up, history>>

CleanedUp ==
  /\ Doing("clean") /\ Task.left = <<>>
  /\ Done
  /\ UNCHANGED <<memory, tables, now, up, history>>

(* GetCallerStatus visits the reservations too, and writes no binding.     *)
GetCallerStatus(c) ==
  /\ MutexFree /\ c \in Bound
  /\ todo' = <<[do |-> "reserve", left |-> {r \in Known : Due(r)}],
               [do |-> "look", caller |-> c]>>
  /\ UNCHANGED <<memory, tables, now, up, history>>

Look ==
  /\ Doing("look")
  /\ \E b \in Ticked(bindings[Task.caller]) :
       bindings' = [bindings EXCEPT ![Task.caller] = b]
  /\ Done
  /\ UNCHANGED <<waitQueue, reservations, tables, now, up, history>>

(* processReservationTickLocked goes over a map: in any order.             *)
ActivateReservation(r) ==
  /\ Doing("reserve") /\ r \in Task.left /\ Pending(r)
  /\ LET c == reservations[r].caller
     IN  /\ bindings' = [bindings EXCEPT ![c].reserved = @ + reservations[r].tokens]
         /\ reservations' = [reservations EXCEPT ![r].status = "active"]
         /\ Then(<<WriteBinding(c), WriteStatus(r),
                   [do |-> "reserve", left |-> {r} \cap {s \in Known : reservations[s].end <= now}],
                   [Task EXCEPT !.left = @ \ {r}]>>)
  /\ UNCHANGED <<waitQueue, tables, now, up, history>>

CompleteReservation(r) ==
  /\ Doing("reserve") /\ r \in Task.left /\ Active(r)
  /\ LET c == reservations[r].caller
     IN  /\ bindings' = [bindings EXCEPT ![c] = Unreserved(@, reservations[r].tokens)]
         /\ reservations' = [reservations EXCEPT ![r].status = "completed"]
         /\ Then(<<WriteBinding(c), WriteStatus(r), [Task EXCEPT !.left = @ \ {r}]>>)
  /\ UNCHANGED <<waitQueue, tables, now, up, history>>

ReservationsDone ==
  /\ Doing("reserve") /\ Task.left = {}
  /\ Done
  /\ UNCHANGED <<memory, tables, now, up, history>>

(* applyAlgorithmTick for every binding, then the queue.  Some algorithms  *)
(* report a change where there is none.                                    *)
Refill ==
  /\ Doing("refill")
  /\ \E used \in [Bound -> 0..Max({0} \cup {bindings[c].used : c \in Bound})], dirty \in BOOLEAN :
       /\ \A c \in Bound : [bindings[c] EXCEPT !.used = used[c]] \in Ticked(bindings[c])
       /\ (\E c \in Bound : used[c] # bindings[c].used) => dirty
       /\ bindings' = [c \in Callers |-> IF c \in Bound
                                        THEN [bindings[c] EXCEPT !.used = used[c]] ELSE None]
       /\ todo' = <<[do |-> "grant", left |-> waitQueue, dirty |-> dirty]>>
  /\ waitQueue' = <<>>
  /\ UNCHANGED <<reservations, tables, now, up, history>>

(* tryGrantFromQueueLocked: in the order of the queue, to whoever fits;    *)
(* waitQueue is what remains so far.                                       *)
GrantFromQueue ==
  /\ Doing("grant") /\ Task.left # <<>>
  /\ LET item == Head(Task.left)
         c == item.caller
         rest == [Task EXCEPT !.left = Tail(@)]
     IN  \E b \in Ticked(bindings[c]) :
           \/ /\ Remaining(b) >= item.tokens
              /\ bindings' = [bindings EXCEPT ![c] = [b EXCEPT !.used = @ + item.tokens]]
              /\ todo' = <<WriteBinding(c), RemoveItem(item), [rest EXCEPT !.dirty = TRUE]>>
              /\ UNCHANGED waitQueue
           \/ /\ Remaining(b) < item.tokens
              /\ bindings' = [bindings EXCEPT ![c] = b]
              /\ waitQueue' = Append(waitQueue, item)
              /\ todo' = <<rest>>
  /\ UNCHANGED <<reservations, tables, now, up, history>>

(* persistDirtyLocked, in the order of a map *)
GrantDone ==
  /\ Doing("grant") /\ Task.left = <<>>
  /\ IF Task.dirty
     THEN \E order \in SetToSeqs(Bound) :
            todo' = [i \in DOMAIN order |-> WriteBinding(order[i])]
     ELSE Done
  /\ UNCHANGED <<memory, tables, now, up, history>>

-----------------------------------------------------------------------------
(* Crash, restart, time *)

Crash ==
  /\ up /\ crashes < Crashes
  /\ up' = FALSE /\ todo' = <<>>
  /\ bindings' = [c \in Callers |-> None]
  /\ waitQueue' = <<>>
  /\ reservations' = [r \in Reservations |-> None]
  /\ crashes' = crashes + 1
  /\ torn' = (torn \/ \E c \in Bound : bindings[c].reserved # bindingRow[c].reserved
                   \/ \E r \in Known : reservations[r].status # reservationRow[r].status)
  /\ UNCHANGED <<tables, now, rebound>>

(* reconcileState: what a binding may have got back while nobody ticked *)
Reconciled(b) ==
  {[b EXCEPT !.used = n] :
     n \in IF policies[b.policy] = "fixed_window" THEN {0, b.used} ELSE 0..b.used}

LoadBindings ==
  LET listed == {c \in Callers : bindingRow[c] # None}
      loaded == [c \in listed |-> Reconciled(bindingRow[c])]
  IN  \E bs \in [listed -> UNION {loaded[c] : c \in listed}] :
        /\ \A c \in listed : bs[c] \in loaded[c]
        /\ bindings' = [c \in Callers |-> IF c \in listed THEN bs[c] ELSE None]

(* In the order of their ids; the rows of the requests that are past their *)
(* time stay in the table.                                                 *)
InOrder(queue) == \A i, j \in DOMAIN queue : i < j => queue[i].id < queue[j].id
InTime(items) == {item \in items : ~Expired(item)}

LoadWaitQueue ==
  \E queue \in TupleOf(InTime(waitRows), Cardinality(InTime(waitRows))) :
    /\ ToSet(queue) = InTime(waitRows) /\ InOrder(queue)
    /\ waitQueue' = queue

(* A reservation that ended while the process was down is only marked, in  *)
(* memory: its row stays active and its tokens stay with the caller.       *)
LoadReservation(r) ==
  LET row == reservationRow[r]
  IN  IF row = None \/ row.status \notin {"pending", "active"} THEN None
      ELSE IF row.status = "active" /\ row.end < now
           THEN [row EXCEPT !.status = "completed"] ELSE row

LoadReservations == reservations' = [r \in Reservations |-> LoadReservation(r)]

Start ==
  /\ ~up
  /\ up' = TRUE
  /\ LoadBindings /\ LoadWaitQueue /\ LoadReservations
  /\ UNCHANGED <<tables, now, todo, history>>

Elapse ==
  /\ now < MaxNow /\ todo = <<>>
  /\ now' = now + 1
  /\ UNCHANGED <<memory, tables, up, todo, history>>

Requests ==
  \/ \E p \in Policies, a \in Algorithms : CreatePolicy(p, a)
  \/ \E c \in Callers :
       \/ \E p \in Policies, q \in Quotas : BindCaller(c, p, q)
       \/ \E q \in NewQuotas : AdjustQuota(c, q)
       \/ \E n \in Amounts : RequestTokens(c, n) \/ ReturnTokens(c, n)
       \/ \E n \in Amounts, w \in Waits : Enqueue(c, n, w)
       \/ \E d \in Callers, n \in Amounts : BorrowQuota(c, d, n) \/ ReturnQuota(c, d, n)
       \/ \E r \in Reservations, p \in Policies, n \in Amounts, a \in Starts, b \in Lengths :
            CreateReservation(r, p, c, n, now + a, now + a + b)
       \/ GetCallerStatus(c)
  \/ \E r \in Reservations : CancelReservation(r)

Steps ==
  \/ UpdateCallerBinding \/ UpdateReservationStatus \/ RemoveWaitItem
  \/ CleanUp \/ CleanedUp \/ Look \/ ReservationsDone \/ Refill \/ GrantFromQueue \/ GrantDone
  \/ \E r \in Reservations : ActivateReservation(r) \/ CompleteReservation(r)

Next == Requests \/ RefillTick \/ Steps \/ Crash \/ Start \/ Elapse

Spec == Init /\ [][Next]_vars

-----------------------------------------------------------------------------
(* Properties *)

(* Nobody has spent more than it may: what is lent, given back, cancelled, *)
(* completed or adjusted away takes the tokens spent with it, in memory    *)
(* and in the rows a restart starts from.                                  *)
UsedWithinLimit ==
  \A c \in Callers :
    /\ bindings[c] # None => bindings[c].used <= EffectiveLimit(bindings[c])
    /\ bindingRow[c] # None => bindingRow[c].used <= EffectiveLimit(bindingRow[c])

(* At no moment, past or to come, is more of a policy reserved than the    *)
(* policy has, whatever was cancelled, and completed late, in between.     *)
NeverOverbooked ==
  \A p \in Policies, t \in {reservations[s].start : s \in Known} :
    TokensOf({r \in Known : /\ Pending(r) \/ Active(r)
                            /\ reservations[r].policy = p
                            /\ reservations[r].start <= t
                            /\ t < reservations[r].end}) <= MaxTokens

(* A loan creates no quota: all that is borrowed has been lent, also by    *)
(* the rows that a crash in the middle of a loan or a return leaves,       *)
(* unless a caller was bound anew and its side of the loan forgotten.      *)
BorrowedOf(bs) == [c \in Callers |-> IF bs[c] = None THEN 0 ELSE bs[c].borrowed]
LentOf(bs) == [c \in Callers |-> IF bs[c] = None THEN 0 ELSE bs[c].lent]
BorrowedIsLent ==
  ~rebound => \A bs \in {bindings, bindingRow} :
    SumFunctionOnSet(BorrowedOf(bs), Callers) <= SumFunctionOnSet(LentOf(bs), Callers)

(* A caller has the tokens of its reservations as long as they last: the   *)
(* end of one never takes what belongs to another.  A crash between the    *)
(* two writes of a reservation, or a new binding, can break it.            *)
ReservationsKept ==
  MutexFree /\ ~torn /\ ~rebound =>
    \A c \in Bound : TokensOf({r \in Known : Active(r) /\ reservations[r].caller = c})
                       <= bindings[c].reserved

(* The queue in memory and its table agree on every request that is still  *)
(* in time, and the queue is in the order of the ids: a crash between two  *)
(* methods neither forgets a request, nor brings back one that was         *)
(* answered, nor changes whose turn it is.                                 *)
QueueSurvives ==
  MutexFree => InTime(ToSet(waitQueue)) = InTime(waitRows) /\ InOrder(waitQueue)
=============================================================================
