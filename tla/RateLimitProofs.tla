--------------------------- MODULE RateLimitProofs ---------------------------
(***************************************************************************)
(* Of the token limiter, for any callers, policies, algorithms, amounts    *)
(* and bounds, with any crashes: that nobody has spent more than it may;   *)
(* that no policy is ever overbooked and each caller keeps the tokens of   *)
(* its reservations; that loans create no quota; that the queue and its    *)
(* table agree.                                                            *)
(***************************************************************************)
EXTENDS RateLimit, CommonLemmas, SequenceTheorems, FiniteSetTheorems

Tasks == ToSet(todo)

TaskType ==
  [do : {"binding", "look"}, caller : Callers] \cup [do : {"status"}, reservation : Reservations]
    \cup [do : {"remove"}, id : Items] \cup [do : {"reserve"}, left : SUBSET Reservations]
    \cup [do : {"refill"}] \cup [do : {"clean"}, left : Seq(WaitItem)]
    \cup [do : {"grant"}, left : Seq(WaitItem), dirty : BOOLEAN]

TypeOK ==
  /\ bindings \in [Callers -> CallerBinding \cup {None}]
  /\ bindingRow \in [Callers -> CallerBinding \cup {None}]
  /\ waitQueue \in Seq(WaitItem)
  /\ waitRows \in SUBSET WaitItem /\ IsFiniteSet(waitRows)
  /\ reservations \in [Reservations -> QuotaReservation \cup {None}]
  /\ reservationRow \in [Reservations -> QuotaReservation \cup {None}]
  /\ now \in Nat /\ up \in BOOLEAN
  /\ todo \in Seq(TaskType)

(* The queue's loops: nothing follows the last, and there is one at a time. *)
Before(t, u) ==
  /\ t.do \notin {"refill", "grant"}
  /\ t.do = "clean" => u.do \notin {"clean", "grant"}

Ordered(s) == \A i, j \in 1..Len(s) : i < j => Before(s[i], s[j])

(* What a task relies on until its turn comes: nobody is unbound, and no   *)
(* reservation forgotten, while the method has mu.                         *)
IsBound(c) == bindings[c] # None
Ready(t) ==
  /\ t.do \in {"binding", "look"} => IsBound(t.caller)
  /\ t.do = "status" => reservations[t.reservation] # None
  /\ t.do = "reserve" => t.left \subseteq Known

AgendaInv ==
  /\ Ordered(todo)
  /\ todo # <<>> => up
  /\ \A t \in Tasks : Ready(t)

(* The queue, and what a loop has taken from it and not yet looked at      *)
Handled == UNION {ToSet(t.left) : t \in {u \in Tasks : u.do \in {"clean", "grant"}}}
Waiting == ToSet(waitQueue) \cup Handled

(* Memory and tables know the same callers, apart from a crash; who has a  *)
(* reservation or a request in the queue is bound.                         *)
BoundInv ==
  /\ \A c \in Callers : bindings[c] # None => bindingRow[c] # None
  /\ up => \A c \in Callers : bindingRow[c] # None => bindings[c] # None
  /\ \A r \in Reservations : reservations[r] # None =>
       bindings[reservations[r].caller] # None /\ reservationRow[r] # None
  /\ \A r \in Reservations :
       reservationRow[r] # None => bindingRow[reservationRow[r].caller] # None
  /\ \A item \in Waiting : bindings[item.caller] # None
  /\ \A item \in waitRows : bindingRow[item.caller] # None
  /\ ~up => /\ \A c \in Callers : bindings[c] = None
            /\ \A r \in Reservations : reservations[r] = None
            /\ waitQueue = <<>>

SameReservation(a, b) ==
  /\ a.policy = b.policy /\ a.caller = b.caller /\ a.tokens = b.tokens
  /\ a.start = b.start /\ a.end = b.end
Live(r) == reservations[r].status \in {"pending", "active"}
(* What a restart would find under way *)
LiveRow(r) ==
  \/ reservationRow[r].status = "pending"
  \/ reservationRow[r].status = "active" /\ reservationRow[r].end >= now
StatusDue(r) == \E t \in Tasks : t.do = "status" /\ t.reservation = r

(* Memory and table have the same reservations, and a row that a restart   *)
(* would take up belongs to one that is live, or is about to be marked.    *)
RowsInv ==
  /\ \A r \in Known : SameReservation(reservations[r], reservationRow[r])
  /\ up => \A r \in Reservations :
       reservationRow[r] # None /\ reservationRow[r].status \in {"pending", "active"} => r \in Known
  /\ \A r \in Known : LiveRow(r) => Live(r) \/ StatusDue(r)
  /\ \A r \in Known :
       /\ reservations[r].status = "pending" => reservationRow[r].status = "pending"
       /\ Live(r) => reservationRow[r].status \in {"pending", "active"}

InPolicy(rs, p, t) ==
  {r \in Reservations : /\ rs[r] # None /\ rs[r].policy = p
                        /\ rs[r].start <= t /\ t < rs[r].end}
TokensIn(rows) == [r \in Reservations |-> IF rows[r] = None THEN 0 ELSE rows[r].tokens]
Weight(rows, rs) == SumFunctionOnSet(TokensIn(rows), rs)
Fits(rs) == Weight(reservationRow, rs) <= MaxTokens

(* At every moment, not only where a reservation begins, those that count  *)
(* fit into the policy: in memory, and in the rows a restart takes up.     *)
BookedInv ==
  \A p \in Policies, t \in Int :
    /\ Fits({r \in InPolicy(reservations, p, t) : Live(r)})
    /\ Fits({r \in InPolicy(reservationRow, p, t) : LiveRow(r)})

(* A caller's active reservations are covered by its reserved tokens, and, *)
(* once the process is down, the rows of those that a restart takes up by  *)
(* the row of its binding.                                                 *)
KeptInv ==
  ~torn /\ ~rebound =>
    \A c \in Callers :
      /\ bindings[c] # None =>
           Weight(reservationRow, {r \in Known : Active(r) /\ reservations[r].caller = c})
             <= bindings[c].reserved
      /\ ~up /\ bindingRow[c] # None =>
           Weight(reservationRow,
              {r \in Reservations : /\ reservationRow[r] # None /\ reservationRow[r].caller = c
                                    /\ reservationRow[r].status = "active"
                                    /\ reservationRow[r].end >= now})
             <= bindingRow[c].reserved

(* The row of c has the loans that memory has.                             *)
Agrees(c) ==
  bindings[c] # None => /\ bindingRow[c].borrowed = bindings[c].borrowed
                        /\ bindingRow[c].lent = bindings[c].lent

(* Only while the two rows of a loan are being written do rows and memory  *)
(* differ, the first of them on the side that creates nothing.             *)
LoansInv ==
  ~rebound =>
    /\ BorrowedIsLent
    /\ \/ \A c \in Callers : Agrees(c)
       \/ \E f, t \in Callers :
            /\ todo = <<WriteBinding(f), WriteBinding(t)>>
            /\ \A c \in Callers \ {f, t} : Agrees(c)
            /\ bindings[f].borrowed - bindingRow[f].borrowed
                 <= bindings[f].lent - bindingRow[f].lent
       \/ \E t \in Callers :
            /\ todo = <<WriteBinding(t)>>
            /\ \A c \in Callers \ {t} : Agrees(c)

(* The rows that a method is still to delete                               *)
Leaving == {t.id : t \in {u \in Tasks : u.do = "remove"}}
Staying == {item \in waitRows : item.id \notin Leaving}
(* No two rows have the same id; what waits is in the table and stays      *)
(* there, and what stays and is in time waits; a loop puts back behind the *)
(* queue what it takes from its front.                                     *)
QueueInv ==
  /\ \A a, b \in waitRows : a.id = b.id => a = b
  /\ up => Waiting \subseteq Staying /\ InTime(Staying) \subseteq Waiting
  /\ InOrder(waitQueue)
  /\ \A t \in Tasks : t.do \in {"clean", "grant"} =>
       /\ InOrder(t.left)
       /\ \A a \in ToSet(waitQueue), b \in ToSet(t.left) : a.id < b.id

-----------------------------------------------------------------------------
(* Sequences of tasks *)

LEMMA RestOrdered ==
  ASSUME NEW S, NEW s \in Seq(S), s # <<>>, Ordered(s)
  PROVE  Ordered(Tail(s)) /\ \A u \in ToSet(Tail(s)) : Before(Head(s), u)
<1>1. Len(s) \in Nat /\ Len(s) > 0 /\ Len(Tail(s)) = Len(s) - 1 /\ Head(s) = s[1]
  OBVIOUS
<1>2. \A i \in 1..(Len(s) - 1) : Tail(s)[i] = s[i + 1] /\ i + 1 \in 1..Len(s)
  OBVIOUS
<1>3. \A i, j \in 1..(Len(s) - 1) : i < j => Before(Tail(s)[i], Tail(s)[j])
  <2>1. SUFFICES ASSUME NEW i \in 1..(Len(s) - 1), NEW j \in 1..(Len(s) - 1), i < j
                 PROVE  Before(s[i + 1], s[j + 1])
    BY <1>2
  <2>2. i + 1 \in 1..Len(s) /\ j + 1 \in 1..Len(s) /\ i + 1 < j + 1
    BY <2>1, <1>1
  <2> QED
    BY <2>2 DEF Ordered
<1>4. ASSUME NEW u \in ToSet(Tail(s))
      PROVE  Before(Head(s), u)
  <2>1. DOMAIN Tail(s) = 1..(Len(s) - 1)
    BY <1>1
  <2>2. PICK i \in 1..(Len(s) - 1) : u = Tail(s)[i]
    BY <2>1 DEF ToSet
  <2>3. 1 \in 1..Len(s) /\ i + 1 \in 1..Len(s) /\ 1 < i + 1 /\ u = s[i + 1]
    BY <2>2, <1>1, <1>2
  <2> QED
    BY <2>3, <1>1 DEF Ordered
<1> QED
  BY <1>1, <1>3, <1>4 DEF Ordered

LEMMA OneMoreOrdered ==
  ASSUME NEW S, NEW s \in Seq(S), NEW t \in S, Ordered(s), \A u \in ToSet(s) : Before(t, u)
  PROVE  Ordered(<<t>> \o s)
<1> DEFINE ts == <<t>> \o s
<1>1. Len(s) \in Nat /\ Len(ts) = Len(s) + 1 /\ ts[1] = t
      /\ \A i \in 1..Len(s) : ts[i + 1] = s[i]
  OBVIOUS
<1>2. DOMAIN s = 1..Len(s)
  OBVIOUS
<1>3. ASSUME NEW i \in 1..Len(ts), NEW j \in 1..Len(ts), i < j
      PROVE  Before(ts[i], ts[j])
  <2>1. j - 1 \in 1..Len(s) /\ ts[j] = s[j - 1]
    <3>1. j - 1 \in 1..Len(s) /\ (j - 1) + 1 = j
      BY <1>1, <1>3
    <3> QED
      BY <3>1, <1>1
  <2>2. CASE i = 1
    <3>1. s[j - 1] \in ToSet(s)
      BY <2>1, <1>2 DEF ToSet
    <3> QED
      BY <3>1, <2>1, <2>2, <1>1
  <2>3. CASE i # 1
    <3>1. i - 1 \in 1..Len(s) /\ (i - 1) + 1 = i /\ i - 1 < j - 1
      BY <2>3, <1>1, <1>3
    <3>2. ts[i] = s[i - 1]
      BY <3>1, <1>1
    <3> QED
      BY <3>1, <3>2, <2>1 DEF Ordered
  <2> QED
    BY <2>2, <2>3
<1> QED
  BY <1>3 DEF Ordered

LEMMA NoTasks == ToSet(<<>>) = {} /\ Ordered(<<>>)
BY DEF ToSet, Ordered

(* Tasks put in front of others *)
LEMMA OneInFront ==
  ASSUME NEW s \in Seq(TaskType), Ordered(s), NEW a \in TaskType,
         \A u \in ToSet(s) : Before(a, u)
  PROVE  /\ <<a>> \o s \in Seq(TaskType) /\ Ordered(<<a>> \o s)
         /\ ToSet(<<a>> \o s) = {a} \cup ToSet(s)
BY ListPrepended, OneMoreOrdered

LEMMA PairInFront ==
  ASSUME NEW S, NEW s \in Seq(S), NEW a \in S, NEW b \in S
  PROVE  <<a, b>> \o s = <<a>> \o (<<b>> \o s)
<1> DEFINE bs == <<b>> \o s
<1>1. bs \in Seq(S) /\ Len(s) \in Nat /\ Len(bs) = Len(s) + 1 /\ bs[1] = b
      /\ \A i \in 1..Len(s) : bs[i + 1] = s[i]
  OBVIOUS
<1> HIDE DEF bs
<1>2. /\ <<a>> \o bs \in Seq(S) /\ Len(<<a>> \o bs) = Len(bs) + 1 /\ (<<a>> \o bs)[1] = a
      /\ \A i \in 1..Len(bs) : (<<a>> \o bs)[i + 1] = bs[i]
  BY <1>1
<1>3. /\ <<a, b>> \o s \in Seq(S) /\ Len(<<a, b>> \o s) = Len(s) + 2
      /\ (<<a, b>> \o s)[1] = a /\ (<<a, b>> \o s)[2] = b
      /\ \A i \in 1..Len(s) : (<<a, b>> \o s)[i + 2] = s[i]
  OBVIOUS
<1>4. ASSUME NEW i \in 1..(Len(s) + 2)
      PROVE  (<<a, b>> \o s)[i] = (<<a>> \o bs)[i]
  <2>1. CASE i = 1
    BY <2>1, <1>2, <1>3
  <2>2. CASE i = 2
    <3>1. 1 \in 1..Len(bs) /\ 1 + 1 = i
      BY <2>2, <1>1
    <3> QED
      BY <3>1, <2>2, <1>1, <1>2, <1>3
  <2>3. CASE i # 1 /\ i # 2
    <3>1. /\ i - 2 \in 1..Len(s) /\ i - 1 \in 1..Len(bs)
          /\ (i - 2) + 2 = i /\ (i - 2) + 1 = i - 1 /\ (i - 1) + 1 = i
      BY <2>3, <1>1
    <3> QED
      BY <3>1, <1>1, <1>2, <1>3
  <2> QED
    BY <2>1, <2>2, <2>3
<1>5. Len(<<a>> \o bs) = Len(s) + 2
  BY <1>1, <1>2
<1>6. <<a, b>> \o s = <<a>> \o bs
  BY <1>1, <1>2, <1>3, <1>4, <1>5, SeqEqual
<1> QED
  BY <1>6 DEF bs

LEMMA TwoInFront ==
  ASSUME NEW s \in Seq(TaskType), Ordered(s), NEW a \in TaskType, NEW b \in TaskType,
         \A u \in {b} \cup ToSet(s) : Before(a, u), \A u \in ToSet(s) : Before(b, u)
  PROVE  /\ <<a, b>> \o s \in Seq(TaskType) /\ Ordered(<<a, b>> \o s)
         /\ ToSet(<<a, b>> \o s) = {a, b} \cup ToSet(s)
<1>1. /\ <<b>> \o s \in Seq(TaskType) /\ Ordered(<<b>> \o s)
      /\ ToSet(<<b>> \o s) = {b} \cup ToSet(s)
  BY OneInFront
<1>2. <<a, b>> \o s = <<a>> \o (<<b>> \o s)
  BY PairInFront
<1> DEFINE bs == <<b>> \o s
<1> HIDE DEF bs
<1>3. /\ <<a>> \o bs \in Seq(TaskType) /\ Ordered(<<a>> \o bs)
      /\ ToSet(<<a>> \o bs) = {a} \cup ToSet(bs)
  BY <1>1, OneInFront DEF bs
<1> QED
  BY <1>1, <1>2, <1>3 DEF bs

LEMMA ThreeInFront ==
  ASSUME NEW s \in Seq(TaskType), Ordered(s),
         NEW a \in TaskType, NEW b \in TaskType, NEW c \in TaskType,
         \A u \in {b, c} \cup ToSet(s) : Before(a, u), \A u \in {c} \cup ToSet(s) : Before(b, u),
         \A u \in ToSet(s) : Before(c, u)
  PROVE  /\ <<a, b, c>> \o s \in Seq(TaskType) /\ Ordered(<<a, b, c>> \o s)
         /\ ToSet(<<a, b, c>> \o s) = {a, b, c} \cup ToSet(s)
<1>1. /\ <<b, c>> \o s \in Seq(TaskType) /\ Ordered(<<b, c>> \o s)
      /\ ToSet(<<b, c>> \o s) = {b, c} \cup ToSet(s)
  BY TwoInFront
<1>2. <<a, b, c>> \o s = <<a>> \o (<<b, c>> \o s)
  OBVIOUS
<1> DEFINE bs == <<b, c>> \o s
<1> HIDE DEF bs
<1>3. /\ <<a>> \o bs \in Seq(TaskType) /\ Ordered(<<a>> \o bs)
      /\ ToSet(<<a>> \o bs) = {a} \cup ToSet(bs)
  BY <1>1, OneInFront DEF bs
<1> QED
  BY <1>1, <1>2, <1>3 DEF bs

(* Tasks alone *)
LEMMA TaskAlone ==
  ASSUME NEW a \in TaskType
  PROVE  <<a>> \in Seq(TaskType) /\ Ordered(<<a>>) /\ ToSet(<<a>>) = {a}
<1>1. PICK none \in Seq(TaskType) : none = <<>> /\ Ordered(none) /\ ToSet(none) = {}
  <2>1. <<>> \in Seq(TaskType)
    OBVIOUS
  <2> QED
    BY <2>1, NoTasks, Zenon
<1>2. <<a>> \o none \in Seq(TaskType) /\ Ordered(<<a>> \o none) /\ ToSet(<<a>> \o none) = {a}
  <2>1. Ordered(none) /\ ToSet(none) = {}
    BY <1>1
  <2> QED
    BY <2>1, OneInFront
<1>3. <<a>> \o <<>> = <<a>>
  OBVIOUS
<1>4. <<a>> \o none = <<a>>
  BY <1>1, <1>3, Zenon
<1> QED
  BY <1>2, <1>4, Zenon

LEMMA TasksAlone ==
  ASSUME NEW a \in TaskType, NEW b \in TaskType, Before(a, b)
  PROVE  <<a, b>> \in Seq(TaskType) /\ Ordered(<<a, b>>) /\ ToSet(<<a, b>>) = {a, b}
<1> DEFINE bs == <<b>>
<1>1. bs \in Seq(TaskType) /\ Ordered(bs) /\ ToSet(bs) = {b}
  BY TaskAlone
<1>2. <<a, b>> = <<a>> \o bs
  <2>1. <<>> \in Seq(TaskType) /\ <<a, b>> \o <<>> = <<a, b>> /\ <<b>> \o <<>> = <<b>>
    OBVIOUS
  <2>2. <<a, b>> \o <<>> = <<a>> \o (<<b>> \o <<>>)
    BY <2>1, PairInFront, Zenon
  <2> QED
    BY <2>1, <2>2, Zenon
<1> HIDE DEF bs
<1>3. /\ <<a>> \o bs \in Seq(TaskType) /\ Ordered(<<a>> \o bs)
      /\ ToSet(<<a>> \o bs) = {a} \cup ToSet(bs)
  BY <1>1, OneInFront
<1>4. {a} \cup ToSet(bs) = {a, b}
  BY <1>1
<1> QED
  BY <1>2, <1>3, <1>4, Zenon

LEMMA ThreeTasksAlone ==
  ASSUME NEW a \in TaskType, NEW b \in TaskType, NEW c \in TaskType,
         Before(a, b), Before(a, c), Before(b, c)
  PROVE  /\ <<a, b, c>> \in Seq(TaskType) /\ Ordered(<<a, b, c>>)
         /\ ToSet(<<a, b, c>>) = {a, b, c}
<1> DEFINE bs == <<b, c>>
<1>1. bs \in Seq(TaskType) /\ Ordered(bs) /\ ToSet(bs) = {b, c}
  BY TasksAlone
<1>2. <<a, b, c>> = <<a>> \o bs
  <2>1. <<>> \in Seq(TaskType)
    OBVIOUS
  <2>2. <<a, b, c>> \o <<>> = <<a, b, c>> /\ <<b, c>> \o <<>> = <<b, c>>
    OBVIOUS
  <2>3. <<a, b, c>> \o <<>> = <<a>> \o (<<b, c>> \o <<>>)
    BY <2>1
  <2> QED
    BY <2>2, <2>3, Zenon
<1> HIDE DEF bs
<1>3. /\ <<a>> \o bs \in Seq(TaskType) /\ Ordered(<<a>> \o bs)
      /\ ToSet(<<a>> \o bs) = {a} \cup ToSet(bs)
  BY <1>1, OneInFront
<1>4. {a} \cup ToSet(bs) = {a, b, c}
  BY <1>1
<1> QED
  BY <1>2, <1>3, <1>4, Zenon

-----------------------------------------------------------------------------
(* Tasks *)

LEMMA TaskTyped ==
  ASSUME NEW t \in TaskType
  PROVE  /\ t.do \in {"binding", "look", "status", "remove", "reserve", "refill", "clean", "grant"}
         /\ t.do \in {"binding", "look"} => t.caller \in Callers
         /\ t.do = "status" => t.reservation \in Reservations
         /\ t.do = "remove" => t.id \in Items
         /\ t.do = "reserve" => t.left \in SUBSET Reservations
         /\ t.do \in {"clean", "grant"} => t.left \in Seq(WaitItem)
         /\ t.do = "grant" => t.dirty \in BOOLEAN
BY DEF TaskType

(* What a loop has still to do becomes less.                               *)
LEMMA LoopGoesOn ==
  ASSUME NEW t \in TaskType
  PROVE  /\ t.do = "reserve" => \A left \in SUBSET Reservations :
              [t EXCEPT !.left = left] = [do |-> "reserve", left |-> left]
         /\ t.do = "clean" => \A left \in Seq(WaitItem) :
              [t EXCEPT !.left = left] = [do |-> "clean", left |-> left]
         /\ t.do = "grant" => \A left \in Seq(WaitItem) :
              [t EXCEPT !.left = left] = [do |-> "grant", left |-> left, dirty |-> t.dirty]
<1>1. CASE t.do = "reserve"
  <2>1. t \in [do : {"reserve"}, left : SUBSET Reservations]
    BY <1>1 DEF TaskType
  <2> QED
    BY <2>1
<1>2. CASE t.do = "clean"
  <2>1. t \in [do : {"clean"}, left : Seq(WaitItem)]
    BY <1>2 DEF TaskType
  <2> QED
    BY <2>1
<1>3. CASE t.do = "grant"
  <2>1. t \in [do : {"grant"}, left : Seq(WaitItem), dirty : BOOLEAN]
    BY <1>3 DEF TaskType
  <2> QED
    BY <2>1
<1> QED
  BY <1>1, <1>2, <1>3

(* The tasks there are *)
LEMMA NewTasks ==
  /\ \A c \in Callers : WriteBinding(c) \in TaskType /\ [do |-> "look", caller |-> c] \in TaskType
  /\ \A r \in Reservations : WriteStatus(r) \in TaskType
  /\ \A item \in WaitItem : RemoveItem(item) \in TaskType
  /\ \A rs \in SUBSET Reservations : [do |-> "reserve", left |-> rs] \in TaskType
  /\ [do |-> "refill"] \in TaskType
  /\ \A left \in Seq(WaitItem) : [do |-> "clean", left |-> left] \in TaskType
  /\ \A left \in Seq(WaitItem), dirty \in BOOLEAN :
       [do |-> "grant", left |-> left, dirty |-> dirty] \in TaskType
BY DEF TaskType, WriteBinding, WriteStatus, RemoveItem, WaitItem

(* The head of the agenda *)
LEMMA TaskFirst ==
  ASSUME TypeOK, AgendaInv, todo # <<>>
  PROVE  /\ Task \in TaskType /\ Task \in Tasks /\ Ready(Task) /\ up
         /\ Tail(todo) \in Seq(TaskType) /\ Ordered(Tail(todo))
         /\ Tasks = {Task} \cup ToSet(Tail(todo))
         /\ \A u \in ToSet(Tail(todo)) : u \in TaskType /\ Ready(u) /\ Before(Task, u)
<1>1. todo \in Seq(TaskType)
  BY DEF TypeOK
<1>2. /\ Task \in TaskType /\ Tail(todo) \in Seq(TaskType)
      /\ Tasks = {Task} \cup ToSet(Tail(todo))
  BY <1>1, ListHeadAndTail DEF Task, Tasks
<1>3. Ordered(Tail(todo)) /\ \A u \in ToSet(Tail(todo)) : Before(Task, u)
  BY <1>1, RestOrdered DEF AgendaInv, Task
<1>4. \A u \in ToSet(Tail(todo)) : u \in TaskType
  <2>1. \A i \in DOMAIN Tail(todo) : Tail(todo)[i] \in TaskType
    BY <1>2
  <2> QED
    BY <2>1 DEF ToSet
<1> QED
  BY <1>2, <1>3, <1>4 DEF AgendaInv

(* The refill, and the grants, come last.                                  *)
LEMMA LastTask ==
  ASSUME TypeOK, AgendaInv, todo # <<>>, Task.do \in {"refill", "grant"}
  PROVE  Tail(todo) = <<>> /\ Tasks = {Task}
<1>1. /\ Tail(todo) \in Seq(TaskType) /\ \A u \in ToSet(Tail(todo)) : Before(Task, u)
      /\ Tasks = {Task} \cup ToSet(Tail(todo))
  BY TaskFirst
<1>2. ASSUME Tail(todo) # <<>>
      PROVE  FALSE
  <2>1. Head(Tail(todo)) \in ToSet(Tail(todo))
    BY <1>1, <1>2, ListHeadAndTail
  <2> QED
    BY <2>1, <1>1 DEF Before
<1> QED
  BY <1>1, <1>2, NoTasks

(* Callers stay bound and reservations known.                              *)
StillThere ==
  /\ \A c \in Callers : bindings[c] # None => bindings'[c] # None
  /\ Known \subseteq Known'

LEMMA AgendaGoesOn ==
  ASSUME TypeOK, AgendaInv, todo # <<>>, StillThere, up', NEW news \in SUBSET TaskType,
         Ordered(todo'), Tasks' \subseteq news \cup ToSet(Tail(todo)),
         \A t \in news : Ready(t)'
  PROVE  AgendaInv'
<1>1. ASSUME NEW t \in ToSet(Tail(todo))
      PROVE  Ready(t)'
  <2>1. t \in TaskType /\ Ready(t)
    BY TaskFirst
  <2> QED
    BY <2>1, TaskTyped DEF Ready, IsBound, StillThere, Known
<1> QED
  BY <1>1 DEF AgendaInv

LEMMA AgendaDone ==
  ASSUME TypeOK, AgendaInv, todo # <<>>, StillThere, up', Done
  PROVE  AgendaInv' /\ todo' \in Seq(TaskType) /\ Tasks' = ToSet(Tail(todo))
<1>1. /\ Tail(todo) \in Seq(TaskType) /\ Ordered(Tail(todo)) /\ todo' = Tail(todo)
      /\ Tasks' = ToSet(Tail(todo))
  BY TaskFirst DEF Done, Tasks
<1>2. \A t \in {} : Ready(t)'
  OBVIOUS
<1>3. {} \in SUBSET TaskType /\ Tasks' \subseteq {} \cup ToSet(Tail(todo)) /\ Ordered(todo')
  BY <1>1
<1> QED
  BY <1>1, <1>2, <1>3, AgendaGoesOn

LEMMA AgendaStarts ==
  ASSUME up', NEW news \in SUBSET TaskType, Ordered(todo'), Tasks' \subseteq news,
         \A t \in news : Ready(t)'
  PROVE  AgendaInv'
BY DEF AgendaInv

LEMMA AgendaIdle ==
  ASSUME todo' = <<>>
  PROVE  AgendaInv' /\ todo' \in Seq(TaskType) /\ Tasks' = {}
BY NoTasks DEF AgendaInv, Tasks

LEMMA AgendaSame ==
  ASSUME TypeOK, AgendaInv, StillThere, UNCHANGED <<todo, up>>
  PROVE  AgendaInv'
<1>1. ASSUME NEW t \in Tasks
      PROVE  Ready(t)'
  <2>1. t \in TaskType
    BY DEF TypeOK, Tasks, ToSet
  <2> QED
    BY <2>1, <1>1, TaskTyped DEF AgendaInv, Ready, IsBound, StillThere, Known
<1> QED
  BY <1>1 DEF AgendaInv, Tasks

-----------------------------------------------------------------------------
(* Bindings *)

Within(b) == b.used <= EffectiveLimit(b)
SameLoan(b, d) == d.borrowed = b.borrowed /\ d.lent = b.lent
SameTerms(b, d) ==
  d.policy = b.policy /\ d.quota = b.quota /\ SameLoan(b, d) /\ d.reserved = b.reserved

LEMMA NoneIsNone == None \notin CallerBinding /\ None \notin QuotaReservation
BY NoneAssumption

LEMMA BindingFields ==
  ASSUME NEW b \in CallerBinding
  PROVE  /\ b.policy \in Policies /\ b.quota \in Nat /\ b.used \in Nat
         /\ b.borrowed \in Nat /\ b.lent \in Nat /\ b.reserved \in Nat /\ b # None
BY NoneIsNone DEF CallerBinding

(* One field set *)
LEMMA UsedSet ==
  ASSUME NEW b \in CallerBinding, NEW n \in Nat
  PROVE  /\ [b EXCEPT !.used = n] \in CallerBinding /\ [b EXCEPT !.used = n].used = n
         /\ SameTerms(b, [b EXCEPT !.used = n])
BY DEF CallerBinding, SameTerms, SameLoan

LEMMA QuotaSet ==
  ASSUME NEW b \in CallerBinding, NEW n \in Nat
  PROVE  /\ [b EXCEPT !.quota = n] \in CallerBinding /\ SameLoan(b, [b EXCEPT !.quota = n])
         /\ [b EXCEPT !.quota = n].reserved = b.reserved
BY DEF CallerBinding, SameLoan

LEMMA ReservedSet ==
  ASSUME NEW b \in CallerBinding, NEW n \in Nat
  PROVE  LET d == [b EXCEPT !.reserved = n]
         IN  /\ d \in CallerBinding /\ SameLoan(b, d) /\ d.reserved = n
             /\ d.quota = b.quota /\ d.used = b.used
BY DEF CallerBinding, SameLoan

LEMMA LentSet ==
  ASSUME NEW b \in CallerBinding, NEW n \in Nat
  PROVE  LET d == [b EXCEPT !.lent = n]
         IN  /\ d \in CallerBinding /\ d.borrowed = b.borrowed /\ d.lent = n
             /\ d.reserved = b.reserved /\ d.quota = b.quota /\ d.used = b.used
BY DEF CallerBinding

LEMMA BorrowedSet ==
  ASSUME NEW b \in CallerBinding, NEW n \in Nat
  PROVE  LET d == [b EXCEPT !.borrowed = n]
         IN  /\ d \in CallerBinding /\ d.borrowed = n /\ d.lent = b.lent
             /\ d.reserved = b.reserved /\ d.quota = b.quota /\ d.used = b.used
BY DEF CallerBinding

LEMMA LimitTyped ==
  ASSUME NEW b \in CallerBinding
  PROVE  /\ EffectiveLimit(b) \in Nat
         /\ \A d \in CallerBinding : SameTerms(b, d) => EffectiveLimit(d) = EffectiveLimit(b)
<1>1. MaxTokens \in Nat
  BY InputsAssumption
<1> QED
  BY <1>1, BindingFields DEF EffectiveLimit, Less, Minimum, SameTerms, SameLoan

(* More quota, or less lent, is no less to spend.                          *)
LEMMA LimitGrows ==
  ASSUME NEW b \in CallerBinding, NEW d \in CallerBinding, Within(b), d.used = b.used,
         d.quota = b.quota, d.borrowed >= b.borrowed, d.reserved >= b.reserved, d.lent <= b.lent
  PROVE  Within(d)
<1>1. MaxTokens \in Nat
  BY InputsAssumption
<1>2. /\ b.quota \in Nat /\ b.used \in Nat /\ b.borrowed \in Nat /\ b.lent \in Nat /\ b.reserved \in Nat
      /\ d.borrowed \in Nat /\ d.lent \in Nat /\ d.reserved \in Nat
  BY BindingFields
<1> QED
  BY <1>1, <1>2 DEF EffectiveLimit, Less, Minimum, Within

LEMMA TickedFields ==
  ASSUME NEW b \in CallerBinding, NEW d \in Ticked(b)
  PROVE  d \in CallerBinding /\ SameTerms(b, d) /\ d.used <= b.used /\ (Within(b) => Within(d))
<1>1. b.used \in Nat
  BY BindingFields
<1>2. PICK n \in Nat : n <= b.used /\ d = [b EXCEPT !.used = n]
  BY <1>1 DEF Ticked
<1>3. d \in CallerBinding /\ SameTerms(b, d) /\ d.used = n
  BY <1>2, UsedSet
<1>4. EffectiveLimit(b) \in Nat /\ EffectiveLimit(d) = EffectiveLimit(b)
  BY <1>3, LimitTyped
<1> QED
  BY <1>1, <1>2, <1>3, <1>4 DEF Within

LEMMA ClampedFields ==
  ASSUME NEW b \in CallerBinding
  PROVE  Clamped(b) \in CallerBinding /\ SameTerms(b, Clamped(b)) /\ Within(Clamped(b))
<1> DEFINE n == Minimum(b.used, EffectiveLimit(b))
<1>1. b.used \in Nat /\ EffectiveLimit(b) \in Nat
  BY BindingFields, LimitTyped
<1>2. n \in Nat /\ n <= EffectiveLimit(b)
  BY <1>1 DEF Minimum
<1>3. Clamped(b) = [b EXCEPT !.used = n]
  BY DEF Clamped
<1> HIDE DEF n
<1>4. Clamped(b) \in CallerBinding /\ SameTerms(b, Clamped(b)) /\ Clamped(b).used = n
  BY <1>2, <1>3, UsedSet
<1>5. EffectiveLimit(Clamped(b)) = EffectiveLimit(b)
  BY <1>4, LimitTyped
<1> QED
  BY <1>2, <1>4, <1>5 DEF Within

(* Tokens spent and given back *)
LEMMA SpentFields ==
  ASSUME NEW b \in CallerBinding, Within(b), NEW n \in Nat, Remaining(b) >= n
  PROVE  LET d == [b EXCEPT !.used = @ + n]
         IN  d \in CallerBinding /\ SameTerms(b, d) /\ Within(d)
<1> DEFINE d == [b EXCEPT !.used = b.used + n]
<1>1. b.used \in Nat /\ EffectiveLimit(b) \in Nat
  BY BindingFields, LimitTyped
<1>2. b.used + n \in Nat /\ b.used + n <= EffectiveLimit(b)
  BY <1>1 DEF Remaining, Less, Within
<1>3. d \in CallerBinding /\ SameTerms(b, d) /\ d.used = b.used + n
  BY <1>2, UsedSet
<1> HIDE DEF d
<1>4. EffectiveLimit(d) = EffectiveLimit(b)
  BY <1>3, LimitTyped
<1>5. Within(d)
  BY <1>2, <1>3, <1>4 DEF Within
<1> QED
  BY <1>3, <1>5 DEF d

LEMMA GivenBackFields ==
  ASSUME NEW b \in CallerBinding, Within(b), NEW n \in Nat
  PROVE  LET d == [b EXCEPT !.used = Less(@, n)]
         IN  d \in CallerBinding /\ SameTerms(b, d) /\ Within(d)
<1> DEFINE d == [b EXCEPT !.used = Less(b.used, n)]
<1>1. b.used \in Nat /\ EffectiveLimit(b) \in Nat
  BY BindingFields, LimitTyped
<1>2. Less(b.used, n) \in Nat /\ Less(b.used, n) <= EffectiveLimit(b)
  BY <1>1 DEF Less, Within
<1>3. d \in CallerBinding /\ SameTerms(b, d) /\ d.used = Less(b.used, n)
  BY <1>2, UsedSet
<1> HIDE DEF d
<1>4. EffectiveLimit(d) = EffectiveLimit(b)
  BY <1>3, LimitTyped
<1>5. Within(d)
  BY <1>2, <1>3, <1>4 DEF Within
<1> QED
  BY <1>3, <1>5 DEF d

(* A reservation begins and ends.                                          *)
LEMMA ReservedFields ==
  ASSUME NEW b \in CallerBinding, Within(b), NEW n \in Nat
  PROVE  LET d == [b EXCEPT !.reserved = @ + n]
         IN  d \in CallerBinding /\ SameLoan(b, d) /\ d.reserved = b.reserved + n /\ Within(d)
<1> DEFINE d == [b EXCEPT !.reserved = b.reserved + n]
<1>1. b.reserved \in Nat /\ b.reserved + n \in Nat /\ b.lent \in Nat /\ b.borrowed \in Nat
  BY BindingFields
<1>2. /\ d \in CallerBinding /\ SameLoan(b, d) /\ d.reserved = b.reserved + n
      /\ d.quota = b.quota /\ d.used = b.used
  BY <1>1, ReservedSet
<1> HIDE DEF d
<1>3. d.borrowed >= b.borrowed /\ d.reserved >= b.reserved /\ d.lent <= b.lent
  BY <1>1, <1>2 DEF SameLoan
<1>4. Within(d)
  BY <1>2, <1>3, LimitGrows
<1> QED
  BY <1>2, <1>4 DEF d

LEMMA UnreservedFields ==
  ASSUME NEW b \in CallerBinding, NEW n \in Nat
  PROVE  LET d == Unreserved(b, n)
         IN  d \in CallerBinding /\ SameLoan(b, d) /\ d.reserved = Less(b.reserved, n) /\ Within(d)
<1> DEFINE d == [b EXCEPT !.reserved = Less(b.reserved, n)]
<1>1. b.reserved \in Nat /\ Less(b.reserved, n) \in Nat
  BY BindingFields DEF Less
<1>2. /\ d \in CallerBinding /\ SameLoan(b, d) /\ d.reserved = Less(b.reserved, n)
  BY <1>1, ReservedSet
<1>3. Unreserved(b, n) = Clamped(d)
  BY DEF Unreserved
<1> HIDE DEF d
<1> QED
  BY <1>2, <1>3, ClampedFields DEF SameTerms, SameLoan

LEMMA AdjustedFields ==
  ASSUME NEW b \in CallerBinding, NEW n \in Nat
  PROVE  LET d == Clamped([b EXCEPT !.quota = n])
         IN  d \in CallerBinding /\ SameLoan(b, d) /\ d.reserved = b.reserved /\ Within(d)
<1> DEFINE d == [b EXCEPT !.quota = n]
<1>1. d \in CallerBinding /\ SameLoan(b, d) /\ d.reserved = b.reserved
  BY QuotaSet
<1> HIDE DEF d
<1>2. /\ Clamped(d) \in CallerBinding /\ SameLoan(b, Clamped(d))
      /\ Clamped(d).reserved = b.reserved /\ Within(Clamped(d))
  BY <1>1, ClampedFields DEF SameTerms, SameLoan
<1> QED
  BY <1>2 DEF d

LEMMA FreshFields ==
  ASSUME NEW p \in Policies, NEW n \in Nat
  PROVE  Fresh(p, n) \in CallerBinding /\ Within(Fresh(p, n))
<1>1. Fresh(p, n) \in CallerBinding /\ Fresh(p, n).used = 0
  BY DEF Fresh, CallerBinding
<1> QED
  BY <1>1, LimitTyped DEF Within

-----------------------------------------------------------------------------
(* All bindings *)

Table == [Callers -> CallerBinding \cup {None}]
BindingsOK(bs) == bs \in Table /\ \A c \in Callers : bs[c] # None => Within(bs[c])
SameBound(bs, cs) == \A c \in Callers : bs[c] = None <=> cs[c] = None
SameReserved(bs, cs) == \A c \in Callers : bs[c] # None => cs[c].reserved = bs[c].reserved
SameLoans(bs, cs) == \A c \in Callers : bs[c] # None => SameLoan(bs[c], cs[c])
(* Only what is used changes, or the quota.                                *)
Calm(bs, cs) == SameBound(bs, cs) /\ SameReserved(bs, cs) /\ SameLoans(bs, cs)
(* f lends n to t *)
Loaned(bs, cs, f, t, n) ==
  \A c \in Callers : bs[c] # None =>
    /\ cs[c].borrowed = bs[c].borrowed + IF c = t THEN n ELSE 0
    /\ cs[c].lent = bs[c].lent + IF c = f THEN n ELSE 0

LEMMA BindingsTyped ==
  TypeOK /\ UsedWithinLimit <=> /\ BindingsOK(bindings) /\ BindingsOK(bindingRow) /\ TypeOK
BY DEF TypeOK, UsedWithinLimit, BindingsOK, Table, Within

LEMMA OneBound ==
  ASSUME NEW bs, BindingsOK(bs), NEW c \in Callers, bs[c] # None
  PROVE  bs[c] \in CallerBinding /\ Within(bs[c])
BY DEF BindingsOK, Table

LEMMA CalmSame == \A bs : Calm(bs, bs)
BY DEF Calm, SameBound, SameReserved, SameLoans, SameLoan

LEMMA OneBinding ==
  ASSUME NEW bs, BindingsOK(bs), NEW c \in Callers, bs[c] # None,
         NEW d \in CallerBinding, Within(d)
  PROVE  LET cs == [bs EXCEPT ![c] = d]
         IN  /\ BindingsOK(cs) /\ SameBound(bs, cs) /\ cs[c] = d
             /\ \A x \in Callers \ {c} : cs[x] = bs[x]
BY NoneIsNone DEF BindingsOK, Table, SameBound

LEMMA OneCalm ==
  ASSUME NEW bs, BindingsOK(bs), NEW c \in Callers, bs[c] # None,
         NEW d \in CallerBinding, Within(d), SameLoan(bs[c], d), d.reserved = bs[c].reserved
  PROVE  LET cs == [bs EXCEPT ![c] = d]
         IN  BindingsOK(cs) /\ Calm(bs, cs)
<1> DEFINE cs == [bs EXCEPT ![c] = d]
<1>1. /\ BindingsOK(cs) /\ SameBound(bs, cs) /\ cs[c] = d
      /\ \A x \in Callers \ {c} : cs[x] = bs[x]
  BY OneBinding
<1> HIDE DEF cs
<1>2. Calm(bs, cs)
  BY <1>1 DEF Calm, SameLoans, SameReserved, SameLoan
<1> QED
  BY <1>1, <1>2 DEF cs

(* A field of one binding set *)
LEMMA LentRaised ==
  ASSUME NEW bs \in Table, NEW c \in Callers, bs[c] # None, NEW n \in Nat
  PROVE  LET cs == [bs EXCEPT ![c].lent = n]
         IN  /\ cs \in Table /\ cs[c] \in CallerBinding
             /\ cs[c].lent = n /\ cs[c].borrowed = bs[c].borrowed
             /\ cs[c].reserved = bs[c].reserved /\ cs[c].quota = bs[c].quota /\ cs[c].used = bs[c].used
             /\ \A x \in Callers \ {c} : cs[x] = bs[x]
<1>1. bs[c] \in CallerBinding
  BY DEF Table
<1> DEFINE d == [bs[c] EXCEPT !.lent = n]
<1>2. /\ d \in CallerBinding /\ d.borrowed = bs[c].borrowed /\ d.lent = n
      /\ d.reserved = bs[c].reserved /\ d.quota = bs[c].quota /\ d.used = bs[c].used
  BY <1>1, LentSet
<1> DEFINE cs == [bs EXCEPT ![c] = d]
<1> HIDE DEF d
<1>3. cs \in Table /\ cs[c] = d /\ \A x \in Callers \ {c} : cs[x] = bs[x]
  BY <1>2 DEF Table
<1>4. [bs EXCEPT ![c].lent = n] = cs
  BY DEF d
<1> HIDE DEF cs
<1> QED
  BY <1>2, <1>3, <1>4

LEMMA BorrowedRaised ==
  ASSUME NEW bs \in Table, NEW c \in Callers, bs[c] # None, NEW n \in Nat
  PROVE  LET cs == [bs EXCEPT ![c].borrowed = n]
         IN  /\ cs \in Table /\ cs[c] \in CallerBinding
             /\ cs[c].borrowed = n /\ cs[c].lent = bs[c].lent
             /\ cs[c].reserved = bs[c].reserved /\ cs[c].quota = bs[c].quota /\ cs[c].used = bs[c].used
             /\ \A x \in Callers \ {c} : cs[x] = bs[x]
<1>1. bs[c] \in CallerBinding
  BY DEF Table
<1> DEFINE d == [bs[c] EXCEPT !.borrowed = n]
<1>2. /\ d \in CallerBinding /\ d.borrowed = n /\ d.lent = bs[c].lent
      /\ d.reserved = bs[c].reserved /\ d.quota = bs[c].quota /\ d.used = bs[c].used
  BY <1>1, BorrowedSet
<1> DEFINE cs == [bs EXCEPT ![c] = d]
<1> HIDE DEF d
<1>3. cs \in Table /\ cs[c] = d /\ \A x \in Callers \ {c} : cs[x] = bs[x]
  BY <1>2 DEF Table
<1>4. [bs EXCEPT ![c].borrowed = n] = cs
  BY DEF d
<1> HIDE DEF cs
<1> QED
  BY <1>2, <1>3, <1>4

LEMMA ClampedOne ==
  ASSUME NEW bs \in Table, NEW c \in Callers, bs[c] # None
  PROVE  LET cs == [bs EXCEPT ![c] = Clamped(@)]
         IN  /\ cs \in Table /\ cs[c] \in CallerBinding /\ Within(cs[c]) /\ SameTerms(bs[c], cs[c])
             /\ \A x \in Callers \ {c} : cs[x] = bs[x]
<1>1. bs[c] \in CallerBinding
  BY DEF Table
<1> DEFINE d == Clamped(bs[c])
<1>2. d \in CallerBinding /\ SameTerms(bs[c], d) /\ Within(d)
  BY <1>1, ClampedFields
<1> HIDE DEF d
<1> DEFINE cs == [bs EXCEPT ![c] = d]
<1>3. cs \in Table /\ cs[c] = d /\ \A x \in Callers \ {c} : cs[x] = bs[x]
  BY <1>2 DEF Table
<1>4. [bs EXCEPT ![c] = Clamped(@)] = cs
  BY DEF d
<1> HIDE DEF cs
<1> QED
  BY <1>2, <1>3, <1>4

(* A loan, and one given back *)
LEMMA LentTo ==
  ASSUME NEW bs, BindingsOK(bs), NEW f \in Callers, NEW t \in Callers,
         bs[f] # None, bs[t] # None, NEW n \in Nat
  PROVE  LET cs == Lend(bs, f, t, n)
         IN  /\ BindingsOK(cs) /\ SameBound(bs, cs) /\ SameReserved(bs, cs)
             /\ Loaned(bs, cs, f, t, n)
<1> DEFINE more == bs[f].lent + n
           ls == [bs EXCEPT ![f].lent = more]
           es == [ls EXCEPT ![t].borrowed = ls[t].borrowed + n]
           cs == [es EXCEPT ![f] = Clamped(@)]
<1>1. /\ bs \in Table /\ bs[f] \in CallerBinding /\ bs[t] \in CallerBinding
      /\ bs[f].lent \in Nat /\ bs[t].borrowed \in Nat
      /\ \A c \in Callers : bs[c] # None => bs[c] \in CallerBinding /\ Within(bs[c])
  BY OneBound, BindingFields DEF BindingsOK
<1>a. more \in Nat
  BY <1>1
<1> HIDE DEF more
<1>2. /\ ls \in Table /\ ls[f] \in CallerBinding
      /\ ls[f].lent = more /\ ls[f].borrowed = bs[f].borrowed
      /\ ls[f].reserved = bs[f].reserved /\ ls[f].quota = bs[f].quota /\ ls[f].used = bs[f].used
      /\ \A x \in Callers \ {f} : ls[x] = bs[x]
  BY <1>1, <1>a, LentRaised
<1> HIDE DEF ls
<1>3. ls[t] \in CallerBinding /\ ls[t] # None /\ ls[t].borrowed + n \in Nat /\ ls[t].borrowed = bs[t].borrowed
  BY <1>1, <1>2, BindingFields
<1>4. /\ es \in Table /\ es[t] \in CallerBinding
      /\ es[t].borrowed = ls[t].borrowed + n /\ es[t].lent = ls[t].lent
      /\ es[t].reserved = ls[t].reserved /\ es[t].quota = ls[t].quota /\ es[t].used = ls[t].used
      /\ \A x \in Callers \ {t} : es[x] = ls[x]
  BY <1>2, <1>3, BorrowedRaised
<1> HIDE DEF es
<1>5. es[f] \in CallerBinding /\ es[f] # None
  BY <1>2, <1>4, BindingFields
<1>6. /\ cs \in Table /\ cs[f] \in CallerBinding /\ Within(cs[f]) /\ SameTerms(es[f], cs[f])
      /\ \A x \in Callers \ {f} : cs[x] = es[x]
  BY <1>4, <1>5, ClampedOne
<1>7. Lend(bs, f, t, n) = cs
  BY DEF Lend, ls, es, more
<1> HIDE DEF cs
<1>8. SameBound(bs, cs)
  BY <1>1, <1>2, <1>4, <1>5, <1>6, BindingFields DEF SameBound
<1>9. SameReserved(bs, cs)
  BY <1>2, <1>4, <1>6 DEF SameReserved, SameTerms
<1>10. Loaned(bs, cs, f, t, n)
  <2>1. \A c \in Callers : bs[c] # None => bs[c].borrowed \in Nat /\ bs[c].lent \in Nat
    BY <1>1, BindingFields
  <2> QED
    BY <2>1, <1>2, <1>3, <1>4, <1>6 DEF Loaned, SameTerms, SameLoan, more
<1>11. ASSUME NEW c \in Callers, cs[c] # None
       PROVE  Within(cs[c])
  <2>1. CASE c = f
    BY <2>1, <1>6
  <2>2. CASE c # f /\ c = t
    <3>1. /\ cs[t] \in CallerBinding /\ cs[t].used = bs[t].used /\ cs[t].quota = bs[t].quota
          /\ cs[t].borrowed = bs[t].borrowed + n /\ cs[t].lent = bs[t].lent
          /\ cs[t].reserved = bs[t].reserved
      BY <2>2, <1>2, <1>4, <1>6
    <3>2. /\ bs[t].reserved \in Nat /\ bs[t].lent \in Nat /\ Within(bs[t])
      BY <1>1, BindingFields
    <3>3. cs[t].borrowed >= bs[t].borrowed /\ cs[t].reserved >= bs[t].reserved /\ cs[t].lent <= bs[t].lent
      BY <3>1, <3>2, <1>1
    <3> QED
      BY <3>1, <3>2, <3>3, <2>2, <1>1, LimitGrows
  <2>3. CASE c # f /\ c # t
    BY <2>3, <1>1, <1>2, <1>4, <1>6, <1>8, <1>11 DEF SameBound
  <2> QED
    BY <2>1, <2>2, <2>3
<1> QED
  BY <1>6, <1>7, <1>8, <1>9, <1>10, <1>11 DEF BindingsOK

LEMMA LentBack ==
  ASSUME NEW bs, BindingsOK(bs), NEW f \in Callers, NEW t \in Callers,
         bs[f] # None, bs[t] # None, NEW n \in Nat, bs[f].borrowed >= n, bs[t].lent >= n
  PROVE  LET less == [bs EXCEPT ![f].borrowed = @ - n]
             both == [less EXCEPT ![t].lent = @ - n]
             cs == [both EXCEPT ![f] = Clamped(@)]
         IN  /\ BindingsOK(cs) /\ SameBound(bs, cs) /\ SameReserved(bs, cs)
             /\ Loaned(bs, cs, t, f, -n)
<1> DEFINE less == bs[f].borrowed - n
           ls == [bs EXCEPT ![f].borrowed = less]
           es == [ls EXCEPT ![t].lent = ls[t].lent - n]
           cs == [es EXCEPT ![f] = Clamped(@)]
<1>1. /\ bs \in Table /\ bs[f] \in CallerBinding /\ bs[t] \in CallerBinding
      /\ bs[f].borrowed \in Nat /\ bs[t].lent \in Nat
      /\ \A c \in Callers : bs[c] # None => bs[c] \in CallerBinding /\ Within(bs[c])
  BY OneBound, BindingFields DEF BindingsOK
<1>a. less \in Nat
  BY <1>1
<1> HIDE DEF less
<1>2. /\ ls \in Table /\ ls[f] \in CallerBinding
      /\ ls[f].borrowed = less /\ ls[f].lent = bs[f].lent
      /\ ls[f].reserved = bs[f].reserved /\ ls[f].quota = bs[f].quota /\ ls[f].used = bs[f].used
      /\ \A x \in Callers \ {f} : ls[x] = bs[x]
  BY <1>1, <1>a, BorrowedRaised
<1> HIDE DEF ls
<1>3. ls[t] \in CallerBinding /\ ls[t] # None /\ ls[t].lent - n \in Nat /\ ls[t].lent = bs[t].lent
  BY <1>1, <1>2, BindingFields
<1>4. /\ es \in Table /\ es[t] \in CallerBinding
      /\ es[t].lent = ls[t].lent - n /\ es[t].borrowed = ls[t].borrowed
      /\ es[t].reserved = ls[t].reserved /\ es[t].quota = ls[t].quota /\ es[t].used = ls[t].used
      /\ \A x \in Callers \ {t} : es[x] = ls[x]
  BY <1>2, <1>3, LentRaised
<1> HIDE DEF es
<1>5. es[f] \in CallerBinding /\ es[f] # None
  BY <1>2, <1>4, BindingFields
<1>6. /\ cs \in Table /\ cs[f] \in CallerBinding /\ Within(cs[f]) /\ SameTerms(es[f], cs[f])
      /\ \A x \in Callers \ {f} : cs[x] = es[x]
  BY <1>4, <1>5, ClampedOne
<1>8. SameBound(bs, cs)
  BY <1>1, <1>2, <1>4, <1>5, <1>6, BindingFields DEF SameBound
<1> HIDE DEF cs
<1>9. SameReserved(bs, cs)
  BY <1>2, <1>4, <1>6 DEF SameReserved, SameTerms
<1>10. Loaned(bs, cs, t, f, -n)
  <2>1. \A c \in Callers : bs[c] # None => bs[c].borrowed \in Nat /\ bs[c].lent \in Nat
    BY <1>1, BindingFields
  <2> QED
    BY <2>1, <1>2, <1>3, <1>4, <1>6 DEF Loaned, SameTerms, SameLoan, less
<1>11. ASSUME NEW c \in Callers, cs[c] # None
       PROVE  Within(cs[c])
  <2>1. CASE c = f
    BY <2>1, <1>6
  <2>2. CASE c # f /\ c = t
    <3>1. /\ cs[t] \in CallerBinding /\ cs[t].used = bs[t].used /\ cs[t].quota = bs[t].quota
          /\ cs[t].lent = bs[t].lent - n /\ cs[t].borrowed = bs[t].borrowed
          /\ cs[t].reserved = bs[t].reserved
      BY <2>2, <1>2, <1>4, <1>6
    <3>2. /\ bs[t].reserved \in Nat /\ bs[t].borrowed \in Nat /\ Within(bs[t])
      BY <1>1, BindingFields
    <3>3. cs[t].borrowed >= bs[t].borrowed /\ cs[t].reserved >= bs[t].reserved /\ cs[t].lent <= bs[t].lent
      BY <3>1, <3>2, <1>1
    <3> QED
      BY <3>1, <3>2, <3>3, <2>2, <1>1, LimitGrows
  <2>3. CASE c # f /\ c # t
    BY <2>3, <1>1, <1>2, <1>4, <1>6, <1>8, <1>11 DEF SameBound
  <2> QED
    BY <2>1, <2>2, <2>3
<1>12. BindingsOK(cs)
  BY <1>6, <1>11 DEF BindingsOK
<1> QED
  BY <1>8, <1>9, <1>10, <1>12 DEF cs, es, ls, less

LEMMA BothTicked ==
  ASSUME BindingsOK(bindings), NEW f \in Callers, NEW t \in Callers, IsBound(f), IsBound(t),
         NEW bs \in TickedBoth(f, t)
  PROVE  BindingsOK(bs) /\ Calm(bindings, bs)
<1>1. PICK b \in Ticked(bindings[f]), d \in Ticked(bindings[t]) :
        bs = [bindings EXCEPT ![f] = b, ![t] = IF t = f THEN b ELSE d]
  BY DEF TickedBoth
<1>2. /\ bindings[f] \in CallerBinding /\ Within(bindings[f])
      /\ bindings[t] \in CallerBinding /\ Within(bindings[t])
  BY OneBound DEF IsBound
<1>3. /\ b \in CallerBinding /\ SameTerms(bindings[f], b) /\ Within(b)
      /\ d \in CallerBinding /\ SameTerms(bindings[t], d) /\ Within(d)
  BY <1>2, TickedFields
<1>4. /\ bs \in Table /\ bs[f] = b /\ bs[t] = (IF t = f THEN b ELSE d)
      /\ \A x \in Callers \ {f, t} : bs[x] = bindings[x]
  BY <1>1, <1>3 DEF BindingsOK, Table
<1>5. BindingsOK(bs)
  BY <1>3, <1>4 DEF BindingsOK
<1>6. Calm(bindings, bs)
  BY <1>3, <1>4, BindingFields DEF Calm, SameBound, SameReserved, SameLoans, SameTerms, SameLoan, IsBound
<1> QED
  BY <1>5, <1>6

-----------------------------------------------------------------------------
(* What a step leaves alone *)

BaseInv == TypeOK /\ AgendaInv /\ BoundInv /\ UsedWithinLimit

Quiet(t) == t.do \notin {"clean", "grant", "remove"}
QueueTasks == {t \in Tasks : ~Quiet(t)}

QueueQuiet == QueueTasks' = QueueTasks /\ UNCHANGED <<waitQueue, waitRows, now, up>>
BookQuiet ==
  /\ SameBound(bindings, bindings') /\ SameReserved(bindings, bindings')
  /\ \A r \in Reservations : StatusDue(r) => StatusDue(r)'
  /\ UNCHANGED <<reservations, reservationRow, now, up, torn, rebound>>
LoanQuiet ==
  /\ todo # <<>> => Task.do # "binding"
  /\ SameBound(bindings, bindings') /\ SameLoans(bindings, bindings')
  /\ UNCHANGED <<bindingRow, rebound>>

LEMMA TasksTyped ==
  ASSUME TypeOK
  PROVE  Tasks \subseteq TaskType
BY DEF TypeOK, Tasks, ToSet

LEMMA NoTasksNow ==
  ASSUME todo = <<>>
  PROVE  Tasks = {} /\ QueueTasks = {} /\ Waiting = ToSet(waitQueue)
         /\ \A r \in Reservations : ~StatusDue(r)
BY NoTasks DEF Tasks, QueueTasks, StatusDue, Waiting, Handled

(* Who waits, by the tasks that still have to do with the queue            *)
LEMMA WaitingIs ==
  Waiting = ToSet(waitQueue) \cup UNION {ToSet(t.left) : t \in {u \in QueueTasks : u.do # "remove"}}
BY DEF Waiting, Handled, QueueTasks, Quiet

LEMMA WaitingSame ==
  ASSUME QueueTasks' = QueueTasks, UNCHANGED waitQueue
  PROVE  Waiting' = Waiting
BY DEF Waiting, Handled, QueueTasks, Quiet

(* A step that has taken the first task                                    *)
LEMMA AfterTask ==
  ASSUME TypeOK, AgendaInv, todo # <<>>, StillThere, up', NEW news \in SUBSET TaskType,
         Ordered(todo'), Tasks' = news \cup ToSet(Tail(todo)),
         \A t \in news : Ready(t)'
  PROVE  /\ AgendaInv'
         /\ Quiet(Task) /\ (\A t \in news : Quiet(t)) => QueueTasks' = QueueTasks
         /\ \A r \in Reservations :
              StatusDue(r) /\ ~(Task.do = "status" /\ Task.reservation = r) => StatusDue(r)'
<1>1. AgendaInv'
  BY AgendaGoesOn
<1>2. Tasks = {Task} \cup ToSet(Tail(todo))
  BY TaskFirst
<1> QED
  BY <1>1, <1>2 DEF QueueTasks, StatusDue

LEMMA AfterDone ==
  ASSUME TypeOK, AgendaInv, todo # <<>>, StillThere, up', Done
  PROVE  /\ AgendaInv' /\ todo' \in Seq(TaskType) /\ Tasks' = ToSet(Tail(todo))
         /\ Quiet(Task) => QueueTasks' = QueueTasks
         /\ \A r \in Reservations :
              StatusDue(r) /\ ~(Task.do = "status" /\ Task.reservation = r) => StatusDue(r)'
<1>1. AgendaInv' /\ todo' \in Seq(TaskType) /\ Tasks' = ToSet(Tail(todo))
  BY AgendaDone
<1>2. Tasks = {Task} \cup ToSet(Tail(todo))
  BY TaskFirst
<1> QED
  BY <1>1, <1>2 DEF QueueTasks, StatusDue

(* A step that was first to take mu *)
LEMMA AfterIdle ==
  ASSUME todo = <<>>, up', NEW news \in SUBSET TaskType, Ordered(todo'), Tasks' = news,
         \A t \in news : Ready(t)'
  PROVE  /\ AgendaInv'
         /\ (\A t \in news : Quiet(t)) => QueueTasks' = QueueTasks
         /\ \A r \in Reservations : StatusDue(r) => StatusDue(r)'
<1>1. AgendaInv'
  BY AgendaStarts
<1> QED
  BY <1>1, NoTasksNow DEF QueueTasks, StatusDue

(* Whoever has a row is bound, while the process runs.                     *)
LEMMA AllBound ==
  ASSUME BaseInv, up
  PROVE  /\ \A c \in Callers : bindingRow[c] # None <=> bindings[c] # None
         /\ \A r \in Reservations : reservations[r] # None =>
              /\ reservations[r] \in QuotaReservation /\ IsBound(reservations[r].caller)
              /\ reservationRow[r] # None
         /\ \A r \in Reservations : reservationRow[r] # None =>
              reservationRow[r] \in QuotaReservation /\ IsBound(reservationRow[r].caller)
         /\ \A item \in Waiting : IsBound(item.caller)
         /\ \A item \in waitRows : item \in WaitItem /\ IsBound(item.caller)
<1>1. \A c \in Callers : bindingRow[c] # None <=> bindings[c] # None
  BY DEF BaseInv, BoundInv
<1>2. \A r \in Reservations : reservationRow[r] # None =>
        reservationRow[r] \in QuotaReservation /\ reservationRow[r].caller \in Callers
  BY DEF BaseInv, TypeOK, QuotaReservation
<1>3. \A item \in waitRows : item \in WaitItem /\ item.caller \in Callers
  BY DEF BaseInv, TypeOK, WaitItem
<1>4. \A r \in Reservations : reservations[r] # None => reservations[r] \in QuotaReservation
  BY DEF BaseInv, TypeOK
<1> QED
  BY <1>1, <1>2, <1>3, <1>4 DEF BaseInv, BoundInv, IsBound

LEMMA BaseHolds ==
  ASSUME BaseInv, up, up', TypeOK', AgendaInv', BindingsOK(bindings'),
         SameBound(bindings, bindings'), UNCHANGED bindingRow,
         \A r \in Reservations : reservations'[r] # None =>
           IsBound(reservations'[r].caller) /\ reservationRow'[r] # None,
         \A r \in Reservations : reservationRow'[r] # None => IsBound(reservationRow'[r].caller),
         \A item \in Waiting' : IsBound(item.caller),
         \A item \in waitRows' : IsBound(item.caller)
  PROVE  BaseInv'
<1>1. \A c \in Callers : bindingRow[c] # None <=> bindings[c] # None
  BY AllBound
<1>2. \A c \in Callers : IsBound(c) <=> bindings'[c] # None
  BY DEF SameBound, IsBound
<1>3. \A r \in Reservations : reservations'[r] # None => reservations'[r].caller \in Callers
  BY DEF TypeOK, QuotaReservation
<1>4. \A r \in Reservations : reservationRow'[r] # None => reservationRow'[r].caller \in Callers
  BY DEF TypeOK, QuotaReservation
<1>5. \A item \in waitRows' : item.caller \in Callers
  BY DEF TypeOK, WaitItem
<1>6. \A item \in Waiting' : item.caller \in Callers
  <2>1. Tasks' \subseteq TaskType
    BY DEF TypeOK, Tasks, ToSet
  <2>2. \A item \in ToSet(waitQueue') : item \in WaitItem
    BY DEF TypeOK, ToSet
  <2>3. ASSUME NEW t \in Tasks', t.do \in {"clean", "grant"}, NEW item \in ToSet(t.left)
        PROVE  item \in WaitItem
    <3>1. t.left \in Seq(WaitItem)
      BY <2>1, <2>3, TaskTyped
    <3> QED
      BY <3>1, <2>3 DEF ToSet
  <2>4. \A item \in Waiting' : item \in WaitItem
    BY <2>2, <2>3 DEF Waiting, Handled
  <2> QED
    BY <2>4 DEF WaitItem
<1>7. BoundInv'
  BY <1>1, <1>2, <1>3, <1>4, <1>5, <1>6 DEF BoundInv, IsBound
<1>8. BindingsOK(bindingRow')
  BY BindingsTyped DEF BaseInv
<1>9. UsedWithinLimit'
  BY <1>8 DEF UsedWithinLimit, BindingsOK, Within
<1> QED
  BY <1>7, <1>9 DEF BaseInv

(* The case of a step that moves no request and no reservation             *)
LEMMA BaseHoldsQuietly ==
  ASSUME BaseInv, up, todo' \in Seq(TaskType), AgendaInv', BindingsOK(bindings'),
         SameBound(bindings, bindings'), QueueTasks' = QueueTasks,
         UNCHANGED <<bindingRow, waitQueue, waitRows, reservations, reservationRow, now, up>>
  PROVE  BaseInv'
<1>1. Waiting' = Waiting
  BY WaitingSame
<1>2. TypeOK'
  BY DEF BaseInv, TypeOK, BindingsOK, Table
<1> QED
  BY <1>1, <1>2, AllBound, BaseHolds

-----------------------------------------------------------------------------
(* The calls that change what one caller has used, and what changes nothing *)

LEMMA WritesAreTasks ==
  /\ \A c \in Callers : /\ WriteBinding(c) \in TaskType /\ Quiet(WriteBinding(c))
                        /\ WriteBinding(c).do = "binding" /\ WriteBinding(c).caller = c
  /\ \A r \in Reservations : /\ WriteStatus(r) \in TaskType /\ Quiet(WriteStatus(r))
                             /\ WriteStatus(r).do = "status" /\ WriteStatus(r).reservation = r
BY NewTasks DEF WriteBinding, WriteStatus, Quiet

LEMMA CallStep ==
  ASSUME BaseInv, MutexFree, NEW c \in Callers, IsBound(c),
         NEW d \in CallerBinding, Within(d), SameLoan(bindings[c], d),
         d.reserved = bindings[c].reserved, bindings' = [bindings EXCEPT ![c] = d],
         todo' = <<WriteBinding(c)>>,
         UNCHANGED <<reservations, bindingRow, reservationRow, now, up, torn, rebound>>
  PROVE  /\ BindingsOK(bindings') /\ Calm(bindings, bindings') /\ BookQuiet /\ LoanQuiet
         /\ AgendaInv' /\ todo' \in Seq(TaskType) /\ QueueTasks' = {}
<1>1. up /\ todo = <<>> /\ BindingsOK(bindings)
  BY BindingsTyped DEF MutexFree, BaseInv
<1>2. BindingsOK(bindings') /\ Calm(bindings, bindings')
  BY <1>1, OneCalm DEF IsBound
<1>3. todo' \in Seq(TaskType) /\ Ordered(todo') /\ Tasks' = {WriteBinding(c)}
  BY WritesAreTasks, TaskAlone DEF Tasks
<1>4. Ready(WriteBinding(c))'
  BY <1>2, WritesAreTasks DEF Ready, IsBound, Calm, SameBound
<1>5. AgendaInv' /\ QueueTasks' = QueueTasks /\ \A r \in Reservations : StatusDue(r) => StatusDue(r)'
  <2>1. {WriteBinding(c)} \in SUBSET TaskType /\ \A t \in {WriteBinding(c)} : Quiet(t) /\ Ready(t)'
    BY <1>4, WritesAreTasks
  <2> QED
    BY <2>1, <1>1, <1>3, AfterIdle
<1> QED
  BY <1>1, <1>2, <1>3, <1>5, NoTasksNow DEF BookQuiet, LoanQuiet, Calm

LEMMA CallStepQuiet ==
  ASSUME BaseInv, MutexFree, NEW c \in Callers, IsBound(c),
         NEW d \in CallerBinding, Within(d), SameLoan(bindings[c], d),
         d.reserved = bindings[c].reserved, bindings' = [bindings EXCEPT ![c] = d],
         todo' = <<WriteBinding(c)>>, UNCHANGED <<waitQueue, reservations, tables, now, up, history>>
  PROVE  BaseInv' /\ QueueQuiet /\ BookQuiet /\ LoanQuiet
<1>1. /\ up /\ todo = <<>> /\ QueueTasks = {}
      /\ UNCHANGED <<waitQueue, waitRows, reservations, bindingRow, reservationRow, now, up, torn, rebound>>
  BY NoTasksNow DEF tables, history, MutexFree
<1>2. /\ BindingsOK(bindings') /\ Calm(bindings, bindings') /\ BookQuiet /\ LoanQuiet
      /\ AgendaInv' /\ todo' \in Seq(TaskType) /\ QueueTasks' = {}
  BY <1>1, CallStep
<1>3. BaseInv'
  BY <1>1, <1>2, BaseHoldsQuietly DEF Calm
<1> QED
  BY <1>1, <1>2, <1>3 DEF QueueQuiet

LEMMA OneTicked ==
  ASSUME BaseInv, NEW c \in Callers, IsBound(c), NEW b \in Ticked(bindings[c])
  PROVE  /\ bindings[c] \in CallerBinding /\ b \in CallerBinding /\ Within(b)
         /\ SameTerms(bindings[c], b)
<1>1. bindings[c] \in CallerBinding /\ Within(bindings[c])
  BY BindingsTyped, OneBound DEF BaseInv, IsBound
<1> QED
  BY <1>1, TickedFields

LEMMA RequestTokensStep ==
  ASSUME BaseInv, NEW c \in Callers, NEW tokens \in Amounts, RequestTokens(c, tokens)
  PROVE  BaseInv' /\ QueueQuiet /\ BookQuiet /\ LoanQuiet
<1>1. tokens \in Nat /\ IsBound(c)
  BY InputsAssumption DEF RequestTokens, Bound, IsBound
<1>2. PICK b \in Ticked(bindings[c]) :
        bindings' = [bindings EXCEPT ![c] =
          IF Remaining(b) >= tokens THEN [b EXCEPT !.used = @ + tokens] ELSE b]
  BY DEF RequestTokens
<1> DEFINE d == IF Remaining(b) >= tokens THEN [b EXCEPT !.used = @ + tokens] ELSE b
<1>3. /\ b \in CallerBinding /\ Within(b) /\ SameTerms(bindings[c], b)
  BY <1>1, OneTicked
<1>4. d \in CallerBinding /\ Within(d) /\ SameTerms(b, d)
  <2>1. CASE Remaining(b) >= tokens
    BY <2>1, <1>1, <1>3, SpentFields
  <2>2. CASE ~(Remaining(b) >= tokens)
    BY <2>2, <1>3 DEF SameTerms, SameLoan
  <2> QED
    BY <2>1, <2>2
<1>5. bindings' = [bindings EXCEPT ![c] = d]
  BY <1>2
<1> HIDE DEF d
<1>6. SameLoan(bindings[c], d) /\ d.reserved = bindings[c].reserved
  BY <1>3, <1>4 DEF SameTerms, SameLoan
<1> QED
  BY <1>1, <1>4, <1>5, <1>6, CallStepQuiet DEF RequestTokens

LEMMA ReturnTokensStep ==
  ASSUME BaseInv, NEW c \in Callers, NEW tokens \in Amounts, ReturnTokens(c, tokens)
  PROVE  BaseInv' /\ QueueQuiet /\ BookQuiet /\ LoanQuiet
<1>1. tokens \in Nat /\ IsBound(c)
  BY InputsAssumption DEF ReturnTokens, Bound, IsBound
<1>2. PICK b \in Ticked(bindings[c]) :
        bindings' = [bindings EXCEPT ![c] = [b EXCEPT !.used = Less(@, tokens)]]
  BY DEF ReturnTokens
<1> DEFINE d == [b EXCEPT !.used = Less(@, tokens)]
<1>3. /\ b \in CallerBinding /\ Within(b) /\ SameTerms(bindings[c], b)
  BY <1>1, OneTicked
<1>4. d \in CallerBinding /\ Within(d) /\ SameTerms(b, d)
  BY <1>1, <1>3, GivenBackFields
<1>5. bindings' = [bindings EXCEPT ![c] = d]
  BY <1>2
<1> HIDE DEF d
<1>6. SameLoan(bindings[c], d) /\ d.reserved = bindings[c].reserved
  BY <1>3, <1>4 DEF SameTerms, SameLoan
<1> QED
  BY <1>1, <1>4, <1>5, <1>6, CallStepQuiet DEF ReturnTokens

LEMMA AdjustQuotaStep ==
  ASSUME BaseInv, NEW c \in Callers, NEW quota \in NewQuotas, AdjustQuota(c, quota)
  PROVE  BaseInv' /\ QueueQuiet /\ BookQuiet /\ LoanQuiet
<1>1. quota \in Nat /\ IsBound(c)
  BY InputsAssumption DEF AdjustQuota, Bound, IsBound
<1>2. PICK b \in Ticked(bindings[c]) :
        bindings' = [bindings EXCEPT ![c] = Clamped([b EXCEPT !.quota = quota])]
  BY DEF AdjustQuota
<1> DEFINE d == Clamped([b EXCEPT !.quota = quota])
<1>3. /\ b \in CallerBinding /\ Within(b) /\ SameTerms(bindings[c], b)
  BY <1>1, OneTicked
<1>4. d \in CallerBinding /\ Within(d) /\ SameLoan(b, d) /\ d.reserved = b.reserved
  BY <1>1, <1>3, AdjustedFields
<1>5. bindings' = [bindings EXCEPT ![c] = d]
  BY <1>2
<1> HIDE DEF d
<1>6. SameLoan(bindings[c], d) /\ d.reserved = bindings[c].reserved
  BY <1>3, <1>4 DEF SameTerms, SameLoan
<1> QED
  BY <1>1, <1>4, <1>5, <1>6, CallStepQuiet DEF AdjustQuota

LEMMA LookStep ==
  ASSUME BaseInv, Look
  PROVE  BaseInv' /\ QueueQuiet /\ BookQuiet /\ LoanQuiet
<1>1. /\ todo # <<>> /\ Task.do = "look" /\ Done
      /\ UNCHANGED <<waitQueue, waitRows, reservations, bindingRow, reservationRow, now, up, torn, rebound>>
  BY DEF Look, Doing, tables, history
<1> DEFINE c == Task.caller
<1>2. c \in Callers /\ IsBound(c) /\ up /\ Quiet(Task)
  BY <1>1, TaskFirst, TaskTyped DEF BaseInv, Ready, Quiet
<1>3. PICK b \in Ticked(bindings[c]) : bindings' = [bindings EXCEPT ![c] = b]
  BY DEF Look
<1> HIDE DEF c
<1>4. b \in CallerBinding /\ Within(b) /\ SameTerms(bindings[c], b)
  BY <1>2, OneTicked
<1>5. BindingsOK(bindings') /\ Calm(bindings, bindings')
  <2>1. BindingsOK(bindings)
    BY BindingsTyped DEF BaseInv
  <2>2. bindings[c] # None /\ SameLoan(bindings[c], b) /\ b.reserved = bindings[c].reserved
    BY <1>2, <1>4 DEF IsBound, SameTerms
  <2> QED
    BY <2>1, <2>2, <1>2, <1>3, <1>4, OneCalm
<1>6. StillThere
  BY <1>1, <1>5 DEF StillThere, Known, Calm, SameBound
<1>7. /\ AgendaInv' /\ todo' \in Seq(TaskType) /\ QueueTasks' = QueueTasks
      /\ \A r \in Reservations : StatusDue(r) => StatusDue(r)'
  BY <1>1, <1>2, <1>6, AfterDone DEF BaseInv
<1>8. BaseInv'
  BY <1>1, <1>2, <1>5, <1>7, BaseHoldsQuietly DEF Calm
<1> QED
  BY <1>1, <1>5, <1>7, <1>8 DEF QueueQuiet, BookQuiet, LoanQuiet, Calm

(* A step that changes no binding and no reservation                       *)
LEMMA IdleStep ==
  ASSUME BaseInv, up, todo' \in Seq(TaskType), AgendaInv',
         QueueTasks' = QueueTasks, \A r \in Reservations : StatusDue(r) => StatusDue(r)',
         todo # <<>> => Task.do # "binding",
         UNCHANGED <<memory, bindingRow, waitRows, reservationRow, now, up, torn, rebound>>
  PROVE  BaseInv' /\ QueueQuiet /\ BookQuiet /\ LoanQuiet
<1>1. UNCHANGED <<bindings, waitQueue, reservations>>
  BY DEF memory
<1>2. BindingsOK(bindings') /\ Calm(bindings, bindings')
  BY <1>1, BindingsTyped, CalmSame DEF BaseInv
<1>3. BaseInv'
  BY <1>1, <1>2, BaseHoldsQuietly DEF Calm
<1> QED
  BY <1>1, <1>2, <1>3 DEF QueueQuiet, BookQuiet, LoanQuiet, Calm

LEMMA UnmovedThere ==
  ASSUME UNCHANGED memory
  PROVE  StillThere
BY DEF memory, StillThere, Known

LEMMA CreatePolicyStep ==
  ASSUME BaseInv, NEW p \in Policies, NEW a \in Algorithms, CreatePolicy(p, a)
  PROVE  BaseInv' /\ QueueQuiet /\ BookQuiet /\ LoanQuiet
<1>1. /\ up /\ todo = <<>>
      /\ UNCHANGED <<memory, bindingRow, waitRows, reservationRow, now, up, torn, rebound, todo>>
  BY DEF CreatePolicy, MutexFree, history
<1>2. todo' \in Seq(TaskType) /\ AgendaInv'
  BY <1>1, AgendaIdle
<1>3. QueueTasks' = QueueTasks /\ \A r \in Reservations : StatusDue(r) => StatusDue(r)'
  BY <1>1 DEF QueueTasks, Tasks, StatusDue
<1> QED
  BY <1>1, <1>2, <1>3, IdleStep

LEMMA ReservationsDoneStep ==
  ASSUME BaseInv, ReservationsDone
  PROVE  BaseInv' /\ QueueQuiet /\ BookQuiet /\ LoanQuiet
<1>1. /\ todo # <<>> /\ Task.do = "reserve" /\ Done
      /\ UNCHANGED <<memory, bindingRow, waitRows, reservationRow, now, up, torn, rebound>>
  BY DEF ReservationsDone, Doing, tables, history
<1>2. up /\ Quiet(Task)
  BY <1>1 DEF BaseInv, AgendaInv, Quiet
<1>3. /\ AgendaInv' /\ todo' \in Seq(TaskType) /\ QueueTasks' = QueueTasks
      /\ \A r \in Reservations : StatusDue(r) => StatusDue(r)'
  BY <1>1, <1>2, AfterDone, UnmovedThere DEF BaseInv
<1> QED
  BY <1>1, <1>2, <1>3, IdleStep

LEMMA GetCallerStatusStep ==
  ASSUME BaseInv, NEW c \in Callers, GetCallerStatus(c)
  PROVE  BaseInv' /\ QueueQuiet /\ BookQuiet /\ LoanQuiet
<1>0. PICK loop, look : /\ loop = [do |-> "reserve", left |-> {r \in Known : Due(r)}]
                        /\ look = [do |-> "look", caller |-> c]
  OBVIOUS
<1>1. /\ up /\ todo = <<>> /\ IsBound(c) /\ todo' = <<loop, look>>
      /\ UNCHANGED <<memory, bindingRow, waitRows, reservationRow, now, up, torn, rebound>>
  BY <1>0 DEF GetCallerStatus, MutexFree, tables, history, Bound, IsBound
<1>2. {r \in Known : Due(r)} \in SUBSET Reservations /\ {r \in Known : Due(r)} \subseteq Known
  BY DEF Known
<1>3. loop \in TaskType /\ look \in TaskType
  BY <1>0, <1>2, NewTasks
<1>4. /\ loop.do = "reserve" /\ loop.left \subseteq Known
      /\ look.do = "look" /\ look.caller = c
  BY <1>0, <1>2
<1>5. todo' \in Seq(TaskType) /\ Ordered(todo') /\ Tasks' = {loop, look}
  BY <1>1, <1>3, <1>4, TasksAlone DEF Tasks, Before
<1>6. Ready(loop)' /\ Ready(look)' /\ Quiet(loop) /\ Quiet(look)
  <2>1. Known' = Known /\ bindings' = bindings
    BY <1>1 DEF Known, memory
  <2> QED
    BY <2>1, <1>1, <1>4 DEF Ready, IsBound, Quiet
<1>7. /\ AgendaInv' /\ QueueTasks' = QueueTasks
      /\ \A r \in Reservations : StatusDue(r) => StatusDue(r)'
  <2>1. {loop, look} \in SUBSET TaskType /\ \A t \in {loop, look} : Ready(t)' /\ Quiet(t)
    BY <1>3, <1>6
  <2> QED
    BY <2>1, <1>1, <1>5, AfterIdle
<1> QED
  BY <1>1, <1>5, <1>7, IdleStep

-----------------------------------------------------------------------------
(* Loans *)

LEMMA TwoWrites ==
  ASSUME MutexFree, NEW f \in Callers, NEW t \in Callers, up',
         bindings'[f] # None, bindings'[t] # None, todo' = <<WriteBinding(f), WriteBinding(t)>>
  PROVE  /\ AgendaInv' /\ todo' \in Seq(TaskType) /\ QueueTasks' = QueueTasks
         /\ \A r \in Reservations : StatusDue(r) => StatusDue(r)'
<1>1. /\ todo' \in Seq(TaskType) /\ Ordered(todo') /\ Tasks' = {WriteBinding(f), WriteBinding(t)}
  BY WritesAreTasks, TasksAlone DEF Tasks, Before
<1>2. {WriteBinding(f), WriteBinding(t)} \in SUBSET TaskType
      /\ \A u \in {WriteBinding(f), WriteBinding(t)} : Quiet(u) /\ Ready(u)'
  BY WritesAreTasks DEF Ready, IsBound
<1> QED
  BY <1>1, <1>2, AfterIdle DEF MutexFree

LEMMA LoanAfterCalm ==
  ASSUME NEW bs, NEW cs, NEW ds, NEW f, NEW t, NEW n, Calm(bs, cs), SameBound(cs, ds),
         SameReserved(cs, ds), Loaned(cs, ds, f, t, n)
  PROVE  SameBound(bs, ds) /\ SameReserved(bs, ds) /\ Loaned(bs, ds, f, t, n)
<1>1. SameBound(bs, ds)
  BY DEF Calm, SameBound
<1>2. SameReserved(bs, ds)
  BY DEF Calm, SameBound, SameReserved
<1>3. Loaned(bs, ds, f, t, n)
  BY DEF Calm, SameBound, SameLoans, SameLoan, Loaned
<1> QED
  BY <1>1, <1>2, <1>3

NewLoan(f, t, n) ==
  /\ todo = <<>> /\ SameBound(bindings, bindings')
  /\ Loaned(bindings, bindings', f, t, n)
  /\ UNCHANGED <<bindingRow, rebound>>

LEMMA BorrowQuotaStep ==
  ASSUME BaseInv, NEW f \in Callers, NEW t \in Callers, NEW amount \in Amounts,
         BorrowQuota(f, t, amount)
  PROVE  /\ BaseInv' /\ QueueQuiet /\ BookQuiet
         /\ \/ LoanQuiet
            \/ NewLoan(f, t, amount) /\ todo' = <<WriteBinding(f), WriteBinding(t)>>
<1>1. /\ MutexFree /\ up /\ todo = <<>> /\ IsBound(f) /\ IsBound(t) /\ amount \in Nat
      /\ UNCHANGED <<waitQueue, waitRows, reservations, bindingRow, reservationRow, now, up, torn, rebound>>
  BY InputsAssumption DEF BorrowQuota, Borrow, MutexFree, Bound, IsBound, history
<1>2. PICK bs \in TickedBoth(f, t) :
        \/ /\ bindings' = Lend(bs, f, t, amount)
           /\ todo' = <<WriteBinding(f), WriteBinding(t)>>
        \/ bindings' = bs /\ UNCHANGED todo
  BY DEF BorrowQuota, Borrow
<1>3. BindingsOK(bs) /\ Calm(bindings, bs)
  BY <1>1, BindingsTyped, BothTicked DEF BaseInv
<1>4. CASE bindings' = bs /\ UNCHANGED todo
  <2>1. todo' \in Seq(TaskType) /\ AgendaInv'
    BY <1>1, <1>4, AgendaIdle
  <2>2. QueueTasks' = QueueTasks /\ \A r \in Reservations : StatusDue(r) => StatusDue(r)'
    BY <1>4 DEF QueueTasks, Tasks, StatusDue
  <2>3. BaseInv'
    BY <1>1, <1>3, <1>4, <2>1, <2>2, BaseHoldsQuietly DEF Calm
  <2> QED
    BY <1>1, <1>3, <1>4, <2>2, <2>3 DEF QueueQuiet, BookQuiet, LoanQuiet, Calm
<1>5. CASE /\ bindings' = Lend(bs, f, t, amount)
           /\ todo' = <<WriteBinding(f), WriteBinding(t)>>
  <2>1. bs[f] # None /\ bs[t] # None
    BY <1>1, <1>3 DEF Calm, SameBound, IsBound
  <2>2. /\ BindingsOK(bindings') /\ SameBound(bs, bindings') /\ SameReserved(bs, bindings')
        /\ Loaned(bs, bindings', f, t, amount)
    BY <1>1, <1>3, <1>5, <2>1, LentTo
  <2>3. /\ SameBound(bindings, bindings') /\ SameReserved(bindings, bindings')
        /\ Loaned(bindings, bindings', f, t, amount)
    BY <1>3, <2>2, LoanAfterCalm
  <2>4. /\ AgendaInv' /\ todo' \in Seq(TaskType) /\ QueueTasks' = QueueTasks
        /\ \A r \in Reservations : StatusDue(r) => StatusDue(r)'
    BY <1>1, <1>5, <2>3, TwoWrites DEF SameBound, IsBound
  <2>5. BaseInv'
    BY <1>1, <2>2, <2>3, <2>4, BaseHoldsQuietly
  <2> QED
    BY <1>1, <1>5, <2>3, <2>4, <2>5 DEF QueueQuiet, BookQuiet, NewLoan
<1> QED
  BY <1>2, <1>4, <1>5

LEMMA ReturnQuotaStep ==
  ASSUME BaseInv, NEW f \in Callers, NEW t \in Callers, NEW amount \in Amounts,
         ReturnQuota(f, t, amount)
  PROVE  /\ BaseInv' /\ QueueQuiet /\ BookQuiet /\ NewLoan(t, f, -amount)
         /\ todo' = <<WriteBinding(f), WriteBinding(t)>>
<1>1. /\ MutexFree /\ up /\ todo = <<>> /\ IsBound(f) /\ IsBound(t) /\ amount \in Nat
      /\ bindings[f].borrowed >= amount /\ bindings[t].lent >= amount
      /\ todo' = <<WriteBinding(f), WriteBinding(t)>>
      /\ UNCHANGED <<waitQueue, waitRows, reservations, bindingRow, reservationRow, now, up, torn, rebound>>
  BY InputsAssumption DEF ReturnQuota, MutexFree, Bound, IsBound, history
<1>2. /\ BindingsOK(bindings') /\ SameBound(bindings, bindings') /\ SameReserved(bindings, bindings')
      /\ Loaned(bindings, bindings', t, f, -amount)
  <2>1. BindingsOK(bindings)
    BY BindingsTyped DEF BaseInv
  <2>2. LET less == [bindings EXCEPT ![f].borrowed = @ - amount]
            both == [less EXCEPT ![t].lent = @ - amount]
        IN  bindings' = [both EXCEPT ![f] = Clamped(@)]
    BY DEF ReturnQuota
  <2> QED
    BY <1>1, <2>1, <2>2, LentBack DEF IsBound
<1>3. /\ AgendaInv' /\ todo' \in Seq(TaskType) /\ QueueTasks' = QueueTasks
      /\ \A r \in Reservations : StatusDue(r) => StatusDue(r)'
  BY <1>1, <1>2, TwoWrites DEF SameBound, IsBound
<1>4. BaseInv'
  BY <1>1, <1>2, <1>3, BaseHoldsQuietly
<1> QED
  BY <1>1, <1>2, <1>3, <1>4 DEF QueueQuiet, BookQuiet, NewLoan

-----------------------------------------------------------------------------
(* Callers bound, rows written *)

LEMMA BindCallerStep ==
  ASSUME BaseInv, NEW c \in Callers, NEW p \in Policies, NEW quota \in Quotas,
         BindCaller(c, p, quota)
  PROVE  /\ BaseInv' /\ QueueQuiet
         /\ up /\ todo = <<>> /\ UNCHANGED <<todo, up, now, reservations, reservationRow, torn>>
         /\ bindings' = [bindings EXCEPT ![c] = Fresh(p, quota)]
         /\ bindingRow' = [bindingRow EXCEPT ![c] = Fresh(p, quota)]
         /\ rebound' = (rebound \/ IsBound(c))
<1>1. /\ up /\ todo = <<>>
      /\ UNCHANGED <<todo, up, now, reservations, reservationRow, torn, waitQueue, waitRows>>
      /\ bindings' = [bindings EXCEPT ![c] = Fresh(p, quota)]
      /\ bindingRow' = [bindingRow EXCEPT ![c] = Fresh(p, quota)]
      /\ rebound' = (rebound \/ IsBound(c))
  BY DEF BindCaller, UpsertCallerBinding, MutexFree, Bound, IsBound
<1>2. quota \in Nat
  BY InputsAssumption
<1> DEFINE d == Fresh(p, quota)
<1>3. d \in CallerBinding /\ Within(d) /\ d # None
  BY <1>2, FreshFields, BindingFields
<1> HIDE DEF d
<1>4. /\ BindingsOK(bindings) /\ BindingsOK(bindingRow)
  BY BindingsTyped DEF BaseInv
<1>5. BindingsOK(bindings') /\ BindingsOK(bindingRow')
  <2>1. bindings' = [bindings EXCEPT ![c] = d] /\ bindingRow' = [bindingRow EXCEPT ![c] = d]
    BY <1>1 DEF d
  <2> QED
    BY <2>1, <1>3, <1>4 DEF BindingsOK, Table
<1>6. /\ bindings'[c] = d /\ \A x \in Callers \ {c} : bindings'[x] = bindings[x]
      /\ bindingRow'[c] = d /\ \A x \in Callers \ {c} : bindingRow'[x] = bindingRow[x]
  BY <1>1, <1>4 DEF BindingsOK, Table, d
<1>7. QueueTasks' = QueueTasks /\ Waiting' = Waiting
  <2>1. QueueTasks' = QueueTasks
    BY <1>1 DEF QueueTasks, Tasks
  <2> QED
    BY <2>1, <1>1, WaitingSame
<1>8. TypeOK' /\ AgendaInv'
  BY <1>1, <1>5, AgendaIdle DEF BaseInv, TypeOK, BindingsOK, Table
<1>9. BoundInv'
  <2>1. \A x \in Callers : bindingRow'[x] # None <=> bindings'[x] # None
    BY <1>1, <1>3, <1>6, AllBound
  <2>2. \A x : IsBound(x) /\ x \in Callers => bindings'[x] # None
    BY <1>3, <1>6 DEF IsBound
  <2>3. /\ \A r \in Reservations : reservations[r] # None => reservations[r].caller \in Callers
        /\ \A r \in Reservations : reservationRow[r] # None => reservationRow[r].caller \in Callers
        /\ \A item \in waitRows : item.caller \in Callers
    BY DEF BaseInv, TypeOK, QuotaReservation, WaitItem
  <2>4. \A item \in Waiting : item.caller \in Callers
    <3>1. Waiting = ToSet(waitQueue)
      BY <1>1, NoTasksNow
    <3>2. \A item \in ToSet(waitQueue) : item \in WaitItem
      BY DEF BaseInv, TypeOK, ToSet
    <3> QED
      BY <3>1, <3>2 DEF WaitItem
  <2> QED
    BY <1>1, <1>7, <2>1, <2>2, <2>3, <2>4, AllBound DEF BoundInv
<1>10. UsedWithinLimit'
  BY <1>5 DEF UsedWithinLimit, BindingsOK, Within
<1> QED
  BY <1>1, <1>7, <1>8, <1>9, <1>10 DEF BaseInv, QueueQuiet

LEMMA UpdateCallerBindingStep ==
  ASSUME BaseInv, UpdateCallerBinding
  PROVE  /\ BaseInv' /\ QueueQuiet /\ BookQuiet
         /\ Task.caller \in Callers /\ IsBound(Task.caller)
         /\ bindingRow' = [bindingRow EXCEPT ![Task.caller] = bindings[Task.caller]]
         /\ bindings' = bindings /\ todo' = Tail(todo) /\ todo # <<>> /\ Task.do = "binding"
<1>1. /\ todo # <<>> /\ Task.do = "binding" /\ Done
      /\ bindingRow' = [bindingRow EXCEPT ![Task.caller] = bindings[Task.caller]]
      /\ UNCHANGED memory
      /\ UNCHANGED <<bindings, waitQueue, waitRows, reservations, reservationRow, now, up, torn, rebound>>
  BY DEF UpdateCallerBinding, Doing, memory, history
<1> DEFINE c == Task.caller
<1>2. c \in Callers /\ IsBound(c) /\ up /\ Quiet(Task)
  BY <1>1, TaskFirst, TaskTyped DEF BaseInv, Ready, Quiet
<1>3. /\ AgendaInv' /\ todo' \in Seq(TaskType) /\ QueueTasks' = QueueTasks
      /\ \A r \in Reservations : StatusDue(r) => StatusDue(r)'
  BY <1>1, <1>2, AfterDone, UnmovedThere DEF BaseInv
<1>4. BindingsOK(bindings) /\ BindingsOK(bindingRow)
  BY BindingsTyped DEF BaseInv
<1>5. BindingsOK(bindingRow') /\ \A x \in Callers : bindingRow'[x] = None <=> bindingRow[x] = None
  <2>1. bindingRow[c] # None
    BY <1>2, AllBound DEF IsBound
  <2>2. bindings[c] \in CallerBinding /\ Within(bindings[c])
    BY <1>2, <1>4, OneBound DEF IsBound
  <2>3. bindingRow' = [bindingRow EXCEPT ![c] = bindings[c]]
    BY <1>1
  <2> HIDE DEF c
  <2> QED
    BY <1>2, <1>4, <2>1, <2>2, <2>3, NoneIsNone DEF BindingsOK, Table
<1>6. TypeOK'
  BY <1>1, <1>3, <1>5 DEF BaseInv, TypeOK, BindingsOK, Table
<1>7. BoundInv'
  <2>1. Waiting' = Waiting
    BY <1>1, <1>3, WaitingSame
  <2>2. \A x \in Callers : bindingRow'[x] # None <=> bindings'[x] # None
    BY <1>1, <1>2, <1>5, AllBound
  <2>3. /\ \A r \in Reservations : reservationRow[r] # None => reservationRow[r].caller \in Callers
        /\ \A item \in waitRows : item.caller \in Callers
    BY DEF BaseInv, TypeOK, QuotaReservation, WaitItem
  <2> QED
    BY <1>1, <1>2, <2>1, <2>2, <2>3, AllBound DEF BoundInv, IsBound
<1>8. UsedWithinLimit'
  BY <1>1, <1>4, <1>5 DEF UsedWithinLimit, BindingsOK, Within
<1>9. SameBound(bindings, bindings') /\ SameReserved(bindings, bindings')
  BY <1>1, CalmSame DEF Calm
<1> QED
  BY <1>1, <1>2, <1>3, <1>6, <1>7, <1>8, <1>9 DEF BaseInv, QueueQuiet, BookQuiet, Done

LEMMA UpdateReservationStatusStep ==
  ASSUME BaseInv, UpdateReservationStatus
  PROVE  /\ BaseInv' /\ QueueQuiet /\ LoanQuiet
         /\ todo # <<>> /\ Task.do = "status" /\ Task.reservation \in Known
         /\ \A r \in Reservations : StatusDue(r) /\ r # Task.reservation => StatusDue(r)'
         /\ reservationRow' = [reservationRow EXCEPT ![Task.reservation].status =
                                 reservations[Task.reservation].status]
         /\ UNCHANGED <<bindings, reservations, up, now, torn, rebound>>
<1>1. /\ todo # <<>> /\ Task.do = "status" /\ Done
      /\ reservationRow' = [reservationRow EXCEPT ![Task.reservation].status =
                              reservations[Task.reservation].status]
      /\ UNCHANGED memory
      /\ UNCHANGED <<bindings, bindingRow, waitQueue, waitRows, reservations, now, up, torn, rebound>>
  BY DEF UpdateReservationStatus, Doing, memory, history
<1> DEFINE r == Task.reservation
<1>2. r \in Reservations /\ reservations[r] # None /\ up /\ Quiet(Task)
  BY <1>1, TaskFirst, TaskTyped DEF BaseInv, Ready, Quiet
<1>3. /\ AgendaInv' /\ todo' \in Seq(TaskType) /\ QueueTasks' = QueueTasks
      /\ \A s \in Reservations : StatusDue(s) /\ s # r => StatusDue(s)'
  BY <1>1, <1>2, AfterDone, UnmovedThere DEF BaseInv
<1>4. BindingsOK(bindings') /\ Calm(bindings, bindings')
  BY <1>1, BindingsTyped, CalmSame DEF BaseInv
<1>5. reservations[r] \in QuotaReservation
  BY <1>2, AllBound
<1>6. /\ reservationRow' \in [Reservations -> QuotaReservation \cup {None}]
      /\ \A s \in Reservations : reservationRow'[s] # None <=> reservationRow[s] # None
      /\ \A s \in Reservations : reservationRow[s] # None => reservationRow'[s].caller = reservationRow[s].caller
  <2>1. /\ reservationRow \in [Reservations -> QuotaReservation \cup {None}]
        /\ reservationRow[r] \in QuotaReservation
    BY <1>2, AllBound DEF BaseInv, TypeOK
  <2> DEFINE d == [reservationRow[r] EXCEPT !.status = reservations[r].status]
  <2>2. d \in QuotaReservation /\ d.caller = reservationRow[r].caller
    BY <2>1, <1>5 DEF QuotaReservation
  <2>3. reservationRow' = [reservationRow EXCEPT ![r] = d]
    BY <1>1
  <2> HIDE DEF d
  <2> QED
    BY <2>1, <2>2, <2>3, <1>2, AllBound, NoneIsNone
<1>7. TypeOK'
  BY <1>1, <1>3, <1>6 DEF BaseInv, TypeOK
<1>8. Waiting' = Waiting
  BY <1>1, <1>3, WaitingSame
<1>9. BaseInv'
  <2>1. \A s \in Reservations : reservationRow'[s] # None => IsBound(reservationRow'[s].caller)
    BY <1>2, <1>6, AllBound
  <2>2. \A s \in Reservations : reservations'[s] # None =>
          IsBound(reservations'[s].caller) /\ reservationRow'[s] # None
    BY <1>1, <1>2, <1>6, AllBound
  <2>3. /\ \A item \in Waiting' : IsBound(item.caller)
        /\ \A item \in waitRows' : IsBound(item.caller)
    BY <1>1, <1>2, <1>8, AllBound
  <2> QED
    BY <1>1, <1>2, <1>3, <1>4, <1>7, <2>1, <2>2, <2>3, BaseHolds DEF Calm
<1> QED
  BY <1>1, <1>2, <1>3, <1>4, <1>9 DEF QueueQuiet, LoanQuiet, Calm, Known

LEMMA RemoveWaitItemStep ==
  ASSUME BaseInv, RemoveWaitItem
  PROVE  /\ BaseInv' /\ BookQuiet /\ LoanQuiet
         /\ Task.do = "remove" /\ Tasks' = ToSet(Tail(todo)) /\ up /\ todo # <<>>
         /\ waitRows' = {item \in waitRows : item.id # Task.id}
         /\ UNCHANGED <<waitQueue, now, up>>
<1>1. /\ todo # <<>> /\ Task.do = "remove" /\ Done
      /\ waitRows' = {item \in waitRows : item.id # Task.id}
      /\ UNCHANGED memory
      /\ UNCHANGED <<bindings, bindingRow, waitQueue, reservations, reservationRow, now, up, torn, rebound>>
  BY DEF RemoveWaitItem, Doing, memory, history
<1>2. up
  BY <1>1 DEF BaseInv, AgendaInv
<1>3. /\ AgendaInv' /\ todo' \in Seq(TaskType) /\ Tasks' = ToSet(Tail(todo))
      /\ \A s \in Reservations : StatusDue(s) => StatusDue(s)'
  BY <1>1, <1>2, AfterDone, UnmovedThere DEF BaseInv
<1>4. BindingsOK(bindings') /\ Calm(bindings, bindings')
  BY <1>1, BindingsTyped, CalmSame DEF BaseInv
<1>5. Waiting' \subseteq Waiting /\ waitRows' \subseteq waitRows
  <2>1. Tasks' \subseteq Tasks
    BY <1>1, <1>3, TaskFirst DEF BaseInv
  <2> QED
    BY <2>1, <1>1 DEF Waiting, Handled
<1>6. TypeOK'
  <2>1. IsFiniteSet(waitRows')
    BY <1>5, FS_Subset DEF BaseInv, TypeOK
  <2> QED
    BY <1>1, <1>3, <1>5, <2>1 DEF BaseInv, TypeOK
<1>7. BaseInv'
  <2>1. /\ \A s \in Reservations : reservationRow'[s] # None => IsBound(reservationRow'[s].caller)
        /\ \A s \in Reservations : reservations'[s] # None =>
             IsBound(reservations'[s].caller) /\ reservationRow'[s] # None
    BY <1>1, <1>2, AllBound
  <2>2. /\ \A item \in Waiting' : IsBound(item.caller)
        /\ \A item \in waitRows' : IsBound(item.caller)
    BY <1>2, <1>5, AllBound
  <2> QED
    BY <1>1, <1>2, <1>3, <1>4, <1>6, <2>1, <2>2, BaseHolds DEF Calm
<1> QED
  BY <1>1, <1>2, <1>3, <1>4, <1>7 DEF BookQuiet, LoanQuiet, Calm

-----------------------------------------------------------------------------
(* Reservations *)

ReservedMore(bs, cs, c, n) ==
  \A x \in Callers : bs[x] # None => cs[x].reserved = bs[x].reserved + IF x = c THEN n ELSE 0
ReservedLess(bs, cs, c, n) ==
  \A x \in Callers : bs[x] # None =>
    cs[x].reserved = IF x = c THEN Less(bs[x].reserved, n) ELSE bs[x].reserved
Marked(rs, ss, r, status) ==
  /\ ss[r] # None /\ SameReservation(rs[r], ss[r]) /\ ss[r].status = status
  /\ \A x \in Reservations \ {r} : ss[x] = rs[x]

LEMMA ReservationFields ==
  ASSUME NEW q \in QuotaReservation
  PROVE  /\ q.policy \in Policies /\ q.caller \in Callers /\ q.tokens \in Nat
         /\ q.start \in Int /\ q.end \in Int
         /\ q.status \in {"pending", "active", "completed", "cancelled"}
BY DEF QuotaReservation

LEMMA StatusSet ==
  ASSUME BaseInv, up, NEW r \in Reservations, reservations[r] # None,
         NEW status \in {"pending", "active", "completed", "cancelled"},
         reservations' = [reservations EXCEPT ![r].status = status]
  PROVE  /\ reservations' \in [Reservations -> QuotaReservation \cup {None}]
         /\ Marked(reservations, reservations', r, status) /\ Known' = Known
         /\ \A s \in Reservations : reservations'[s] # None =>
              IsBound(reservations'[s].caller) /\ reservationRow[s] # None
<1>1. /\ reservations \in [Reservations -> QuotaReservation \cup {None}]
      /\ reservations[r] \in QuotaReservation
  BY AllBound DEF BaseInv, TypeOK
<1> DEFINE d == [reservations[r] EXCEPT !.status = status]
<1>2. d \in QuotaReservation /\ SameReservation(reservations[r], d) /\ d.status = status
  BY <1>1 DEF QuotaReservation, SameReservation
<1>3. reservations' = [reservations EXCEPT ![r] = d]
  OBVIOUS
<1> HIDE DEF d
<1>4. /\ reservations' \in [Reservations -> QuotaReservation \cup {None}]
      /\ reservations'[r] = d /\ d # None
      /\ \A x \in Reservations \ {r} : reservations'[x] = reservations[x]
  BY <1>1, <1>2, <1>3, NoneIsNone
<1>5. Marked(reservations, reservations', r, status)
  BY <1>2, <1>4 DEF Marked
<1>6. Known' = Known
  BY <1>4 DEF Known
<1>7. ASSUME NEW s \in Reservations, reservations'[s] # None
      PROVE  IsBound(reservations'[s].caller) /\ reservationRow[s] # None
  <2>1. CASE s = r
    <3>1. reservations'[s].caller = reservations[s].caller
      BY <2>1, <1>2, <1>4 DEF SameReservation
    <3> QED
      BY <3>1, <2>1, AllBound
  <2>2. CASE s # r
    BY <2>2, <1>4, <1>7, AllBound
  <2> QED
    BY <2>1, <2>2
<1> QED
  BY <1>4, <1>5, <1>6, <1>7

LEMMA BindingReserved ==
  ASSUME BaseInv, NEW c \in Callers, IsBound(c), NEW n \in Nat,
         bindings' = [bindings EXCEPT ![c].reserved = @ + n]
  PROVE  /\ BindingsOK(bindings') /\ SameBound(bindings, bindings')
         /\ SameLoans(bindings, bindings') /\ ReservedMore(bindings, bindings', c, n)
<1>1. BindingsOK(bindings) /\ bindings[c] \in CallerBinding /\ Within(bindings[c])
  BY BindingsTyped, OneBound DEF BaseInv, IsBound
<1> DEFINE d == [bindings[c] EXCEPT !.reserved = @ + n]
<1>2. d \in CallerBinding /\ SameLoan(bindings[c], d) /\ d.reserved = bindings[c].reserved + n /\ Within(d)
  BY <1>1, ReservedFields
<1>3. bindings' = [bindings EXCEPT ![c] = d]
  OBVIOUS
<1> HIDE DEF d
<1>4. /\ BindingsOK(bindings') /\ SameBound(bindings, bindings') /\ bindings'[c] = d
      /\ \A x \in Callers \ {c} : bindings'[x] = bindings[x]
  BY <1>1, <1>2, <1>3, NoneIsNone DEF BindingsOK, Table, SameBound, IsBound
<1>5. \A x \in Callers : bindings[x] # None => bindings[x].reserved \in Nat
  BY <1>1, BindingFields DEF BindingsOK, Table
<1>6. SameLoans(bindings, bindings')
  BY <1>2, <1>4 DEF SameLoans, SameLoan
<1>7. ReservedMore(bindings, bindings', c, n)
  BY <1>2, <1>4, <1>5 DEF ReservedMore
<1> QED
  BY <1>4, <1>6, <1>7

LEMMA BindingUnreserved ==
  ASSUME BaseInv, NEW c \in Callers, IsBound(c), NEW n \in Nat,
         bindings' = [bindings EXCEPT ![c] = Unreserved(@, n)]
  PROVE  /\ BindingsOK(bindings') /\ SameBound(bindings, bindings')
         /\ SameLoans(bindings, bindings') /\ ReservedLess(bindings, bindings', c, n)
<1>1. BindingsOK(bindings) /\ bindings[c] \in CallerBinding /\ Within(bindings[c])
  BY BindingsTyped, OneBound DEF BaseInv, IsBound
<1> DEFINE d == Unreserved(bindings[c], n)
<1>2. /\ d \in CallerBinding /\ SameLoan(bindings[c], d)
      /\ d.reserved = Less(bindings[c].reserved, n) /\ Within(d)
  BY <1>1, UnreservedFields
<1>3. bindings' = [bindings EXCEPT ![c] = d]
  OBVIOUS
<1> HIDE DEF d
<1>4. /\ BindingsOK(bindings') /\ SameBound(bindings, bindings') /\ bindings'[c] = d
      /\ \A x \in Callers \ {c} : bindings'[x] = bindings[x]
  BY <1>1, <1>2, <1>3, NoneIsNone DEF BindingsOK, Table, SameBound, IsBound
<1>5. SameLoans(bindings, bindings')
  BY <1>2, <1>4 DEF SameLoans, SameLoan
<1>6. ReservedLess(bindings, bindings', c, n)
  BY <1>2, <1>4 DEF ReservedLess
<1> QED
  BY <1>4, <1>5, <1>6

(* What may come before anything                                           *)
Loose(t) == t.do \in {"binding", "status", "reserve", "remove", "look"}

LEMMA LooseFirst == \A t, u : Loose(t) => Before(t, u)
BY DEF Loose, Before

LEMMA ThreeLooseFirst ==
  ASSUME NEW s \in Seq(TaskType), Ordered(s), NEW a \in TaskType, NEW b \in TaskType,
         NEW c \in TaskType, Loose(a), Loose(b), Loose(c)
  PROVE  /\ <<a, b, c>> \o s \in Seq(TaskType) /\ Ordered(<<a, b, c>> \o s)
         /\ ToSet(<<a, b, c>> \o s) = {a, b, c} \cup ToSet(s)
<1>1. /\ \A u \in {b, c} \cup ToSet(s) : Before(a, u)
      /\ \A u \in {c} \cup ToSet(s) : Before(b, u)
      /\ \A u \in ToSet(s) : Before(c, u)
  BY LooseFirst
<1>2. s \in Seq(TaskType) /\ Ordered(s)
  OBVIOUS
<1> QED
  BY <1>1, <1>2, ThreeInFront

LEMMA FourLooseFirst ==
  ASSUME NEW s \in Seq(TaskType), Ordered(s), NEW a \in TaskType, NEW b \in TaskType,
         NEW c \in TaskType, NEW d \in TaskType, Loose(a), Loose(b), Loose(c), Loose(d)
  PROVE  /\ <<a, b, c, d>> \o s \in Seq(TaskType) /\ Ordered(<<a, b, c, d>> \o s)
         /\ ToSet(<<a, b, c, d>> \o s) = {a, b, c, d} \cup ToSet(s)
<1>0. <<a, b, c, d>> \o s = <<a>> \o (<<b, c, d>> \o s)
  OBVIOUS
<1>1. PICK bs : bs = <<b, c, d>> \o s
  OBVIOUS
<1>2. bs \in Seq(TaskType) /\ Ordered(bs) /\ ToSet(bs) = {b, c, d} \cup ToSet(s)
  BY <1>1, ThreeLooseFirst
<1>3. \A u \in ToSet(bs) : Before(a, u)
  BY LooseFirst
<1>4. /\ <<a>> \o bs \in Seq(TaskType) /\ Ordered(<<a>> \o bs)
      /\ ToSet(<<a>> \o bs) = {a} \cup ToSet(bs)
  BY <1>2, <1>3, OneInFront
<1>5. <<a, b, c, d>> \o s = <<a>> \o bs
  BY <1>0, <1>1, Zenon
<1>6. {a} \cup ToSet(bs) = {a, b, c, d} \cup ToSet(s)
  BY <1>2
<1> QED
  BY <1>4, <1>5, <1>6, Zenon

LEMMA WritesLoose ==
  /\ \A c \in Callers : Loose(WriteBinding(c))
  /\ \A r \in Reservations : Loose(WriteStatus(r))
BY DEF Loose, WriteBinding, WriteStatus

(* The base of a step of a reservation that has moved no request           *)
LEMMA BaseHoldsReserving ==
  ASSUME BaseInv, up, todo' \in Seq(TaskType), AgendaInv', BindingsOK(bindings'),
         SameBound(bindings, bindings'), QueueTasks' = QueueTasks,
         UNCHANGED <<bindingRow, waitQueue, waitRows, now, up>>,
         reservations' \in [Reservations -> QuotaReservation \cup {None}],
         reservationRow' \in [Reservations -> QuotaReservation \cup {None}],
         \A r \in Reservations : reservations'[r] # None =>
           IsBound(reservations'[r].caller) /\ reservationRow'[r] # None,
         \A r \in Reservations : reservationRow'[r] # None => IsBound(reservationRow'[r].caller)
  PROVE  BaseInv' /\ QueueQuiet
<1>1. Waiting' = Waiting
  BY WaitingSame
<1>2. TypeOK'
  BY DEF BaseInv, TypeOK, BindingsOK, Table
<1>3. /\ \A item \in Waiting' : IsBound(item.caller)
      /\ \A item \in waitRows' : IsBound(item.caller)
  BY <1>1, AllBound
<1> QED
  BY <1>2, <1>3, BaseHolds DEF QueueQuiet

LEMMA CreateReservationStep ==
  ASSUME BaseInv, NEW r \in Reservations, NEW p \in Policies, NEW c \in Callers,
         NEW tokens \in Amounts, NEW start \in Int, NEW end \in Int,
         CreateReservation(r, p, c, tokens, start, end)
  PROVE  \E new \in QuotaReservation :
           /\ new.policy = p /\ new.caller = c /\ new.tokens = tokens
           /\ new.start = start /\ new.end = end /\ start < end
           /\ new.status = IF start <= now THEN "active" ELSE "pending"
           /\ NoConflict(new) /\ reservationRow[r] = None /\ reservations[r] = None
           /\ reservations' = [reservations EXCEPT ![r] = new]
           /\ reservationRow' = [reservationRow EXCEPT ![r] = new]
           /\ ReservedMore(bindings, bindings', c, IF start <= now THEN tokens ELSE 0)
           /\ BaseInv' /\ QueueQuiet /\ LoanQuiet
           /\ up /\ todo = <<>> /\ IsBound(c) /\ UNCHANGED <<now, up, torn, rebound>>
<1>1. PICK new : new = [policy |-> p, caller |-> c, tokens |-> tokens, start |-> start,
              end |-> end, status |-> IF start <= now THEN "active" ELSE "pending"]
  OBVIOUS
<1>2. tokens \in Nat
  BY InputsAssumption
<1>3. /\ new \in QuotaReservation /\ new.policy = p /\ new.caller = c /\ new.tokens = tokens
      /\ new.start = start /\ new.end = end
      /\ new.status = IF start <= now THEN "active" ELSE "pending"
  BY <1>1, <1>2 DEF QuotaReservation
<1>4. /\ up /\ todo = <<>> /\ start < end /\ IsBound(c) /\ NoConflict(new) /\ reservationRow[r] = None
      /\ reservations' = [reservations EXCEPT ![r] = new]
      /\ reservationRow' = [reservationRow EXCEPT ![r] = new]
      /\ UNCHANGED <<waitQueue, bindingRow, waitRows, now, up, torn, rebound>>
      /\ IF new.status = "active"
         THEN /\ bindings' = [bindings EXCEPT ![c].reserved = @ + tokens]
              /\ todo' = <<WriteBinding(c)>>
         ELSE UNCHANGED <<bindings, todo>>
  BY <1>1 DEF CreateReservation, MutexFree, InsertReservation, Bound, IsBound, history
<1>5. reservations[r] = None
  BY <1>4, AllBound
<1>6. /\ reservations' \in [Reservations -> QuotaReservation \cup {None}]
      /\ reservationRow' \in [Reservations -> QuotaReservation \cup {None}]
      /\ reservations'[r] = new /\ reservationRow'[r] = new /\ new # None
      /\ \A s \in Reservations \ {r} : reservations'[s] = reservations[s] /\ reservationRow'[s] = reservationRow[s]
  BY <1>3, <1>4, NoneIsNone DEF BaseInv, TypeOK
<1>7. /\ \A s \in Reservations : reservations'[s] # None =>
           IsBound(reservations'[s].caller) /\ reservationRow'[s] # None
      /\ \A s \in Reservations : reservationRow'[s] # None => IsBound(reservationRow'[s].caller)
  BY <1>3, <1>4, <1>6, AllBound
<1>8. /\ BindingsOK(bindings') /\ SameBound(bindings, bindings') /\ SameLoans(bindings, bindings')
      /\ ReservedMore(bindings, bindings', c, IF start <= now THEN tokens ELSE 0)
  <2>1. CASE start <= now
    BY <2>1, <1>2, <1>3, <1>4, BindingReserved
  <2>2. CASE ~(start <= now)
    <3>1. bindings' = bindings /\ BindingsOK(bindings) /\ Calm(bindings, bindings')
      BY <2>2, <1>3, <1>4, BindingsTyped, CalmSame DEF BaseInv
    <3>2. \A x \in Callers : bindings[x] # None => bindings[x].reserved \in Nat
      BY <3>1, BindingFields DEF BindingsOK, Table
    <3>3. ReservedMore(bindings, bindings', c, 0)
      BY <3>1, <3>2 DEF ReservedMore
    <3> QED
      BY <2>2, <3>1, <3>3 DEF Calm
  <2> QED
    BY <2>1, <2>2
<1>9. AgendaInv' /\ todo' \in Seq(TaskType) /\ QueueTasks' = QueueTasks
  <2>1. CASE new.status = "active"
    <3>1. todo' \in Seq(TaskType) /\ Ordered(todo') /\ Tasks' = {WriteBinding(c)}
      BY <2>1, <1>4, WritesAreTasks, TaskAlone DEF Tasks
    <3>2. {WriteBinding(c)} \in SUBSET TaskType
          /\ \A t \in {WriteBinding(c)} : Ready(t)' /\ Quiet(t)
      BY <1>4, <1>8, WritesAreTasks DEF Ready, IsBound, SameBound
    <3> QED
      BY <3>1, <3>2, <1>4, AfterIdle
  <2>2. CASE new.status # "active"
    <3>1. todo' = <<>> /\ todo' = todo
      BY <2>2, <1>4
    <3> QED
      BY <3>1, AgendaIdle DEF QueueTasks, Tasks
  <2> QED
    BY <2>1, <2>2
<1>10. BaseInv' /\ QueueQuiet
  BY <1>4, <1>6, <1>7, <1>8, <1>9, BaseHoldsReserving
<1>11. LoanQuiet
  BY <1>4, <1>8 DEF LoanQuiet
<1> QED
  BY <1>3, <1>4, <1>5, <1>8, <1>10, <1>11

(* A reservation marked in memory, and the rest a task                     *)
LEMMA MarkStep ==
  ASSUME BaseInv, up, NEW r \in Reservations, reservations[r] # None,
         NEW status \in {"pending", "active", "completed", "cancelled"},
         reservations' = [reservations EXCEPT ![r].status = status],
         BindingsOK(bindings'), SameBound(bindings, bindings'), SameLoans(bindings, bindings'),
         UNCHANGED <<waitQueue, tables, now, up, history>>,
         todo # <<>> => Task.do # "binding",
         AgendaInv', todo' \in Seq(TaskType), QueueTasks' = QueueTasks
  PROVE  BaseInv' /\ QueueQuiet /\ LoanQuiet /\ Marked(reservations, reservations', r, status)
<1>1. UNCHANGED <<bindingRow, waitRows, reservationRow, rebound>>
  BY DEF tables, history
<1>2. /\ reservations' \in [Reservations -> QuotaReservation \cup {None}]
      /\ Marked(reservations, reservations', r, status)
      /\ \A s \in Reservations : reservations'[s] # None =>
           IsBound(reservations'[s].caller) /\ reservationRow[s] # None
  BY StatusSet
<1>3. /\ reservationRow' \in [Reservations -> QuotaReservation \cup {None}]
      /\ \A s \in Reservations : reservationRow'[s] # None => IsBound(reservationRow'[s].caller)
  BY <1>1, AllBound DEF BaseInv, TypeOK
<1>4. BaseInv' /\ QueueQuiet
  BY <1>1, <1>2, <1>3, BaseHoldsReserving
<1> QED
  BY <1>1, <1>2, <1>4 DEF LoanQuiet

LEMMA CancelReservationStep ==
  ASSUME BaseInv, NEW r \in Reservations, CancelReservation(r)
  PROVE  /\ BaseInv' /\ QueueQuiet /\ LoanQuiet /\ r \in Known /\ Live(r)
         /\ Marked(reservations, reservations', r, "cancelled")
         /\ \/ /\ Active(r)
               /\ ReservedLess(bindings, bindings', reservations[r].caller, reservations[r].tokens)
            \/ Pending(r) /\ bindings' = bindings
         /\ SameBound(bindings, bindings')
         /\ StatusDue(r)' /\ \A s \in Reservations : StatusDue(s) => StatusDue(s)'
         /\ up /\ UNCHANGED <<reservationRow, now, up, torn, rebound>>
<1>1. /\ MutexFree /\ r \in Known /\ (Pending(r) \/ Active(r))
      /\ reservations' = [reservations EXCEPT ![r].status = "cancelled"]
      /\ UNCHANGED <<waitQueue, tables, now, up, history>>
      /\ up /\ todo = <<>> /\ reservations[r] # None
  BY DEF CancelReservation, MutexFree, Known
<1>2. Live(r) /\ UNCHANGED <<reservationRow, now, up, torn, rebound>>
  BY <1>1 DEF Live, Pending, Active, tables, history
<1> DEFINE c == reservations[r].caller
<1>3. PICK cc \in Callers : cc = c /\ IsBound(cc) /\ reservations[r].tokens \in Nat
  BY <1>1, AllBound, ReservationFields
<1>4. \/ /\ Active(r) /\ bindings' = [bindings EXCEPT ![cc] = Unreserved(@, reservations[r].tokens)]
         /\ todo' = <<WriteBinding(cc), WriteStatus(r)>>
      \/ /\ ~Active(r) /\ bindings' = bindings /\ todo' = <<WriteStatus(r)>>
  BY <1>3 DEF CancelReservation
<1>5. /\ BindingsOK(bindings') /\ SameBound(bindings, bindings') /\ SameLoans(bindings, bindings')
      /\ \/ /\ Active(r)
            /\ ReservedLess(bindings, bindings', c, reservations[r].tokens)
         \/ Pending(r) /\ bindings' = bindings
  <2>1. CASE Active(r)
    BY <2>1, <1>3, <1>4, BindingUnreserved
  <2>2. CASE ~Active(r)
    BY <2>2, <1>1, <1>4, BindingsTyped, CalmSame DEF BaseInv, Calm
  <2> QED
    BY <2>1, <2>2
<1>6. /\ Ready(WriteBinding(cc))' /\ Ready(WriteStatus(r))'
  <2>1. bindings'[cc] # None /\ reservations'[r] # None
    BY <1>1, <1>3, <1>5, StatusSet DEF SameBound, IsBound, Marked
  <2> QED
    BY <2>1, WritesAreTasks DEF Ready, IsBound
<1>7. \/ /\ todo' \in Seq(TaskType) /\ Ordered(todo') /\ Tasks' = {WriteBinding(cc), WriteStatus(r)}
      \/ /\ todo' \in Seq(TaskType) /\ Ordered(todo') /\ Tasks' = {WriteStatus(r)}
  <2>1. CASE todo' = <<WriteBinding(cc), WriteStatus(r)>>
    BY <2>1, <1>3, WritesAreTasks, WritesLoose, LooseFirst, TasksAlone DEF Tasks
  <2>2. CASE todo' = <<WriteStatus(r)>>
    BY <2>2, WritesAreTasks, TaskAlone DEF Tasks
  <2> QED
    BY <2>1, <2>2, <1>4
<1>8. /\ AgendaInv' /\ todo' \in Seq(TaskType) /\ QueueTasks' = QueueTasks
      /\ \A s \in Reservations : StatusDue(s) => StatusDue(s)'
  <2>1. /\ {WriteBinding(cc), WriteStatus(r)} \in SUBSET TaskType
        /\ {WriteStatus(r)} \in SUBSET TaskType
        /\ \A t \in {WriteBinding(cc), WriteStatus(r)} : Ready(t)' /\ Quiet(t)
        /\ \A t \in {WriteStatus(r)} : Ready(t)' /\ Quiet(t)
    BY <1>6, WritesAreTasks
  <2> QED
    BY <2>1, <1>1, <1>7, AfterIdle
<1>9. StatusDue(r)'
  <2>1. WriteStatus(r) \in Tasks'
    BY <1>7
  <2> QED
    BY <2>1, WritesAreTasks DEF StatusDue
<1>10. /\ BaseInv' /\ QueueQuiet /\ LoanQuiet
       /\ Marked(reservations, reservations', r, "cancelled")
  BY <1>1, <1>5, <1>8, MarkStep
<1> QED
  BY <1>1, <1>2, <1>5, <1>8, <1>9, <1>10

(* What is left of the loop over the reservations                          *)
LEMMA LoopLeft ==
  ASSUME BaseInv, Doing("reserve"), NEW r \in Task.left
  PROVE  /\ up /\ todo # <<>> /\ r \in Known /\ r \in Reservations /\ reservations[r] # None
         /\ Quiet(Task) /\ Task.do = "reserve" /\ Task.left \subseteq Known
         /\ [Task EXCEPT !.left = @ \ {r}] = [do |-> "reserve", left |-> Task.left \ {r}]
         /\ \A rs \in SUBSET Known : /\ [do |-> "reserve", left |-> rs] \in TaskType
                                     /\ Quiet([do |-> "reserve", left |-> rs])
                                     /\ Loose([do |-> "reserve", left |-> rs])
<1>1. todo # <<>> /\ Task.do = "reserve"
  BY DEF Doing
<1>2. Task \in TaskType /\ Ready(Task) /\ up
  BY <1>1, TaskFirst DEF BaseInv
<1>3. Task.left \subseteq Known /\ Task.left \in SUBSET Reservations /\ Known \subseteq Reservations
  BY <1>1, <1>2, TaskTyped DEF Ready, Known
<1>4. [Task EXCEPT !.left = Task.left \ {r}] = [do |-> "reserve", left |-> Task.left \ {r}]
  <2>1. Task.left \ {r} \in SUBSET Reservations
    BY <1>3
  <2> QED
    BY <2>1, <1>1, <1>2, LoopGoesOn
<1>5. ASSUME NEW rs \in SUBSET Known
      PROVE  /\ [do |-> "reserve", left |-> rs] \in TaskType
             /\ Quiet([do |-> "reserve", left |-> rs])
             /\ Loose([do |-> "reserve", left |-> rs])
  BY <1>3, NewTasks DEF Quiet, Loose
<1> QED
  BY <1>1, <1>2, <1>3, <1>4, <1>5 DEF Quiet, Known

LEMMA ActivateReservationStep ==
  ASSUME BaseInv, NEW r \in Reservations, ActivateReservation(r)
  PROVE  /\ BaseInv' /\ QueueQuiet /\ LoanQuiet /\ r \in Known /\ Pending(r)
         /\ Marked(reservations, reservations', r, "active")
         /\ ReservedMore(bindings, bindings', reservations[r].caller, reservations[r].tokens)
         /\ SameBound(bindings, bindings')
         /\ StatusDue(r)' /\ \A s \in Reservations : StatusDue(s) => StatusDue(s)'
         /\ up /\ UNCHANGED <<reservationRow, now, up, torn, rebound>>
<1>1. /\ Doing("reserve") /\ r \in Task.left /\ Pending(r)
      /\ reservations' = [reservations EXCEPT ![r].status = "active"]
      /\ UNCHANGED <<waitQueue, tables, now, up, history>>
      /\ UNCHANGED <<reservationRow, torn, rebound>>
  BY DEF ActivateReservation, tables, history
<1>2. /\ up /\ todo # <<>> /\ r \in Known /\ reservations[r] # None
      /\ Quiet(Task) /\ Task.do = "reserve" /\ Task.left \subseteq Known
      /\ [Task EXCEPT !.left = @ \ {r}] = [do |-> "reserve", left |-> Task.left \ {r}]
      /\ \A rs \in SUBSET Known : /\ [do |-> "reserve", left |-> rs] \in TaskType
                                  /\ Quiet([do |-> "reserve", left |-> rs])
                                  /\ Loose([do |-> "reserve", left |-> rs])
  BY <1>1, LoopLeft
<1>3. PICK c \in Callers : c = reservations[r].caller /\ IsBound(c) /\ reservations[r].tokens \in Nat
  BY <1>2, AllBound, ReservationFields
<1>4. PICK again, rest :
        /\ again = [do |-> "reserve", left |-> {r} \cap {s \in Known : reservations[s].end <= now}]
        /\ rest = [do |-> "reserve", left |-> Task.left \ {r}]
  OBVIOUS
<1>5. /\ bindings' = [bindings EXCEPT ![c].reserved = @ + reservations[r].tokens]
      /\ todo' = <<WriteBinding(c), WriteStatus(r), again, rest>> \o Tail(todo)
  BY <1>2, <1>3, <1>4 DEF ActivateReservation, Then
<1>6. /\ again \in TaskType /\ Quiet(again) /\ Loose(again) /\ again.left \subseteq Known /\ again.do = "reserve"
      /\ rest \in TaskType /\ Quiet(rest) /\ Loose(rest) /\ rest.left \subseteq Known /\ rest.do = "reserve"
  <2>1. /\ {r} \cap {s \in Known : reservations[s].end <= now} \in SUBSET Known
        /\ Task.left \ {r} \in SUBSET Known
    BY <1>2
  <2>2. again.left = {r} \cap {s \in Known : reservations[s].end <= now}
        /\ rest.left = Task.left \ {r} /\ again.do = "reserve" /\ rest.do = "reserve"
    BY <1>4
  <2>3. again \in TaskType /\ Quiet(again) /\ Loose(again) /\ rest \in TaskType /\ Quiet(rest) /\ Loose(rest)
    BY <1>2, <1>4, <2>1
  <2> QED
    BY <2>1, <2>2, <2>3
<1>7. /\ BindingsOK(bindings') /\ SameBound(bindings, bindings') /\ SameLoans(bindings, bindings')
      /\ ReservedMore(bindings, bindings', c, reservations[r].tokens)
  BY <1>3, <1>5, BindingReserved
<1>8. Known' = Known /\ reservations'[r] # None
  BY <1>1, <1>2, StatusSet DEF Marked
<1> DEFINE news == {WriteBinding(c), WriteStatus(r), again, rest}
<1>9. news \in SUBSET TaskType /\ \A t \in news : Quiet(t) /\ Ready(t)'
  <2>1. Ready(WriteBinding(c))' /\ Ready(WriteStatus(r))'
    BY <1>3, <1>7, <1>8, WritesAreTasks DEF Ready, IsBound, SameBound
  <2>2. Ready(again)' /\ Ready(rest)'
    BY <1>6, <1>8 DEF Ready
  <2> QED
    BY <2>1, <2>2, <1>6, WritesAreTasks
<1>10. /\ todo' \in Seq(TaskType) /\ Ordered(todo') /\ Tasks' = news \cup ToSet(Tail(todo))
  <2>1. PICK s, w, v : s = Tail(todo) /\ w = WriteBinding(c) /\ v = WriteStatus(r)
    OBVIOUS
  <2>2. s \in Seq(TaskType) /\ Ordered(s)
    BY <1>2, <2>1, TaskFirst DEF BaseInv
  <2>3. w \in TaskType /\ v \in TaskType /\ Loose(w) /\ Loose(v)
    BY <2>1, WritesAreTasks, WritesLoose
  <2>4. /\ <<w, v, again, rest>> \o s \in Seq(TaskType) /\ Ordered(<<w, v, again, rest>> \o s)
        /\ ToSet(<<w, v, again, rest>> \o s) = {w, v, again, rest} \cup ToSet(s)
    BY <1>6, <2>2, <2>3, FourLooseFirst
  <2>5. todo' = <<w, v, again, rest>> \o s /\ news = {w, v, again, rest}
    BY <1>5, <2>1
  <2> HIDE DEF news
  <2> QED
    BY <2>1, <2>4, <2>5, Zenon DEF Tasks
<1>11. StatusDue(r)'
  <2>1. WriteStatus(r) \in Tasks'
    BY <1>10
  <2> QED
    BY <2>1, WritesAreTasks DEF StatusDue
<1> HIDE DEF news
<1>12. /\ AgendaInv' /\ QueueTasks' = QueueTasks
       /\ \A s \in Reservations : StatusDue(s) => StatusDue(s)'
  <2>1. StillThere
    BY <1>7, <1>8 DEF StillThere, SameBound
  <2>2. up'
    BY <1>1, <1>2
  <2> QED
    BY <2>1, <2>2, <1>2, <1>9, <1>10, AfterTask DEF BaseInv
<1>13. /\ BaseInv' /\ QueueQuiet /\ LoanQuiet
       /\ Marked(reservations, reservations', r, "active")
  BY <1>1, <1>2, <1>7, <1>10, <1>12, MarkStep
<1> QED
  BY <1>1, <1>2, <1>3, <1>7, <1>11, <1>12, <1>13

LEMMA CompleteReservationStep ==
  ASSUME BaseInv, NEW r \in Reservations, CompleteReservation(r)
  PROVE  /\ BaseInv' /\ QueueQuiet /\ LoanQuiet /\ r \in Known /\ Active(r)
         /\ Marked(reservations, reservations', r, "completed")
         /\ ReservedLess(bindings, bindings', reservations[r].caller, reservations[r].tokens)
         /\ SameBound(bindings, bindings')
         /\ StatusDue(r)' /\ \A s \in Reservations : StatusDue(s) => StatusDue(s)'
         /\ up /\ UNCHANGED <<reservationRow, now, up, torn, rebound>>
<1>1. /\ Doing("reserve") /\ r \in Task.left /\ Active(r)
      /\ reservations' = [reservations EXCEPT ![r].status = "completed"]
      /\ UNCHANGED <<waitQueue, tables, now, up, history>>
      /\ UNCHANGED <<reservationRow, torn, rebound>>
  BY DEF CompleteReservation, tables, history
<1>2. /\ up /\ todo # <<>> /\ r \in Known /\ reservations[r] # None
      /\ Quiet(Task) /\ Task.do = "reserve" /\ Task.left \subseteq Known
      /\ [Task EXCEPT !.left = @ \ {r}] = [do |-> "reserve", left |-> Task.left \ {r}]
      /\ \A rs \in SUBSET Known : /\ [do |-> "reserve", left |-> rs] \in TaskType
                                  /\ Quiet([do |-> "reserve", left |-> rs])
                                  /\ Loose([do |-> "reserve", left |-> rs])
  BY <1>1, LoopLeft
<1>3. PICK c \in Callers : c = reservations[r].caller /\ IsBound(c) /\ reservations[r].tokens \in Nat
  BY <1>2, AllBound, ReservationFields
<1>4. PICK rest : rest = [do |-> "reserve", left |-> Task.left \ {r}]
  OBVIOUS
<1>5. /\ bindings' = [bindings EXCEPT ![c] = Unreserved(@, reservations[r].tokens)]
      /\ todo' = <<WriteBinding(c), WriteStatus(r), rest>> \o Tail(todo)
  BY <1>2, <1>3, <1>4 DEF CompleteReservation, Then
<1>6. rest \in TaskType /\ Quiet(rest) /\ Loose(rest) /\ rest.left \subseteq Known /\ rest.do = "reserve"
  <2>1. Task.left \ {r} \in SUBSET Known
    BY <1>2
  <2>2. rest.left = Task.left \ {r} /\ rest.do = "reserve"
    BY <1>4
  <2>3. rest \in TaskType /\ Quiet(rest) /\ Loose(rest)
    BY <1>2, <1>4, <2>1
  <2> QED
    BY <2>1, <2>2, <2>3
<1>7. /\ BindingsOK(bindings') /\ SameBound(bindings, bindings') /\ SameLoans(bindings, bindings')
      /\ ReservedLess(bindings, bindings', c, reservations[r].tokens)
  BY <1>3, <1>5, BindingUnreserved
<1>8. Known' = Known /\ reservations'[r] # None
  BY <1>1, <1>2, StatusSet DEF Marked
<1> DEFINE news == {WriteBinding(c), WriteStatus(r), rest}
<1>9. news \in SUBSET TaskType /\ \A t \in news : Quiet(t) /\ Ready(t)'
  <2>1. Ready(WriteBinding(c))' /\ Ready(WriteStatus(r))'
    BY <1>3, <1>7, <1>8, WritesAreTasks DEF Ready, IsBound, SameBound
  <2>2. Ready(rest)'
    BY <1>6, <1>8 DEF Ready
  <2> QED
    BY <2>1, <2>2, <1>6, WritesAreTasks
<1>10. /\ todo' \in Seq(TaskType) /\ Ordered(todo') /\ Tasks' = news \cup ToSet(Tail(todo))
  <2>1. PICK s, w, v : s = Tail(todo) /\ w = WriteBinding(c) /\ v = WriteStatus(r)
    OBVIOUS
  <2>2. s \in Seq(TaskType) /\ Ordered(s)
    BY <1>2, <2>1, TaskFirst DEF BaseInv
  <2>3. w \in TaskType /\ v \in TaskType /\ Loose(w) /\ Loose(v)
    BY <2>1, WritesAreTasks, WritesLoose
  <2>4. /\ <<w, v, rest>> \o s \in Seq(TaskType) /\ Ordered(<<w, v, rest>> \o s)
        /\ ToSet(<<w, v, rest>> \o s) = {w, v, rest} \cup ToSet(s)
    BY <1>6, <2>2, <2>3, ThreeLooseFirst
  <2>5. todo' = <<w, v, rest>> \o s /\ news = {w, v, rest}
    BY <1>5, <2>1
  <2> HIDE DEF news
  <2> QED
    BY <2>1, <2>4, <2>5, Zenon DEF Tasks
<1>11. StatusDue(r)'
  <2>1. WriteStatus(r) \in Tasks'
    BY <1>10
  <2> QED
    BY <2>1, WritesAreTasks DEF StatusDue
<1> HIDE DEF news
<1>12. /\ AgendaInv' /\ QueueTasks' = QueueTasks
       /\ \A s \in Reservations : StatusDue(s) => StatusDue(s)'
  <2>1. StillThere
    BY <1>7, <1>8 DEF StillThere, SameBound
  <2>2. up'
    BY <1>1, <1>2
  <2> QED
    BY <2>1, <2>2, <1>2, <1>9, <1>10, AfterTask DEF BaseInv
<1>13. /\ BaseInv' /\ QueueQuiet /\ LoanQuiet
       /\ Marked(reservations, reservations', r, "completed")
  BY <1>1, <1>2, <1>7, <1>10, <1>12, MarkStep
<1> QED
  BY <1>1, <1>2, <1>3, <1>7, <1>11, <1>12, <1>13

-----------------------------------------------------------------------------
(* The queue *)

IsLoop(t) == t.do \in {"clean", "grant"}

LEMMA WaitingInLoop ==
  ASSUME NEW t \in Tasks, IsLoop(t), \A u \in Tasks \ {t} : ~IsLoop(u)
  PROVE  Waiting = ToSet(waitQueue) \cup ToSet(t.left)
BY DEF Waiting, Handled, IsLoop

LEMMA WaitingInLoopNext ==
  ASSUME NEW t \in Tasks', IsLoop(t), \A u \in Tasks' \ {t} : ~IsLoop(u)
  PROVE  Waiting' = ToSet(waitQueue') \cup ToSet(t.left)
BY DEF Waiting, Handled, IsLoop

LEMMA WaitingInQueueNext ==
  ASSUME \A u \in Tasks' : ~IsLoop(u)
  PROVE  Waiting' = ToSet(waitQueue')
BY DEF Waiting, Handled, IsLoop

LEMMA QuietIsNoLoop == \A t : IsLoop(t) => ~Quiet(t)
BY DEF IsLoop, Quiet

(* A step of the queue's loops: requests only move.                        *)
LEMMA BaseHoldsQueueing ==
  ASSUME BaseInv, up, todo' \in Seq(TaskType), AgendaInv', BindingsOK(bindings'),
         SameBound(bindings, bindings'), waitQueue' \in Seq(WaitItem), Waiting' \subseteq Waiting,
         UNCHANGED <<bindingRow, waitRows, reservations, reservationRow, now, up>>
  PROVE  BaseInv'
<1>1. TypeOK'
  BY DEF BaseInv, TypeOK, BindingsOK, Table
<1>2. /\ \A item \in Waiting' : IsBound(item.caller)
      /\ \A item \in waitRows' : IsBound(item.caller)
  BY AllBound
<1>3. /\ \A r \in Reservations : reservations'[r] # None =>
           IsBound(reservations'[r].caller) /\ reservationRow'[r] # None
      /\ \A r \in Reservations : reservationRow'[r] # None => IsBound(reservationRow'[r].caller)
  BY AllBound
<1> QED
  BY <1>1, <1>2, <1>3, BaseHolds

LEMMA EnqueueStep ==
  ASSUME BaseInv, NEW c \in Callers, NEW tokens \in Amounts, NEW wait \in Waits,
         Enqueue(c, tokens, wait)
  PROVE  /\ BaseInv' /\ BookQuiet /\ LoanQuiet
         /\ up /\ todo = <<>> /\ UNCHANGED <<now, up>>
         /\ QueueTasks = {} /\ QueueTasks' = {}
         /\ \E item \in WaitItem :
              /\ NextItem(item.id) /\ waitRows' = waitRows \cup {item}
              /\ waitQueue' = Append(waitQueue, item) /\ Waiting' = Waiting \cup {item}
<1>1. /\ MutexFree /\ up /\ todo = <<>> /\ IsBound(c) /\ tokens \in Nat /\ wait \in Nat
      /\ todo' = <<WriteBinding(c)>>
      /\ UNCHANGED <<reservations, bindingRow, reservationRow, now, up, torn, rebound>>
  BY InputsAssumption DEF Enqueue, MutexFree, Bound, IsBound, history
<1>2. PICK b \in Ticked(bindings[c]) : bindings' = [bindings EXCEPT ![c] = b]
  BY DEF Enqueue
<1>3. PICK item :
        \E n \in Items :
          /\ item = [id |-> n, caller |-> c, tokens |-> tokens, until |-> now + wait]
          /\ NextItem(n) /\ waitRows' = waitRows \cup {item}
          /\ waitQueue' = Append(waitQueue, item)
  BY DEF Enqueue, AddWaitItem
<1>4. /\ item \in WaitItem /\ item.caller = c /\ NextItem(item.id)
      /\ waitRows' = waitRows \cup {item} /\ waitQueue' = Append(waitQueue, item)
  <2>1. now \in Nat
    BY DEF BaseInv, TypeOK
  <2> QED
    BY <1>1, <1>3, <2>1 DEF WaitItem
<1>5. /\ BindingsOK(bindings') /\ Calm(bindings, bindings') /\ BookQuiet /\ LoanQuiet
      /\ AgendaInv' /\ todo' \in Seq(TaskType) /\ QueueTasks' = {}
  <2>1. /\ b \in CallerBinding /\ Within(b) /\ SameTerms(bindings[c], b)
    BY <1>1, OneTicked
  <2>2. SameLoan(bindings[c], b) /\ b.reserved = bindings[c].reserved
    BY <2>1 DEF SameTerms
  <2> QED
    BY <1>1, <1>2, <2>1, <2>2, CallStep
<1>6. /\ waitQueue' \in Seq(WaitItem) /\ ToSet(waitQueue') = ToSet(waitQueue) \cup {item}
  BY <1>4, ListAppended DEF BaseInv, TypeOK
<1>7. QueueTasks = {} /\ Waiting = ToSet(waitQueue)
  BY <1>1, NoTasksNow
<1>8. Waiting' = Waiting \cup {item}
  <2>1. \A u \in Tasks' : ~IsLoop(u)
    BY <1>5, QuietIsNoLoop DEF QueueTasks
  <2> QED
    BY <2>1, <1>6, <1>7, WaitingInQueueNext
<1>9. TypeOK'
  <2>1. IsFiniteSet(waitRows')
    BY <1>4, FS_AddElement DEF BaseInv, TypeOK
  <2> QED
    BY <1>1, <1>4, <1>5, <1>6, <2>1 DEF BaseInv, TypeOK, BindingsOK, Table
<1>10. BaseInv'
  <2>1. /\ \A x \in Waiting' : IsBound(x.caller)
        /\ \A x \in waitRows' : IsBound(x.caller)
    BY <1>1, <1>4, <1>8, AllBound
  <2>2. /\ \A r \in Reservations : reservations'[r] # None =>
             IsBound(reservations'[r].caller) /\ reservationRow'[r] # None
        /\ \A r \in Reservations : reservationRow'[r] # None => IsBound(reservationRow'[r].caller)
    BY <1>1, AllBound
  <2> QED
    BY <1>1, <1>5, <1>9, <2>1, <2>2, BaseHolds DEF Calm
<1> QED
  BY <1>1, <1>4, <1>5, <1>7, <1>8, <1>10

LEMMA RefillTickStep ==
  ASSUME BaseInv, RefillTick
  PROVE  /\ BaseInv' /\ BookQuiet /\ LoanQuiet
         /\ up /\ todo = <<>> /\ UNCHANGED <<waitRows, now, up>>
         /\ waitQueue' = <<>> /\ QueueTasks = {} /\ Waiting' = Waiting
         /\ \E loop : /\ loop.do = "clean" /\ loop.left = waitQueue /\ QueueTasks' = {loop}
<1>0. PICK loop, visit, last :
        /\ loop = [do |-> "clean", left |-> waitQueue]
        /\ visit = [do |-> "reserve", left |-> {r \in Known : Due(r)}]
        /\ last = [do |-> "refill"]
  OBVIOUS
<1>1. /\ up /\ todo = <<>> /\ todo' = <<loop, visit, last>> /\ waitQueue' = <<>>
      /\ UNCHANGED <<bindings, reservations, bindingRow, reservationRow, waitRows, now, up, torn, rebound>>
  BY <1>0 DEF RefillTick, MutexFree, tables, history
<1>2. {r \in Known : Due(r)} \in SUBSET Reservations /\ {r \in Known : Due(r)} \subseteq Known
  BY DEF Known
<1>3. waitQueue \in Seq(WaitItem)
  BY DEF BaseInv, TypeOK
<1>4. loop \in TaskType /\ visit \in TaskType /\ last \in TaskType
  BY <1>0, <1>2, <1>3, NewTasks
<1>5. /\ loop.do = "clean" /\ loop.left = waitQueue /\ last.do = "refill"
      /\ visit.do = "reserve" /\ visit.left \subseteq Known
  BY <1>0, <1>2
<1>6. todo' \in Seq(TaskType) /\ Ordered(todo') /\ Tasks' = {loop, visit, last}
  BY <1>1, <1>4, <1>5, ThreeTasksAlone DEF Tasks, Before
<1>7. AgendaInv' /\ \A r \in Reservations : StatusDue(r) => StatusDue(r)'
  <2>1. Known' = Known
    BY <1>1 DEF Known
  <2>2. \A t \in {loop, visit, last} : Ready(t)'
    BY <2>1, <1>5 DEF Ready
  <2>3. {loop, visit, last} \in SUBSET TaskType
    BY <1>4
  <2> QED
    BY <2>2, <2>3, <1>1, <1>6, AfterIdle
<1>8. QueueTasks' = {loop}
  BY <1>5, <1>6 DEF QueueTasks, Quiet
<1>9. QueueTasks = {} /\ Waiting = ToSet(waitQueue)
  BY <1>1, NoTasksNow
<1>10. Waiting' = Waiting
  <2>1. loop \in Tasks' /\ IsLoop(loop) /\ \A u \in Tasks' \ {loop} : ~IsLoop(u)
    BY <1>5, <1>6 DEF IsLoop
  <2>2. Waiting' = ToSet(waitQueue') \cup ToSet(loop.left)
    BY <2>1, WaitingInLoopNext
  <2> QED
    BY <2>2, <1>1, <1>5, <1>9, NoTasks
<1>11. BindingsOK(bindings') /\ Calm(bindings, bindings')
  BY <1>1, BindingsTyped, CalmSame DEF BaseInv
<1>12. waitQueue' \in Seq(WaitItem)
  BY <1>1
<1>13. BaseInv'
  BY <1>1, <1>6, <1>7, <1>10, <1>11, <1>12, BaseHoldsQueueing DEF Calm
<1> QED
  BY <1>1, <1>5, <1>7, <1>8, <1>9, <1>10, <1>11, <1>13 DEF BookQuiet, LoanQuiet, Calm

(* The head of a loop over the queue                                       *)
LEMMA LoopTask ==
  ASSUME BaseInv, todo # <<>>, IsLoop(Task)
  PROVE  /\ up /\ Task \in TaskType /\ Task.left \in Seq(WaitItem)
         /\ \A u \in ToSet(Tail(todo)) : ~IsLoop(u)
         /\ Tasks = {Task} \cup ToSet(Tail(todo))
         /\ Waiting = ToSet(waitQueue) \cup ToSet(Task.left)
         /\ Task.left # <<>> =>
              /\ Head(Task.left) \in WaitItem /\ Tail(Task.left) \in Seq(WaitItem)
              /\ ToSet(Task.left) = {Head(Task.left)} \cup ToSet(Tail(Task.left))
<1>1. /\ Task \in TaskType /\ up /\ Task \in Tasks /\ Tasks = {Task} \cup ToSet(Tail(todo))
      /\ \A u \in ToSet(Tail(todo)) : Before(Task, u)
  BY TaskFirst DEF BaseInv
<1>2. \A u \in ToSet(Tail(todo)) : ~IsLoop(u)
  BY <1>1 DEF Before, IsLoop
<1>3. Waiting = ToSet(waitQueue) \cup ToSet(Task.left)
  BY <1>1, <1>2, WaitingInLoop
<1>4. Task.left \in Seq(WaitItem)
  BY <1>1, TaskTyped DEF IsLoop
<1> QED
  BY <1>1, <1>2, <1>3, <1>4, ListHeadAndTail

LEMMA SameDoBefore == \A t, u, v : t.do = u.do /\ Before(t, v) => Before(u, v)
BY DEF Before

LEMMA CleanUpStep ==
  ASSUME BaseInv, CleanUp
  PROVE  /\ BaseInv' /\ BookQuiet /\ LoanQuiet
         /\ todo # <<>> /\ IsLoop(Task) /\ Task.left # <<>> /\ UNCHANGED <<waitRows, now, up>>
         /\ \E rest :
              /\ rest.do = "clean" /\ rest.left = Tail(Task.left)
              /\ \/ /\ Expired(Head(Task.left)) /\ UNCHANGED waitQueue
                    /\ Tasks' = {RemoveItem(Head(Task.left)), rest} \cup ToSet(Tail(todo))
                 \/ /\ ~Expired(Head(Task.left))
                    /\ waitQueue' = Append(waitQueue, Head(Task.left))
                    /\ Tasks' = {rest} \cup ToSet(Tail(todo))
<1>1. /\ todo # <<>> /\ Task.do = "clean" /\ IsLoop(Task) /\ Task.left # <<>>
      /\ UNCHANGED <<bindings, reservations, bindingRow, reservationRow, waitRows, now, up, torn, rebound>>
  BY DEF CleanUp, Doing, tables, history, IsLoop
<1>2. /\ up /\ Task \in TaskType /\ Task.left \in Seq(WaitItem)
      /\ \A u \in ToSet(Tail(todo)) : ~IsLoop(u)
      /\ Waiting = ToSet(waitQueue) \cup ToSet(Task.left)
      /\ Head(Task.left) \in WaitItem /\ Tail(Task.left) \in Seq(WaitItem)
      /\ ToSet(Task.left) = {Head(Task.left)} \cup ToSet(Tail(Task.left))
  BY <1>1, LoopTask
<1>3. PICK item, rest, gone, later :
        /\ item = Head(Task.left) /\ rest = [do |-> "clean", left |-> Tail(Task.left)]
        /\ gone = RemoveItem(item) /\ later = Tail(todo)
  OBVIOUS
<1>4. /\ item \in WaitItem /\ rest \in TaskType /\ gone \in TaskType
      /\ rest.do = "clean" /\ rest.left = Tail(Task.left) /\ gone.do = "remove"
  BY <1>2, <1>3, NewTasks DEF RemoveItem
<1>5. [Task EXCEPT !.left = Tail(Task.left)] = rest
  BY <1>1, <1>2, <1>3, LoopGoesOn
<1>6. \/ Expired(item) /\ todo' = <<gone, rest>> \o later /\ UNCHANGED waitQueue
      \/ ~Expired(item) /\ todo' = <<rest>> \o later /\ waitQueue' = Append(waitQueue, item)
  BY <1>3, <1>5 DEF CleanUp, Then
<1>7. /\ later \in Seq(TaskType) /\ Ordered(later) /\ \A u \in ToSet(later) : Before(rest, u)
      /\ \A u : Before(gone, u)
  <2>1. /\ later \in Seq(TaskType) /\ Ordered(later) /\ \A u \in ToSet(later) : Before(Task, u)
    BY <1>1, <1>3, TaskFirst DEF BaseInv
  <2>2. Loose(gone)
    BY <1>4 DEF Loose
  <2> QED
    BY <2>1, <2>2, <1>1, <1>4, SameDoBefore, LooseFirst
<1>8. \/ /\ todo' \in Seq(TaskType) /\ Ordered(todo') /\ Tasks' = {gone, rest} \cup ToSet(later)
         /\ Expired(item) /\ UNCHANGED waitQueue
      \/ /\ todo' \in Seq(TaskType) /\ Ordered(todo') /\ Tasks' = {rest} \cup ToSet(later)
         /\ ~Expired(item) /\ waitQueue' = Append(waitQueue, item)
  <2>1. /\ <<gone, rest>> \o later \in Seq(TaskType) /\ Ordered(<<gone, rest>> \o later)
        /\ ToSet(<<gone, rest>> \o later) = {gone, rest} \cup ToSet(later)
    BY <1>4, <1>7, TwoInFront
  <2>2. /\ <<rest>> \o later \in Seq(TaskType) /\ Ordered(<<rest>> \o later)
        /\ ToSet(<<rest>> \o later) = {rest} \cup ToSet(later)
    BY <1>4, <1>7, OneInFront
  <2> QED
    BY <2>1, <2>2, <1>6, Zenon DEF Tasks
<1>9. /\ AgendaInv' /\ todo' \in Seq(TaskType)
      /\ \A r \in Reservations : StatusDue(r) => StatusDue(r)'
  <2>1. Ready(gone)' /\ Ready(rest)'
    BY <1>4 DEF Ready
  <2>2. StillThere
    BY <1>1 DEF StillThere, Known
  <2>3. /\ {gone, rest} \in SUBSET TaskType /\ {rest} \in SUBSET TaskType
        /\ \A t \in {gone, rest} : Ready(t)'
        /\ \A t \in {rest} : Ready(t)'
    BY <2>1, <1>4
  <2> QED
    BY <2>2, <2>3, <1>1, <1>2, <1>3, <1>8, AfterTask DEF BaseInv
<1>10. waitQueue' \in Seq(WaitItem) /\ Waiting' \subseteq Waiting
  <2>1. rest \in Tasks' /\ IsLoop(rest) /\ \A u \in Tasks' \ {rest} : ~IsLoop(u)
    BY <1>2, <1>3, <1>4, <1>8 DEF IsLoop
  <2>2. Waiting' = ToSet(waitQueue') \cup ToSet(rest.left)
    BY <2>1, WaitingInLoopNext
  <2>3. /\ waitQueue' \in Seq(WaitItem)
        /\ ToSet(waitQueue') \subseteq ToSet(waitQueue) \cup {item}
    <3>1. waitQueue \in Seq(WaitItem)
      BY DEF BaseInv, TypeOK
    <3>2. CASE waitQueue' = waitQueue
      BY <3>1, <3>2
    <3>3. CASE waitQueue' = Append(waitQueue, item)
      BY <3>1, <3>3, <1>4, ListAppended
    <3> QED
      BY <3>2, <3>3, <1>8
  <2> QED
    BY <2>2, <2>3, <1>2, <1>3, <1>4
<1>11. BindingsOK(bindings') /\ Calm(bindings, bindings')
  BY <1>1, BindingsTyped, CalmSame DEF BaseInv
<1>12. BaseInv'
  BY <1>1, <1>2, <1>9, <1>10, <1>11, BaseHoldsQueueing DEF Calm
<1>13. BookQuiet /\ LoanQuiet
  BY <1>1, <1>9, <1>11 DEF BookQuiet, LoanQuiet, Calm
<1> QED
  BY <1>1, <1>3, <1>4, <1>8, <1>12, <1>13

LEMMA CleanedUpStep ==
  ASSUME BaseInv, CleanedUp
  PROVE  /\ BaseInv' /\ BookQuiet /\ LoanQuiet
         /\ todo # <<>> /\ IsLoop(Task) /\ Task.left = <<>>
         /\ UNCHANGED <<waitQueue, waitRows, now, up>>
         /\ Tasks' = ToSet(Tail(todo))
<1>1. /\ todo # <<>> /\ Task.do = "clean" /\ IsLoop(Task) /\ Task.left = <<>> /\ Done
      /\ UNCHANGED memory
      /\ UNCHANGED <<bindings, waitQueue, reservations, bindingRow, reservationRow, waitRows, now, up, torn, rebound>>
  BY DEF CleanedUp, Doing, memory, tables, history, IsLoop
<1>2. up /\ Tasks = {Task} \cup ToSet(Tail(todo))
  BY <1>1, LoopTask
<1>3. /\ AgendaInv' /\ todo' \in Seq(TaskType) /\ Tasks' = ToSet(Tail(todo))
      /\ \A r \in Reservations : StatusDue(r) => StatusDue(r)'
  BY <1>1, <1>2, AfterDone, UnmovedThere DEF BaseInv
<1>4. Waiting' \subseteq Waiting
  BY <1>1, <1>2, <1>3 DEF Waiting, Handled
<1>5. BindingsOK(bindings') /\ Calm(bindings, bindings') /\ waitQueue' \in Seq(WaitItem)
  BY <1>1, BindingsTyped, CalmSame DEF BaseInv, TypeOK
<1>6. BaseInv'
  BY <1>1, <1>2, <1>3, <1>4, <1>5, BaseHoldsQueueing DEF Calm
<1> QED
  BY <1>1, <1>3, <1>5, <1>6 DEF BookQuiet, LoanQuiet, Calm

LEMMA RefillBindings ==
  ASSUME BaseInv, Refill
  PROVE  BindingsOK(bindings') /\ Calm(bindings, bindings')
<1>1. PICK used :
        /\ \A c \in Bound : [bindings[c] EXCEPT !.used = used[c]] \in Ticked(bindings[c])
        /\ bindings' = [c \in Callers |-> IF c \in Bound
                                         THEN [bindings[c] EXCEPT !.used = used[c]] ELSE None]
  BY DEF Refill
<1>2. BindingsOK(bindings)
  BY BindingsTyped DEF BaseInv
<1>3. ASSUME NEW c \in Callers, bindings[c] # None
      PROVE  /\ bindings'[c] \in CallerBinding /\ Within(bindings'[c])
             /\ SameTerms(bindings[c], bindings'[c])
  <2>1. /\ bindings'[c] = [bindings[c] EXCEPT !.used = used[c]]
        /\ [bindings[c] EXCEPT !.used = used[c]] \in Ticked(bindings[c])
    BY <1>1, <1>3 DEF Bound
  <2>2. bindings[c] \in CallerBinding /\ Within(bindings[c])
    BY <1>2, <1>3, OneBound
  <2>3. bindings'[c] \in Ticked(bindings[c])
    BY <2>1
  <2> QED
    BY <2>2, <2>3, TickedFields
<1>4. \A c \in Callers : bindings[c] = None => bindings'[c] = None
  BY <1>1 DEF Bound
<1>5. bindings' \in Table
  <2>1. bindings' = [c \in Callers |-> bindings'[c]]
    BY <1>1
  <2>2. \A c \in Callers : bindings'[c] \in CallerBinding \cup {None}
    BY <1>3, <1>4
  <2> QED
    BY <2>1, <2>2 DEF Table
<1>6. BindingsOK(bindings')
  BY <1>3, <1>4, <1>5 DEF BindingsOK
<1>7. Calm(bindings, bindings')
  BY <1>3, <1>4, BindingFields DEF Calm, SameBound, SameReserved, SameLoans, SameTerms
<1> QED
  BY <1>6, <1>7

LEMMA RefillStep ==
  ASSUME BaseInv, Refill
  PROVE  /\ BaseInv' /\ BookQuiet /\ LoanQuiet
         /\ up /\ UNCHANGED <<waitRows, now, up>>
         /\ waitQueue' = <<>> /\ QueueTasks = {} /\ Waiting = ToSet(waitQueue) /\ Waiting' = Waiting
         /\ \E loop : /\ loop.do = "grant" /\ loop.left = waitQueue /\ QueueTasks' = {loop}
<1>1. /\ todo # <<>> /\ Task.do = "refill" /\ waitQueue' = <<>>
      /\ UNCHANGED <<reservations, bindingRow, reservationRow, waitRows, now, up, torn, rebound>>
  BY DEF Refill, Doing, tables, history
<1>2. up /\ Tail(todo) = <<>> /\ Tasks = {Task}
  BY <1>1, TaskFirst, LastTask DEF BaseInv
<1>3. PICK dirty \in BOOLEAN : todo' = <<[do |-> "grant", left |-> waitQueue, dirty |-> dirty]>>
  BY DEF Refill
<1>4. PICK loop : loop = [do |-> "grant", left |-> waitQueue, dirty |-> dirty]
  OBVIOUS
<1>5. /\ loop \in TaskType /\ loop.do = "grant" /\ loop.left = waitQueue /\ waitQueue \in Seq(WaitItem)
  BY <1>4, NewTasks DEF BaseInv, TypeOK
<1>6. todo' \in Seq(TaskType) /\ Ordered(todo') /\ Tasks' = {loop}
  BY <1>3, <1>4, <1>5, TaskAlone DEF Tasks
<1>7. AgendaInv' /\ \A r \in Reservations : StatusDue(r) => StatusDue(r)'
  <2>1. \A t \in {loop} : Ready(t)'
    BY <1>5 DEF Ready
  <2>2. \A r \in Reservations : ~StatusDue(r)
    BY <1>1, <1>2 DEF StatusDue
  <2>3. {loop} \in SUBSET TaskType
    BY <1>5
  <2> QED
    BY <2>1, <2>2, <2>3, <1>1, <1>2, <1>6, AgendaStarts
<1>8. QueueTasks' = {loop} /\ QueueTasks = {}
  BY <1>1, <1>2, <1>5, <1>6 DEF QueueTasks, Quiet
<1>9. Waiting = ToSet(waitQueue) /\ Waiting' = Waiting
  <2>1. Waiting = ToSet(waitQueue)
    BY <1>8, WaitingIs
  <2>2. loop \in Tasks' /\ IsLoop(loop) /\ \A u \in Tasks' \ {loop} : ~IsLoop(u)
    BY <1>5, <1>6 DEF IsLoop
  <2>3. Waiting' = ToSet(waitQueue') \cup ToSet(loop.left)
    BY <2>2, WaitingInLoopNext
  <2> QED
    BY <2>1, <2>3, <1>1, <1>5, NoTasks
<1>10. BindingsOK(bindings') /\ Calm(bindings, bindings') /\ waitQueue' \in Seq(WaitItem)
  BY <1>1, RefillBindings
<1>11. BaseInv'
  BY <1>1, <1>2, <1>6, <1>7, <1>9, <1>10, BaseHoldsQueueing DEF Calm
<1> QED
  BY <1>1, <1>2, <1>5, <1>7, <1>8, <1>9, <1>10, <1>11 DEF BookQuiet, LoanQuiet, Calm

LEMMA GrantFromQueueStep ==
  ASSUME BaseInv, GrantFromQueue
  PROVE  /\ BaseInv' /\ BookQuiet /\ LoanQuiet
         /\ todo # <<>> /\ IsLoop(Task) /\ Task.left # <<>> /\ UNCHANGED <<waitRows, now, up>>
         /\ QueueTasks = {Task}
         /\ \E rest :
              /\ rest.do = "grant" /\ rest.left = Tail(Task.left)
              /\ \/ /\ UNCHANGED waitQueue
                    /\ QueueTasks' = {RemoveItem(Head(Task.left)), rest}
                 \/ /\ waitQueue' = Append(waitQueue, Head(Task.left))
                    /\ QueueTasks' = {rest}
<1>1. /\ todo # <<>> /\ Task.do = "grant" /\ IsLoop(Task) /\ Task.left # <<>>
      /\ UNCHANGED <<reservations, bindingRow, reservationRow, waitRows, now, up, torn, rebound>>
  BY DEF GrantFromQueue, Doing, tables, history, IsLoop
<1>2. /\ up /\ Task \in TaskType /\ Task.left \in Seq(WaitItem)
      /\ Waiting = ToSet(waitQueue) \cup ToSet(Task.left)
      /\ Head(Task.left) \in WaitItem /\ Tail(Task.left) \in Seq(WaitItem)
      /\ ToSet(Task.left) = {Head(Task.left)} \cup ToSet(Tail(Task.left))
  BY <1>1, LoopTask
<1>3. Tasks = {Task} /\ Task.dirty \in BOOLEAN
  BY <1>1, <1>2, LastTask, TaskTyped DEF BaseInv
<1>4. PICK item, c, gone, write :
        /\ item = Head(Task.left) /\ c = item.caller /\ gone = RemoveItem(item)
        /\ write = WriteBinding(c)
  OBVIOUS
<1>5. /\ item \in WaitItem /\ c \in Callers /\ IsBound(c) /\ item.tokens \in Nat
  <2>1. item \in Waiting /\ item \in WaitItem
    BY <1>2, <1>4
  <2> QED
    BY <2>1, <1>2, <1>4, AllBound DEF WaitItem
<1>6. PICK b \in Ticked(bindings[c]) :
        \/ /\ Remaining(b) >= item.tokens
           /\ bindings' = [bindings EXCEPT ![c] = [b EXCEPT !.used = @ + item.tokens]]
           /\ todo' = <<write, gone, [[Task EXCEPT !.left = Tail(@)] EXCEPT !.dirty = TRUE]>>
           /\ UNCHANGED waitQueue
        \/ /\ bindings' = [bindings EXCEPT ![c] = b]
           /\ waitQueue' = Append(waitQueue, item)
           /\ todo' = <<[Task EXCEPT !.left = Tail(@)]>>
  BY <1>4 DEF GrantFromQueue
<1>7. \A dirty \in BOOLEAN : LET rest == [do |-> "grant", left |-> Tail(Task.left), dirty |-> dirty]
                             IN  rest \in TaskType /\ rest.do = "grant" /\ rest.left = Tail(Task.left)
  BY <1>2, NewTasks
<1>8. [Task EXCEPT !.left = Tail(@)] = [do |-> "grant", left |-> Tail(Task.left), dirty |-> Task.dirty]
  BY <1>1, <1>2, LoopGoesOn
<1>9. PICK rest :
        /\ rest \in TaskType /\ rest.do = "grant" /\ rest.left = Tail(Task.left)
        /\ \/ /\ Remaining(b) >= item.tokens
              /\ bindings' = [bindings EXCEPT ![c] = [b EXCEPT !.used = @ + item.tokens]]
              /\ todo' = <<write, gone, rest>> /\ UNCHANGED waitQueue
           \/ /\ bindings' = [bindings EXCEPT ![c] = b]
              /\ waitQueue' = Append(waitQueue, item)
              /\ todo' = <<rest>>
  <2>1. CASE /\ Remaining(b) >= item.tokens
             /\ bindings' = [bindings EXCEPT ![c] = [b EXCEPT !.used = @ + item.tokens]]
             /\ todo' = <<write, gone, [[Task EXCEPT !.left = Tail(@)] EXCEPT !.dirty = TRUE]>>
             /\ UNCHANGED waitQueue
    <3>1. [[Task EXCEPT !.left = Tail(@)] EXCEPT !.dirty = TRUE]
            = [do |-> "grant", left |-> Tail(Task.left), dirty |-> TRUE]
      <4>1. PICK one : one = [Task EXCEPT !.left = Tail(@)]
        OBVIOUS
      <4>2. one = [do |-> "grant", left |-> Tail(Task.left), dirty |-> Task.dirty]
        BY <4>1, <1>8
      <4>3. [one EXCEPT !.dirty = TRUE] = [do |-> "grant", left |-> Tail(Task.left), dirty |-> TRUE]
        <5>1. one \in [do : {"grant"}, left : Seq(WaitItem), dirty : BOOLEAN]
          BY <4>2, <1>2, <1>3
        <5>2. one.left = Tail(Task.left)
          BY <4>2
        <5>3. \A d : [one EXCEPT !.dirty = d] = [do |-> "grant", left |-> one.left, dirty |-> d]
          BY <5>1
        <5> QED
          BY <5>2, <5>3, Zenon
      <4> QED
        BY <4>1, <4>3, Zenon
    <3>2. PICK rest : rest = [do |-> "grant", left |-> Tail(Task.left), dirty |-> TRUE]
      OBVIOUS
    <3>3. rest \in TaskType /\ rest.do = "grant" /\ rest.left = Tail(Task.left)
      BY <3>2, <1>7
    <3> QED
      BY <2>1, <3>1, <3>2, <3>3
  <2>2. CASE /\ bindings' = [bindings EXCEPT ![c] = b]
             /\ waitQueue' = Append(waitQueue, item)
             /\ todo' = <<[Task EXCEPT !.left = Tail(@)]>>
    <3>1. PICK rest : rest = [do |-> "grant", left |-> Tail(Task.left), dirty |-> Task.dirty]
      OBVIOUS
    <3>2. rest \in TaskType /\ rest.do = "grant" /\ rest.left = Tail(Task.left)
      BY <3>1, <1>3, <1>7
    <3> QED
      BY <2>2, <3>1, <3>2, <1>8
  <2> QED
    BY <2>1, <2>2, <1>6
<1>10. /\ BindingsOK(bindings) /\ b \in CallerBinding /\ Within(b) /\ SameTerms(bindings[c], b)
       /\ bindings[c] # None
  BY <1>5, OneTicked, BindingsTyped DEF BaseInv, IsBound
<1>11. BindingsOK(bindings') /\ Calm(bindings, bindings')
  <2>1. CASE bindings' = [bindings EXCEPT ![c] = b]
    <3>1. SameLoan(bindings[c], b) /\ b.reserved = bindings[c].reserved
      BY <1>10 DEF SameTerms
    <3> QED
      BY <2>1, <3>1, <1>5, <1>10, OneCalm
  <2>2. CASE /\ Remaining(b) >= item.tokens
             /\ bindings' = [bindings EXCEPT ![c] = [b EXCEPT !.used = @ + item.tokens]]
    <3> DEFINE d == [b EXCEPT !.used = @ + item.tokens]
    <3>1. d \in CallerBinding /\ SameTerms(b, d) /\ Within(d)
      BY <2>2, <1>5, <1>10, SpentFields
    <3>2. bindings' = [bindings EXCEPT ![c] = d]
      BY <2>2
    <3> HIDE DEF d
    <3>3. SameLoan(bindings[c], d) /\ d.reserved = bindings[c].reserved
      BY <3>1, <1>10 DEF SameTerms, SameLoan
    <3> QED
      BY <3>1, <3>2, <3>3, <1>5, <1>10, OneCalm
  <2> QED
    BY <2>1, <2>2, <1>9
<1>12. /\ gone \in TaskType /\ gone.do = "remove" /\ write \in TaskType /\ Quiet(write)
       /\ Loose(write) /\ Loose(gone)
  <2>1. gone \in TaskType /\ gone.do = "remove"
    BY <1>4, <1>5, NewTasks DEF RemoveItem
  <2> QED
    BY <2>1, <1>4, <1>5, WritesAreTasks, WritesLoose DEF Loose
<1>13. \/ /\ todo' \in Seq(TaskType) /\ Ordered(todo') /\ Tasks' = {write, gone, rest}
          /\ UNCHANGED waitQueue
       \/ /\ todo' \in Seq(TaskType) /\ Ordered(todo') /\ Tasks' = {rest}
          /\ waitQueue' = Append(waitQueue, item)
  <2>1. /\ <<write, gone, rest>> \in Seq(TaskType) /\ Ordered(<<write, gone, rest>>)
        /\ ToSet(<<write, gone, rest>>) = {write, gone, rest}
    BY <1>9, <1>12, LooseFirst, ThreeTasksAlone
  <2>2. <<rest>> \in Seq(TaskType) /\ Ordered(<<rest>>) /\ ToSet(<<rest>>) = {rest}
    BY <1>9, TaskAlone
  <2> QED
    BY <2>1, <2>2, <1>9, Zenon DEF Tasks
<1>14. AgendaInv' /\ todo' \in Seq(TaskType)
  <2>1. Ready(write)'
    BY <1>4, <1>5, <1>11, WritesAreTasks DEF Ready, IsBound, Calm, SameBound
  <2>2. Ready(gone)' /\ Ready(rest)'
    BY <1>9, <1>12 DEF Ready
  <2>3. /\ {write, gone, rest} \in SUBSET TaskType /\ {rest} \in SUBSET TaskType
        /\ \A t \in {write, gone, rest} : Ready(t)'
        /\ \A t \in {rest} : Ready(t)'
    BY <2>1, <2>2, <1>9, <1>12
  <2> QED
    BY <2>3, <1>1, <1>2, <1>13, AgendaStarts
<1>15. /\ QueueTasks = {Task}
       /\ \/ QueueTasks' = {gone, rest} /\ UNCHANGED waitQueue
          \/ QueueTasks' = {rest} /\ waitQueue' = Append(waitQueue, item)
  BY <1>1, <1>3, <1>9, <1>12, <1>13 DEF QueueTasks, Quiet
<1>16. waitQueue' \in Seq(WaitItem) /\ Waiting' \subseteq Waiting
  <2>1. rest \in Tasks' /\ IsLoop(rest) /\ \A u \in Tasks' \ {rest} : ~IsLoop(u)
    BY <1>9, <1>12, <1>13, QuietIsNoLoop DEF IsLoop
  <2>2. Waiting' = ToSet(waitQueue') \cup ToSet(rest.left)
    BY <2>1, WaitingInLoopNext
  <2>3. /\ waitQueue' \in Seq(WaitItem)
        /\ ToSet(waitQueue') \subseteq ToSet(waitQueue) \cup {item}
    <3>1. waitQueue \in Seq(WaitItem)
      BY DEF BaseInv, TypeOK
    <3>2. CASE waitQueue' = waitQueue
      BY <3>1, <3>2
    <3>3. CASE waitQueue' = Append(waitQueue, item)
      BY <3>1, <3>3, <1>5, ListAppended
    <3> QED
      BY <3>2, <3>3, <1>13
  <2> QED
    BY <2>2, <2>3, <1>2, <1>4, <1>9
<1>17. BaseInv'
  BY <1>1, <1>2, <1>11, <1>14, <1>16, BaseHoldsQueueing DEF Calm
<1>18. BookQuiet /\ LoanQuiet
  <2>1. \A r \in Reservations : ~StatusDue(r)
    BY <1>1, <1>3 DEF StatusDue
  <2> QED
    BY <2>1, <1>1, <1>11 DEF BookQuiet, LoanQuiet, Calm
<1> QED
  BY <1>1, <1>4, <1>9, <1>15, <1>17, <1>18

LEMMA GrantDoneStep ==
  ASSUME BaseInv, GrantDone
  PROVE  /\ BaseInv' /\ BookQuiet /\ LoanQuiet
         /\ todo # <<>> /\ IsLoop(Task) /\ Task.left = <<>>
         /\ UNCHANGED <<waitQueue, waitRows, now, up>>
         /\ QueueTasks = {Task} /\ QueueTasks' = {}
<1>1. /\ todo # <<>> /\ Task.do = "grant" /\ IsLoop(Task) /\ Task.left = <<>>
      /\ UNCHANGED <<bindings, waitQueue, reservations, bindingRow, reservationRow, waitRows, now, up, torn, rebound>>
  BY DEF GrantDone, Doing, memory, tables, history, IsLoop
<1>2. up /\ Tail(todo) = <<>> /\ Tasks = {Task}
  BY <1>1, TaskFirst, LastTask DEF BaseInv
<1> DEFINE news == {WriteBinding(c) : c \in Bound}
<1>3. news \in SUBSET TaskType /\ \A t \in news : Quiet(t) /\ Loose(t) /\ Ready(t)'
  <2>1. \A c \in Bound : c \in Callers /\ bindings'[c] # None
    BY <1>1 DEF Bound
  <2> QED
    BY <2>1, WritesAreTasks, WritesLoose DEF Ready, IsBound
<1>4. todo' \in Seq(TaskType) /\ Ordered(todo') /\ Tasks' \subseteq news
  <2>1. CASE todo' = <<>>
    BY <2>1, NoTasks DEF Tasks
  <2>2. CASE todo' # <<>>
    <3>1. PICK order \in SetToSeqs(Bound) : todo' = [i \in DOMAIN order |-> WriteBinding(order[i])]
      BY <1>2, <2>2 DEF GrantDone, Done
    <3>2. /\ order \in [1..Cardinality(Bound) -> Bound] /\ DOMAIN order = 1..Cardinality(Bound)
      BY <3>1 DEF SetToSeqs
    <3>3. Cardinality(Bound) \in Nat
      <4>1. IsFiniteSet(Bound)
        BY BoundsAssumption, FS_Subset DEF Bound
      <4> QED
        BY <4>1, FS_CardinalityType
    <3>4. \A i \in 1..Cardinality(Bound) : todo'[i] \in news
      BY <3>1, <3>2
    <3> HIDE DEF news
    <3>5. todo' \in Seq(TaskType) /\ DOMAIN todo' = 1..Cardinality(Bound) /\ Len(todo') = Cardinality(Bound)
      <4>1. todo' = [i \in 1..Cardinality(Bound) |-> todo'[i]]
        BY <3>1, <3>2
      <4>2. todo' \in [1..Cardinality(Bound) -> TaskType]
        BY <4>1, <3>4, <1>3
      <4> QED
        BY <4>2, <3>3
    <3>6. Ordered(todo')
      BY <3>4, <3>5, <1>3, LooseFirst DEF Ordered
    <3>7. Tasks' \subseteq news
      BY <3>4, <3>5 DEF Tasks, ToSet
    <3> QED
      BY <3>5, <3>6, <3>7
  <2> QED
    BY <2>1, <2>2
<1> HIDE DEF news
<1>5. AgendaInv'
  BY <1>1, <1>2, <1>3, <1>4, AgendaStarts
<1>6. QueueTasks = {Task} /\ QueueTasks' = {}
  BY <1>1, <1>2, <1>3, <1>4 DEF QueueTasks, Quiet
<1>7. Waiting' \subseteq Waiting
  <2>1. \A u \in Tasks' : ~IsLoop(u)
    BY <1>3, <1>4, QuietIsNoLoop
  <2> QED
    BY <2>1, <1>1, WaitingInQueueNext DEF Waiting
<1>8. BindingsOK(bindings') /\ Calm(bindings, bindings') /\ waitQueue' \in Seq(WaitItem)
  BY <1>1, BindingsTyped, CalmSame DEF BaseInv, TypeOK
<1>9. BaseInv'
  BY <1>1, <1>2, <1>4, <1>5, <1>7, <1>8, BaseHoldsQueueing DEF Calm
<1>10. BookQuiet /\ LoanQuiet
  <2>1. \A r \in Reservations : ~StatusDue(r)
    BY <1>1, <1>2 DEF StatusDue
  <2> QED
    BY <2>1, <1>1, <1>8 DEF BookQuiet, LoanQuiet, Calm
<1> QED
  BY <1>1, <1>6, <1>9, <1>10

-----------------------------------------------------------------------------
(* Crash, restart, time *)

LEMMA CrashStep ==
  ASSUME BaseInv, Crash
  PROVE  /\ BaseInv' /\ up /\ ~up' /\ todo' = <<>>
         /\ \A c \in Callers : bindings'[c] = None
         /\ \A r \in Reservations : reservations'[r] = None
         /\ waitQueue' = <<>>
         /\ torn' = (torn \/ \E c \in Bound : bindings[c].reserved # bindingRow[c].reserved
                          \/ \E r \in Known : reservations[r].status # reservationRow[r].status)
         /\ UNCHANGED <<bindingRow, waitRows, reservationRow, now, rebound>>
<1>1. /\ up /\ up' = FALSE /\ todo' = <<>> /\ waitQueue' = <<>>
      /\ bindings' = [c \in Callers |-> None] /\ reservations' = [r \in Reservations |-> None]
      /\ UNCHANGED <<bindingRow, waitRows, reservationRow, now, rebound>>
  BY DEF Crash, tables
<1>2. AgendaInv' /\ todo' \in Seq(TaskType) /\ Tasks' = {}
  BY <1>1, AgendaIdle
<1>3. Waiting' = {}
  BY <1>1, <1>2, NoTasks DEF Waiting, Handled
<1>4. TypeOK'
  <2>1. /\ bindings' \in [Callers -> CallerBinding \cup {None}]
        /\ reservations' \in [Reservations -> QuotaReservation \cup {None}]
        /\ waitQueue' \in Seq(WaitItem)
    BY <1>1
  <2>2. up' \in BOOLEAN
    BY <1>1
  <2> QED
    BY <1>1, <1>2, <2>1, <2>2 DEF BaseInv, TypeOK
<1>5. BoundInv'
  BY <1>1, <1>3 DEF BaseInv, BoundInv
<1>6. UsedWithinLimit'
  BY <1>1 DEF BaseInv, UsedWithinLimit
<1>7. torn' = (torn \/ \E c \in Bound : bindings[c].reserved # bindingRow[c].reserved
                    \/ \E r \in Known : reservations[r].status # reservationRow[r].status)
  BY DEF Crash
<1> QED
  BY <1>1, <1>2, <1>4, <1>5, <1>6, <1>7 DEF BaseInv

LEMMA ReconciledFields ==
  ASSUME NEW b \in CallerBinding, Within(b), NEW d \in Reconciled(b)
  PROVE  d \in CallerBinding /\ SameTerms(b, d) /\ Within(d)
BY TickedFields DEF Reconciled, Ticked

LEMMA LoadedReservation ==
  ASSUME BaseInv, NEW r \in Reservations
  PROVE  /\ LoadReservation(r) # None =>
              /\ reservationRow[r] # None /\ LoadReservation(r) \in QuotaReservation
              /\ SameReservation(LoadReservation(r), reservationRow[r])
              /\ \/ LoadReservation(r).status = reservationRow[r].status
                 \/ /\ reservationRow[r].status = "active" /\ reservationRow[r].end < now
                    /\ LoadReservation(r).status = "completed"
         /\ reservationRow[r] # None /\ reservationRow[r].status \in {"pending", "active"} =>
              LoadReservation(r) # None
         /\ LoadReservation(r) # None => reservationRow[r].status \in {"pending", "active"}
         /\ LoadReservation(r) # None /\ LoadReservation(r).status = "active" =>
              reservationRow[r].status = "active" /\ ~(reservationRow[r].end < now)
<1>1. reservationRow[r] # None => reservationRow[r] \in QuotaReservation
  BY DEF BaseInv, TypeOK
<1> DEFINE row == reservationRow[r]
<1> DEFINE past == [row EXCEPT !.status = "completed"]
<1>2. row # None => /\ past \in QuotaReservation /\ SameReservation(past, row)
                    /\ past.status = "completed"
  BY <1>1 DEF QuotaReservation, SameReservation
<1>3. LoadReservation(r) = IF row = None \/ row.status \notin {"pending", "active"} THEN None
                           ELSE IF row.status = "active" /\ row.end < now THEN past ELSE row
  BY DEF LoadReservation
<1>4. SameReservation(row, row)
  BY DEF SameReservation
<1> HIDE DEF row, past
<1>5. row # None => row \in QuotaReservation
  BY <1>1 DEF row
<1>6. /\ LoadReservation(r) # None =>
           /\ row # None /\ LoadReservation(r) \in QuotaReservation
           /\ SameReservation(LoadReservation(r), row)
           /\ \/ LoadReservation(r).status = row.status
              \/ /\ row.status = "active" /\ row.end < now
                 /\ LoadReservation(r).status = "completed"
      /\ row # None /\ row.status \in {"pending", "active"} => LoadReservation(r) # None
      /\ LoadReservation(r) # None => row.status \in {"pending", "active"}
      /\ LoadReservation(r) # None /\ LoadReservation(r).status = "active" =>
           row.status = "active" /\ ~(row.end < now)
  BY <1>2, <1>3, <1>4, <1>5, NoneIsNone
<1> QED
  BY <1>6 DEF row

LEMMA StartStep ==
  ASSUME BaseInv, Start
  PROVE  /\ BaseInv' /\ ~up /\ up' /\ todo = <<>> /\ todo' = <<>>
         /\ \A c \in Callers : /\ bindings'[c] = None <=> bindingRow[c] = None
                               /\ bindingRow[c] # None => SameTerms(bindingRow[c], bindings'[c])
         /\ ToSet(waitQueue') = InTime(waitRows) /\ InOrder(waitQueue')
         /\ \A r \in Reservations : reservations'[r] = LoadReservation(r)
         /\ UNCHANGED <<bindingRow, waitRows, reservationRow, now, torn, rebound>>
<1>1. /\ ~up /\ up' /\ todo' = todo
      /\ UNCHANGED <<bindingRow, waitRows, reservationRow, now, torn, rebound>>
  BY DEF Start, tables, history
<1>2. todo = <<>>
  BY <1>1 DEF BaseInv, AgendaInv
<1>3. BindingsOK(bindingRow)
  BY BindingsTyped DEF BaseInv
<1>4. PICK bs :
        /\ \A c \in {x \in Callers : bindingRow[x] # None} : bs[c] \in Reconciled(bindingRow[c])
        /\ bindings' = [c \in Callers |-> IF c \in {x \in Callers : bindingRow[x] # None}
                                          THEN bs[c] ELSE None]
  BY DEF Start, LoadBindings
<1>5. ASSUME NEW c \in Callers
      PROVE  /\ bindingRow[c] = None => bindings'[c] = None
             /\ bindingRow[c] # None => /\ bindings'[c] \in CallerBinding /\ Within(bindings'[c])
                                        /\ SameTerms(bindingRow[c], bindings'[c])
  <2>1. bindingRow[c] = None => bindings'[c] = None
    BY <1>4
  <2>2. ASSUME bindingRow[c] # None
        PROVE  /\ bindings'[c] \in CallerBinding /\ Within(bindings'[c])
               /\ SameTerms(bindingRow[c], bindings'[c])
    <3>1. bindings'[c] = bs[c] /\ bs[c] \in Reconciled(bindingRow[c])
      BY <1>4, <2>2
    <3>2. bindingRow[c] \in CallerBinding /\ Within(bindingRow[c])
      BY <1>3, <2>2, OneBound
    <3> QED
      BY <3>1, <3>2, ReconciledFields
  <2> QED
    BY <2>1, <2>2
<1>6. \A c \in Callers : /\ bindings'[c] = None <=> bindingRow[c] = None
                         /\ bindingRow[c] # None => SameTerms(bindingRow[c], bindings'[c])
  BY <1>5, BindingFields
<1>7. BindingsOK(bindings')
  <2>1. bindings' = [c \in Callers |-> bindings'[c]]
    BY <1>4
  <2>2. \A c \in Callers : bindings'[c] \in CallerBinding \cup {None}
    BY <1>5
  <2> QED
    BY <2>1, <2>2, <1>5 DEF BindingsOK, Table
<1>8. /\ waitQueue' \in Seq(WaitItem) /\ ToSet(waitQueue') = InTime(waitRows) /\ InOrder(waitQueue')
  <2>1. PICK queue \in TupleOf(InTime(waitRows), Cardinality(InTime(waitRows))) :
          /\ ToSet(queue) = InTime(waitRows) /\ InOrder(queue)
          /\ waitQueue' = queue
    BY DEF Start, LoadWaitQueue
  <2>2. InTime(waitRows) \subseteq WaitItem
    BY DEF BaseInv, TypeOK, InTime
  <2>3. queue \in Seq(WaitItem)
    <3> DEFINE n == Cardinality(InTime(waitRows))
    <3>1. queue \in [1..n -> InTime(waitRows)]
      BY DEF TupleOf
    <3>2. n \in Nat
      <4>1. InTime(waitRows) \in SUBSET waitRows
        BY DEF InTime
      <4> QED
        BY <4>1, FS_Subset, FS_CardinalityType DEF BaseInv, TypeOK
    <3> QED
      BY <3>1, <3>2, <2>2
  <2> QED
    BY <2>1, <2>3
<1>9. ASSUME NEW r \in Reservations
      PROVE  /\ reservations'[r] = LoadReservation(r)
             /\ reservations'[r] \in QuotaReservation \cup {None}
             /\ reservations'[r] # None =>
                  /\ reservationRow[r] # None
                  /\ reservations'[r].caller = reservationRow[r].caller
  <2>1. reservations'[r] = LoadReservation(r)
    BY DEF Start, LoadReservations
  <2> QED
    BY <2>1, LoadedReservation DEF SameReservation
<1>10. reservations' \in [Reservations -> QuotaReservation \cup {None}]
  <2>1. reservations' = [r \in Reservations |-> LoadReservation(r)]
    BY DEF Start, LoadReservations
  <2> QED
    BY <2>1, <1>9
<1>11. AgendaInv' /\ todo' \in Seq(TaskType) /\ Tasks' = {} /\ Waiting' = ToSet(waitQueue')
  <2>1. todo' = <<>>
    BY <1>1, <1>2
  <2>2. AgendaInv' /\ todo' \in Seq(TaskType) /\ Tasks' = {}
    BY <2>1, AgendaIdle
  <2> QED
    BY <2>2, WaitingInQueueNext
<1>12. TypeOK'
  BY <1>1, <1>7, <1>8, <1>10, <1>11 DEF BaseInv, TypeOK, BindingsOK, Table
<1>13. BoundInv'
  <2>1. \A r \in Reservations : reservations'[r] # None =>
          bindings'[reservations'[r].caller] # None /\ reservationRow'[r] # None
    <3>1. SUFFICES ASSUME NEW r \in Reservations, reservations'[r] # None
                   PROVE  bindings'[reservations'[r].caller] # None /\ reservationRow'[r] # None
      OBVIOUS
    <3>2. reservationRow[r] # None /\ reservations'[r].caller = reservationRow[r].caller
      BY <3>1, <1>9
    <3>3. reservationRow[r].caller \in Callers /\ bindingRow[reservationRow[r].caller] # None
      BY <3>2, ReservationFields DEF BaseInv, TypeOK, BoundInv
    <3> QED
      BY <3>2, <3>3, <1>1, <1>6
  <2>2. \A item \in Waiting' : bindings'[item.caller] # None
    <3>1. SUFFICES ASSUME NEW item \in waitRows
                   PROVE  bindings'[item.caller] # None
      BY <1>8, <1>11 DEF InTime
    <3>2. item.caller \in Callers /\ bindingRow[item.caller] # None
      BY DEF BaseInv, TypeOK, BoundInv, WaitItem
    <3> QED
      BY <3>2, <1>6
  <2> QED
    BY <1>1, <1>6, <2>1, <2>2 DEF BaseInv, BoundInv
<1>14. UsedWithinLimit'
  BY <1>1, <1>7, <1>3 DEF UsedWithinLimit, BindingsOK, Within
<1> QED
  BY <1>1, <1>2, <1>6, <1>8, <1>9, <1>11, <1>12, <1>13, <1>14 DEF BaseInv

LEMMA ElapseStep ==
  ASSUME BaseInv, Elapse
  PROVE  /\ BaseInv' /\ todo = <<>> /\ todo' = <<>> /\ now' = now + 1
         /\ UNCHANGED <<bindings, waitQueue, reservations, bindingRow, waitRows, reservationRow,
                        up, torn, rebound>>
<1>1. /\ todo = <<>> /\ todo' = <<>> /\ now' = now + 1
      /\ UNCHANGED <<bindings, waitQueue, reservations, bindingRow, waitRows, reservationRow,
                     up, torn, rebound>>
  BY DEF Elapse, memory, tables, history
<1>2. AgendaInv' /\ todo' \in Seq(TaskType) /\ Tasks' = {}
  BY <1>1, AgendaIdle
<1>3. Waiting' = Waiting
  <2>1. Waiting = ToSet(waitQueue)
    BY <1>1, NoTasksNow
  <2>2. Waiting' = ToSet(waitQueue')
    BY <1>2, WaitingInQueueNext
  <2> QED
    BY <2>1, <2>2, <1>1
<1>4. TypeOK'
  BY <1>1, <1>2 DEF BaseInv, TypeOK
<1>5. BoundInv'
  BY <1>1, <1>3 DEF BaseInv, BoundInv
<1>6. UsedWithinLimit'
  BY <1>1 DEF BaseInv, UsedWithinLimit
<1> QED
  BY <1>1, <1>2, <1>4, <1>5, <1>6 DEF BaseInv


-----------------------------------------------------------------------------
(* What a step can be, for the loans, for the reservations and for the     *)
(* queue                                                                   *)

LoanMade ==
  \E f, t \in Callers, n \in Int :
    NewLoan(f, t, n) /\ \/ n >= 0 /\ todo' = <<WriteBinding(f), WriteBinding(t)>>
                        \/ n <= 0 /\ todo' = <<WriteBinding(t), WriteBinding(f)>>
BoundAnew == \E c \in Callers, p \in Policies, q \in Quotas : BindCaller(c, p, q)
Reserving ==
  \E r \in Reservations, p \in Policies, c \in Callers, n \in Amounts, start, end \in Int :
    CreateReservation(r, p, c, n, start, end)
Marking ==
  \E r \in Reservations :
    CancelReservation(r) \/ ActivateReservation(r) \/ CompleteReservation(r)
Enqueuing == \E c \in Callers, n \in Amounts, w \in Waits : Enqueue(c, n, w)

LoanStep == LoanQuiet \/ LoanMade \/ UpdateCallerBinding \/ BoundAnew \/ Crash \/ Start
BookStep ==
  \/ BookQuiet \/ Reserving \/ Marking \/ UpdateReservationStatus \/ BoundAnew
  \/ Crash \/ Start \/ Elapse
QueueStep ==
  \/ QueueQuiet \/ Enqueuing \/ RefillTick \/ CleanUp \/ CleanedUp \/ Refill \/ GrantFromQueue
  \/ GrantDone \/ RemoveWaitItem \/ Crash \/ Start \/ Elapse

LEMMA ElapseQuiet ==
  ASSUME BaseInv, Elapse
  PROVE  LoanQuiet
BY ElapseStep, CalmSame DEF LoanQuiet, Calm

LEMMA RequestsStep ==
  ASSUME BaseInv, Requests
  PROVE  BaseInv' /\ LoanStep /\ BookStep /\ QueueStep
<1>1. CASE \E p \in Policies, a \in Algorithms : CreatePolicy(p, a)
  BY <1>1, CreatePolicyStep DEF LoanStep, BookStep, QueueStep
<1>2. CASE \E c \in Callers, p \in Policies, q \in Quotas : BindCaller(c, p, q)
  <2>1. BoundAnew
    BY <1>2 DEF BoundAnew
  <2>2. BaseInv' /\ QueueQuiet
    BY <1>2, BindCallerStep
  <2> QED
    BY <2>1, <2>2 DEF LoanStep, BookStep, QueueStep
<1>3. CASE \E c \in Callers, q \in NewQuotas : AdjustQuota(c, q)
  BY <1>3, AdjustQuotaStep DEF LoanStep, BookStep, QueueStep
<1>4. CASE \E c \in Callers, n \in Amounts : RequestTokens(c, n)
  BY <1>4, RequestTokensStep DEF LoanStep, BookStep, QueueStep
<1>5. CASE \E c \in Callers, n \in Amounts : ReturnTokens(c, n)
  BY <1>5, ReturnTokensStep DEF LoanStep, BookStep, QueueStep
<1>6. CASE \E c \in Callers, n \in Amounts, w \in Waits : Enqueue(c, n, w)
  <2>1. Enqueuing
    BY <1>6 DEF Enqueuing
  <2>2. BaseInv' /\ BookQuiet /\ LoanQuiet
    BY <1>6, EnqueueStep
  <2> QED
    BY <2>1, <2>2 DEF LoanStep, BookStep, QueueStep
<1>7. CASE \E c, d \in Callers, n \in Amounts : BorrowQuota(c, d, n)
  <2>1. PICK c \in Callers, d \in Callers, n \in Amounts : BorrowQuota(c, d, n)
    BY <1>7
  <2>2. /\ BaseInv' /\ QueueQuiet /\ BookQuiet
        /\ \/ LoanQuiet
           \/ NewLoan(c, d, n) /\ todo' = <<WriteBinding(c), WriteBinding(d)>>
    BY <2>1, BorrowQuotaStep
  <2>3. LoanQuiet \/ LoanMade
    <3>1. n \in Int /\ n >= 0
      BY InputsAssumption
    <3>2. NewLoan(c, d, n) /\ todo' = <<WriteBinding(c), WriteBinding(d)>> => LoanMade
      BY <3>1 DEF LoanMade
    <3> QED
      BY <2>2, <3>2
  <2> QED
    BY <2>2, <2>3 DEF LoanStep, BookStep, QueueStep
<1>8. CASE \E c, d \in Callers, n \in Amounts : ReturnQuota(c, d, n)
  <2>1. PICK c \in Callers, d \in Callers, n \in Amounts : ReturnQuota(c, d, n)
    BY <1>8
  <2>2. /\ BaseInv' /\ QueueQuiet /\ BookQuiet
        /\ NewLoan(d, c, -n) /\ todo' = <<WriteBinding(c), WriteBinding(d)>>
    BY <2>1, ReturnQuotaStep
  <2>3. -n \in Int /\ -n <= 0
    BY InputsAssumption
  <2>4. LoanMade
    BY <2>2, <2>3 DEF LoanMade
  <2> QED
    BY <2>2, <2>4 DEF LoanStep, BookStep, QueueStep
<1>9. CASE \E c \in Callers, r \in Reservations, p \in Policies, n \in Amounts, a \in Starts,
             b \in Lengths : CreateReservation(r, p, c, n, now + a, now + a + b)
  <2>1. PICK c \in Callers, r \in Reservations, p \in Policies, n \in Amounts, a \in Starts,
             b \in Lengths : CreateReservation(r, p, c, n, now + a, now + a + b)
    BY <1>9
  <2>2. now + a \in Int /\ now + a + b \in Int
    BY InputsAssumption DEF BaseInv, TypeOK
  <2>3. Reserving
    BY <2>1, <2>2 DEF Reserving
  <2>4. BaseInv' /\ QueueQuiet /\ LoanQuiet
    BY <2>1, <2>2, CreateReservationStep
  <2> QED
    BY <2>3, <2>4 DEF LoanStep, BookStep, QueueStep
<1>10. CASE \E c \in Callers : GetCallerStatus(c)
  BY <1>10, GetCallerStatusStep DEF LoanStep, BookStep, QueueStep
<1>11. CASE \E r \in Reservations : CancelReservation(r)
  <2>1. Marking
    BY <1>11 DEF Marking
  <2>2. BaseInv' /\ QueueQuiet /\ LoanQuiet
    BY <1>11, CancelReservationStep
  <2> QED
    BY <2>1, <2>2 DEF LoanStep, BookStep, QueueStep
<1> QED
  BY <1>1, <1>2, <1>3, <1>4, <1>5, <1>6, <1>7, <1>8, <1>9, <1>10, <1>11, Zenon DEF Requests

LEMMA StepsStep ==
  ASSUME BaseInv, Steps
  PROVE  BaseInv' /\ LoanStep /\ BookStep /\ QueueStep
<1>1. CASE UpdateCallerBinding
  BY <1>1, UpdateCallerBindingStep DEF LoanStep, BookStep, QueueStep
<1>2. CASE UpdateReservationStatus
  BY <1>2, UpdateReservationStatusStep DEF LoanStep, BookStep, QueueStep
<1>3. CASE RemoveWaitItem
  BY <1>3, RemoveWaitItemStep DEF LoanStep, BookStep, QueueStep
<1>4. CASE CleanUp
  BY <1>4, CleanUpStep DEF LoanStep, BookStep, QueueStep
<1>5. CASE CleanedUp
  BY <1>5, CleanedUpStep DEF LoanStep, BookStep, QueueStep
<1>6. CASE Look
  BY <1>6, LookStep DEF LoanStep, BookStep, QueueStep
<1>7. CASE ReservationsDone
  BY <1>7, ReservationsDoneStep DEF LoanStep, BookStep, QueueStep
<1>8. CASE Refill
  BY <1>8, RefillStep DEF LoanStep, BookStep, QueueStep
<1>9. CASE GrantFromQueue
  BY <1>9, GrantFromQueueStep DEF LoanStep, BookStep, QueueStep
<1>10. CASE GrantDone
  BY <1>10, GrantDoneStep DEF LoanStep, BookStep, QueueStep
<1>11. CASE \E r \in Reservations : ActivateReservation(r)
  <2>1. Marking
    BY <1>11 DEF Marking
  <2>2. BaseInv' /\ QueueQuiet /\ LoanQuiet
    BY <1>11, ActivateReservationStep
  <2> QED
    BY <2>1, <2>2 DEF LoanStep, BookStep, QueueStep
<1>12. CASE \E r \in Reservations : CompleteReservation(r)
  <2>1. Marking
    BY <1>12 DEF Marking
  <2>2. BaseInv' /\ QueueQuiet /\ LoanQuiet
    BY <1>12, CompleteReservationStep
  <2> QED
    BY <2>1, <2>2 DEF LoanStep, BookStep, QueueStep
<1> QED
  BY <1>1, <1>2, <1>3, <1>4, <1>5, <1>6, <1>7, <1>8, <1>9, <1>10, <1>11, <1>12, Zenon DEF Steps

LEMMA NextStep ==
  ASSUME BaseInv, Next
  PROVE  BaseInv' /\ LoanStep /\ BookStep /\ QueueStep
<1>1. CASE Requests
  BY <1>1, RequestsStep
<1>2. CASE RefillTick
  BY <1>2, RefillTickStep DEF LoanStep, BookStep, QueueStep
<1>3. CASE Steps
  BY <1>3, StepsStep
<1>4. CASE Crash
  BY <1>4, CrashStep DEF LoanStep, BookStep, QueueStep
<1>5. CASE Start
  BY <1>5, StartStep DEF LoanStep, BookStep, QueueStep
<1>6. CASE Elapse
  BY <1>6, ElapseStep, ElapseQuiet DEF LoanStep, BookStep, QueueStep
<1> QED
  BY <1>1, <1>2, <1>3, <1>4, <1>5, <1>6 DEF Next

LEMMA BaseStutters ==
  ASSUME BaseInv, UNCHANGED vars
  PROVE  BaseInv'
<1>1. /\ UNCHANGED <<bindings, waitQueue, reservations, bindingRow, waitRows, reservationRow,
                     now, up, todo>>
      /\ StillThere
  BY DEF vars, memory, tables, StillThere, Known
<1>2. AgendaInv'
  BY <1>1, AgendaSame DEF BaseInv
<1>3. Waiting' = Waiting /\ TypeOK'
  BY <1>1 DEF BaseInv, TypeOK, Waiting, Handled, Tasks
<1>4. BoundInv'
  BY <1>1, <1>3 DEF BaseInv, BoundInv
<1>5. UsedWithinLimit'
  BY <1>1 DEF BaseInv, UsedWithinLimit
<1> QED
  BY <1>2, <1>3, <1>4, <1>5 DEF BaseInv

LEMMA InitBase ==
  ASSUME Init
  PROVE  BaseInv
<1>1. todo = <<>> /\ waitQueue = <<>> /\ up = TRUE /\ now = 0 /\ waitRows = {}
      /\ bindings = [c \in Callers |-> None] /\ bindingRow = bindings
      /\ reservations = [r \in Reservations |-> None] /\ reservationRow = reservations
  BY DEF Init
<1>2. TypeOK
  <2>1. IsFiniteSet({})
    BY FS_EmptySet
  <2> QED
    BY <1>1, <2>1 DEF TypeOK
<1>3. Tasks = {} /\ Waiting = {} /\ Ordered(todo)
  BY <1>1, NoTasks DEF Tasks, Waiting, Handled
<1>4. AgendaInv
  BY <1>1, <1>3 DEF AgendaInv
<1>5. BoundInv
  BY <1>1, <1>3 DEF BoundInv
<1>6. UsedWithinLimit
  BY <1>1 DEF UsedWithinLimit
<1> QED
  BY <1>2, <1>4, <1>5, <1>6 DEF BaseInv

LEMMA BaseAlways == Spec => []BaseInv
<1>1. Init => BaseInv
  BY InitBase
<1>2. BaseInv /\ [Next]_vars => BaseInv'
  BY NextStep, BaseStutters
<1> QED
  BY <1>1, <1>2, PTL DEF Spec

(* Nobody has spent more than it may, neither in memory nor in the rows a  *)
(* restart starts from: manager.go cuts what is used to the limit wherever *)
(* it lowers the limit (lines 398-403, 833-836, 908-910, 957-960 and       *)
(* 1213-1216), and grants only what fits.                                  *)
THEOREM SpentCorrect == Spec => []UsedWithinLimit
BY BaseAlways, PTL DEF BaseInv


-----------------------------------------------------------------------------
(* Loans *)

AllBorrowed(bs) == SumFunctionOnSet(BorrowedOf(bs), Callers)
AllLent(bs) == SumFunctionOnSet(LentOf(bs), Callers)
Covered(bs) == AllBorrowed(bs) <= AllLent(bs)

LEMMA LoansOfOne ==
  ASSUME NEW bs, BindingsOK(bs), NEW c \in Callers
  PROVE  /\ BorrowedOf(bs)[c] \in Nat /\ LentOf(bs)[c] \in Nat
         /\ bs[c] = None => BorrowedOf(bs)[c] = 0 /\ LentOf(bs)[c] = 0
         /\ bs[c] # None => BorrowedOf(bs)[c] = bs[c].borrowed /\ LentOf(bs)[c] = bs[c].lent
<1>1. /\ bs[c] = None => BorrowedOf(bs)[c] = 0 /\ LentOf(bs)[c] = 0
      /\ bs[c] # None => BorrowedOf(bs)[c] = bs[c].borrowed /\ LentOf(bs)[c] = bs[c].lent
  BY DEF BorrowedOf, LentOf
<1>2. bs[c] # None => bs[c].borrowed \in Nat /\ bs[c].lent \in Nat
  BY OneBound, BindingFields
<1> QED
  BY <1>1, <1>2

LEMMA LoansTyped ==
  ASSUME NEW bs, BindingsOK(bs)
  PROVE  AllBorrowed(bs) \in Int /\ AllLent(bs) \in Int
<1>1. \A c \in Callers : BorrowedOf(bs)[c] \in Int /\ LentOf(bs)[c] \in Int
  BY LoansOfOne
<1> QED
  BY <1>1, SumInt, BoundsAssumption DEF AllBorrowed, AllLent

LEMMA LoansCovered ==
  BorrowedIsLent <=> (~rebound => Covered(bindings) /\ Covered(bindingRow))
BY DEF BorrowedIsLent, Covered, AllBorrowed, AllLent

LEMMA LoansAgree ==
  ASSUME NEW bs, NEW cs, BindingsOK(bs), BindingsOK(cs),
         \A c \in Callers : /\ BorrowedOf(cs)[c] = BorrowedOf(bs)[c]
                            /\ LentOf(cs)[c] = LentOf(bs)[c]
  PROVE  AllBorrowed(cs) = AllBorrowed(bs) /\ AllLent(cs) = AllLent(bs)
BY SumSame, BoundsAssumption DEF AllBorrowed, AllLent

LEMMA LoansUnmoved ==
  ASSUME NEW bs, NEW cs, BindingsOK(bs), BindingsOK(cs), SameBound(bs, cs), SameLoans(bs, cs)
  PROVE  AllBorrowed(cs) = AllBorrowed(bs) /\ AllLent(cs) = AllLent(bs)
<1>1. ASSUME NEW c \in Callers
      PROVE  BorrowedOf(cs)[c] = BorrowedOf(bs)[c] /\ LentOf(cs)[c] = LentOf(bs)[c]
  <2>1. CASE bs[c] = None
    BY <2>1, LoansOfOne DEF SameBound
  <2>2. CASE bs[c] # None
    <3>1. cs[c] # None /\ cs[c].borrowed = bs[c].borrowed /\ cs[c].lent = bs[c].lent
      BY <2>2 DEF SameBound, SameLoans, SameLoan
    <3> QED
      BY <2>2, <3>1, LoansOfOne
  <2> QED
    BY <2>1, <2>2
<1> QED
  BY <1>1, LoansAgree

(* One caller's loans change. *)
LEMMA LoansOfOneChanged ==
  ASSUME NEW bs, NEW cs, BindingsOK(bs), BindingsOK(cs), NEW f \in Callers, NEW t \in Callers,
         \A c \in Callers \ {t} : BorrowedOf(cs)[c] = BorrowedOf(bs)[c],
         \A c \in Callers \ {f} : LentOf(cs)[c] = LentOf(bs)[c]
  PROVE  /\ AllBorrowed(cs) = AllBorrowed(bs) - BorrowedOf(bs)[t] + BorrowedOf(cs)[t]
         /\ AllLent(cs) = AllLent(bs) - LentOf(bs)[f] + LentOf(cs)[f]
<1>1. \A c \in Callers : /\ BorrowedOf(bs)[c] \in Int /\ LentOf(bs)[c] \in Int
                         /\ BorrowedOf(cs)[c] \in Int /\ LentOf(cs)[c] \in Int
  BY LoansOfOne
<1>2. AllBorrowed(cs) = AllBorrowed(bs) - BorrowedOf(bs)[t] + BorrowedOf(cs)[t]
  BY <1>1, SumChanged, BoundsAssumption DEF AllBorrowed
<1>3. AllLent(cs) = AllLent(bs) - LentOf(bs)[f] + LentOf(cs)[f]
  BY <1>1, SumChanged, BoundsAssumption DEF AllLent
<1> QED
  BY <1>2, <1>3

LEMMA LoanCovered ==
  ASSUME NEW bs, NEW cs, BindingsOK(bs), BindingsOK(cs), NEW f \in Callers, NEW t \in Callers,
         NEW n \in Int, bs[f] # None, bs[t] # None, SameBound(bs, cs), Loaned(bs, cs, f, t, n),
         Covered(bs)
  PROVE  Covered(cs)
<1>1. ASSUME NEW c \in Callers
      PROVE  /\ c # t => BorrowedOf(cs)[c] = BorrowedOf(bs)[c]
             /\ c # f => LentOf(cs)[c] = LentOf(bs)[c]
             /\ c = t => BorrowedOf(cs)[c] = BorrowedOf(bs)[c] + n
             /\ c = f => LentOf(cs)[c] = LentOf(bs)[c] + n
  <2>1. CASE bs[c] = None
    <3>1. cs[c] = None /\ c # t /\ c # f
      BY <2>1 DEF SameBound
    <3> QED
      BY <2>1, <3>1, LoansOfOne
  <2>2. CASE bs[c] # None
    <3>1. cs[c] # None
      BY <2>2 DEF SameBound
    <3>2. /\ cs[c].borrowed = bs[c].borrowed + IF c = t THEN n ELSE 0
          /\ cs[c].lent = bs[c].lent + IF c = f THEN n ELSE 0
      BY <2>2 DEF Loaned
    <3>3. bs[c].borrowed \in Nat /\ bs[c].lent \in Nat
      BY <2>2, OneBound, BindingFields
    <3> QED
      BY <2>2, <3>1, <3>2, <3>3, LoansOfOne
  <2> QED
    BY <2>1, <2>2
<1>2. /\ AllBorrowed(cs) = AllBorrowed(bs) - BorrowedOf(bs)[t] + BorrowedOf(cs)[t]
      /\ AllLent(cs) = AllLent(bs) - LentOf(bs)[f] + LentOf(cs)[f]
  BY <1>1, LoansOfOneChanged
<1>3. /\ BorrowedOf(bs)[t] \in Nat /\ LentOf(bs)[f] \in Nat
      /\ AllBorrowed(bs) \in Int /\ AllLent(bs) \in Int
  BY LoansOfOne, LoansTyped
<1> QED
  BY <1>1, <1>2, <1>3 DEF Covered

(* Every step *)

LoansFacts ==
  BindingsOK(bindings) /\ BindingsOK(bindingRow)
    /\ (~rebound => LoansInv /\ Covered(bindings) /\ Covered(bindingRow))

LEMMA LoansKnown ==
  ASSUME BaseInv, LoansInv
  PROVE  LoansFacts
<1>1. BindingsOK(bindings) /\ BindingsOK(bindingRow)
  BY BindingsTyped DEF BaseInv
<1>2. ~rebound => Covered(bindings) /\ Covered(bindingRow)
  BY LoansCovered DEF LoansInv
<1> QED
  BY <1>1, <1>2 DEF LoansFacts

LEMMA BindingsTypedNext ==
  ASSUME BaseInv'
  PROVE  BindingsOK(bindings') /\ BindingsOK(bindingRow')
BY DEF BaseInv, TypeOK, UsedWithinLimit, BindingsOK, Table, Within

LEMMA LoansQuietly ==
  ASSUME BaseInv, LoansInv, BaseInv', LoanQuiet, ~rebound'
  PROVE  /\ Covered(bindings') /\ Covered(bindingRow')
         /\ \A c \in Callers : Agrees(c)'
<1>1. /\ SameBound(bindings, bindings') /\ SameLoans(bindings, bindings')
      /\ bindingRow' = bindingRow /\ ~rebound
      /\ todo # <<>> => Task.do # "binding"
  <2>1. rebound' = rebound
    BY DEF LoanQuiet
  <2> QED
    BY <2>1 DEF LoanQuiet
<1>2. /\ BindingsOK(bindings) /\ BindingsOK(bindings')
      /\ Covered(bindings) /\ Covered(bindingRow)
  BY <1>1, LoansKnown, BindingsTypedNext DEF LoansFacts
<1>3. Covered(bindings')
  BY <1>1, <1>2, LoansUnmoved DEF Covered
<1>4. \A c \in Callers : Agrees(c)
  <2>1. ASSUME NEW f \in Callers, NEW t, todo = <<WriteBinding(f), t>>
        PROVE  FALSE
    BY <2>1, <1>1 DEF WriteBinding, Task
  <2>2. ASSUME NEW f \in Callers, todo = <<WriteBinding(f)>>
        PROVE  FALSE
    BY <2>2, <1>1 DEF WriteBinding, Task
  <2> QED
    BY <1>1, <2>1, <2>2 DEF LoansInv
<1>5. ASSUME NEW c \in Callers
      PROVE  Agrees(c)'
  <2>1. SUFFICES ASSUME bindings'[c] # None
                 PROVE  /\ bindingRow[c].borrowed = bindings'[c].borrowed
                        /\ bindingRow[c].lent = bindings'[c].lent
    BY <1>1 DEF Agrees
  <2>2. bindings[c] # None /\ SameLoan(bindings[c], bindings'[c])
    BY <1>1, <2>1 DEF SameBound, SameLoans
  <2> QED
    BY <1>4, <2>2 DEF Agrees, SameLoan
<1> QED
  BY <1>1, <1>2, <1>3, <1>5

LEMMA LoansMade ==
  ASSUME BaseInv, LoansInv, BaseInv', LoanMade, ~rebound'
  PROVE  LoansInv'
<1>1. PICK f \in Callers, t \in Callers, n \in Int :
        NewLoan(f, t, n) /\ \/ n >= 0 /\ todo' = <<WriteBinding(f), WriteBinding(t)>>
                            \/ n <= 0 /\ todo' = <<WriteBinding(t), WriteBinding(f)>>
  BY DEF LoanMade
<1>2. /\ todo = <<>> /\ SameBound(bindings, bindings') /\ Loaned(bindings, bindings', f, t, n)
      /\ bindingRow' = bindingRow /\ rebound' = rebound
  BY <1>1 DEF NewLoan
<1>3. ~rebound
  BY <1>2
<1>4. /\ BindingsOK(bindings) /\ BindingsOK(bindings') /\ BindingsOK(bindingRow)
      /\ Covered(bindings) /\ Covered(bindingRow)
  BY <1>3, LoansKnown, BindingsTypedNext DEF LoansFacts
<1>5. \A c \in Callers : Agrees(c)
  BY <1>2, <1>3 DEF LoansInv
<1>6. WriteBinding(f) \in Tasks' /\ WriteBinding(t) \in Tasks'
  <2>1. CASE todo' = <<WriteBinding(f), WriteBinding(t)>>
    BY <2>1, WritesAreTasks, TasksAlone DEF Tasks, Before
  <2>2. CASE todo' = <<WriteBinding(t), WriteBinding(f)>>
    BY <2>2, WritesAreTasks, TasksAlone DEF Tasks, Before
  <2> QED
    BY <1>1, <2>1, <2>2
<1>7. bindings[f] # None /\ bindings[t] # None
  <2>1. bindings'[f] # None /\ bindings'[t] # None
    BY <1>6 DEF BaseInv, AgendaInv, Ready, IsBound, WriteBinding
  <2> QED
    BY <2>1, <1>2 DEF SameBound
<1>8. Covered(bindings') /\ Covered(bindingRow')
  BY <1>2, <1>4, <1>7, LoanCovered
<1>9. BorrowedIsLent'
  BY <1>8 DEF BorrowedIsLent, Covered, AllBorrowed, AllLent
<1>10. ASSUME NEW c \in Callers \ {f, t}
       PROVE  Agrees(c)'
  <2>1. SUFFICES ASSUME bindings'[c] # None
                 PROVE  /\ bindingRow[c].borrowed = bindings'[c].borrowed
                        /\ bindingRow[c].lent = bindings'[c].lent
    BY <1>2 DEF Agrees
  <2>2. bindings[c] # None
    BY <1>2, <2>1 DEF SameBound
  <2>3. bindings'[c].borrowed = bindings[c].borrowed + 0 /\ bindings'[c].lent = bindings[c].lent + 0
    BY <1>2, <2>2 DEF Loaned
  <2>4. bindings[c].borrowed \in Nat /\ bindings[c].lent \in Nat
    BY <1>4, <2>2, OneBound, BindingFields
  <2> QED
    BY <1>5, <2>2, <2>3, <2>4 DEF Agrees
<1>11. ASSUME NEW c \in {f, t}, (c = f /\ n >= 0) \/ (c = t /\ n <= 0)
       PROVE  bindings'[c].borrowed - bindingRow[c].borrowed
                <= bindings'[c].lent - bindingRow[c].lent
  <2>1. c \in Callers /\ bindings[c] # None
    BY <1>7
  <2>2. /\ bindings'[c].borrowed = bindings[c].borrowed + IF c = t THEN n ELSE 0
        /\ bindings'[c].lent = bindings[c].lent + IF c = f THEN n ELSE 0
    BY <1>2, <2>1 DEF Loaned
  <2>3. bindings[c].borrowed \in Nat /\ bindings[c].lent \in Nat
    BY <1>4, <2>1, OneBound, BindingFields
  <2>4. bindingRow[c].borrowed = bindings[c].borrowed /\ bindingRow[c].lent = bindings[c].lent
    BY <1>5, <2>1 DEF Agrees
  <2> QED
    BY <1>11, <2>2, <2>3, <2>4
<1>12. CASE n >= 0 /\ todo' = <<WriteBinding(f), WriteBinding(t)>>
  <2>1. bindings'[f].borrowed - bindingRow'[f].borrowed <= bindings'[f].lent - bindingRow'[f].lent
    BY <1>2, <1>11, <1>12
  <2> QED
    BY <1>9, <1>10, <1>12, <2>1 DEF LoansInv
<1>13. CASE n <= 0 /\ todo' = <<WriteBinding(t), WriteBinding(f)>>
  <2>1. bindings'[t].borrowed - bindingRow'[t].borrowed <= bindings'[t].lent - bindingRow'[t].lent
    BY <1>2, <1>11, <1>13
  <2>2. \A c \in Callers \ {t, f} : Agrees(c)'
    BY <1>10
  <2> QED
    BY <1>9, <1>13, <2>1, <2>2 DEF LoansInv
<1> QED
  BY <1>1, <1>12, <1>13


LEMMA LoansWritten ==
  ASSUME BaseInv, LoansInv, BaseInv', UpdateCallerBinding, ~rebound'
  PROVE  LoansInv'
<1>1. /\ Task.caller \in Callers /\ IsBound(Task.caller)
      /\ bindingRow' = [bindingRow EXCEPT ![Task.caller] = bindings[Task.caller]]
      /\ bindings' = bindings /\ todo' = Tail(todo) /\ todo # <<>> /\ rebound' = rebound
  BY UpdateCallerBindingStep DEF BookQuiet
<1>2. ~rebound
  BY <1>1
<1>3. PICK x : x = Task.caller
  OBVIOUS
<1>4. /\ x \in Callers /\ bindings[x] # None /\ bindingRow'[x] = bindings[x]
      /\ \A c \in Callers \ {x} : bindingRow'[c] = bindingRow[c]
  BY <1>1, <1>3 DEF IsBound, BaseInv, TypeOK
<1>5. /\ BindingsOK(bindings) /\ BindingsOK(bindingRow) /\ BindingsOK(bindingRow')
      /\ Covered(bindings) /\ Covered(bindingRow)
  BY <1>2, LoansKnown, BindingsTypedNext DEF LoansFacts
<1>6. ASSUME NEW c \in Callers, Agrees(c) \/ c = x
      PROVE  Agrees(c)'
  <2>1. bindings[c] # None => bindingRow'[c].borrowed = bindings[c].borrowed
                              /\ bindingRow'[c].lent = bindings[c].lent
    BY <1>4, <1>6 DEF Agrees
  <2> QED
    BY <1>1, <2>1 DEF Agrees
<1>7. ASSUME \A c \in Callers : Agrees(c)'
      PROVE  LoansInv'
  <2>1. ASSUME NEW c \in Callers
        PROVE  BorrowedOf(bindingRow')[c] = BorrowedOf(bindings)[c]
               /\ LentOf(bindingRow')[c] = LentOf(bindings)[c]
    <3>1. bindings[c] # None <=> bindingRow'[c] # None
      BY <1>1, AllBound DEF BaseInv, BoundInv, UpdateCallerBinding, AgendaInv
    <3>2. bindings[c] # None => bindingRow'[c].borrowed = bindings[c].borrowed
                                /\ bindingRow'[c].lent = bindings[c].lent
      BY <1>1, <1>7 DEF Agrees
    <3> QED
      BY <1>5, <3>1, <3>2, LoansOfOne
  <2>2. Covered(bindingRow') /\ Covered(bindings')
    BY <1>1, <1>5, <2>1, LoansAgree DEF Covered
  <2>3. BorrowedIsLent'
    BY <2>2 DEF BorrowedIsLent, Covered, AllBorrowed, AllLent
  <2> QED
    BY <1>7, <2>3 DEF LoansInv
<1>8. CASE \A c \in Callers : Agrees(c)
  BY <1>6, <1>7, <1>8
<1>9. CASE \E f, t \in Callers :
             /\ todo = <<WriteBinding(f), WriteBinding(t)>>
             /\ \A c \in Callers \ {f, t} : Agrees(c)
             /\ bindings[f].borrowed - bindingRow[f].borrowed
                  <= bindings[f].lent - bindingRow[f].lent
  <2>1. PICK f \in Callers, t \in Callers :
             /\ todo = <<WriteBinding(f), WriteBinding(t)>>
             /\ \A c \in Callers \ {f, t} : Agrees(c)
             /\ bindings[f].borrowed - bindingRow[f].borrowed
                  <= bindings[f].lent - bindingRow[f].lent
    BY <1>9
  <2>2. x = f
    BY <1>3, <2>1 DEF Task, WriteBinding
  <2>3. todo' = <<WriteBinding(t)>>
    BY <1>1, <2>1
  <2>4. \A c \in Callers \ {t} : Agrees(c)'
    BY <1>6, <2>1, <2>2
  <2>5. Covered(bindingRow')
    <3>1. bindingRow[f] # None /\ bindingRow'[f] # None
      BY <1>4, <2>2 DEF BaseInv, BoundInv
    <3>2. \A c \in Callers \ {f} : /\ BorrowedOf(bindingRow')[c] = BorrowedOf(bindingRow)[c]
                                   /\ LentOf(bindingRow')[c] = LentOf(bindingRow)[c]
      BY <1>4, <2>2 DEF BorrowedOf, LentOf
    <3>3. /\ AllBorrowed(bindingRow') =
               AllBorrowed(bindingRow) - BorrowedOf(bindingRow)[f] + BorrowedOf(bindingRow')[f]
          /\ AllLent(bindingRow') =
               AllLent(bindingRow) - LentOf(bindingRow)[f] + LentOf(bindingRow')[f]
      BY <1>5, <3>2, LoansOfOneChanged
    <3>4. /\ BorrowedOf(bindingRow)[f] = bindingRow[f].borrowed
          /\ LentOf(bindingRow)[f] = bindingRow[f].lent
          /\ BorrowedOf(bindingRow')[f] = bindings[f].borrowed
          /\ LentOf(bindingRow')[f] = bindings[f].lent
      BY <1>4, <1>5, <2>2, <3>1, LoansOfOne
    <3>5. /\ bindings[f].borrowed \in Nat /\ bindings[f].lent \in Nat
          /\ bindingRow[f].borrowed \in Nat /\ bindingRow[f].lent \in Nat
      BY <1>4, <1>5, <2>2, <3>1, OneBound, BindingFields
    <3>6. AllBorrowed(bindingRow) \in Int /\ AllLent(bindingRow) \in Int
      BY <1>5, LoansTyped
    <3> QED
      BY <1>5, <2>1, <3>3, <3>4, <3>5, <3>6 DEF Covered
  <2>6. BorrowedIsLent'
    BY <1>1, <1>5, <2>5 DEF BorrowedIsLent, Covered, AllBorrowed, AllLent
  <2> QED
    BY <2>3, <2>4, <2>6 DEF LoansInv
<1>10. CASE \E t \in Callers :
              /\ todo = <<WriteBinding(t)>>
              /\ \A c \in Callers \ {t} : Agrees(c)
  <2>1. PICK t \in Callers : /\ todo = <<WriteBinding(t)>>
                             /\ \A c \in Callers \ {t} : Agrees(c)
    BY <1>10
  <2>2. x = t
    BY <1>3, <2>1 DEF Task, WriteBinding
  <2> QED
    BY <1>6, <1>7, <2>1, <2>2
<1> QED
  BY <1>2, <1>8, <1>9, <1>10 DEF LoansInv

LEMMA LoansBound ==
  ASSUME BaseInv, LoansInv, BaseInv', BoundAnew, ~rebound'
  PROVE  LoansInv'
<1>1. PICK x \in Callers, p \in Policies, q \in Quotas : BindCaller(x, p, q)
  BY DEF BoundAnew
<1>2. /\ up /\ todo = <<>>
      /\ bindings' = [bindings EXCEPT ![x] = Fresh(p, q)]
      /\ bindingRow' = [bindingRow EXCEPT ![x] = Fresh(p, q)]
      /\ rebound' = (rebound \/ IsBound(x))
  BY <1>1, BindCallerStep
<1>3. ~rebound /\ bindings[x] = None
  BY <1>2 DEF IsBound
<1>4. bindingRow[x] = None
  BY <1>2, <1>3, AllBound
<1>5. /\ BindingsOK(bindings) /\ BindingsOK(bindings')
      /\ BindingsOK(bindingRow) /\ BindingsOK(bindingRow')
      /\ Covered(bindings) /\ Covered(bindingRow)
  BY <1>3, LoansKnown, BindingsTypedNext DEF LoansFacts
<1>6. /\ bindings'[x] = Fresh(p, q) /\ bindingRow'[x] = Fresh(p, q)
      /\ \A c \in Callers \ {x} : bindings'[c] = bindings[c] /\ bindingRow'[c] = bindingRow[c]
  BY <1>2, <1>5 DEF BindingsOK, Table
<1>7. Fresh(p, q) # None /\ Fresh(p, q).borrowed = 0 /\ Fresh(p, q).lent = 0
  <2>1. Fresh(p, q) \in CallerBinding
    BY FreshFields, InputsAssumption
  <2> QED
    BY <2>1, BindingFields DEF Fresh
<1>8. ASSUME NEW c \in Callers
      PROVE  /\ BorrowedOf(bindings')[c] = BorrowedOf(bindings)[c]
             /\ LentOf(bindings')[c] = LentOf(bindings)[c]
             /\ BorrowedOf(bindingRow')[c] = BorrowedOf(bindingRow)[c]
             /\ LentOf(bindingRow')[c] = LentOf(bindingRow)[c]
  <2>1. CASE c = x
    BY <2>1, <1>3, <1>4, <1>6, <1>7 DEF BorrowedOf, LentOf
  <2>2. CASE c # x
    BY <2>2, <1>6 DEF BorrowedOf, LentOf
  <2> QED
    BY <2>1, <2>2
<1>9. Covered(bindings') /\ Covered(bindingRow')
  BY <1>5, <1>8, LoansAgree DEF Covered
<1>10. BorrowedIsLent'
  BY <1>9 DEF BorrowedIsLent, Covered, AllBorrowed, AllLent
<1>11. \A c \in Callers : Agrees(c)
  BY <1>2, <1>3 DEF LoansInv
<1>12. \A c \in Callers : Agrees(c)'
  BY <1>6, <1>11 DEF Agrees
<1> QED
  BY <1>10, <1>12 DEF LoansInv

LEMMA LoansCrash ==
  ASSUME BaseInv, LoansInv, BaseInv', Crash, ~rebound'
  PROVE  LoansInv'
<1>1. /\ \A c \in Callers : bindings'[c] = None
      /\ bindingRow' = bindingRow /\ rebound' = rebound
  BY CrashStep
<1>2. ~rebound
  BY <1>1
<1>3. BindingsOK(bindings') /\ Covered(bindingRow)
  BY <1>2, LoansKnown, BindingsTypedNext DEF LoansFacts
<1>4. \A c \in Callers : BorrowedOf(bindings')[c] = 0 /\ LentOf(bindings')[c] = 0
  BY <1>1 DEF BorrowedOf, LentOf
<1>5. Covered(bindings')
  BY <1>4, SumOfZeros, BoundsAssumption DEF Covered, AllBorrowed, AllLent
<1>6. BorrowedIsLent'
  BY <1>1, <1>3, <1>5 DEF BorrowedIsLent, Covered, AllBorrowed, AllLent
<1>7. \A c \in Callers : Agrees(c)'
  BY <1>1 DEF Agrees
<1> QED
  BY <1>6, <1>7 DEF LoansInv

LEMMA LoansStart ==
  ASSUME BaseInv, LoansInv, BaseInv', Start, ~rebound'
  PROVE  LoansInv'
<1>1. /\ \A c \in Callers : /\ bindings'[c] = None <=> bindingRow[c] = None
                            /\ bindingRow[c] # None => SameTerms(bindingRow[c], bindings'[c])
      /\ bindingRow' = bindingRow /\ rebound' = rebound
  BY StartStep
<1>2. ~rebound
  BY <1>1
<1>3. BindingsOK(bindings') /\ BindingsOK(bindingRow) /\ Covered(bindingRow)
  BY <1>2, LoansKnown, BindingsTypedNext DEF LoansFacts
<1>4. SameBound(bindingRow, bindings') /\ SameLoans(bindingRow, bindings')
  BY <1>1 DEF SameBound, SameLoans, SameTerms
<1>5. Covered(bindings')
  BY <1>3, <1>4, LoansUnmoved DEF Covered
<1>6. BorrowedIsLent'
  BY <1>1, <1>3, <1>5 DEF BorrowedIsLent, Covered, AllBorrowed, AllLent
<1>7. \A c \in Callers : Agrees(c)'
  BY <1>1 DEF Agrees, SameTerms, SameLoan
<1> QED
  BY <1>6, <1>7 DEF LoansInv

LEMMA LoansNext ==
  ASSUME BaseInv, LoansInv, Next
  PROVE  LoansInv'
<1>1. BaseInv' /\ LoanStep
  BY NextStep
<1>2. CASE rebound'
  BY <1>2 DEF LoansInv
<1>3. CASE ~rebound'
  <2>1. CASE LoanQuiet
    <3>1. /\ Covered(bindings') /\ Covered(bindingRow')
          /\ \A c \in Callers : Agrees(c)'
      BY <1>1, <1>3, <2>1, LoansQuietly
    <3>2. BorrowedIsLent'
      BY <3>1 DEF BorrowedIsLent, Covered, AllBorrowed, AllLent
    <3> QED
      BY <3>1, <3>2 DEF LoansInv
  <2> QED
    BY <1>1, <1>3, <2>1, LoansMade, LoansWritten, LoansBound, LoansCrash, LoansStart DEF LoanStep
<1> QED
  BY <1>2, <1>3

LEMMA LoansStutter ==
  ASSUME LoansInv, UNCHANGED vars
  PROVE  LoansInv'
<1>1. UNCHANGED <<bindings, bindingRow, todo, rebound>>
  BY DEF vars, memory, tables, history
<1>2. BorrowedIsLent' <=> BorrowedIsLent
  BY <1>1 DEF BorrowedIsLent
<1>3. \A c \in Callers : Agrees(c)' <=> Agrees(c)
  BY <1>1 DEF Agrees
<1> QED
  BY <1>1, <1>2, <1>3 DEF LoansInv

LEMMA InitLoans ==
  ASSUME Init
  PROVE  LoansInv
<1>1. bindings = [c \in Callers |-> None] /\ bindingRow = bindings
  BY DEF Init
<1>2. \A c \in Callers : BorrowedOf(bindings)[c] = 0 /\ LentOf(bindings)[c] = 0
  BY <1>1 DEF BorrowedOf, LentOf
<1>3. Covered(bindings) /\ Covered(bindingRow)
  BY <1>1, <1>2, SumOfZeros, BoundsAssumption DEF Covered, AllBorrowed, AllLent
<1>4. BorrowedIsLent /\ \A c \in Callers : Agrees(c)
  BY <1>1, <1>3, LoansCovered DEF Agrees
<1> QED
  BY <1>4 DEF LoansInv

(* A loan creates no quota, in memory and in the rows: BorrowQuota writes  *)
(* the lender's row before the borrower's (manager.go:853-860) and         *)
(* ReturnQuota the other way round (926-933), so that a crash between the  *)
(* two only ever leaves quota that nobody has.                             *)
THEOREM LoansCorrect == Spec => []BorrowedIsLent
<1>1. Init => BaseInv /\ LoansInv
  BY InitBase, InitLoans
<1>2. BaseInv /\ LoansInv /\ [Next]_vars => BaseInv' /\ LoansInv'
  <2>1. CASE UNCHANGED vars
    BY <2>1, BaseStutters, LoansStutter
  <2>2. CASE Next
    BY <2>2, NextStep, LoansNext
  <2> QED
    BY <2>1, <2>2
<1>3. LoansInv => BorrowedIsLent
  BY DEF LoansInv, BorrowedIsLent
<1> QED
  BY <1>1, <1>2, <1>3, PTL DEF Spec


-----------------------------------------------------------------------------
(* Reservations *)

(* The requests and most steps need a process that runs.                   *)
LEMMA RunningUnless ==
  ASSUME BaseInv, Next, ~Start, ~Elapse
  PROVE  up
<1>1. todo # <<>> => up
  BY DEF BaseInv, AgendaInv
<1>2. CASE Requests
  <2>1. \A p, a : CreatePolicy(p, a) => MutexFree
    BY DEF CreatePolicy
  <2>2. \A c, p, q : /\ BindCaller(c, p, q) => MutexFree
                     /\ AdjustQuota(c, q) => MutexFree
                     /\ Enqueue(c, p, q) => MutexFree
    BY DEF BindCaller, AdjustQuota, Enqueue
  <2>3. \A c, n : /\ RequestTokens(c, n) => MutexFree
                  /\ ReturnTokens(c, n) => MutexFree
                  /\ GetCallerStatus(c) => MutexFree
                  /\ CancelReservation(c) => MutexFree
    BY DEF RequestTokens, ReturnTokens, GetCallerStatus, CancelReservation
  <2>4. \A c, d, n : /\ BorrowQuota(c, d, n) => MutexFree
                     /\ ReturnQuota(c, d, n) => MutexFree
    BY DEF BorrowQuota, Borrow, ReturnQuota
  <2>5. \A r, p, c, n, a, b : CreateReservation(r, p, c, n, a, b) => MutexFree
    BY DEF CreateReservation
  <2>6. MutexFree
    BY <1>2, <2>1, <2>2, <2>3, <2>4, <2>5, Zenon DEF Requests
  <2> QED
    BY <2>6 DEF MutexFree
<1>3. CASE RefillTick \/ Crash
  BY <1>3 DEF RefillTick, Crash, MutexFree
<1>4. CASE Steps
  BY <1>1, <1>4 DEF Steps, UpdateCallerBinding, UpdateReservationStatus, RemoveWaitItem, CleanUp,
     CleanedUp, Look, ReservationsDone, Refill, GrantFromQueue, GrantDone, ActivateReservation,
     CompleteReservation, Doing
<1> QED
  BY <1>2, <1>3, <1>4 DEF Next

LEMMA RowFields ==
  ASSUME BaseInv, NEW r \in Reservations
  PROVE  /\ reservations[r] # None => reservations[r] \in QuotaReservation
         /\ reservationRow[r] # None => reservationRow[r] \in QuotaReservation
         /\ now \in Nat
BY DEF BaseInv, TypeOK

LEMMA RowsQuietly ==
  ASSUME BaseInv, RowsInv, UNCHANGED <<reservations, reservationRow, now, up>>,
         \A r \in Reservations : StatusDue(r) => StatusDue(r)'
  PROVE  RowsInv'
<1>1. /\ Known' = Known /\ Known \subseteq Reservations
      /\ \A r \in Reservations : /\ LiveRow(r)' <=> LiveRow(r)
                                 /\ Live(r)' <=> Live(r)
  BY DEF Known, LiveRow, Live
<1> QED
  BY <1>1 DEF RowsInv

LEMMA RowsReserving ==
  ASSUME BaseInv, RowsInv, Reserving
  PROVE  RowsInv'
<1>1. PICK r \in Reservations, p \in Policies, c \in Callers, n \in Amounts, start \in Int,
           end \in Int : CreateReservation(r, p, c, n, start, end)
  BY DEF Reserving
<1>2. PICK new \in QuotaReservation :
        /\ new.status = IF start <= now THEN "active" ELSE "pending"
        /\ reservationRow[r] = None /\ reservations[r] = None
        /\ reservations' = [reservations EXCEPT ![r] = new]
        /\ reservationRow' = [reservationRow EXCEPT ![r] = new]
        /\ up /\ todo = <<>> /\ UNCHANGED <<now, up>>
  BY <1>1, CreateReservationStep
<1>3. /\ reservations'[r] = new /\ reservationRow'[r] = new /\ new # None
      /\ new.status \in {"pending", "active"}
      /\ \A s \in Reservations \ {r} : /\ reservations'[s] = reservations[s]
                                       /\ reservationRow'[s] = reservationRow[s]
  BY <1>2, NoneIsNone DEF BaseInv, TypeOK
<1>4. \A s \in Reservations : ~StatusDue(s)
  BY <1>2, NoTasksNow
<1>5. /\ r \in Known' /\ Live(r)'
      /\ SameReservation(reservations'[r], reservationRow'[r])
  BY <1>3 DEF Known, Live, SameReservation
<1>6. \A s \in Reservations \ {r} : /\ s \in Known' <=> s \in Known
                                    /\ LiveRow(s)' <=> LiveRow(s)
                                    /\ Live(s)' <=> Live(s)
  BY <1>2, <1>3 DEF Known, LiveRow, Live
<1>7. \A s \in Known' : SameReservation(reservations'[s], reservationRow'[s])
  BY <1>3, <1>5, <1>6 DEF RowsInv, Known
<1>8. ASSUME NEW s \in Reservations,
             reservationRow'[s] # None /\ reservationRow'[s].status \in {"pending", "active"}
      PROVE  s \in Known'
  <2>1. CASE s = r
    BY <1>5, <2>1
  <2>2. CASE s # r
    BY <1>2, <1>3, <1>6, <1>8, <2>2 DEF RowsInv
  <2> QED
    BY <2>1, <2>2
<1>9. ASSUME NEW s \in Known', LiveRow(s)'
      PROVE  Live(s)' \/ StatusDue(s)'
  <2>1. CASE s = r
    BY <1>5, <2>1
  <2>2. CASE s # r
    <3>1. s \in Reservations \ {r}
      BY <2>2 DEF Known
    <3>2. Live(s)
      BY <1>4, <1>6, <1>9, <3>1 DEF RowsInv
    <3> QED
      BY <1>6, <3>1, <3>2
  <2> QED
    BY <2>1, <2>2
<1>10. \A s \in Known' :
         /\ reservations'[s].status = "pending" => reservationRow'[s].status = "pending"
         /\ Live(s)' => reservationRow'[s].status \in {"pending", "active"}
  BY <1>3, <1>6 DEF RowsInv, Known, Live
<1> QED
  BY <1>7, <1>8, <1>9, <1>10 DEF RowsInv

(* What is marked is due to be written.                                    *)
MarkedOne(r, status) ==
  /\ up /\ up' /\ r \in Known
  /\ Marked(reservations, reservations', r, status)
  /\ StatusDue(r)' /\ \A s \in Reservations : StatusDue(s) => StatusDue(s)'
  /\ SameBound(bindings, bindings')
  /\ \/ status \in {"cancelled", "completed"} /\ Active(r)
        /\ ReservedLess(bindings, bindings', reservations[r].caller, reservations[r].tokens)
     \/ status = "cancelled" /\ Pending(r) /\ bindings' = bindings
     \/ status = "active" /\ Pending(r)
        /\ ReservedMore(bindings, bindings', reservations[r].caller, reservations[r].tokens)
  /\ UNCHANGED <<reservationRow, now, torn, rebound>>

LEMMA MarkedByOne ==
  ASSUME BaseInv, Marking
  PROVE  \E r \in Reservations, status \in {"active", "completed", "cancelled"} :
           MarkedOne(r, status)
<1>1. CASE \E r \in Reservations : CancelReservation(r)
  <2>1. PICK r \in Reservations : CancelReservation(r)
    BY <1>1
  <2>2. MarkedOne(r, "cancelled")
    BY <2>1, CancelReservationStep DEF MarkedOne
  <2> QED
    BY <2>2
<1>2. CASE \E r \in Reservations : ActivateReservation(r)
  <2>1. PICK r \in Reservations : ActivateReservation(r)
    BY <1>2
  <2>2. MarkedOne(r, "active")
    BY <2>1, ActivateReservationStep DEF MarkedOne
  <2> QED
    BY <2>2
<1>3. CASE \E r \in Reservations : CompleteReservation(r)
  <2>1. PICK r \in Reservations : CompleteReservation(r)
    BY <1>3
  <2>2. MarkedOne(r, "completed")
    BY <2>1, CompleteReservationStep DEF MarkedOne
  <2> QED
    BY <2>2
<1> QED
  BY <1>1, <1>2, <1>3 DEF Marking

LEMMA MarkedFields ==
  ASSUME BaseInv, NEW r \in Reservations, NEW status, MarkedOne(r, status)
  PROVE  /\ Known' = Known /\ r \in Known
         /\ reservations'[r].status = status /\ SameReservation(reservations[r], reservations'[r])
         /\ \A s \in Reservations \ {r} : reservations'[s] = reservations[s]
         /\ \A s \in Reservations : Live(s)' => Live(s)
<1>1. /\ r \in Known /\ reservations'[r] # None /\ reservations'[r].status = status
      /\ SameReservation(reservations[r], reservations'[r])
      /\ \A s \in Reservations \ {r} : reservations'[s] = reservations[s]
  BY DEF MarkedOne, Marked
<1>2. Known' = Known
  BY <1>1 DEF Known
<1>3. Live(r)' => Live(r)
  BY <1>1 DEF MarkedOne, Live, Pending, Active
<1>4. \A s \in Reservations : Live(s)' => Live(s)
  BY <1>1, <1>3 DEF Live
<1> QED
  BY <1>1, <1>2, <1>4

LEMMA RowsMarking ==
  ASSUME BaseInv, RowsInv, Marking
  PROVE  RowsInv'
<1>1. PICK r \in Reservations, status \in {"active", "completed", "cancelled"} :
        MarkedOne(r, status)
  BY MarkedByOne
<1>2. /\ Known' = Known /\ r \in Known
      /\ reservations'[r].status = status /\ SameReservation(reservations[r], reservations'[r])
      /\ \A s \in Reservations \ {r} : reservations'[s] = reservations[s]
      /\ \A s \in Reservations : Live(s)' => Live(s)
  BY <1>1, MarkedFields
<1>3. /\ up /\ StatusDue(r)' /\ \A s \in Reservations : StatusDue(s) => StatusDue(s)'
      /\ UNCHANGED <<reservationRow, now>>
  BY <1>1 DEF MarkedOne
<1>4. \A s \in Reservations : LiveRow(s)' <=> LiveRow(s)
  BY <1>3 DEF LiveRow
<1>5. Known \subseteq Reservations
  BY DEF Known
<1>6. \A s \in Known' : SameReservation(reservations'[s], reservationRow'[s])
  BY <1>2, <1>3, <1>5 DEF RowsInv, SameReservation
<1>7. \A s \in Reservations :
        reservationRow'[s] # None /\ reservationRow'[s].status \in {"pending", "active"}
          => s \in Known'
  BY <1>2, <1>3 DEF RowsInv
<1>8. \A s \in Known' : LiveRow(s)' => Live(s)' \/ StatusDue(s)'
  <2>1. \A s \in Reservations \ {r} : Live(s)' <=> Live(s)
    BY <1>2 DEF Live
  <2> QED
    BY <1>2, <1>3, <1>4, <1>5, <2>1 DEF RowsInv
<1>9. \A s \in Known' :
        /\ reservations'[s].status = "pending" => reservationRow'[s].status = "pending"
        /\ Live(s)' => reservationRow'[s].status \in {"pending", "active"}
  BY <1>2, <1>3, <1>5 DEF RowsInv
<1> QED
  BY <1>6, <1>7, <1>8, <1>9 DEF RowsInv

(* The row of one reservation gets the status that memory has.             *)
LEMMA StatusWritten ==
  ASSUME BaseInv, UpdateReservationStatus, NEW x, x = Task.reservation
  PROVE  /\ x \in Known /\ x \in Reservations
         /\ reservationRow'[x] \in QuotaReservation
         /\ SameReservation(reservationRow[x], reservationRow'[x])
         /\ reservationRow'[x].status = reservations[x].status
         /\ \A r \in Reservations \ {x} : reservationRow'[r] = reservationRow[r]
         /\ up /\ Known' = Known
         /\ \A r \in Reservations : StatusDue(r) /\ r # x => StatusDue(r)'
         /\ UNCHANGED <<bindings, reservations, up, now, torn, rebound>>
<1>1. /\ todo # <<>> /\ x \in Known
      /\ \A r \in Reservations : StatusDue(r) /\ r # x => StatusDue(r)'
      /\ reservationRow' = [reservationRow EXCEPT ![x].status = reservations[x].status]
      /\ UNCHANGED <<bindings, reservations, up, now, torn, rebound>>
  BY UpdateReservationStatusStep
<1>2. up /\ Known' = Known /\ x \in Reservations /\ reservations[x] # None
  BY <1>1 DEF BaseInv, AgendaInv, Known
<1>3. /\ reservationRow[x] \in QuotaReservation
      /\ reservations[x].status \in {"pending", "active", "completed", "cancelled"}
  BY <1>2, AllBound, ReservationFields
<1>4. reservationRow'[x] = [reservationRow[x] EXCEPT !.status = reservations[x].status]
      /\ \A r \in Reservations \ {x} : reservationRow'[r] = reservationRow[r]
  BY <1>1, <1>2 DEF BaseInv, TypeOK
<1>5. /\ reservationRow'[x] \in QuotaReservation
      /\ SameReservation(reservationRow[x], reservationRow'[x])
      /\ reservationRow'[x].status = reservations[x].status
  BY <1>3, <1>4 DEF QuotaReservation, SameReservation
<1> QED
  BY <1>1, <1>2, <1>4, <1>5

LEMMA RowsWritten ==
  ASSUME BaseInv, RowsInv, UpdateReservationStatus
  PROVE  RowsInv'
<1>1. PICK x : x = Task.reservation
  OBVIOUS
<1>2. /\ x \in Known /\ x \in Reservations
      /\ reservationRow'[x] \in QuotaReservation
      /\ SameReservation(reservationRow[x], reservationRow'[x])
      /\ reservationRow'[x].status = reservations[x].status
      /\ \A r \in Reservations \ {x} : reservationRow'[r] = reservationRow[r]
      /\ up /\ Known' = Known
      /\ \A r \in Reservations : StatusDue(r) /\ r # x => StatusDue(r)'
      /\ UNCHANGED <<bindings, reservations, up, now, torn, rebound>>
  BY <1>1, StatusWritten
<1>3. Known \subseteq Reservations
  BY DEF Known
<1>4. \A s \in Known' : SameReservation(reservations'[s], reservationRow'[s])
  BY <1>2, <1>3 DEF RowsInv, SameReservation
<1>5. \A s \in Reservations :
        reservationRow'[s] # None /\ reservationRow'[s].status \in {"pending", "active"}
          => s \in Known'
  BY <1>2 DEF RowsInv
<1>6. \A s \in Known' : LiveRow(s)' => Live(s)' \/ StatusDue(s)'
  <2>1. LiveRow(x)' => Live(x)'
    BY <1>2 DEF LiveRow, Live
  <2>2. \A s \in Reservations \ {x} : /\ LiveRow(s)' <=> LiveRow(s)
                                      /\ Live(s)' <=> Live(s)
    BY <1>2 DEF LiveRow, Live
  <2> QED
    BY <1>2, <1>3, <2>1, <2>2 DEF RowsInv
<1>7. \A s \in Known' :
        /\ reservations'[s].status = "pending" => reservationRow'[s].status = "pending"
        /\ Live(s)' => reservationRow'[s].status \in {"pending", "active"}
  BY <1>2, <1>3 DEF RowsInv, Live
<1> QED
  BY <1>4, <1>5, <1>6, <1>7 DEF RowsInv

LEMMA RowsLost ==
  ASSUME BaseInv, RowsInv, Crash
  PROVE  RowsInv'
<1>1. ~up' /\ Known' = {}
  BY CrashStep DEF Known
<1> QED
  BY <1>1 DEF RowsInv

LEMMA RowsLoaded ==
  ASSUME BaseInv, RowsInv, Start
  PROVE  RowsInv'
<1>1. /\ \A r \in Reservations : reservations'[r] = LoadReservation(r)
      /\ UNCHANGED <<reservationRow, now>>
  BY StartStep
<1>2. ASSUME NEW r \in Known'
      PROVE  /\ r \in Reservations /\ reservationRow[r] # None
             /\ SameReservation(reservations'[r], reservationRow'[r])
             /\ LiveRow(r)' => Live(r)'
             /\ reservations'[r].status = "pending" => reservationRow'[r].status = "pending"
             /\ reservationRow'[r].status \in {"pending", "active"}
  <2>1. r \in Reservations /\ reservations'[r] # None
    BY DEF Known
  <2>2. /\ reservationRow[r] # None
        /\ SameReservation(reservations'[r], reservationRow[r])
        /\ \/ reservations'[r].status = reservationRow[r].status
           \/ /\ reservationRow[r].status = "active" /\ reservationRow[r].end < now
              /\ reservations'[r].status = "completed"
        /\ reservationRow[r].status \in {"pending", "active"}
    BY <1>1, <2>1, LoadedReservation
  <2>3. reservationRow[r].end \in Int /\ now \in Int
    BY <2>1, <2>2, RowFields, ReservationFields
  <2>4. LiveRow(r)' => Live(r)'
    BY <1>1, <2>2, <2>3 DEF LiveRow, Live
  <2> QED
    BY <1>1, <2>1, <2>2, <2>4
<1>3. \A r \in Reservations :
        reservationRow'[r] # None /\ reservationRow'[r].status \in {"pending", "active"}
          => r \in Known'
  BY <1>1, LoadedReservation DEF Known
<1> QED
  BY <1>2, <1>3 DEF RowsInv

LEMMA LiveRowsElapse ==
  ASSUME BaseInv, Elapse, NEW r \in Reservations, reservationRow[r] # None, LiveRow(r)'
  PROVE  LiveRow(r)
<1>1. reservationRow[r].end \in Int /\ now \in Int
  BY RowFields, ReservationFields
<1>2. now' = now + 1 /\ reservationRow' = reservationRow
  BY ElapseStep
<1> QED
  BY <1>1, <1>2 DEF LiveRow

LEMMA RowsElapse ==
  ASSUME BaseInv, RowsInv, Elapse
  PROVE  RowsInv'
<1>1. /\ todo = <<>> /\ UNCHANGED <<reservations, reservationRow, up>>
  BY ElapseStep
<1>2. \A r \in Reservations : ~StatusDue(r)
  BY <1>1, NoTasksNow
<1>3. /\ Known' = Known /\ Known \subseteq Reservations
      /\ \A r \in Reservations : Live(r)' <=> Live(r)
  BY <1>1 DEF Known, Live
<1>4. \A r \in Known : reservationRow[r] # None
  BY DEF BaseInv, BoundInv, Known
<1>5. \A r \in Known' : LiveRow(r)' => Live(r)' \/ StatusDue(r)'
  BY <1>2, <1>3, <1>4, LiveRowsElapse DEF RowsInv
<1> QED
  BY <1>1, <1>3, <1>5 DEF RowsInv

LEMMA RowsNext ==
  ASSUME BaseInv, RowsInv, Next
  PROVE  RowsInv'
<1>1. BookStep
  BY NextStep
<1>2. CASE BookQuiet
  BY <1>2, RowsQuietly DEF BookQuiet
<1>3. CASE BoundAnew
  <2>1. /\ UNCHANGED <<todo, up, now, reservations, reservationRow>>
    BY <1>3, BindCallerStep DEF BoundAnew
  <2>2. \A r \in Reservations : StatusDue(r) => StatusDue(r)'
    BY <2>1 DEF StatusDue, Tasks
  <2> QED
    BY <2>1, <2>2, RowsQuietly
<1> QED
  BY <1>1, <1>2, <1>3, RowsReserving, RowsMarking, RowsWritten, RowsLost, RowsLoaded, RowsElapse
  DEF BookStep

LEMMA RowsStutter ==
  ASSUME BaseInv, RowsInv, UNCHANGED vars
  PROVE  RowsInv'
<1>1. UNCHANGED <<reservations, reservationRow, now, up, todo>>
  BY DEF vars, memory, tables
<1>2. \A r \in Reservations : StatusDue(r) => StatusDue(r)'
  BY <1>1 DEF StatusDue, Tasks
<1> QED
  BY <1>1, <1>2, RowsQuietly

LEMMA InitRows ==
  ASSUME Init
  PROVE  RowsInv
<1>1. reservations = [r \in Reservations |-> None] /\ reservationRow = reservations
  BY DEF Init
<1>2. Known = {}
  BY <1>1 DEF Known
<1> QED
  BY <1>1, <1>2 DEF RowsInv

(* The tokens of a set of reservations, by their rows                      *)
Rows == [Reservations -> QuotaReservation \cup {None}]

LEMMA TokensTyped ==
  ASSUME NEW rows \in Rows, NEW r \in Reservations
  PROVE  /\ TokensIn(rows)[r] \in Nat /\ TokensIn(rows)[r] \in Int
         /\ rows[r] # None => TokensIn(rows)[r] = rows[r].tokens
<1>1. rows[r] # None => rows[r].tokens \in Nat
  BY ReservationFields DEF Rows
<1> QED
  BY <1>1 DEF TokensIn

LEMMA WeightTyped ==
  ASSUME NEW rows \in Rows, NEW rs \in SUBSET Reservations
  PROVE  IsFiniteSet(rs) /\ Weight(rows, rs) \in Int
<1>1. IsFiniteSet(rs)
  BY FS_Subset, BoundsAssumption
<1>2. \A r \in rs : TokensIn(rows)[r] \in Int
  BY TokensTyped
<1> QED
  BY <1>1, <1>2, SumInt DEF Weight

LEMMA WeightOfSubset ==
  ASSUME NEW rows \in Rows, NEW rs \in SUBSET Reservations, NEW ss \in SUBSET rs
  PROVE  Weight(rows, ss) <= Weight(rows, rs)
<1>1. IsFiniteSet(rs) /\ \A r \in rs : TokensIn(rows)[r] \in Nat
  BY WeightTyped, TokensTyped
<1> QED
  BY <1>1, SumOfSubset DEF Weight

LEMMA WeightSame ==
  ASSUME NEW rows \in Rows, NEW new \in Rows, NEW rs \in SUBSET Reservations,
         \A r \in rs : TokensIn(new)[r] = TokensIn(rows)[r]
  PROVE  Weight(new, rs) = Weight(rows, rs)
BY WeightTyped, SumSame DEF Weight

LEMMA WeightAdded ==
  ASSUME NEW rows \in Rows, NEW rs \in SUBSET Reservations, NEW r \in Reservations, r \notin rs
  PROVE  Weight(rows, rs \cup {r}) = TokensIn(rows)[r] + Weight(rows, rs)
<1>1. /\ IsFiniteSet(rs) /\ TokensIn(rows)[r] \in Int
      /\ \A s \in rs : TokensIn(rows)[s] \in Int
  BY WeightTyped, TokensTyped
<1> QED
  BY <1>1, SumAdded DEF Weight

LEMMA WeightOfNone ==
  ASSUME NEW rows
  PROVE  Weight(rows, {}) = 0
BY SumOfNone DEF Weight

LEMMA RowsTyped ==
  /\ BaseInv => reservationRow \in Rows
  /\ BaseInv' => reservationRow' \in Rows
BY DEF BaseInv, TypeOK, Rows

LEMMA TokensOfRows ==
  ASSUME BaseInv, RowsInv, NEW rs \in SUBSET Known
  PROVE  TokensOf(rs) = Weight(reservationRow, rs)
<1>1. rs \in SUBSET Reservations
  BY DEF Known
<1>2. ASSUME NEW r \in rs
      PROVE  [s \in rs |-> reservations[s].tokens][r] = TokensIn(reservationRow)[r]
  <2>1. reservationRow[r] # None /\ reservations[r].tokens = reservationRow[r].tokens
    BY DEF BaseInv, BoundInv, RowsInv, Known, SameReservation
  <2> QED
    BY <1>1, <2>1, RowsTyped, TokensTyped
<1>3. IsFiniteSet(rs)
  BY <1>1, RowsTyped, WeightTyped
<1> DEFINE w == [s \in rs |-> reservations[s].tokens]
<1> HIDE DEF w
<1>4. SumFunctionOnSet(w, rs) = SumFunctionOnSet(TokensIn(reservationRow), rs)
  BY <1>2, <1>3, SumSame DEF w
<1> QED
  BY <1>4 DEF TokensOf, Weight, w

-----------------------------------------------------------------------------
(* No policy is overbooked. *)

InMemory(p, t) == {r \in InPolicy(reservations, p, t) : Live(r)}
InRows(p, t) == {r \in InPolicy(reservationRow, p, t) : LiveRow(r)}

LEMMA InMemoryIs ==
  ASSUME NEW p, NEW t, NEW r
  PROVE  r \in InMemory(p, t) <=>
           /\ r \in Reservations /\ reservations[r] # None /\ reservations[r].policy = p
           /\ reservations[r].start <= t /\ t < reservations[r].end /\ Live(r)
BY DEF InMemory, InPolicy

LEMMA BookedIs ==
  BookedInv <=> \A p \in Policies, t \in Int :
    /\ Weight(reservationRow, InMemory(p, t)) <= MaxTokens
    /\ Weight(reservationRow, InRows(p, t)) <= MaxTokens
BY DEF BookedInv, Fits, InMemory, InRows

(* It is enough that no set gets a member.                                 *)
LEMMA BookedLess ==
  ASSUME BaseInv, BookedInv, BaseInv',
         \A r \in Reservations : TokensIn(reservationRow')[r] = TokensIn(reservationRow)[r],
         \A p \in Policies, t \in Int :
           /\ InMemory(p, t)' \subseteq InMemory(p, t) \/ InMemory(p, t)' \subseteq InRows(p, t)
           /\ InRows(p, t)' \subseteq InRows(p, t)
  PROVE  BookedInv'
<1>1. reservationRow \in Rows /\ reservationRow' \in Rows
  BY RowsTyped
<1>2. ASSUME NEW rs \in SUBSET Reservations, NEW ss \in SUBSET rs,
             Weight(reservationRow, rs) <= MaxTokens
      PROVE  Weight(reservationRow', ss) <= MaxTokens
  <2>1. ss \in SUBSET Reservations
    OBVIOUS
  <2>2. Weight(reservationRow', ss) = Weight(reservationRow, ss)
    BY <1>1, <2>1, WeightSame
  <2>3. Weight(reservationRow, ss) <= Weight(reservationRow, rs)
    BY <1>1, WeightOfSubset
  <2>4. Weight(reservationRow, ss) \in Int /\ Weight(reservationRow, rs) \in Int /\ MaxTokens \in Int
    BY <1>1, <2>1, WeightTyped, InputsAssumption
  <2> QED
    BY <1>2, <2>2, <2>3, <2>4
<1>3. ASSUME NEW p \in Policies, NEW t \in Int
      PROVE  /\ Weight(reservationRow', InMemory(p, t)') <= MaxTokens
             /\ Weight(reservationRow', InRows(p, t)') <= MaxTokens
  <2>1. InMemory(p, t) \in SUBSET Reservations /\ InRows(p, t) \in SUBSET Reservations
    BY DEF InMemory, InRows, InPolicy
  <2>2. /\ Weight(reservationRow, InMemory(p, t)) <= MaxTokens
        /\ Weight(reservationRow, InRows(p, t)) <= MaxTokens
    BY BookedIs
  <2>3. Weight(reservationRow', InRows(p, t)') <= MaxTokens
    BY <1>2, <2>1, <2>2
  <2>4. Weight(reservationRow', InMemory(p, t)') <= MaxTokens
    <3>1. CASE InMemory(p, t)' \subseteq InMemory(p, t)
      BY <1>2, <2>1, <2>2, <3>1
    <3>2. CASE InMemory(p, t)' \subseteq InRows(p, t)
      BY <1>2, <2>1, <2>2, <3>2
    <3> QED
      BY <3>1, <3>2
  <2> QED
    BY <2>3, <2>4
<1> QED
  BY <1>3 DEF BookedInv, Fits, InMemory, InRows

LEMMA BookedQuietly ==
  ASSUME BaseInv, BookedInv, BaseInv', UNCHANGED <<reservations, reservationRow, now>>
  PROVE  BookedInv'
<1>1. ASSUME NEW p, NEW t
      PROVE  InMemory(p, t)' = InMemory(p, t) /\ InRows(p, t)' = InRows(p, t)
  BY DEF InMemory, InRows, InPolicy, Live, LiveRow
<1> QED
  BY <1>1, BookedLess

LEMMA BookedMarking ==
  ASSUME BaseInv, BookedInv, BaseInv', Marking
  PROVE  BookedInv'
<1>1. PICK r \in Reservations, status \in {"active", "completed", "cancelled"} :
        MarkedOne(r, status)
  BY MarkedByOne
<1>2. /\ Known' = Known /\ r \in Known
      /\ SameReservation(reservations[r], reservations'[r])
      /\ \A s \in Reservations \ {r} : reservations'[s] = reservations[s]
      /\ \A s \in Reservations : Live(s)' => Live(s)
  BY <1>1, MarkedFields
<1>3. reservationRow' = reservationRow /\ now' = now
  BY <1>1 DEF MarkedOne
<1>4. ASSUME NEW p, NEW t, NEW s \in InMemory(p, t)'
      PROVE  s \in InMemory(p, t)
  <2>1. /\ s \in Reservations /\ reservations'[s] # None /\ reservations'[s].policy = p
        /\ reservations'[s].start <= t /\ t < reservations'[s].end /\ Live(s)'
    BY <1>4 DEF InMemory, InPolicy
  <2>2. /\ reservations[s] # None /\ reservations[s].policy = p
        /\ reservations[s].start <= t /\ t < reservations[s].end
    <3>1. CASE s = r
      BY <1>2, <2>1, <3>1 DEF SameReservation, Known
    <3>2. CASE s # r
      BY <1>2, <2>1, <3>2
    <3> QED
      BY <3>1, <3>2
  <2> QED
    BY <1>2, <2>1, <2>2, InMemoryIs
<1>5. ASSUME NEW p, NEW t
      PROVE  InRows(p, t)' = InRows(p, t)
  BY <1>3 DEF InRows, InPolicy, LiveRow
<1> QED
  BY <1>3, <1>4, <1>5, BookedLess

LEMMA BookedWritten ==
  ASSUME BaseInv, RowsInv, BookedInv, BaseInv', UpdateReservationStatus
  PROVE  BookedInv'
<1>1. PICK x : x = Task.reservation
  OBVIOUS
<1>2. /\ x \in Known /\ x \in Reservations
      /\ reservationRow'[x] \in QuotaReservation
      /\ SameReservation(reservationRow[x], reservationRow'[x])
      /\ reservationRow'[x].status = reservations[x].status
      /\ \A r \in Reservations \ {x} : reservationRow'[r] = reservationRow[r]
      /\ up /\ UNCHANGED <<reservations, now>>
  BY <1>1, StatusWritten
<1>3. reservationRow[x] # None /\ reservationRow'[x] # None
  BY <1>2, AllBound, NoneIsNone DEF Known
<1>4. \A r \in Reservations : TokensIn(reservationRow')[r] = TokensIn(reservationRow)[r]
  BY <1>2, <1>3 DEF TokensIn, SameReservation
<1>5. ASSUME NEW p, NEW t
      PROVE  InMemory(p, t)' = InMemory(p, t)
  BY <1>2 DEF InMemory, InPolicy, Live
<1>6. LiveRow(x)' => LiveRow(x)
  <2>1. /\ reservations[x].status = "pending" => reservationRow[x].status = "pending"
        /\ Live(x) => reservationRow[x].status \in {"pending", "active"}
    BY <1>2 DEF RowsInv
  <2> QED
    BY <1>2, <2>1 DEF LiveRow, Live, SameReservation
<1>7. ASSUME NEW p, NEW t, NEW s \in InRows(p, t)'
      PROVE  s \in InRows(p, t)
  <2>1. /\ s \in Reservations /\ reservationRow'[s] # None /\ reservationRow'[s].policy = p
        /\ reservationRow'[s].start <= t /\ t < reservationRow'[s].end /\ LiveRow(s)'
    BY <1>7 DEF InRows, InPolicy
  <2>2. CASE s = x
    BY <1>2, <1>3, <1>6, <2>1, <2>2 DEF SameReservation, InRows, InPolicy
  <2>3. CASE s # x
    <3>1. reservationRow'[s] = reservationRow[s] /\ (LiveRow(s)' <=> LiveRow(s))
      BY <1>2, <2>1, <2>3 DEF LiveRow
    <3> QED
      BY <2>1, <3>1 DEF InRows, InPolicy
  <2> QED
    BY <2>2, <2>3
<1> QED
  BY <1>4, <1>5, <1>7, BookedLess

LEMMA BookedLost ==
  ASSUME BaseInv, BookedInv, BaseInv', Crash
  PROVE  BookedInv'
<1>1. /\ \A r \in Reservations : reservations'[r] = None
      /\ UNCHANGED <<reservationRow, now>>
  BY CrashStep
<1>2. ASSUME NEW p, NEW t
      PROVE  InMemory(p, t)' = {} /\ InRows(p, t)' = InRows(p, t)
  BY <1>1 DEF InMemory, InRows, InPolicy, LiveRow
<1> QED
  BY <1>1, <1>2, BookedLess

LEMMA BookedLoaded ==
  ASSUME BaseInv, BookedInv, BaseInv', Start
  PROVE  BookedInv'
<1>1. /\ \A r \in Reservations : reservations'[r] = LoadReservation(r)
      /\ UNCHANGED <<reservationRow, now>>
  BY StartStep
<1>2. ASSUME NEW p, NEW t, NEW r \in InMemory(p, t)'
      PROVE  r \in InRows(p, t)
  <2>1. /\ r \in Reservations /\ reservations'[r] # None /\ reservations'[r].policy = p
        /\ reservations'[r].start <= t /\ t < reservations'[r].end /\ Live(r)'
    BY <1>2 DEF InMemory, InPolicy
  <2>2. /\ reservationRow[r] # None
        /\ SameReservation(reservations'[r], reservationRow[r])
        /\ \/ reservations'[r].status = reservationRow[r].status
           \/ reservations'[r].status = "completed"
        /\ reservations'[r].status = "active" =>
             reservationRow[r].status = "active" /\ ~(reservationRow[r].end < now)
    BY <1>1, <2>1, LoadedReservation
  <2>3. reservationRow[r].end \in Int /\ now \in Int
    BY <2>1, <2>2, RowFields, ReservationFields
  <2>4. LiveRow(r)
    BY <2>1, <2>2, <2>3 DEF Live, LiveRow
  <2> QED
    BY <2>1, <2>2, <2>4 DEF SameReservation, InRows, InPolicy
<1>3. ASSUME NEW p, NEW t
      PROVE  InRows(p, t)' = InRows(p, t)
  BY <1>1 DEF InRows, InPolicy, LiveRow
<1> QED
  BY <1>1, <1>2, <1>3, BookedLess

LEMMA BookedElapse ==
  ASSUME BaseInv, BookedInv, BaseInv', Elapse
  PROVE  BookedInv'
<1>1. UNCHANGED <<reservations, reservationRow>>
  BY ElapseStep
<1>2. ASSUME NEW p, NEW t
      PROVE  InMemory(p, t)' = InMemory(p, t) /\ InRows(p, t)' \subseteq InRows(p, t)
  <2>1. InMemory(p, t)' = InMemory(p, t)
    BY <1>1 DEF InMemory, InPolicy, Live
  <2>2. ASSUME NEW r \in InRows(p, t)'
        PROVE  r \in InRows(p, t)
    <3>1. r \in Reservations /\ reservationRow[r] # None /\ LiveRow(r)'
      BY <1>1, <2>2 DEF InRows, InPolicy
    <3>2. LiveRow(r)
      BY <3>1, LiveRowsElapse
    <3> QED
      BY <1>1, <2>2, <3>2 DEF InRows, InPolicy
  <2> QED
    BY <2>1, <2>2
<1> QED
  BY <1>1, <1>2, BookedLess

(* What is reserved at t is reserved, too, when the last of those to begin *)
(* begins: it is enough to look at the beginnings.                         *)
LEMMA ReservedEarlier ==
  ASSUME BaseInv, RowsInv, NEW new \in QuotaReservation, NEW t \in Int,
         new.start < new.end, new.start <= t, t < new.end, NoConflict(new)
  PROVE  new.tokens + Weight(reservationRow, InMemory(new.policy, t)) <= MaxTokens
<1> DEFINE rs == InMemory(new.policy, t)
<1> DEFINE from == [r \in rs |-> reservations[r].start]
<1> DEFINE under(m) == {r \in Known : /\ Pending(r) \/ Active(r)
                                      /\ reservations[r].policy = new.policy
                                      /\ reservations[r].start <= m /\ m < reservations[r].end}
<1>1. \A r \in rs : /\ r \in Known /\ r \in Reservations /\ (Pending(r) \/ Active(r))
                    /\ reservations[r].policy = new.policy
                    /\ reservations[r].start \in Int /\ reservations[r].end \in Int
                    /\ reservations[r].start <= t /\ t < reservations[r].end
  BY RowFields, ReservationFields DEF InMemory, InPolicy, Live, Pending, Active, Known
<1>2. rs \in SUBSET Reservations /\ IsFiniteSet(rs)
  BY <1>1, RowsTyped, WeightTyped
<1>3. new.start \in Int /\ new.end \in Int /\ new.tokens \in Nat
  BY ReservationFields
<1>4. \E m \in Moments(new) :
        m \in Int /\ new.start <= m /\ m <= t /\ \A r \in rs : reservations[r].start <= m
  <2>1. CASE \A r \in rs : reservations[r].start <= new.start
    <3>1. new.start \in Moments(new)
      BY DEF Moments
    <3> QED
      BY <1>3, <2>1, <3>1
  <2>2. CASE \E r \in rs : ~(reservations[r].start <= new.start)
    <3>1. PICK k \in rs : \A r \in rs : from[r] <= from[k]
      <4>1. rs # {} /\ \A r \in rs : from[r] \in Int
        BY <1>1, <2>2
      <4> HIDE DEF rs, from
      <4> QED
        BY <1>2, <4>1, OneIsGreatest
    <3>2. \A r \in rs : reservations[r].start <= reservations[k].start
      BY <3>1
    <3>3. reservations[k].start \in Moments(new)
      BY <1>1 DEF Moments
    <3>4. new.start <= reservations[k].start
      BY <1>1, <1>3, <2>2, <3>2
    <3> QED
      BY <1>1, <3>2, <3>3, <3>4
  <2> QED
    BY <2>1, <2>2
<1>5. PICK m \in Moments(new) :
        m \in Int /\ new.start <= m /\ m <= t /\ \A r \in rs : reservations[r].start <= m
  BY <1>4
<1>6. rs \subseteq under(m)
  BY <1>1, <1>5
<1>7. under(m) \in SUBSET Known /\ under(m) \in SUBSET Reservations
  BY DEF Known
<1>8. TokensOf(under(m)) + new.tokens <= MaxTokens
  <2>1. Reserved(new, m) <= MaxTokens
    BY <1>5 DEF NoConflict
  <2>2. new.start <= m /\ m < new.end
    BY <1>3, <1>5
  <2> QED
    BY <2>1, <2>2 DEF Reserved
<1> HIDE DEF rs, under
<1>9. TokensOf(under(m)) = Weight(reservationRow, under(m))
  BY <1>7, TokensOfRows
<1>10. /\ Weight(reservationRow, rs) <= Weight(reservationRow, under(m))
       /\ Weight(reservationRow, rs) \in Int /\ Weight(reservationRow, under(m)) \in Int
  BY <1>2, <1>6, <1>7, RowsTyped, WeightOfSubset, WeightTyped
<1>11. new.tokens + Weight(reservationRow, rs) <= MaxTokens
  BY <1>3, <1>8, <1>9, <1>10, InputsAssumption
<1> QED
  BY <1>11 DEF rs

LEMMA BookedReserving ==
  ASSUME BaseInv, RowsInv, BookedInv, BaseInv', Reserving
  PROVE  BookedInv'
<1>1. PICK r \in Reservations, p \in Policies, c \in Callers, n \in Amounts, start \in Int,
           end \in Int : CreateReservation(r, p, c, n, start, end)
  BY DEF Reserving
<1>2. PICK new \in QuotaReservation :
        /\ new.policy = p /\ new.tokens = n /\ new.start = start /\ new.end = end /\ start < end
        /\ new.status = IF start <= now THEN "active" ELSE "pending"
        /\ NoConflict(new) /\ reservationRow[r] = None /\ reservations[r] = None
        /\ reservations' = [reservations EXCEPT ![r] = new]
        /\ reservationRow' = [reservationRow EXCEPT ![r] = new]
        /\ up /\ todo = <<>> /\ UNCHANGED <<now, up>>
  BY <1>1, CreateReservationStep
<1>3. /\ reservations'[r] = new /\ reservationRow'[r] = new /\ new # None
      /\ new.status \in {"pending", "active"}
      /\ \A s \in Reservations \ {r} : /\ reservations'[s] = reservations[s]
                                       /\ reservationRow'[s] = reservationRow[s]
  BY <1>2, NoneIsNone DEF BaseInv, TypeOK
<1>4. \A s \in Reservations : ~StatusDue(s)
  BY <1>2, NoTasksNow
<1>5. reservationRow \in Rows /\ reservationRow' \in Rows
  BY RowsTyped
<1>6. \A s \in Reservations \ {r} : TokensIn(reservationRow')[s] = TokensIn(reservationRow)[s]
  BY <1>3 DEF TokensIn
<1>7. ASSUME NEW x \in Policies, NEW t \in Int
      PROVE  /\ InMemory(x, t)' \in SUBSET Reservations
             /\ InMemory(x, t)' \ {r} = InMemory(x, t) /\ r \notin InMemory(x, t)
             /\ r \in InMemory(x, t)' => x = p /\ start <= t /\ t < end
             /\ InRows(x, t)' \subseteq InMemory(x, t)'
  <2>1. \A s \in Reservations \ {r} : Live(s)' <=> Live(s)
    BY <1>3 DEF Live
  <2>2. r \notin InMemory(x, t)
    BY <1>2 DEF InMemory, InPolicy
  <2>3. InMemory(x, t)' \ {r} = InMemory(x, t)
    BY <1>3, <2>1, <2>2 DEF InMemory, InPolicy
  <2>4. r \in InMemory(x, t)' => x = p /\ start <= t /\ t < end
    BY <1>2, <1>3 DEF InMemory, InPolicy
  <2>5. ASSUME NEW s \in InRows(x, t)'
        PROVE  s \in InMemory(x, t)'
    <3>1. /\ s \in Reservations /\ reservationRow'[s] # None /\ reservationRow'[s].policy = x
          /\ reservationRow'[s].start <= t /\ t < reservationRow'[s].end /\ LiveRow(s)'
      BY <2>5 DEF InRows, InPolicy
    <3>2. CASE s = r
      BY <1>3, <3>1, <3>2 DEF InMemory, InPolicy, Live
    <3>3. CASE s # r
      <4>1. /\ reservationRow'[s] = reservationRow[s] /\ reservations'[s] = reservations[s]
            /\ LiveRow(s)
        BY <1>2, <1>3, <3>1, <3>3 DEF LiveRow
      <4>2. s \in Known
        BY <1>2, <3>1, <4>1 DEF RowsInv, LiveRow
      <4>3. Live(s) /\ SameReservation(reservations[s], reservationRow[s]) /\ reservations[s] # None
        BY <1>4, <3>1, <4>1, <4>2 DEF RowsInv, Known
      <4> QED
        BY <2>1, <3>1, <3>3, <4>1, <4>3 DEF SameReservation, InMemory, InPolicy
    <3> QED
      BY <3>2, <3>3
  <2>6. InMemory(x, t)' \in SUBSET Reservations
    BY DEF InMemory, InPolicy
  <2> QED
    BY <2>2, <2>3, <2>4, <2>5, <2>6
<1>8. ASSUME NEW x \in Policies, NEW t \in Int
      PROVE  /\ Weight(reservationRow', InMemory(x, t)') <= MaxTokens
             /\ Weight(reservationRow', InRows(x, t)') <= MaxTokens
  <2>1. PICK rs, ss, us : rs = InMemory(x, t)' /\ ss = InRows(x, t)' /\ us = InMemory(x, t)
    OBVIOUS
  <2>2. /\ rs \in SUBSET Reservations /\ rs \ {r} = us /\ r \notin us /\ ss \in SUBSET rs
        /\ r \in rs => x = p /\ start <= t /\ t < end
    BY <1>7, <2>1
  <2>3. us \in SUBSET Reservations /\ ss \in SUBSET Reservations
    BY <2>2
  <2>4. Weight(reservationRow', us) = Weight(reservationRow, us)
    BY <1>5, <1>6, <2>2, <2>3, WeightSame
  <2>5. Weight(reservationRow', rs) <= MaxTokens
    <3>1. CASE r \notin rs
      <4>1. rs = us
        BY <2>2, <3>1
      <4> QED
        BY <2>1, <2>4, <4>1, BookedIs
    <3>2. CASE r \in rs
      <4>1. rs = us \cup {r}
        BY <2>2, <3>2
      <4>2. Weight(reservationRow', rs) = TokensIn(reservationRow')[r] + Weight(reservationRow', us)
        BY <1>5, <2>2, <2>3, <4>1, WeightAdded
      <4>3. TokensIn(reservationRow')[r] = new.tokens
        BY <1>3, <1>5, TokensTyped
      <4>4. new.tokens + Weight(reservationRow, us) <= MaxTokens
        BY <1>2, <2>1, <2>2, <3>2, ReservedEarlier
      <4> QED
        BY <2>4, <4>2, <4>3, <4>4
    <3> QED
      BY <3>1, <3>2
  <2>6. /\ Weight(reservationRow', ss) <= Weight(reservationRow', rs)
        /\ Weight(reservationRow', ss) \in Int /\ Weight(reservationRow', rs) \in Int
    BY <1>5, <2>2, <2>3, WeightOfSubset, WeightTyped
  <2>7. Weight(reservationRow', ss) <= MaxTokens
    BY <2>5, <2>6, InputsAssumption
  <2> QED
    BY <2>1, <2>5, <2>7
<1> QED
  BY <1>8 DEF BookedInv, Fits, InMemory, InRows

LEMMA BookedNext ==
  ASSUME BaseInv, RowsInv, BookedInv, BaseInv', Next
  PROVE  BookedInv'
<1>1. BookStep
  BY NextStep
<1>2. CASE BookQuiet
  BY <1>2, BookedQuietly DEF BookQuiet
<1>3. CASE BoundAnew
  <2>1. UNCHANGED <<reservations, reservationRow, now>>
    BY <1>3, BindCallerStep DEF BoundAnew
  <2> QED
    BY <2>1, BookedQuietly
<1> QED
  BY <1>1, <1>2, <1>3, BookedReserving, BookedMarking, BookedWritten, BookedLost, BookedLoaded,
     BookedElapse DEF BookStep

LEMMA InitBooked ==
  ASSUME Init
  PROVE  BookedInv
<1>1. \A r \in Reservations : reservations[r] = None /\ reservationRow[r] = None
  BY DEF Init
<1>2. \A p, t : InMemory(p, t) = {} /\ InRows(p, t) = {}
  BY <1>1 DEF InMemory, InRows, InPolicy
<1> QED
  BY <1>2, BookedIs, WeightOfNone, InputsAssumption

LEMMA BookAlways == Spec => [](BaseInv /\ RowsInv /\ BookedInv)
<1>1. Init => BaseInv /\ RowsInv /\ BookedInv
  BY InitBase, InitRows, InitBooked
<1>2. BaseInv /\ RowsInv /\ BookedInv /\ [Next]_vars => BaseInv' /\ RowsInv' /\ BookedInv'
  <2>1. CASE UNCHANGED vars
    <3>1. ASSUME BaseInv, RowsInv, BookedInv
          PROVE  BaseInv' /\ RowsInv' /\ BookedInv'
      <4>1. BaseInv' /\ RowsInv'
        BY <2>1, <3>1, BaseStutters, RowsStutter
      <4>2. UNCHANGED <<reservations, reservationRow, now>>
        BY <2>1 DEF vars, memory, tables
      <4> QED
        BY <3>1, <4>1, <4>2, BookedQuietly
    <3> QED
      BY <3>1
  <2>2. CASE Next
    BY <2>2, NextStep, RowsNext, BookedNext
  <2> QED
    BY <2>1, <2>2
<1> QED
  BY <1>1, <1>2, PTL DEF Spec

(* No policy is ever overbooked, at no moment past or to come:             *)
(* checkConflictLocked (manager.go:1135-1180) looks only at the moments    *)
(* where a reservation begins or ends, and what it does not see, a row     *)
(* whose status is still to be written, a restart or a late completion,    *)
(* never adds to what is reserved.                                         *)
THEOREM BookCorrect == Spec => []NeverOverbooked
<1>1. ASSUME BaseInv, RowsInv, BookedInv
      PROVE  NeverOverbooked
  <2>1. SUFFICES ASSUME NEW p \in Policies, NEW t \in {reservations[s].start : s \in Known}
                 PROVE  TokensOf({r \in Known : /\ Pending(r) \/ Active(r)
                                                /\ reservations[r].policy = p
                                                /\ reservations[r].start <= t
                                                /\ t < reservations[r].end}) <= MaxTokens
    BY DEF NeverOverbooked
  <2> DEFINE rs == {r \in Known : /\ Pending(r) \/ Active(r)
                                  /\ reservations[r].policy = p
                                  /\ reservations[r].start <= t /\ t < reservations[r].end}
  <2>2. t \in Int
    BY <1>1, RowFields, ReservationFields DEF Known
  <2>3. rs = InMemory(p, t) /\ rs \in SUBSET Known
    BY DEF InMemory, InPolicy, Known, Live, Pending, Active
  <2>4. Weight(reservationRow, InMemory(p, t)) <= MaxTokens
    BY <1>1, <2>2, BookedIs
  <2> HIDE DEF rs
  <2>5. TokensOf(rs) <= MaxTokens
    BY <1>1, <2>3, <2>4, TokensOfRows
  <2> QED
    BY <2>5 DEF rs
<1> QED
  BY <1>1, BookAlways, PTL

-----------------------------------------------------------------------------
(* What is reserved stays with the caller. *)

ActiveOf(c) == {r \in Known : Active(r) /\ reservations[r].caller = c}
ActiveRowsOf(c) ==
  {r \in Reservations : /\ reservationRow[r] # None /\ reservationRow[r].caller = c
                        /\ reservationRow[r].status = "active" /\ reservationRow[r].end >= now}

LEMMA KeptIs ==
  KeptInv <=>
    (~torn /\ ~rebound =>
       \A c \in Callers :
         /\ bindings[c] # None => Weight(reservationRow, ActiveOf(c)) <= bindings[c].reserved
         /\ ~up /\ bindingRow[c] # None =>
              Weight(reservationRow, ActiveRowsOf(c)) <= bindingRow[c].reserved)
BY DEF KeptInv, ActiveOf, ActiveRowsOf

LEMMA ActiveOfTyped ==
  ASSUME BaseInv, NEW c
  PROVE  /\ ActiveOf(c) \in SUBSET Reservations /\ ActiveRowsOf(c) \in SUBSET Reservations
         /\ Weight(reservationRow, ActiveOf(c)) \in Int
         /\ Weight(reservationRow, ActiveRowsOf(c)) \in Int
<1>1. ActiveOf(c) \in SUBSET Reservations /\ ActiveRowsOf(c) \in SUBSET Reservations
  BY DEF ActiveOf, ActiveRowsOf, Known
<1> QED
  BY <1>1, RowsTyped, WeightTyped

LEMMA ReservedTyped ==
  ASSUME BaseInv, NEW c \in Callers
  PROVE  /\ bindings[c] # None => bindings[c].reserved \in Nat
         /\ bindingRow[c] # None => bindingRow[c].reserved \in Nat
BY BindingFields DEF BaseInv, TypeOK

(* While the process runs only the memory counts.                          *)
LEMMA KeptUp ==
  ASSUME up', ~torn' /\ ~rebound' =>
           \A c \in Callers : bindings'[c] # None =>
             Weight(reservationRow', ActiveOf(c)') <= bindings'[c].reserved
  PROVE  KeptInv'
BY DEF KeptInv, ActiveOf

LEMMA KeptQuietly ==
  ASSUME KeptInv, up', SameBound(bindings, bindings'), SameReserved(bindings, bindings'),
         UNCHANGED <<reservations, reservationRow, torn, rebound>>
  PROVE  KeptInv'
<1>1. \A c \in Callers : ActiveOf(c)' = ActiveOf(c)
  BY DEF ActiveOf, Known, Active
<1>2. ASSUME ~torn', ~rebound', NEW c \in Callers, bindings'[c] # None
      PROVE  Weight(reservationRow', ActiveOf(c)') <= bindings'[c].reserved
  <2>1. bindings[c] # None /\ bindings'[c].reserved = bindings[c].reserved
    BY <1>2 DEF SameBound, SameReserved
  <2>2. ~torn /\ ~rebound
    BY <1>2
  <2> QED
    BY <1>1, <2>1, <2>2, KeptIs
<1> QED
  BY <1>2, KeptUp

LEMMA KeptWritten ==
  ASSUME BaseInv, KeptInv, BaseInv', UpdateReservationStatus
  PROVE  KeptInv'
<1>1. PICK x : x = Task.reservation
  OBVIOUS
<1>2. /\ x \in Known /\ x \in Reservations
      /\ reservationRow'[x] \in QuotaReservation
      /\ SameReservation(reservationRow[x], reservationRow'[x])
      /\ \A r \in Reservations \ {x} : reservationRow'[r] = reservationRow[r]
      /\ up /\ UNCHANGED <<bindings, reservations, up, torn, rebound>>
  BY <1>1, StatusWritten
<1>3. reservationRow[x] # None /\ reservationRow'[x] # None
  BY <1>2, AllBound, NoneIsNone DEF Known
<1>4. \A r \in Reservations : TokensIn(reservationRow')[r] = TokensIn(reservationRow)[r]
  BY <1>2, <1>3 DEF TokensIn, SameReservation
<1>5. \A c \in Callers : ActiveOf(c)' = ActiveOf(c)
  BY <1>2 DEF ActiveOf, Known, Active
<1>6. \A c \in Callers : Weight(reservationRow', ActiveOf(c)') = Weight(reservationRow, ActiveOf(c))
  BY <1>4, <1>5, ActiveOfTyped, RowsTyped, WeightSame
<1> QED
  BY <1>2, <1>6, KeptIs, KeptUp

LEMMA KeptReserving ==
  ASSUME BaseInv, KeptInv, BaseInv', Reserving
  PROVE  KeptInv'
<1>1. PICK r \in Reservations, p \in Policies, c \in Callers, n \in Amounts, start \in Int,
           end \in Int : CreateReservation(r, p, c, n, start, end)
  BY DEF Reserving
<1>2. PICK new \in QuotaReservation :
        /\ new.caller = c /\ new.tokens = n
        /\ new.status = IF start <= now THEN "active" ELSE "pending"
        /\ reservationRow[r] = None /\ reservations[r] = None
        /\ reservations' = [reservations EXCEPT ![r] = new]
        /\ reservationRow' = [reservationRow EXCEPT ![r] = new]
        /\ ReservedMore(bindings, bindings', c, IF start <= now THEN n ELSE 0)
        /\ LoanQuiet
        /\ up /\ UNCHANGED <<now, up, torn, rebound>>
  BY <1>1, CreateReservationStep
<1>3. /\ reservations'[r] = new /\ reservationRow'[r] = new /\ new # None
      /\ \A s \in Reservations \ {r} : /\ reservations'[s] = reservations[s]
                                       /\ reservationRow'[s] = reservationRow[s]
  BY <1>2, NoneIsNone DEF BaseInv, TypeOK
<1>4. reservationRow \in Rows /\ reservationRow' \in Rows
  BY RowsTyped
<1>5. \A s \in Reservations \ {r} : TokensIn(reservationRow')[s] = TokensIn(reservationRow)[s]
  BY <1>3 DEF TokensIn
<1>6. ASSUME ~torn', ~rebound', NEW x \in Callers, bindings'[x] # None
      PROVE  Weight(reservationRow', ActiveOf(x)') <= bindings'[x].reserved
  <2>1. /\ bindings[x] # None
        /\ bindings'[x].reserved =
             bindings[x].reserved + IF x = c THEN IF start <= now THEN n ELSE 0 ELSE 0
    BY <1>2, <1>6 DEF LoanQuiet, SameBound, ReservedMore
  <2>2. /\ r \notin ActiveOf(x)
        /\ ActiveOf(x)' = IF x = c /\ start <= now THEN ActiveOf(x) \cup {r} ELSE ActiveOf(x)
    BY <1>2, <1>3 DEF ActiveOf, Known, Active
  <2>3. Weight(reservationRow', ActiveOf(x)) = Weight(reservationRow, ActiveOf(x))
    BY <1>4, <1>5, <2>2, ActiveOfTyped, WeightSame
  <2>4. Weight(reservationRow, ActiveOf(x)) <= bindings[x].reserved
    <3>1. ~torn /\ ~rebound
      BY <1>2, <1>6
    <3> QED
      BY <2>1, <3>1, KeptIs
  <2>5. Weight(reservationRow, ActiveOf(x)) \in Int /\ bindings[x].reserved \in Nat
    BY <2>1, ActiveOfTyped, ReservedTyped
  <2>6. n \in Nat
    BY InputsAssumption
  <2>7. CASE x = c /\ start <= now
    <3>1. Weight(reservationRow', ActiveOf(x)') =
            TokensIn(reservationRow')[r] + Weight(reservationRow', ActiveOf(x))
      BY <1>4, <2>2, <2>7, ActiveOfTyped, WeightAdded
    <3>2. TokensIn(reservationRow')[r] = n
      BY <1>2, <1>3, <1>4, TokensTyped
    <3> QED
      BY <2>1, <2>3, <2>4, <2>5, <2>6, <2>7, <3>1, <3>2
  <2>8. CASE ~(x = c /\ start <= now)
    BY <2>1, <2>2, <2>3, <2>4, <2>5, <2>8
  <2> QED
    BY <2>7, <2>8
<1>7. up'
  BY <1>2
<1> QED
  BY <1>6, <1>7, KeptUp

LEMMA KeptMarking ==
  ASSUME BaseInv, RowsInv, KeptInv, BaseInv', Marking
  PROVE  KeptInv'
<1>1. PICK r \in Reservations, status \in {"active", "completed", "cancelled"} :
        MarkedOne(r, status)
  BY MarkedByOne
<1>2. /\ Known' = Known /\ r \in Known /\ reservations'[r].status = status
      /\ SameReservation(reservations[r], reservations'[r])
      /\ \A s \in Reservations \ {r} : reservations'[s] = reservations[s]
  BY <1>1, MarkedFields
<1>3. PICK c, n : c = reservations[r].caller /\ n = reservations[r].tokens
  OBVIOUS
<1>4. /\ up' /\ SameBound(bindings, bindings')
      /\ \/ /\ status \in {"cancelled", "completed"} /\ Active(r)
            /\ ReservedLess(bindings, bindings', c, n)
         \/ status = "cancelled" /\ Pending(r) /\ bindings' = bindings
         \/ /\ status = "active" /\ Pending(r)
            /\ ReservedMore(bindings, bindings', c, n)
      /\ UNCHANGED <<reservationRow, torn, rebound>>
  BY <1>1, <1>3 DEF MarkedOne
<1>5. /\ c \in Callers /\ n \in Nat /\ r \in Reservations /\ reservations[r] # None
      /\ TokensIn(reservationRow)[r] = n /\ reservationRow \in Rows
  <2>1. reservations[r] # None /\ reservationRow[r] # None
    BY <1>2 DEF Known, BaseInv, BoundInv
  <2>2. SameReservation(reservations[r], reservationRow[r])
    BY <1>2 DEF RowsInv
  <2> QED
    BY <1>3, <2>1, <2>2, RowFields, ReservationFields, RowsTyped, TokensTyped DEF SameReservation
<1>6. ASSUME ~torn', ~rebound', NEW x \in Callers, bindings'[x] # None
      PROVE  Weight(reservationRow', ActiveOf(x)') <= bindings'[x].reserved
  <2>1. bindings[x] # None
    BY <1>4, <1>6 DEF SameBound
  <2>2. Weight(reservationRow, ActiveOf(x)) <= bindings[x].reserved
    <3>1. ~torn /\ ~rebound
      BY <1>4, <1>6
    <3> QED
      BY <2>1, <3>1, KeptIs
  <2>3. Weight(reservationRow, ActiveOf(x)) \in Int /\ bindings[x].reserved \in Nat
    BY <2>1, ActiveOfTyped, ReservedTyped
  <2>4. ActiveOf(x)' = IF x = c /\ status = "active" THEN ActiveOf(x) \cup {r}
                       ELSE ActiveOf(x) \ {r}
    BY <1>2, <1>3 DEF ActiveOf, Active, SameReservation, Known
  <2>5. r \in ActiveOf(x) <=> x = c /\ Active(r)
    BY <1>2, <1>3 DEF ActiveOf
  <2>6. CASE x # c \/ (status = "cancelled" /\ Pending(r))
    <3>1. r \notin ActiveOf(x)
      BY <2>5, <2>6 DEF Active, Pending
    <3>2. ActiveOf(x)' = ActiveOf(x)
      BY <2>4, <2>6, <3>1
    <3>3. bindings'[x].reserved = bindings[x].reserved
      BY <1>4, <2>1, <2>3, <2>6 DEF ReservedLess, ReservedMore, Active, Pending
    <3> QED
      BY <1>4, <2>2, <3>2, <3>3
  <2>7. CASE x = c /\ status = "active" /\ Pending(r)
    <3>1. r \notin ActiveOf(x)
      BY <2>5, <2>7 DEF Active, Pending
    <3>2. Weight(reservationRow, ActiveOf(x) \cup {r}) = n + Weight(reservationRow, ActiveOf(x))
      BY <1>5, <3>1, ActiveOfTyped, WeightAdded
    <3>3. bindings'[x].reserved = bindings[x].reserved + n
      BY <1>4, <2>1, <2>7 DEF ReservedMore
    <3> QED
      BY <1>4, <1>5, <2>2, <2>3, <2>4, <2>7, <3>2, <3>3
  <2>8. CASE x = c /\ status \in {"cancelled", "completed"} /\ Active(r)
    <3> DEFINE rest == ActiveOf(x) \ {r}
    <3>1. r \in ActiveOf(x) /\ ActiveOf(x) = rest \cup {r} /\ r \notin rest /\ ActiveOf(x)' = rest
      BY <2>4, <2>5, <2>8
    <3>2. rest \in SUBSET Reservations
      BY ActiveOfTyped
    <3> HIDE DEF rest
    <3>3. Weight(reservationRow, rest \cup {r}) = n + Weight(reservationRow, rest)
      BY <1>5, <3>1, <3>2, WeightAdded
    <3>4. Weight(reservationRow, rest) \in Int
      BY <1>5, <3>2, WeightTyped
    <3>5. bindings'[x].reserved = Less(bindings[x].reserved, n)
      BY <1>4, <2>1, <2>8 DEF ReservedLess, Active, Pending
    <3> QED
      BY <1>4, <1>5, <2>2, <2>3, <3>1, <3>3, <3>4, <3>5 DEF Less
  <2> QED
    BY <1>4, <2>6, <2>7, <2>8
<1> QED
  BY <1>4, <1>6, KeptUp

LEMMA KeptBound ==
  ASSUME BaseInv, KeptInv, BaseInv', BoundAnew
  PROVE  KeptInv'
<1>1. PICK x \in Callers, p \in Policies, q \in Quotas : BindCaller(x, p, q)
  BY DEF BoundAnew
<1>2. /\ up /\ UNCHANGED <<up, reservations, reservationRow, torn>>
      /\ bindings' = [bindings EXCEPT ![x] = Fresh(p, q)]
      /\ rebound' = (rebound \/ IsBound(x))
  BY <1>1, BindCallerStep
<1>3. ASSUME ~torn', ~rebound', NEW c \in Callers, bindings'[c] # None
      PROVE  Weight(reservationRow', ActiveOf(c)') <= bindings'[c].reserved
  <2>1. ~torn /\ ~rebound /\ ~IsBound(x)
    BY <1>2, <1>3
  <2>2. ActiveOf(c)' = ActiveOf(c)
    BY <1>2 DEF ActiveOf, Known, Active
  <2>3. CASE c = x
    <3>1. ActiveOf(c) = {}
      BY <1>2, <2>1, <2>3, AllBound DEF ActiveOf, Known
    <3>2. bindings'[c].reserved = 0
      BY <1>2, <2>3 DEF Fresh, BaseInv, TypeOK
    <3> QED
      BY <2>2, <3>1, <3>2, WeightOfNone
  <2>4. CASE c # x
    <3>1. bindings'[c] = bindings[c]
      BY <1>2, <2>4 DEF BaseInv, TypeOK
    <3> QED
      BY <1>2, <1>3, <2>1, <2>2, <3>1, KeptIs
  <2> QED
    BY <2>3, <2>4
<1>4. up'
  BY <1>2
<1> QED
  BY <1>3, <1>4, KeptUp

LEMMA KeptLost ==
  ASSUME BaseInv, RowsInv, KeptInv, BaseInv', Crash
  PROVE  KeptInv'
<1>1. /\ up /\ \A c \in Callers : bindings'[c] = None
      /\ torn' = (torn \/ \E c \in Bound : bindings[c].reserved # bindingRow[c].reserved
                       \/ \E r \in Known : reservations[r].status # reservationRow[r].status)
      /\ UNCHANGED <<bindingRow, reservationRow, now, rebound>>
  BY CrashStep
<1>2. ASSUME ~torn', ~rebound', NEW c \in Callers, bindingRow'[c] # None
      PROVE  Weight(reservationRow', ActiveRowsOf(c)') <= bindingRow'[c].reserved
  <2>1. bindings[c] # None /\ c \in Bound
    BY <1>1, <1>2, AllBound DEF Bound
  <2>2. /\ ~torn /\ ~rebound /\ bindings[c].reserved = bindingRow[c].reserved
        /\ \A r \in Known : reservations[r].status = reservationRow[r].status
    BY <1>1, <1>2, <2>1
  <2>3. ActiveRowsOf(c)' = ActiveRowsOf(c)
    BY <1>1 DEF ActiveRowsOf
  <2>4. ActiveRowsOf(c) \subseteq ActiveOf(c)
    <3>1. SUFFICES ASSUME NEW r \in ActiveRowsOf(c)
                   PROVE  r \in ActiveOf(c)
      OBVIOUS
    <3>2. /\ r \in Reservations /\ reservationRow[r] # None /\ reservationRow[r].caller = c
          /\ reservationRow[r].status = "active"
      BY DEF ActiveRowsOf
    <3>3. r \in Known
      BY <1>1, <3>2 DEF RowsInv
    <3>4. reservations[r].status = "active" /\ reservations[r].caller = c
      BY <2>2, <3>2, <3>3 DEF RowsInv, SameReservation
    <3> QED
      BY <3>3, <3>4 DEF ActiveOf, Active
  <2>5. Weight(reservationRow, ActiveOf(c)) <= bindings[c].reserved
    BY <2>1, <2>2, KeptIs
  <2>6. Weight(reservationRow, ActiveRowsOf(c)) <= Weight(reservationRow, ActiveOf(c))
    BY <2>4, ActiveOfTyped, RowsTyped, WeightOfSubset
  <2>7. /\ Weight(reservationRow, ActiveOf(c)) \in Int /\ bindings[c].reserved \in Nat
        /\ Weight(reservationRow, ActiveRowsOf(c)) \in Int
    BY <2>1, ActiveOfTyped, ReservedTyped
  <2> QED
    BY <1>1, <2>2, <2>3, <2>5, <2>6, <2>7
<1> QED
  BY <1>1, <1>2 DEF KeptInv, ActiveRowsOf

LEMMA KeptLoaded ==
  ASSUME BaseInv, KeptInv, BaseInv', Start
  PROVE  KeptInv'
<1>1. /\ ~up /\ up'
      /\ \A c \in Callers : /\ bindings'[c] = None <=> bindingRow[c] = None
                            /\ bindingRow[c] # None => SameTerms(bindingRow[c], bindings'[c])
      /\ \A r \in Reservations : reservations'[r] = LoadReservation(r)
      /\ UNCHANGED <<bindingRow, reservationRow, now, torn, rebound>>
  BY StartStep
<1>2. ASSUME ~torn', ~rebound', NEW c \in Callers, bindings'[c] # None
      PROVE  Weight(reservationRow', ActiveOf(c)') <= bindings'[c].reserved
  <2>1. /\ ~torn /\ ~rebound /\ bindingRow[c] # None
        /\ bindings'[c].reserved = bindingRow[c].reserved
    BY <1>1, <1>2 DEF SameTerms
  <2>2. ActiveOf(c)' \subseteq ActiveRowsOf(c)
    <3>1. SUFFICES ASSUME NEW r \in ActiveOf(c)'
                   PROVE  r \in ActiveRowsOf(c)
      OBVIOUS
    <3>2. /\ r \in Reservations /\ reservations'[r] # None /\ reservations'[r].status = "active"
          /\ reservations'[r].caller = c
      BY DEF ActiveOf, Known, Active
    <3>3. /\ reservationRow[r] # None /\ reservationRow[r].caller = c
          /\ reservationRow[r].status = "active" /\ ~(reservationRow[r].end < now)
      BY <1>1, <3>2, LoadedReservation DEF SameReservation
    <3>4. reservationRow[r].end \in Int /\ now \in Int
      BY <3>2, <3>3, RowFields, ReservationFields
    <3> QED
      BY <3>2, <3>3, <3>4 DEF ActiveRowsOf
  <2>3. Weight(reservationRow, ActiveRowsOf(c)) <= bindingRow[c].reserved
    BY <1>1, <2>1, KeptIs
  <2>4. PICK rs : rs = ActiveOf(c)'
    OBVIOUS
  <2>5. rs \in SUBSET ActiveRowsOf(c) /\ rs \in SUBSET Reservations
    BY <2>2, <2>4, ActiveOfTyped
  <2>6. Weight(reservationRow, rs) <= Weight(reservationRow, ActiveRowsOf(c))
    BY <2>5, ActiveOfTyped, RowsTyped, WeightOfSubset
  <2>7. /\ Weight(reservationRow, rs) \in Int /\ bindingRow[c].reserved \in Nat
        /\ Weight(reservationRow, ActiveRowsOf(c)) \in Int
    BY <2>1, <2>5, ActiveOfTyped, ReservedTyped, RowsTyped, WeightTyped
  <2> QED
    BY <1>1, <2>1, <2>3, <2>4, <2>6, <2>7
<1> QED
  BY <1>1, <1>2, KeptUp

LEMMA KeptElapse ==
  ASSUME BaseInv, KeptInv, BaseInv', Elapse
  PROVE  KeptInv'
<1>1. /\ now' = now + 1
      /\ UNCHANGED <<bindings, reservations, bindingRow, reservationRow, up, torn, rebound>>
  BY ElapseStep
<1>2. ASSUME NEW c
      PROVE  /\ ActiveOf(c)' = ActiveOf(c) /\ ActiveRowsOf(c)' \subseteq ActiveRowsOf(c)
             /\ Weight(reservationRow, ActiveRowsOf(c)')
                  <= Weight(reservationRow, ActiveRowsOf(c))
             /\ Weight(reservationRow, ActiveRowsOf(c)') \in Int
             /\ Weight(reservationRow, ActiveRowsOf(c)) \in Int
  <2>1. ActiveOf(c)' = ActiveOf(c)
    BY <1>1 DEF ActiveOf, Known, Active
  <2>2. ActiveRowsOf(c)' \subseteq ActiveRowsOf(c)
    <3>1. SUFFICES ASSUME NEW r \in ActiveRowsOf(c)'
                   PROVE  r \in ActiveRowsOf(c)
      OBVIOUS
    <3>2. /\ r \in Reservations /\ reservationRow[r] # None /\ reservationRow[r].caller = c
          /\ reservationRow[r].status = "active" /\ reservationRow[r].end >= now + 1
      BY <1>1 DEF ActiveRowsOf
    <3>3. reservationRow[r].end \in Int /\ now \in Int
      BY <3>2, RowFields, ReservationFields
    <3> QED
      BY <3>2, <3>3 DEF ActiveRowsOf
  <2>3. PICK rs : rs = ActiveRowsOf(c)'
    OBVIOUS
  <2>4. rs \in SUBSET ActiveRowsOf(c) /\ rs \in SUBSET Reservations
    BY <2>2, <2>3, ActiveOfTyped
  <2>5. Weight(reservationRow, rs) <= Weight(reservationRow, ActiveRowsOf(c))
    BY <2>4, ActiveOfTyped, RowsTyped, WeightOfSubset
  <2>6. Weight(reservationRow, rs) \in Int /\ Weight(reservationRow, ActiveRowsOf(c)) \in Int
    BY <2>4, ActiveOfTyped, RowsTyped, WeightTyped
  <2> QED
    BY <2>1, <2>2, <2>3, <2>5, <2>6
<1>3. ASSUME ~torn', ~rebound', NEW c \in Callers
      PROVE  /\ bindings'[c] # None => Weight(reservationRow', ActiveOf(c)') <= bindings'[c].reserved
             /\ ~up' /\ bindingRow'[c] # None =>
                  Weight(reservationRow', ActiveRowsOf(c)') <= bindingRow'[c].reserved
  <2>1. ~torn /\ ~rebound
    BY <1>1, <1>3
  <2>2. bindings'[c] # None => Weight(reservationRow', ActiveOf(c)') <= bindings'[c].reserved
    BY <1>1, <1>2, <2>1, KeptIs
  <2>3. ASSUME ~up', bindingRow'[c] # None
        PROVE  Weight(reservationRow', ActiveRowsOf(c)') <= bindingRow'[c].reserved
    <3>1. Weight(reservationRow, ActiveRowsOf(c)) <= bindingRow[c].reserved
      BY <1>1, <2>1, <2>3, KeptIs
    <3>2. bindingRow[c].reserved \in Nat
      BY <1>1, <2>3, ReservedTyped
    <3> QED
      BY <1>1, <1>2, <3>1, <3>2
  <2> QED
    BY <2>2, <2>3
<1> QED
  BY <1>3 DEF KeptInv, ActiveOf, ActiveRowsOf

LEMMA KeptNext ==
  ASSUME BaseInv, RowsInv, KeptInv, BaseInv', Next
  PROVE  KeptInv'
<1>1. BookStep
  BY NextStep
<1>2. CASE Start
  BY <1>2, KeptLoaded
<1>3. CASE Elapse
  BY <1>3, KeptElapse
<1>4. CASE BookQuiet /\ ~Start /\ ~Elapse
  <2>1. up
    BY <1>4, RunningUnless
  <2>2. up'
    BY <1>4, <2>1 DEF BookQuiet
  <2> QED
    BY <1>4, <2>2, KeptQuietly DEF BookQuiet
<1> QED
  BY <1>1, <1>2, <1>3, <1>4, KeptReserving, KeptMarking, KeptWritten, KeptBound, KeptLost
  DEF BookStep

LEMMA KeptStutter ==
  ASSUME KeptInv, UNCHANGED vars
  PROVE  KeptInv'
<1>1. /\ UNCHANGED <<bindings, reservations, bindingRow, reservationRow, now, up, torn, rebound>>
      /\ Known' = Known
  BY DEF vars, memory, tables, history, Known
<1> QED
  BY <1>1 DEF KeptInv, Active

LEMMA InitKept ==
  ASSUME Init
  PROVE  KeptInv
<1>1. \A c \in Callers : bindings[c] = None /\ bindingRow[c] = None
  BY DEF Init
<1> QED
  BY <1>1 DEF KeptInv

(* Whenever no method runs, a caller has the tokens of all its active      *)
(* reservations, unless a crash has cut one in two or the caller was bound *)
(* anew: what completeReservationLocked and CancelReservation take back    *)
(* (manager.go:390-418, 1182-1239) never belongs to another reservation.   *)
THEOREM ReservedCorrect == Spec => []ReservationsKept
<1>1. Init => KeptInv
  BY InitKept
<1>2. /\ BaseInv /\ RowsInv /\ BookedInv /\ BaseInv' /\ KeptInv /\ [Next]_vars => KeptInv'
  <2>1. CASE UNCHANGED vars
    BY <2>1, KeptStutter
  <2>2. CASE Next
    BY <2>2, KeptNext
  <2> QED
    BY <2>1, <2>2
<1>3. BaseInv /\ RowsInv /\ KeptInv => ReservationsKept
  <2>1. SUFFICES ASSUME BaseInv, RowsInv, KeptInv, ~torn, ~rebound, NEW c \in Bound
                 PROVE  TokensOf({r \in Known : Active(r) /\ reservations[r].caller = c})
                          <= bindings[c].reserved
    BY DEF ReservationsKept
  <2>2. c \in Callers /\ bindings[c] # None
    BY DEF Bound
  <2>3. Weight(reservationRow, ActiveOf(c)) <= bindings[c].reserved
    BY <2>1, <2>2, KeptIs
  <2>4. ActiveOf(c) \in SUBSET Known
    BY DEF ActiveOf
  <2>5. TokensOf(ActiveOf(c)) <= bindings[c].reserved
    BY <2>1, <2>3, <2>4, TokensOfRows
  <2> QED
    BY <2>5 DEF ActiveOf
<1>4. BaseInv /\ RowsInv /\ BookedInv => BaseInv
  OBVIOUS
<1> QED
  BY <1>1, <1>2, <1>3, BookAlways, PTL DEF Spec

-----------------------------------------------------------------------------
(* The queue and its table *)

LEMMA NoTaskLeaves ==
  ASSUME \A t \in Tasks : t.do # "remove"
  PROVE  Leaving = {} /\ Staying = waitRows
BY DEF Leaving, Staying

LEMMA LeavingIs == Leaving = {t.id : t \in {u \in QueueTasks : u.do = "remove"}}
BY DEF Leaving, QueueTasks, Quiet

LEMMA LoopsAre == \A t : t \in Tasks /\ IsLoop(t) <=> t \in QueueTasks /\ IsLoop(t)
BY DEF QueueTasks, Quiet, IsLoop

LEMMA QueueQuietly ==
  ASSUME BaseInv, QueueInv, QueueQuiet
  PROVE  QueueInv'
<1>1. /\ QueueTasks' = QueueTasks /\ UNCHANGED <<waitQueue, waitRows, now, up>>
  BY DEF QueueQuiet
<1>2. Waiting' = Waiting
  BY <1>1, WaitingSame
<1>3. Leaving' = Leaving
  BY <1>1, LeavingIs DEF Leaving, QueueTasks, Quiet
<1>4. Staying' = Staying
  BY <1>1, <1>3 DEF Staying
<1>5. InTime(Staying)' = InTime(Staying)
  BY <1>1, <1>4 DEF InTime, Expired
<1>6. ASSUME NEW t \in Tasks', t.do \in {"clean", "grant"}
      PROVE  t \in Tasks
  BY <1>1, <1>6 DEF QueueTasks, Quiet
<1> QED
  BY <1>1, <1>2, <1>4, <1>5, <1>6 DEF QueueInv

LEMMA QueueRest ==
  ASSUME NEW s \in Seq(WaitItem), s # <<>>, InOrder(s)
  PROVE  InOrder(Tail(s)) /\ \A b \in ToSet(Tail(s)) : Head(s).id < b.id
<1>1. /\ Len(s) \in Nat /\ Len(s) > 0 /\ Tail(s) \in Seq(WaitItem)
      /\ Len(Tail(s)) = Len(s) - 1 /\ Head(s) = s[1] /\ DOMAIN s = 1..Len(s)
      /\ DOMAIN Tail(s) = 1..(Len(s) - 1)
  OBVIOUS
<1>2. \A i \in 1..(Len(s) - 1) : Tail(s)[i] = s[i + 1] /\ i + 1 \in 1..Len(s)
  OBVIOUS
<1>3. ASSUME NEW i \in DOMAIN Tail(s), NEW j \in DOMAIN Tail(s), i < j
      PROVE  Tail(s)[i].id < Tail(s)[j].id
  <2>1. /\ i + 1 \in DOMAIN s /\ j + 1 \in DOMAIN s /\ i + 1 < j + 1
        /\ Tail(s)[i] = s[i + 1] /\ Tail(s)[j] = s[j + 1]
    BY <1>1, <1>2, <1>3
  <2> QED
    BY <2>1 DEF InOrder
<1>4. ASSUME NEW b \in ToSet(Tail(s))
      PROVE  Head(s).id < b.id
  <2>1. PICK i \in 1..(Len(s) - 1) : b = Tail(s)[i]
    BY <1>1 DEF ToSet
  <2>2. 1 \in DOMAIN s /\ i + 1 \in DOMAIN s /\ 1 < i + 1 /\ b = s[i + 1]
    BY <2>1, <1>1, <1>2
  <2> QED
    BY <2>2, <1>1 DEF InOrder
<1> QED
  BY <1>3, <1>4 DEF InOrder

LEMMA QueueLonger ==
  ASSUME NEW s \in Seq(WaitItem), NEW x \in WaitItem, InOrder(s), \A a \in ToSet(s) : a.id < x.id
  PROVE  InOrder(Append(s, x)) /\ ToSet(Append(s, x)) = ToSet(s) \cup {x}
<1> DEFINE q == Append(s, x)
<1>1. /\ Len(s) \in Nat /\ DOMAIN s = 1..Len(s) /\ DOMAIN q = 1..(Len(s) + 1)
      /\ q[Len(s) + 1] = x /\ \A i \in 1..Len(s) : q[i] = s[i]
  OBVIOUS
<1> HIDE DEF q
<1>2. ASSUME NEW i \in DOMAIN q, NEW j \in DOMAIN q, i < j
      PROVE  q[i].id < q[j].id
  <2>1. i \in 1..Len(s) /\ q[i] = s[i] /\ s[i] \in ToSet(s)
    <3>1. i \in 1..Len(s)
      BY <1>1, <1>2
    <3> QED
      BY <3>1, <1>1 DEF ToSet
  <2>2. CASE j = Len(s) + 1
    BY <1>1, <2>1, <2>2
  <2>3. CASE j # Len(s) + 1
    <3>1. j \in 1..Len(s) /\ q[j] = s[j]
      BY <1>1, <1>2, <2>3
    <3> QED
      BY <1>1, <1>2, <2>1, <3>1 DEF InOrder
  <2> QED
    BY <2>2, <2>3
<1>3. InOrder(q)
  BY <1>2 DEF InOrder
<1> QED
  BY <1>3, ListAppended DEF q

LEMMA NobodyInLine == InOrder(<<>>) /\ ToSet(<<>>) = {}
BY DEF InOrder, ToSet

LEMMA ItemTyped ==
  ASSUME NEW item \in WaitItem
  PROVE  item.id \in Int /\ item.until \in Int
<1>1. item.id \in Items /\ item.until \in Nat
  BY DEF WaitItem
<1>2. Items \subseteq Nat
  BY BoundsAssumption DEF BoundsAssumption
<1>3. item.id \in Nat
  BY <1>1, <1>2, Zenon
<1> QED
  BY <1>1, <1>3

(* One request of a loop's is done: it goes back to the queue or leaves.   *)
LEMMA QueueLoop ==
  ASSUME BaseInv, QueueInv, todo # <<>>, IsLoop(Task), Task.left # <<>>,
         NEW rest \in Tasks', IsLoop(rest), rest.left = Tail(Task.left),
         \A u \in Tasks' \ {rest} : ~IsLoop(u), UNCHANGED <<waitRows, now, up>>,
         \/ /\ waitQueue' = waitQueue
            /\ Leaving' = Leaving \cup {Head(Task.left).id}
         \/ /\ waitQueue' = Append(waitQueue, Head(Task.left))
            /\ Leaving' = Leaving
  PROVE  QueueInv'
<1>1. PICK item, left : item = Head(Task.left) /\ left = Tail(Task.left)
  OBVIOUS
<1>2. /\ up /\ item \in WaitItem /\ left \in Seq(WaitItem) /\ Task \in Tasks
      /\ Waiting = ToSet(waitQueue) \cup {item} \cup ToSet(left)
  BY <1>1, LoopTask
<1>3. /\ waitQueue \in Seq(WaitItem) /\ waitRows \in SUBSET WaitItem
      /\ ToSet(waitQueue) \subseteq Waiting /\ ToSet(left) \subseteq Waiting
  BY <1>2 DEF BaseInv, TypeOK
<1>4. /\ InOrder(left) /\ \A b \in ToSet(left) : item.id < b.id
      /\ InOrder(waitQueue) /\ \A a \in ToSet(waitQueue) : a.id < item.id
      /\ \A a \in ToSet(waitQueue), b \in ToSet(left) : a.id < b.id
  <2>1. Task.left \in Seq(WaitItem) /\ ToSet(Task.left) = {item} \cup ToSet(left)
    BY <1>1, LoopTask
  <2>2. /\ InOrder(Task.left) /\ InOrder(waitQueue)
        /\ \A a \in ToSet(waitQueue), b \in ToSet(Task.left) : a.id < b.id
    BY <1>2 DEF QueueInv, IsLoop
  <2>3. InOrder(left) /\ \A b \in ToSet(left) : item.id < b.id
    BY <1>1, <2>1, <2>2, QueueRest
  <2> QED
    BY <2>1, <2>2, <2>3
<1>5. Waiting \subseteq Staying /\ InTime(Staying) \subseteq Waiting
  BY <1>2 DEF QueueInv
<1>6. \A x \in Waiting : x \in WaitItem /\ x.id \in Int
  <2>1. Waiting \subseteq WaitItem
    BY <1>3, <1>5 DEF Staying
  <2> QED
    BY <2>1, ItemTyped
<1>7. Waiting' = ToSet(waitQueue') \cup ToSet(left)
  BY <1>1, WaitingInLoopNext
<1>8. \A t \in Tasks' : t.do \in {"clean", "grant"} => t.left = left
  BY <1>1 DEF IsLoop
<1>9. CASE waitQueue' = waitQueue /\ Leaving' = Leaving \cup {item.id}
  <2>1. Waiting' = ToSet(waitQueue) \cup ToSet(left)
    BY <1>7, <1>9
  <2>2. ASSUME NEW x \in ToSet(waitQueue) \cup ToSet(left)
        PROVE  x.id # item.id
    <3>1. x.id \in Int /\ item.id \in Int /\ (x.id < item.id \/ item.id < x.id)
      BY <1>2, <1>3, <1>4, <1>6
    <3> QED
      BY <3>1
  <2>3. Staying' = {x \in Staying : x.id # item.id}
    BY <1>9 DEF Staying
  <2>4. Waiting' \subseteq Staying'
    BY <1>3, <1>5, <2>1, <2>2, <2>3
  <2>5. ASSUME NEW x \in InTime(Staying)'
        PROVE  x \in Waiting'
    <3>1. x \in InTime(Staying) /\ x.id # item.id
      BY <2>3 DEF InTime, Expired
    <3> QED
      BY <1>2, <1>5, <2>1, <3>1
  <2>6. \A t \in Tasks' : t.do \in {"clean", "grant"} =>
          /\ InOrder(t.left) /\ \A a \in ToSet(waitQueue'), b \in ToSet(t.left) : a.id < b.id
    BY <1>4, <1>8, <1>9
  <2> QED
    BY <1>4, <1>9, <2>4, <2>5, <2>6 DEF QueueInv
<1>10. CASE waitQueue' = Append(waitQueue, item) /\ Leaving' = Leaving
  <2>1. InOrder(waitQueue') /\ ToSet(waitQueue') = ToSet(waitQueue) \cup {item}
    BY <1>2, <1>3, <1>4, <1>10, QueueLonger
  <2>2. Waiting' = Waiting /\ Staying' = Staying
    BY <1>2, <1>7, <1>10, <2>1 DEF Staying
  <2>3. InTime(Staying)' = InTime(Staying)
    BY <2>2 DEF InTime, Expired
  <2>4. \A t \in Tasks' : t.do \in {"clean", "grant"} =>
          /\ InOrder(t.left) /\ \A a \in ToSet(waitQueue'), b \in ToSet(t.left) : a.id < b.id
    BY <1>4, <1>8, <2>1
  <2> QED
    BY <1>5, <2>1, <2>2, <2>3, <2>4 DEF QueueInv
<1> QED
  BY <1>1, <1>9, <1>10

LEMMA QueueCleaning ==
  ASSUME BaseInv, QueueInv, CleanUp
  PROVE  QueueInv'
<1>1. PICK item : item = Head(Task.left)
  OBVIOUS
<1>2. PICK rest :
        /\ todo # <<>> /\ IsLoop(Task) /\ Task.left # <<>> /\ UNCHANGED <<waitRows, now, up>>
        /\ rest.do = "clean" /\ rest.left = Tail(Task.left)
        /\ \/ /\ UNCHANGED waitQueue
              /\ Tasks' = {RemoveItem(item), rest} \cup ToSet(Tail(todo))
           \/ /\ waitQueue' = Append(waitQueue, item)
              /\ Tasks' = {rest} \cup ToSet(Tail(todo))
  BY <1>1, CleanUpStep
<1>3. /\ Task.do # "remove" /\ Tasks = {Task} \cup ToSet(Tail(todo))
      /\ \A u \in ToSet(Tail(todo)) : ~IsLoop(u)
  BY <1>2, LoopTask DEF IsLoop
<1>4. Leaving = {t.id : t \in {u \in ToSet(Tail(todo)) : u.do = "remove"}}
  BY <1>3 DEF Leaving
<1>5. RemoveItem(item).do = "remove" /\ RemoveItem(item).id = item.id
  BY DEF RemoveItem
<1>6. IsLoop(rest) /\ rest.do # "remove" /\ rest \in Tasks' /\ ~IsLoop(RemoveItem(item))
  BY <1>2, <1>5 DEF IsLoop
<1>7. \A u \in Tasks' \ {rest} : ~IsLoop(u)
  BY <1>2, <1>3, <1>6
<1>8. CASE waitQueue' = waitQueue /\ Tasks' = {RemoveItem(item), rest} \cup ToSet(Tail(todo))
  <2>1. PICK tl : tl = ToSet(Tail(todo))
    OBVIOUS
  <2>2. {u \in Tasks' : u.do = "remove"}
          = {RemoveItem(item)} \cup {u \in tl : u.do = "remove"}
    BY <1>5, <1>6, <1>8, <2>1
  <2>3. Leaving' = {t.id : t \in {RemoveItem(item)} \cup {u \in tl : u.do = "remove"}}
    BY <2>2 DEF Leaving
  <2>4. Leaving = {t.id : t \in {u \in tl : u.do = "remove"}}
    BY <1>4, <2>1
  <2>5. Leaving' = Leaving \cup {item.id}
    BY <1>5, <2>3, <2>4
  <2> QED
    BY <1>1, <1>2, <1>6, <1>7, <1>8, <2>5, QueueLoop
<1>9. CASE waitQueue' = Append(waitQueue, item) /\ Tasks' = {rest} \cup ToSet(Tail(todo))
  <2>1. {u \in Tasks' : u.do = "remove"} = {u \in ToSet(Tail(todo)) : u.do = "remove"}
    BY <1>6, <1>9
  <2>2. Leaving' = Leaving
    BY <1>4, <2>1 DEF Leaving
  <2> QED
    BY <1>1, <1>2, <1>6, <1>7, <1>9, <2>2, QueueLoop
<1> QED
  BY <1>2, <1>8, <1>9

LEMMA QueueGranting ==
  ASSUME BaseInv, QueueInv, GrantFromQueue
  PROVE  QueueInv'
<1>1. PICK item : item = Head(Task.left)
  OBVIOUS
<1>2. PICK rest :
        /\ todo # <<>> /\ IsLoop(Task) /\ Task.left # <<>> /\ UNCHANGED <<waitRows, now, up>>
        /\ QueueTasks = {Task}
        /\ rest.do = "grant" /\ rest.left = Tail(Task.left)
        /\ \/ /\ UNCHANGED waitQueue
              /\ QueueTasks' = {RemoveItem(item), rest}
           \/ /\ waitQueue' = Append(waitQueue, item)
              /\ QueueTasks' = {rest}
  BY <1>1, GrantFromQueueStep
<1>3. Leaving = {}
  BY <1>2, LeavingIs DEF IsLoop
<1>4. RemoveItem(item).do = "remove" /\ RemoveItem(item).id = item.id
  BY DEF RemoveItem
<1>5. /\ IsLoop(rest) /\ rest.do # "remove" /\ rest \in Tasks' /\ ~IsLoop(RemoveItem(item))
      /\ \A u \in Tasks' \ {rest} : ~IsLoop(u)
  BY <1>2, <1>4 DEF IsLoop, QueueTasks, Quiet
<1>6. Leaving' = {t.id : t \in {u \in QueueTasks' : u.do = "remove"}}
  BY DEF Leaving, QueueTasks, Quiet
<1>7. CASE waitQueue' = waitQueue /\ QueueTasks' = {RemoveItem(item), rest}
  <2>1. Leaving' = Leaving \cup {item.id}
    BY <1>3, <1>4, <1>5, <1>6, <1>7
  <2> QED
    BY <1>1, <1>2, <1>5, <1>7, <2>1, QueueLoop
<1>8. CASE waitQueue' = Append(waitQueue, item) /\ QueueTasks' = {rest}
  <2>1. Leaving' = Leaving
    BY <1>3, <1>5, <1>6, <1>8
  <2> QED
    BY <1>1, <1>2, <1>5, <1>8, <2>1, QueueLoop
<1> QED
  BY <1>2, <1>7, <1>8

(* The queue moves to a loop, or a loop ends.                              *)
LEMMA QueueMoved ==
  ASSUME BaseInv, QueueInv, up, Waiting' = Waiting, Leaving' = Leaving, InOrder(waitQueue'),
         UNCHANGED <<waitRows, now, up>>,
         \A t \in Tasks' : t.do \in {"clean", "grant"} =>
           InOrder(t.left) /\ \A a \in ToSet(waitQueue'), b \in ToSet(t.left) : a.id < b.id
  PROVE  QueueInv'
<1>1. Staying' = Staying
  BY DEF Staying
<1>2. InTime(Staying)' = InTime(Staying)
  BY <1>1 DEF InTime, Expired
<1> QED
  BY <1>1, <1>2 DEF QueueInv

LEMMA QueueToLoop ==
  ASSUME BaseInv, QueueInv, up, QueueTasks = {}, Waiting' = Waiting, waitQueue' = <<>>,
         UNCHANGED <<waitRows, now, up>>, NEW loop, IsLoop(loop), loop.left = waitQueue,
         QueueTasks' = {loop}
  PROVE  QueueInv'
<1>1. Leaving = {}
  BY LeavingIs
<1>2. Leaving' = {t.id : t \in {u \in QueueTasks' : u.do = "remove"}}
  BY DEF Leaving, QueueTasks, Quiet
<1>3. Leaving' = Leaving
  BY <1>1, <1>2 DEF IsLoop
<1>4. \A t \in Tasks' : t.do \in {"clean", "grant"} => t = loop
  BY DEF QueueTasks, Quiet
<1>5. InOrder(waitQueue)
  BY DEF QueueInv
<1> QED
  BY <1>3, <1>4, <1>5, NobodyInLine, QueueMoved

LEMMA QueueTicked ==
  ASSUME BaseInv, QueueInv, RefillTick
  PROVE  QueueInv'
<1>1. PICK loop :
        /\ up /\ UNCHANGED <<waitRows, now, up>> /\ waitQueue' = <<>> /\ QueueTasks = {}
        /\ Waiting' = Waiting /\ loop.do = "clean" /\ loop.left = waitQueue /\ QueueTasks' = {loop}
  BY RefillTickStep
<1> QED
  BY <1>1, QueueToLoop DEF IsLoop

LEMMA QueueRefilled ==
  ASSUME BaseInv, QueueInv, Refill
  PROVE  QueueInv'
<1>1. PICK loop :
        /\ up /\ UNCHANGED <<waitRows, now, up>> /\ waitQueue' = <<>> /\ QueueTasks = {}
        /\ Waiting' = Waiting /\ loop.do = "grant" /\ loop.left = waitQueue /\ QueueTasks' = {loop}
  BY RefillStep
<1> QED
  BY <1>1, QueueToLoop DEF IsLoop

LEMMA QueueCleaned ==
  ASSUME BaseInv, QueueInv, CleanedUp
  PROVE  QueueInv'
<1>1. /\ todo # <<>> /\ IsLoop(Task) /\ Task.left = <<>>
      /\ UNCHANGED <<waitQueue, waitRows, now, up>> /\ Tasks' = ToSet(Tail(todo))
  BY CleanedUpStep
<1>2. /\ up /\ Tasks = {Task} \cup ToSet(Tail(todo)) /\ \A u \in Tasks' : ~IsLoop(u)
      /\ Waiting = ToSet(waitQueue) \cup ToSet(Task.left)
  BY <1>1, LoopTask
<1>3. Waiting' = Waiting
  BY <1>1, <1>2, WaitingInQueueNext, NobodyInLine
<1>4. Leaving' = Leaving
  BY <1>1, <1>2 DEF Leaving, IsLoop
<1>5. InOrder(waitQueue')
  BY <1>1 DEF QueueInv
<1>6. \A t \in Tasks' : t.do \notin {"clean", "grant"}
  BY <1>2 DEF IsLoop
<1> QED
  BY <1>1, <1>2, <1>3, <1>4, <1>5, <1>6, QueueMoved

LEMMA QueueGranted ==
  ASSUME BaseInv, QueueInv, GrantDone
  PROVE  QueueInv'
<1>1. /\ todo # <<>> /\ IsLoop(Task) /\ Task.left = <<>>
      /\ UNCHANGED <<waitQueue, waitRows, now, up>>
      /\ QueueTasks = {Task} /\ QueueTasks' = {}
  BY GrantDoneStep
<1>2. up /\ Waiting = ToSet(waitQueue) \cup ToSet(Task.left)
  BY <1>1, LoopTask
<1>3. \A u \in Tasks' : ~IsLoop(u) /\ u.do \notin {"clean", "grant"}
  BY <1>1 DEF QueueTasks, Quiet, IsLoop
<1>4. Waiting' = Waiting
  BY <1>1, <1>2, <1>3, WaitingInQueueNext, NobodyInLine
<1>5. Leaving = {}
  BY <1>1, LeavingIs DEF IsLoop
<1>6. Leaving' = {}
  BY <1>1 DEF Leaving, QueueTasks, Quiet
<1>7. InOrder(waitQueue')
  BY <1>1 DEF QueueInv
<1> QED
  BY <1>1, <1>2, <1>3, <1>4, <1>5, <1>6, <1>7, QueueMoved

LEMMA QueueGrown ==
  ASSUME BaseInv, QueueInv, BaseInv', Enqueuing
  PROVE  QueueInv'
<1>1. PICK c \in Callers, n \in Amounts, w \in Waits : Enqueue(c, n, w)
  BY DEF Enqueuing
<1>2. PICK item \in WaitItem :
        /\ up /\ todo = <<>> /\ UNCHANGED <<now, up>>
        /\ QueueTasks = {} /\ QueueTasks' = {}
        /\ NextItem(item.id) /\ waitRows' = waitRows \cup {item}
        /\ waitQueue' = Append(waitQueue, item) /\ Waiting' = Waiting \cup {item}
  BY <1>1, EnqueueStep
<1>3. Leaving = {} /\ Staying = waitRows
  BY <1>2, LeavingIs DEF Staying
<1>4. Leaving' = {} /\ Staying' = waitRows'
  <2>1. Leaving' = {}
    BY <1>2 DEF Leaving, QueueTasks, Quiet
  <2> QED
    BY <2>1 DEF Staying
<1>5. \A x \in waitRows : x \in WaitItem /\ x.id \in Int /\ x.id < item.id
  <2>1. \A x \in waitRows : x.id < item.id
    BY <1>2 DEF NextItem
  <2>2. waitRows \subseteq WaitItem
    BY DEF BaseInv, TypeOK
  <2> QED
    BY <2>1, <2>2, ItemTyped
<1>6. item.id \in Int
  BY ItemTyped
<1>7. \A a, b \in waitRows' : a.id = b.id => a = b
  <2>1. \A a, b \in waitRows : a.id = b.id => a = b
    BY DEF QueueInv
  <2> QED
    BY <1>2, <1>5, <1>6, <2>1
<1>8. Waiting \subseteq waitRows /\ InTime(waitRows) \subseteq Waiting
  BY <1>2, <1>3 DEF QueueInv
<1>9. Waiting' \subseteq Staying' /\ InTime(Staying)' \subseteq Waiting'
  BY <1>2, <1>4, <1>8 DEF InTime, Expired
<1>10. InOrder(waitQueue')
  <2>1. ToSet(waitQueue) \subseteq waitRows /\ InOrder(waitQueue) /\ waitQueue \in Seq(WaitItem)
    BY <1>8 DEF Waiting, QueueInv, BaseInv, TypeOK
  <2> QED
    BY <1>2, <1>5, <2>1, QueueLonger
<1>11. \A t \in Tasks' : t.do \notin {"clean", "grant"}
  BY <1>2 DEF QueueTasks, Quiet
<1> QED
  BY <1>7, <1>9, <1>10, <1>11 DEF QueueInv

LEMMA QueueRowGone ==
  ASSUME BaseInv, QueueInv, RemoveWaitItem
  PROVE  QueueInv'
<1>1. /\ Task.do = "remove" /\ Tasks' = ToSet(Tail(todo)) /\ up /\ todo # <<>>
      /\ waitRows' = {item \in waitRows : item.id # Task.id}
      /\ UNCHANGED <<waitQueue, now, up>>
  BY RemoveWaitItemStep
<1>2. Tasks = {Task} \cup Tasks'
  BY <1>1, TaskFirst DEF BaseInv
<1>3. Leaving = {Task.id} \cup Leaving'
  BY <1>1, <1>2 DEF Leaving
<1>4. Staying' = Staying
  BY <1>1, <1>3 DEF Staying
<1>5. Waiting' = Waiting
  BY <1>1, <1>2 DEF Waiting, Handled
<1>6. InTime(Staying)' = InTime(Staying)
  BY <1>1, <1>4 DEF InTime, Expired
<1> QED
  BY <1>1, <1>2, <1>4, <1>5, <1>6 DEF QueueInv

LEMMA QueueLost ==
  ASSUME BaseInv, QueueInv, Crash
  PROVE  QueueInv'
<1>1. ~up' /\ todo' = <<>> /\ waitQueue' = <<>> /\ waitRows' = waitRows
  BY CrashStep
<1>2. Tasks' = {}
  BY <1>1, AgendaIdle
<1>3. InOrder(waitQueue')
  BY <1>1, NobodyInLine
<1> QED
  BY <1>1, <1>2, <1>3 DEF QueueInv

LEMMA QueueLoaded ==
  ASSUME BaseInv, QueueInv, Start
  PROVE  QueueInv'
<1>1. /\ todo' = <<>> /\ ToSet(waitQueue') = InTime(waitRows) /\ InOrder(waitQueue')
      /\ UNCHANGED <<waitRows, now>>
  BY StartStep
<1>2. Tasks' = {}
  BY <1>1, AgendaIdle
<1>3. Waiting' = InTime(waitRows)
  BY <1>1, <1>2, WaitingInQueueNext
<1>4. Staying' = waitRows
  BY <1>1, <1>2 DEF Staying, Leaving
<1>5. InTime(Staying)' = InTime(waitRows) /\ InTime(waitRows) \subseteq waitRows
  BY <1>1, <1>4 DEF InTime, Expired
<1> QED
  BY <1>1, <1>2, <1>3, <1>4, <1>5 DEF QueueInv

LEMMA QueueElapse ==
  ASSUME BaseInv, QueueInv, Elapse
  PROVE  QueueInv'
<1>1. /\ todo = <<>> /\ todo' = <<>> /\ now' = now + 1 /\ UNCHANGED <<waitQueue, waitRows, up>>
  BY ElapseStep
<1>2. Tasks = {} /\ Tasks' = {}
  BY <1>1, NoTasksNow, AgendaIdle
<1>3. Waiting' = Waiting /\ Staying' = Staying
  BY <1>1, <1>2 DEF Waiting, Handled, Staying, Leaving
<1>4. \A x \in waitRows : x.until \in Int /\ now \in Int
  <2>1. waitRows \subseteq WaitItem /\ now \in Nat
    BY DEF BaseInv, TypeOK
  <2> QED
    BY <2>1, ItemTyped
<1>5. InTime(Staying)' \subseteq InTime(Staying)
  BY <1>1, <1>3, <1>4 DEF InTime, Expired, Staying
<1> QED
  BY <1>1, <1>2, <1>3, <1>5 DEF QueueInv

LEMMA QueueNext ==
  ASSUME BaseInv, QueueInv, BaseInv', Next
  PROVE  QueueInv'
<1>1. QueueStep
  BY NextStep
<1> QED
  BY <1>1, QueueQuietly, QueueGrown, QueueTicked, QueueCleaning, QueueCleaned, QueueRefilled,
     QueueGranting, QueueGranted, QueueRowGone, QueueLost, QueueLoaded, QueueElapse DEF QueueStep

LEMMA QueueStutter ==
  ASSUME BaseInv, QueueInv, UNCHANGED vars
  PROVE  QueueInv'
<1>1. UNCHANGED <<todo, waitQueue, waitRows, now, up>>
  BY DEF vars, memory, tables
<1>2. QueueQuiet
  BY <1>1 DEF QueueQuiet, QueueTasks, Tasks
<1> QED
  BY <1>2, QueueQuietly

LEMMA InitQueue ==
  ASSUME Init
  PROVE  QueueInv
<1>1. todo = <<>> /\ waitQueue = <<>> /\ waitRows = {}
  BY DEF Init
<1>2. Tasks = {} /\ Waiting = {} /\ InOrder(waitQueue)
  BY <1>1, NoTasksNow, NobodyInLine
<1>3. Staying = {} /\ InTime(Staying) = {}
  BY <1>1 DEF Staying, InTime
<1> QED
  BY <1>1, <1>2, <1>3 DEF QueueInv

(* Whenever no method runs, the queue and its table agree on every request *)
(* that is still in time, in the order of the ids: a crash neither forgets *)
(* a request, nor brings back one that was answered, nor changes whose     *)
(* turn it is.  tryGrantFromQueueLocked and cleanupExpiredWaitItemsLocked  *)
(* delete each row before they look at the next request.                   *)
THEOREM QueueCorrect == Spec => []QueueSurvives
<1>1. Init => QueueInv
  BY InitQueue
<1>2. BaseInv /\ BaseInv' /\ QueueInv /\ [Next]_vars => QueueInv'
  <2>1. CASE UNCHANGED vars
    BY <2>1, QueueStutter
  <2>2. CASE Next
    BY <2>2, QueueNext
  <2> QED
    BY <2>1, <2>2
<1>3. BaseInv /\ QueueInv => QueueSurvives
  <2>1. SUFFICES ASSUME BaseInv, QueueInv, MutexFree
                 PROVE  InTime(ToSet(waitQueue)) = InTime(waitRows) /\ InOrder(waitQueue)
    BY DEF QueueSurvives
  <2>2. up /\ Tasks = {} /\ Waiting = ToSet(waitQueue)
    BY <2>1, NoTasksNow DEF MutexFree
  <2>3. Staying = waitRows
    BY <2>2 DEF Staying, Leaving
  <2>4. ToSet(waitQueue) \subseteq waitRows /\ InTime(waitRows) \subseteq ToSet(waitQueue)
    BY <2>1, <2>2, <2>3 DEF QueueInv
  <2> QED
    BY <2>1, <2>4 DEF QueueInv, InTime
<1> QED
  BY <1>1, <1>2, <1>3, BaseAlways, PTL DEF Spec

=============================================================================
