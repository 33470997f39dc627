-------------------------- MODULE LockBudgetProofs --------------------------
(***************************************************************************)
(* That no second is charged twice, that arrears only shrink, that a       *)
(* transfer stays within the budget and that a reset finds the period that *)
(* now is: for any callers, locks, requests and bounds.                    *)
(***************************************************************************)
EXTENDS LockBudget, SequenceTheorems, CommonLemmas

Tasks == ToSet(todo)

(* The order in which a method goes about its tasks: the loops of a        *)
(* refresh, more refreshes, and last what the method was called for        *)
Rank(t) ==
  CASE t.do \in {"settle", "arrears"} -> 1
    [] t.do = "reset" -> 2
    [] t.do = "meter" -> 3
    [] t.do = "drop" -> 4
    [] t.do = "refresh" -> 5
    [] OTHER -> 6

Before(t, u) == Rank(t) < Rank(u) \/ (t.do = "refresh" /\ u.do = "refresh")

InOrder(s) == \A i, j \in 1..Len(s) : i < j => Before(s[i], s[j])

(* What a task relies on until its turn comes: callers and holdings are    *)
(* still there, nobody has fallen into arrears meanwhile, and no reset has *)
(* come before.                                                            *)
Ready(t) ==
  /\ t.do \in {"refresh", "settle", "reset", "meter"} => Known(t.caller)
  /\ t.do = "poll" => \A c \in t.callers : Known(c)
  /\ t.do = "transfer" => Known(t.from) /\ Known(t.to) /\ t.from # t.to
  /\ t.do \in {"settle", "meter"} => t.locks \subseteq Open(t.caller)
  /\ (t.do = "settle" /\ ~t.owing) \/ t.do = "arrears" => ~Owes(t.caller)
  /\ t.do = "reset" => callers[t.caller].left <= 0

(* Who gives away is refreshed before, or what it holds is metered.        *)
Pending(c, l) ==
  \E u \in Tasks : u.do \in {"meter", "drop"} /\ u.caller = c /\ l \in u.locks

MeteredUpToNow(c) ==
  \/ \E u \in Tasks : u.do = "refresh" /\ u.caller = c
  \/ \A l \in Open(c) : holdings[c][l].lag < 2 \/ Pending(c, l)

(* What bills and charges leave to be charged of the time l is held: in    *)
(* memory, in the row, and, half a second at most, when it is given up;    *)
(* a lease that still runs in memory runs in the row as well.              *)
Metered(c, l) ==
  LET charged == meter[c][l].billed + meter[c][l].unbilled
      h == holdings[c][l]
      r == row[c][l]
  IN  /\ IF h # None THEN 2 * charged + h.lag <= meter[c][l].age
                     ELSE 2 * charged <= meter[c][l].age + 1
      /\ Running(r) => 2 * charged + r.lag <= meter[c][l].age
      /\ h # None /\ r # None /\ h.left >= 0 => r.left = h.left

AgendaInv ==
  /\ ~up => todo = <<>>
  /\ InOrder(todo)
  /\ \A t \in Tasks : Ready(t)
  /\ \A t \in Tasks : t.do = "transfer" => MeteredUpToNow(t.from)

BudgetInv == TypeOK /\ AgendaInv /\ \A c \in Callers, l \in Locks : Metered(c, l)

-----------------------------------------------------------------------------
(* Sequences of tasks *)

LEMMA OrderOfRest ==
  ASSUME NEW S, NEW s \in Seq(S), s # <<>>, InOrder(s)
  PROVE  InOrder(Tail(s)) /\ \A u \in ToSet(Tail(s)) : Before(Head(s), u)
<1>1. Len(s) \in Nat /\ Len(s) > 0 /\ Len(Tail(s)) = Len(s) - 1 /\ Head(s) = s[1]
  OBVIOUS
<1>2. \A i \in 1..(Len(s) - 1) : Tail(s)[i] = s[i + 1] /\ i + 1 \in 1..Len(s)
  OBVIOUS
<1>3. \A i, j \in 1..(Len(s) - 1) : i < j => Before(Tail(s)[i], Tail(s)[j])
  <2>1. SUFFICES ASSUME NEW i \in 1..(Len(s) - 1), NEW j \in 1..(Len(s) - 1), i < j
                 PROVE  Before(s[i + 1], s[j + 1])
    BY <1>2
  <2>2. i + 1 \in 1..Len(s) /\ j + 1 \in 1..Len(s) /\ i + 1 < j + 1
    BY <2>1, <1>1
  <2> QED
    BY <2>2 DEF InOrder
<1>4. ASSUME NEW u \in ToSet(Tail(s))
      PROVE  Before(Head(s), u)
  <2>1. DOMAIN Tail(s) = 1..(Len(s) - 1)
    BY <1>1
  <2>2. PICK i \in 1..(Len(s) - 1) : u = Tail(s)[i]
    BY <2>1 DEF ToSet
  <2>3. 1 \in 1..Len(s) /\ i + 1 \in 1..Len(s) /\ 1 < i + 1 /\ u = s[i + 1]
    BY <2>2, <1>1, <1>2
  <2> QED
    BY <2>3, <1>1 DEF InOrder
<1> QED
  BY <1>1, <1>3, <1>4 DEF InOrder

LEMMA OrderWithOneMore ==
  ASSUME NEW S, NEW s \in Seq(S), NEW t \in S, InOrder(s), \A u \in ToSet(s) : Before(t, u)
  PROVE  InOrder(<<t>> \o s)
<1> DEFINE ts == <<t>> \o s
<1>1. Len(s) \in Nat /\ Len(ts) = Len(s) + 1 /\ ts[1] = t
      /\ \A i \in 1..Len(s) : ts[i + 1] = s[i]
  OBVIOUS
<1>2. DOMAIN s = 1..Len(s)
  OBVIOUS
<1>3. ASSUME NEW i \in 1..Len(ts), NEW j \in 1..Len(ts), i < j
      PROVE  Before(ts[i], ts[j])
  <2>1. j - 1 \in 1..Len(s) /\ ts[j] = s[j - 1]
    <3>1. j - 1 \in 1..Len(s) /\ (j - 1) + 1 = j
      BY <1>1, <1>3
    <3> QED
      BY <3>1, <1>1
  <2>2. CASE i = 1
    <3>1. s[j - 1] \in ToSet(s)
      BY <2>1, <1>2 DEF ToSet
    <3> QED
      BY <3>1, <2>1, <2>2, <1>1
  <2>3. CASE i # 1
    <3>1. i - 1 \in 1..Len(s) /\ (i - 1) + 1 = i /\ i - 1 < j - 1
      BY <2>3, <1>1, <1>3
    <3>2. ts[i] = s[i - 1]
      BY <3>1, <1>1
    <3> QED
      BY <3>1, <3>2, <2>1 DEF InOrder
  <2> QED
    BY <2>2, <2>3
<1> QED
  BY <1>3 DEF InOrder

LEMMA NoTasks == ToSet(<<>>) = {} /\ InOrder(<<>>)
BY DEF ToSet, InOrder

-----------------------------------------------------------------------------
(* Tasks *)

LEMMA TaskTyped ==
  ASSUME NEW t \in TaskType
  PROVE  /\ t.do \in {"meter", "drop", "settle", "poll", "refresh", "forget", "reset",
                      "arrears", "configure", "transfer"}
         /\ t.do \in {"meter", "drop", "settle"} => t.locks \subseteq Locks
         /\ t.do \in {"meter", "drop", "settle", "refresh", "forget", "reset", "arrears",
                      "configure"} => t.caller \in Callers
         /\ t.do \in {"meter", "settle", "reset"} => t.owing \in BOOLEAN
         /\ t.do = "settle" => t.end \in Nat
         /\ t.do = "poll" => t.callers \subseteq Callers
         /\ t.do = "arrears" => t.amount \in Nat
         /\ t.do = "configure" => t.config \in Config
         /\ t.do = "transfer" => t.from \in Callers /\ t.to \in Callers /\ t.amount \in Nat
BY DEF TaskType, LocksLoop

(* A loop goes on.                                                         *)
LEMMA TaskWithout ==
  ASSUME NEW t \in TaskType, t.do \in {"meter", "drop", "settle"}, NEW l
  PROVE  LET u == [t EXCEPT !.locks = @ \ {l}]
         IN  /\ u \in TaskType /\ u.do = t.do /\ u.caller = t.caller
             /\ u.locks = t.locks \ {l}
             /\ t.do \in {"meter", "settle"} => u.owing = t.owing
<1>1. CASE t.do = "meter"
  <2>1. t \in [do : {"meter"}, caller : Callers, owing : BOOLEAN, locks : SUBSET Locks]
    BY <1>1 DEF TaskType, LocksLoop
  <2>2. [t EXCEPT !.locks = @ \ {l}]
          \in [do : {"meter"}, caller : Callers, owing : BOOLEAN, locks : SUBSET Locks]
    BY <2>1
  <2> QED
    BY <2>1, <2>2, <1>1 DEF TaskType, LocksLoop
<1>2. CASE t.do = "drop"
  <2>1. t \in [do : {"drop"}, caller : Callers, locks : SUBSET Locks]
    BY <1>2 DEF TaskType, LocksLoop
  <2>2. [t EXCEPT !.locks = @ \ {l}] \in [do : {"drop"}, caller : Callers, locks : SUBSET Locks]
    BY <2>1
  <2> QED
    BY <2>1, <2>2, <1>2 DEF TaskType, LocksLoop
<1>3. CASE t.do = "settle"
  <2>1. t \in [do : {"settle"}, caller : Callers, owing : BOOLEAN, end : Nat,
               locks : SUBSET Locks]
    BY <1>3 DEF TaskType, LocksLoop
  <2>2. [t EXCEPT !.locks = @ \ {l}]
          \in [do : {"settle"}, caller : Callers, owing : BOOLEAN, end : Nat,
               locks : SUBSET Locks]
    BY <2>1
  <2> QED
    BY <2>1, <2>2, <1>3 DEF TaskType, LocksLoop
<1> QED
  BY <1>1, <1>2, <1>3

(* The head of the agenda is done.                                         *)
LEMMA TaskDone ==
  ASSUME TypeOK, AgendaInv, todo # <<>>
  PROVE  /\ Task \in TaskType /\ Task \in Tasks /\ Ready(Task) /\ up
         /\ Tail(todo) \in Seq(TaskType) /\ InOrder(Tail(todo))
         /\ Tasks = {Task} \cup ToSet(Tail(todo))
         /\ \A u \in ToSet(Tail(todo)) : u \in TaskType /\ Ready(u) /\ Before(Task, u)
<1>1. todo \in Seq(TaskType)
  BY DEF TypeOK
<1>2. /\ Task \in TaskType /\ Tail(todo) \in Seq(TaskType)
      /\ Tasks = {Task} \cup ToSet(Tail(todo))
  BY <1>1, ListHeadAndTail DEF Task, Tasks
<1>3. InOrder(Tail(todo)) /\ \A u \in ToSet(Tail(todo)) : Before(Task, u)
  BY <1>1, OrderOfRest DEF AgendaInv, Task
<1>4. \A u \in ToSet(Tail(todo)) : u \in TaskType
  <2>1. \A i \in DOMAIN Tail(todo) : Tail(todo)[i] \in TaskType
    BY <1>2
  <2> QED
    BY <2>1 DEF ToSet
<1> QED
  BY <1>2, <1>3, <1>4 DEF AgendaInv

(* With nothing to do there is nothing to be ready for.                    *)
LEMMA IdleAgenda ==
  ASSUME todo' = <<>>
  PROVE  AgendaInv' /\ todo' \in Seq(TaskType)
BY NoTasks DEF AgendaInv, Tasks

(* Poll, transfer, configure and forget come last.                         *)
LEMMA LastTask ==
  ASSUME TypeOK, AgendaInv, todo # <<>>, Rank(Task) = 6
  PROVE  Tail(todo) = <<>>
<1>1. Tail(todo) \in Seq(TaskType) /\ \A u \in ToSet(Tail(todo)) : Before(Task, u)
  BY TaskDone
<1>2. ASSUME Tail(todo) # <<>>
      PROVE  FALSE
  <2>1. Head(Tail(todo)) \in ToSet(Tail(todo))
    BY <1>1, <1>2, ListHeadAndTail
  <2>2. Before(Task, Head(Tail(todo)))
    BY <2>1, <1>1
  <2> QED
    BY <2>2 DEF Before, Rank
<1> QED
  BY <1>2

(* What is behind the head relies on what the head's step may not touch.   *)
LEMMA AgendaGoesOn ==
  ASSUME TypeOK, AgendaInv, todo # <<>>, up', NEW news,
         InOrder(todo)', Tasks' \subseteq news \cup ToSet(Tail(todo)),
         \A t \in news \cap Tasks' : Ready(t)' /\ t.do # "transfer",
         \A c \in Callers : Known(c) => Known(c)',
         Rank(Task) < 3 => \A c \in Callers : Open(c) \subseteq Open(c)',
         Rank(Task) < 2 => \A c \in Callers : Known(c) => callers'[c].left = callers[c].left,
         \A t \in ToSet(Tail(todo)) : t.do = "transfer" => MeteredUpToNow(t.from)'
  PROVE  AgendaInv'
<1>1. ASSUME NEW t \in ToSet(Tail(todo))
      PROVE  Ready(t)'
  <2>1. t \in TaskType /\ Ready(t) /\ Before(Task, t) /\ Task \in TaskType
    BY TaskDone
  <2>2. t.do \notin {"settle", "arrears"}
    BY <2>1 DEF Before, Rank
  <2>3. t.do = "meter" => Rank(Task) < 3
    BY <2>1 DEF Before, Rank
  <2>4. t.do = "reset" => Rank(Task) < 2
    BY <2>1 DEF Before, Rank
  <2>5. t.do \in {"refresh", "meter", "reset"} => t.caller \in Callers
    BY <2>1, TaskTyped
  <2>6. t.do = "poll" => t.callers \subseteq Callers
    BY <2>1, TaskTyped
  <2>7. t.do = "transfer" => t.from \in Callers /\ t.to \in Callers
    BY <2>1, TaskTyped
  <2> QED
    BY <2>1, <2>2, <2>3, <2>4, <2>5, <2>6, <2>7 DEF Ready
<1>2. \A t \in Tasks' : Ready(t)'
  BY <1>1
<1>3. \A t \in Tasks' : t.do = "transfer" => MeteredUpToNow(t.from)'
  OBVIOUS
<1> QED
  BY <1>2, <1>3 DEF AgendaInv

(* No step but the reading of the lock's time makes the lag longer.        *)
LEMMA MeteredStays ==
  ASSUME TypeOK, TypeOK', NEW c \in Callers, MeteredUpToNow(c),
         \A u \in Tasks : u.do = "refresh" /\ u.caller = c => u \in Tasks',
         \A l \in Open(c)' :
           /\ l \in Open(c)
           /\ \/ holdings'[c][l].lag < 2
              \/ /\ holdings'[c][l].lag <= holdings[c][l].lag
                 /\ Pending(c, l) => Pending(c, l)'
  PROVE  MeteredUpToNow(c)'
<1>1. CASE \E u \in Tasks : u.do = "refresh" /\ u.caller = c
  BY <1>1 DEF MeteredUpToNow
<1>2. CASE \A l \in Open(c) : holdings[c][l].lag < 2 \/ Pending(c, l)
  <2>1. ASSUME NEW l \in Open(c)'
        PROVE  holdings'[c][l].lag < 2 \/ Pending(c, l)'
    <3>1. l \in Locks /\ holdings'[c][l] \in Holding /\ holdings[c][l] \in Holding
      BY <2>1 DEF Open, TypeOK
    <3>2. holdings'[c][l].lag \in Nat /\ holdings[c][l].lag \in Nat
      BY <3>1 DEF Holding
    <3> QED
      BY <3>2, <2>1, <1>2
  <2> QED
    BY <2>1 DEF MeteredUpToNow
<1> QED
  BY <1>1, <1>2 DEF MeteredUpToNow

(* A loop goes on or is over.                                              *)
LEMMA AgendaLoops ==
  ASSUME TypeOK, AgendaInv, todo # <<>>, Task.do \in {"meter", "drop", "settle"},
         NEW l \in Task.locks, LoopOn(l)
  PROVE  /\ todo' \in Seq(TaskType) /\ InOrder(todo)'
         /\ LET w == [Task EXCEPT !.locks = @ \ {l}]
            IN  /\ Tasks' \subseteq {w} \cup ToSet(Tail(todo))
                /\ ToSet(Tail(todo)) \subseteq Tasks'
                /\ Task.locks \ {l} # {} => w \in Tasks'
<1> DEFINE w == [Task EXCEPT !.locks = @ \ {l}]
<1>1. /\ Task \in TaskType /\ Tail(todo) \in Seq(TaskType) /\ InOrder(Tail(todo))
      /\ \A u \in ToSet(Tail(todo)) : Before(Task, u)
  BY TaskDone
<1>2. w \in TaskType /\ w.do = Task.do /\ w.locks = Task.locks \ {l}
  BY <1>1, TaskWithout
<1>3. todo' = Loop(w) \o Tail(todo)
  BY DEF LoopOn, Then
<1>4. \A u \in ToSet(Tail(todo)) : Before(w, u)
  BY <1>1, <1>2 DEF Before, Rank
<1>5. CASE Loop(w) = <<w>>
  <2>1. todo' = <<w>> \o Tail(todo)
    BY <1>3, <1>5
  <2>2. todo' \in Seq(TaskType) /\ ToSet(todo') = {w} \cup ToSet(Tail(todo))
    BY <2>1, <1>1, <1>2, ListPrepended
  <2>3. InOrder(todo')
    BY <2>1, <1>1, <1>2, <1>4, OrderWithOneMore
  <2> QED
    BY <2>2, <2>3 DEF Tasks
<1>6. CASE Loop(w) = <<>>
  <2>1. todo' = Tail(todo)
    BY <1>1, <1>3, <1>6, ConcatEmptySeq
  <2>2. Task.locks \ {l} = {}
    <3>1. w.locks = {}
      BY <1>6 DEF Loop
    <3> QED
      BY <3>1, <1>2
  <2> QED
    BY <2>1, <2>2, <1>1 DEF Tasks
<1> QED
  BY <1>5, <1>6 DEF Loop

LEMMA LoopKeepsAgenda ==
  ASSUME TypeOK, TypeOK', AgendaInv, todo # <<>>, Task.do \in {"meter", "drop", "settle"},
         NEW l \in Task.locks, LoopOn(l), up' = up, UNCHANGED arrears,
         \A c \in Callers : Known(c) => Known(c)' /\ callers'[c].left = callers[c].left,
         \A c \in Callers, k \in Locks :
           \/ holdings[c][k] # None <=> holdings'[c][k] # None
           \/ Task.do = "drop" /\ c = Task.caller /\ k = l,
         Task.do = "drop" => holdings'[Task.caller][l] = None,
         \A c \in Callers, k \in Locks :
           holdings[c][k] # None /\ holdings'[c][k] # None =>
             holdings'[c][k].lag <= holdings[c][k].lag,
         Task.do = "meter" => holdings'[Task.caller][l].lag < 2
  PROVE  AgendaInv'
<1>0. PICK t \in TaskType : t = Task
  BY TaskDone
<1> DEFINE w == [t EXCEPT !.locks = @ \ {l}]
<1>1. /\ t.do \in {"meter", "drop", "settle"}
      /\ t \in TaskType /\ t \in Tasks /\ Ready(t) /\ up
      /\ Tasks = {t} \cup ToSet(Tail(todo))
      /\ \A u \in ToSet(Tail(todo)) : u \in TaskType /\ Ready(u) /\ Before(t, u)
  BY <1>0, TaskDone
<1>2. /\ w \in TaskType /\ w.do = t.do /\ w.caller = t.caller
      /\ w.locks = t.locks \ {l}
      /\ t.do \in {"meter", "settle"} => w.owing = t.owing
  BY <1>1, TaskWithout
<1>3. /\ InOrder(todo)' /\ Tasks' \subseteq {w} \cup ToSet(Tail(todo))
      /\ ToSet(Tail(todo)) \subseteq Tasks'
      /\ t.locks \ {l} # {} => w \in Tasks'
  BY <1>0, AgendaLoops
<1>4. t.caller \in Callers /\ t.locks \subseteq Locks
  BY <1>1, TaskTyped
<1> HIDE DEF w
<1>5. t.do # "drop" => \A c \in Callers : Open(c)' = Open(c)
  BY <1>0 DEF Open
<1>6. Ready(w)' /\ w.do # "transfer"
  <2>1. t.do \in {"settle", "meter"} => Known(t.caller)' /\ w.locks \subseteq Open(t.caller)'
    BY <1>1, <1>2, <1>4, <1>5 DEF Ready
  <2>2. t.do = "settle" /\ ~t.owing => ~Owes(t.caller)'
    BY <1>1 DEF Ready, Owes
  <2> QED
    BY <2>1, <2>2, <1>1, <1>2 DEF Ready
<1>7. ASSUME NEW v \in ToSet(Tail(todo)), v.do = "transfer"
      PROVE  MeteredUpToNow(v.from)'
  <2> DEFINE c == v.from
  <2>1. c \in Callers /\ MeteredUpToNow(c)
    BY <1>1, <1>7, TaskTyped DEF AgendaInv
  <2> HIDE DEF c
  <2>2. \A u \in Tasks : u.do = "refresh" /\ u.caller = c => u \in Tasks'
    BY <1>1, <1>3
  <2>3. ASSUME NEW k \in Open(c)'
        PROVE  /\ k \in Open(c)
               /\ \/ holdings'[c][k].lag < 2
                  \/ /\ holdings'[c][k].lag <= holdings[c][k].lag
                     /\ Pending(c, k) => Pending(c, k)'
    <3>1. k \in Open(c) /\ k \in Locks /\ holdings'[c][k].lag <= holdings[c][k].lag
      BY <2>1, <2>3, <1>0 DEF Open
    <3>2. CASE c = t.caller /\ k = l
      <4>1. t.do # "drop" => holdings'[c][k].lag < 2 \/ t.do = "settle"
        BY <3>2, <1>0
      <4>2. t.do # "drop"
        BY <3>2, <2>3, <1>0 DEF Open
      <4>3. t.do = "settle" => (Pending(c, k) => Pending(c, k)')
        BY <1>1, <1>3 DEF Pending
      <4> QED
        BY <3>1, <4>1, <4>2, <4>3
    <3>3. CASE ~(c = t.caller /\ k = l)
      <4>1. ASSUME NEW u \in Tasks, u.do \in {"meter", "drop"}, u.caller = c, k \in u.locks
            PROVE  Pending(c, k)'
        <5>1. CASE u \in ToSet(Tail(todo))
          BY <4>1, <5>1, <1>3 DEF Pending
        <5>2. CASE u = t
          <6>1. k \in w.locks /\ w \in Tasks' /\ w.caller = c /\ w.do \in {"meter", "drop"}
            BY <4>1, <5>2, <3>3, <1>2, <1>3
          <6> QED
            BY <6>1 DEF Pending
        <5> QED
          BY <5>1, <5>2, <1>1
      <4> QED
        BY <4>1, <3>1 DEF Pending
    <3> QED
      BY <3>2, <3>3
  <2>4. MeteredUpToNow(c)'
    BY <2>1, <2>2, <2>3, MeteredStays
  <2> QED
    BY <2>4 DEF c
<1>8. \A v \in {w} \cap Tasks' : Ready(v)' /\ v.do # "transfer"
  BY <1>6
<1>9. Rank(t) < 3 => \A c \in Callers : Open(c) \subseteq Open(c)'
  BY <1>0, <1>5 DEF Rank
<1>10. up'
  BY <1>1
<1> QED
  BY <1>0, <1>3, <1>7, <1>8, <1>9, <1>10, AgendaGoesOn

-----------------------------------------------------------------------------
(* Charges, rows and meters *)

LEMMA ChargedTyped ==
  ASSUME NEW b \in Runtime, NEW units \in Nat
  PROVE  /\ Charged(b, units) \in Runtime /\ Overdrawn(b) \in Runtime
         /\ Charged(b, units).left = b.left /\ Overdrawn(b).left = b.left
         /\ Charged(b, units).limit = b.limit /\ Overdrawn(b).limit = b.limit
<1>1. Penalty(b, units) \in Nat
  BY DEF Penalty, Runtime
<1>2. Charged(b, units) \in Runtime
  <2>1. b.consumed + units + Penalty(b, units) \in Nat /\ b.penalty + Penalty(b, units) \in Nat
    BY <1>1 DEF Runtime
  <2> HIDE DEF Penalty
  <2> QED
    BY <2>1 DEF Charged, Runtime
<1>3. Overdrawn(b) \in Runtime
  <2>1. (IF b.consumed > b.limit THEN b.consumed - b.limit ELSE b.overdraft) \in Nat
    BY DEF Runtime
  <2> QED
    BY <2>1 DEF Overdrawn, Runtime
<1>4. Charged(b, units).left = b.left /\ Charged(b, units).limit = b.limit
  BY DEF Charged, Runtime
<1>5. Overdrawn(b).left = b.left /\ Overdrawn(b).limit = b.limit
  BY DEF Overdrawn, Runtime
<1> QED
  BY <1>2, <1>3, <1>4, <1>5

LEMMA RowsTyped ==
  ASSUME TypeOK, NEW c \in Callers, NEW l \in Locks
  PROVE  /\ holdings[c][l] # None =>
              holdings[c][l].left \in Int /\ holdings[c][l].lag \in Nat
         /\ row[c][l] # None => row[c][l].left \in Int /\ row[c][l].lag \in Nat
         /\ meter[c][l].age \in Nat /\ meter[c][l].billed \in Nat
         /\ meter[c][l].unbilled \in Nat
         /\ callers[c] # None => callers[c] \in Runtime
<1>1. holdings[c][l] \in Holding \cup {None} /\ row[c][l] \in Holding \cup {None}
      /\ meter[c][l] \in [age : Nat, billed : Nat, unbilled : Nat]
      /\ callers[c] \in Runtime \cup {None}
  BY DEF TypeOK
<1> QED
  BY <1>1 DEF Holding

LagIs(c, l, lag) == holdings' = [holdings EXCEPT ![c][l].lag = lag]

LEMMA LagSet ==
  ASSUME TypeOK, NEW c \in Callers, NEW l \in Locks, NEW lag \in Nat, holdings[c][l] # None,
         LagIs(c, l, lag)
  PROVE  /\ holdings' \in [Callers -> [Locks -> Holding \cup {None}]]
         /\ \A d \in Callers, k \in Locks :
              ~(d = c /\ k = l) => holdings'[d][k] = holdings[d][k]
         /\ holdings'[c][l] # None
         /\ holdings'[c][l].left = holdings[c][l].left /\ holdings'[c][l].lag = lag
<1> DEFINE h == [holdings[c][l] EXCEPT !.lag = lag]
<1>1. holdings[c][l] \in Holding
  BY DEF TypeOK
<1>2. h \in Holding /\ h.left = holdings[c][l].left /\ h.lag = lag
  BY <1>1 DEF Holding
<1>3. holdings' = [holdings EXCEPT ![c] = [holdings[c] EXCEPT ![l] = h]]
  BY DEF LagIs
<1> HIDE DEF h
<1>4. holdings'[c][l] = h
  BY <1>3 DEF TypeOK
<1>5. holdings' \in [Callers -> [Locks -> Holding \cup {None}]]
  BY <1>2, <1>3 DEF TypeOK
<1>6. \A d \in Callers, k \in Locks : ~(d = c /\ k = l) => holdings'[d][k] = holdings[d][k]
  BY <1>3 DEF TypeOK
<1>7. holdings'[c][l] # None
  BY <1>2, <1>4, NoneAssumption
<1>8. holdings'[c][l].left = holdings[c][l].left /\ holdings'[c][l].lag = lag
  BY <1>2, <1>4
<1> QED
  BY <1>5, <1>6, <1>7, <1>8

LEMMA RowSet ==
  ASSUME TypeOK, NEW c \in Callers, NEW l \in Locks, NEW lag \in Nat, MeterRow(c, l, lag)
  PROVE  /\ row' \in [Callers -> [Locks -> Holding \cup {None}]]
         /\ \A d \in Callers, k \in Locks : ~(d = c /\ k = l) => row'[d][k] = row[d][k]
         /\ row'[c][l] = None <=> row[c][l] = None
         /\ row[c][l] # None => row'[c][l].left = row[c][l].left /\ row'[c][l].lag = lag
<1>1. CASE row[c][l] = None
  BY <1>1 DEF MeterRow, TypeOK
<1>2. CASE row[c][l] # None
  <2>1. row[c][l] \in Holding
    BY <1>2 DEF TypeOK
  <2>2. [row[c][l] EXCEPT !.lag = lag] \in Holding
    BY <2>1 DEF Holding
  <2>3. row' = [row EXCEPT ![c] = [row[c] EXCEPT ![l] = [row[c][l] EXCEPT !.lag = lag]]]
    BY <1>2 DEF MeterRow
  <2>4. row'[c][l] = [row[c][l] EXCEPT !.lag = lag]
    BY <2>3 DEF TypeOK
  <2>5. row' \in [Callers -> [Locks -> Holding \cup {None}]]
    BY <2>2, <2>3 DEF TypeOK
  <2>6. \A d \in Callers, k \in Locks : ~(d = c /\ k = l) => row'[d][k] = row[d][k]
    BY <2>3 DEF TypeOK
  <2>7. row'[c][l] # None
    BY <2>2, <2>4, NoneAssumption
  <2>8. row'[c][l].left = row[c][l].left /\ row'[c][l].lag = lag
    BY <2>1, <2>4 DEF Holding
  <2> QED
    BY <1>2, <2>5, <2>6, <2>7, <2>8
<1> QED
  BY <1>1, <1>2

LEMMA CountedTyped ==
  ASSUME TypeOK, NEW c \in Callers, NEW l \in Locks, NEW units \in Nat, Count(c, l, units)
  PROVE  /\ meter' \in [Callers -> [Locks -> [age : Nat, billed : Nat, unbilled : Nat]]]
         /\ \A d \in Callers, k \in Locks : ~(d = c /\ k = l) => meter'[d][k] = meter[d][k]
         /\ meter'[c][l].age = meter[c][l].age /\ meter'[c][l].billed = meter[c][l].billed
         /\ meter'[c][l].unbilled = meter[c][l].unbilled + units
<1> DEFINE m == [meter[c][l] EXCEPT !.unbilled = meter[c][l].unbilled + units]
<1>1. meter[c][l] \in [age : Nat, billed : Nat, unbilled : Nat]
  BY DEF TypeOK
<1>2. m \in [age : Nat, billed : Nat, unbilled : Nat]
  BY <1>1
<1>3. m.age = meter[c][l].age /\ m.billed = meter[c][l].billed
      /\ m.unbilled = meter[c][l].unbilled + units
  BY <1>1
<1>4. meter' = [meter EXCEPT ![c] = [meter[c] EXCEPT ![l] = m]]
  BY DEF Count
<1> HIDE DEF m
<1>5. meter'[c][l] = m
  BY <1>4 DEF TypeOK
<1>6. meter' \in [Callers -> [Locks -> [age : Nat, billed : Nat, unbilled : Nat]]]
  BY <1>2, <1>4 DEF TypeOK
<1>7. \A d \in Callers, k \in Locks : ~(d = c /\ k = l) => meter'[d][k] = meter[d][k]
  BY <1>4 DEF TypeOK
<1> QED
  BY <1>3, <1>5, <1>6, <1>7

LEMMA CallerCharged ==
  ASSUME TypeOK, NEW c \in Callers, NEW b \in Runtime, Known(c), b.left = callers[c].left,
         callers' = [callers EXCEPT ![c] = b]
  PROVE  /\ callers' \in [Callers -> Runtime \cup {None}]
         /\ \A d \in Callers : Known(d) => Known(d)' /\ callers'[d].left = callers[d].left
<1>1. b # None
  BY NoneAssumption
<1> QED
  BY <1>1 DEF TypeOK, Known

(* A holding that nothing happens to stays metered.                        *)
LEMMA OthersStayMetered ==
  ASSUME NEW d, NEW k, Metered(d, k), holdings'[d][k] = holdings[d][k],
         row'[d][k] = row[d][k], meter'[d][k] = meter[d][k]
  PROVE  Metered(d, k)'
BY DEF Metered, Running

(* What is charged is taken off what is to be charged.                     *)
LEMMA ChargeStaysMetered ==
  ASSUME TypeOK, NEW c \in Callers, NEW l \in Locks, Metered(c, l), holdings[c][l] # None,
         NEW units \in Nat, NEW lag \in Nat, 2 * units + lag <= holdings[c][l].lag,
         holdings'[c][l] # None, holdings'[c][l].left = holdings[c][l].left,
         holdings'[c][l].lag = lag,
         row'[c][l] = None <=> row[c][l] = None,
         row[c][l] # None => row'[c][l].left = row[c][l].left /\ row'[c][l].lag = lag,
         meter'[c][l].age = meter[c][l].age, meter'[c][l].billed = meter[c][l].billed,
         meter'[c][l].unbilled = meter[c][l].unbilled + units
  PROVE  Metered(c, l)'
<1>1. 2 * (meter'[c][l].billed + meter'[c][l].unbilled) + lag <= meter'[c][l].age
  BY RowsTyped DEF Metered
<1>2. row[c][l] # None /\ holdings[c][l].left >= 0 => row'[c][l].left = holdings[c][l].left
  BY DEF Metered
<1> QED
  BY <1>1, <1>2 DEF Metered, Running

(* A loop that charges a holding, or only notes that nothing is charged    *)
LEMMA ChargeKeeps ==
  ASSUME BudgetInv, todo # <<>>, NEW t \in TaskType, t = Task, t.do \in {"meter", "settle"},
         NEW l \in Locks, l \in t.locks, LoopOn(l), UNCHANGED <<config, arrears, up>>,
         NEW c \in Callers, c = t.caller, holdings[c][l] # None,
         NEW units \in Nat, NEW lag \in Nat, 2 * units + lag <= holdings[c][l].lag,
         t.do = "meter" => lag < 2,
         callers' \in [Callers -> Runtime \cup {None}],
         \A d \in Callers : Known(d) => Known(d)' /\ callers'[d].left = callers[d].left,
         meter' \in [Callers -> [Locks -> [age : Nat, billed : Nat, unbilled : Nat]]],
         \A d \in Callers, k \in Locks : ~(d = c /\ k = l) => meter'[d][k] = meter[d][k],
         meter'[c][l].age = meter[c][l].age, meter'[c][l].billed = meter[c][l].billed,
         meter'[c][l].unbilled = meter[c][l].unbilled + units,
         LagIs(c, l, lag), MeterRow(c, l, lag)
  PROVE  BudgetInv'
<1>0. TypeOK /\ AgendaInv /\ (\A d \in Callers, k \in Locks : Metered(d, k))
  BY DEF BudgetInv
<1>1. todo' \in Seq(TaskType)
  BY <1>0, AgendaLoops
<1>2. /\ holdings' \in [Callers -> [Locks -> Holding \cup {None}]]
      /\ \A d \in Callers, k \in Locks :
           ~(d = c /\ k = l) => holdings'[d][k] = holdings[d][k]
      /\ holdings'[c][l] # None
      /\ holdings'[c][l].left = holdings[c][l].left /\ holdings'[c][l].lag = lag
  BY <1>0, LagSet
<1>3. /\ row' \in [Callers -> [Locks -> Holding \cup {None}]]
      /\ \A d \in Callers, k \in Locks : ~(d = c /\ k = l) => row'[d][k] = row[d][k]
      /\ row'[c][l] = None <=> row[c][l] = None
      /\ row[c][l] # None => row'[c][l].left = row[c][l].left /\ row'[c][l].lag = lag
  BY <1>0, RowSet
<1>4. TypeOK'
  BY <1>0, <1>1, <1>2, <1>3 DEF TypeOK
<1>5. Metered(c, l)'
  BY <1>0, <1>2, <1>3, ChargeStaysMetered
<1>6. ASSUME NEW d \in Callers, NEW k \in Locks
      PROVE  Metered(d, k)'
  <2>1. CASE d = c /\ k = l
    BY <2>1, <1>5
  <2>2. CASE ~(d = c /\ k = l)
    <3>1. /\ Metered(d, k) /\ holdings'[d][k] = holdings[d][k] /\ row'[d][k] = row[d][k]
          /\ meter'[d][k] = meter[d][k]
      BY <2>2, <1>0, <1>2, <1>3, Zenon
    <3> QED
      BY <3>1, OthersStayMetered
  <2> QED
    BY <2>1, <2>2
<1>7. lag <= holdings[c][l].lag
  <2>1. PICK held : held = holdings[c][l]
    OBVIOUS
  <2>2. held.lag \in Nat
    BY <1>0, <2>1, RowsTyped
  <2>3. units \in Nat /\ lag \in Nat /\ 2 * units + lag <= held.lag
    BY <2>1
  <2>4. lag <= held.lag
    BY ONLY <2>2, <2>3
  <2> QED
    BY <2>1, <2>4, Zenon
<1>8. ASSUME NEW d \in Callers, NEW k \in Locks
      PROVE  /\ holdings[d][k] # None <=> holdings'[d][k] # None
             /\ holdings[d][k] # None => holdings'[d][k].lag <= holdings[d][k].lag
  <2>1. CASE d = c /\ k = l
    BY <2>1, <1>2, <1>7
  <2>2. CASE ~(d = c /\ k = l)
    <3>1. holdings'[d][k] = holdings[d][k]
      BY <2>2, <1>2
    <3>2. PICK held : held = holdings[d][k]
      OBVIOUS
    <3>3. held # None => held.lag \in Nat
      BY <1>0, <3>2, RowsTyped
    <3>4. held # None => held.lag <= held.lag
      <4>1. \A x \in Nat : x <= x
        OBVIOUS
      <4> QED
        BY <3>3, <4>1, Zenon
    <3>5. held = holdings'[d][k]
      BY <3>1, <3>2, Zenon
    <3> QED
      BY <3>2, <3>4, <3>5, Zenon
  <2> QED
    BY <2>1, <2>2
<1>9. t.do = "meter" => holdings'[t.caller][l].lag < 2
  BY <1>2
<1>10. AgendaInv'
  BY <1>0, <1>4, <1>8, <1>9, LoopKeepsAgenda
<1> QED
  BY <1>4, <1>6, <1>10 DEF BudgetInv

(* A loop that finds nothing to charge                                     *)
LEMMA LoopAlone ==
  ASSUME BudgetInv, todo # <<>>, NEW t \in TaskType, t = Task, t.do \in {"meter", "settle"},
         NEW l \in Locks, l \in t.locks, LoopOn(l), UNCHANGED <<tables, memory, up, meter>>,
         t.do = "meter" => holdings[t.caller][l].lag < 2
  PROVE  BudgetInv'
<1>0. TypeOK /\ AgendaInv /\ (\A d \in Callers, k \in Locks : Metered(d, k))
  BY DEF BudgetInv
<1>1. UNCHANGED <<config, row, arrears, callers, holdings, up, meter>>
  BY DEF tables, memory
<1>2. todo' \in Seq(TaskType)
  BY <1>0, AgendaLoops
<1>3. TypeOK'
  BY <1>0, <1>1, <1>2 DEF TypeOK
<1>4. \A d \in Callers, k \in Locks : Metered(d, k)'
  BY <1>0, <1>1, OthersStayMetered
<1>5. \A d \in Callers : Known(d) => Known(d)' /\ callers'[d].left = callers[d].left
  BY <1>1 DEF Known
<1>6. \A d \in Callers, k \in Locks :
        holdings[d][k] # None => holdings'[d][k].lag <= holdings[d][k].lag
  BY <1>0, <1>1, RowsTyped
<1>7. AgendaInv'
  BY <1>0, <1>1, <1>3, <1>5, <1>6, LoopKeepsAgenda
<1> QED
  BY <1>3, <1>4, <1>7 DEF BudgetInv

LEMMA MeterKeeps ==
  ASSUME BudgetInv, NEW l \in Locks, Meter(l)
  PROVE  BudgetInv'
<1>0. TypeOK /\ AgendaInv
  BY DEF BudgetInv
<1>1. /\ todo # <<>> /\ Task.do = "meter" /\ l \in Task.locks /\ LoopOn(l)
      /\ UNCHANGED <<config, arrears, up>>
  BY DEF Meter, Doing
<1>2. PICK t \in TaskType : t = Task /\ t.owing \in BOOLEAN
  BY <1>0, <1>1, TaskDone, TaskTyped
<1>3. PICK c \in Callers : c = t.caller
  BY <1>1, <1>2, TaskTyped
<1>4. /\ Known(c) /\ holdings[c][l] # None
      /\ t.do \in {"meter", "settle"} /\ l \in t.locks
  BY <1>0, <1>1, <1>2, <1>3, TaskDone DEF Ready, Open
<1>5. holdings[c][l].lag \in Nat /\ callers[c] \in Runtime
  BY <1>0, <1>4, RowsTyped DEF Known
<1>6. PICK units \in Nat : units = holdings[c][l].lag \div 2
  BY <1>5
<1>7. PICK lag \in Nat : lag = holdings[c][l].lag - 2 * units /\ lag < 2
  BY <1>5, <1>6
<1>8. CASE /\ LagIs(c, l, 0) /\ MeterRow(c, l, 0) /\ UNCHANGED <<callers, meter>>
  <2>1. 0 \in Nat /\ 2 * 0 + 0 <= holdings[c][l].lag /\ 0 < 2
    BY <1>5
  <2>2. /\ meter' \in [Callers -> [Locks -> [age : Nat, billed : Nat, unbilled : Nat]]]
        /\ meter'[c][l].unbilled = meter[c][l].unbilled + 0
        /\ callers' \in [Callers -> Runtime \cup {None}]
        /\ \A d \in Callers : Known(d) => Known(d)' /\ callers'[d].left = callers[d].left
    BY <1>0, <1>8, RowsTyped DEF TypeOK, Known
  <2> QED
    BY <1>1, <1>2, <1>3, <1>4, <1>8, <2>1, <2>2, ChargeKeeps
<1>9. CASE /\ callers' = [callers EXCEPT ![c] = Overdrawn(Charged(callers[c], units))]
           /\ Count(c, l, units) /\ LagIs(c, l, lag) /\ MeterRow(c, l, lag)
  <2>1. 2 * units + lag <= holdings[c][l].lag /\ (t.do = "meter" => lag < 2)
    BY <1>5, <1>6, <1>7
  <2>2. /\ Overdrawn(Charged(callers[c], units)) \in Runtime
        /\ Overdrawn(Charged(callers[c], units)).left = callers[c].left
    BY <1>5, ChargedTyped
  <2>3. /\ callers' \in [Callers -> Runtime \cup {None}]
        /\ \A d \in Callers : Known(d) => Known(d)' /\ callers'[d].left = callers[d].left
    BY <1>0, <1>4, <1>9, <2>2, CallerCharged
  <2>4. /\ meter' \in [Callers -> [Locks -> [age : Nat, billed : Nat, unbilled : Nat]]]
        /\ \A d \in Callers, k \in Locks : ~(d = c /\ k = l) => meter'[d][k] = meter[d][k]
        /\ meter'[c][l].age = meter[c][l].age /\ meter'[c][l].billed = meter[c][l].billed
        /\ meter'[c][l].unbilled = meter[c][l].unbilled + units
    BY <1>0, <1>9, CountedTyped
  <2>5. LagIs(c, l, lag) /\ MeterRow(c, l, lag)
    BY <1>9
  <2> QED
    BY <1>1, <1>2, <1>3, <1>4, <2>1, <2>3, <2>4, <2>5, ChargeKeeps
<1>10. CASE units = 0 /\ UNCHANGED <<row, memory, meter>>
  <2>1. holdings[c][l].lag < 2
    BY <1>5, <1>7, <1>10
  <2>2. holdings[t.caller][l].lag < 2
    BY <1>3, <2>1
  <2>3. UNCHANGED <<tables, memory, up, meter>>
    BY <1>1, <1>10 DEF tables
  <2> QED
    BY <1>1, <1>2, <2>2, <2>3, LoopAlone
<1> QED
  BY <1>2, <1>3, <1>6, <1>7, <1>8, <1>9, <1>10 DEF Meter, LagIs

LEMMA SettleKeeps ==
  ASSUME BudgetInv, NEW l \in Locks, Settle(l)
  PROVE  BudgetInv'
<1>0. TypeOK /\ AgendaInv
  BY DEF BudgetInv
<1>1. /\ todo # <<>> /\ Task.do = "settle" /\ l \in Task.locks /\ LoopOn(l)
      /\ UNCHANGED <<config, arrears, up>>
  BY DEF Settle, Doing
<1>2. PICK t \in TaskType : t = Task /\ t.owing \in BOOLEAN
  BY <1>0, <1>1, TaskDone, TaskTyped
<1>3. PICK c \in Callers : c = t.caller
  BY <1>1, <1>2, TaskTyped
<1>4. /\ Known(c) /\ holdings[c][l] # None
      /\ t.do \in {"meter", "settle"} /\ l \in t.locks
  BY <1>0, <1>1, <1>2, <1>3, TaskDone DEF Ready, Open
<1>5. holdings[c][l].lag \in Nat /\ callers[c] \in Runtime
  BY <1>0, <1>4, RowsTyped DEF Known
<1>6. PICK end \in Nat : end = t.end
  BY <1>1, <1>2, TaskTyped
<1>7. CASE /\ holdings[c][l].lag > end
           /\ LagIs(c, l, end) /\ MeterRow(c, l, end) /\ UNCHANGED <<callers, meter>>
  <2>1. 0 \in Nat /\ 2 * 0 + end <= holdings[c][l].lag
    BY <1>5, <1>7
  <2>2. /\ meter' \in [Callers -> [Locks -> [age : Nat, billed : Nat, unbilled : Nat]]]
        /\ meter'[c][l].unbilled = meter[c][l].unbilled + 0
        /\ callers' \in [Callers -> Runtime \cup {None}]
        /\ \A d \in Callers : Known(d) => Known(d)' /\ callers'[d].left = callers[d].left
    BY <1>0, <1>7, RowsTyped DEF TypeOK, Known
  <2> QED
    BY <1>1, <1>2, <1>3, <1>4, <1>7, <2>1, <2>2, ChargeKeeps
<1>8. CASE /\ (holdings[c][l].lag - end) \div 2 > 0
           /\ callers' = [callers EXCEPT
                ![c] = Charged(callers[c], (holdings[c][l].lag - end) \div 2)]
           /\ Count(c, l, (holdings[c][l].lag - end) \div 2)
           /\ LagIs(c, l, end) /\ MeterRow(c, l, end)
  <2>1. PICK units \in Nat :
          units = (holdings[c][l].lag - end) \div 2 /\ 2 * units + end <= holdings[c][l].lag
    BY <1>5, <1>8
  <2>2. Charged(callers[c], units) \in Runtime /\ Charged(callers[c], units).left = callers[c].left
    BY <1>5, ChargedTyped
  <2>3. /\ callers' \in [Callers -> Runtime \cup {None}]
        /\ \A d \in Callers : Known(d) => Known(d)' /\ callers'[d].left = callers[d].left
    BY <1>0, <1>4, <1>8, <2>1, <2>2, CallerCharged
  <2>4. /\ meter' \in [Callers -> [Locks -> [age : Nat, billed : Nat, unbilled : Nat]]]
        /\ \A d \in Callers, k \in Locks : ~(d = c /\ k = l) => meter'[d][k] = meter[d][k]
        /\ meter'[c][l].age = meter[c][l].age /\ meter'[c][l].billed = meter[c][l].billed
        /\ meter'[c][l].unbilled = meter[c][l].unbilled + units
    BY <1>0, <1>8, <2>1, CountedTyped
  <2>5. t.do # "meter" /\ Count(c, l, units) /\ LagIs(c, l, end) /\ MeterRow(c, l, end)
    BY <1>1, <1>2, <1>8, <2>1
  <2> QED
    BY <1>1, <1>2, <1>3, <1>4, <2>1, <2>3, <2>4, <2>5, ChargeKeeps
<1>9. CASE UNCHANGED <<row, memory, meter>>
  <2>1. UNCHANGED <<tables, memory, up, meter>>
    BY <1>1, <1>9 DEF tables
  <2> QED
    BY <1>1, <1>2, <2>1, LoopAlone
<1> QED
  BY <1>2, <1>3, <1>6, <1>7, <1>8, <1>9 DEF Settle, LagIs

LEMMA DropKeeps ==
  ASSUME BudgetInv, NEW l \in Locks, Drop(l)
  PROVE  BudgetInv'
<1>0. TypeOK /\ AgendaInv /\ (\A d \in Callers, k \in Locks : Metered(d, k))
  BY DEF BudgetInv
<1>1. /\ todo # <<>> /\ Task.do = "drop" /\ l \in Task.locks /\ LoopOn(l)
      /\ holdings' = [holdings EXCEPT ![Task.caller][l] = None]
      /\ row' = [row EXCEPT ![Task.caller][l] = None]
      /\ UNCHANGED <<config, arrears, callers, up, meter>>
  BY DEF Drop, Doing
<1>2. PICK c \in Callers : c = Task.caller
  BY <1>0, <1>1, TaskDone, TaskTyped
<1>3. todo' \in Seq(TaskType)
  BY <1>0, <1>1, AgendaLoops
<1>4. /\ holdings' \in [Callers -> [Locks -> Holding \cup {None}]]
      /\ row' \in [Callers -> [Locks -> Holding \cup {None}]]
      /\ holdings'[c][l] = None /\ row'[c][l] = None
      /\ \A d \in Callers, k \in Locks : ~(d = c /\ k = l) =>
           holdings'[d][k] = holdings[d][k] /\ row'[d][k] = row[d][k]
  BY <1>0, <1>1, <1>2 DEF TypeOK
<1>5. TypeOK'
  BY <1>0, <1>1, <1>3, <1>4 DEF TypeOK
<1>6. Metered(c, l)'
  <2>1. 2 * (meter[c][l].billed + meter[c][l].unbilled) <= meter[c][l].age + 1
    BY <1>0, RowsTyped DEF Metered
  <2> QED
    BY <2>1, <1>1, <1>4 DEF Metered, Running
<1>7. \A d \in Callers, k \in Locks : Metered(d, k)'
  BY <1>0, <1>1, <1>4, <1>6, OthersStayMetered
<1>8. \A d \in Callers, k \in Locks :
        holdings[d][k] # None /\ holdings'[d][k] # None =>
          holdings'[d][k].lag <= holdings[d][k].lag
  BY <1>0, <1>4, RowsTyped
<1>9. \A d \in Callers : Known(d) => Known(d)' /\ callers'[d].left = callers[d].left
  BY <1>1 DEF Known
<1>10. AgendaInv'
  BY <1>0, <1>1, <1>2, <1>4, <1>5, <1>8, <1>9, LoopKeepsAgenda
<1> QED
  BY <1>5, <1>7, <1>10 DEF BudgetInv

-----------------------------------------------------------------------------
(* Refreshing, billing, resetting *)

(* A loop, if there is something to loop over, goes first.                 *)
(* One more task in front of others, which it may come before              *)
LEMMA OneMoreTask ==
  ASSUME NEW s \in Seq(TaskType), InOrder(s), NEW t \in TaskType,
         \A u \in ToSet(s) : Before(t, u)
  PROVE  /\ <<t>> \o s \in Seq(TaskType) /\ ToSet(<<t>> \o s) = {t} \cup ToSet(s)
         /\ InOrder(<<t>> \o s)
<1>1. <<t>> \o s \in Seq(TaskType) /\ ToSet(<<t>> \o s) = {t} \cup ToSet(s)
  BY ListPrepended
<1>2. InOrder(<<t>> \o s)
  BY OrderWithOneMore
<1> QED
  BY <1>1, <1>2, Zenon

LEMMA LoopFirst ==
  ASSUME NEW s \in Seq(TaskType), InOrder(s), NEW w \in TaskType,
         \A u \in ToSet(s) : Before(w, u)
  PROVE  /\ Loop(w) \in Seq(TaskType) /\ Loop(w) \o s \in Seq(TaskType)
         /\ InOrder(Loop(w) \o s)
         /\ ToSet(Loop(w) \o s) \subseteq {w} \cup ToSet(s)
         /\ ToSet(s) \subseteq ToSet(Loop(w) \o s)
         /\ w.locks # {} => w \in ToSet(Loop(w) \o s)
<1>1. CASE Loop(w) = <<w>>
  <2>1. /\ <<w>> \o s \in Seq(TaskType) /\ ToSet(<<w>> \o s) = {w} \cup ToSet(s)
        /\ InOrder(<<w>> \o s) /\ <<w>> \in Seq(TaskType)
    BY OneMoreTask
  <2> QED
    BY <1>1, <2>1
<1>2. CASE Loop(w) = <<>> /\ w.locks = {}
  <2>1. <<>> \o s = s /\ <<>> \in Seq(TaskType)
    BY ConcatEmptySeq
  <2> QED
    BY <1>2, <2>1
<1> QED
  BY <1>1, <1>2 DEF Loop

Associates(a, b, c) == (a \o b) \o c = a \o (b \o c)

LEMMA ListsAssociate ==
  ASSUME NEW S, NEW a \in Seq(S), NEW b \in Seq(S), NEW c \in Seq(S)
  PROVE  Associates(a, b, c)
<1>1. (a \o b) \o c = a \o (b \o c)
  BY ConcatAssociative
<1> QED
  BY <1>1, Zenon DEF Associates

Regrouped(a, b, c, d) == (a \o b \o c) \o d = a \o (b \o (c \o d))

LEMMA FourLists ==
  ASSUME NEW S, NEW a \in Seq(S), NEW b \in Seq(S), NEW c \in Seq(S), NEW d \in Seq(S)
  PROVE  Regrouped(a, b, c, d)
<1>1. a \o b \in Seq(S) /\ c \o d \in Seq(S)
  OBVIOUS
<1>2. Associates(a \o b, c, d)
  BY <1>1, ListsAssociate
<1>3. Associates(a, b, c \o d)
  BY <1>1, ListsAssociate
<1>4. ((a \o b) \o c) \o d = (a \o b) \o (c \o d)
  BY <1>2, Zenon DEF Associates
<1>5. (a \o b) \o (c \o d) = a \o (b \o (c \o d))
  BY <1>3, Zenon DEF Associates
<1> QED
  BY <1>4, <1>5, Zenon DEF Regrouped

LEMMA RefreshKeeps ==
  ASSUME BudgetInv, Refresh
  PROVE  BudgetInv'
<1>0. TypeOK /\ AgendaInv /\ (\A d \in Callers, k \in Locks : Metered(d, k))
  BY DEF BudgetInv
<1>1. /\ todo # <<>> /\ Task.do = "refresh"
      /\ UNCHANGED <<config, row, arrears, callers, holdings, up, meter>>
  BY DEF Refresh, Doing, tables, memory
<1>2. /\ Task \in TaskType /\ Ready(Task) /\ up
      /\ Tail(todo) \in Seq(TaskType) /\ InOrder(Tail(todo))
      /\ Tasks = {Task} \cup ToSet(Tail(todo))
      /\ \A u \in ToSet(Tail(todo)) : u \in TaskType /\ Ready(u) /\ Before(Task, u)
  BY <1>0, <1>1, TaskDone
<1>3. PICK c \in Callers : c = Task.caller /\ Known(c)
  BY <1>1, <1>2, TaskTyped DEF Ready
<1>4. PICK live \in SUBSET Locks, dead \in SUBSET Locks, owing \in BOOLEAN :
        /\ live = {l \in Open(c) : holdings[c][l].left > 0} /\ dead = Open(c) \ live
        /\ owing = Owes(c)
  <2>1. Open(c) \subseteq Locks /\ Owes(c) \in BOOLEAN
    BY DEF Open, Owes
  <2> HIDE DEF Open
  <2>2. {l \in Open(c) : holdings[c][l].left > 0} \in SUBSET Locks
    BY <2>1
  <2> QED
    BY <2>1, <2>2
<1>5. callers[c].left \in Int
  BY <1>0, <1>3 DEF TypeOK, Known, Runtime
<1>6. PICK end \in Nat : callers[c].left <= 0 => end = -callers[c].left
  BY <1>5
<1>7. PICK M \in TaskType, D \in TaskType, R \in TaskType, B \in TaskType :
        /\ M = [do |-> "meter", caller |-> c, owing |-> owing, locks |-> live]
        /\ D = [do |-> "drop", caller |-> c, locks |-> dead]
        /\ R = [do |-> "reset", caller |-> c, owing |-> owing]
        /\ B = [do |-> "settle", caller |-> c, owing |-> owing, end |-> end,
                locks |-> live \cup dead]
  BY DEF TaskType, LocksLoop
<1>fields. /\ M.do = "meter" /\ M.locks = live /\ M.caller = c
       /\ D.do = "drop" /\ D.locks = dead /\ D.caller = c
       /\ R.do = "reset" /\ R.caller = c
       /\ B.do = "settle" /\ B.caller = c /\ B.owing = owing /\ B.locks = live \cup dead
  BY <1>7
<1>8. todo' = ((IF callers[c].left <= 0 THEN <<B, R>> ELSE <<>>)
                 \o Loop(M) \o Loop(D)) \o Tail(todo)
  <2>1. Open(c) = live \cup dead
    BY <1>4
  <2>2. callers[c].left <= 0 => Settlement(c, -callers[c].left) = B
    BY <1>4, <1>6, <1>7, <2>1 DEF Settlement
  <2> QED
    BY <1>3, <1>4, <1>7, <2>2 DEF Refresh, Then
<1>9. \A u \in ToSet(Tail(todo)) : Rank(u) \in 5..6
  BY <1>1, <1>2 DEF Before, Rank
<1>10. Rank(M) = 3 /\ Rank(D) = 4 /\ Rank(R) = 2 /\ Rank(B) = 1
  BY <1>fields DEF Rank
<1> DEFINE s1 == Loop(D) \o Tail(todo)
           s2 == Loop(M) \o s1
<1>11. /\ Loop(D) \in Seq(TaskType) /\ s1 \in Seq(TaskType) /\ InOrder(s1)
       /\ ToSet(s1) \subseteq {D} \cup ToSet(Tail(todo)) /\ ToSet(Tail(todo)) \subseteq ToSet(s1)
       /\ dead # {} => D \in ToSet(s1)
  <2>1. \A u \in ToSet(Tail(todo)) : Before(D, u)
    BY <1>9, <1>10 DEF Before
  <2> QED
    BY <2>1, <1>2, <1>fields, LoopFirst
<1> HIDE DEF s1
<1>12. /\ Loop(M) \in Seq(TaskType) /\ s2 \in Seq(TaskType) /\ InOrder(s2)
       /\ ToSet(s2) \subseteq {M} \cup ToSet(s1) /\ ToSet(s1) \subseteq ToSet(s2)
       /\ live # {} => M \in ToSet(s2)
  <2>1. \A u \in ToSet(s1) : Before(M, u)
    BY <1>9, <1>10, <1>11 DEF Before
  <2> QED
    BY <2>1, <1>fields, <1>11, LoopFirst
<1> HIDE DEF s2
<1>13. \A A \in Seq(TaskType) : (A \o Loop(M) \o Loop(D)) \o Tail(todo) = A \o s2
  <2>1. Loop(M) \in Seq(TaskType) /\ Loop(D) \in Seq(TaskType) /\ Tail(todo) \in Seq(TaskType)
    BY <1>2, <1>11, <1>12
  <2>2. \A A \in Seq(TaskType) : Regrouped(A, Loop(M), Loop(D), Tail(todo))
    BY <2>1, FourLists
  <2> QED
    BY <2>2 DEF Regrouped, s1, s2
<1>news. PICK news : news = IF callers[c].left <= 0 THEN {B, R, M, D} ELSE {M, D}
  OBVIOUS
<1>15. \A u \in news : Ready(u)' /\ u.do # "transfer"
  <2>1. Known(c)' /\ Open(c)' = Open(c) /\ Owes(c)' = Owes(c) /\ callers'[c].left = callers[c].left
    BY <1>1, <1>3 DEF Known, Open, Owes
  <2>2. live \cup dead \subseteq Open(c)
    BY <1>4
  <2>3. Ready(M)' /\ Ready(D)' /\ Ready(B)' /\ (callers[c].left <= 0 => Ready(R)')
    BY <2>1, <2>2, <1>4, <1>fields DEF Ready
  <2>4. ASSUME NEW u \in news
        PROVE  Ready(u)'
    <3>1. u \in {M, D, B} \/ (callers[c].left <= 0 /\ u = R)
      BY <1>news
    <3> QED
      BY <3>1, <2>1, <2>2, <1>4, <1>fields DEF Ready
  <2> QED
    BY <2>4, <1>fields, <1>news
(* A caller of the transfer has been refreshed, or is about to be.         *)
<1>14. ASSUME todo' \in Seq(TaskType), InOrder(todo)',
              Tasks' \subseteq news \cup ToSet(Tail(todo)), ToSet(s2) \subseteq Tasks'
       PROVE  BudgetInv'
  <2>1. TypeOK'
    BY <1>0, <1>1, <1>14 DEF TypeOK
  <2>2. \A d \in Callers, k \in Locks : Metered(d, k)'
    BY <1>0, <1>1, OthersStayMetered
  <2>3. ASSUME NEW v \in ToSet(Tail(todo)), v.do = "transfer"
        PROVE  MeteredUpToNow(v.from)'
    <3>1. PICK f \in Callers : f = v.from
      BY <1>2, <2>3, TaskTyped
    <3>2. MeteredUpToNow(f)
      <4>1. v \in Tasks
        BY <1>2, <2>3
      <4>2. MeteredUpToNow(v.from)
        BY <4>1, <2>3, <1>0 DEF AgendaInv
      <4> QED
        BY <4>2, <3>1
    <3>3. CASE f = c
      <4>1. ASSUME NEW l \in Open(c)'
            PROVE  Pending(c, l)'
        <5>1. l \in live \/ l \in dead
          BY <1>1, <1>4, <4>1 DEF Open
        <5>2. CASE l \in live
          BY <5>2, <1>fields, <1>12, <1>14 DEF Pending
        <5>3. CASE l \in dead
          BY <5>3, <1>fields, <1>11, <1>12, <1>14 DEF Pending
        <5> QED
          BY <5>1, <5>2, <5>3
      <4> QED
        BY <4>1, <3>1, <3>3 DEF MeteredUpToNow
    <3>4. CASE f # c
      <4>1. \A u \in Tasks : u.do \in {"refresh", "meter", "drop"} /\ u.caller = f => u \in Tasks'
        BY <3>4, <1>1, <1>2, <1>3, <1>11, <1>12, <1>14
      <4>2. \A l \in Open(f)' :
              /\ l \in Open(f)
              /\ holdings'[f][l].lag <= holdings[f][l].lag
              /\ Pending(f, l) => Pending(f, l)'
        BY <1>0, <1>1, <4>1, RowsTyped DEF Open, Pending
      <4> QED
        BY <1>0, <2>1, <3>1, <3>2, <4>1, <4>2, MeteredStays
    <3> QED
      BY <3>3, <3>4
  <2>4. AgendaInv'
    <3>1. \A d \in Callers : (Known(d) => Known(d)') /\ Open(d) \subseteq Open(d)'
      BY <1>1 DEF Known, Open
    <3>2. \A d \in Callers : callers'[d].left = callers[d].left
      BY <1>1
    <3>3. up' /\ \A u \in news \cap Tasks' : Ready(u)' /\ u.do # "transfer"
      BY <1>1, <1>2, <1>15
    <3> QED
      BY <1>0, <1>1, <1>14, <2>3, <3>1, <3>2, <3>3, AgendaGoesOn
  <2> QED
    BY <2>1, <2>2, <2>4 DEF BudgetInv
<1>ranks. \A u \in ToSet(s2) : Rank(u) \in 3..6
  <2>1. \A u \in ToSet(s1) : Rank(u) \in 3..6
    <3>1. \A u \in ToSet(s1) : u = D \/ u \in ToSet(Tail(todo))
      BY <1>11
    <3> QED
      BY <3>1, <1>9, <1>10
  <2>2. \A u \in ToSet(s2) : u = M \/ u \in ToSet(s1)
    BY <1>12
  <2> QED
    BY <2>1, <2>2, <1>10
<1>16. CASE callers[c].left <= 0
  <2> DEFINE s3 == <<R>> \o s2
  <2>3. /\ s3 \in Seq(TaskType) /\ ToSet(s3) = {R} \cup ToSet(s2) /\ InOrder(s3)
    <3>1. \A u \in ToSet(s2) : Before(R, u)
      BY <1>ranks, <1>10 DEF Before
    <3>2. R \in TaskType /\ s2 \in Seq(TaskType) /\ InOrder(s2)
      BY <1>12
    <3> QED
      BY <3>1, <3>2, OneMoreTask
  <2> HIDE DEF s3
  <2>4. /\ <<B>> \o s3 \in Seq(TaskType)
        /\ ToSet(<<B>> \o s3) = {B} \cup ToSet(s3) /\ InOrder(<<B>> \o s3)
    <3>1. \A u \in ToSet(s3) : Before(B, u)
      BY <1>ranks, <1>10, <2>3 DEF Before
    <3>2. B \in TaskType /\ s3 \in Seq(TaskType) /\ InOrder(s3)
      BY <2>3
    <3> QED
      BY <3>1, <3>2, OneMoreTask
  <2>5. todo' = <<B>> \o s3
    <3>1. <<B, R>> \in Seq(TaskType) /\ <<B>> \in Seq(TaskType)
          /\ <<R>> \in Seq(TaskType) /\ <<B, R>> = <<B>> \o <<R>>
      OBVIOUS
    <3>2. todo' = (<<B, R>> \o Loop(M) \o Loop(D)) \o Tail(todo)
      BY <1>8, <1>16
    <3>3. todo' = <<B, R>> \o s2
      BY <3>1, <3>2, <1>13
    <3> QED
      <4>1. <<B>> \in Seq(TaskType) /\ <<R>> \in Seq(TaskType) /\ s2 \in Seq(TaskType)
        BY <3>1, <1>12
      <4>2. (<<B>> \o <<R>>) \o s2 = <<B>> \o (<<R>> \o s2)
        BY <4>1, ConcatAssociative
      <4> QED
        BY <3>1, <3>3, <4>2 DEF s3
  <2>6. todo' \in Seq(TaskType) /\ InOrder(todo)'
        /\ Tasks' = {B, R} \cup ToSet(s2)
    BY <2>3, <2>4, <2>5 DEF Tasks
  <2>7. Tasks' \subseteq {B, R, M, D} \cup ToSet(Tail(todo)) /\ ToSet(s2) \subseteq Tasks'
    BY <2>6, <1>11, <1>12
  <2> QED
    BY <2>6, <2>7, <1>14, <1>16, <1>news
<1>17. CASE ~(callers[c].left <= 0)
  <2>1. todo' = s2
    <3>1. <<>> \in Seq(TaskType) /\ <<>> \o s2 = s2
      BY <1>12, ConcatEmptySeq
    <3>2. todo' = (<<>> \o Loop(M) \o Loop(D)) \o Tail(todo)
      BY <1>8, <1>17
    <3> QED
      BY <3>1, <3>2, <1>13
  <2>2. todo' \in Seq(TaskType) /\ InOrder(todo)' /\ Tasks' = ToSet(s2)
    BY <2>1, <1>12 DEF Tasks
  <2>3. Tasks' \subseteq {M, D} \cup ToSet(Tail(todo))
    BY <2>2, <1>11, <1>12
  <2> QED
    BY <2>2, <2>3, <1>12, <1>14, <1>17, <1>news
<1> QED
  BY <1>16, <1>17

(* Steps that only change what is still to be done                         *)
LEMMA OnlyAgendaChanges ==
  ASSUME BudgetInv, UNCHANGED <<tables, memory, up, meter>>, todo' \in Seq(TaskType),
         AgendaInv'
  PROVE  BudgetInv'
<1>1. UNCHANGED <<config, row, arrears, callers, holdings, up, meter>>
  BY DEF tables, memory
<1>2. TypeOK'
  BY <1>1 DEF BudgetInv, TypeOK
<1>3. \A c \in Callers, l \in Locks : Metered(c, l)'
  BY <1>1, OthersStayMetered DEF BudgetInv
<1> QED
  BY <1>2, <1>3 DEF BudgetInv

(* What is behind a bill or a reset is not disturbed by it.                *)
LEMMA RestStaysMetered ==
  ASSUME TypeOK, TypeOK', AgendaInv, todo # <<>>,
         Task.do \notin {"refresh", "meter", "drop"}, ToSet(Tail(todo)) \subseteq Tasks',
         \A c \in Callers : \A l \in Open(c)' :
           l \in Open(c) /\ holdings'[c][l].lag <= holdings[c][l].lag,
         NEW v \in ToSet(Tail(todo)), v.do = "transfer"
  PROVE  MeteredUpToNow(v.from)'
<1>1. Tasks = {Task} \cup ToSet(Tail(todo)) /\ v \in TaskType /\ v \in Tasks
  BY TaskDone
<1>2. PICK f \in Callers : f = v.from
  BY <1>1, TaskTyped
<1>3. MeteredUpToNow(f)
  <2>1. MeteredUpToNow(v.from)
    BY <1>1 DEF AgendaInv
  <2> QED
    BY <2>1, <1>2
<1>4. \A u \in Tasks : u.do \in {"refresh", "meter", "drop"} => u \in Tasks'
  BY <1>1
<1>5. \A l \in Open(f)' :
        /\ l \in Open(f)
        /\ holdings'[f][l].lag <= holdings[f][l].lag
        /\ Pending(f, l) => Pending(f, l)'
  BY <1>4 DEF Pending
<1>6. MeteredUpToNow(f)'
  BY <1>3, <1>4, <1>5, MeteredStays
<1> QED
  BY <1>2, <1>6

(* A bill, or a reset, is done.                                            *)
LEMMA DoneKeepsAgenda ==
  ASSUME TypeOK, TypeOK', AgendaInv, todo # <<>>, Task.do \in {"settle", "arrears", "reset"},
         Done, up' = up,
         \A c \in Callers : Known(c) => Known(c)',
         \A c \in Callers : Open(c)' = Open(c),
         \A c \in Callers : \A l \in Open(c) : holdings'[c][l].lag <= holdings[c][l].lag,
         Task.do # "reset" => callers' = callers
  PROVE  AgendaInv'
<1>1. /\ up /\ Tail(todo) \in Seq(TaskType) /\ InOrder(Tail(todo))
  BY TaskDone
<1>2. todo' = Tail(todo) /\ Tasks' = ToSet(Tail(todo)) /\ InOrder(todo)'
  BY <1>1 DEF Done, Tasks
<1>3. \A v \in ToSet(Tail(todo)) : v.do = "transfer" => MeteredUpToNow(v.from)'
  BY <1>2, RestStaysMetered
<1>4. Rank(Task) < 2 => callers' = callers
  BY DEF Rank
<1>5. up' /\ Tasks' \subseteq {} \cup ToSet(Tail(todo))
  BY <1>1, <1>2
<1>6. \A t \in {} \cap Tasks' : Ready(t)' /\ t.do # "transfer"
  OBVIOUS
<1> QED
  BY <1>2, <1>3, <1>4, <1>5, <1>6, AgendaGoesOn

LEMMA NoBillKeeps ==
  ASSUME BudgetInv, NoBill
  PROVE  BudgetInv'
<1>0. TypeOK /\ AgendaInv
  BY DEF BudgetInv
<1>1. /\ todo # <<>> /\ Task.do = "settle" /\ Done /\ UNCHANGED <<tables, memory, up, meter>>
  BY DEF NoBill, Doing
<1>2. UNCHANGED <<config, row, arrears, callers, holdings, up, meter>>
  BY <1>1 DEF tables, memory
<1>3. todo' \in Seq(TaskType)
  BY <1>0, <1>1, TaskDone DEF Done
<1>4. TypeOK'
  BY <1>0, <1>2, <1>3 DEF TypeOK
<1>5. /\ \A c \in Callers : (Known(c) => Known(c)') /\ Open(c)' = Open(c)
      /\ \A c \in Callers : \A l \in Open(c) : holdings'[c][l].lag <= holdings[c][l].lag
  BY <1>0, <1>2, RowsTyped DEF Known, Open
<1>6. AgendaInv'
  BY <1>0, <1>1, <1>2, <1>4, <1>5, DoneKeepsAgenda
<1> QED
  BY <1>1, <1>3, <1>6, OnlyAgendaChanges

LEMMA CreateArrearsKeeps ==
  ASSUME BudgetInv, CreateArrears
  PROVE  BudgetInv'
<1>0. TypeOK /\ AgendaInv
  BY DEF BudgetInv
<1>1. /\ todo # <<>> /\ Task.do = "arrears" /\ Done
      /\ arrears' = [arrears EXCEPT ![Task.caller] = Task.amount]
      /\ UNCHANGED <<config, row, callers, holdings, up, meter>>
  BY DEF CreateArrears, Doing, memory
<1>2. todo' \in Seq(TaskType) /\ Task \in TaskType
  BY <1>0, <1>1, TaskDone DEF Done
<1>3. TypeOK'
  <2>1. arrears' \in [Callers -> Nat]
    BY <1>0, <1>1, <1>2, TaskTyped DEF TypeOK
  <2> QED
    BY <1>0, <1>1, <1>2, <2>1 DEF TypeOK
<1>4. /\ \A c \in Callers : (Known(c) => Known(c)') /\ Open(c)' = Open(c)
      /\ \A c \in Callers : \A l \in Open(c) : holdings'[c][l].lag <= holdings[c][l].lag
  BY <1>0, <1>1, RowsTyped DEF Known, Open
<1>5. AgendaInv'
  BY <1>0, <1>1, <1>3, <1>4, DoneKeepsAgenda
<1>6. \A c \in Callers, l \in Locks : Metered(c, l)'
  BY <1>1, OthersStayMetered DEF BudgetInv
<1> QED
  BY <1>3, <1>5, <1>6 DEF BudgetInv


LEMMA BillKeeps ==
  ASSUME BudgetInv, Bill
  PROVE  BudgetInv'
<1>0. TypeOK /\ AgendaInv /\ (\A d \in Callers, k \in Locks : Metered(d, k))
  BY DEF BudgetInv
<1>1. /\ todo # <<>> /\ Task.do = "settle" /\ ~Task.owing
      /\ UNCHANGED <<config, row, arrears, callers, holdings, up>>
  BY DEF Bill, Doing, tables, memory
<1>2. /\ Task \in TaskType /\ Task \in Tasks /\ Ready(Task) /\ up
      /\ Tail(todo) \in Seq(TaskType) /\ InOrder(Tail(todo))
      /\ \A u \in ToSet(Tail(todo)) : u \in TaskType /\ Before(Task, u)
  BY <1>0, <1>1, TaskDone
<1>3. PICK c \in Callers : c = Task.caller
  BY <1>1, <1>2, TaskTyped
<1>4. Known(c) /\ ~Owes(c)
  BY <1>1, <1>2, <1>3 DEF Ready
<1> DEFINE excess == CarryOver(callers[c]) - callers[c].limit
           m == [l \in Locks |-> [meter[c][l] EXCEPT !.billed = @ + meter[c][l].unbilled,
                                                     !.unbilled = 0]]
<1>5. excess \in Int
  <2>1. callers[c] \in Runtime
    BY <1>0, <1>4 DEF TypeOK, Known
  <2> QED
    BY <2>1 DEF CarryOver, Runtime
<1>6. meter' = [meter EXCEPT ![c] = m]
      /\ Then(IF excess > 0
              THEN <<[do |-> "arrears", caller |-> c, amount |-> excess]>> ELSE <<>>)
  BY <1>3 DEF Bill
<1> HIDE DEF excess
<1>7. ASSUME NEW l \in Locks
      PROVE  /\ m[l] \in [age : Nat, billed : Nat, unbilled : Nat]
             /\ m[l].age = meter[c][l].age
             /\ m[l].billed + m[l].unbilled = meter[c][l].billed + meter[c][l].unbilled
  <2>1. meter[c][l] \in [age : Nat, billed : Nat, unbilled : Nat]
    BY <1>0 DEF TypeOK
  <2>2. PICK old \in [age : Nat, billed : Nat, unbilled : Nat] : old = meter[c][l]
    BY <2>1
  <2>3. m[l] = [old EXCEPT !.billed = @ + old.unbilled, !.unbilled = 0]
    BY <2>2
  <2>4. /\ old.age \in Nat /\ old.billed \in Nat /\ old.unbilled \in Nat
        /\ old = [age |-> old.age, billed |-> old.billed, unbilled |-> old.unbilled]
    OBVIOUS
  <2>5. m[l] = [age |-> old.age, billed |-> old.billed + old.unbilled, unbilled |-> 0]
    BY <2>3, <2>4
  <2> HIDE DEF m
  <2> QED
    BY <2>2, <2>4, <2>5
<1>8. m \in [Locks -> [age : Nat, billed : Nat, unbilled : Nat]]
  BY <1>7
<1> HIDE DEF m
<1>9. /\ meter' \in [Callers -> [Locks -> [age : Nat, billed : Nat, unbilled : Nat]]]
      /\ meter'[c] = m /\ \A d \in Callers : d # c => meter'[d] = meter[d]
  BY <1>0, <1>6, <1>8 DEF TypeOK
<1>10. ASSUME NEW d \in Callers, NEW k \in Locks
       PROVE  Metered(d, k)'
  <2>1. /\ meter'[d][k].age = meter[d][k].age
        /\ meter'[d][k].billed + meter'[d][k].unbilled
             = meter[d][k].billed + meter[d][k].unbilled
    BY <1>7, <1>9
  <2> QED
    BY <2>1, <1>0, <1>1 DEF Metered, Running
<1>11. /\ \A d \in Callers : (Known(d) => Known(d)') /\ Open(d)' = Open(d)
       /\ \A d \in Callers : \A l \in Open(d) : holdings'[d][l].lag <= holdings[d][l].lag
  BY <1>0, <1>1, RowsTyped DEF Known, Open
<1>12. CASE ~(excess > 0)
  <2>1. Done
    <3>1. <<>> \o Tail(todo) = Tail(todo)
      BY <1>2, ConcatEmptySeq
    <3> QED
      BY <3>1, <1>6, <1>12 DEF Then, Done
  <2>2. TypeOK'
    BY <2>1, <1>0, <1>1, <1>2, <1>9 DEF TypeOK, Done
  <2>3. AgendaInv'
    BY <2>1, <2>2, <1>0, <1>1, <1>11, DoneKeepsAgenda
  <2> QED
    BY <2>2, <2>3, <1>10 DEF BudgetInv
<1>13. CASE excess > 0
  <2>1. PICK t \in TaskType : t = [do |-> "arrears", caller |-> c, amount |-> excess]
    <3>1. excess \in Nat
      BY <1>5, <1>13
    <3> QED
      BY <3>1 DEF TaskType
  <2>2. t.do = "arrears" /\ t.caller = c
    BY <2>1
  <2>3. todo' = <<t>> \o Tail(todo)
    BY <2>1, <1>6, <1>13 DEF Then
  <2>4. /\ todo' \in Seq(TaskType) /\ Tasks' = {t} \cup ToSet(Tail(todo))
        /\ InOrder(todo)'
    <3>1. \A u \in ToSet(Tail(todo)) : Before(t, u)
      BY <2>2, <1>1, <1>2 DEF Before, Rank
    <3>2. InOrder(<<t>> \o Tail(todo))
      BY <3>1, <1>2, OrderWithOneMore
    <3>3. /\ <<t>> \o Tail(todo) \in Seq(TaskType)
          /\ ToSet(<<t>> \o Tail(todo)) = {t} \cup ToSet(Tail(todo))
      BY <1>2, ListPrepended
    <3> QED
      BY <2>3, <3>2, <3>3 DEF Tasks
  <2>5. TypeOK'
    BY <2>4, <1>0, <1>1, <1>9 DEF TypeOK
  <2>6. \A v \in {t} \cap Tasks' : Ready(v)' /\ v.do # "transfer"
    <3>1. ~Owes(c)'
      BY <1>1, <1>4 DEF Owes
    <3> QED
      BY <2>2, <3>1 DEF Ready
  <2>7. \A v \in ToSet(Tail(todo)) : v.do = "transfer" => MeteredUpToNow(v.from)'
    BY <2>4, <2>5, <1>0, <1>1, <1>11, RestStaysMetered
  <2>8. up' /\ Tasks' \subseteq {t} \cup ToSet(Tail(todo))
    BY <2>4, <1>1, <1>2
  <2>9. AgendaInv'
    BY <2>4, <2>6, <2>7, <2>8, <1>0, <1>1, <1>11, AgendaGoesOn
  <2> QED
    BY <2>5, <2>9, <1>10 DEF BudgetInv
<1> QED
  BY <1>12, <1>13

(* What Unmetered does to the holdings of a caller                         *)
LEMMA UnmeteredHoldings ==
  ASSUME TypeOK, NEW c \in Callers, Unmetered(c)
  PROVE  /\ holdings' \in [Callers -> [Locks -> Holding \cup {None}]]
         /\ \A d \in Callers : Open(d)' = Open(d)
         /\ \A d \in Callers, l \in Locks :
              /\ holdings'[d][l] = None <=> holdings[d][l] = None
              /\ holdings[d][l] # None =>
                   /\ holdings'[d][l].left = holdings[d][l].left
                   /\ holdings'[d][l].lag <= holdings[d][l].lag
<1> DEFINE h == [l \in Locks |-> IF holdings[c][l] = None THEN None
                                 ELSE [holdings[c][l] EXCEPT !.lag = 0]]
<1>1. ASSUME NEW l \in Locks
      PROVE  /\ h[l] \in Holding \cup {None}
             /\ h[l] = None <=> holdings[c][l] = None
             /\ holdings[c][l] # None =>
                  h[l].left = holdings[c][l].left /\ h[l].lag <= holdings[c][l].lag
  <2>1. CASE holdings[c][l] = None
    BY <2>1
  <2>2. CASE holdings[c][l] # None
    <3>1. holdings[c][l] \in Holding
      BY <2>2 DEF TypeOK
    <3>2. /\ [holdings[c][l] EXCEPT !.lag = 0] \in Holding
          /\ [holdings[c][l] EXCEPT !.lag = 0].left = holdings[c][l].left
          /\ [holdings[c][l] EXCEPT !.lag = 0].lag <= holdings[c][l].lag
      BY <3>1 DEF Holding
    <3> QED
      BY <3>2, <2>2, NoneAssumption
  <2> QED
    BY <2>1, <2>2
<1>2. h \in [Locks -> Holding \cup {None}]
  BY <1>1
<1>3. holdings' = [holdings EXCEPT ![c] = h]
  BY DEF Unmetered
<1> HIDE DEF h
<1>4. /\ holdings' \in [Callers -> [Locks -> Holding \cup {None}]]
      /\ holdings'[c] = h /\ \A d \in Callers : d # c => holdings'[d] = holdings[d]
  BY <1>2, <1>3 DEF TypeOK
<1>5. ASSUME NEW d \in Callers, NEW l \in Locks
      PROVE  /\ holdings'[d][l] = None <=> holdings[d][l] = None
             /\ holdings[d][l] # None =>
                  /\ holdings'[d][l].left = holdings[d][l].left
                  /\ holdings'[d][l].lag <= holdings[d][l].lag
  BY <1>1, <1>4, RowsTyped
<1>6. \A d \in Callers : Open(d)' = Open(d)
  BY <1>5 DEF Open
<1> QED
  BY <1>4, <1>5, <1>6


(* A lag that gets shorter keeps the holding metered.                      *)
LEMMA LessStaysMetered ==
  ASSUME TypeOK, TypeOK', NEW c \in Callers, NEW l \in Locks, Metered(c, l),
         holdings'[c][l] = None <=> holdings[c][l] = None,
         holdings[c][l] # None =>
           /\ holdings'[c][l].left = holdings[c][l].left
           /\ holdings'[c][l].lag <= holdings[c][l].lag,
         row'[c][l] = row[c][l], meter'[c][l] = meter[c][l]
  PROVE  Metered(c, l)'
<1>1. holdings[c][l] # None => holdings[c][l].lag \in Nat /\ holdings'[c][l].lag \in Nat
  <2>1. ASSUME holdings[c][l] # None
        PROVE  holdings[c][l] \in Holding /\ holdings'[c][l] \in Holding
    BY <2>1 DEF TypeOK
  <2> QED
    BY <2>1 DEF Holding
<1>2. meter[c][l].age \in Nat /\ meter[c][l].billed \in Nat /\ meter[c][l].unbilled \in Nat
  BY RowsTyped
<1> QED
  BY <1>1, <1>2 DEF Metered, Running

(* What a reset makes of a caller                                          *)
NextPeriod(b, owing) ==
  [b EXCEPT !.consumed = IF owing THEN 0 ELSE b.overdraft + b.penalty,
            !.overdraft = 0, !.penalty = 0, !.net = 0,
            !.left = @ + 2 * b.period * PeriodsToAdvance(b)]

LEMMA NextPeriodTyped ==
  ASSUME NEW b \in Runtime, NEW owing \in BOOLEAN
  PROVE  NextPeriod(b, owing) \in Runtime
<1>1. b.period \in Nat /\ b.period > 0 /\ b.left \in Int
      /\ b.overdraft \in Nat /\ b.penalty \in Nat
  BY DEF Runtime
<1>2. PICK e \in Int : e = (-b.left) \div 2
  BY <1>1
<1>3. e \div b.period \in Int
  BY <1>1
<1>4. PICK k \in Int : k = PeriodsToAdvance(b)
  BY <1>1, <1>2, <1>3 DEF PeriodsToAdvance
<1>5. b.left + 2 * b.period * k \in Int
  BY <1>1
<1>6. PICK left \in Int : left = b.left + 2 * b.period * PeriodsToAdvance(b)
  BY <1>4, <1>5
<1>7. PICK consumed \in Nat : consumed = IF owing THEN 0 ELSE b.overdraft + b.penalty
  BY <1>1
<1>8. /\ b.limit \in Nat /\ b.overdraftLimit \in Nat
      /\ b = [limit |-> b.limit, period |-> b.period, overdraftLimit |-> b.overdraftLimit,
              consumed |-> b.consumed, overdraft |-> b.overdraft, penalty |-> b.penalty,
              net |-> b.net, left |-> b.left]
  BY DEF Runtime
<1>9. NextPeriod(b, owing) =
        [limit |-> b.limit, period |-> b.period, overdraftLimit |-> b.overdraftLimit,
         consumed |-> consumed, overdraft |-> 0, penalty |-> 0, net |-> 0, left |-> left]
  <2>1. NextPeriod(b, owing) = [b EXCEPT !.consumed = consumed, !.overdraft = 0,
                                         !.penalty = 0, !.net = 0, !.left = left]
    BY <1>6, <1>7 DEF NextPeriod
  <2> QED
    BY <2>1, <1>8
<1> QED
  BY <1>1, <1>8, <1>9 DEF Runtime

LEMMA ResetKeeps ==
  ASSUME BudgetInv, Reset
  PROVE  BudgetInv'
<1>0. TypeOK /\ AgendaInv /\ (\A d \in Callers, k \in Locks : Metered(d, k))
  BY DEF BudgetInv
<1>1. /\ todo # <<>> /\ Task.do = "reset" /\ Unmetered(Task.caller) /\ Done
      /\ UNCHANGED <<config, row, arrears, up, meter>>
  BY DEF Reset, Doing, tables
<1>2. /\ Task \in TaskType /\ Ready(Task)
  BY <1>0, <1>1, TaskDone
<1>3. PICK c \in Callers : c = Task.caller /\ Task.owing \in BOOLEAN
  BY <1>1, <1>2, TaskTyped
<1>4. Known(c) /\ callers[c] \in Runtime
  BY <1>0, <1>1, <1>2, <1>3 DEF Ready, Known, TypeOK
<1>5. PICK b \in Runtime : callers' = [callers EXCEPT ![c] = b]
  <2>1. NextPeriod(callers[c], Task.owing) \in Runtime
    BY <1>3, <1>4, NextPeriodTyped
  <2>2. callers' = [callers EXCEPT ![c] = NextPeriod(callers[c], Task.owing)]
    BY <1>3 DEF Reset, NextPeriod
  <2> QED
    BY <2>1, <2>2
<1>6. /\ callers' \in [Callers -> Runtime \cup {None}]
      /\ \A d \in Callers : Known(d) => Known(d)'
  BY <1>0, <1>5, NoneAssumption DEF TypeOK, Known
<1>7. todo' \in Seq(TaskType)
  BY <1>0, <1>1, TaskDone DEF Done
<1>8. /\ holdings' \in [Callers -> [Locks -> Holding \cup {None}]]
      /\ \A d \in Callers : Open(d)' = Open(d)
      /\ \A d \in Callers, l \in Locks :
           /\ holdings'[d][l] = None <=> holdings[d][l] = None
           /\ holdings[d][l] # None =>
                /\ holdings'[d][l].left = holdings[d][l].left
                /\ holdings'[d][l].lag <= holdings[d][l].lag
  BY <1>0, <1>1, <1>3, UnmeteredHoldings
<1>9. TypeOK'
  BY <1>0, <1>1, <1>6, <1>7, <1>8 DEF TypeOK
<1>10. \A d \in Callers : \A l \in Open(d) : holdings'[d][l].lag <= holdings[d][l].lag
  BY <1>8 DEF Open
<1>11. AgendaInv'
  BY <1>0, <1>1, <1>6, <1>8, <1>9, <1>10, DoneKeepsAgenda
<1>12. \A d \in Callers, l \in Locks : Metered(d, l)'
  BY <1>0, <1>1, <1>8, <1>9, LessStaysMetered
<1> QED
  BY <1>9, <1>11, <1>12 DEF BudgetInv


-----------------------------------------------------------------------------
(* The last task of a method, and the polls                                *)

LEMMA OneTask ==
  ASSUME NEW t \in TaskType
  PROVE  <<t>> \in Seq(TaskType) /\ ToSet(<<t>>) = {t} /\ InOrder(<<t>>)
<1>1. <<t>> \o <<>> = <<t>>
  BY ConcatEmptySeq
<1>2. <<>> \in Seq(TaskType)
  OBVIOUS
<1>3. <<t>> \o <<>> \in Seq(TaskType) /\ ToSet(<<t>> \o <<>>) = {t} \cup ToSet(<<>>)
  BY <1>2, ListPrepended
<1>4. InOrder(<<t>> \o <<>>)
  BY <1>2, NoTasks, OrderWithOneMore
<1> QED
  BY <1>1, <1>3, <1>4, NoTasks

(* A new agenda, of a refresh or more and no transfer                      *)
LEMMA NewAgenda ==
  ASSUME up', InOrder(todo)', NEW news, Tasks' \subseteq news,
         \A t \in news : Ready(t)' /\ t.do # "transfer"
  PROVE  AgendaInv'
BY DEF AgendaInv

LEMMA PollNextKeeps ==
  ASSUME BudgetInv, NEW c \in Callers, PollNext(c)
  PROVE  BudgetInv'
<1>0. TypeOK /\ AgendaInv
  BY DEF BudgetInv
<1>1. /\ todo # <<>> /\ Task.do = "poll" /\ c \in Task.callers
      /\ UNCHANGED <<tables, memory, up, meter>>
  BY DEF PollNext, Doing
<1>2. Task \in TaskType /\ Ready(Task) /\ up
  BY <1>0, <1>1, TaskDone
<1>3. Tail(todo) = <<>>
  BY <1>0, <1>1, LastTask DEF Rank
<1>4. PICK cs \in SUBSET Callers : cs = Task.callers /\ \A d \in cs : Known(d)
  BY <1>1, <1>2, TaskTyped DEF Ready
<1>5. \A d \in cs : Known(d)'
  BY <1>1, <1>4 DEF Known, memory
<1>6. PICK r \in TaskType : r = [do |-> "refresh", caller |-> c]
  BY DEF TaskType
<1>7. PICK w \in TaskType : w.do = "poll" /\ w.callers = cs \ {c} /\ w = [Task EXCEPT !.callers = @ \ {c}]
  <2>1. Task \in [do : {"poll"}, callers : SUBSET Callers]
    BY <1>1, <1>2 DEF TaskType, LocksLoop
  <2>2. /\ [Task EXCEPT !.callers = @ \ {c}] \in [do : {"poll"}, callers : SUBSET Callers]
        /\ [Task EXCEPT !.callers = @ \ {c}].callers = Task.callers \ {c}
    BY <2>1
  <2> QED
    BY <1>4, <2>2 DEF TaskType
<1>8. Before(r, w)
  BY <1>6, <1>7 DEF Before, Rank
<1>9. /\ Ready(r)' /\ r.do # "transfer" /\ w.do # "transfer"
      /\ \A t \in {r, w} : Ready(t)'
  BY <1>1, <1>4, <1>5, <1>6, <1>7 DEF Ready
<1>10. /\ todo' \in Seq(TaskType) /\ InOrder(todo)' /\ Tasks' \subseteq {r, w}
  <2>1. todo' = <<r>> \o (IF cs = {c} THEN <<>> ELSE <<w>>)
    <3>1. todo' = (<<r>> \o (IF cs = {c} THEN <<>> ELSE <<w>>)) \o Tail(todo)
      BY <1>4, <1>6, <1>7 DEF PollNext, Then
    <3>2. \A s \in Seq(TaskType) : s \o <<>> = s
      BY ConcatEmptySeq
    <3>3. <<r>> \o (IF cs = {c} THEN <<>> ELSE <<w>>) \in Seq(TaskType)
      OBVIOUS
    <3> QED
      BY <3>1, <3>2, <3>3, <1>3
  <2>2. CASE cs = {c}
    <3>1. <<r>> \o <<>> = <<r>>
      BY ConcatEmptySeq
    <3>2. todo' = <<r>>
      BY <3>1, <2>1, <2>2
    <3> QED
      BY <3>2, OneTask DEF Tasks
  <2>3. CASE cs # {c}
    <3>1. /\ <<w>> \in Seq(TaskType) /\ ToSet(<<w>>) = {w} /\ InOrder(<<w>>)
      BY OneTask
    <3>2. /\ <<r>> \o <<w>> \in Seq(TaskType) /\ ToSet(<<r>> \o <<w>>) = {r} \cup {w}
      BY <3>1, ListPrepended
    <3>3. InOrder(<<r>> \o <<w>>)
      BY <3>1, <1>8, OrderWithOneMore
    <3>4. todo' = <<r>> \o <<w>>
      BY <2>1, <2>3
    <3> QED
      BY <3>2, <3>3, <3>4 DEF Tasks
  <2> QED
    BY <2>2, <2>3
<1>11. AgendaInv'
  <2>1. up' /\ \A t \in {r, w} : Ready(t)' /\ t.do # "transfer"
    BY <1>1, <1>2, <1>9
  <2> QED
    BY <2>1, <1>10, NewAgenda
<1> QED
  BY <1>1, <1>10, <1>11, OnlyAgendaChanges

(* The last task leaves nothing to do.                                     *)
LEMMA LastTaskDone ==
  ASSUME TypeOK, AgendaInv, todo # <<>>, Rank(Task) = 6, Done
  PROVE  todo' = <<>> /\ AgendaInv' /\ todo' \in Seq(TaskType)
BY LastTask, IdleAgenda DEF Done

LEMMA TransferRefusedKeeps ==
  ASSUME BudgetInv, TransferRefused
  PROVE  BudgetInv'
<1>1. /\ todo # <<>> /\ Task.do = "transfer" /\ Done /\ UNCHANGED <<tables, memory, up, meter>>
  BY DEF TransferRefused, Doing
<1>2. AgendaInv' /\ todo' \in Seq(TaskType)
  BY <1>1, LastTaskDone DEF BudgetInv, Rank
<1> QED
  BY <1>1, <1>2, OnlyAgendaChanges

LEMMA RuntimeFields ==
  ASSUME NEW b \in Runtime
  PROVE  /\ b.limit \in Nat /\ b.period \in Nat /\ b.period > 0 /\ b.overdraftLimit \in Nat
         /\ b.consumed \in Nat /\ b.overdraft \in Nat /\ b.penalty \in Nat
         /\ b.net \in Int /\ b.left \in Int
         /\ b = [limit |-> b.limit, period |-> b.period, overdraftLimit |-> b.overdraftLimit,
                 consumed |-> b.consumed, overdraft |-> b.overdraft, penalty |-> b.penalty,
                 net |-> b.net, left |-> b.left]
BY DEF Runtime

(* What a transfer makes of a caller's record                              *)
Balanced(b, consumed, overdraft, net) ==
  [b EXCEPT !.consumed = consumed, !.overdraft = overdraft, !.net = net]

LEMMA BalancedTyped ==
  ASSUME NEW b \in Runtime, NEW consumed \in Nat, NEW overdraft \in Nat, NEW net \in Int
  PROVE  /\ Balanced(b, consumed, overdraft, net) \in Runtime
         /\ Balanced(b, consumed, overdraft, net).limit = b.limit
         /\ Balanced(b, consumed, overdraft, net).consumed = consumed
<1>1. b = [limit |-> b.limit, period |-> b.period, overdraftLimit |-> b.overdraftLimit,
           consumed |-> b.consumed, overdraft |-> b.overdraft, penalty |-> b.penalty,
           net |-> b.net, left |-> b.left]
  BY RuntimeFields
<1>2. Balanced(b, consumed, overdraft, net) =
        [limit |-> b.limit, period |-> b.period, overdraftLimit |-> b.overdraftLimit,
         consumed |-> consumed, overdraft |-> overdraft, penalty |-> b.penalty,
         net |-> net, left |-> b.left]
  <2>1. Balanced(b, consumed, overdraft, net) =
          [b EXCEPT !.consumed = consumed, !.overdraft = overdraft, !.net = net]
    BY DEF Balanced
  <2> QED
    BY <1>1, <2>1
<1> QED
  BY <1>2, RuntimeFields DEF Runtime

LEMMA TransferEffect ==
  ASSUME TypeOK, AgendaInv, Transfer
  PROVE  \E f \in Callers, t \in Callers, given \in Nat :
           /\ f = Task.from /\ t = Task.to /\ f # t /\ given = Task.amount
           /\ Known(f) /\ Known(t)
           /\ callers[f].consumed + given <= callers[f].limit
           /\ callers' \in [Callers -> Runtime \cup {None}]
           /\ callers'[f].limit = callers[f].limit
           /\ callers'[f].consumed = callers[f].consumed + given
<1>1. todo # <<>> /\ Task.do = "transfer"
  BY DEF Transfer, Doing
<1>2. Task \in TaskType /\ Ready(Task)
  BY <1>1, TaskDone
<1>3. PICK f \in Callers, t \in Callers, given \in Nat :
        f = Task.from /\ t = Task.to /\ given = Task.amount /\ f # t /\ Known(f) /\ Known(t)
  BY <1>1, <1>2, TaskTyped DEF Ready
<1>4. PICK bf \in Runtime, bt \in Runtime : bf = callers[f] /\ bt = callers[t]
  BY <1>3 DEF TypeOK, Known
<1>5. bf.limit - bf.consumed >= given
  BY <1>3, <1>4 DEF Transfer, Covered
<1>6. bf.limit \in Nat /\ bf.consumed \in Nat /\ bt.consumed \in Nat /\ bf.net \in Int
      /\ bt.net \in Int
  BY DEF Runtime
<1>7. PICK consumed \in Nat :
        consumed = IF bt.consumed - given < 0 THEN 0 ELSE bt.consumed - given
  BY <1>6
<1> DEFINE nf == Balanced(bf, bf.consumed + given, bf.overdraft, bf.net - given)
           nt == Balanced(bt, consumed, 0, bt.net + given)
<1>8. nf \in Runtime /\ nf.limit = bf.limit /\ nf.consumed = bf.consumed + given
  <2>1. bf.consumed + given \in Nat /\ bf.net - given \in Int
    BY <1>6
  <2>2. bf.overdraft \in Nat
    BY RuntimeFields
  <2>3. \A u \in Nat, o \in Nat, n \in Int :
          /\ Balanced(bf, u, o, n) \in Runtime
          /\ Balanced(bf, u, o, n).limit = bf.limit
          /\ Balanced(bf, u, o, n).consumed = u
    BY BalancedTyped
  <2> QED
    BY ONLY <2>1, <2>2, <2>3
<1>9. nt \in Runtime
  <2>1. bt.net + given \in Int /\ 0 \in Nat
    BY <1>6
  <2> QED
    BY <2>1, BalancedTyped
<1>10. Overdrawn(nt) \in Runtime
  BY <1>9, ChargedTyped
<1>11. /\ callers'[f] = nf
       /\ callers' \in [Callers -> Runtime \cup {None}]
  <2>1. consumed = IF callers[Task.to].consumed - Task.amount < 0 THEN 0
                   ELSE callers[Task.to].consumed - Task.amount
    BY <1>3, <1>4, <1>7
  <2>2. callers' = [callers EXCEPT
           ![f].consumed = @ + given,
           ![f].net = @ - given,
           ![t] = Overdrawn([bt EXCEPT !.consumed = consumed, !.overdraft = 0,
                                       !.net = @ + given])]
    BY <1>3, <1>4, <2>1 DEF Transfer
  <2>3. callers \in [Callers -> Runtime \cup {None}]
    BY DEF TypeOK
  <2>4. DOMAIN callers' = Callers
    BY <2>2, <2>3
  <2>5. callers'[t] = Overdrawn(nt)
    <3>1. callers'[t] = Overdrawn([bt EXCEPT !.consumed = consumed, !.overdraft = 0,
                                             !.net = bt.net + given])
      BY <1>3, <1>4, <2>2, <2>3
    <3> QED
      BY <3>1 DEF Balanced
  <2>6. callers'[f] = nf
    <3>1. callers'[f] = [bf EXCEPT !.consumed = bf.consumed + given, !.net = bf.net - given]
      BY <1>3, <1>4, <2>2, <2>3
    <3>2. PICK u, n : u = bf.consumed + given /\ n = bf.net - given
      OBVIOUS
    <3>3. bf = [limit |-> bf.limit, period |-> bf.period,
                overdraftLimit |-> bf.overdraftLimit, consumed |-> bf.consumed,
                overdraft |-> bf.overdraft, penalty |-> bf.penalty, net |-> bf.net,
                left |-> bf.left]
      BY RuntimeFields
    <3>4. [bf EXCEPT !.consumed = u, !.net = n] = Balanced(bf, u, bf.overdraft, n)
      BY <3>3 DEF Balanced
    <3> QED
      BY <3>1, <3>2, <3>4
  <2>7. \A c \in Callers \ {f, t} : callers'[c] = callers[c]
    BY <1>3, <2>2, <2>3
  <2>8. callers' = [c \in Callers |-> callers'[c]]
    BY <2>2, <2>3
  <2> HIDE DEF nf, nt
  <2>9. \A c \in Callers : callers'[c] \in Runtime \cup {None}
    BY <1>8, <1>10, <2>3, <2>5, <2>6, <2>7
  <2> QED
    BY <2>6, <2>8, <2>9
<1> HIDE DEF nf, nt
<1>12. bf.consumed + given <= bf.limit
  BY <1>5, <1>6
<1> QED
  BY <1>3, <1>4, <1>8, <1>11, <1>12

LEMMA TransferKeeps ==
  ASSUME BudgetInv, Transfer
  PROVE  BudgetInv'
<1>0. TypeOK /\ AgendaInv /\ (\A d \in Callers, k \in Locks : Metered(d, k))
  BY DEF BudgetInv
<1>1. /\ todo # <<>> /\ Task.do = "transfer" /\ Done
      /\ UNCHANGED <<config, row, arrears, holdings, up, meter>>
  BY DEF Transfer, Doing, tables
<1>2. AgendaInv' /\ todo' \in Seq(TaskType)
  BY <1>0, <1>1, LastTaskDone DEF Rank
<1>3. callers' \in [Callers -> Runtime \cup {None}]
  BY <1>0, TransferEffect
<1>4. TypeOK'
  BY <1>0, <1>1, <1>2, <1>3 DEF TypeOK
<1>5. \A c \in Callers, l \in Locks : Metered(c, l)'
  BY <1>0, <1>1, OthersStayMetered
<1> QED
  BY <1>2, <1>4, <1>5 DEF BudgetInv

LEMMA FreshTyped ==
  ASSUME NEW cfg \in Config
  PROVE  Fresh(cfg) \in Runtime
BY DEF Fresh, Config, Runtime

LEMMA ConfigureKeeps ==
  ASSUME BudgetInv, Configure
  PROVE  BudgetInv'
<1>0. TypeOK /\ AgendaInv /\ (\A d \in Callers, k \in Locks : Metered(d, k))
  BY DEF BudgetInv
<1>1. /\ todo # <<>> /\ Task.do = "configure" /\ Done /\ Unmetered(Task.caller)
      /\ callers' = [callers EXCEPT ![Task.caller] = Fresh(Task.config)]
      /\ config' = [config EXCEPT ![Task.caller] = Task.config]
      /\ UNCHANGED <<row, arrears, up, meter>>
  BY DEF Configure, Doing
<1>2. AgendaInv' /\ todo' \in Seq(TaskType) /\ Task \in TaskType
  BY <1>0, <1>1, LastTaskDone, TaskDone DEF Rank
<1>3. PICK c \in Callers, cfg \in Config : c = Task.caller /\ cfg = Task.config
  BY <1>1, <1>2, TaskTyped
<1>4. /\ callers' \in [Callers -> Runtime \cup {None}]
      /\ config' \in [Callers -> Config \cup {None}]
  BY <1>0, <1>1, <1>3, FreshTyped DEF TypeOK
<1>5. /\ holdings' \in [Callers -> [Locks -> Holding \cup {None}]]
      /\ \A d \in Callers, l \in Locks :
           /\ holdings'[d][l] = None <=> holdings[d][l] = None
           /\ holdings[d][l] # None =>
                /\ holdings'[d][l].left = holdings[d][l].left
                /\ holdings'[d][l].lag <= holdings[d][l].lag
  BY <1>0, <1>1, <1>3, UnmeteredHoldings
<1>6. TypeOK'
  BY <1>0, <1>1, <1>2, <1>4, <1>5 DEF TypeOK
<1>7. \A d \in Callers, l \in Locks : Metered(d, l)'
  BY <1>0, <1>1, <1>5, <1>6, LessStaysMetered
<1> QED
  BY <1>2, <1>6, <1>7 DEF BudgetInv

LEMMA ForgetKeeps ==
  ASSUME BudgetInv, Forget
  PROVE  BudgetInv'
<1>0. TypeOK /\ AgendaInv /\ (\A d \in Callers, k \in Locks : Metered(d, k))
  BY DEF BudgetInv
<1>1. /\ todo # <<>> /\ Task.do = "forget" /\ Done
      /\ callers' = [callers EXCEPT ![Task.caller] = None]
      /\ config' = [config EXCEPT ![Task.caller] = None]
      /\ UNCHANGED <<row, arrears, holdings, up, meter>>
  BY DEF Forget, Doing
<1>2. AgendaInv' /\ todo' \in Seq(TaskType)
  BY <1>0, <1>1, LastTaskDone DEF Rank
<1>3. TypeOK'
  BY <1>0, <1>1, <1>2 DEF TypeOK
<1>4. \A d \in Callers, l \in Locks : Metered(d, l)'
  BY <1>0, <1>1, OthersStayMetered
<1> QED
  BY <1>2, <1>3, <1>4 DEF BudgetInv


-----------------------------------------------------------------------------
(* Calls, which find nothing left to do                                    *)

LEMMA RefreshAgenda ==
  ASSUME NEW c \in Callers, todo' = <<[do |-> "refresh", caller |-> c]>>, up', Known(c)'
  PROVE  AgendaInv' /\ todo' \in Seq(TaskType)
<1>1. PICK t \in TaskType : t = [do |-> "refresh", caller |-> c]
  BY DEF TaskType
<1>2. todo' \in Seq(TaskType) /\ Tasks' = {t} /\ InOrder(todo)'
  BY <1>1, OneTask DEF Tasks
<1>3. \A u \in {t} : Ready(u)' /\ u.do # "transfer"
  BY <1>1 DEF Ready
<1> QED
  BY <1>2, <1>3, NewAgenda

LEMMA CheckAcquireKeeps ==
  ASSUME BudgetInv, NEW c \in Callers, CheckAcquire(c)
  PROVE  BudgetInv'
<1>1. /\ todo' = <<[do |-> "refresh", caller |-> c]>> /\ up' /\ Known(c)'
      /\ UNCHANGED <<tables, memory, up, meter>>
  BY DEF CheckAcquire, MutexFree, Known, memory
<1> QED
  BY <1>1, RefreshAgenda, OnlyAgendaChanges

LEMMA PollKeeps ==
  ASSUME BudgetInv, Poll
  PROVE  BudgetInv'
<1>1. PICK cs \in SUBSET Callers : cs = {c \in Callers : Known(c)}
  OBVIOUS
<1>2. PICK t \in TaskType : t = [do |-> "poll", callers |-> cs]
  BY DEF TaskType
<1>3. todo' = <<t>> /\ up' /\ UNCHANGED <<tables, memory, up, meter>>
  BY <1>1, <1>2 DEF Poll, MutexFree
<1>4. todo' \in Seq(TaskType) /\ Tasks' = {t} /\ InOrder(todo)'
  BY <1>3, OneTask DEF Tasks
<1>5. \A u \in {t} : Ready(u)' /\ u.do # "transfer"
  <2>1. \A c \in cs : Known(c)'
    BY <1>1, <1>3 DEF Known, memory
  <2> QED
    BY <2>1, <1>2 DEF Ready
<1>6. AgendaInv'
  BY <1>3, <1>4, <1>5, NewAgenda
<1> QED
  BY <1>3, <1>4, <1>6, OnlyAgendaChanges

LEMMA ThreeTasks ==
  ASSUME NEW a \in TaskType, NEW b \in TaskType, NEW c \in TaskType,
         Before(a, b), Before(a, c), Before(b, c)
  PROVE  /\ <<a, b, c>> \in Seq(TaskType) /\ ToSet(<<a, b, c>>) = {a, b, c}
         /\ InOrder(<<a, b, c>>)
<1> DEFINE s == <<a, b, c>>
<1>1. s \in Seq(TaskType) /\ Len(s) = 3 /\ DOMAIN s = 1..3
  OBVIOUS
<1>2. s[1] = a /\ s[2] = b /\ s[3] = c
  OBVIOUS
<1> HIDE DEF s
<1>3. ToSet(s) = {a, b, c}
  <2>1. DOMAIN s = {1, 2, 3}
    BY <1>1
  <2> QED
    BY <2>1, <1>2 DEF ToSet
<1>4. ASSUME NEW i \in 1..Len(s), NEW j \in 1..Len(s), i < j
      PROVE  Before(s[i], s[j])
  <2>1. (i = 1 /\ j = 2) \/ (i = 1 /\ j = 3) \/ (i = 2 /\ j = 3)
    BY <1>1, <1>4
  <2> QED
    BY <2>1, <1>2
<1> QED
  BY <1>1, <1>3, <1>4 DEF InOrder, s

LEMMA TransferBudgetKeeps ==
  ASSUME BudgetInv, NEW from \in Callers, NEW to \in Callers, NEW n \in Nat,
         TransferBudget(from, to, n)
  PROVE  BudgetInv'
<1>1. PICK a \in TaskType, b \in TaskType, t \in TaskType :
        /\ a = [do |-> "refresh", caller |-> from]
        /\ b = [do |-> "refresh", caller |-> to]
        /\ t = [do |-> "transfer", from |-> from, to |-> to, amount |-> n]
  BY DEF TaskType
<1>2. /\ todo' = <<a, b, t>> /\ up' /\ from # to /\ Known(from)' /\ Known(to)'
      /\ UNCHANGED <<tables, memory, up, meter>>
  BY <1>1 DEF TransferBudget, TransferTask, MutexFree, Known, memory
<1>3. Before(a, b) /\ Before(a, t) /\ Before(b, t)
  BY <1>1 DEF Before, Rank
<1>4. todo' \in Seq(TaskType) /\ Tasks' = {a, b, t} /\ InOrder(todo)'
  BY <1>2, <1>3, ThreeTasks DEF Tasks
<1>5. \A u \in {a, b, t} : Ready(u)'
  BY <1>1, <1>2 DEF Ready
<1>6. \A u \in {a, b, t} : u.do = "transfer" => MeteredUpToNow(u.from)'
  <2>1. a \in Tasks' /\ a.do = "refresh" /\ a.caller = from
    BY <1>1, <1>4
  <2>2. \A u \in {a, b, t} : u.do = "transfer" => u.from = from
    BY <1>1
  <2> QED
    BY <2>1, <1>1 DEF MeteredUpToNow
<1>7. AgendaInv'
  BY <1>2, <1>4, <1>5, <1>6 DEF AgendaInv
<1> QED
  BY <1>2, <1>4, <1>7, OnlyAgendaChanges

(* Settling up to now                                                      *)
LEMMA SettlementReady ==
  ASSUME NEW c \in Callers, Known(c), NEW t, t = Settlement(c, 0)
  PROVE  /\ t \in TaskType /\ t.do = "settle" /\ t.caller = c
         /\ Ready(t)
<1>1. PICK locks \in SUBSET Locks, owing \in BOOLEAN : locks = Open(c) /\ owing = Owes(c)
  <2>1. Open(c) \in SUBSET Locks
    BY DEF Open
  <2>2. Owes(c) \in BOOLEAN
    BY DEF Owes
  <2> QED
    BY <2>1, <2>2
<1>2. t = [do |-> "settle", caller |-> c, owing |-> owing, end |-> 0, locks |-> locks]
  BY <1>1 DEF Settlement
<1>3. t \in TaskType
  BY <1>2 DEF TaskType, LocksLoop
<1>4. Ready(t)
  BY <1>1, <1>2 DEF Ready
<1> QED
  BY <1>2, <1>3, <1>4

LEMMA SetBudgetKeeps ==
  ASSUME BudgetInv, NEW c \in Callers, NEW cfg \in Config, SetBudget(c, cfg)
  PROVE  BudgetInv'
<1>1. PICK t \in TaskType : t = [do |-> "configure", caller |-> c, config |-> cfg]
  BY DEF TaskType
<1>2. /\ todo' = (IF Known(c) THEN <<Settlement(c, 0)>> ELSE <<>>) \o <<t>>
      /\ up' /\ UNCHANGED <<tables, memory, up, meter>>
  BY <1>1 DEF SetBudget, MutexFree
<1>3. <<t>> \in Seq(TaskType) /\ ToSet(<<t>>) = {t} /\ InOrder(<<t>>)
  BY OneTask
<1>4. CASE ~Known(c)
  <2>1. todo' = <<t>>
    <3>1. <<>> \o <<t>> = <<t>>
      OBVIOUS
    <3> QED
      BY <1>2, <1>4, <3>1, Zenon
  <2>2. todo' \in Seq(TaskType) /\ Tasks' = {t} /\ InOrder(todo)'
    <3>1. PICK one : one = <<t>> /\ one \in Seq(TaskType) /\ ToSet(one) = {t} /\ InOrder(one)
      BY <1>3, Zenon
    <3>2. todo' = one
      BY <2>1, <3>1, Zenon
    <3> QED
      BY <3>1, <3>2, Zenon DEF Tasks, InOrder
  <2>3. \A u \in {t} : Ready(u)' /\ u.do # "transfer"
    BY <1>1 DEF Ready
  <2>4. AgendaInv'
    <3>1. PICK news : news = {t}
      OBVIOUS
    <3>2. up' /\ InOrder(todo)' /\ Tasks' \subseteq news
      BY <2>2, <3>1, <1>2
    <3>3. \A u \in news : Ready(u)' /\ u.do # "transfer"
      BY <2>3, <3>1, Zenon
    <3> QED
      BY <3>2, <3>3, NewAgenda
  <2> QED
    BY <2>2, <2>4, <1>2, OnlyAgendaChanges
<1>5. CASE Known(c)
  <2>1. PICK s : s = Settlement(c, 0)
    OBVIOUS
  <2>2. s \in TaskType /\ s.do = "settle" /\ s.caller = c /\ Ready(s)
    BY <2>1, <1>5, SettlementReady
  <2>3. Before(s, t)
    BY <2>2, <1>1 DEF Before, Rank
  <2>4. todo' = <<s>> \o <<t>>
    BY <2>1, <1>2, <1>5
  <2>5. <<s>> \o <<t>> \in Seq(TaskType) /\ ToSet(<<s>> \o <<t>>) = {s} \cup {t}
    BY <2>2, <1>3, ListPrepended
  <2>6. InOrder(<<s>> \o <<t>>)
    BY <2>2, <2>3, <1>3, OrderWithOneMore
  <2>7. todo' \in Seq(TaskType) /\ Tasks' \subseteq {s, t} /\ InOrder(todo)'
    BY <2>4, <2>5, <2>6 DEF Tasks
  <2>8. \A u \in {s, t} : Ready(u)' /\ u.do # "transfer"
    <3>1. Known(c)' /\ Open(c)' = Open(c) /\ (Owes(c)' <=> Owes(c))
      BY <1>2, <1>5 DEF Known, Open, Owes, memory, tables
    <3> QED
      BY <2>2, <3>1, <1>1 DEF Ready
  <2>9. AgendaInv'
    BY <2>7, <2>8, <1>2, NewAgenda
  <2> QED
    BY <2>7, <2>9, <1>2, OnlyAgendaChanges
<1> QED
  BY <1>4, <1>5

LEMMA DeleteBudgetKeeps ==
  ASSUME BudgetInv, NEW c \in Callers, DeleteBudget(c)
  PROVE  BudgetInv'
<1>1. PICK locks \in SUBSET Locks : locks = Open(c)
  BY DEF Open
<1>2. PICK t \in TaskType, d \in TaskType :
        /\ t = [do |-> "forget", caller |-> c]
        /\ d = [do |-> "drop", caller |-> c, locks |-> locks]
  BY DEF TaskType, LocksLoop
<1>3. PICK s : s = Settlement(c, 0)
  OBVIOUS
<1>4. /\ todo' = <<s>> \o Loop(d) \o <<t>> /\ Known(c)
      /\ up' /\ UNCHANGED <<tables, memory, up, meter>>
  BY <1>1, <1>2, <1>3 DEF DeleteBudget, MutexFree
<1>5. s \in TaskType /\ s.do = "settle" /\ s.caller = c /\ Ready(s)
  BY <1>3, <1>4, SettlementReady
<1>6. <<t>> \in Seq(TaskType) /\ ToSet(<<t>>) = {t} /\ InOrder(<<t>>)
  BY OneTask
<1>7. /\ t.do = "forget" /\ d.do = "drop" /\ Before(s, d) /\ Before(s, t) /\ Before(d, t)
  BY <1>2, <1>5 DEF Before, Rank
<1> DEFINE r == Loop(d) \o <<t>>
<1>8. /\ Loop(d) \in Seq(TaskType) /\ r \in Seq(TaskType) /\ InOrder(r)
      /\ ToSet(r) \subseteq {d} \cup {t}
  <2>1. PICK one \in Seq(TaskType) : one = <<t>> /\ ToSet(one) = {t} /\ InOrder(one)
    BY <1>6
  <2>2. \A u \in ToSet(one) : Before(d, u)
    BY <1>7, <2>1
  <2>3. /\ Loop(d) \in Seq(TaskType) /\ Loop(d) \o one \in Seq(TaskType)
        /\ InOrder(Loop(d) \o one) /\ ToSet(Loop(d) \o one) \subseteq {d} \cup ToSet(one)
    BY <2>1, <2>2, LoopFirst
  <2>4. r = Loop(d) \o one
    BY <2>1, Zenon
  <2> HIDE DEF r
  <2> QED
    BY <2>1, <2>3, <2>4
<1>9. todo' = <<s>> \o r
  <2>1. <<s>> \in Seq(TaskType)
    BY <1>5
  <2> QED
    BY <2>1, <1>4, <1>6, <1>8, ConcatAssociative
<1> HIDE DEF r
<1>10. /\ <<s>> \o r \in Seq(TaskType) /\ ToSet(<<s>> \o r) = {s} \cup ToSet(r)
       /\ InOrder(<<s>> \o r)
  <2>1. \A u \in ToSet(r) : Before(s, u)
    BY <1>7, <1>8
  <2> QED
    BY <2>1, <1>5, <1>8, OneMoreTask
<1>11. todo' \in Seq(TaskType) /\ Tasks' \subseteq {s, d, t} /\ InOrder(todo)'
  BY <1>8, <1>9, <1>10 DEF Tasks
<1>12. \A u \in {s, d, t} : Ready(u)' /\ u.do # "transfer"
  <2>1. Known(c)' /\ Open(c)' = Open(c) /\ Owes(c)' = Owes(c)
    BY <1>4 DEF Known, Open, Owes, memory, tables
  <2> QED
    BY <2>1, <1>5, <1>7 DEF Ready
<1>13. AgendaInv'
  BY <1>4, <1>11, <1>12, NewAgenda
<1> QED
  BY <1>4, <1>11, <1>13, OnlyAgendaChanges


(* Calls that are a step by themselves                                     *)
LEMMA IdleKeeps ==
  ASSUME TypeOK, todo = <<>>, todo' = <<>>
  PROVE  AgendaInv' /\ todo' \in Seq(TaskType)
BY IdleAgenda

LEMMA RowSetTo ==
  ASSUME NEW f \in [Callers -> [Locks -> Holding \cup {None}]], NEW c \in Callers,
         NEW l \in Locks, NEW h \in Holding \cup {None}
  PROVE  LET g == [f EXCEPT ![c][l] = h]
         IN  /\ g \in [Callers -> [Locks -> Holding \cup {None}]]
             /\ g[c][l] = h
             /\ \A d \in Callers, k \in Locks : ~(d = c /\ k = l) => g[d][k] = f[d][k]
<1>1. [f EXCEPT ![c][l] = h] = [f EXCEPT ![c] = [f[c] EXCEPT ![l] = h]]
  OBVIOUS
<1>2. f[c] \in [Locks -> Holding \cup {None}]
  OBVIOUS
<1>3. [f[c] EXCEPT ![l] = h] \in [Locks -> Holding \cup {None}]
  BY <1>2
<1> QED
  BY <1>1, <1>2, <1>3

LEMMA StartHoldingKeeps ==
  ASSUME BudgetInv, NEW c \in Callers, NEW l \in Locks, NEW sec \in Nat, StartHolding(c, l, sec)
  PROVE  BudgetInv'
<1>0. TypeOK /\ AgendaInv /\ (\A d \in Callers, k \in Locks : Metered(d, k))
  BY DEF BudgetInv
<1>1. PICK h \in Holding : h = [left |-> 2 * sec, lag |-> 0] /\ h.left = 2 * sec /\ h.lag = 0
  <2>1. [left |-> 2 * sec, lag |-> 0] \in Holding
    BY DEF Holding
  <2> QED
    BY <2>1
<1>2. /\ todo = <<>> /\ todo' = <<>>
      /\ holdings' = [holdings EXCEPT ![c][l] = h] /\ row' = [row EXCEPT ![c][l] = h]
      /\ meter' = [meter EXCEPT ![c][l] = NotMetered]
      /\ UNCHANGED <<config, arrears, callers, up>>
  BY <1>1 DEF StartHolding, MutexFree
<1>3. AgendaInv' /\ todo' \in Seq(TaskType)
  BY <1>0, <1>2, IdleKeeps
<1>4. /\ holdings' \in [Callers -> [Locks -> Holding \cup {None}]]
      /\ holdings'[c][l] = h
      /\ \A d \in Callers, k \in Locks : ~(d = c /\ k = l) => holdings'[d][k] = holdings[d][k]
  BY <1>0, <1>2, RowSetTo DEF TypeOK
<1>5. /\ row' \in [Callers -> [Locks -> Holding \cup {None}]]
      /\ row'[c][l] = h
      /\ \A d \in Callers, k \in Locks : ~(d = c /\ k = l) => row'[d][k] = row[d][k]
  BY <1>0, <1>2, RowSetTo DEF TypeOK
<1>6. /\ meter' \in [Callers -> [Locks -> [age : Nat, billed : Nat, unbilled : Nat]]]
      /\ meter'[c][l] = NotMetered
      /\ \A d \in Callers, k \in Locks : ~(d = c /\ k = l) => meter'[d][k] = meter[d][k]
  BY <1>0, <1>2 DEF TypeOK, NotMetered
<1>7. TypeOK'
  BY <1>0, <1>2, <1>3, <1>4, <1>5, <1>6 DEF TypeOK
<1>8. Metered(c, l)'
  BY <1>1, <1>4, <1>5, <1>6 DEF Metered, NotMetered
<1>9. \A d \in Callers, k \in Locks : Metered(d, k)'
  BY <1>0, <1>4, <1>5, <1>6, <1>8, OthersStayMetered
<1> QED
  BY <1>3, <1>7, <1>9 DEF BudgetInv

LEMMA StopHoldingKeeps ==
  ASSUME BudgetInv, NEW c \in Callers, NEW l \in Locks, StopHolding(c, l)
  PROVE  BudgetInv'
<1>0. TypeOK /\ AgendaInv /\ (\A d \in Callers, k \in Locks : Metered(d, k))
  BY DEF BudgetInv
<1>1. holdings[c][l] # None /\ Known(c)
  BY DEF StopHolding
<1>2. holdings[c][l].lag \in Nat /\ callers[c] \in Runtime
  BY <1>0, <1>1, RowsTyped DEF Known
<1>3. PICK units \in Nat :
        units = (holdings[c][l].lag + 1) \div 2 /\ 2 * units <= holdings[c][l].lag + 1
  BY <1>2
<1>4. PICK b \in Runtime : b = IF units > 0 THEN Overdrawn(Charged(callers[c], units)) ELSE callers[c]
  BY <1>2, ChargedTyped
<1>5. /\ todo = <<>> /\ todo' = <<>>
      /\ callers' = [callers EXCEPT ![c] = b]
      /\ Count(c, l, units)
      /\ holdings' = [holdings EXCEPT ![c][l] = None] /\ row' = [row EXCEPT ![c][l] = None]
      /\ UNCHANGED <<config, arrears, up>>
  BY <1>3, <1>4 DEF StopHolding, MutexFree
<1>6. AgendaInv' /\ todo' \in Seq(TaskType)
  BY <1>0, <1>5, IdleKeeps
<1>7. callers' \in [Callers -> Runtime \cup {None}]
  BY <1>0, <1>5 DEF TypeOK
<1>8. /\ holdings' \in [Callers -> [Locks -> Holding \cup {None}]]
      /\ holdings'[c][l] = None
      /\ \A d \in Callers, k \in Locks : ~(d = c /\ k = l) => holdings'[d][k] = holdings[d][k]
  BY <1>0, <1>5, RowSetTo DEF TypeOK
<1>9. /\ row' \in [Callers -> [Locks -> Holding \cup {None}]]
      /\ row'[c][l] = None
      /\ \A d \in Callers, k \in Locks : ~(d = c /\ k = l) => row'[d][k] = row[d][k]
  BY <1>0, <1>5, RowSetTo DEF TypeOK
<1>10. /\ meter' \in [Callers -> [Locks -> [age : Nat, billed : Nat, unbilled : Nat]]]
       /\ \A d \in Callers, k \in Locks : ~(d = c /\ k = l) => meter'[d][k] = meter[d][k]
       /\ meter'[c][l].age = meter[c][l].age /\ meter'[c][l].billed = meter[c][l].billed
       /\ meter'[c][l].unbilled = meter[c][l].unbilled + units
  BY <1>0, <1>5, CountedTyped
<1>11. TypeOK'
  BY <1>0, <1>5, <1>6, <1>7, <1>8, <1>9, <1>10 DEF TypeOK
<1>12. Metered(c, l)'
  <2>1. 2 * (meter[c][l].billed + meter[c][l].unbilled) + holdings[c][l].lag <= meter[c][l].age
    BY <1>0, <1>1 DEF Metered
  <2>2. /\ meter[c][l].billed \in Nat /\ meter[c][l].unbilled \in Nat
        /\ meter[c][l].age \in Nat
    BY <1>0, RowsTyped
  <2>3. 2 * (meter[c][l].billed + (meter[c][l].unbilled + units)) <= meter[c][l].age + 1
    BY <1>2, <1>3, <2>1, <2>2
  <2> QED
    BY <2>3, <1>8, <1>9, <1>10 DEF Metered, Running
<1>13. ASSUME NEW d \in Callers, NEW k \in Locks
       PROVE  Metered(d, k)'
  <2>1. CASE d = c /\ k = l
    BY <2>1, <1>12
  <2>2. CASE ~(d = c /\ k = l)
    <3>1. /\ Metered(d, k) /\ holdings'[d][k] = holdings[d][k] /\ row'[d][k] = row[d][k]
          /\ meter'[d][k] = meter[d][k]
      BY <2>2, <1>0, <1>8, <1>9, <1>10, Zenon
    <3> QED
      BY <3>1, OthersStayMetered
  <2> QED
    BY <2>1, <2>2
<1> QED
  BY <1>6, <1>11, <1>13 DEF BudgetInv

LEMMA RenewHoldingKeeps ==
  ASSUME BudgetInv, NEW c \in Callers, NEW l \in Locks, NEW sec \in Nat, RenewHolding(c, l, sec)
  PROVE  BudgetInv'
<1>0. TypeOK /\ AgendaInv /\ (\A d \in Callers, k \in Locks : Metered(d, k))
  BY DEF BudgetInv
<1>1. holdings[c][l] # None /\ holdings[c][l].left \in 0..(2 * (MaxLease - sec))
  BY DEF RenewHolding
<1>2. holdings[c][l] \in Holding
  BY <1>0, <1>1 DEF TypeOK
<1>3. PICK left \in Nat : left = holdings[c][l].left + 2 * sec
  BY <1>1, BoundsAssumption
<1>4. PICK h \in Holding : /\ h = [holdings[c][l] EXCEPT !.left = left]
                           /\ h.left = left /\ h.lag = holdings[c][l].lag
  <2>1. /\ [holdings[c][l] EXCEPT !.left = left] \in Holding
        /\ [holdings[c][l] EXCEPT !.left = left].left = left
        /\ [holdings[c][l] EXCEPT !.left = left].lag = holdings[c][l].lag
    BY <1>2 DEF Holding
  <2> QED
    BY <2>1
<1>5. PICK r \in Holding \cup {None} :
        /\ r = IF row[c][l] = None THEN None ELSE [row[c][l] EXCEPT !.left = left]
        /\ r = None <=> row[c][l] = None
        /\ row[c][l] # None => r.left = left /\ r.lag = row[c][l].lag
  <2>1. CASE row[c][l] = None
    BY <2>1
  <2>2. CASE row[c][l] # None
    <3>1. row[c][l] \in Holding
      BY <1>0, <2>2 DEF TypeOK
    <3>2. /\ [row[c][l] EXCEPT !.left = left] \in Holding
          /\ [row[c][l] EXCEPT !.left = left].left = left
          /\ [row[c][l] EXCEPT !.left = left].lag = row[c][l].lag
      BY <3>1 DEF Holding
    <3> QED
      BY <3>2, <2>2, NoneAssumption
  <2> QED
    BY <2>1, <2>2
<1>6. /\ todo = <<>> /\ todo' = <<>>
      /\ UNCHANGED <<config, arrears, callers, up, meter>>
  BY DEF RenewHolding, MutexFree
<1>7. holdings' = [holdings EXCEPT ![c][l] = h]
  <2>1. holdings' = [holdings EXCEPT ![c][l].left = @ + 2 * sec]
    BY DEF RenewHolding
  <2>2. holdings' = [holdings EXCEPT ![c][l] = [holdings[c][l] EXCEPT !.left = left]]
    BY <2>1, <1>3, <1>0 DEF TypeOK
  <2> QED
    BY <2>2, <1>4
<1>8. /\ row' \in [Callers -> [Locks -> Holding \cup {None}]]
      /\ row'[c][l] = r
      /\ \A d \in Callers, k \in Locks : ~(d = c /\ k = l) => row'[d][k] = row[d][k]
  <2>1. CASE row[c][l] = None
    BY <2>1, <1>0, <1>5 DEF RenewHolding, TypeOK
  <2>2. CASE row[c][l] # None
    <3>1. row' = [row EXCEPT ![c][l].left = left]
      BY <2>2, <1>3 DEF RenewHolding
    <3>2. row' = [row EXCEPT ![c][l] = r]
      BY <3>1, <2>2, <1>5
    <3> QED
      BY <3>2, <1>0, RowSetTo DEF TypeOK
  <2> QED
    BY <2>1, <2>2
<1>9. /\ holdings' \in [Callers -> [Locks -> Holding \cup {None}]]
      /\ holdings'[c][l] = h
      /\ \A d \in Callers, k \in Locks : ~(d = c /\ k = l) => holdings'[d][k] = holdings[d][k]
  BY <1>0, <1>7, RowSetTo DEF TypeOK
<1>10. AgendaInv' /\ todo' \in Seq(TaskType)
  BY <1>0, <1>6, IdleKeeps
<1>11. TypeOK'
  BY <1>0, <1>6, <1>8, <1>9, <1>10 DEF TypeOK
<1>12. Metered(c, l)'
  <2>1. /\ 2 * (meter[c][l].billed + meter[c][l].unbilled) + h.lag <= meter[c][l].age
        /\ row[c][l] # None => Running(row[c][l])
    BY <1>0, <1>1, <1>4 DEF Metered, Running
  <2>2. row[c][l] # None =>
          2 * (meter[c][l].billed + meter[c][l].unbilled) + row[c][l].lag <= meter[c][l].age
    BY <2>1, <1>0 DEF Metered
  <2>3. h # None
    BY NoneAssumption
  <2> QED
    BY <2>1, <2>2, <2>3, <1>4, <1>5, <1>6, <1>8, <1>9 DEF Metered, Running
<1>13. \A d \in Callers, k \in Locks : Metered(d, k)'
  BY <1>0, <1>6, <1>8, <1>9, <1>12, OthersStayMetered
<1> QED
  BY <1>10, <1>11, <1>13 DEF BudgetInv

LEMMA RechargeTyped ==
  ASSUME TypeOK, NEW c \in Callers, NEW n \in Nat, RechargeBudget(c, n)
  PROVE  /\ arrears' \in [Callers -> Nat]
         /\ arrears'[c] <= arrears[c]
         /\ \A d \in Callers : d # c => arrears'[d] = arrears[d]
         /\ config' \in [Callers -> Config \cup {None}]
         /\ callers' \in [Callers -> Runtime \cup {None}]
<1>1. config[c] \in Config /\ arrears[c] \in Nat
  BY DEF TypeOK, RechargeBudget
<1>2. PICK paid \in Nat :
        paid = (IF n < arrears[c] THEN n ELSE arrears[c]) /\ paid <= n /\ paid <= arrears[c]
  BY <1>1
<1>3. PICK limit \in Nat : limit = config[c].limit + n - paid
  BY <1>1, <1>2 DEF Config
<1>4. /\ arrears' = [arrears EXCEPT ![c] = @ - paid]
      /\ config' = [config EXCEPT ![c].limit = limit]
      /\ callers' = IF Known(c) THEN [callers EXCEPT ![c].limit = limit] ELSE callers
  BY <1>2, <1>3 DEF RechargeBudget
<1>5. arrears[c] - paid \in Nat /\ arrears[c] - paid <= arrears[c]
  BY <1>1, <1>2
<1>6. /\ arrears' \in [Callers -> Nat]
      /\ arrears'[c] <= arrears[c]
      /\ \A d \in Callers : d # c => arrears'[d] = arrears[d]
  BY <1>4, <1>5 DEF TypeOK
<1>7. config' \in [Callers -> Config \cup {None}]
  <2>1. [config[c] EXCEPT !.limit = limit] \in Config
    BY <1>1 DEF Config
  <2>2. config' = [config EXCEPT ![c] = [config[c] EXCEPT !.limit = limit]]
    BY <1>4
  <2> QED
    BY <2>1, <2>2 DEF TypeOK
<1>8. callers' \in [Callers -> Runtime \cup {None}]
  <2>1. CASE Known(c)
    <3>1. PICK b \in Runtime : b = callers[c]
      BY <2>1 DEF TypeOK, Known
    <3>2. [b EXCEPT !.limit = limit] \in Runtime
      BY DEF Runtime
    <3>3. callers' = [callers EXCEPT ![c] = [b EXCEPT !.limit = limit]]
      BY <1>4, <2>1, <3>1
    <3> QED
      BY <3>2, <3>3 DEF TypeOK
  <2>2. CASE ~Known(c)
    BY <2>2, <1>4 DEF TypeOK
  <2> QED
    BY <2>1, <2>2
<1> QED
  BY <1>6, <1>7, <1>8

LEMMA RechargeBudgetKeeps ==
  ASSUME BudgetInv, NEW c \in Callers, NEW n \in Nat, RechargeBudget(c, n)
  PROVE  BudgetInv'
<1>0. TypeOK /\ AgendaInv /\ (\A d \in Callers, k \in Locks : Metered(d, k))
  BY DEF BudgetInv
<1>1. todo = <<>> /\ todo' = <<>> /\ UNCHANGED <<row, holdings, up, meter>>
  BY DEF RechargeBudget, MutexFree
<1>2. AgendaInv' /\ todo' \in Seq(TaskType)
  BY <1>0, <1>1, IdleKeeps
<1>3. TypeOK'
  BY <1>0, <1>1, <1>2, RechargeTyped DEF TypeOK
<1>4. \A d \in Callers, k \in Locks : Metered(d, k)'
  BY <1>0, <1>1, OthersStayMetered
<1> QED
  BY <1>2, <1>3, <1>4 DEF BudgetInv


-----------------------------------------------------------------------------
(* Time, crashes and restarts                                              *)

LEMMA OlderTyped ==
  ASSUME NEW h \in Holding
  PROVE  Older(h) \in Holding /\ Older(h).left = h.left - 1 /\ Older(h).lag = h.lag + 1
BY DEF Older, Holding

LEMMA TickKeeps ==
  ASSUME BudgetInv, Tick
  PROVE  BudgetInv'
<1>0. TypeOK /\ AgendaInv /\ (\A d \in Callers, k \in Locks : Metered(d, k))
  BY DEF BudgetInv
<1>1. todo = <<>> /\ todo' = <<>> /\ UNCHANGED <<config, arrears, up>>
  BY DEF Tick
<1>2. callers' \in [Callers -> Runtime \cup {None}]
  <2>1. ASSUME NEW c \in Callers, Known(c)
        PROVE  [callers[c] EXCEPT !.left = @ - 1] \in Runtime
    <3>1. PICK b \in Runtime : b = callers[c]
      BY <1>0, <2>1 DEF TypeOK, Known
    <3>2. PICK left \in Int : left = b.left - 1
      BY RuntimeFields
    <3>3. [b EXCEPT !.left = left] \in Runtime
      BY DEF Runtime
    <3> QED
      BY <3>1, <3>2, <3>3
  <2>2. callers' = [c \in Callers |->
                      IF Known(c) THEN [callers[c] EXCEPT !.left = @ - 1] ELSE None]
    BY DEF Tick
  <2> QED
    BY <2>1, <2>2
<1>3. ASSUME NEW c \in Callers, NEW l \in Locks
      PROVE  /\ holdings'[c][l] \in Holding \cup {None}
             /\ holdings'[c][l] = None <=> holdings[c][l] = None
             /\ holdings[c][l] # None =>
                  /\ holdings'[c][l].left = holdings[c][l].left - 1
                  /\ holdings'[c][l].lag = holdings[c][l].lag + 1
  <2>1. holdings'[c][l] = IF holdings[c][l] = None THEN None ELSE Older(holdings[c][l])
    BY DEF Tick
  <2>2. holdings[c][l] # None => holdings[c][l] \in Holding
    BY <1>0 DEF TypeOK
  <2> QED
    BY <2>1, <2>2, OlderTyped, NoneAssumption
<1>4. ASSUME NEW c \in Callers, NEW l \in Locks
      PROVE  /\ row'[c][l] \in Holding \cup {None}
             /\ row'[c][l] = None <=> row[c][l] = None
             /\ Running(row[c][l]) =>
                  row'[c][l].left = row[c][l].left - 1 /\ row'[c][l].lag = row[c][l].lag + 1
             /\ ~Running(row[c][l]) => ~Running(row'[c][l])
  <2>1. row'[c][l] = IF Running(row[c][l]) THEN Older(row[c][l])
                     ELSE IF row[c][l] = None THEN None ELSE [row[c][l] EXCEPT !.lag = 0]
    BY DEF Tick
  <2>2. row[c][l] # None => row[c][l] \in Holding
    BY <1>0 DEF TypeOK
  <2>3. CASE Running(row[c][l])
    BY <2>1, <2>2, <2>3, OlderTyped, NoneAssumption DEF Running
  <2>4. CASE ~Running(row[c][l]) /\ row[c][l] # None
    <3>1. /\ [row[c][l] EXCEPT !.lag = 0] \in Holding
          /\ [row[c][l] EXCEPT !.lag = 0].left = row[c][l].left
      BY <2>2, <2>4 DEF Holding
    <3> QED
      BY <3>1, <2>1, <2>4, NoneAssumption DEF Running
  <2>5. CASE row[c][l] = None
    BY <2>1, <2>5 DEF Running
  <2> QED
    BY <2>3, <2>4, <2>5
<1>5. ASSUME NEW c \in Callers, NEW l \in Locks
      PROVE  /\ meter'[c][l] \in [age : Nat, billed : Nat, unbilled : Nat]
             /\ Held(c, l) => /\ meter'[c][l].age = meter[c][l].age + 1
                              /\ meter'[c][l].billed = meter[c][l].billed
                              /\ meter'[c][l].unbilled = meter[c][l].unbilled
             /\ ~Held(c, l) => meter'[c][l] = NotMetered
  <2>1. meter'[c][l] = IF Held(c, l) THEN [meter[c][l] EXCEPT !.age = @ + 1] ELSE NotMetered
    BY DEF Tick
  <2>2. meter[c][l] \in [age : Nat, billed : Nat, unbilled : Nat]
    BY <1>0 DEF TypeOK
  <2>3. /\ [meter[c][l] EXCEPT !.age = @ + 1] \in [age : Nat, billed : Nat, unbilled : Nat]
        /\ [meter[c][l] EXCEPT !.age = @ + 1].age = meter[c][l].age + 1
        /\ [meter[c][l] EXCEPT !.age = @ + 1].billed = meter[c][l].billed
        /\ [meter[c][l] EXCEPT !.age = @ + 1].unbilled = meter[c][l].unbilled
    BY <2>2
  <2>4. NotMetered \in [age : Nat, billed : Nat, unbilled : Nat]
    BY DEF NotMetered
  <2> QED
    BY <2>1, <2>3, <2>4
<1>6. /\ holdings' \in [Callers -> [Locks -> Holding \cup {None}]]
      /\ row' \in [Callers -> [Locks -> Holding \cup {None}]]
      /\ meter' \in [Callers -> [Locks -> [age : Nat, billed : Nat, unbilled : Nat]]]
  <2>1. /\ holdings' = [c \in Callers |-> [l \in Locks |-> holdings'[c][l]]]
        /\ row' = [c \in Callers |-> [l \in Locks |-> row'[c][l]]]
        /\ meter' = [c \in Callers |-> [l \in Locks |-> meter'[c][l]]]
    BY DEF Tick
  <2> QED
    BY <2>1, <1>3, <1>4, <1>5
<1>7. AgendaInv' /\ todo' \in Seq(TaskType)
  BY <1>0, <1>1, IdleKeeps
<1>8. TypeOK'
  BY <1>0, <1>1, <1>2, <1>6, <1>7 DEF TypeOK
<1>9. ASSUME NEW c \in Callers, NEW l \in Locks
      PROVE  Metered(c, l)'
  <2>1. /\ meter[c][l].age \in Nat /\ meter[c][l].billed \in Nat /\ meter[c][l].unbilled \in Nat
        /\ holdings[c][l] # None => holdings[c][l].left \in Int /\ holdings[c][l].lag \in Nat
        /\ row[c][l] # None => row[c][l].left \in Int /\ row[c][l].lag \in Nat
    BY <1>0, RowsTyped
  <2>2. Metered(c, l)
    BY <1>0
  <2>3. CASE holdings[c][l] # None
    <3>1. Held(c, l)
      BY <2>3 DEF Held
    <3>2. Running(row'[c][l]) => Running(row[c][l])
      BY <1>4
    <3>3. holdings'[c][l].left >= 0 /\ row[c][l] # None => Running(row[c][l])
      BY <2>1, <2>2, <2>3, <1>3 DEF Metered, Running
    <3>4. holdings'[c][l].left >= 0 /\ row[c][l] # None => row'[c][l].left = holdings'[c][l].left
      BY <2>1, <2>2, <2>3, <3>3, <1>3, <1>4 DEF Metered
    <3>5. /\ meter'[c][l].age = meter[c][l].age + 1
          /\ meter'[c][l].billed + meter'[c][l].unbilled
               = meter[c][l].billed + meter[c][l].unbilled
      BY <3>1, <1>5
    <3>6. /\ holdings'[c][l] # None
          /\ 2 * (meter'[c][l].billed + meter'[c][l].unbilled) + holdings'[c][l].lag
               <= meter'[c][l].age
      BY <2>1, <2>2, <2>3, <3>5, <1>3 DEF Metered
    <3>7. Running(row'[c][l]) =>
            2 * (meter'[c][l].billed + meter'[c][l].unbilled) + row'[c][l].lag
              <= meter'[c][l].age
      <4>1. Running(row'[c][l]) =>
              /\ row[c][l] # None
              /\ 2 * (meter[c][l].billed + meter[c][l].unbilled) + row[c][l].lag
                   <= meter[c][l].age
              /\ row'[c][l].lag = row[c][l].lag + 1
        BY <2>2, <3>2, <1>4 DEF Metered, Running
      <4> QED
        BY <4>1, <2>1, <3>5
    <3> QED
      BY <3>4, <3>6, <3>7, <1>4 DEF Metered
  <2>4. CASE holdings[c][l] = None /\ Running(row[c][l])
    <3>1. Held(c, l)
      BY <2>4 DEF Held
    <3> QED
      BY <2>1, <2>2, <2>4, <3>1, <1>3, <1>4, <1>5 DEF Metered, Running
  <2>5. CASE holdings[c][l] = None /\ ~Running(row[c][l])
    <3>1. ~Held(c, l)
      BY <2>5 DEF Held
    <3> QED
      BY <2>5, <3>1, <1>3, <1>4, <1>5 DEF Metered, NotMetered
  <2> QED
    BY <2>3, <2>4, <2>5
<1> QED
  BY <1>7, <1>8, <1>9 DEF BudgetInv

LEMMA CrashKeeps ==
  ASSUME BudgetInv, Crash
  PROVE  BudgetInv'
<1>0. TypeOK /\ (\A d \in Callers, k \in Locks : Metered(d, k))
  BY DEF BudgetInv
<1>1. /\ todo' = <<>> /\ up' = FALSE /\ callers' = [c \in Callers |-> None]
      /\ holdings' = [c \in Callers |-> [l \in Locks |-> None]]
      /\ UNCHANGED <<config, row, arrears>>
  BY DEF Crash, tables
<1>2. AgendaInv' /\ todo' \in Seq(TaskType)
  BY <1>1, IdleAgenda
<1>3. ASSUME NEW c \in Callers, NEW l \in Locks
      PROVE  /\ meter'[c][l] \in [age : Nat, billed : Nat, unbilled : Nat]
             /\ meter'[c][l].age = meter[c][l].age /\ meter'[c][l].billed = meter[c][l].billed
             /\ meter'[c][l].unbilled = 0
  <2>1. meter'[c][l] = [meter[c][l] EXCEPT !.unbilled = 0]
    BY DEF Crash
  <2>2. meter[c][l] \in [age : Nat, billed : Nat, unbilled : Nat]
    BY <1>0 DEF TypeOK
  <2> QED
    BY <2>1, <2>2
<1>4. meter' \in [Callers -> [Locks -> [age : Nat, billed : Nat, unbilled : Nat]]]
  <2>1. meter' = [c \in Callers |-> [l \in Locks |-> meter'[c][l]]]
    BY DEF Crash
  <2> QED
    BY <2>1, <1>3
<1>5. TypeOK'
  BY <1>0, <1>1, <1>2, <1>4 DEF TypeOK
<1>6. ASSUME NEW c \in Callers, NEW l \in Locks
      PROVE  Metered(c, l)'
  <2>1. Metered(c, l)
    BY <1>0
  <2>2. /\ meter[c][l].age \in Nat /\ meter[c][l].billed \in Nat /\ meter[c][l].unbilled \in Nat
        /\ holdings[c][l] # None => holdings[c][l].lag \in Nat
        /\ row[c][l] # None => row[c][l].lag \in Nat
    BY <1>0, RowsTyped
  <2>3. holdings'[c][l] = None /\ row'[c][l] = row[c][l]
    BY <1>1
  <2> QED
    BY <2>1, <2>2, <2>3, <1>3 DEF Metered, Running
<1> QED
  BY <1>2, <1>5, <1>6 DEF BudgetInv

LEMMA StartKeeps ==
  ASSUME BudgetInv, Start
  PROVE  BudgetInv'
<1>0. TypeOK /\ AgendaInv /\ (\A d \in Callers, k \in Locks : Metered(d, k))
  BY DEF BudgetInv
<1>1. /\ todo' = <<>> /\ up' = TRUE /\ UNCHANGED <<config, row, arrears, meter>>
  BY <1>0 DEF Start, tables, AgendaInv
<1>2. AgendaInv' /\ todo' \in Seq(TaskType)
  BY <1>1, IdleAgenda
<1>3. callers' \in [Callers -> Runtime \cup {None}]
  <2>1. \A c \in Callers : config[c] # None => Fresh(config[c]) \in Runtime
    BY <1>0, FreshTyped DEF TypeOK
  <2>2. callers' = [c \in Callers |-> IF config[c] = None THEN None ELSE Fresh(config[c])]
    BY DEF Start
  <2> QED
    BY <2>1, <2>2
<1>4. holdings' = [c \in Callers |-> [l \in Locks |->
        IF config[c] # None /\ Running(row[c][l]) THEN row[c][l] ELSE None]]
  BY DEF Start
<1>5. holdings' \in [Callers -> [Locks -> Holding \cup {None}]]
  BY <1>0, <1>4 DEF TypeOK
<1>6. TypeOK'
  BY <1>0, <1>1, <1>2, <1>3, <1>5 DEF TypeOK
<1>7. ASSUME NEW c \in Callers, NEW l \in Locks
      PROVE  Metered(c, l)'
  <2>1. Metered(c, l)
    BY <1>0
  <2>2. /\ meter[c][l].age \in Nat /\ meter[c][l].billed \in Nat /\ meter[c][l].unbilled \in Nat
        /\ holdings[c][l] # None => holdings[c][l].lag \in Nat
        /\ row[c][l] # None => row[c][l].lag \in Nat
    BY <1>0, RowsTyped
  <2>3. holdings'[c][l] = None \/ (Running(row[c][l]) /\ holdings'[c][l] = row[c][l])
    BY <1>4
  <2>4. row'[c][l] = row[c][l] /\ meter'[c][l] = meter[c][l]
    BY <1>1
  <2> QED
    BY <2>1, <2>2, <2>3, <2>4 DEF Metered, Running
<1> QED
  BY <1>2, <1>6, <1>7 DEF BudgetInv


-----------------------------------------------------------------------------
(* The invariant is inductive.                                             *)

LEMMA BudgetInit ==
  ASSUME Init
  PROVE  BudgetInv
<1>1. TypeOK
  <2>1. NotMetered \in [age : Nat, billed : Nat, unbilled : Nat] /\ <<>> \in Seq(TaskType)
    BY DEF NotMetered
  <2> QED
    BY <2>1 DEF Init, TypeOK
<1>2. AgendaInv
  BY NoTasks DEF Init, AgendaInv, Tasks
<1>3. \A c \in Callers, l \in Locks : Metered(c, l)
  BY DEF Init, Metered, Running, NotMetered
<1> QED
  BY <1>1, <1>2, <1>3 DEF BudgetInv

LEMMA CallKeeps ==
  ASSUME BudgetInv, NEW c \in Callers, CallOf(c)
  PROVE  BudgetInv'
<1>1. CASE CheckAcquire(c)
  BY <1>1, CheckAcquireKeeps
<1>2. ASSUME NEW l \in Locks, StopHolding(c, l)
      PROVE  BudgetInv'
  BY <1>2, StopHoldingKeeps
<1>3. ASSUME NEW l \in Locks, NEW sec \in LeaseSecs, StartHolding(c, l, sec)
      PROVE  BudgetInv'
  BY <1>3, StartHoldingKeeps, RequestsAssumption
<1>4. ASSUME NEW l \in Locks, NEW sec \in LeaseSecs, RenewHolding(c, l, sec)
      PROVE  BudgetInv'
  BY <1>4, RenewHoldingKeeps, RequestsAssumption
<1>5. ASSUME NEW limit \in Limits, NEW period \in Periods, NEW overdraft \in OverdraftLimits,
             SetBudget(c, [limit |-> limit, period |-> period, overdraftLimit |-> overdraft])
      PROVE  BudgetInv'
  <2>1. [limit |-> limit, period |-> period, overdraftLimit |-> overdraft] \in Config
    BY RequestsAssumption DEF Config
  <2> QED
    BY <1>5, <2>1, SetBudgetKeeps
<1>6. CASE DeleteBudget(c)
  BY <1>6, DeleteBudgetKeeps
<1>7. ASSUME NEW n \in Amounts, RechargeBudget(c, n)
      PROVE  BudgetInv'
  BY <1>7, RechargeBudgetKeeps, RequestsAssumption
<1>8. ASSUME NEW n \in Amounts, NEW d \in Callers, TransferBudget(c, d, n)
      PROVE  BudgetInv'
  BY <1>8, TransferBudgetKeeps, RequestsAssumption
<1> QED
  BY <1>1, <1>2, <1>3, <1>4, <1>5, <1>6, <1>7, <1>8 DEF CallOf

LEMMA MethodStepKeeps ==
  ASSUME BudgetInv, MethodStep
  PROVE  BudgetInv'
<1>1. \A c \in Callers : PollNext(c) => BudgetInv'
  BY PollNextKeeps
<1>2. \A l \in Locks : Meter(l) \/ Drop(l) \/ Settle(l) => BudgetInv'
  BY MeterKeeps, DropKeeps, SettleKeeps
<1> QED
  BY <1>1, <1>2, RefreshKeeps, NoBillKeeps, BillKeeps, CreateArrearsKeeps, ResetKeeps,
     TransferKeeps, TransferRefusedKeeps, ConfigureKeeps, ForgetKeeps DEF MethodStep

LEMMA BudgetStep ==
  ASSUME BudgetInv, [Next]_vars
  PROVE  BudgetInv'
<1>1. CASE Call
  BY <1>1, CallKeeps DEF Call
<1>2. CASE UNCHANGED vars
  <2>1. UNCHANGED <<config, row, arrears, callers, holdings, up, todo, meter>>
    BY <1>2 DEF vars, tables, memory
  <2>2. TypeOK'
    BY <2>1 DEF BudgetInv, TypeOK
  <2>3. AgendaInv'
    BY <2>1 DEF BudgetInv, AgendaInv, Tasks, Ready, MeteredUpToNow, Pending, Open, Known, Owes,
                Running
  <2>4. \A c \in Callers, l \in Locks : Metered(c, l)'
    BY <2>1 DEF BudgetInv, Metered, Running, Known, Open
  <2> QED
    BY <2>2, <2>3, <2>4 DEF BudgetInv
<1> QED
  BY <1>1, <1>2, PollKeeps, MethodStepKeeps, CrashKeeps, StartKeeps, TickKeeps DEF Next

LEMMA BudgetAlways == Spec => []BudgetInv
<1>1. Init => BudgetInv
  BY BudgetInit
<1>2. BudgetInv /\ [Next]_vars => BudgetInv'
  BY BudgetStep
<1> QED
  BY <1>1, <1>2, PTL DEF Spec

(* A caller is never charged twice for the same second: not across a       *)
(* refresh, a settlement, a change of its budget, a crash or a restart.    *)
THEOREM NoSecondChargedTwice == Spec => []MeteringConsistent
<1>1. BudgetInv => MeteringConsistent
  <2>1. SUFFICES ASSUME BudgetInv, NEW c \in Callers, NEW l \in Locks
                 PROVE  /\ holdings[c][l] # None =>
                             2 * (meter[c][l].billed + meter[c][l].unbilled)
                                 + holdings[c][l].lag <= meter[c][l].age
                        /\ Running(row[c][l]) =>
                             2 * meter[c][l].billed + row[c][l].lag <= meter[c][l].age
                        /\ ~Held(c, l) =>
                             2 * (meter[c][l].billed + meter[c][l].unbilled)
                               <= meter[c][l].age + 1
    BY DEF MeteringConsistent, NeverOvercharged, BudgetInv
  <2>2. /\ meter[c][l].age \in Nat /\ meter[c][l].billed \in Nat /\ meter[c][l].unbilled \in Nat
        /\ row[c][l] # None => row[c][l].lag \in Nat
    BY <2>1, RowsTyped DEF BudgetInv
  <2>3. Metered(c, l)
    BY <2>1 DEF BudgetInv
  <2> QED
    BY <2>2, <2>3 DEF Metered, Held, Running
<1> QED
  BY <1>1, BudgetAlways, PTL

-----------------------------------------------------------------------------
(* What a step may not do                                                  *)

(* No step touches arrears but the settlement that finds none and writes   *)
(* them, and a recharge, which pays.                                       *)
LEMMA ArrearsStep ==
  ASSUME BudgetInv, Next, NEW c \in Callers, Owes(c)
  PROVE  arrears'[c] <= arrears[c] /\ (arrears'[c] < arrears[c] => todo = <<>>)
<1>0. TypeOK /\ AgendaInv /\ arrears[c] \in Nat
  BY DEF BudgetInv, TypeOK
<1>1. ASSUME arrears' = arrears
      PROVE  arrears'[c] <= arrears[c] /\ ~(arrears'[c] < arrears[c])
  BY <1>0, <1>1
<1>2. CASE CreateArrears
  <2>1. /\ todo # <<>> /\ Task.do = "arrears"
        /\ arrears' = [arrears EXCEPT ![Task.caller] = Task.amount]
    BY <1>2 DEF CreateArrears, Doing
  <2>2. ~Owes(Task.caller)
    BY <1>0, <2>1, TaskDone DEF Ready
  <2>3. c # Task.caller
    BY <2>2
  <2>4. arrears'[c] = arrears[c]
    BY <1>0, <2>1, <2>3 DEF TypeOK
  <2> QED
    BY <1>0, <2>4
<1>3. ASSUME NEW d \in Callers, NEW n \in Amounts, RechargeBudget(d, n)
      PROVE  arrears'[c] <= arrears[c] /\ todo = <<>>
  <2>1. /\ arrears'[d] <= arrears[d]
        /\ \A e \in Callers : e # d => arrears'[e] = arrears[e]
    BY <1>0, <1>3, RechargeTyped, RequestsAssumption
  <2>2. todo = <<>>
    BY <1>3 DEF RechargeBudget, MutexFree
  <2> QED
    BY <1>0, <2>1, <2>2
<1>4. CASE Call
  <2>1. PICK d \in Callers : CallOf(d)
    BY <1>4 DEF Call
  <2>2. CASE \E n \in Amounts : RechargeBudget(d, n)
    BY <2>2, <1>3
  <2>3. CASE ~\E n \in Amounts : RechargeBudget(d, n)
    <3>1. arrears' = arrears
      BY <2>1, <2>3 DEF CallOf, CheckAcquire, StopHolding, StartHolding, RenewHolding,
                        SetBudget, DeleteBudget, TransferBudget, tables
    <3> QED
      BY <3>1, <1>1
  <2> QED
    BY <2>2, <2>3
<1>5. CASE MethodStep /\ ~CreateArrears
  <2>1. arrears' = arrears
    BY <1>5 DEF MethodStep, Refresh, PollNext, Meter, Drop, Settle, NoBill, Bill, Reset,
                Transfer, TransferRefused, Configure, Forget, tables
  <2> QED
    BY <2>1, <1>1
<1>6. CASE Poll \/ Crash \/ Start \/ Tick
  <2>1. arrears' = arrears
    BY <1>6 DEF Poll, Crash, Start, Tick, tables
  <2> QED
    BY <2>1, <1>1
<1> QED
  BY <1>2, <1>4, <1>5, <1>6 DEF Next

(* Whatever periods end, budgets are deleted and set anew, or processes    *)
(* die meanwhile, active arrears only shrink, by what is paid.             *)
THEOREM ArrearsShrink == Spec => ArrearsOnlyPaid
<1>1. BudgetInv /\ [Next]_vars =>
        [ \A c \in Callers : Owes(c) =>
            /\ arrears'[c] <= arrears[c]
            /\ arrears'[c] < arrears[c] => todo = <<>> ]_vars
  BY ArrearsStep
<1> QED
  BY <1>1, BudgetAlways, PTL DEF Spec, ArrearsOnlyPaid

(* While a method has something to do, the next step is its own, or the    *)
(* process dies.                                                           *)
LEMMA WhileDoing ==
  ASSUME BudgetInv, Next, up', todo # <<>>
  PROVE  MethodStep
<1>1. up
  BY DEF BudgetInv, AgendaInv
<1>2. ASSUME NEW c \in Callers, CallOf(c)
      PROVE  FALSE
  <2>1. ~MutexFree
    BY DEF MutexFree
  <2>2. ~(\E l \in Locks : \/ StopHolding(c, l)
                          \/ \E sec \in LeaseSecs :
                               StartHolding(c, l, sec) \/ RenewHolding(c, l, sec))
    BY <2>1 DEF StopHolding, StartHolding, RenewHolding
  <2>3. ~(\E n \in Amounts : \/ RechargeBudget(c, n)
                            \/ \E d \in Callers : TransferBudget(c, d, n))
    BY <2>1 DEF RechargeBudget, TransferBudget
  <2> QED
    BY <1>2, <2>1, <2>2, <2>3 DEF CallOf, CheckAcquire, SetBudget, DeleteBudget
<1>3. ~(Poll \/ Crash \/ Start \/ Tick)
  BY <1>1 DEF Poll, Crash, Start, Tick, MutexFree
<1> QED
  BY <1>2, <1>3 DEF Next, Call

LEMMA TransferStep ==
  ASSUME BudgetInv, Next, NEW c \in Callers, Doing("transfer"), Task.from = c, up',
         callers' # callers
  PROVE  /\ callers'[c].consumed <= callers'[c].limit
         /\ \A l \in Open(c) : holdings[c][l].lag < 2
<1>0. TypeOK /\ AgendaInv /\ todo # <<>> /\ Task.do = "transfer"
  BY DEF BudgetInv, Doing
<1>1. Transfer
  <2>1. MethodStep
    BY <1>0, WhileDoing
  <2>2. Transfer \/ TransferRefused
    BY <1>0, <2>1 DEF MethodStep, Refresh, PollNext, Meter, Drop, Settle, NoBill, Bill,
                      CreateArrears, Reset, Configure, Forget, Doing
  <2>3. ~TransferRefused
    BY DEF TransferRefused, memory
  <2> QED
    BY <2>2, <2>3
<1>2. callers'[c].consumed <= callers'[c].limit
  BY <1>0, <1>1, TransferEffect
<1>3. Tasks = {Task}
  <2>1. Tail(todo) = <<>>
    BY <1>0, LastTask DEF Rank
  <2> QED
    BY <1>0, <2>1, TaskDone, NoTasks
<1>4. MeteredUpToNow(c)
  BY <1>0, <1>3 DEF AgendaInv
<1>5. \A l \in Open(c) : holdings[c][l].lag < 2
  BY <1>0, <1>3, <1>4 DEF MeteredUpToNow, Pending
<1> QED
  BY <1>2, <1>5

(* A caller gives away only what it has not used up to now.                *)
THEOREM TransfersCovered == Spec => TransferWithinBudget
<1>1. BudgetInv /\ [Next]_vars =>
        [ \A c \in Callers :
            (Doing("transfer") /\ Task.from = c /\ up' /\ callers' # callers) =>
              /\ callers'[c].consumed <= callers'[c].limit
              /\ \A l \in Open(c) : holdings[c][l].lag < 2 ]_vars
  BY TransferStep
<1> QED
  BY <1>1, BudgetAlways, PTL DEF Spec, TransferWithinBudget

LEMMA RoundedUp ==
  ASSUME NEW e \in Nat, NEW p \in Nat, p > 0,
         NEW k, k = e \div p + (IF e % p > 0 THEN 1 ELSE 0)
  PROVE  k \in Nat /\ p * k \in Nat /\ e <= p * k /\ p * k < e + p
<1>1. e \div p \in Nat /\ e % p \in 0..(p - 1) /\ e = p * (e \div p) + (e % p)
  OBVIOUS
<1>2. CASE e % p > 0
  <2>1. k = (e \div p) + 1
    BY <1>2
  <2>2. PICK q \in Nat : q = e \div p
    BY <1>1
  <2>3. p * (q + 1) = p * q + p /\ p * q \in Nat
    OBVIOUS
  <2>4. p * k = p * q + p
    BY <2>1, <2>2, <2>3
  <2> QED
    BY <1>1, <1>2, <2>1, <2>2, <2>3, <2>4
<1>3. CASE ~(e % p > 0)
  BY <1>1, <1>3
<1> QED
  BY <1>2, <1>3

(* As many periods as have begun, counted in whole seconds, and no more    *)
LEMMA PeriodsEnough ==
  ASSUME NEW b \in Runtime, b.left <= 0
  PROVE  b.left + 2 * b.period * PeriodsToAdvance(b) \in (-1)..(2 * b.period)
<1>1. PICK p \in Nat : p = b.period /\ p > 0
  BY RuntimeFields
<1>2. PICK late \in Nat : late = -b.left /\ b.left = -late
  BY RuntimeFields
<1>3. PICK e \in Nat : e = late \div 2 /\ 2 * e <= late /\ late <= 2 * e + 1
  BY <1>2
<1>4. CASE e > p
  <2>1. PICK k : k = e \div p + (IF e % p > 0 THEN 1 ELSE 0)
    OBVIOUS
  <2>2. k \in Nat /\ p * k \in Nat /\ e <= p * k /\ p * k < e + p
    BY <1>1, <2>1, RoundedUp
  <2>3. PeriodsToAdvance(b) = k
    BY <1>1, <1>2, <1>3, <1>4, <2>1 DEF PeriodsToAdvance
  <2>4. PICK t \in Nat : t = p * k
    BY <2>2
  <2>5. b.left + 2 * t \in (-1)..(2 * p)
    <3>1. e <= t /\ t < e + p
      BY <2>2, <2>4
    <3>2. -late + 2 * t \in (-1)..(2 * p)
      BY <3>1, <1>1, <1>3
    <3> QED
      BY <3>2, <1>2
  <2>6. 2 * p * k = 2 * t
    <3>1. (2 * p) * k = 2 * (p * k)
      BY <2>2
    <3> QED
      BY <3>1, <2>4
  <2> QED
    BY <1>1, <2>3, <2>5, <2>6
<1>5. CASE ~(e > p)
  <2>1. PeriodsToAdvance(b) = 1
    <3>1. ~((-b.left) \div 2 > b.period)
      BY <1>1, <1>2, <1>3, <1>5
    <3> QED
      BY <3>1 DEF PeriodsToAdvance
  <2>2. b.left + 2 * p \in (-1)..(2 * p)
    BY <1>1, <1>2, <1>3, <1>5, RuntimeFields
  <2>3. 2 * p * 1 = 2 * p
    OBVIOUS
  <2> QED
    BY <1>1, <2>1, <2>2, <2>3
<1> QED
  BY <1>4, <1>5

LEMMA ResetStep ==
  ASSUME BudgetInv, Next, NEW c \in Callers, Doing("reset"), Task.caller = c, up'
  PROVE  callers'[c].left \in (-1)..(2 * callers[c].period)
<1>0. TypeOK /\ AgendaInv /\ todo # <<>> /\ Task.do = "reset"
  BY DEF BudgetInv, Doing
<1>1. Reset
  <2>1. MethodStep
    BY <1>0, WhileDoing
  <2> QED
    BY <1>0, <2>1 DEF MethodStep, Refresh, PollNext, Meter, Drop, Settle, NoBill, Bill,
                      CreateArrears, Transfer, TransferRefused, Configure, Forget, Doing
<1>2. Known(c) /\ callers[c].left <= 0
  BY <1>0, TaskDone DEF Ready
<1>3. PICK b \in Runtime : b = callers[c]
  BY <1>0, <1>2 DEF TypeOK, Known
<1>4. callers'[c] = NextPeriod(b, Task.owing)
  <2>1. callers' = [callers EXCEPT ![c] = NextPeriod(b, Task.owing)]
    BY <1>1, <1>3 DEF Reset, NextPeriod
  <2> QED
    BY <1>0, <2>1 DEF TypeOK
<1>5. NextPeriod(b, Task.owing).left = b.left + 2 * b.period * PeriodsToAdvance(b)
  BY RuntimeFields DEF NextPeriod
<1> QED
  BY <1>2, <1>3, <1>4, <1>5, PeriodsEnough

(* However late the end of a period is noticed, the reset finds the period *)
(* that now is.                                                            *)
THEOREM PeriodsCatchUp == Spec => PeriodCatchesUp
<1>1. BudgetInv /\ [Next]_vars =>
        [ \A c \in Callers :
            (Doing("reset") /\ Task.caller = c /\ up') =>
              callers'[c].left \in (-1)..(2 * callers[c].period) ]_vars
  BY ResetStep
<1> QED
  BY <1>1, BudgetAlways, PTL DEF Spec, PeriodCatchesUp
=============================================================================
