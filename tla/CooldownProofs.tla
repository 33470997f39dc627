--------------------------- MODULE CooldownProofs ---------------------------
(***************************************************************************)
(* Theorems about Cooldown, for any goroutines and any bounds: who may     *)
(* hold which mutex, where two calls can block each other, that the count  *)
(* of shortened leases never revives a cooldown, and that cap, rows and    *)
(* history agree as long as no two cooldown operations overlap.            *)
(***************************************************************************)
EXTENDS Cooldown, SequenceTheorems, TLAPS

(* Writing one row keeps the others and the number of rows.                *)
LEMMA RowWritten ==
  ASSUME NEW s \in Seq(RowType), NEW i, NEW r \in RowType
  PROVE  /\ [s EXCEPT ![i] = r] \in Seq(RowType)
         /\ DOMAIN [s EXCEPT ![i] = r] = DOMAIN s
         /\ \A j \in DOMAIN s : [s EXCEPT ![i] = r][j] = IF j = i THEN r ELSE s[j]
<1>1. s \in [1..Len(s) -> RowType] /\ DOMAIN s = 1..Len(s)
  OBVIOUS
<1>2. [s EXCEPT ![i] = r] \in [1..Len(s) -> RowType]
  BY <1>1
<1> QED
  BY <1>1, <1>2

(* UpsertCooldownState changes at most the status of its row; writing      *)
(* "active" makes no row other than active.                                *)
LEMMA Updated ==
  ASSUME TypeOK, NEW i, NEW status \in {"active", "resolved"}
  PROVE  /\ Update(i, status) \in Seq(RowType)
         /\ DOMAIN Update(i, status) = DOMAIN rows
         /\ \A j \in DOMAIN rows : j # i => Update(i, status)[j] = rows[j]
         /\ \A j \in DOMAIN rows : status = "active" /\ rows[j].status = "active"
                                   => Update(i, status)[j].status = "active"
<1>1. rows \in Seq(RowType)
  BY DEF TypeOK
<1>2. CASE Update(i, status) = rows
  BY <1>1, <1>2
<1>3. CASE i \notin DOMAIN rows /\ Update(i, status) = [rows EXCEPT ![i].status = status]
  <2>1. [rows EXCEPT ![i].status = status] = rows
    BY <1>1, <1>3
  <2> QED
    BY <1>3, <2>1, <1>2
<1>4. CASE i \in DOMAIN rows /\ Update(i, status) = [rows EXCEPT ![i].status = status]
  <2> DEFINE r == [rows[i] EXCEPT !.status = status]
  <2>0. rows[i] \in RowType
    BY <1>1, <1>4
  <2>1. r \in RowType /\ r.status = status
    BY <2>0 DEF RowType
  <2>2. Update(i, status) = [rows EXCEPT ![i] = r]
    BY <1>4
  <2> QED
    BY <1>1, <2>1, <2>2, RowWritten
<1> QED
  BY <1>2, <1>3, <1>4 DEF Update

(* CreateCooldownHistory changes no status. *)
LEMMA Ended ==
  ASSUME TypeOK, NEW i
  PROVE  LET after == [rows EXCEPT ![i].ends = @ + 1] IN
         /\ after \in Seq(RowType)
         /\ DOMAIN after = DOMAIN rows
         /\ \A j \in DOMAIN rows : after[j].status = rows[j].status
<1>1. rows \in Seq(RowType)
  BY DEF TypeOK
<1>2. CASE i \notin DOMAIN rows
  <2>1. [rows EXCEPT ![i].ends = @ + 1] = rows
    BY <1>1, <1>2
  <2> QED
    BY <1>1, <2>1
<1>3. CASE i \in DOMAIN rows
  <2> DEFINE r == [rows[i] EXCEPT !.ends = @ + 1]
  <2>0. rows[i] \in RowType
    BY <1>1, <1>3
  <2>1. r \in RowType /\ r.status = rows[i].status
    BY <2>0 DEF RowType
  <2>2. [rows EXCEPT ![i].ends = @ + 1] = [rows EXCEPT ![i] = r]
    OBVIOUS
  <2> QED
    BY <1>1, <2>1, <2>2, RowWritten
<1> QED
  BY <1>2, <1>3

-----------------------------------------------------------------------------
(* Types *)

(* Everything but the rows and the threads *)
Plain ==
  /\ lease \in {"none", "short", "long"}
  /\ heatmapMu \in Threads \cup {NoThread}
  /\ lockMu \in Threads \cup {NoThread}
  /\ capped \in BOOLEAN
  /\ hot \in Nat /\ cool \in Nat
  /\ up \in BOOLEAN
  /\ crashes \in Nat
  /\ raced \in BOOLEAN

(* The type invariant in three parts, now and after a step. *)
LEMMA TypeParts ==
  /\ TypeOK <=> (rows \in Seq(RowType) /\ at \in [Threads -> AtType] /\ Plain)
  /\ TypeOK' <=> (rows' \in Seq(RowType) /\ at' \in [Threads -> AtType] /\ Plain')
BY DEF TypeOK, Plain

(* The places a thread can be at. *)
LEMMA PcNames ==
  /\ "idle" \in Pcs /\ "request" \in Pcs /\ "enqueued" \in Pcs /\ "granted" \in Pcs
  /\ "released" \in Pcs /\ "timedout" \in Pcs /\ "count" \in Pcs /\ "write" \in Pcs
  /\ "list" \in Pcs /\ "chill" \in Pcs /\ "warm" \in Pcs /\ "start" \in Pcs
  /\ "lease" \in Pcs /\ "insert" \in Pcs /\ "shorten" \in Pcs /\ "rewrite" \in Pcs
  /\ "accelerate" \in Pcs /\ "mirror" \in Pcs /\ "note" \in Pcs /\ "stop" \in Pcs
  /\ "record" \in Pcs /\ "uncap" \in Pcs /\ "boot" \in Pcs /\ "restore" \in Pcs /\ "peek" \in Pcs
  /\ "reshorten" \in Pcs /\ "started" \in Pcs
BY DEF Pcs

(* One thread moves to a record of the right type. *)
LEMMA Moved ==
  ASSUME at \in [Threads -> AtType], NEW t \in Threads, NEW r \in AtType,
         at' = [at EXCEPT ![t] = r]
  PROVE  /\ at' \in [Threads -> AtType]
         /\ at'[t] = r
         /\ \A u \in Threads : u # t => at'[u] = at[u]
OBVIOUS

(* One thread moves to another place. *)
LEMMA GoToTyped ==
  ASSUME at \in [Threads -> AtType], NEW t \in Threads, NEW pc \in Pcs, GoTo(t, pc)
  PROVE  /\ at' \in [Threads -> AtType]
         /\ at'[t] = [at[t] EXCEPT !.pc = pc]
         /\ at'[t].pc = pc
         /\ \A u \in Threads : u # t => at'[u] = at[u]
<1> DEFINE r == [at[t] EXCEPT !.pc = pc]
<1>1. r \in AtType /\ r.pc = pc
  BY DEF AtType
<1>2. at' = [at EXCEPT ![t] = r]
  BY DEF GoTo
<1> QED
  BY <1>1, <1>2, Moved

(* A thread is done, or has only AddCooldownHistory left. *)
LEMMA ReturnTyped ==
  ASSUME at \in [Threads -> AtType], NEW t \in Threads, Return(t) \/ NoteLast(t)
  PROVE  /\ at' \in [Threads -> AtType]
         /\ at'[t].pc \in {"idle", "note"}
         /\ Return(t) => at'[t].pc = "idle"
         /\ \A u \in Threads : u # t => at'[u] = at[u]
<1>1. Idle \in AtType /\ [Idle EXCEPT !.pc = "note"] \in AtType
  BY PcNames DEF Idle, AtType
<1>2. CASE Return(t)
  BY <1>1, <1>2, Moved DEF Return, Idle
<1>3. CASE NoteLast(t)
  <2>1. at'[t] = [Idle EXCEPT !.pc = "note"]
    BY <1>1, <1>3, Moved DEF NoteLast
  <2> QED
    BY <1>1, <1>3, <2>1, Moved DEF NoteLast, Idle, Return
<1> QED
  BY <1>2, <1>3

(* A grant writes a lease and a place to go on from. *)
LEMMA GrantTyped ==
  ASSUME at \in [Threads -> AtType], NEW t \in Threads,
         NEW after \in {"idle", "granted"}, Grant(t, after)
  PROVE  /\ lease' \in {"none", "short", "long"}
         /\ at' \in [Threads -> AtType]
         /\ at'[t].pc \in {after, "count"}
         /\ at'[t].pc = "count" => at'[t].after = after
         /\ \A u \in Threads : u # t => at'[u] = at[u]
<1>1. PICK p \in {after, "count"} :
        at' = [at EXCEPT ![t].pc = p, ![t].after = IF p = "count" THEN after ELSE "idle"]
  BY DEF Grant
<1> DEFINE next == IF p = "count" THEN after ELSE "idle"
           r == [at[t] EXCEPT !.pc = p, !.after = next]
<1>2. at[t] \in AtType /\ p \in Pcs /\ next \in {"idle", "granted"}
  BY PcNames
<1>3. at' = [at EXCEPT ![t] = r] /\ (p = "count" => next = after)
  BY <1>1
<1> HIDE DEF next
<1>5. r \in AtType /\ r.pc = p /\ r.after = next
  BY <1>2 DEF AtType
<1> HIDE DEF r
<1>4. at' \in [Threads -> AtType] /\ at'[t] = r /\ \A u \in Threads : u # t => at'[u] = at[u]
  BY <1>3, <1>5, Moved
<1> QED
  BY <1>3, <1>4, <1>5 DEF Grant

(* The end of IncrementLeaseShortenedCount. *)
LEMMA EndCountTyped ==
  ASSUME at \in [Threads -> AtType], NEW t \in Threads, EndCount(t)
  PROVE  /\ at' \in [Threads -> AtType]
         /\ at'[t].pc = at[t].after
         /\ at'[t].read = 0
         /\ \A u \in Threads : u # t => at'[u] = at[u]
         /\ lockMu' = IF at[t].after = "granted" THEN t ELSE NoThread
<1> DEFINE r == [at[t] EXCEPT !.pc = at[t].after, !.read = 0, !.after = "idle"]
<1>1. at[t].after \in Pcs
  BY PcNames DEF AtType
<1>2. r \in AtType /\ r.pc = at[t].after /\ r.read = 0
  BY <1>1 DEF AtType
<1>3. at' = [at EXCEPT ![t] = r]
  BY DEF EndCount
<1> HIDE DEF r
<1> QED
  BY <1>2, <1>3, Moved DEF EndCount

(* The calls of the lock manager. *)
LEMMA MethodTyped ==
  ASSUME TypeOK, NEW t \in Threads,
         Enter(t) \/ MethodStep(t) \/ Elapse \/ Renew
  PROVE  TypeOK'
<1> USE PcNames DEF Plain, process, counters, mutexes
<1>0. rows \in Seq(RowType) /\ at \in [Threads -> AtType] /\ Plain
  BY TypeParts
<1> SUFFICES rows' \in Seq(RowType) /\ at' \in [Threads -> AtType] /\ Plain'
  BY TypeParts
<1>1. CASE Enter(t)
  BY <1>0, <1>1, GoToTyped DEF Enter
<1>2. CASE Elapse \/ Renew
  BY <1>0, <1>2 DEF Elapse, Renew
<1>3. CASE Request(t)
  <2>1. CASE Grant(t, "idle")
    BY <1>0, <1>3, <2>1, GrantTyped DEF Request
  <2> QED
    BY <1>0, <1>3, <2>1, GoToTyped, ReturnTyped DEF Request
<1>4. CASE Recorded(t)
  BY <1>0, <1>4, ReturnTyped DEF Recorded
<1>5. CASE Released(t) \/ TimedOut(t)
  <2>1. CASE Grant(t, "granted")
    BY <1>0, <1>5, <2>1, GrantTyped DEF Released, TimedOut, HandOn
  <2> QED
    BY <1>0, <1>5, <2>1, GoToTyped, ReturnTyped DEF Released, TimedOut, HandOn
<1>6. CASE CountRead(t)
  <2>1. CASE EndCount(t)
    BY <1>0, <1>6, <2>1, EndCountTyped DEF CountRead
  <2>2. ASSUME NEW i \in Active, at' = [at EXCEPT ![t].pc = "write", ![t].read = i],
               UNCHANGED lockMu
        PROVE  at' \in [Threads -> AtType]
    <3> DEFINE r == [at[t] EXCEPT !.pc = "write", !.read = i]
    <3>1. i \in Nat /\ at[t] \in AtType
      BY <1>0, <2>2 DEF Active
    <3>2. r \in AtType
      BY <3>1 DEF AtType
    <3> QED
      BY <1>0, <2>2, <3>2, Moved
  <2> QED
    BY <1>0, <1>6, <2>1, <2>2 DEF CountRead
<1>7. CASE CountWrite(t)
  <2>1. rows' \in Seq(RowType)
    BY <1>7, Updated DEF CountWrite
  <2> QED
    BY <1>0, <1>7, <2>1, EndCountTyped DEF CountWrite
<1> QED
  BY <1>1, <1>2, <1>3, <1>4, <1>5, <1>6, <1>7 DEF MethodStep

(* The check of a cooldown. *)
LEMMA CheckTyped ==
  ASSUME TypeOK, CheckBegin \/ CheckStep
  PROVE  TypeOK'
<1> USE PcNames DEF Plain, process, counters, mutexes
<1>0. rows \in Seq(RowType) /\ at \in [Threads -> AtType] /\ Plain
  BY TypeParts
<1>1. Checker \in Threads /\ at[Checker] \in AtType
  BY <1>0 DEF Threads, Changers
<1> SUFFICES rows' \in Seq(RowType) /\ at' \in [Threads -> AtType] /\ Plain'
  BY TypeParts
<1>2. CASE CheckBegin
  <2>1. raced' \in BOOLEAN
    BY <1>2, Zenon DEF CheckBegin, Begin
  <2> QED
    BY <1>0, <1>1, <1>2, <2>1, GoToTyped DEF CheckBegin, Begin
<1>3. CASE CheckList
  <2>1. ASSUME NEW i \in Active, at' = [at EXCEPT ![Checker].pc = "chill", ![Checker].id = i]
        PROVE  at' \in [Threads -> AtType]
    <3> DEFINE r == [at[Checker] EXCEPT !.pc = "chill", !.id = i]
    <3>1. i \in Nat
      BY <1>0, <2>1 DEF Active
    <3>2. r \in AtType
      BY <1>1, <3>1 DEF AtType
    <3> QED
      BY <1>0, <1>1, <2>1, <3>2, Moved
  <2> QED
    BY <1>0, <1>1, <1>3, <2>1, GoToTyped DEF CheckList
<1>4. CASE CheckActive
  <2>1. cool' \in Nat
    BY <1>0, <1>4 DEF CheckActive
  <2>2. GoTo(Checker, "stop") \/ Return(Checker)
    BY <1>4 DEF CheckActive
  <2>3. at' \in [Threads -> AtType]
    BY <1>0, <1>1, <2>2, GoToTyped, ReturnTyped
  <2> QED
    BY <1>0, <1>4, <2>1, <2>3 DEF CheckActive
<1>5. CASE CheckInactive
  <2>1. ASSUME at' = [at EXCEPT ![Checker].pc = "start", ![Checker].auto = TRUE]
        PROVE  at' \in [Threads -> AtType]
    <3> DEFINE r == [at[Checker] EXCEPT !.pc = "start", !.auto = TRUE]
    <3>1. r \in AtType
      BY <1>1 DEF AtType
    <3> QED
      BY <1>0, <1>1, <2>1, <3>1, Moved
  <2>2. CASE Return(Checker)
    <3>1. at' \in [Threads -> AtType]
      BY <1>0, <1>1, <2>2, ReturnTyped
    <3> QED
      BY <1>0, <1>5, <3>1 DEF CheckInactive
  <2>3. CASE ~Return(Checker)
    BY <1>0, <1>1, <1>5, <2>1, <2>3 DEF CheckInactive
  <2> QED
    BY <2>2, <2>3
<1> QED
  BY <1>2, <1>3, <1>4, <1>5 DEF CheckStep

(* The start of a cooldown. *)
LEMMA StartTyped ==
  ASSUME TypeOK, NEW t \in Changers, ManualStart(t) \/ StartStep(t)
  PROVE  TypeOK'
<1> USE PcNames DEF Plain, process, counters, mutexes
<1>0. rows \in Seq(RowType) /\ at \in [Threads -> AtType] /\ Plain
  BY TypeParts
<1>1. t \in Threads /\ at[t] \in AtType
  BY <1>0 DEF Threads
<1> SUFFICES rows' \in Seq(RowType) /\ at' \in [Threads -> AtType] /\ Plain'
  BY TypeParts
<1>2. CASE ManualStart(t)
  <2>1. raced' \in BOOLEAN
    BY <1>2, Zenon DEF ManualStart, Begin
  <2> QED
    BY <1>0, <1>1, <1>2, <2>1, GoToTyped DEF ManualStart, Begin
<1>3. CASE StartHeat(t) \/ StartMirror(t) \/ Note(t)
  BY <1>0, <1>1, <1>3, GoToTyped, ReturnTyped DEF StartHeat, StartMirror, Note
<1>4. CASE StartLease(t)
  <2> DEFINE r == [at[t] EXCEPT !.pc = "insert", !.held = lease # "none"]
  <2>1. r \in AtType
    BY <1>1 DEF AtType
  <2>2. at' \in [Threads -> AtType]
    BY <1>0, <1>1, <1>4, <2>1, Moved DEF StartLease
  <2> QED
    BY <1>0, <1>4, <2>2 DEF StartLease
<1>5. CASE StartInsert(t)
  <2>1. Append(rows, [status |-> "active", ends |-> 0]) \in Seq(RowType)
    BY <1>0 DEF RowType
  <2>2. ASSUME at' = [at EXCEPT ![t].id = Len(rows) + 1, ![t].held = FALSE,
                         ![t].pc = IF at[t].held THEN "shorten" ELSE "accelerate"]
        PROVE  at' \in [Threads -> AtType]
    <3> DEFINE pc == IF at[t].held THEN "shorten" ELSE "accelerate"
               r == [at[t] EXCEPT !.id = Len(rows) + 1, !.held = FALSE, !.pc = pc]
    <3>1. Len(rows) + 1 \in Nat /\ pc \in Pcs
      BY <1>0
    <3>2. at' = [at EXCEPT ![t] = r]
      BY <2>2
    <3> HIDE DEF pc
    <3>3. r \in AtType
      BY <1>1, <3>1 DEF AtType
    <3> QED
      BY <1>0, <1>1, <3>2, <3>3, Moved
  <2> QED
    BY <1>0, <1>1, <1>5, <2>1, <2>2, ReturnTyped DEF StartInsert
<1>6. CASE StartShorten(t)
  <2>1. ASSUME at' = [at EXCEPT ![t].pc = "count", ![t].after = "rewrite"]
        PROVE  at' \in [Threads -> AtType]
    <3> DEFINE r == [at[t] EXCEPT !.pc = "count", !.after = "rewrite"]
    <3>1. r \in AtType
      BY <1>1 DEF AtType
    <3> QED
      BY <1>0, <1>1, <2>1, <3>1, Moved
  <2> QED
    BY <1>0, <1>1, <1>6, <2>1, GoToTyped DEF StartShorten
<1>7. CASE StartRewrite(t)
  <2>1. rows' \in Seq(RowType)
    BY <1>7, Updated DEF StartRewrite
  <2> QED
    BY <1>0, <1>1, <1>7, <2>1, GoToTyped DEF StartRewrite
<1>8. CASE StartAccelerate(t)
  <2>1. ASSUME at' = [at EXCEPT ![t] = [Idle EXCEPT !.pc = "mirror"]]
        PROVE  at' \in [Threads -> AtType]
    <3>1. [Idle EXCEPT !.pc = "mirror"] \in AtType
      BY DEF Idle, AtType
    <3> QED
      BY <1>0, <1>1, <2>1, <3>1, Moved
  <2> QED
    BY <1>0, <1>1, <1>8, <2>1, ReturnTyped DEF StartAccelerate
<1> QED
  BY <1>2, <1>3, <1>4, <1>5, <1>6, <1>7, <1>8 DEF StartStep

(* The stop of a cooldown. *)
LEMMA StopTyped ==
  ASSUME TypeOK, NEW t \in Changers, ManualStop(t) \/ StopStep(t)
  PROVE  TypeOK'
<1> USE PcNames DEF Plain, process, counters, mutexes
<1>0. rows \in Seq(RowType) /\ at \in [Threads -> AtType] /\ Plain
  BY TypeParts
<1>1. t \in Threads /\ at[t] \in AtType
  BY <1>0 DEF Threads
<1> SUFFICES rows' \in Seq(RowType) /\ at' \in [Threads -> AtType] /\ Plain'
  BY TypeParts
<1>2. CASE ManualStop(t)
  <2>1. raced' \in BOOLEAN
    BY <1>2, Zenon DEF ManualStop
  <2>2. PICK i \in Active : at' = [at EXCEPT ![t].pc = "stop", ![t].id = i]
    BY <1>2 DEF ManualStop
  <2> DEFINE r == [at[t] EXCEPT !.pc = "stop", !.id = i]
  <2>3. i \in Nat
    BY <1>0 DEF Active
  <2>4. r \in AtType
    BY <1>1, <2>3 DEF AtType
  <2>5. at' \in [Threads -> AtType]
    BY <1>0, <1>1, <2>2, <2>4, Moved
  <2> QED
    BY <1>0, <1>2, <2>1, <2>5 DEF ManualStop
<1>3. CASE StopResolve(t)
  <2>1. rows' \in Seq(RowType)
    BY <1>3, Updated DEF StopResolve
  <2> QED
    BY <1>0, <1>1, <1>3, <2>1, GoToTyped DEF StopResolve
<1>4. CASE StopRecord(t)
  <2>1. rows' \in Seq(RowType)
    BY <1>4, Ended DEF StopRecord
  <2> QED
    BY <1>0, <1>1, <1>4, <2>1, GoToTyped DEF StopRecord
<1>5. CASE StopUncap(t)
  BY <1>0, <1>1, <1>5, ReturnTyped DEF StopUncap
<1> QED
  BY <1>2, <1>3, <1>4, <1>5 DEF StopStep

(* A crash, and the restart. *)
LEMMA ProcessTyped ==
  ASSUME TypeOK, Crash \/ Boot \/ MainStep
  PROVE  TypeOK'
<1> USE PcNames DEF Plain, process, counters, mutexes
<1>0. rows \in Seq(RowType) /\ at \in [Threads -> AtType] /\ Plain
  BY TypeParts
<1>1. Main \in Threads /\ at[Main] \in AtType
  BY <1>0 DEF Threads
<1> SUFFICES rows' \in Seq(RowType) /\ at' \in [Threads -> AtType] /\ Plain'
  BY TypeParts
<1>2. CASE Crash
  <2>1. Idle \in AtType
    BY DEF Idle, AtType
  <2>2. at' \in [Threads -> AtType]
    BY <1>2, <2>1 DEF Crash
  <2>3. capped' \in BOOLEAN /\ up' \in BOOLEAN /\ raced' \in BOOLEAN
    BY <1>0, <1>2, Zenon DEF Crash
  <2>4. hot' \in Nat /\ cool' \in Nat /\ crashes' \in Nat
    BY <1>0, <1>2 DEF Crash
  <2> QED
    BY <1>0, <1>2, <2>2, <2>3, <2>4 DEF Crash
<1>3. CASE Boot
  BY <1>0, <1>1, <1>3, GoToTyped DEF Boot
<1>8. CASE Start
  BY <1>0, <1>1, <1>8, GoToTyped DEF Start
<1>4. CASE Restore
  <2>1. capped' \in BOOLEAN
    BY <1>4, Zenon DEF Restore
  <2> QED
    BY <1>0, <1>1, <1>4, <2>1, GoToTyped DEF Restore
<1>5. CASE RestorePeek
  BY <1>0, <1>1, <1>5, GoToTyped DEF RestorePeek
<1>6. CASE RestoreShorten
  <2> DEFINE r == [at[Main] EXCEPT !.pc = "count", !.after = "started"]
  <2>1. r \in AtType
    BY <1>1 DEF AtType
  <2>2. at' \in [Threads -> AtType]
    BY <1>0, <1>1, <1>6, <2>1, Moved, GoToTyped DEF RestoreShorten
  <2> QED
    BY <1>0, <1>1, <1>6, <2>2 DEF RestoreShorten
<1>7. CASE RestoreEnd
  BY <1>0, <1>1, <1>7, ReturnTyped DEF RestoreEnd
<1> QED
  BY <1>2, <1>3, <1>4, <1>5, <1>6, <1>7, <1>8 DEF MainStep

(* No step leaves the types. *)
LEMMA TypeStep == TypeOK /\ [Next]_vars => TypeOK'
<1> SUFFICES ASSUME TypeOK, [Next]_vars PROVE TypeOK'
  OBVIOUS
<1>1. CASE Next
  <2>1. ASSUME NEW t \in Threads, Step(t) PROVE TypeOK'
    BY <2>1, MethodTyped, StartTyped, StopTyped, CheckTyped, ProcessTyped DEF Step
  <2>2. Workers \subseteq Threads /\ Operators \subseteq Changers
    BY DEF Threads, Changers
  <2>3. CASE \E t \in Workers : Enter(t)
    BY <2>2, <2>3, MethodTyped
  <2>4. CASE Elapse \/ Renew
    <3>1. Checker \in Threads
      BY DEF Threads, Changers
    <3> QED
      BY <2>4, <3>1, MethodTyped
  <2> QED
    BY <1>1, <2>1, <2>2, <2>3, <2>4, StartTyped, StopTyped, CheckTyped, ProcessTyped
       DEF Next
<1>2. CASE UNCHANGED vars
  BY <1>2 DEF vars, mutexes, counters, process, TypeOK
<1> QED
  BY <1>1, <1>2

(* The tables start empty and the threads idle. *)
LEMMA TypeInit == Init => TypeOK
<1>1. Idle \in AtType
  BY PcNames DEF Idle, AtType
<1>2. <<>> \in Seq(RowType)
  OBVIOUS
<1>3. Init => at \in [Threads -> AtType]
  BY <1>1 DEF Init
<1>4. Init => capped \in BOOLEAN /\ up \in BOOLEAN /\ raced \in BOOLEAN
  BY Zenon DEF Init
<1> QED
  BY <1>2, <1>3, <1>4 DEF Init, TypeOK

(* Every variable keeps its type in every behaviour. *)
THEOREM TypeCorrect == Spec => []TypeOK
<1> QED
  BY TypeInit, TypeStep, PTL DEF Spec

-----------------------------------------------------------------------------
(* The mutexes *)

(* How one thread's step may change who has the mutexes, and a row that    *)
(* will be written back.                                                   *)
TakesOrLeaves(t, mu, next) ==
  next = mu \/ (mu = NoThread /\ next = t) \/ (mu = t /\ next = NoThread)

MayMove(t) == Busy(t) \/ (t # Main /\ Serving) \/ (t \in Workers /\ up)

MutexMove(t) ==
  /\ \A u \in Threads : u # t => at'[u] = at[u]
  /\ up /\ up' = up
  /\ MayMove(t)
  /\ TakesOrLeaves(t, heatmapMu, heatmapMu')
  /\ TakesOrLeaves(t, lockMu, lockMu')
  /\ InHeatmap(t)' <=> heatmapMu' = t
  /\ InLock(t)' <=> lockMu' = t

RowMove(t) ==
  /\ at'[t].pc = "write" => /\ at'[t].read \in DOMAIN rows'
                            /\ rows'[at'[t].read].status = "active"
  /\ DOMAIN rows \subseteq DOMAIN rows'
  /\ \/ /\ \A i \in DOMAIN rows : rows[i].status = "active" => rows'[i].status = "active"
        /\ heatmapMu' = heatmapMu \/ heatmapMu \notin Changers
     \/ heatmapMu' \in Changers
     \/ \A u \in Threads : at'[u].pc # "write"

(* Such a step keeps the mutexes' owners. *)
LEMMA Kept ==
  ASSUME TypeOK, MutexInv, NEW t \in Threads, MutexMove(t), RowMove(t),
         t # Main \/ StartPath'
  PROVE  MutexInv'
<1> USE DEF MutexInv, MutexMove, RowMove, TakesOrLeaves
<1>1. NoThread \notin Threads /\ Main \in Threads
  BY ThreadsAssumption DEF Threads, Changers
<1>2. MutexOwners'
  <2> SUFFICES ASSUME NEW u \in Threads
               PROVE  (InHeatmap(u)' <=> heatmapMu' = u) /\ (InLock(u)' <=> lockMu' = u)
    BY DEF MutexOwners
  <2>1. CASE u = t
    BY <2>1
  <2>2. CASE u # t
    <3>1. (InHeatmap(u)' <=> InHeatmap(u)) /\ (InLock(u)' <=> InLock(u))
      BY <2>2 DEF InHeatmap, InLock, Busy
    <3>2. (heatmapMu' = u <=> heatmapMu = u) /\ (lockMu' = u <=> lockMu = u)
      BY <1>1, <2>2
    <3> QED
      BY <3>1, <3>2 DEF MutexOwners
  <2> QED
    BY <2>1, <2>2
<1>3. NoCooldownDuringStart'
  <2>1. Main \notin Changers \cup Workers /\ Changers \cap Workers = {} /\ Changers \subseteq Threads
    BY ThreadsAssumption DEF Threads, Changers
  <2> QED
    BY <1>1, <2>1 DEF NoCooldownDuringStart, MayMove, Busy, Serving
<1>4. StartPath'
  BY <1>1 DEF StartPath
<1>5. ReadRowsStand'
  BY DEF ReadRowsStand
<1> QED
  BY <1>2, <1>3, <1>4, <1>5

(* What the owners say of one thread. *)
LEMMA Owner ==
  ASSUME MutexInv, NEW t \in Threads
  PROVE  /\ InHeatmap(t) <=> heatmapMu = t
         /\ InLock(t) <=> lockMu = t
         /\ Busy(t) => up
         /\ t # NoThread
BY ThreadsAssumption DEF MutexInv, MutexOwners, NoCooldownDuringStart, Threads, Changers

(* A step outside stopCooldown and Start that leaves heatmap.mu alone. *)
LEMMA LockMove ==
  ASSUME TypeOK, MutexInv, NEW t \in Threads,
         \A u \in Threads : u # t => at'[u] = at[u],
         up' = up,
         MayMove(t),
         t = Main => at[t].pc # "boot" /\ at'[t].pc \notin {"idle", "boot"},
         at[t].pc \notin {"record", "uncap"}, at'[t].pc \notin {"record", "uncap"},
         heatmapMu' = heatmapMu,
         TakesOrLeaves(t, lockMu, lockMu'),
         InLock(t)' <=> lockMu' = t
  PROVE  MutexMove(t)
<1>1. up
  BY Owner DEF Serving, MayMove
<1>2. TakesOrLeaves(t, heatmapMu, heatmapMu')
  BY DEF TakesOrLeaves
<1>3. InHeatmap(t)' <=> InHeatmap(t)
  <2>1. ~(t = Main /\ at[t].pc = "idle")
    BY ThreadsAssumption DEF MayMove, Busy
  <2> QED
    BY <2>1 DEF InHeatmap
<1>4. InHeatmap(t)' <=> heatmapMu' = t
  BY <1>3, Owner
<1> QED
  BY <1>1, <1>2, <1>4 DEF MutexMove

(* A step that writes no row and starts no writing. *)
LEMMA RowsAlone ==
  ASSUME NEW t \in Threads, UNCHANGED rows, heatmapMu' = heatmapMu, at'[t].pc # "write"
  PROVE  RowMove(t)
BY DEF RowMove

(* The calls of the lock manager. *)
LEMMA MethodKeeps ==
  ASSUME TypeOK, MutexInv, NEW t \in Threads,
         (t \in Workers /\ Enter(t)) \/ MethodStep(t)
  PROVE  MutexInv'
<1> USE PcNames DEF process, mutexes, counters
<1>0. rows \in Seq(RowType) /\ at \in [Threads -> AtType] /\ at[t] \in AtType
  BY DEF TypeOK
<1>1. /\ t # NoThread
      /\ InLock(t) <=> lockMu = t
      /\ t = Main => StartPath
  BY Owner DEF MutexInv
<1>2. CASE t \in Workers /\ Enter(t)
  <2>0. t # Main
    BY <1>2, ThreadsAssumption
  <2>1. /\ \A u \in Threads : u # t => at'[u] = at[u]
        /\ at'[t].pc \in {"request", "released"}
    <3>1. GoTo(t, "request") \/ GoTo(t, "released")
      BY <1>2 DEF Enter
    <3> QED
      BY <1>0, <3>1, GoToTyped
  <2>2. at[t].pc = "idle"
    BY <1>2 DEF Enter, Busy
  <2>3. MutexMove(t)
    BY <1>2, <2>0, <2>1, <2>2, LockMove DEF MayMove, Enter, TakesOrLeaves, InLock
  <2>4. RowMove(t)
    BY <1>2, <2>1, RowsAlone DEF Enter
  <2> QED
    BY <2>0, <2>3, <2>4, Kept
<1>3. CASE Request(t)
  <2>0. at[t].pc = "request" /\ t # Main /\ lockMu = t
    BY <1>1, <1>3 DEF Request, StartPath, InLock
  <2>1. /\ \A u \in Threads : u # t => at'[u] = at[u]
        /\ \/ at'[t].pc = "idle" /\ lockMu' = NoThread
           \/ at'[t].pc \in {"enqueued", "count"} /\ lockMu' = t
    <3>1. CASE Return(t) /\ lockMu' = NoThread
      BY <1>0, <3>1, ReturnTyped
    <3>2. CASE GoTo(t, "enqueued") /\ UNCHANGED lockMu
      BY <1>0, <2>0, <3>2, GoToTyped
    <3>3. CASE Grant(t, "idle") /\ lockMu' = IF at'[t].pc = "idle" THEN NoThread ELSE t
      BY <1>0, <3>3, GrantTyped
    <3> QED
      BY <1>3, <3>1, <3>2, <3>3 DEF Request
  <2>2. MutexMove(t)
    BY <1>1, <1>3, <2>0, <2>1, LockMove DEF MayMove, Request, TakesOrLeaves, InLock, Busy
  <2>3. RowMove(t)
    BY <1>3, <2>1, RowsAlone DEF Request
  <2> QED
    BY <2>0, <2>2, <2>3, Kept
<1>4. CASE Recorded(t)
  <2>0. at[t].pc \in {"enqueued", "granted"} /\ t # Main /\ lockMu = t
    BY <1>1, <1>4 DEF Recorded, StartPath, InLock
  <2>1. /\ \A u \in Threads : u # t => at'[u] = at[u]
        /\ at'[t].pc = "idle"
    BY <1>0, <1>4, ReturnTyped DEF Recorded
  <2>2. MutexMove(t)
    BY <1>1, <1>4, <2>0, <2>1, LockMove DEF MayMove, Recorded, TakesOrLeaves, InLock, Busy
  <2>3. RowMove(t)
    BY <1>4, <2>1, RowsAlone DEF Recorded
  <2> QED
    BY <2>0, <2>2, <2>3, Kept
<1>5. CASE Released(t) \/ TimedOut(t)
  <2>0. at[t].pc \in {"released", "timedout"} /\ t # Main /\ lockMu = t
    BY <1>1, <1>5 DEF Released, TimedOut, StartPath, InLock
  <2>1. /\ \A u \in Threads : u # t => at'[u] = at[u]
        /\ \/ at'[t].pc = "idle" /\ lockMu' = NoThread
           \/ at'[t].pc \in {"granted", "count", "timedout"} /\ lockMu' = t
    <3>1. CASE Return(t) /\ lockMu' = NoThread
      BY <1>0, <3>1, ReturnTyped
    <3>2. CASE GoTo(t, "timedout") /\ UNCHANGED lockMu
      BY <1>0, <2>0, <3>2, GoToTyped
    <3>3. CASE Grant(t, "granted") /\ UNCHANGED lockMu
      BY <1>0, <2>0, <3>3, GrantTyped
    <3> QED
      BY <1>5, <3>1, <3>2, <3>3 DEF Released, TimedOut, HandOn
  <2>2. MutexMove(t)
    BY <1>1, <1>5, <2>0, <2>1, LockMove DEF MayMove, Released, TimedOut, TakesOrLeaves, InLock, Busy
  <2>3. RowMove(t)
    BY <1>5, <2>1, RowsAlone DEF Released, TimedOut
  <2> QED
    BY <2>0, <2>2, <2>3, Kept
<1>6. CASE (CountRead(t) \/ CountWrite(t)) /\ EndCount(t)
  <2>0. at[t].pc \in {"count", "write"} /\ lockMu = t /\ (t = Main => at[t].after = "started")
    BY <1>1, <1>6 DEF CountRead, CountWrite, StartPath, InLock
  <2>1. /\ \A u \in Threads : u # t => at'[u] = at[u]
        /\ at'[t].pc = at[t].after
        /\ at[t].after \in {"idle", "granted", "rewrite", "started"}
        /\ lockMu' = IF at[t].after = "granted" THEN t ELSE NoThread
    BY <1>0, <1>6, EndCountTyped DEF AtType
  <2>2. MutexMove(t)
    BY <1>1, <1>6, <2>0, <2>1, LockMove DEF MayMove, CountRead, CountWrite, TakesOrLeaves, InLock, Busy
  <2>3. RowMove(t)
    <3>1. CASE CountRead(t)
      BY <2>1, <3>1, RowsAlone DEF CountRead
    <3>2. CASE CountWrite(t)
      BY <2>1, <3>2, Updated DEF CountWrite, RowMove
    <3> QED
      BY <1>6, <3>1, <3>2
  <2>4. t # Main \/ StartPath'
    BY <2>0, <2>1 DEF StartPath
  <2> QED
    BY <2>2, <2>3, <2>4, Kept
<1>7. CASE CountRead(t) /\ ~EndCount(t)
  <2>0. at[t].pc = "count" /\ lockMu = t /\ (t = Main => at[t].after = "started")
    BY <1>1, <1>7 DEF CountRead, StartPath, InLock
  <2>1. PICK i \in Active : at' = [at EXCEPT ![t].pc = "write", ![t].read = i]
    BY <1>7 DEF CountRead
  <2>2. /\ \A u \in Threads : u # t => at'[u] = at[u]
        /\ at'[t].pc = "write" /\ at'[t].read = i /\ at'[t].after = at[t].after
    BY <1>0, <2>1 DEF AtType
  <2>3. MutexMove(t)
    BY <1>1, <1>7, <2>0, <2>2, LockMove DEF MayMove, CountRead, TakesOrLeaves, InLock, Busy
  <2>4. RowMove(t)
    BY <1>7, <2>1, <2>2 DEF CountRead, RowMove, Active
  <2>5. t # Main \/ StartPath'
    BY <2>0, <2>2 DEF StartPath
  <2> QED
    BY <2>3, <2>4, <2>5, Kept
<1> QED
  BY <1>2, <1>3, <1>4, <1>5, <1>6, <1>7 DEF MethodStep, CountWrite

(* A step of a cooldown operation that takes or leaves no mutex.           *)
LEMMA QuietKeeps ==
  ASSUME TypeOK, MutexInv, NEW t \in Changers,
         \A u \in Threads : u # t => at'[u] = at[u],
         UNCHANGED <<mutexes, up>>,
         Busy(t) \/ Serving,
         at[t].pc \notin {"record", "uncap"}, at'[t].pc \notin {"record", "uncap"},
         ~InLock(t), ~InLock(t)',
         DOMAIN rows \subseteq DOMAIN rows',
         \A i \in DOMAIN rows : rows[i].status = "active" => rows'[i].status = "active"
  PROVE  MutexInv'
<1>1. t \in Threads /\ t # Main
  BY ThreadsAssumption DEF Threads, Changers
<1>2. MutexMove(t)
  BY <1>1, Owner, LockMove DEF MayMove, TakesOrLeaves, mutexes
<1>3. RowMove(t)
  BY DEF RowMove, InLock, mutexes
<1> QED
  BY <1>1, <1>2, <1>3, Kept

(* The check of a cooldown. *)
LEMMA CheckKeeps ==
  ASSUME TypeOK, MutexInv, CheckBegin \/ CheckStep
  PROVE  MutexInv'
<1> USE PcNames DEF process, counters
<1>0. at \in [Threads -> AtType] /\ Checker \in Changers /\ Checker \in Threads
      /\ at[Checker] \in AtType
  BY DEF TypeOK, Threads, Changers
<1>1. /\ \A u \in Threads : u # Checker => at'[u] = at[u]
      /\ at'[Checker].pc \in {"idle", "list", "chill", "warm", "start", "stop"}
  <2>1. CASE \E pc \in {"list", "warm", "stop"} : GoTo(Checker, pc)
    BY <1>0, <2>1, GoToTyped
  <2>2. CASE Return(Checker)
    BY <1>0, <2>2, ReturnTyped
  <2>3. ASSUME NEW i, at' = [at EXCEPT ![Checker].pc = "chill", ![Checker].id = i]
        PROVE  <1>1!1 /\ at'[Checker].pc = "chill"
    BY <1>0, <2>3 DEF AtType
  <2>4. CASE at' = [at EXCEPT ![Checker].pc = "start", ![Checker].auto = TRUE]
    BY <1>0, <2>4 DEF AtType
  <2>5. CASE CheckBegin
    BY <2>1, <2>5 DEF CheckBegin, Begin
  <2>6. CASE CheckList
    BY <2>1, <2>3, <2>6 DEF CheckList
  <2>7. CASE CheckActive
    BY <2>1, <2>2, <2>7 DEF CheckActive
  <2>8. CASE CheckInactive
    BY <2>2, <2>4, <2>8 DEF CheckInactive
  <2> QED
    BY <2>5, <2>6, <2>7, <2>8 DEF CheckStep
<1>2. at[Checker].pc \in {"idle", "list", "chill", "warm"}
  BY DEF CheckBegin, Begin, CheckStep, CheckList, CheckActive, CheckInactive, Busy
<1>3. UNCHANGED <<rows, mutexes, up>> /\ (Busy(Checker) \/ Serving)
  BY DEF CheckBegin, Begin, CheckStep, CheckList, CheckActive, CheckInactive, Busy
<1> QED
  BY <1>0, <1>1, <1>2, <1>3, QuietKeeps DEF InLock

(* The start of a cooldown. *)
LEMMA StartKeeps ==
  ASSUME TypeOK, MutexInv, NEW t \in Changers, ManualStart(t) \/ StartStep(t)
  PROVE  MutexInv'
<1> USE PcNames DEF process, counters
<1>0. rows \in Seq(RowType) /\ at \in [Threads -> AtType] /\ at[t] \in AtType
      /\ t \in Threads /\ t # Main
  BY ThreadsAssumption DEF TypeOK, Threads, Changers
<1>1. CASE ManualStart(t)
  <2>1. /\ \A u \in Threads : u # t => at'[u] = at[u]
        /\ at'[t].pc = "start" /\ at[t].pc = "idle"
    BY <1>0, <1>1, GoToTyped DEF ManualStart, Begin, Busy
  <2> QED
    BY <1>1, <2>1, QuietKeeps DEF ManualStart, Begin, InLock
<1>2. CASE StartHeat(t) \/ StartMirror(t) \/ Note(t)
  <2>1. /\ \A u \in Threads : u # t => at'[u] = at[u]
        /\ at'[t].pc \in {"lease", "note", "idle"}
    BY <1>0, <1>2, GoToTyped, ReturnTyped DEF StartHeat, StartMirror, Note
  <2>2. at[t].pc \in {"start", "mirror", "note"}
    BY <1>2 DEF StartHeat, StartMirror, Note
  <2>3. UNCHANGED <<rows, mutexes, up>>
    BY <1>2 DEF StartHeat, StartMirror, Note
  <2> QED
    BY <2>1, <2>2, <2>3, QuietKeeps DEF InLock, Busy
<1>3. CASE StartLease(t)
  <2>1. /\ \A u \in Threads : u # t => at'[u] = at[u]
        /\ at'[t].pc = "insert" /\ at[t].pc = "lease"
    BY <1>0, <1>3 DEF StartLease, AtType
  <2> QED
    BY <1>3, <2>1, QuietKeeps DEF StartLease, InLock, Busy
<1>4. CASE StartInsert(t)
  <2>0. at[t].pc = "insert"
    BY <1>4 DEF StartInsert
  <2>1. /\ \A u \in Threads : u # t => at'[u] = at[u]
        /\ at'[t].pc \in {"idle", "shorten", "accelerate"}
    <3>1. CASE Return(t)
      BY <1>0, <3>1, ReturnTyped
    <3>2. CASE ~Return(t)
      BY <1>0, <1>4, <3>2 DEF StartInsert, AtType
    <3> QED
      BY <3>1, <3>2
  <2>2. /\ DOMAIN rows \subseteq DOMAIN rows'
        /\ \A i \in DOMAIN rows : rows'[i] = rows[i]
    <3>1. CASE UNCHANGED rows
      BY <3>1
    <3>2. ASSUME NEW r, rows' = Append(rows, r) PROVE <2>2!1 /\ <2>2!2
      BY <1>0, <3>2
    <3> QED
      BY <1>4, <3>1, <3>2 DEF StartInsert
  <2>3. UNCHANGED <<mutexes, up>>
    BY <1>4 DEF StartInsert
  <2> QED
    BY <2>0, <2>1, <2>2, <2>3, QuietKeeps DEF InLock, Busy
<1>5. CASE StartShorten(t)
  <2>1. /\ \A u \in Threads : u # t => at'[u] = at[u]
        /\ \/ at'[t].pc = "accelerate" /\ lockMu' = lockMu
           \/ at'[t].pc = "count" /\ lockMu' = t
    <3>1. CASE GoTo(t, "accelerate") /\ UNCHANGED lockMu
      BY <1>0, <3>1, GoToTyped
    <3>2. CASE at' = [at EXCEPT ![t].pc = "count", ![t].after = "rewrite"] /\ lockMu' = t
      BY <1>0, <3>2 DEF AtType
    <3> QED
      BY <1>5, <3>1, <3>2 DEF StartShorten
  <2>2. at[t].pc = "shorten" /\ lockMu = NoThread /\ t # NoThread
    BY <1>0, <1>5, Owner DEF StartShorten
  <2>3. MutexMove(t)
    BY <1>0, <1>5, <2>1, <2>2, LockMove DEF MayMove, StartShorten, TakesOrLeaves, InLock, Busy
  <2>4. RowMove(t)
    BY <1>0, <1>5, <2>1, RowsAlone DEF StartShorten
  <2> QED
    BY <1>0, <2>3, <2>4, Kept
<1>6. CASE StartRewrite(t)
  <2>1. /\ \A u \in Threads : u # t => at'[u] = at[u]
        /\ at'[t].pc = "accelerate" /\ at[t].pc = "rewrite"
    BY <1>0, <1>6, GoToTyped DEF StartRewrite
  <2>2. /\ DOMAIN rows' = DOMAIN rows
        /\ \A i \in DOMAIN rows : rows[i].status = "active" => rows'[i].status = "active"
    BY <1>6, Updated DEF StartRewrite
  <2> QED
    BY <1>6, <2>1, <2>2, QuietKeeps DEF StartRewrite, InLock, Busy
<1>7. CASE StartAccelerate(t)
  <2>0. at[t].pc = "accelerate"
    BY <1>7 DEF StartAccelerate
  <2>1. /\ \A u \in Threads : u # t => at'[u] = at[u]
        /\ at'[t].pc \in {"idle", "note", "mirror"}
    <3>1. CASE NoteLast(t)
      BY <1>0, <3>1, ReturnTyped
    <3>2. CASE at' = [at EXCEPT ![t] = [Idle EXCEPT !.pc = "mirror"]]
      BY <1>0, <3>2 DEF Idle
    <3> QED
      BY <1>7, <3>1, <3>2 DEF StartAccelerate
  <2> QED
    BY <1>7, <2>0, <2>1, QuietKeeps DEF StartAccelerate, InLock, Busy
<1> QED
  BY <1>1, <1>2, <1>3, <1>4, <1>5, <1>6, <1>7 DEF StartStep

(* The stop of a cooldown. *)
LEMMA StopKeeps ==
  ASSUME TypeOK, MutexInv, NEW t \in Changers, ManualStop(t) \/ StopStep(t)
  PROVE  MutexInv'
<1> USE PcNames DEF process, mutexes, counters
<1>0. rows \in Seq(RowType) /\ at \in [Threads -> AtType] /\ at[t] \in AtType
      /\ t \in Threads /\ t # Main
  BY ThreadsAssumption DEF TypeOK, Threads, Changers
<1>1. /\ t # NoThread
      /\ Busy(t) => up
      /\ InHeatmap(t) <=> heatmapMu = t
      /\ InLock(t) <=> lockMu = t
  BY <1>0, Owner
<1>2. CASE ManualStop(t)
  <2>1. PICK i \in Active : at' = [at EXCEPT ![t].pc = "stop", ![t].id = i]
    BY <1>2 DEF ManualStop
  <2>2. /\ \A u \in Threads : u # t => at'[u] = at[u]
        /\ at'[t].pc = "stop"
    BY <1>0, <2>1 DEF AtType
  <2>3. at[t].pc = "idle" /\ Serving /\ UNCHANGED <<rows, mutexes, up>>
    BY <1>2 DEF ManualStop, Busy
  <2> QED
    BY <2>2, <2>3, QuietKeeps DEF InLock
<1>3. CASE StopResolve(t)
  <2>1. /\ \A u \in Threads : u # t => at'[u] = at[u]
        /\ at'[t].pc = "record" /\ at[t].pc = "stop"
    BY <1>0, <1>3, GoToTyped DEF StopResolve
  <2>2. DOMAIN rows' = DOMAIN rows
    BY <1>3, Updated DEF StopResolve
  <2>3. heatmapMu = NoThread /\ heatmapMu' = t /\ UNCHANGED <<lockMu, up>>
    BY <1>3 DEF StopResolve
  <2>4. MutexMove(t)
    BY <1>0, <1>1, <2>1, <2>3 DEF MutexMove, MayMove, TakesOrLeaves, InHeatmap, InLock, Busy
  <2>5. RowMove(t)
    BY <1>1, <2>1, <2>2, <2>3 DEF RowMove
  <2> QED
    BY <1>0, <2>4, <2>5, Kept
<1>4. CASE StopRecord(t)
  <2>1. /\ \A u \in Threads : u # t => at'[u] = at[u]
        /\ at'[t].pc = "uncap" /\ at[t].pc = "record"
    BY <1>0, <1>4, GoToTyped DEF StopRecord
  <2>2. DOMAIN rows' = DOMAIN rows
    BY <1>4, Ended DEF StopRecord
  <2>3. heatmapMu = t /\ UNCHANGED <<heatmapMu, lockMu, up>>
    BY <1>1, <1>4, <2>1 DEF StopRecord, InHeatmap
  <2>4. MutexMove(t)
    BY <1>0, <1>1, <2>1, <2>3 DEF MutexMove, MayMove, TakesOrLeaves, InHeatmap, InLock, Busy
  <2>5. RowMove(t)
    BY <1>1, <2>1, <2>2, <2>3 DEF RowMove
  <2> QED
    BY <1>0, <2>4, <2>5, Kept
<1>5. CASE StopUncap(t)
  <2>1. /\ \A u \in Threads : u # t => at'[u] = at[u]
        /\ at'[t].pc \in {"idle", "note"} /\ at[t].pc = "uncap"
    BY <1>0, <1>5, ReturnTyped DEF StopUncap
  <2>2. heatmapMu = t /\ heatmapMu' = NoThread /\ lockMu = NoThread /\ UNCHANGED <<rows, lockMu, up>>
    BY <1>1, <1>5, <2>1 DEF StopUncap, InHeatmap
  <2>3. MutexMove(t)
    BY <1>0, <1>1, <2>1, <2>2 DEF MutexMove, MayMove, TakesOrLeaves, InHeatmap, InLock, Busy
  <2>4. \A u \in Threads : at[u].pc # "write"
    BY <2>2, Owner DEF InLock
  <2>5. RowMove(t)
    BY <1>0, <2>1, <2>2, <2>4 DEF RowMove
  <2> QED
    BY <1>0, <2>3, <2>5, Kept
<1> QED
  BY <1>2, <1>3, <1>4, <1>5 DEF StopStep

(* A crash, and the restart. *)
LEMMA ProcessKeeps ==
  ASSUME TypeOK, MutexInv, Crash \/ Boot \/ MainStep
  PROVE  MutexInv'
<1> USE PcNames DEF process, mutexes, counters
<1>0. rows \in Seq(RowType) /\ at \in [Threads -> AtType] /\ at[Main] \in AtType
      /\ Main \in Threads
  BY DEF TypeOK, Threads
<1>1. /\ Main # NoThread /\ NoThread \notin Threads
      /\ Main \notin Changers /\ NoThread \notin Changers
      /\ Busy(Main) => up
      /\ InHeatmap(Main) <=> heatmapMu = Main
      /\ InLock(Main) <=> lockMu = Main
  BY <1>0, Owner, ThreadsAssumption DEF Threads, Changers
<1>2. CASE Crash
  <2>1. \A t \in Threads : at'[t].pc = "idle"
    BY <1>2 DEF Crash, Idle
  <2> QED
    BY <1>0, <1>1, <1>2, <2>1
       DEF Crash, MutexInv, MutexOwners, NoCooldownDuringStart, StartPath, ReadRowsStand,
           InHeatmap, InLock, Busy
<1>3. CASE Boot
  <2>1. \A t \in Threads : at[t].pc = "idle"
    BY <1>3 DEF Boot, MutexInv, NoCooldownDuringStart, Busy
  <2>2. /\ \A t \in Threads : t # Main => at'[t].pc = "idle"
        /\ at'[Main].pc = "boot"
    BY <1>0, <1>3, <2>1, GoToTyped DEF Boot
  <2>3. \A t \in Threads : heatmapMu' # t /\ lockMu' # t
    BY <1>3, <2>1, <1>0, Owner DEF Boot, InHeatmap, InLock
  <2>4. up' /\ Main \notin Changers /\ Changers \subseteq Threads
    BY <1>3, ThreadsAssumption DEF Boot, Threads, Changers
  <2> QED
    BY <1>0, <2>2, <2>3, <2>4
       DEF MutexInv, MutexOwners, NoCooldownDuringStart, StartPath, ReadRowsStand,
           InHeatmap, InLock, Busy
<1>7. CASE Start
  <2>1. /\ \A u \in Threads : u # Main => at'[u] = at[u]
        /\ at'[Main].pc = "restore" /\ at[Main].pc = "boot"
    BY <1>0, <1>7, GoToTyped DEF Start
  <2>2. heatmapMu = NoThread /\ heatmapMu' = Main /\ UNCHANGED <<rows, lockMu, up>>
    BY <1>7 DEF Start
  <2>3. MutexMove(Main)
    BY <1>0, <1>1, <2>1, <2>2
       DEF MutexMove, MayMove, TakesOrLeaves, InHeatmap, InLock, Busy
  <2>4. RowMove(Main)
    BY <1>1, <2>1, <2>2 DEF RowMove
  <2> QED
    BY <1>0, <2>1, <2>3, <2>4, Kept DEF StartPath
<1>4. CASE Restore \/ RestorePeek
  <2>1. /\ \A u \in Threads : u # Main => at'[u] = at[u]
        /\ at'[Main].pc \in {"peek", "reshorten", "started"}
    <3>1. \E pc \in {"peek", "reshorten", "started"} : GoTo(Main, pc)
      BY <1>4 DEF Restore, RestorePeek
    <3> QED
      BY <1>0, <3>1, GoToTyped
  <2>2. at[Main].pc \in {"restore", "peek"} /\ UNCHANGED <<rows, mutexes, up>>
    BY <1>4 DEF Restore, RestorePeek
  <2>3. MutexMove(Main)
    BY <1>0, <1>1, <2>1, <2>2, LockMove DEF MayMove, TakesOrLeaves, InLock, Busy
  <2>4. RowMove(Main)
    BY <1>0, <2>1, <2>2, RowsAlone
  <2> QED
    BY <1>0, <2>1, <2>3, <2>4, Kept DEF StartPath
<1>5. CASE RestoreShorten
  <2>1. /\ \A u \in Threads : u # Main => at'[u] = at[u]
        /\ \/ at'[Main].pc = "started" /\ lockMu' = lockMu
           \/ at'[Main].pc = "count" /\ at'[Main].after = "started" /\ lockMu' = Main
    <3>1. CASE GoTo(Main, "started") /\ UNCHANGED lockMu
      BY <1>0, <3>1, GoToTyped
    <3>2. CASE /\ at' = [at EXCEPT ![Main].pc = "count", ![Main].after = "started"]
               /\ lockMu' = Main
      BY <1>0, <3>2 DEF AtType
    <3> QED
      BY <1>5, <3>1, <3>2 DEF RestoreShorten
  <2>2. at[Main].pc = "reshorten" /\ lockMu = NoThread /\ UNCHANGED <<rows, heatmapMu, up>>
    BY <1>5 DEF RestoreShorten
  <2>3. MutexMove(Main)
    BY <1>0, <1>1, <2>1, <2>2, LockMove DEF MayMove, TakesOrLeaves, InLock, Busy
  <2>4. RowMove(Main)
    BY <1>0, <2>1, <2>2, RowsAlone
  <2> QED
    BY <1>0, <2>1, <2>3, <2>4, Kept DEF StartPath
<1>6. CASE RestoreEnd
  <2>1. /\ \A u \in Threads : u # Main => at'[u] = at[u]
        /\ at'[Main].pc = "idle"
    BY <1>0, <1>6, ReturnTyped DEF RestoreEnd
  <2>2. at[Main].pc = "started" /\ heatmapMu' = NoThread /\ UNCHANGED <<rows, lockMu, up>>
    BY <1>6 DEF RestoreEnd
  <2>3. heatmapMu = Main /\ lockMu # Main /\ up
    BY <1>1, <2>2 DEF InHeatmap, InLock, Busy
  <2>4. MutexMove(Main)
    BY <1>0, <1>1, <2>1, <2>2, <2>3 DEF MutexMove, MayMove, TakesOrLeaves, InHeatmap, InLock, Busy
  <2>5. RowMove(Main)
    <3>1. \A i \in DOMAIN rows : rows[i].status = "active" => rows'[i].status = "active"
      BY <2>2
    <3> QED
      BY <1>1, <2>1, <2>2, <2>3, <3>1 DEF RowMove
  <2> QED
    BY <1>0, <2>1, <2>4, <2>5, Kept DEF StartPath
<1> QED
  BY <1>2, <1>3, <1>4, <1>5, <1>6, <1>7 DEF MainStep

(* Every step keeps the mutexes' owners. *)
LEMMA MutexStep == TypeOK /\ MutexInv /\ [Next]_vars => MutexInv'
<1> SUFFICES ASSUME TypeOK, MutexInv, [Next]_vars PROVE MutexInv'
  OBVIOUS
<1>1. CASE Next
  <2>1. ASSUME NEW t \in Threads, Step(t) PROVE MutexInv'
    BY <2>1, MethodKeeps, StartKeeps, StopKeeps, CheckKeeps, ProcessKeeps DEF Step
  <2>2. Workers \subseteq Threads /\ Operators \subseteq Changers
    BY DEF Threads, Changers
  <2>3. CASE \E t \in Workers : Enter(t)
    BY <2>2, <2>3, MethodKeeps
  <2>4. CASE Elapse \/ Renew
    BY <2>4 DEF Elapse, Renew, process, mutexes, MutexInv, MutexOwners, NoCooldownDuringStart,
                StartPath, ReadRowsStand, InHeatmap, InLock, Busy
  <2> QED
    BY <1>1, <2>1, <2>2, <2>3, <2>4, StartKeeps, StopKeeps, CheckKeeps, ProcessKeeps
       DEF Next
<1>2. CASE UNCHANGED vars
  BY <1>2 DEF vars, process, mutexes, MutexInv, MutexOwners, NoCooldownDuringStart,
              StartPath, ReadRowsStand, InHeatmap, InLock, Busy
<1> QED
  BY <1>1, <1>2

(* Everybody is idle at first and both mutexes are free. *)
LEMMA MutexInit == Init => MutexInv
<1>1. Init => \A t \in Threads : at[t].pc = "idle"
  BY DEF Init, Idle
<1>2. NoThread \notin Threads /\ Main \in Threads
  BY ThreadsAssumption DEF Threads, Changers
<1> QED
  BY <1>1, <1>2 DEF Init, MutexInv, MutexOwners, NoCooldownDuringStart, StartPath,
                    ReadRowsStand, InHeatmap, InLock, Busy

(* A mutex has an owner exactly while some call is at a place where the    *)
(* code has locked it.                                                     *)
THEOREM MutexesOwned == Spec => []MutexInv
<1> QED
  BY TypeInit, TypeStep, MutexInit, MutexStep, PTL DEF Spec

(* Two calls wait for each other's mutex only when one of them is          *)
(* stopCooldown, about to uncap the grants, or the restore.                *)
THEOREM OnlyTheseBlock == Spec => []OnlyStopAndRestoreBlock
<1>1. TypeOK /\ MutexInv => OnlyStopAndRestoreBlock
  <2> SUFFICES ASSUME TypeOK, MutexInv, NEW t \in Threads, NEW u \in Threads,
                      u \in Wants(t), t \in Wants(u), heatmapMu # Main
               PROVE  at[heatmapMu].pc = "uncap"
    BY DEF OnlyStopAndRestoreBlock, MutexCycle
  <2> QED
    BY Owner DEF Wants, InHeatmap, InLock
<1> QED
  BY <1>1, TypeCorrect, MutexesOwned, PTL

(* A thread's step moves no other thread. *)
LEMMA OthersStay ==
  ASSUME TypeOK, NEW u \in Threads, NEW t \in Threads, t # u, Step(u) \/ Enter(u)
  PROVE  at'[t] = at[t]
<1>1. CASE MethodStep(u) \/ Enter(u)
  BY <1>1 DEF TypeOK, MethodStep, Enter, Request, Recorded, Released, TimedOut, CountRead,
              CountWrite, HandOn, Grant, EndCount, GoTo, Return
<1>2. CASE StartStep(u)
  BY <1>2 DEF TypeOK, StartStep, StartHeat, StartLease, StartInsert, StartShorten,
              StartRewrite, StartAccelerate, StartMirror, Note, GoTo, Return, NoteLast
<1>3. CASE StopStep(u)
  BY <1>3 DEF TypeOK, StopStep, StopResolve, StopRecord, StopUncap, GoTo, NoteLast
<1>4. CASE u = Checker /\ CheckStep
  BY <1>4 DEF TypeOK, CheckStep, CheckList, CheckActive, CheckInactive, GoTo, Return
<1>5. CASE u = Main /\ MainStep
  BY <1>5 DEF TypeOK, MainStep, Start, Restore, RestorePeek, RestoreShorten, RestoreEnd, GoTo, Return
<1> QED
  BY <1>1, <1>2, <1>3, <1>4, <1>5 DEF Step

(* Only the write itself takes a thread from where it writes a row back.   *)
LEMMA OnlyCountWrites ==
  ASSUME NEW t \in Threads, at[t].pc = "write", Step(t)
  PROVE  CountWrite(t)
BY DEF Step, MethodStep, Request, Recorded, Released, TimedOut, CountRead, StartStep,
       StartHeat, StartLease, StartInsert, StartShorten, StartRewrite, StartAccelerate,
       StartMirror, Note, StopStep, StopResolve, StopRecord, StopUncap, CheckStep, CheckList,
       CheckActive, CheckInactive, MainStep, Start, Restore, RestorePeek, RestoreShorten, RestoreEnd

(* The count of a shortened lease never makes a resolved cooldown active.  *)
THEOREM NoRevival == Spec => CountRevivesNothing
<1> DEFINE Stands ==
      \A t \in Threads, i \in DOMAIN rows :
        (at[t].pc = "write" /\ at'[t].pc # "write" /\ rows[i].status = "resolved" /\ up')
          => rows'[i].status = "resolved"
<1>1. TypeOK /\ MutexInv /\ [Next]_vars => [Stands]_vars
  <2> SUFFICES ASSUME TypeOK, MutexInv, Next, NEW t \in Threads, NEW i \in DOMAIN rows,
                      at[t].pc = "write", at'[t].pc # "write",
                      rows[i].status = "resolved", up'
               PROVE  rows'[i].status = "resolved"
    OBVIOUS
  <2>1. Operators \cup Workers \cup {Checker} \subseteq Threads
    BY DEF Threads, Changers
  <2>2. CountWrite(t)
    <3>1. CASE \E u \in Threads : Step(u)
      BY <3>1, OthersStay, OnlyCountWrites
    <3>2. CASE \E u \in Workers : Enter(u)
      BY <2>1, <3>2, OthersStay DEF Enter, Busy
    <3>3. CASE \E u \in Operators \cup {Checker} : Begin(u, "start") \/ Begin(u, "list")
      BY <2>1, <3>3 DEF Begin, GoTo, TypeOK, Busy
    <3>4. CASE \E u \in Operators : ManualStop(u)
      BY <2>1, <3>4 DEF ManualStop, TypeOK, Busy
    <3>5. CASE Elapse \/ Renew
      BY <3>5 DEF Elapse, Renew
    <3>6. CASE Boot
      BY <3>6 DEF Boot, MutexInv, NoCooldownDuringStart, Busy
    <3> QED
      BY <3>1, <3>2, <3>3, <3>4, <3>5, <3>6 DEF Next, ManualStart, CheckBegin, Crash
  <2>3. heatmapMu = NoThread /\ rows' = Update(at[t].read, "active")
    BY <2>2 DEF CountWrite
  <2>4. at[t].read # i
    BY <2>3, ThreadsAssumption DEF MutexInv, ReadRowsStand, Changers
  <2> QED
    BY <2>3, <2>4, Updated
<1> QED
  BY <1>1, TypeCorrect, MutexesOwned, PTL DEF Spec, CountRevivesNothing

-----------------------------------------------------------------------------
(* Operations, rows and the cap *)

(* What a goroutine that starts or stops cooldowns may be at *)
ChangerPcs ==
  {"idle", "list", "chill", "warm", "start", "lease", "insert", "shorten", "count", "write",
   "rewrite", "accelerate", "mirror", "note", "stop", "record", "uncap"}

ChangerPath ==
  \A t \in Changers :
    /\ at[t].pc \in ChangerPcs
    /\ at[t].pc \in {"count", "write"} => at[t].after = "rewrite"

(* The table's unique index *)
OneActive == \A i, j \in Active : i = j

(* As long as none overlapped, one cooldown operation is under way. *)
OneChanger ==
  ~raced => \A t, u \in Changers : Busy(t) /\ Busy(u) => t = u

(* What an operation has read of the rows, or written to them, stands. *)
Stands(t) ==
  /\ at[t].pc \in {"warm", "start", "lease", "insert", "uncap"} => Active = {}
  /\ at[t].pc \in {"chill", "stop", "shorten", "count", "write", "rewrite", "accelerate"}
       => at[t].id \in Active
  /\ at[t].pc = "record" =>
       /\ Active = {} /\ at[t].id \in DOMAIN rows
       /\ rows[at[t].id].ends = 0

OperationsStand == ~raced => \A t \in Changers : Stands(t)

(* The operation has changed the row and not yet the cap. *)
Between(t) ==
  at[t].pc \in {"shorten", "count", "write", "rewrite", "accelerate", "record", "uncap"}

CapFollows ==
  (~raced /\ Accelerated /\ up /\ at[Main].pc \notin {"boot", "restore"} /\ \A t \in Changers : ~Between(t))
    => capped = (Active # {})

OperationInv ==
  ChangerPath /\ OneActive /\ OneChanger /\ OperationsStand /\ CapFollows /\ EndsOnce

(* The count writes back a row that is active still.                       *)
LEMMA CountWritesNothing ==
  ASSUME TypeOK, MutexInv, NEW t \in Threads, CountWrite(t)
  PROVE  rows' = rows
<1>1. /\ at[t].read \in DOMAIN rows /\ rows[at[t].read].status = "active"
      /\ rows' = Update(at[t].read, "active")
  BY ThreadsAssumption DEF CountWrite, MutexInv, ReadRowsStand, Changers
<1>2. rows \in Seq(RowType) /\ rows[at[t].read] \in RowType
  BY <1>1 DEF TypeOK
<1>3. [rows[at[t].read] EXCEPT !.status = "active"] = rows[at[t].read]
  BY <1>1, <1>2 DEF RowType
<1>4. [rows EXCEPT ![at[t].read].status = "active"] = rows
  BY <1>1, <1>2, <1>3
<1> QED
  BY <1>1, <1>4 DEF Update

(* A thread moves on and leaves the rows and the cap alone.                *)
LEMMA QuietOperation ==
  ASSUME OperationInv, NEW t \in Threads, \A u \in Threads : u # t => at'[u] = at[u],
         UNCHANGED <<rows, capped, up, raced>>,
         t = Main => at[Main].pc \notin {"boot", "restore"},
         t \in Changers =>
           /\ Busy(t) /\ at'[t].pc \in ChangerPcs
           /\ at'[t].pc \in {"count", "write"} => at'[t].after = "rewrite"
           /\ ~raced => Stands(t)'
           /\ Between(t) => Between(t)'
  PROVE  OperationInv'
<1>0. Changers \subseteq Threads /\ Main \in Threads
  BY DEF Threads
<1>1. Active' = Active
  BY DEF Active
<1>2. ChangerPath' /\ OneActive' /\ EndsOnce'
  BY <1>0, <1>1 DEF OperationInv, ChangerPath, OneActive, EndsOnce
<1>3. OneChanger'
  BY <1>0 DEF OperationInv, OneChanger, Busy
<1>4. OperationsStand'
  <2> SUFFICES ASSUME ~raced, NEW u \in Changers PROVE Stands(u)'
    BY DEF OperationsStand
  <2>1. CASE u = t
    BY <2>1
  <2>2. CASE u # t
    <3>1. Stands(u) /\ at'[u] = at[u]
      BY <1>0, <2>2 DEF OperationInv, OperationsStand
    <3> QED
      BY <1>1, <3>1 DEF Stands
  <2> QED
    BY <2>1, <2>2
<1>5. CapFollows'
  <2> SUFFICES ASSUME ~raced, Accelerated, up, at'[Main].pc \notin {"boot", "restore"},
                      \A u \in Changers : ~Between(u)'
               PROVE  capped' = (Active' # {})
    BY DEF CapFollows
  <2>1. \A u \in Changers : ~Between(u)
    BY <1>0 DEF Between
  <2>2. at[Main].pc \notin {"boot", "restore"}
    BY <1>0
  <2> QED
    BY <1>1, <2>1, <2>2 DEF OperationInv, CapFollows
<1> QED
  BY <1>2, <1>3, <1>4, <1>5 DEF OperationInv

(* The calls of the lock manager, and the counts of the other operations   *)
LEMMA MethodOperation ==
  ASSUME TypeOK, MutexInv, OperationInv, NEW t \in Threads,
         (t \in Workers /\ Enter(t)) \/ MethodStep(t)
  PROVE  OperationInv'
<1> USE DEF process
<1>0. at \in [Threads -> AtType] /\ at[t] \in AtType
  BY DEF TypeOK
<1>1. \A u \in Threads : u # t => at'[u] = at[u]
  BY OthersStay DEF Step
<1>2. UNCHANGED <<rows, capped, up, raced>>
  BY CountWritesNothing
     DEF Enter, MethodStep, Request, Recorded, Released, TimedOut, CountRead, CountWrite
<1>3. CASE t \notin Changers
  <2>1. t = Main => at[Main].pc \notin {"boot", "restore"}
    BY ThreadsAssumption
       DEF Enter, MethodStep, Request, Recorded, Released, TimedOut, CountRead, CountWrite
  <2> QED
    BY <1>1, <1>2, <1>3, <2>1, QuietOperation
<1>4. CASE t \in Changers
  <2>1. t \notin Workers /\ t # Main
    BY <1>4, ThreadsAssumption DEF Changers
  <2>2. at[t].pc \in {"count", "write"} => at[t].after = "rewrite"
    BY <1>4 DEF OperationInv, ChangerPath
  <2>3. CountRead(t) \/ CountWrite(t)
    BY <1>4, <2>1
       DEF OperationInv, ChangerPath, ChangerPcs, MethodStep, Request, Recorded, Released, TimedOut
  <2>4. at[t].pc \in {"count", "write"} /\ at[t].after = "rewrite"
    BY <2>2, <2>3 DEF CountRead, CountWrite
  <2>5. /\ at'[t].pc \in {"write", "rewrite"} /\ at'[t].id = at[t].id
        /\ at'[t].pc = "write" => at'[t].after = "rewrite"
    <3>1. CASE EndCount(t)
      BY <1>0, <2>4, <3>1 DEF EndCount, AtType
    <3>2. ASSUME NEW i \in Active, at' = [at EXCEPT ![t].pc = "write", ![t].read = i]
          PROVE  <2>5
      BY <1>0, <2>4, <3>2 DEF AtType
    <3> QED
      BY <2>3, <3>1, <3>2 DEF CountRead, CountWrite
  <2>6. ~raced => Stands(t)'
    <3> SUFFICES ASSUME ~raced PROVE Stands(t)'
      OBVIOUS
    <3>1. at[t].id \in Active
      BY <1>4, <2>4 DEF OperationInv, OperationsStand, Stands
    <3> QED
      BY <1>2, <2>5, <3>1 DEF Stands, Active
  <2> QED
    BY <1>1, <1>2, <1>4, <2>1, <2>4, <2>5, <2>6, QuietOperation DEF Busy, ChangerPcs, Between
<1> QED
  BY <1>3, <1>4

(* An operation begins.                                                    *)
LEMMA BeginOperation ==
  ASSUME TypeOK, OperationInv, NEW t \in Changers, Serving, ~Busy(t),
         \A u \in Threads : u # t => at'[u] = at[u],
         at'[t].pc \in {"list", "start", "stop"},
         at'[t].pc = "start" => Active = {},
         at'[t].pc = "stop" => at'[t].id \in Active,
         raced' = (raced \/ \E u \in Changers : Busy(u)),
         UNCHANGED <<rows, capped, up>>
  PROVE  OperationInv'
<1>0. Changers \subseteq Threads /\ Main \in Threads /\ t # Main
  BY ThreadsAssumption DEF Threads, Changers
<1>1. Active' = Active
  BY DEF Active
<1>2. ~raced' => ~raced /\ \A u \in Changers : ~Busy(u)
  OBVIOUS
<1>3. ChangerPath' /\ OneActive' /\ EndsOnce'
  BY <1>0, <1>1, <1>2 DEF OperationInv, ChangerPath, ChangerPcs, OneActive, EndsOnce
<1>4. OneChanger'
  BY <1>0, <1>2 DEF OneChanger, Busy
<1>5. OperationsStand'
  <2> SUFFICES ASSUME ~raced', NEW u \in Changers PROVE Stands(u)'
    BY DEF OperationsStand
  <2>1. CASE u = t
    BY <1>1, <2>1 DEF Stands
  <2>2. CASE u # t
    <3>1. at'[u].pc = "idle"
      BY <1>0, <1>2, <2>2 DEF Busy
    <3> QED
      BY <3>1 DEF Stands
  <2> QED
    BY <2>1, <2>2
<1>6. CapFollows'
  <2> SUFFICES ASSUME ~raced', Accelerated, up PROVE capped' = (Active' # {})
    BY DEF CapFollows
  <2>1. at[Main].pc \notin {"boot", "restore"} /\ \A u \in Changers : ~Between(u)
    BY <1>2 DEF Serving, Busy, Between
  <2> QED
    BY <1>1, <1>2, <2>1 DEF OperationInv, CapFollows
<1> QED
  BY <1>3, <1>4, <1>5, <1>6 DEF OperationInv

LEMMA BeginsKeep ==
  ASSUME TypeOK, OperationInv,
         \/ CheckBegin
         \/ \E t \in Operators : ManualStart(t) \/ ManualStop(t)
  PROVE  OperationInv'
<1> USE PcNames DEF process
<1>0. at \in [Threads -> AtType] /\ Operators \cup {Checker} \subseteq Changers
      /\ Changers \subseteq Threads
  BY DEF TypeOK, Threads, Changers
<1>1. CASE CheckBegin
  <2>1. at'[Checker].pc = "list" /\ \A u \in Threads : u # Checker => at'[u] = at[u]
    BY <1>0, <1>1, GoToTyped DEF CheckBegin, Begin
  <2> QED
    BY <1>0, <1>1, <2>1, BeginOperation DEF CheckBegin, Begin
<1>2. ASSUME NEW t \in Operators, ManualStart(t) PROVE OperationInv'
  <2>1. at'[t].pc = "start" /\ \A u \in Threads : u # t => at'[u] = at[u]
    BY <1>0, <1>2, GoToTyped DEF ManualStart, Begin
  <2> QED
    BY <1>0, <1>2, <2>1, BeginOperation DEF ManualStart, Begin
<1>3. ASSUME NEW t \in Operators, ManualStop(t) PROVE OperationInv'
  <2>1. PICK i \in Active : at' = [at EXCEPT ![t].pc = "stop", ![t].id = i]
    BY <1>3 DEF ManualStop
  <2>2. /\ at'[t].pc = "stop" /\ at'[t].id \in Active
        /\ \A u \in Threads : u # t => at'[u] = at[u]
    BY <1>0, <2>1 DEF AtType
  <2> QED
    BY <1>0, <1>3, <2>2, BeginOperation DEF ManualStop
<1> QED
  BY <1>1, <1>2, <1>3

(* The checker's steps, before it starts or stops a cooldown               *)
LEMMA CheckOperation ==
  ASSUME TypeOK, OperationInv, CheckStep
  PROVE  OperationInv'
<1> USE PcNames DEF process
<1>0. at \in [Threads -> AtType] /\ Checker \in Changers /\ Checker \in Threads
      /\ Checker # Main
  BY ThreadsAssumption DEF TypeOK, Threads, Changers
<1>1. UNCHANGED <<rows, capped, up, raced>>
  BY DEF CheckStep, CheckList, CheckActive, CheckInactive
<1>2. Active' = Active
  BY <1>1 DEF Active
<1>3. at[Checker].pc \in {"list", "chill", "warm"}
  BY DEF CheckStep, CheckList, CheckActive, CheckInactive
<1>4. /\ \A u \in Threads : u # Checker => at'[u] = at[u]
      /\ at'[Checker].pc \in {"idle", "warm", "chill", "start", "stop"}
      /\ ~raced => Stands(Checker)'
  <2>1. CASE CheckList
    <3>1. CASE Active = {} /\ GoTo(Checker, "warm")
      <4>1. at'[Checker].pc = "warm" /\ \A u \in Threads : u # Checker => at'[u] = at[u]
        BY <1>0, <3>1, GoToTyped
      <4> QED
        BY <1>2, <3>1, <4>1 DEF Stands
    <3>2. ASSUME NEW i \in Active, at' = [at EXCEPT ![Checker].pc = "chill", ![Checker].id = i]
          PROVE  <1>4
      <4>1. at'[Checker].pc = "chill" /\ at'[Checker].id = i
            /\ \A u \in Threads : u # Checker => at'[u] = at[u]
        BY <1>0, <3>2 DEF AtType
      <4> QED
        BY <1>2, <4>1 DEF Stands
    <3> QED
      BY <2>1, <3>1, <3>2 DEF CheckList
  <2>2. CASE CheckActive
    <3>1. CASE Return(Checker)
      BY <1>0, <3>1, ReturnTyped DEF Stands
    <3>2. CASE GoTo(Checker, "stop")
      <4>1. at'[Checker].pc = "stop" /\ at'[Checker].id = at[Checker].id
            /\ \A u \in Threads : u # Checker => at'[u] = at[u]
        BY <1>0, <3>2 DEF GoTo, AtType
      <4>2. ~raced => at[Checker].id \in Active
        BY <1>0, <2>2 DEF CheckActive, OperationInv, OperationsStand, Stands
      <4> QED
        BY <1>2, <4>1, <4>2 DEF Stands
    <3> QED
      BY <2>2, <3>1, <3>2 DEF CheckActive
  <2>3. CASE CheckInactive
    <3>1. CASE Return(Checker)
      BY <1>0, <3>1, ReturnTyped DEF Stands
    <3>2. CASE at' = [at EXCEPT ![Checker].pc = "start", ![Checker].auto = TRUE]
      <4>1. at'[Checker].pc = "start"
            /\ \A u \in Threads : u # Checker => at'[u] = at[u]
        BY <1>0, <3>2 DEF AtType
      <4>2. ~raced => Active = {}
        BY <1>0, <2>3 DEF CheckInactive, OperationInv, OperationsStand, Stands
      <4> QED
        BY <1>2, <4>1, <4>2 DEF Stands
    <3> QED
      BY <2>3, <3>1, <3>2 DEF CheckInactive
  <2> QED
    BY <2>1, <2>2, <2>3 DEF CheckStep
<1> QED
  BY <1>0, <1>1, <1>3, <1>4, QuietOperation DEF Busy, ChangerPcs, Between

(* The operation under way writes a row or the cap.                        *)
LEMMA SoleOperation ==
  ASSUME OperationInv, NEW t \in Changers, Busy(t), \A u \in Threads : u # t => at'[u] = at[u],
         UNCHANGED <<up, raced>>,
         at'[t].pc \in ChangerPcs \ {"count", "write"}, OneActive', EndsOnce',
         ~raced => Stands(t)',
         ~raced /\ Accelerated /\ up /\ at[Main].pc \notin {"boot", "restore"} /\ ~Between(t)'
           => capped' = (Active' # {})
  PROVE  OperationInv'
<1>0. Changers \subseteq Threads /\ Main \in Threads /\ t # Main
  BY ThreadsAssumption DEF Threads, Changers
<1>1. ChangerPath'
  BY <1>0 DEF OperationInv, ChangerPath
<1>2. OneChanger'
  BY <1>0 DEF OperationInv, OneChanger, Busy
<1>3. OperationsStand'
  <2> SUFFICES ASSUME ~raced, NEW u \in Changers, u # t PROVE Stands(u)'
    BY DEF OperationsStand
  <2>1. at'[u].pc = "idle"
    BY <1>0 DEF OperationInv, OneChanger, Busy
  <2> QED
    BY <2>1 DEF Stands
<1>4. CapFollows'
  BY <1>0 DEF CapFollows
<1> QED
  BY <1>1, <1>2, <1>3, <1>4 DEF OperationInv

(* The unique index: an UPDATE makes no second row active.                 *)
LEMMA UpdatedOne ==
  ASSUME TypeOK, OneActive, NEW i, NEW status \in {"active", "resolved"},
         rows' = Update(i, status)
  PROVE  /\ OneActive'
         /\ DOMAIN rows' = DOMAIN rows
         /\ \A j \in DOMAIN rows : rows'[j].ends = rows[j].ends
         /\ \A j \in DOMAIN rows : j # i => rows'[j] = rows[j]
         /\ i \in DOMAIN rows /\ status = "resolved" => rows'[i].status = "resolved"
<1>0. rows \in Seq(RowType)
  BY DEF TypeOK
<1>1. CASE status = "active" /\ Active \ {i} # {}
  <2>1. rows' = rows
    BY <1>1 DEF Update
  <2>2. Active' = Active
    BY <2>1 DEF Active
  <2> QED
    BY <1>1, <2>1, <2>2 DEF OneActive
<1>2. CASE i \notin DOMAIN rows
  <2>1. rows' = rows
    BY <1>0, <1>2 DEF Update
  <2>2. Active' = Active
    BY <2>1 DEF Active
  <2> QED
    BY <1>2, <2>1, <2>2 DEF OneActive
<1>3. CASE i \in DOMAIN rows /\ (status = "resolved" \/ Active \ {i} = {})
  <2> DEFINE r == [rows[i] EXCEPT !.status = status]
  <2>0. rows[i] \in RowType
    BY <1>0, <1>3
  <2>1. r \in RowType /\ r.status = status /\ r.ends = rows[i].ends
    BY <2>0 DEF RowType
  <2>2. rows' = [rows EXCEPT ![i] = r]
    BY <1>3 DEF Update
  <2>3. /\ DOMAIN rows' = DOMAIN rows
        /\ \A j \in DOMAIN rows : rows'[j] = IF j = i THEN r ELSE rows[j]
    BY <1>0, <2>1, <2>2, RowWritten
  <2>4. Active' \subseteq Active \/ Active' \subseteq {i}
    BY <1>3, <2>1, <2>3 DEF Active
  <2> QED
    BY <1>3, <2>1, <2>3, <2>4 DEF OneActive
<1> QED
  BY <1>1, <1>2, <1>3

(* The start of a cooldown                                                 *)
LEMMA StartOperation ==
  ASSUME TypeOK, OperationInv, NEW t \in Changers, StartStep(t)
  PROVE  OperationInv'
<1> USE PcNames DEF process
<1>0. /\ at \in [Threads -> AtType] /\ at[t] \in AtType /\ t \in Threads /\ t # Main
      /\ rows \in Seq(RowType)
  BY ThreadsAssumption DEF TypeOK, Threads, Changers
<1>1. ~raced => Stands(t)
  BY DEF OperationInv, OperationsStand
<1>2. CASE StartHeat(t) \/ StartMirror(t) \/ Note(t) \/ StartLease(t)
  <2>1. /\ at[t].pc \in {"start", "mirror", "note", "lease"}
        /\ UNCHANGED <<rows, capped, up, raced>>
    BY <1>2 DEF StartHeat, StartMirror, Note, StartLease
  <2>2. Active' = Active
    BY <2>1 DEF Active
  <2>3. /\ \A u \in Threads : u # t => at'[u] = at[u]
        /\ at'[t].pc \in {"lease", "note", "idle", "insert"}
        /\ at'[t].pc \in {"lease", "insert"} => at[t].pc \in {"start", "lease"}
    <3>1. CASE StartHeat(t)
      BY <1>0, <3>1, GoToTyped DEF StartHeat
    <3>2. CASE StartMirror(t) \/ Note(t)
      BY <1>0, <3>2, ReturnTyped DEF StartMirror, Note
    <3>3. CASE StartLease(t)
      BY <1>0, <3>3 DEF StartLease, AtType
    <3> QED
      BY <1>2, <3>1, <3>2, <3>3
  <2>4. ~raced => Stands(t)'
    BY <1>1, <2>2, <2>3 DEF Stands
  <2> QED
    BY <1>0, <2>1, <2>3, <2>4, QuietOperation DEF Busy, ChangerPcs, Between
<1>3. CASE StartInsert(t)
  <2>1. at[t].pc = "insert" /\ UNCHANGED <<capped, up, raced>>
    BY <1>3 DEF StartInsert
  <2>2. CASE Active # {} /\ Return(t) /\ UNCHANGED rows
    <3>1. at'[t].pc = "idle" /\ \A u \in Threads : u # t => at'[u] = at[u]
      BY <1>0, <2>2, ReturnTyped
    <3>2. ~raced => Stands(t)'
      BY <3>1 DEF Stands
    <3> QED
      BY <1>0, <2>1, <2>2, <3>1, <3>2, QuietOperation DEF Busy, ChangerPcs, Between
  <2>3. ASSUME Active = {}, rows' = Append(rows, [status |-> "active", ends |-> 0]),
               at' = [at EXCEPT ![t].id = Len(rows) + 1, ![t].held = FALSE,
                                ![t].pc = IF at[t].held THEN "shorten" ELSE "accelerate"]
        PROVE  OperationInv'
    <3>1. /\ at'[t].pc \in {"shorten", "accelerate"} /\ at'[t].id = Len(rows) + 1
          /\ \A u \in Threads : u # t => at'[u] = at[u]
      BY <1>0, <2>3 DEF AtType
    <3>2. /\ DOMAIN rows' = 1..(Len(rows) + 1) /\ DOMAIN rows = 1..Len(rows)
          /\ rows'[Len(rows) + 1] = [status |-> "active", ends |-> 0]
          /\ \A i \in DOMAIN rows : rows'[i] = rows[i]
      BY <1>0, <2>3
    <3>3. Active' = {Len(rows) + 1}
      BY <1>0, <2>3, <3>2 DEF Active
    <3>4. OneActive' /\ (~raced => Stands(t)')
      BY <3>1, <3>3 DEF OneActive, Stands
    <3>5. EndsOnce'
      BY <1>0, <2>1, <3>2 DEF OperationInv, EndsOnce
    <3>6. Between(t)'
      BY <3>1 DEF Between
    <3> QED
      BY <2>1, <3>1, <3>4, <3>5, <3>6, SoleOperation DEF Busy, ChangerPcs
  <2> QED
    BY <1>3, <2>2, <2>3 DEF StartInsert
<1>4. CASE StartShorten(t)
  <2>1. at[t].pc = "shorten" /\ UNCHANGED <<rows, capped, up, raced>>
    BY <1>4 DEF StartShorten
  <2>2. /\ \A u \in Threads : u # t => at'[u] = at[u]
        /\ at'[t].pc \in {"accelerate", "count"} /\ at'[t].id = at[t].id
        /\ at'[t].pc = "count" => at'[t].after = "rewrite"
    <3>1. CASE GoTo(t, "accelerate")
      BY <1>0, <3>1 DEF GoTo, AtType
    <3>2. CASE at' = [at EXCEPT ![t].pc = "count", ![t].after = "rewrite"]
      BY <1>0, <3>2 DEF AtType
    <3> QED
      BY <1>4, <3>1, <3>2 DEF StartShorten
  <2>3. ~raced => Stands(t)'
    BY <1>1, <2>1, <2>2 DEF Stands, Active
  <2> QED
    BY <1>0, <2>1, <2>2, <2>3, QuietOperation DEF Busy, ChangerPcs, Between
<1>5. CASE StartRewrite(t)
  <2>1. /\ at[t].pc = "rewrite" /\ rows' = Update(at[t].id, "active")
        /\ UNCHANGED <<capped, up, raced>>
    BY <1>5 DEF StartRewrite
  <2>2. /\ \A u \in Threads : u # t => at'[u] = at[u]
        /\ at'[t].pc = "accelerate" /\ at'[t].id = at[t].id
    BY <1>0, <1>5 DEF StartRewrite, GoTo, AtType
  <2>3. /\ OneActive' /\ DOMAIN rows' = DOMAIN rows
        /\ \A j \in DOMAIN rows : rows[j].status = "active" => rows'[j].status = "active"
        /\ \A j \in DOMAIN rows : rows'[j].ends = rows[j].ends
        /\ \A j \in DOMAIN rows : j # at[t].id => rows'[j] = rows[j]
    BY <2>1, UpdatedOne, Updated DEF OperationInv
  <2>4. ~raced => at[t].id \in Active
    BY <1>1, <2>1 DEF Stands
  <2>5. ~raced => Stands(t)'
    BY <2>2, <2>3, <2>4 DEF Stands, Active
  <2>6. EndsOnce'
    BY <2>1, <2>3, <2>4 DEF OperationInv, EndsOnce, Active
  <2>7. Between(t)'
    BY <2>2 DEF Between
  <2> QED
    BY <2>1, <2>2, <2>3, <2>5, <2>6, <2>7, SoleOperation DEF Busy, ChangerPcs
<1>6. CASE StartAccelerate(t)
  <2>1. at[t].pc = "accelerate" /\ UNCHANGED <<rows, up, raced>>
    BY <1>6 DEF StartAccelerate
  <2>2. /\ \A u \in Threads : u # t => at'[u] = at[u]
        /\ at'[t].pc \in {"note", "mirror"}
    <3>1. CASE NoteLast(t)
      <4>1. [Idle EXCEPT !.pc = "note"].pc = "note"
        BY DEF Idle
      <4> QED
        BY <1>0, <3>1, <4>1 DEF NoteLast
    <3>2. CASE at' = [at EXCEPT ![t] = [Idle EXCEPT !.pc = "mirror"]]
      BY <1>0, <3>2 DEF Idle
    <3> QED
      BY <1>6, <3>1, <3>2 DEF StartAccelerate
  <2>3. Active' = Active /\ OneActive' /\ EndsOnce'
    BY <2>1 DEF OperationInv, Active, OneActive, EndsOnce
  <2>4. ~raced => Active # {}
    BY <1>1, <2>1 DEF Stands
  <2>5. ~raced => Stands(t)'
    BY <2>2 DEF Stands
  <2>6. Accelerated => capped' = TRUE
    BY <1>6 DEF StartAccelerate
  <2> QED
    BY <2>1, <2>2, <2>3, <2>4, <2>5, <2>6, SoleOperation DEF Busy, ChangerPcs
<1> QED
  BY <1>2, <1>3, <1>4, <1>5, <1>6 DEF StartStep

(* The stop of a cooldown                                                  *)
LEMMA StopOperation ==
  ASSUME TypeOK, OperationInv, NEW t \in Changers, StopStep(t)
  PROVE  OperationInv'
<1> USE PcNames DEF process
<1>0. /\ at \in [Threads -> AtType] /\ at[t] \in AtType /\ t \in Threads
      /\ rows \in Seq(RowType)
  BY DEF TypeOK, Threads
<1>1. ~raced => Stands(t)
  BY DEF OperationInv, OperationsStand
<1>2. CASE StopResolve(t)
  <2>1. /\ at[t].pc = "stop" /\ rows' = Update(at[t].id, "resolved")
        /\ UNCHANGED <<capped, up, raced>>
    BY <1>2 DEF StopResolve
  <2>2. /\ \A u \in Threads : u # t => at'[u] = at[u]
        /\ at'[t].pc = "record" /\ at'[t].id = at[t].id
    BY <1>0, <1>2 DEF StopResolve, GoTo, AtType
  <2>3. /\ OneActive' /\ DOMAIN rows' = DOMAIN rows
        /\ \A j \in DOMAIN rows : rows'[j].ends = rows[j].ends
        /\ \A j \in DOMAIN rows : j # at[t].id => rows'[j] = rows[j]
        /\ at[t].id \in DOMAIN rows => rows'[at[t].id].status = "resolved"
    BY <2>1, UpdatedOne DEF OperationInv
  <2>4. ~raced => at[t].id \in Active /\ \A j \in Active : j = at[t].id
    BY <1>1, <2>1 DEF Stands, OperationInv, OneActive
  <2>5. ~raced => Active' = {}
    <3> SUFFICES ASSUME ~raced, NEW j \in DOMAIN rows, rows'[j].status = "active" PROVE FALSE
      BY <2>3 DEF Active
    <3>1. j # at[t].id
      BY <2>3
    <3>2. rows'[j] = rows[j]
      BY <2>3, <3>1
    <3>3. j \in Active
      BY <3>2 DEF Active
    <3> QED
      BY <2>4, <3>1, <3>3
  <2>6. \A j \in DOMAIN rows : rows[j].ends \in Nat
    <3>1. \A j \in DOMAIN rows : rows[j] \in RowType
      BY <1>0
    <3> QED
      BY <3>1 DEF RowType
  <2>7. ~raced => rows[at[t].id].ends = 0
    BY <2>4, <2>6 DEF OperationInv, EndsOnce, Active
  <2>8. ~raced => Stands(t)'
    BY <2>2, <2>3, <2>4, <2>5, <2>7 DEF Stands, Active
  <2>9. EndsOnce'
    BY <2>1, <2>3, <2>6 DEF OperationInv, EndsOnce
  <2>10. Between(t)'
    BY <2>2 DEF Between
  <2> QED
    BY <2>1, <2>2, <2>3, <2>8, <2>9, <2>10, SoleOperation DEF Busy, ChangerPcs
<1>3. CASE StopRecord(t)
  <2>1. /\ at[t].pc = "record" /\ rows' = [rows EXCEPT ![at[t].id].ends = @ + 1]
        /\ UNCHANGED <<capped, up, raced>>
    BY <1>3 DEF StopRecord
  <2>2. /\ \A u \in Threads : u # t => at'[u] = at[u]
        /\ at'[t].pc = "uncap" /\ at'[t].id = at[t].id
    BY <1>0, <1>3 DEF StopRecord, GoTo, AtType
  <2>3. /\ DOMAIN rows' = DOMAIN rows
        /\ \A j \in DOMAIN rows : rows'[j].status = rows[j].status
    BY <2>1, Ended
  <2>4. Active' = Active
    BY <2>3 DEF Active
  <2>5. ~raced => /\ Active = {} /\ at[t].id \in DOMAIN rows /\ rows[at[t].id].ends = 0
    BY <1>1, <2>1 DEF Stands
  <2>6. ~raced => Stands(t)'
    BY <2>2, <2>4, <2>5 DEF Stands
  <2>7. EndsOnce'
    <3> SUFFICES ASSUME ~raced, NEW i \in DOMAIN rows
                 PROVE  rows'[i].ends <= IF rows[i].status = "active" THEN 0 ELSE 1
      BY <2>1, <2>3 DEF EndsOnce
    <3>1. CASE i = at[t].id
      <4>1. rows[i] \in RowType /\ rows[i].ends = 0 /\ rows[i].status # "active"
        BY <1>0, <2>5, <3>1 DEF Active
      <4>2. rows'[i] = [rows[i] EXCEPT !.ends = 1]
        BY <1>0, <2>1, <3>1, <4>1
      <4> QED
        BY <4>1, <4>2 DEF RowType
    <3>2. CASE i # at[t].id
      <4>1. rows'[i] = rows[i]
        BY <1>0, <2>1, <3>2
      <4> QED
        BY <4>1 DEF OperationInv, EndsOnce
    <3> QED
      BY <3>1, <3>2
  <2>8. OneActive' /\ Between(t)'
    BY <2>2, <2>4 DEF OperationInv, OneActive, Between
  <2> QED
    BY <2>1, <2>2, <2>6, <2>7, <2>8, SoleOperation DEF Busy, ChangerPcs
<1>4. CASE StopUncap(t)
  <2>1. /\ at[t].pc = "uncap" /\ capped' = FALSE
        /\ UNCHANGED <<rows, up, raced>>
    BY <1>4 DEF StopUncap
  <2>2. at'[t].pc = "note" /\ \A u \in Threads : u # t => at'[u] = at[u]
    <3>1. [Idle EXCEPT !.pc = "note"].pc = "note"
      BY DEF Idle
    <3> QED
      BY <1>0, <1>4, <3>1 DEF StopUncap, NoteLast
  <2>3. Active' = Active /\ OneActive' /\ EndsOnce'
    BY <2>1 DEF OperationInv, Active, OneActive, EndsOnce
  <2>4. ~raced => Active = {}
    BY <1>1, <2>1 DEF Stands
  <2>5. ~raced => Stands(t)'
    BY <2>2 DEF Stands
  <2> QED
    BY <2>1, <2>2, <2>3, <2>4, <2>5, SoleOperation DEF Busy, ChangerPcs
<1> QED
  BY <1>2, <1>3, <1>4 DEF StopStep

(* A crash, the restart, and the steps of nobody                           *)
LEMMA ProcessOperation ==
  ASSUME TypeOK, MutexInv, OperationInv,
         Crash \/ Boot \/ MainStep \/ Elapse \/ Renew \/ UNCHANGED vars
  PROVE  OperationInv'
<1> USE PcNames DEF process
<1>0. /\ at \in [Threads -> AtType] /\ Main \in Threads /\ Main \notin Changers
      /\ Changers \subseteq Threads
  BY ThreadsAssumption DEF TypeOK, Threads, Changers
<1>1. CASE Elapse \/ Renew \/ UNCHANGED vars
  BY <1>1 DEF Elapse, Renew, vars, OperationInv, ChangerPath, OneActive, OneChanger, Busy,
              OperationsStand, Stands, Active, CapFollows, Between, EndsOnce
<1>2. CASE Crash
  <2>1. /\ \A t \in Threads : at'[t].pc = "idle"
        /\ ~up' /\ UNCHANGED <<rows, raced>>
    BY <1>2 DEF Crash, Idle
  <2>2. OneActive' /\ EndsOnce'
    BY <2>1 DEF OperationInv, OneActive, EndsOnce, Active
  <2> QED
    BY <1>0, <2>1, <2>2 DEF OperationInv, ChangerPath, ChangerPcs, OneChanger, Busy,
                            OperationsStand, Stands, CapFollows
<1>3. CASE Boot \/ Start
  <2>1. /\ \A t \in Threads : t # Main => at'[t] = at[t]
        /\ at'[Main].pc \in {"boot", "restore"} /\ UNCHANGED <<rows, raced>>
    BY <1>0, <1>3, GoToTyped DEF Boot, Start
  <2>2. \A t \in Changers : at'[t] = at[t]
    BY <1>0, <2>1
  <2> QED
    BY <2>1, <2>2 DEF OperationInv, ChangerPath, OneActive, OneChanger, Busy,
                      OperationsStand, Stands, Active, CapFollows, EndsOnce
<1>4. CASE Restore
  <2>1. /\ \A t \in Threads : t # Main => at'[t] = at[t]
        /\ UNCHANGED <<rows, raced>> /\ capped' = (Active # {})
    <3>1. \E pc \in {"started", "peek"} : GoTo(Main, pc)
      BY <1>4 DEF Restore
    <3> QED
      BY <1>0, <1>4, <3>1, GoToTyped DEF Restore
  <2>2. \A t \in Changers : at'[t] = at[t]
    BY <1>0, <2>1
  <2> QED
    BY <2>1, <2>2 DEF OperationInv, ChangerPath, OneActive, OneChanger, Busy,
                      OperationsStand, Stands, Active, CapFollows, EndsOnce
<1>5. CASE RestorePeek \/ RestoreShorten \/ RestoreEnd
  <2>1. /\ at[Main].pc \notin {"boot", "restore"} /\ UNCHANGED <<rows, capped, up, raced>>
        /\ \A t \in Threads : t # Main => at'[t] = at[t]
    BY <1>0, <1>5 DEF RestorePeek, RestoreShorten, RestoreEnd, GoTo, Return
  <2> QED
    BY <1>0, <2>1, QuietOperation
<1> QED
  BY <1>1, <1>2, <1>3, <1>4, <1>5 DEF MainStep

LEMMA OperationStep == TypeOK /\ MutexInv /\ OperationInv /\ [Next]_vars => OperationInv'
<1> SUFFICES ASSUME TypeOK, MutexInv, OperationInv, [Next]_vars PROVE OperationInv'
  OBVIOUS
<1>1. ASSUME NEW t \in Threads, Step(t) PROVE OperationInv'
  BY <1>1, MethodOperation, StartOperation, StopOperation, CheckOperation, ProcessOperation
     DEF Step
<1>2. ASSUME NEW t \in Workers, Enter(t) PROVE OperationInv'
  BY <1>2, MethodOperation DEF Threads
<1> QED
  BY <1>1, <1>2, BeginsKeep, ProcessOperation DEF Next

LEMMA OperationInit == Init => OperationInv
<1> SUFFICES ASSUME Init PROVE OperationInv
  OBVIOUS
<1>1. /\ \A t \in Threads : at[t].pc = "idle"
      /\ Active = {} /\ DOMAIN rows = {} /\ Changers \subseteq Threads
  BY DEF Init, Idle, Active, Threads
<1>2. CapFollows
  BY <1>1 DEF Init, CapFollows
<1>3. ChangerPath /\ OneChanger /\ OperationsStand
  BY <1>1 DEF ChangerPath, ChangerPcs, OneChanger, Busy, OperationsStand, Stands
<1>4. OneActive /\ EndsOnce
  BY <1>1 DEF OneActive, EndsOnce
<1> QED
  BY <1>2, <1>3, <1>4 DEF OperationInv

(* As long as no two cooldown operations overlapped, the grants are capped *)
(* exactly while a cooldown is active, and a cooldown ends at most once:   *)
(* whatever is acquired, released and renewed meanwhile, whichever calls   *)
(* fail, and across crashes and restores.                                  *)
THEOREM CapFollowsCooldown == Spec => []CooldownConsistent
<1>1. TypeOK /\ OperationInv => CooldownConsistent
  <2> SUFFICES ASSUME TypeOK, OperationInv, Accelerated, Serving, ~raced,
                      \A t \in Changers : ~Busy(t)
               PROVE  capped = (Active # {})
    BY DEF CooldownConsistent, CapMatchesCooldown, OperationInv
  <2> QED
    BY DEF OperationInv, CapFollows, Serving, Busy, Between
<1> QED
  BY <1>1, TypeCorrect, MutexesOwned, OperationInit, OperationStep, PTL DEF Spec
=============================================================================
