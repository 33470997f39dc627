--------------------------- MODULE ManagersProofs ---------------------------
(***************************************************************************)
(* Of the managers that keep their own tables, for any callers, any bounds *)
(* and any methods under way: that the history of a breaker tells whether  *)
(* it is open; that a plan is applied whole or not at all, whatever its    *)
(* overrides; that nobody is frozen on fewer or closer alerts than the     *)
(* freeze counts; that a handover is carried out wholly or not at all,     *)
(* whatever its resources; that a debt to a caller counts as collected     *)
(* only once it is paid; that no resource is frozen of a caller that is    *)
(* not, and no group degraded without a cause.                             *)
(***************************************************************************)
EXTENDS Audit, Shadow, RateAlert, Handover, Debt, Heartbeat, CommonLemmas

-----------------------------------------------------------------------------
(* Breakers *)

(* The types the argument needs; rules and failures do not matter to it.   *)
BreakerTypes ==
  /\ breakers \in [BreakerCallers -> {"closed", "open", "due"}]
  /\ breakerRows \in [BreakerCallers -> {"closed", "open", "due"}]
  /\ openHistory \in [BreakerCallers -> Nat]
  /\ breakerCalls \in [BreakerCalls -> BreakerCall \cup {BreakerNone}]
  /\ breakerJob \in BreakerJob \cup {BreakerNone}

Writing(c) == breakerJob # BreakerNone /\ breakerJob.caller = c

(* The row of a breaker follows memory, except while it is being written.  *)
RowsFollow == \A c \in BreakerCallers : ~Writing(c) => breakerRows[c] = breakers[c]

(* The row of the history that a change of c still has to write            *)
Owed(c) == Writing(c) /\ breakerJob.do \in {"recover", "trip"}

(* The history tells which breakers are open; while a row is owed it tells *)
(* which were.                                                             *)
HistoryFollows ==
  \A c \in BreakerCallers \ breakerTorn :
    /\ ~Owed(c) => openHistory[c] = IF IsOpen(c) THEN 1 ELSE 0
    /\ Owed(c) => /\ breakerJob.do = "recover" => ~IsOpen(c) /\ openHistory[c] = 1
                  /\ breakerJob.do = "trip" => IsOpen(c) /\ openHistory[c] = 0

BreakerInv == BreakerTypes /\ RowsFollow /\ HistoryFollows

(* A breaker is closed: by the tick, by hand, by a call that finds it due. *)
LEMMA RecoverKeepsInv ==
  ASSUME BreakerInv, NEW c \in BreakerCallers, BreakerFree, IsOpen(c), Recover(c),
         UNCHANGED <<breakerRows, openHistory, breakerTorn>>,
         breakerCalls' \in [BreakerCalls -> BreakerCall \cup {BreakerNone}]
  PROVE  BreakerInv'
<1> USE BreakerNoneAssumption
<1>1. breakerJob' = [do |-> "recover", caller |-> c] /\ breakerJob' \in BreakerJob
  BY DEF Recover, BreakerJob
<1>2. breakerJob' # BreakerNone /\ breakerJob'.caller = c /\ breakerJob'.do = "recover"
  BY <1>1
<1>3. BreakerTypes'
  BY <1>1 DEF BreakerInv, BreakerTypes, Recover
<1>4. RowsFollow'
  BY <1>2 DEF BreakerInv, BreakerTypes, RowsFollow, Writing, BreakerFree, Recover
<1>5. HistoryFollows'
  BY <1>2 DEF BreakerInv, BreakerTypes, HistoryFollows, Owed, Writing, BreakerFree, IsOpen, Recover
<1> QED
  BY <1>3, <1>4, <1>5 DEF BreakerInv

(* Whatever leaves the breakers, their rows, history and writer alone      *)
LEMMA OthersKeepInv ==
  ASSUME BreakerInv,
         UNCHANGED <<breakers, breakerRows, openHistory, breakerJob, breakerTorn>>,
         breakerCalls' \in [BreakerCalls -> BreakerCall \cup {BreakerNone}]
  PROVE  BreakerInv'
BY DEF BreakerInv, BreakerTypes, RowsFollow, HistoryFollows, Writing, Owed, IsOpen

LEMMA WriteHistoryKeepsInv ==
  ASSUME BreakerInv, WriteHistory
  PROVE  BreakerInv'
<1> USE BreakerNoneAssumption
<1> DEFINE c == breakerJob.caller
<1>1. /\ breakerJob \in BreakerJob /\ breakerJob # BreakerNone /\ c \in BreakerCallers
      /\ breakerJob.do \in {"recover", "trip"}
  BY DEF WriteHistory, BreakerInv, BreakerTypes, BreakerJob
<1>2. /\ breakerJob' = [breakerJob EXCEPT !.do = "upsert"]
      /\ UNCHANGED <<breakerRows, breakers, breakerCalls, breakerTorn>>
      /\ openHistory' = [openHistory EXCEPT
           ![c] = IF breakerJob.do = "trip" THEN @ + 1 ELSE UpdateHistoryRecover(c)]
  BY DEF WriteHistory, breakerHistory
<1>3. breakerJob' \in BreakerJob /\ breakerJob'.do = "upsert" /\ breakerJob'.caller = c
  BY <1>1, <1>2 DEF BreakerJob
<1>4. breakerJob' # BreakerNone
  BY <1>3
<1>5. openHistory[c] \in Nat
  BY <1>1 DEF BreakerInv, BreakerTypes
<1>6. BreakerTypes'
  BY <1>1, <1>2, <1>3, <1>5 DEF BreakerInv, BreakerTypes, UpdateHistoryRecover
<1>7. RowsFollow'
  BY <1>1, <1>2, <1>3, <1>4 DEF BreakerInv, RowsFollow, Writing
<1>8. HistoryFollows'
  BY <1>1, <1>2, <1>3, <1>4, <1>5
     DEF BreakerInv, BreakerTypes, HistoryFollows, Owed, Writing, IsOpen, UpdateHistoryRecover
<1> QED
  BY <1>6, <1>7, <1>8 DEF BreakerInv

LEMMA UpsertKeepsInv ==
  ASSUME BreakerInv, UpsertCircuitBreakerStatus
  PROVE  BreakerInv'
<1>1. breakerJob \in BreakerJob /\ breakerJob # BreakerNone /\ breakerJob.do = "upsert"
  BY DEF UpsertCircuitBreakerStatus, BreakerInv, BreakerTypes
<1>2. breakerJob' = BreakerNone
  BY DEF UpsertCircuitBreakerStatus
<1> QED
  BY <1>1, <1>2
     DEF UpsertCircuitBreakerStatus, breakerHistory, BreakerInv, BreakerTypes, RowsFollow,
         HistoryFollows, Owed, Writing, IsOpen, BreakerJob

(* A breaker opens only when it is closed, so nothing in its history is    *)
(* left open; otherwise its row is written once more.                      *)
LEMMA TriggerKeepsInv ==
  ASSUME BreakerInv, NEW g \in BreakerCalls, CheckAndTriggerCircuitBreaker(g)
  PROVE  BreakerInv'
<1> USE BreakerNoneAssumption
<1> DEFINE c == breakerCalls[g].caller
<1>1. c \in BreakerCallers /\ breakerJob = BreakerNone
  BY DEF CheckAndTriggerCircuitBreaker, BreakerInv, BreakerTypes, BreakerCall, BreakerFree
<1>2. /\ breakerCalls' \in [BreakerCalls -> BreakerCall \cup {BreakerNone}]
      /\ UNCHANGED <<breakerRows, openHistory, breakerTorn>>
  BY DEF CheckAndTriggerCircuitBreaker, BreakerInv, BreakerTypes, breakerTables, breakerHistory
<1>3. CASE Trips(c)
  <2>1. /\ breakers' = [breakers EXCEPT ![c] = "open"]
        /\ breakerJob' = [do |-> "trip", caller |-> c] /\ breakerJob' \in BreakerJob
    BY <1>1, <1>3 DEF CheckAndTriggerCircuitBreaker, BreakerJob
  <2>2. breakerJob' # BreakerNone /\ breakerJob'.caller = c /\ breakerJob'.do = "trip"
    BY <2>1
  <2>3. BreakerTypes'
    BY <1>2, <2>1 DEF BreakerInv, BreakerTypes
  <2>4. RowsFollow'
    BY <1>1, <1>2, <2>1, <2>2 DEF BreakerInv, BreakerTypes, RowsFollow, Writing
  <2>5. HistoryFollows'
    BY <1>1, <1>2, <1>3, <2>1, <2>2
       DEF BreakerInv, BreakerTypes, HistoryFollows, Owed, Writing, IsOpen, Trips
  <2> QED
    BY <2>3, <2>4, <2>5 DEF BreakerInv
<1>4. CASE ~Trips(c)
  <2>1. /\ breakers' = breakers
        /\ \/ breakerJob' = BreakerNone
           \/ breakerJob' = [do |-> "upsert", caller |-> c] /\ breakerJob' \in BreakerJob
    BY <1>1, <1>4 DEF CheckAndTriggerCircuitBreaker, BreakerJob
  <2>2. ~Owed(c)'
    BY <2>1 DEF Owed, Writing
  <2> QED
    BY <1>1, <1>2, <2>1, <2>2
       DEF BreakerInv, BreakerTypes, RowsFollow, HistoryFollows, Owed, Writing, IsOpen
<1> QED
  BY <1>3, <1>4

LEMMA CooldownPassesKeepsInv ==
  ASSUME BreakerInv, NEW c \in BreakerCallers, CooldownPasses(c)
  PROVE  BreakerInv'
BY DEF CooldownPasses, breakerHistory, BreakerInv, BreakerTypes, RowsFollow, HistoryFollows,
       Writing, Owed, IsOpen

(* What a crash cuts short is torn; memory is then read from the rows.     *)
LEMMA BreakerCrashKeepsInv ==
  ASSUME BreakerInv, BreakerCrash
  PROVE  BreakerInv'
BY BreakerNoneAssumption
   DEF BreakerCrash, breakerTables, BreakerInv, BreakerTypes, RowsFollow, HistoryFollows,
       Writing, Owed, IsOpen, BreakerFree

LEMMA BreakerNextKeepsInv ==
  ASSUME BreakerInv, [BreakerNext]_breakerVars
  PROVE  BreakerInv'
<1>0. breakerCalls \in [BreakerCalls -> BreakerCall \cup {BreakerNone}]
  BY DEF BreakerInv, BreakerTypes
<1>1. CASE UNCHANGED breakerVars
  BY <1>0, <1>1, OthersKeepInv DEF breakerVars, breakerTables, breakerHistory
<1>2. ASSUME NEW g \in BreakerCalls, GuardedCallReturns(g)
      PROVE  BreakerInv'
  <2>1. breakerCalls' \in [BreakerCalls -> BreakerCall \cup {BreakerNone}]
    BY <1>0, <1>2 DEF GuardedCallReturns, BreakerCall
  <2> QED
    BY <1>2, <2>1, OthersKeepInv DEF GuardedCallReturns, breakerHistory
<1>3. ASSUME NEW c \in BreakerCallers,
             CheckCooldownExpiry(c) \/ ManuallyCloseCircuitBreaker(c)
      PROVE  BreakerInv'
  BY <1>0, <1>3, RecoverKeepsInv
     DEF CheckCooldownExpiry, ManuallyCloseCircuitBreaker, IsOpen, breakerTables, breakerHistory
<1>4. ASSUME NEW c \in BreakerCallers, UnguardedCallFails(c) \/ FailureLeavesWindow(c)
      PROVE  BreakerInv'
  BY <1>0, <1>4, OthersKeepInv DEF UnguardedCallFails, FailureLeavesWindow, breakerHistory
<1>5. ASSUME NEW c \in BreakerCallers, NEW g \in BreakerCalls,
             NEW kind \in {"trips", "no trip"}, GuardedCall(g, c, kind)
      PROVE  BreakerInv'
  <2> DEFINE call == [caller |-> c, at |-> kind]
  <2>0. call \in BreakerCall
    BY DEF BreakerCall
  <2>1. breakerCalls' \in [BreakerCalls -> BreakerCall \cup {BreakerNone}]
    <3>1. breakerCalls' = breakerCalls \/ breakerCalls' = [breakerCalls EXCEPT ![g] = call]
      BY <1>5 DEF GuardedCall
    <3> HIDE DEF call
    <3> QED
      BY <1>0, <2>0, <3>1
  <2>2. CASE breakers[c] = "due"
    BY <1>5, <2>1, <2>2, RecoverKeepsInv DEF GuardedCall, IsOpen, breakerHistory
  <2>3. CASE breakers[c] # "due"
    BY <1>5, <2>1, <2>3, OthersKeepInv DEF GuardedCall, breakerHistory
  <2> QED
    BY <2>2, <2>3
<1>6. ASSUME NEW c \in BreakerCallers \cup {BreakerDefault},
             NEW rule \in BreakerThresholds \cup {BreakerNone}, SetCircuitBreakerRule(c, rule)
      PROVE  BreakerInv'
  BY <1>0, <1>6, OthersKeepInv DEF SetCircuitBreakerRule, breakerHistory
<1>7. ASSUME NEW g \in BreakerCalls, CheckAndTriggerCircuitBreaker(g)
      PROVE  BreakerInv'
  BY <1>7, TriggerKeepsInv
<1>8. ASSUME NEW c \in BreakerCallers, CooldownPasses(c)
      PROVE  BreakerInv'
  BY <1>8, CooldownPassesKeepsInv
<1>9. CASE WriteHistory \/ UpsertCircuitBreakerStatus \/ BreakerCrash
  BY <1>9, WriteHistoryKeepsInv, UpsertKeepsInv, BreakerCrashKeepsInv
<1> QED
  BY <1>1, <1>2, <1>3, <1>4, <1>5, <1>6, <1>7, <1>8, <1>9 DEF BreakerNext

(* However many calls are past a breaker when it opens, and whoever closes *)
(* it meanwhile, its history has one row that is not recovered while it is *)
(* open and none otherwise.                                                *)
THEOREM HistoryCorrect == BreakerSpec => []HistoryTellsOpen
<1>1. BreakerInit => BreakerInv
  BY BreakerNoneAssumption
     DEF BreakerInit, BreakerInv, BreakerTypes, RowsFollow, HistoryFollows, Owed, Writing, IsOpen
<1>2. BreakerInv /\ [BreakerNext]_breakerVars => BreakerInv'
  BY BreakerNextKeepsInv
<1>3. BreakerInv => HistoryTellsOpen
  BY DEF BreakerInv, HistoryFollows, HistoryTellsOpen, Owed, Writing, BreakerFree
<1> QED
  BY <1>1, <1>2, <1>3, PTL DEF BreakerSpec

-----------------------------------------------------------------------------
(* Plans *)

Configs == [PlanTargets -> PlanValues]

(* The types the argument needs; the statuses of the plans do not matter   *)
(* to it.                                                                  *)
PlanTypes ==
  /\ planConfig \in Configs /\ planAgreed \in Configs
  /\ planMethods \in [PlanMethods -> PlanMethod \cup {PlanNone}]
  /\ planApplying \in PlanJob \cup {PlanNone}

(* The overrides undo, undone one after the other, turn config into agreed:*)
(* the last one of a target has the value agreed, and a target that has    *)
(* none has it already.                                                    *)
Restores(undo, config, agreed) ==
  /\ \A t \in PlanTargets :
       (\A i \in 1..Len(undo) : undo[i].target # t) => config[t] = agreed[t]
  /\ \A i \in 1..Len(undo) :
       (\A j \in 1..Len(undo) : j > i => undo[j].target # undo[i].target)
         => undo[i].value = agreed[undo[i].target]

(* What would be undone, first to last, if the next override failed        *)
UndoOrder ==
  IF planApplying.do = "apply" THEN Reverse(planApplying.applied) ELSE planApplying.applied

PlanInv ==
  /\ PlanTypes
  /\ planApplying = PlanNone => planConfig = planAgreed
  /\ planApplying # PlanNone /\ ~planApplying.refused =>
       Restores(UndoOrder, planConfig, planAgreed)

-----------------------------------------------------------------------------
(* Sequences of overrides to undo *)

LEMMA HeadAndTail ==
  ASSUME NEW S, NEW s \in Seq(S), s # <<>>
  PROVE  Head(s) \in S /\ Tail(s) \in Seq(S)
OBVIOUS

LEMMA RestoredWithNoneLeft ==
  ASSUME NEW config \in Configs, NEW agreed \in Configs, Restores(<<>>, config, agreed)
  PROVE  config = agreed
<1>1. \A t \in PlanTargets : config[t] = agreed[t]
  BY DEF Restores
<1> QED
  BY <1>1 DEF Configs

LEMMA NothingToUndo ==
  ASSUME NEW config, NEW undo, undo = <<>>
  PROVE  Restores(undo, config, config)
BY DEF Restores

LEMMA ReverseType ==
  ASSUME NEW s \in Seq(PlanOverride)
  PROVE  /\ Reverse(s) \in Seq(PlanOverride) /\ Len(Reverse(s)) = Len(s)
         /\ \A i \in 1..Len(s) : Reverse(s)[i] = s[Len(s) - i + 1]
BY DEF Reverse

(* What is applied last is undone first.                                   *)
LEMMA ReverseOfAppend ==
  ASSUME NEW s \in Seq(PlanOverride), NEW x \in PlanOverride
  PROVE  LET r == Reverse(Append(s, x))
         IN  /\ Len(r) = Len(s) + 1 /\ r[1] = x
             /\ \A i \in 1..Len(s) : r[i + 1] = Reverse(s)[i]
<1>1. Append(s, x) \in Seq(PlanOverride) /\ Len(Append(s, x)) = Len(s) + 1
  OBVIOUS
<1>2. \A i \in 1..(Len(s) + 1) : Reverse(Append(s, x))[i] = Append(s, x)[Len(s) + 1 - i + 1]
  BY <1>1 DEF Reverse
<1>3. Reverse(Append(s, x))[1] = x
  BY <1>2
<1>4. ASSUME NEW i \in 1..Len(s)
      PROVE  Reverse(Append(s, x))[i + 1] = Reverse(s)[i]
  <2>1. Reverse(Append(s, x))[i + 1] = Append(s, x)[Len(s) - i + 1]
    <3>1. PICK k \in 1..(Len(s) + 1) : k = i + 1
      OBVIOUS
    <3>2. Reverse(Append(s, x))[k] = Append(s, x)[Len(s) + 1 - k + 1]
      BY <1>2, Zenon
    <3>3. Len(s) + 1 - k + 1 = Len(s) - i + 1
      BY <3>1
    <3> QED
      BY <3>1, <3>2, <3>3, Zenon
  <2>2. Reverse(s)[i] = s[Len(s) - i + 1] /\ Len(s) - i + 1 \in 1..Len(s)
    BY ReverseType
  <2> QED
    BY <2>1, <2>2
<1> QED
  BY <1>1, <1>3, <1>4, ReverseType

(* To change a target and to note its value in front of what there is to   *)
(* undo                                                                    *)
LEMMA NotedBeforeRestores ==
  ASSUME NEW config \in Configs, NEW agreed \in Configs, NEW undo \in Seq(PlanOverride),
         Restores(undo, config, agreed),
         NEW t \in PlanTargets, NEW v \in PlanValues,
         NEW noted \in Seq(PlanOverride), Len(noted) = Len(undo) + 1,
         noted[1] = [target |-> t, value |-> config[t]],
         \A i \in 1..Len(undo) : noted[i + 1] = undo[i]
  PROVE  Restores(noted, [config EXCEPT ![t] = v], agreed)
<1> DEFINE changed == [config EXCEPT ![t] = v]
<1>0. Len(undo) \in Nat /\ noted[1].target = t /\ noted[1].value = config[t]
  OBVIOUS
<1>1. ASSUME NEW u \in PlanTargets, \A i \in 1..Len(noted) : noted[i].target # u
      PROVE  changed[u] = agreed[u]
  <2>1. u # t
    BY <1>0, <1>1
  <2>2. \A i \in 1..Len(undo) : undo[i].target # u
    BY <1>0, <1>1
  <2> QED
    BY <2>1, <2>2 DEF Restores, Configs
<1>2. ASSUME NEW i \in 1..Len(noted),
             \A j \in 1..Len(noted) : j > i => noted[j].target # noted[i].target
      PROVE  noted[i].value = agreed[noted[i].target]
  <2>1. CASE i = 1
    <3>1. \A j \in 1..Len(undo) : undo[j].target # t
      BY <1>0, <1>2, <2>1
    <3> QED
      BY <1>0, <2>1, <3>1 DEF Restores
  <2>2. CASE i # 1
    <3> DEFINE k == i - 1
    <3>1. k \in 1..Len(undo) /\ noted[i] = undo[k]
      BY <1>0, <2>2
    <3>2. ASSUME NEW j \in 1..Len(undo), j > k
          PROVE  undo[j].target # undo[k].target
      <4>0. j + 1 \in 1..Len(noted) /\ j + 1 > i
        BY <1>0, <3>2
      <4>1. PICK n \in 1..Len(noted) : n = j + 1 /\ n > i /\ noted[n] = undo[j]
        <5>1. noted[j + 1] = undo[j]
          BY <3>2
        <5> QED
          BY <4>0, <5>1, Zenon
      <4>2. noted[n].target # noted[i].target
        BY <1>2, <4>1
      <4> QED
        BY <3>1, <4>1, <4>2
    <3> QED
      BY <3>1, <3>2 DEF Restores
  <2> QED
    BY <2>1, <2>2
<1> QED
  BY <1>1, <1>2 DEF Restores

(* To undo the first                                                       *)
LEMMA UndoneRestores ==
  ASSUME NEW config \in Configs, NEW agreed \in Configs,
         NEW undo \in Seq(PlanOverride), undo # <<>>, Restores(undo, config, agreed)
  PROVE  Restores(Tail(undo), [config EXCEPT ![Head(undo).target] = Head(undo).value], agreed)
<1> DEFINE t == Head(undo).target
           changed == [config EXCEPT ![t] = Head(undo).value]
           rest == Tail(undo)
<1>0. /\ Len(undo) \in Nat /\ Len(undo) >= 1 /\ rest \in Seq(PlanOverride)
      /\ Len(rest) = Len(undo) - 1 /\ Head(undo) = undo[1] /\ undo[1] \in PlanOverride
      /\ \A i \in 1..Len(rest) : rest[i] = undo[i + 1]
  OBVIOUS
<1>1. ASSUME NEW u \in PlanTargets, \A i \in 1..Len(rest) : rest[i].target # u
      PROVE  changed[u] = agreed[u]
  <2>1. \A i \in 1..Len(undo) : i > 1 => undo[i].target # u
    <3>1. ASSUME NEW i \in 1..Len(undo), i > 1
          PROVE  undo[i].target # u
      <4>1. i - 1 \in 1..Len(rest) /\ rest[i - 1] = undo[i]
        BY <1>0, <3>1
      <4> QED
        BY <1>1, <4>1
    <3> QED
      BY <3>1
  <2>2. CASE u = t
    BY <1>0, <2>1, <2>2 DEF Restores, Configs, PlanOverride
  <2>3. CASE u # t
    <3>1. \A i \in 1..Len(undo) : undo[i].target # u
      BY <1>0, <2>1, <2>3
    <3> QED
      BY <2>3, <3>1 DEF Restores, Configs
  <2> QED
    BY <2>2, <2>3
<1>2. ASSUME NEW i \in 1..Len(rest),
             \A j \in 1..Len(rest) : j > i => rest[j].target # rest[i].target
      PROVE  rest[i].value = agreed[rest[i].target]
  <2>1. i + 1 \in 1..Len(undo) /\ rest[i] = undo[i + 1]
    BY <1>0
  <2>2. ASSUME NEW j \in 1..Len(undo), j > i + 1
        PROVE  undo[j].target # undo[i + 1].target
    <3>1. j - 1 \in 1..Len(rest) /\ rest[j - 1] = undo[j] /\ j - 1 > i
      BY <1>0, <2>2
    <3> QED
      BY <1>2, <2>1, <3>1
  <2> QED
    BY <2>1, <2>2 DEF Restores
<1> QED
  BY <1>1, <1>2 DEF Restores

-----------------------------------------------------------------------------
(* Steps *)

LEMMA OtherPlanStepsKeepInv ==
  ASSUME PlanInv, UNCHANGED <<planConfig, planAgreed, planApplying>>,
         planMethods' \in [PlanMethods -> PlanMethod \cup {PlanNone}]
  PROVE  PlanInv'
BY DEF PlanInv, PlanTypes, UndoOrder

(* The method of ApplyPlan has nothing to undo yet.                        *)
LEMMA ApplyPlanKeepsInv ==
  ASSUME PlanInv, NEW g \in PlanMethods, ApplyPlan(g)
  PROVE  PlanInv'
<1> USE PlanNoneAssumption
<1>1. planMethods[g] \in PlanMethod /\ PlanOf(g) \in Plans
  BY DEF ApplyPlan, PlanAt, PlanOf, PlanInv, PlanTypes, PlanMethod
<1>2. planMethods' \in [PlanMethods -> PlanMethod \cup {PlanNone}]
  <2> DEFINE m == [planMethods[g] EXCEPT !.at = "applying"]
  <2>1. m \in PlanMethod
    BY <1>1 DEF PlanMethod
  <2>2. planMethods' = [planMethods EXCEPT ![g] = m]
    BY DEF ApplyPlan
  <2> HIDE DEF m
  <2> QED
    BY <2>1, <2>2 DEF PlanInv, PlanTypes
<1> DEFINE job == [do |-> "apply", left |-> PlanOverrides[PlanOf(g)], applied |-> <<>>,
                   refused |-> FALSE]
<1>3. planApplying' = job /\ job \in PlanJob
  BY <1>1, PlanAssumption DEF ApplyPlan, PlanJob
<1>4. planConfig' = planConfig /\ planAgreed' = planAgreed /\ planConfig = planAgreed
  BY DEF ApplyPlan, PlanInv, planHistory
<1>5. PlanTypes'
  BY <1>2, <1>3, <1>4 DEF PlanInv, PlanTypes
<1>6. UndoOrder' = <<>>
  <2>1. planApplying'.do = "apply" /\ planApplying'.applied = <<>>
    BY <1>3
  <2> QED
    BY <2>1 DEF UndoOrder, Reverse
<1>7. Restores(UndoOrder', planConfig', planAgreed')
  BY <1>4, <1>6, NothingToUndo
<1> QED
  BY <1>3, <1>5, <1>7 DEF PlanInv

(* An override applied is noted, or else the undoing begins, in the order  *)
(* in which it would have been done all along.                             *)
LEMMA ApplyOverrideKeepsInv ==
  ASSUME PlanInv, ApplyOverride
  PROVE  PlanInv'
<1> USE PlanNoneAssumption
<1> DEFINE job == planApplying
           o == Head(job.left)
           noted == Undo(o.target)
<1>1. /\ job \in PlanJob /\ job.do = "apply" /\ job.left # <<>> /\ job # PlanNone
      /\ job.applied \in Seq(PlanOverride) /\ job.left \in Seq(PlanOverride)
      /\ job.refused \in BOOLEAN /\ UndoOrder = Reverse(job.applied)
  BY DEF ApplyOverride, PlanInv, PlanTypes, PlanJob, UndoOrder
<1>2. /\ o \in PlanOverride /\ o.target \in PlanTargets /\ o.value \in PlanValues
      /\ Tail(job.left) \in Seq(PlanOverride)
  <2>1. o \in PlanOverride /\ Tail(job.left) \in Seq(PlanOverride)
    BY <1>1, HeadAndTail
  <2> QED
    BY <2>1 DEF PlanOverride
<1>3. planConfig \in Configs /\ planAgreed \in Configs /\ planAgreed' = planAgreed
  BY DEF PlanInv, PlanTypes, ApplyOverride, planHistory
<1>4. planMethods' \in [PlanMethods -> PlanMethod \cup {PlanNone}]
  BY DEF PlanInv, PlanTypes, ApplyOverride
<1>5. CASE /\ planConfig' = [planConfig EXCEPT ![o.target] = o.value]
           /\ job' = [job EXCEPT !.left = Tail(@), !.applied = Append(@, noted)]
  <2>1. noted \in PlanOverride
    BY <1>2, <1>3 DEF Undo, PlanOverride, Configs
  <2>2. Append(job.applied, noted) \in Seq(PlanOverride)
    BY <1>1, <2>1
  <2>3. /\ job' \in PlanJob /\ job'.do = "apply" /\ job'.applied = Append(job.applied, noted)
        /\ job'.refused = job.refused
    BY <1>1, <1>2, <1>5, <2>2 DEF PlanJob
  <2>4. planConfig' \in Configs
    BY <1>2, <1>3, <1>5 DEF Configs
  <2>5. PlanTypes'
    BY <1>3, <1>4, <2>3, <2>4 DEF PlanTypes
  <2>6. UndoOrder' = Reverse(Append(job.applied, noted))
    BY <2>3 DEF UndoOrder
  <2>7. ~job.refused => Restores(UndoOrder', planConfig', planAgreed')
    <3>1. SUFFICES ASSUME ~job.refused
                   PROVE  Restores(UndoOrder', planConfig', planAgreed')
      OBVIOUS
    <3>2. Restores(Reverse(job.applied), planConfig, planAgreed)
      BY <1>1, <3>1 DEF PlanInv
    <3>3. /\ Reverse(job.applied) \in Seq(PlanOverride)
          /\ Len(Reverse(job.applied)) = Len(job.applied)
          /\ Reverse(Append(job.applied, noted)) \in Seq(PlanOverride)
      BY <1>1, <2>2, ReverseType
    <3> DEFINE undo == Reverse(job.applied)
               longer == Reverse(Append(job.applied, noted))
    <3>4. noted = [target |-> o.target, value |-> planConfig[o.target]]
      BY DEF Undo
    <3>5. /\ Len(longer) = Len(undo) + 1 /\ longer[1] = noted
          /\ \A i \in 1..Len(undo) : longer[i + 1] = undo[i]
      BY <1>1, <2>1, <3>3, ReverseOfAppend
    <3>6. Restores(undo, planConfig, planAgreed) /\ undo \in Seq(PlanOverride)
          /\ longer \in Seq(PlanOverride)
      BY <3>2, <3>3
    <3> HIDE DEF job, o, noted, undo, longer
    <3>7. Restores(longer, [planConfig EXCEPT ![o.target] = o.value], planAgreed)
      BY <1>2, <1>3, <3>4, <3>5, <3>6, NotedBeforeRestores
    <3> QED
      BY <1>3, <1>5, <2>6, <3>7 DEF longer
  <2> QED
    BY <2>3, <2>5, <2>7 DEF PlanInv
<1>6. CASE /\ job' = [job EXCEPT !.do = "undo", !.applied = RollBack(@)]
           /\ UNCHANGED planConfig
  <2>1. Reverse(job.applied) \in Seq(PlanOverride)
    BY <1>1, ReverseType
  <2>2. /\ job' \in PlanJob /\ job'.do = "undo" /\ job'.applied = Reverse(job.applied)
        /\ job'.refused = job.refused
    BY <1>1, <1>6, <2>1 DEF PlanJob, RollBack
  <2>3. UndoOrder' = UndoOrder
    BY <1>1, <2>2 DEF UndoOrder
  <2>4. PlanTypes'
    BY <1>3, <1>4, <1>6, <2>2 DEF PlanTypes
  <2> QED
    BY <1>1, <1>3, <1>6, <2>2, <2>3, <2>4 DEF PlanInv
<1> QED
  BY <1>5, <1>6 DEF ApplyOverride

LEMMA RollBackOverrideKeepsInv ==
  ASSUME PlanInv, RollBackOverride
  PROVE  PlanInv'
<1> USE PlanNoneAssumption
<1> DEFINE job == planApplying
           u == Head(job.applied)
<1>1. /\ job \in PlanJob /\ job.do = "undo" /\ job.applied # <<>> /\ job # PlanNone
      /\ job.applied \in Seq(PlanOverride) /\ job.refused \in BOOLEAN
      /\ UndoOrder = job.applied
  BY DEF RollBackOverride, PlanInv, PlanTypes, PlanJob, UndoOrder
<1>2. /\ u \in PlanOverride /\ u.target \in PlanTargets /\ u.value \in PlanValues
      /\ Tail(job.applied) \in Seq(PlanOverride)
  <2>1. u \in PlanOverride /\ Tail(job.applied) \in Seq(PlanOverride)
    BY <1>1, HeadAndTail
  <2> QED
    BY <2>1 DEF PlanOverride
<1>3. planConfig \in Configs /\ planAgreed \in Configs /\ planAgreed' = planAgreed
  BY DEF PlanInv, PlanTypes, RollBackOverride, planHistory
<1>4. planMethods' \in [PlanMethods -> PlanMethod \cup {PlanNone}]
  BY DEF PlanInv, PlanTypes, RollBackOverride
<1>5. CASE /\ planConfig' = [planConfig EXCEPT ![u.target] = u.value]
           /\ job' = [job EXCEPT !.applied = Tail(@)]
  <2>1. /\ job' \in PlanJob /\ job'.do = "undo" /\ job'.applied = Tail(job.applied)
        /\ job'.refused = job.refused
    BY <1>1, <1>2, <1>5 DEF PlanJob
  <2>2. PlanTypes'
    BY <1>2, <1>3, <1>4, <1>5, <2>1 DEF PlanTypes, Configs
  <2>3. UndoOrder' = Tail(job.applied)
    BY <2>1 DEF UndoOrder
  <2>4. ~job.refused => Restores(UndoOrder', planConfig', planAgreed')
    <3>1. ~job.refused => Restores(job.applied, planConfig, planAgreed)
      BY <1>1 DEF PlanInv
    <3> QED
      BY <1>1, <1>3, <1>5, <2>3, <3>1, UndoneRestores
  <2> QED
    BY <2>1, <2>2, <2>4 DEF PlanInv
<1>6. CASE /\ job' = [job EXCEPT !.applied = Tail(@), !.refused = TRUE]
           /\ UNCHANGED planConfig
  <2>1. job' \in PlanJob /\ job'.refused
    BY <1>1, <1>2, <1>6 DEF PlanJob
  <2>2. PlanTypes'
    BY <1>3, <1>4, <1>6, <2>1 DEF PlanTypes
  <2> QED
    BY <2>1, <2>2 DEF PlanInv
<1> QED
  BY <1>5, <1>6 DEF RollBackOverride

(* All overrides are undone, or one could not be.                          *)
LEMMA ApplyFailsKeepsInv ==
  ASSUME PlanInv, NEW g \in PlanMethods, ApplyFails(g)
  PROVE  PlanInv'
<1> USE PlanNoneAssumption
<1>1. planApplying' = PlanNone /\ planConfig' = planConfig
  BY DEF ApplyFails
<1>2. planMethods' \in [PlanMethods -> PlanMethod \cup {PlanNone}]
  BY DEF ApplyFails, PlanInv, PlanTypes
<1>3. planConfig \in Configs /\ planAgreed \in Configs
  BY DEF PlanInv, PlanTypes
<1>4. planAgreed' = planConfig
  <2>1. CASE planApplying.refused
    BY <2>1 DEF ApplyFails
  <2>2. CASE ~planApplying.refused /\ planApplying = PlanNone
    BY <2>2 DEF ApplyFails, PlanInv
  <2>3. CASE ~planApplying.refused /\ planApplying # PlanNone
    <3>1. UndoOrder = <<>>
      BY DEF ApplyFails, UndoOrder
    <3>2. planConfig = planAgreed
      BY <1>3, <2>3, <3>1, RestoredWithNoneLeft DEF PlanInv
    <3> QED
      BY <2>3, <3>2 DEF ApplyFails
  <2> QED
    BY <2>1, <2>2, <2>3
<1> QED
  BY <1>1, <1>2, <1>3, <1>4 DEF PlanInv, PlanTypes

LEMMA AppliedKeepsInv ==
  ASSUME PlanInv, NEW g \in PlanMethods, Applied(g)
  PROVE  PlanInv'
<1>1. planMethods[g] \in PlanMethod
  BY DEF Applied, PlanAt, PlanInv, PlanTypes
<1>2. planMethods' \in [PlanMethods -> PlanMethod \cup {PlanNone}]
  <2> DEFINE m == [planMethods[g] EXCEPT !.at = "written"]
  <2>1. m \in PlanMethod
    BY <1>1 DEF PlanMethod
  <2>2. planMethods' = [planMethods EXCEPT ![g] = m]
    BY DEF Applied
  <2> HIDE DEF m
  <2> QED
    BY <2>1, <2>2 DEF PlanInv, PlanTypes
<1>3. planApplying' = PlanNone /\ planConfig' = planConfig /\ planAgreed' = planConfig
  BY DEF Applied
<1> QED
  BY <1>2, <1>3 DEF PlanInv, PlanTypes

LEMMA ShadowCrashKeepsInv ==
  ASSUME PlanInv, ShadowCrash
  PROVE  PlanInv'
<1>1. /\ planApplying' = PlanNone /\ planConfig' = planConfig
      /\ planAgreed' = IF planApplying # PlanNone THEN planConfig ELSE planAgreed
      /\ planMethods' = [g \in PlanMethods |-> PlanNone]
  BY DEF ShadowCrash
<1> QED
  BY <1>1 DEF PlanInv, PlanTypes

(* The methods that read and write only the plan and its status            *)
LEMMA PlanMethodsTyped ==
  ASSUME PlanInv, NEW g \in PlanMethods,
         \/ UpdateShadowPlanStatus(g) \/ PlanSeen(g)
         \/ \E p \in Plans, do \in {"start", "cancel", "apply"} : PlanRead(g, p, do)
  PROVE  planMethods' \in [PlanMethods -> PlanMethod \cup {PlanNone}]
<1>0. planMethods \in [PlanMethods -> PlanMethod \cup {PlanNone}]
  BY DEF PlanInv, PlanTypes
<1>1. CASE UpdateShadowPlanStatus(g)
  <2> DEFINE m == [planMethods[g] EXCEPT !.at = "written"]
  <2>1. planMethods[g] \in PlanMethod
    BY <1>0, <1>1 DEF UpdateShadowPlanStatus, PlanAt
  <2>2. m \in PlanMethod
    BY <2>1 DEF PlanMethod
  <2>3. planMethods' = [planMethods EXCEPT ![g] = m]
    BY <1>1 DEF UpdateShadowPlanStatus
  <2> HIDE DEF m
  <2> QED
    BY <1>0, <2>2, <2>3
<1>2. CASE PlanSeen(g)
  BY <1>0, <1>2 DEF PlanSeen
<1>3. ASSUME NEW p \in Plans, NEW do \in {"start", "cancel", "apply"}, PlanRead(g, p, do)
      PROVE  planMethods' \in [PlanMethods -> PlanMethod \cup {PlanNone}]
  <2> DEFINE m == [do |-> do, plan |-> p, at |-> "read"]
  <2>1. m \in PlanMethod
    BY DEF PlanMethod
  <2>2. planMethods' = [planMethods EXCEPT ![g] = m]
    BY <1>3 DEF PlanRead
  <2> HIDE DEF m
  <2> QED
    BY <1>0, <2>1, <2>2
<1> QED
  BY <1>1, <1>2, <1>3

LEMMA ShadowNextKeepsInv ==
  ASSUME PlanInv, [ShadowNext]_planVars
  PROVE  PlanInv'
<1>0. planMethods \in [PlanMethods -> PlanMethod \cup {PlanNone}]
  BY DEF PlanInv, PlanTypes
<1>1. CASE UNCHANGED planVars
  BY <1>0, <1>1, OtherPlanStepsKeepInv DEF planVars, planHistory
<1>2. CASE ReplaySteps
  BY <1>0, <1>2, OtherPlanStepsKeepInv DEF ReplaySteps, ReplayCompletes, ReplayEnds, planHistory
<1>3. ASSUME NEW p \in Plans,
             (\E mode \in {"replay", "mirror"} : CreatePlan(p, mode)) \/ CheckMirrorExpiry(p)
      PROVE  PlanInv'
  BY <1>0, <1>3, OtherPlanStepsKeepInv DEF CreatePlan, CheckMirrorExpiry, planHistory
<1>4. ASSUME NEW g \in PlanMethods,
             \/ UpdateShadowPlanStatus(g) \/ PlanSeen(g)
             \/ \E p \in Plans, do \in {"start", "cancel", "apply"} : PlanRead(g, p, do)
      PROVE  PlanInv'
  <2>1. UNCHANGED <<planConfig, planAgreed, planApplying>>
    BY <1>4 DEF UpdateShadowPlanStatus, PlanSeen, PlanRead, planHistory
  <2> QED
    BY <1>4, <2>1, PlanMethodsTyped, OtherPlanStepsKeepInv
<1>5. ASSUME NEW g \in PlanMethods, ApplyPlan(g) \/ ApplyFails(g) \/ Applied(g)
      PROVE  PlanInv'
  BY <1>5, ApplyPlanKeepsInv, ApplyFailsKeepsInv, AppliedKeepsInv
<1>6. CASE ApplyOverride \/ RollBackOverride \/ ShadowCrash
  BY <1>6, ApplyOverrideKeepsInv, RollBackOverrideKeepsInv, ShadowCrashKeepsInv
<1> QED
  BY <1>1, <1>2, <1>3, <1>4, <1>5, <1>6 DEF ShadowNext, ShadowSteps

(* Unless a crash cuts it short or an undo is refused, a plan is applied   *)
(* whole or not at all, whatever its overrides have to do with each other. *)
THEOREM AppliedCorrect == ShadowSpec => []AppliedWhollyOrNot
<1>1. ShadowInit => PlanInv
  BY PlanAssumption, PlanNoneAssumption DEF ShadowInit, PlanInv, PlanTypes, Configs
<1>2. PlanInv /\ [ShadowNext]_planVars => PlanInv'
  BY ShadowNextKeepsInv
<1>3. PlanInv => AppliedWhollyOrNot
  BY DEF PlanInv, AppliedWhollyOrNot
<1> QED
  BY <1>1, <1>2, <1>3, PTL DEF ShadowSpec

-----------------------------------------------------------------------------
(* Rate alerts *)

AlertEvent == [at : Int, window : Nat]

AlertTypes ==
  /\ alertCallers \in [AlertCallers -> AlertRuntime \cup {AlertNone}]
  /\ alertRules \in [AlertCallers -> AlertRule \cup {AlertNone}]
  /\ alertEvents \in [AlertCallers -> Seq(AlertEvent)]
  /\ alertFreezes \in [AlertCallers -> AlertFreeze \cup {AlertNone}]
  /\ alertNow \in Int
  /\ alertJob \in AlertJob \cup {AlertNone}

(* The count in memory stands on the last rows of the table, the last of   *)
(* which is the alert that holds back the next one.                        *)
CountedAlertsStand ==
  \A c \in AlertCallers : alertCallers[c] # AlertNone =>
    /\ Streak(alertEvents[c], alertCallers[c].consecutive)
    /\ alertCallers[c].consecutive > 0 =>
         alertEvents[c][Len(alertEvents[c])].at = alertCallers[c].lastAlertAt

(* An alert under way is not held back, and of a caller that is watched    *)
(* and not frozen; so is a freeze under way.  A crash leaves nothing so.   *)
AlertUnderWay ==
  /\ alertJob # AlertNone => alertUp
  /\ alertJob # AlertNone /\ alertJob.do \in {"alert", "freeze"} =>
       alertCallers[alertJob.caller] # AlertNone /\ ~Frozen(alertJob.caller)
  /\ AlertDoing("alert") =>
       LET rt == alertCallers[alertJob.caller]
       IN  2 * (alertJob.at - rt.lastAlertAt) >= rt.rule.window

AlertInv == AlertTypes /\ CountedAlertsStand /\ AlertUnderWay /\ FreezeFollowsAlerts

LEMMA MinOfNaturals ==
  ASSUME NEW S \in SUBSET Nat, S # {}
  PROVE  Min(S) \in S
<1> DEFINE Less == OpToRel(<, Nat)
<1>1. IsWellFoundedOn(Less, Nat)
  BY NatLessThanWellFounded
<1>2. \A y \in Nat, z \in Nat : y < z => <<y, z>> \in Less
  BY DEF OpToRel
<1> HIDE DEF Less
<1>3. PICK x \in S : \A y \in S : ~(<<y, x>> \in Less)
  BY <1>1, WFMin
<1>4. \A y \in S : x =< y
  <2>1. SUFFICES ASSUME NEW y \in S, y < x PROVE FALSE
    BY x \in Nat, S \subseteq Nat
  <2>2. <<y, x>> \in Less
    BY <1>2, <2>1, x \in Nat, y \in Nat
  <2> QED
    BY <1>3, <2>2
<1> QED
  BY <1>4 DEF Min

LEMMA TrimmedIsSeq ==
  ASSUME NEW records \in Seq(AlertRecord), NEW cutoff \in Int
  PROVE  Trimmed(records, cutoff) \in Seq(AlertRecord)
<1> DEFINE I == {i \in 1..Len(records) : records[i].at >= cutoff}
<1> DEFINE first == IF I # {} THEN Min(I) ELSE 0
<1>1. Trimmed(records, cutoff) = IF first = 0 THEN <<>> ELSE SubSeq(records, first, Len(records))
  BY DEF Trimmed, SelectInSeq
<1>2. first = 0 \/ first \in 1..Len(records)
  <2>1. I \in SUBSET Nat
    OBVIOUS
  <2> QED
    BY <2>1, MinOfNaturals
<1> HIDE DEF first
<1> QED
  BY <1>1, <1>2

(* No alerts are a streak of none.                                         *)
LEMMA NoStreak ==
  ASSUME NEW events \in Seq(AlertEvent)
  PROVE  Streak(events, 0)
BY DEF Streak

(* An alert that is not held back makes a streak longer by one.            *)
LEMMA StreakGrows ==
  ASSUME NEW events \in Seq(AlertEvent), NEW n \in Nat, Streak(events, n),
         NEW event \in AlertEvent,
         n > 0 => 2 * (event.at - events[Len(events)].at) >= event.window
  PROVE  Streak(Append(events, event), n + 1)
<1> DEFINE longer == Append(events, event)
<1>1. /\ Len(longer) = Len(events) + 1 /\ Len(events) \in Nat
      /\ longer[Len(events) + 1] = event
      /\ \A i \in 1..Len(events) : longer[i] = events[i]
  OBVIOUS
<1>2. /\ Len(events) - n + 1 >= 1
      /\ \A i \in Len(events) - n + 2..Len(events) :
           2 * (events[i].at - events[i - 1].at) >= events[i].window
  BY DEF Streak
<1> HIDE DEF longer
<1>3. ASSUME NEW i \in Len(longer) - (n + 1) + 2..Len(longer)
      PROVE  2 * (longer[i].at - longer[i - 1].at) >= longer[i].window
  <2>1. CASE i = Len(events) + 1
    <3>1. n > 0 /\ i - 1 = Len(events) /\ i - 1 \in 1..Len(events)
      BY <1>1, <1>2, <1>3, <2>1
    <3> QED
      BY <1>1, <2>1, <3>1
  <2>2. CASE i # Len(events) + 1
    <3>1. i \in Int /\ i >= Len(events) - n + 2 /\ i <= Len(events)
      BY <1>1, <1>3, <2>2
    <3>2. i \in Len(events) - n + 2..Len(events) /\ i \in 1..Len(events) /\ i - 1 \in 1..Len(events)
      BY <1>1, <1>2, <3>1
    <3> QED
      BY <1>1, <1>2, <3>2
  <2> QED
    BY <2>1, <2>2
<1>4. Len(longer) - (n + 1) + 1 >= 1
  BY <1>1, <1>2
<1> QED
  BY <1>1, <1>3, <1>4 DEF Streak, longer

(* A step that writes no alert and no freeze, and that for each caller     *)
(* keeps what is counted, or begins or ends the watch.                     *)
LEMMA QuietStepKeepsInv ==
  ASSUME AlertInv, AlertTypes', alertEvents' = alertEvents,
         \A c \in AlertCallers :
           alertCallers'[c] # AlertNone /\ alertCallers'[c].consecutive # 0 =>
             /\ alertCallers[c] # AlertNone
             /\ alertCallers'[c].consecutive = alertCallers[c].consecutive
             /\ alertCallers'[c].lastAlertAt = alertCallers[c].lastAlertAt,
         \A c \in AlertCallers : Frozen(c)' =>
             Frozen(c) /\ alertFreezes'[c].before = alertFreezes[c].before,
         AlertUnderWay'
  PROVE  AlertInv'
<1>1. CountedAlertsStand'
  <2>1. SUFFICES ASSUME NEW c \in AlertCallers, alertCallers'[c] # AlertNone
                 PROVE  /\ Streak(alertEvents[c], alertCallers'[c].consecutive)
                        /\ alertCallers'[c].consecutive > 0 =>
                             alertEvents[c][Len(alertEvents[c])].at = alertCallers'[c].lastAlertAt
    BY DEF CountedAlertsStand
  <2>2. CASE alertCallers'[c].consecutive = 0
    BY <2>2, NoStreak DEF AlertInv, AlertTypes
  <2>3. CASE alertCallers'[c].consecutive # 0
    BY <2>1, <2>3 DEF AlertInv, CountedAlertsStand
  <2> QED
    BY <2>2, <2>3
<1>2. FreezeFollowsAlerts'
  BY DEF AlertInv, FreezeFollowsAlerts
<1> QED
  BY <1>1, <1>2 DEF AlertInv

-----------------------------------------------------------------------------
(* The actions *)

LEMMA AlertInitInv == AlertInit => AlertInv
BY AlertNoneAssumption
   DEF AlertInit, AlertInv, AlertTypes, CountedAlertsStand, AlertUnderWay, FreezeFollowsAlerts,
       Frozen, AlertDoing

LEMMA WatchingTyped ==
  ASSUME NEW rule \in AlertRule, alertNow \in Int
  PROVE  Watching(rule) \in AlertRuntime /\ Watching(rule).consecutive = 0
BY DEF Watching, AlertRuntime, AlertRule

LEMMA SetRuleKeepsInv ==
  ASSUME AlertInv, NEW c \in AlertCallers, NEW rule \in AlertRule, SetRule(c, rule)
  PROVE  AlertInv'
<1>1. /\ alertCallers' = [alertCallers EXCEPT ![c] = Watching(rule)]
      /\ alertJob' = [do |-> "rule", caller |-> c, rule |-> rule]
      /\ UNCHANGED <<alertRules, alertEvents, alertFreezes, alertNow>>
      /\ alertUp /\ alertUp' = alertUp
  BY DEF AlertFree, alertProcess, SetRule, Ruleset, alertTables
<1>2. Watching(rule) \in AlertRuntime /\ Watching(rule).consecutive = 0
  BY WatchingTyped DEF AlertInv, AlertTypes
<1>3. AlertTypes'
  BY <1>1, <1>2 DEF AlertInv, AlertTypes, AlertJob
<1>4. AlertUnderWay'
  BY <1>1 DEF AlertUnderWay, AlertDoing
<1> QED
  BY <1>1, <1>2, <1>3, <1>4, QuietStepKeepsInv DEF AlertInv, AlertTypes, Frozen

LEMMA DeleteRuleKeepsInv ==
  ASSUME AlertInv, NEW c \in AlertCallers, DeleteRule(c)
  PROVE  AlertInv'
<1>1. /\ alertCallers' = [alertCallers EXCEPT ![c] = AlertNone]
      /\ alertJob' = [do |-> "rule", caller |-> c, rule |-> AlertNone]
      /\ UNCHANGED <<alertRules, alertEvents, alertFreezes, alertNow>>
      /\ alertUp /\ alertUp' = alertUp
  BY DEF AlertFree, alertProcess, DeleteRule, alertTables
<1>2. AlertTypes'
  BY <1>1 DEF AlertInv, AlertTypes, AlertJob
<1>3. AlertUnderWay'
  BY <1>1 DEF AlertUnderWay, AlertDoing
<1> QED
  BY <1>1, <1>2, <1>3, QuietStepKeepsInv DEF AlertInv, AlertTypes, Frozen

LEMMA WriteRuleKeepsInv ==
  ASSUME AlertInv, WriteRule
  PROVE  AlertInv'
<1>1. /\ alertRules' = [alertRules EXCEPT ![alertJob.caller] = alertJob.rule]
      /\ alertJob' = AlertNone /\ alertJob \in AlertJob /\ alertJob.do = "rule"
      /\ UNCHANGED <<alertCallers, alertEvents, alertFreezes, alertNow>>
  BY DEF WriteRule, AlertDoing, AlertInv, AlertTypes
<1>2. AlertTypes'
  BY <1>1 DEF AlertInv, AlertTypes, AlertJob
<1>3. AlertUnderWay'
  BY <1>1 DEF AlertUnderWay, AlertDoing
<1> QED
  BY <1>1, <1>2, <1>3, QuietStepKeepsInv DEF Frozen

LEMMA CleanupKeepsInv ==
  ASSUME AlertInv, CleanupExpiredRecords
  PROVE  AlertInv'
<1> DEFINE kept(c) == Trimmed(alertCallers[c].records, alertNow - alertCallers[c].rule.window)
<1>1. /\ alertCallers' = [c \in AlertCallers |->
             IF alertCallers[c] = AlertNone THEN AlertNone
             ELSE [alertCallers[c] EXCEPT !.records = kept(c)]]
      /\ alertJob = AlertNone /\ alertJob' = AlertNone
      /\ UNCHANGED <<alertRules, alertEvents, alertFreezes, alertNow>>
  BY DEF CleanupExpiredRecords, AlertFree, alertTables
<1>2. ASSUME NEW c \in AlertCallers, alertCallers[c] # AlertNone
      PROVE  kept(c) \in Seq(AlertRecord) /\ alertCallers[c] \in AlertRuntime
  <2>1. alertCallers[c] \in AlertRuntime /\ alertNow \in Int
    BY <1>2 DEF AlertInv, AlertTypes
  <2>2. /\ alertCallers[c].records \in Seq(AlertRecord)
        /\ alertNow - alertCallers[c].rule.window \in Int
    BY <2>1 DEF AlertRuntime, AlertRule
  <2> QED
    BY <2>1, <2>2, TrimmedIsSeq
<1> HIDE DEF kept
<1>3. ASSUME NEW c \in AlertCallers, alertCallers'[c] # AlertNone
      PROVE  /\ alertCallers[c] # AlertNone
             /\ alertCallers'[c] \in AlertRuntime
             /\ alertCallers'[c].consecutive = alertCallers[c].consecutive
             /\ alertCallers'[c].lastAlertAt = alertCallers[c].lastAlertAt
  BY <1>1, <1>2, <1>3 DEF AlertRuntime
<1>4. AlertTypes'
  BY <1>1, <1>3 DEF AlertInv, AlertTypes
<1>5. AlertUnderWay'
  BY <1>1 DEF AlertUnderWay, AlertDoing
<1> QED
  BY <1>1, <1>3, <1>4, <1>5, QuietStepKeepsInv DEF Frozen

LEMMA RecordConsumptionKeepsInv ==
  ASSUME AlertInv, NEW c \in AlertCallers, NEW units \in Nat, NEW at \in Int,
         RecordConsumption(c, units, at)
  PROVE  AlertInv'
<1> DEFINE rt == alertCallers[c]
           window == Trimmed(Append(rt.records, [at |-> at, units |-> units]), at - rt.rule.window)
<1>1. /\ rt \in AlertRuntime /\ rt # AlertNone /\ ~Frozen(c)
      /\ alertCallers' = [alertCallers EXCEPT ![c].records = window]
      /\ UNCHANGED <<alertRules, alertEvents, alertFreezes, alertNow>>
      /\ \/ alertJob' = AlertNone
         \/ /\ alertJob' = [do |-> "alert", caller |-> c, at |-> at]
            /\ 2 * (at - rt.lastAlertAt) >= rt.rule.window
      /\ alertUp /\ alertUp' = alertUp
  BY DEF AlertFree, alertProcess, RecordConsumption, AlertInv, AlertTypes, alertTables
<1>2. window \in Seq(AlertRecord)
  <2>1. Append(rt.records, [at |-> at, units |-> units]) \in Seq(AlertRecord)
    BY <1>1 DEF AlertRuntime, AlertRecord
  <2>2. at - rt.rule.window \in Int
    BY <1>1 DEF AlertRuntime, AlertRule
  <2> QED
    BY <2>1, <2>2, TrimmedIsSeq
<1> HIDE DEF window
<1>3. /\ alertCallers'[c] = [rt EXCEPT !.records = window] /\ alertCallers'[c] \in AlertRuntime
      /\ alertCallers'[c].consecutive = rt.consecutive
      /\ alertCallers'[c].lastAlertAt = rt.lastAlertAt /\ alertCallers'[c].rule = rt.rule
      /\ \A d \in AlertCallers : d # c => alertCallers'[d] = alertCallers[d]
      /\ alertCallers' = [alertCallers EXCEPT ![c] = alertCallers'[c]]
  BY <1>1, <1>2 DEF AlertInv, AlertTypes, AlertRuntime
<1> HIDE DEF rt
<1>4. AlertTypes'
  BY <1>1, <1>3 DEF AlertInv, AlertTypes, AlertJob
<1>5. Frozen(c)' = Frozen(c)
  BY <1>1 DEF Frozen
<1>6. AlertUnderWay'
  <2>1. CASE alertJob' = AlertNone
    BY <2>1 DEF AlertUnderWay, AlertDoing
  <2>2. CASE alertJob' = [do |-> "alert", caller |-> c, at |-> at] /\ 2 * (at - rt.lastAlertAt) >= rt.rule.window
    BY <1>1, <1>3, <1>5, <2>2, AlertNoneAssumption DEF AlertUnderWay, AlertDoing
  <2> QED
    BY <1>1, <2>1, <2>2
<1> QED
  BY <1>1, <1>3, <1>4, <1>6, QuietStepKeepsInv DEF Frozen, rt

Counted(r, at) == [r EXCEPT !.consecutive = @ + 1, !.lastAlertAt = at]

LEMMA CountedTyped ==
  ASSUME NEW r \in AlertRuntime, NEW at \in Int
  PROVE  /\ Counted(r, at) \in AlertRuntime /\ r.consecutive \in Nat
         /\ Counted(r, at).consecutive = r.consecutive + 1 /\ Counted(r, at).lastAlertAt = at
<1> DEFINE one == [r EXCEPT !.consecutive = @ + 1]
<1>1. /\ r.consecutive \in Nat /\ one \in AlertRuntime
      /\ one.consecutive = r.consecutive + 1
  BY DEF AlertRuntime
<1>2. Counted(r, at) = [one EXCEPT !.lastAlertAt = at]
  BY DEF Counted
<1> HIDE DEF one
<1>3. /\ [one EXCEPT !.lastAlertAt = at] \in AlertRuntime
      /\ [one EXCEPT !.lastAlertAt = at].consecutive = one.consecutive
      /\ [one EXCEPT !.lastAlertAt = at].lastAlertAt = at
  BY <1>1 DEF AlertRuntime
<1> QED
  BY <1>1, <1>2, <1>3

LEMMA TriggerAlertKeepsInv ==
  ASSUME AlertInv, TriggerAlert
  PROVE  AlertInv'
<1> DEFINE c == alertJob.caller
           rt == alertCallers[c]
           event == [at |-> alertJob.at, window |-> rt.rule.window]
<1>1. /\ alertJob \in AlertJob /\ alertJob # AlertNone /\ alertJob.do = "alert"
      /\ c \in AlertCallers /\ alertJob.at \in Int
  BY DEF TriggerAlert, AlertDoing, AlertInv, AlertTypes, AlertJob
<1>2. /\ rt # AlertNone /\ rt \in AlertRuntime /\ ~Frozen(c)
      /\ 2 * (alertJob.at - rt.lastAlertAt) >= rt.rule.window
  BY <1>1 DEF AlertInv, AlertTypes, AlertUnderWay, AlertDoing
<1>3. /\ alertEvents' = [alertEvents EXCEPT ![c] = Append(@, event)]
      /\ alertCallers' = [alertCallers EXCEPT
            ![c] = Counted(rt, alertJob.at)]
      /\ \/ alertJob' = AlertNone
         \/ alertJob' = [alertJob EXCEPT !.do = "freeze"]
      /\ UNCHANGED <<alertRules, alertFreezes, alertNow>>
      /\ alertUp /\ alertUp' = alertUp
  BY <1>1 DEF TriggerAlert, Counted, alertProcess, AlertInv, AlertUnderWay, AlertTypes
<1>4. event \in AlertEvent
  BY <1>1, <1>2 DEF AlertEvent, AlertRuntime, AlertRule
<1> DEFINE after == Counted(rt, alertJob.at)
<1>5. /\ after \in AlertRuntime /\ alertCallers'[c] = after
      /\ alertCallers'[c].consecutive = rt.consecutive + 1
      /\ alertCallers'[c].lastAlertAt = alertJob.at
      /\ alertCallers'[c] # AlertNone /\ rt.consecutive \in Nat
  <2>1. /\ after \in AlertRuntime /\ rt.consecutive \in Nat
        /\ after.consecutive = rt.consecutive + 1 /\ after.lastAlertAt = alertJob.at
    BY <1>1, <1>2, CountedTyped
  <2>2. alertCallers'[c] = after
    BY <1>1, <1>3 DEF AlertInv, AlertTypes
  <2> QED
    BY <2>1, <2>2, AlertNoneAssumption
<1>6. AlertTypes'
  <2>1. alertJob' \in AlertJob \cup {AlertNone}
    BY <1>1, <1>3 DEF AlertJob
  <2>2. alertEvents[c] \in Seq(AlertEvent) /\ Append(alertEvents[c], event) \in Seq(AlertEvent)
    BY <1>1, <1>4 DEF AlertInv, AlertTypes
  <2> HIDE DEF event, rt, c
  <2>3. alertCallers' \in [AlertCallers -> AlertRuntime \cup {AlertNone}]
    BY <1>1, <1>3, <1>5 DEF AlertInv, AlertTypes
  <2>4. alertEvents' \in [AlertCallers -> Seq(AlertEvent)]
    BY <1>1, <1>3, <2>2 DEF AlertInv, AlertTypes
  <2> QED
    BY <1>3, <2>1, <2>3, <2>4 DEF AlertInv, AlertTypes
<1> DEFINE old == alertEvents[c]
<1>7. /\ old \in Seq(AlertEvent) /\ alertEvents'[c] = Append(old, event)
      /\ Len(Append(old, event)) = Len(old) + 1 /\ Append(old, event)[Len(old) + 1] = event
  BY <1>1, <1>3 DEF AlertInv, AlertTypes
<1>8. Streak(alertEvents'[c], rt.consecutive + 1)
  <2>1. /\ Streak(old, rt.consecutive)
        /\ rt.consecutive > 0 => old[Len(old)].at = rt.lastAlertAt
    BY <1>1, <1>2 DEF AlertInv, CountedAlertsStand
  <2>2. rt.consecutive > 0 => 2 * (event.at - old[Len(old)].at) >= event.window
    BY <1>2, <2>1
  <2> HIDE DEF event, rt, old
  <2> QED
    BY <1>4, <1>5, <1>7, <2>1, <2>2, StreakGrows
<1>9. \A d \in AlertCallers : d # c =>
         alertCallers'[d] = alertCallers[d] /\ alertEvents'[d] = alertEvents[d]
  BY <1>1, <1>3 DEF AlertInv, AlertTypes
<1>10. CountedAlertsStand'
  <2>1. alertEvents'[c][Len(alertEvents'[c])].at = alertJob.at
    BY <1>7
  <2> HIDE DEF event, rt, old, c
  <2> QED
    BY <1>5, <1>8, <1>9, <2>1 DEF AlertInv, CountedAlertsStand
<1>11. \A d : Frozen(d)' = Frozen(d)
  BY <1>3 DEF Frozen
<1>12. AlertUnderWay'
  <2>1. alertJob' = AlertNone \/ (alertJob'.do = "freeze" /\ alertJob'.caller = c)
    BY <1>1, <1>3 DEF AlertJob
  <2> QED
    BY <1>2, <1>3, <1>5, <1>11, <2>1 DEF AlertUnderWay, AlertDoing
<1>13. FreezeFollowsAlerts'
  BY <1>2, <1>3, <1>9, <1>11 DEF AlertInv, FreezeFollowsAlerts
<1> QED
  BY <1>6, <1>10, <1>12, <1>13 DEF AlertInv

LEMMA TriggerFreezeKeepsInv ==
  ASSUME AlertInv, TriggerFreeze
  PROVE  AlertInv'
<1> DEFINE c == alertJob.caller
           freeze == [active |-> TRUE, before |-> alertCallers[c].consecutive]
<1>1. /\ alertJob \in AlertJob /\ alertJob # AlertNone /\ alertJob.do = "freeze"
      /\ c \in AlertCallers
  BY DEF TriggerFreeze, AlertDoing, AlertInv, AlertTypes, AlertJob
<1>2. alertCallers[c] # AlertNone /\ alertCallers[c] \in AlertRuntime
  BY <1>1 DEF AlertInv, AlertTypes, AlertUnderWay
<1>3. /\ alertFreezes' = [alertFreezes EXCEPT ![c] = freeze]
      /\ alertJob' = AlertNone
      /\ UNCHANGED <<alertCallers, alertRules, alertEvents, alertNow>>
  BY DEF TriggerFreeze
<1>4. freeze \in AlertFreeze
  BY <1>2 DEF AlertFreeze, AlertRuntime
<1>5. AlertTypes'
  BY <1>1, <1>3, <1>4 DEF AlertInv, AlertTypes
<1>6. CountedAlertsStand' /\ AlertUnderWay'
  BY <1>3 DEF AlertInv, CountedAlertsStand, AlertUnderWay, AlertDoing
<1>7. /\ alertFreezes'[c].before = alertCallers[c].consecutive
      /\ \A d \in AlertCallers : d # c => alertFreezes'[d] = alertFreezes[d]
  BY <1>1, <1>3 DEF AlertInv, AlertTypes
<1>8. Streak(alertEvents[c], alertCallers[c].consecutive)
  BY <1>1, <1>2 DEF AlertInv, CountedAlertsStand
<1>9. FreezeFollowsAlerts'
  <2>1. SUFFICES ASSUME NEW d \in AlertCallers, Frozen(d)'
                 PROVE  Streak(alertEvents[d], alertFreezes'[d].before)
    BY <1>3 DEF FreezeFollowsAlerts
  <2>2. d # c => Frozen(d)
    BY <1>7, <2>1 DEF Frozen
  <2> HIDE DEF c
  <2> QED
    BY <1>7, <1>8, <2>2 DEF AlertInv, FreezeFollowsAlerts
<1> QED
  BY <1>5, <1>6, <1>9 DEF AlertInv

LEMMA UnfreezeKeepsInv ==
  ASSUME AlertInv, NEW c \in AlertCallers, Unfreeze(c)
  PROVE  AlertInv'
<1>1. /\ alertFreezes[c] # AlertNone /\ alertFreezes[c] \in AlertFreeze
      /\ alertFreezes' = [alertFreezes EXCEPT ![c] = [alertFreezes[c] EXCEPT !.active = FALSE]]
      /\ \/ alertCallers' = alertCallers
         \/ /\ alertCallers[c] # AlertNone
            /\ alertCallers' = [alertCallers EXCEPT ![c] = [alertCallers[c] EXCEPT !.consecutive = 0]]
      /\ alertJob = AlertNone /\ alertJob' = AlertNone
      /\ UNCHANGED <<alertRules, alertEvents, alertNow>>
  BY DEF Unfreeze, Frozen, AlertFree, AlertInv, AlertTypes
<1>2. alertCallers[c] # AlertNone =>
        /\ [alertCallers[c] EXCEPT !.consecutive = 0] \in AlertRuntime
        /\ [alertCallers[c] EXCEPT !.consecutive = 0].consecutive = 0
  BY DEF AlertInv, AlertTypes, AlertRuntime
<1>3. /\ [alertFreezes[c] EXCEPT !.active = FALSE] \in AlertFreeze
      /\ [alertFreezes[c] EXCEPT !.active = FALSE].active = FALSE
  BY <1>1 DEF AlertFreeze
<1>4. AlertTypes'
  BY <1>1, <1>2, <1>3 DEF AlertInv, AlertTypes
<1>5. AlertUnderWay'
  BY <1>1 DEF AlertUnderWay, AlertDoing
<1>6. \A d \in AlertCallers : Frozen(d)' => Frozen(d) /\ alertFreezes'[d].before = alertFreezes[d].before
  BY <1>1, <1>3 DEF AlertInv, AlertTypes, Frozen
<1>7. \A d \in AlertCallers :
        alertCallers'[d] # AlertNone /\ alertCallers'[d].consecutive # 0 =>
          alertCallers'[d] = alertCallers[d]
  BY <1>1, <1>2 DEF AlertInv, AlertTypes
<1> QED
  BY <1>1, <1>4, <1>5, <1>6, <1>7, QuietStepKeepsInv

LEMMA AlertCrashKeepsInv ==
  ASSUME AlertInv, AlertCrash \/ AlertTime
  PROVE  AlertInv'
<1>1. CASE AlertCrash
  <2>1. /\ alertCallers' = [c \in AlertCallers |-> AlertNone] /\ alertJob' = AlertNone
        /\ UNCHANGED <<alertRules, alertEvents, alertFreezes, alertNow>>
    BY <1>1 DEF AlertCrash, alertTables
  <2>2. AlertTypes' /\ AlertUnderWay'
    BY <2>1 DEF AlertInv, AlertTypes, AlertUnderWay, AlertDoing
  <2> QED
    BY <2>1, <2>2, QuietStepKeepsInv DEF Frozen
<1>2. CASE AlertTime
  <2>1. /\ alertNow' = alertNow + 1 /\ alertJob = AlertNone
        /\ UNCHANGED <<alertCallers, alertRules, alertEvents, alertFreezes, alertJob>>
    BY <1>2 DEF AlertTime, alertTables
  <2>2. AlertTypes' /\ AlertUnderWay'
    BY <2>1 DEF AlertInv, AlertTypes, AlertUnderWay, AlertDoing
  <2> QED
    BY <2>1, <2>2, QuietStepKeepsInv DEF Frozen
<1> QED
  BY <1>1, <1>2

LEMMA AlertStartKeepsInv ==
  ASSUME AlertInv, AlertStart
  PROVE  AlertInv'
<1>1. /\ alertCallers' = [c \in AlertCallers |->
             IF alertRules[c] = AlertNone THEN AlertNone ELSE Watching(alertRules[c])]
      /\ UNCHANGED <<alertRules, alertEvents, alertFreezes, alertNow, alertJob>>
  BY DEF AlertStart, alertTables
<1>2. ASSUME NEW c \in AlertCallers, alertRules[c] # AlertNone
      PROVE  Watching(alertRules[c]) \in AlertRuntime /\ Watching(alertRules[c]).consecutive = 0
  BY <1>2, WatchingTyped DEF AlertInv, AlertTypes
<1>3. AlertTypes'
  BY <1>1, <1>2 DEF AlertInv, AlertTypes
<1>4. alertJob = AlertNone /\ AlertUnderWay'
  BY <1>1 DEF AlertStart, AlertInv, AlertUnderWay, AlertDoing
<1>5. \A c \in AlertCallers : alertCallers'[c] # AlertNone => alertCallers'[c].consecutive = 0
  BY <1>1, <1>2
<1> QED
  BY <1>1, <1>3, <1>4, <1>5, QuietStepKeepsInv DEF Frozen

LEMMA AlertNextKeepsInv ==
  ASSUME AlertInv, [AlertNext]_alertVars
  PROVE  AlertInv'
<1>1. CASE UNCHANGED alertVars
  BY <1>1 DEF alertVars, alertTables, alertProcess, AlertInv, AlertTypes, CountedAlertsStand,
              AlertUnderWay, AlertDoing, FreezeFollowsAlerts, Frozen
<1>2. CASE WriteRule \/ TriggerAlert \/ TriggerFreeze \/ CleanupExpiredRecords
  BY <1>2, WriteRuleKeepsInv, TriggerAlertKeepsInv, TriggerFreezeKeepsInv, CleanupKeepsInv
<1>3. CASE AlertTime \/ AlertCrash \/ AlertStart
  BY <1>3, AlertCrashKeepsInv, AlertStartKeepsInv
<1>4. ASSUME NEW c \in AlertCallers, DeleteRule(c) \/ Unfreeze(c)
      PROVE  AlertInv'
  BY <1>4, DeleteRuleKeepsInv, UnfreezeKeepsInv
<1>5. ASSUME NEW c \in AlertCallers, NEW rule \in AlertRuleChoices, SetRule(c, rule)
      PROVE  AlertInv'
  BY <1>5, SetRuleKeepsInv, AlertAssumption
<1>6. ASSUME NEW c \in AlertCallers, NEW units \in AlertUnits, NEW late \in 0..AlertDelay,
             RecordConsumption(c, units, alertNow - late)
      PROVE  AlertInv'
  <2>1. units \in Nat /\ alertNow - late \in Int
    BY AlertAssumption DEF AlertInv, AlertTypes
  <2> QED
    BY <1>6, <2>1, RecordConsumptionKeepsInv
<1> QED
  BY <1>1, <1>2, <1>3, <1>4, <1>5, <1>6 DEF AlertNext

(* Nobody is frozen on fewer alerts than its freeze counts, nor on alerts  *)
(* less than half a window apart, whatever the rules, however late the     *)
(* consumption is recorded and wherever a crash comes.                     *)
THEOREM FrozenWithCause == AlertSpec => []FreezeFollowsAlerts
<1>1. AlertInit => AlertInv
  BY AlertInitInv
<1>2. AlertInv /\ [AlertNext]_alertVars => AlertInv'
  BY AlertNextKeepsInv
<1>3. AlertInv => FreezeFollowsAlerts
  BY DEF AlertInv
<1> QED
  BY <1>1, <1>2, <1>3, PTL DEF AlertSpec

-----------------------------------------------------------------------------
(* Handovers *)

HoSpec == HoInit /\ [][HoNext]_hoVars

HoTracked == HoTxs \cup HoReservations

HandoverTypes ==
  /\ handovers \in [Handovers -> HandoverRow \cup {HoNobody}]
  /\ hoOwner \in [HoResources -> HoCallers \cup {HoNobody}]
  /\ hoSecond \in [HoTwoRows -> HoCallers \cup {HoNobody}]
  /\ \A r \in HoTxs : hoSecond[r] \in HoCallers
  /\ hoMeant \in [HoTracked -> HoCallers]
  /\ hoJob \in HoJob \cup {HoNobody}

(* The handover under way has a row, and what is done and what is left are *)
(* its resources.                                                          *)
JobOfHandover ==
  hoJob # HoNobody =>
    /\ handovers[hoJob.id] # HoNobody
    /\ hoJob.do \in {"check", "first", "second"} =>
         ToSet(hoJob.undo) \cup ToSet(hoJob.left) = ToSet(handovers[hoJob.id].resources)
    /\ ToSet(hoJob.undo) \subseteq ToSet(handovers[hoJob.id].resources)
    /\ hoJob.do \in {"first", "second"} => hoJob.left # <<>>
    /\ hoJob.do = "undo other" => hoJob.undo # <<>> /\ Head(hoJob.undo) \in HoTwoRows

(* Every row of r has it with whom the completed handovers gave it to,     *)
(* or with c.                                                              *)
WithOwner(r) == hoOwner[r] = hoMeant[r] /\ (r \in HoTxs => hoSecond[r] = hoMeant[r])
WithReceiver(r) == hoOwner[r] = HoTo /\ (r \in HoTxs => hoSecond[r] = HoTo)

(* Whether the method is between the two rows of r                         *)
HalfGiven(r) == hoJob.do = "second" /\ HoAt = r
HalfTaken(r) == hoJob.do = "undo other" /\ Head(hoJob.undo) = r

(* What the rows of r say while a handover is under way *)
Underway(r) ==
  /\ r \notin ToSet(hoJob.undo) /\ ~HalfGiven(r) => WithOwner(r)
  /\ r \in ToSet(hoJob.undo) \/ HalfGiven(r) => hoMeant[r] = HoFrom
  /\ hoJob.do \in {"check", "first", "second"} /\ r \in ToSet(hoJob.undo) /\ ~HalfGiven(r) =>
       WithReceiver(r)
  /\ hoJob.do = "first" /\ HoAt = r => hoMeant[r] = HoFrom
  /\ HalfGiven(r) => hoOwner[r] = HoTo
  /\ HalfTaken(r) => hoOwner[r] = HoFrom

RowsFollowHandovers ==
  \A r \in HoTracked \ hoTorn :
    IF hoJob = HoNobody THEN WithOwner(r) ELSE Underway(r)

HandoverInv == HandoverTypes /\ JobOfHandover /\ RowsFollowHandovers

-----------------------------------------------------------------------------
(* Sequences of resources *)

LEMMA NothingListed == ToSet(<<>>) = {}
BY DEF ToSet

LEMMA ListKept ==
  ASSUME NEW S, NEW s \in Seq(S), NEW n \in 0..Len(s)
  PROVE  SubSeq(s, 1, n) \in Seq(S)
OBVIOUS

-----------------------------------------------------------------------------
(* Steps that move no row *)

(* Whatever touches neither a row nor the method under way, nor the        *)
(* resources of the handover it is about                                   *)
LEMMA StatusStepKeeps ==
  ASSUME HandoverInv, handovers' \in [Handovers -> HandoverRow \cup {HoNobody}],
         hoJob = HoNobody, hoJob' = HoNobody,
         UNCHANGED <<hoOwner, hoSecond, hoMeant, hoTorn>>
  PROVE  HandoverInv'
BY DEF HandoverInv, HandoverTypes, JobOfHandover, RowsFollowHandovers, WithOwner

LEMMA OtherHandoverStepsKeep ==
  ASSUME HandoverInv, UNCHANGED <<handovers, hoOwner, hoSecond, hoMeant, hoTorn, hoJob>>
  PROVE  HandoverInv'
BY DEF HandoverInv, HandoverTypes, JobOfHandover, RowsFollowHandovers, WithOwner, Underway,
       WithReceiver, HalfGiven, HalfTaken, HoAt, HoFrom, HoTo

LEMMA CreateHandoverKeeps ==
  ASSUME HandoverInv, NEW n \in Handovers, NEW request \in HoRequests, CreateHandover(n, request)
  PROVE  HandoverInv'
<1>1. PICK kept \in 0..Len(request.resources) :
        handovers' = [handovers EXCEPT ![n] =
          [from |-> request.from, to |-> request.to, confirm |-> request.confirm,
           resources |-> SubSeq(request.resources, 1, kept),
           status |-> "created", passed |-> TRUE]]
  BY DEF CreateHandover
<1>2. request \in HoRequest
  BY HandoverAssumption
<1>3. SubSeq(request.resources, 1, kept) \in HoList
  BY <1>2, ListKept DEF HoRequest, HoList
<1>4. handovers' \in [Handovers -> HandoverRow \cup {HoNobody}]
  BY <1>1, <1>2, <1>3 DEF HandoverInv, HandoverTypes, HandoverRow, HoRequest
<1> QED
  BY <1>4, StatusStepKeeps DEF CreateHandover, hoRows

LEMMA StatusTyped ==
  ASSUME HandoverInv, NEW n \in Handovers, handovers[n] # HoNobody
  PROVE  /\ handovers[n] \in HandoverRow
         /\ \A status \in HoFinal \cup {"created", "prechecked", "pending_receive"} :
              UpdateHandoverStatus(n, status) =>
                handovers' \in [Handovers -> HandoverRow \cup {HoNobody}]
BY DEF HandoverInv, HandoverTypes, HandoverRow, UpdateHandoverStatus

LEMMA PreCheckKeeps ==
  ASSUME HandoverInv, NEW n \in Handovers, PreCheck(n)
  PROVE  HandoverInv'
<1>1. PICK passed \in BOOLEAN :
        handovers' = [handovers EXCEPT ![n].passed = passed, ![n].status = "prechecked"]
  BY DEF PreCheck
<1>2. handovers[n] \in HandoverRow
  BY StatusTyped DEF PreCheck, HoIs
<1>3. handovers' \in [Handovers -> HandoverRow \cup {HoNobody}]
  BY <1>1, <1>2 DEF HandoverInv, HandoverTypes, HandoverRow
<1> QED
  BY <1>3, StatusStepKeeps DEF PreCheck, HoIs, hoRows, hoHistory

LEMMA ExecuteKeeps ==
  ASSUME HandoverInv, NEW n \in Handovers, hoJob = HoNobody, handovers[n] # HoNobody,
         ExecuteInternal(n), UNCHANGED <<handovers, hoOwner, hoSecond, hoMeant, hoTorn>>
  PROVE  HandoverInv'
<1> USE HoNobodyAssumption
<1>1. handovers[n] \in HandoverRow /\ handovers[n].resources \in HoList
  BY StatusTyped DEF HandoverRow
<1>2. <<>> \in HoList
  BY DEF HoList
<1>a. hoJob' = [do |-> "check", id |-> n, undo |-> <<>>, left |-> handovers[n].resources]
  BY DEF ExecuteInternal
<1>b. hoJob' \in HoJob
  BY <1>a, <1>1, <1>2 DEF HoJob
<1>3. hoJob' \in HoJob /\ hoJob' # HoNobody /\ hoJob'.do = "check" /\ hoJob'.id = n
      /\ hoJob'.undo = <<>> /\ hoJob'.left = handovers[n].resources
  BY <1>a, <1>b
<1>4. HandoverTypes'
  BY <1>3 DEF HandoverInv, HandoverTypes
<1>5. JobOfHandover'
  BY <1>3, NothingListed DEF JobOfHandover
<1>6. RowsFollowHandovers'
  BY <1>3, NothingListed
  DEF HandoverInv, RowsFollowHandovers, WithOwner, Underway, HalfGiven, HalfTaken
<1> QED
  BY <1>4, <1>5, <1>6 DEF HandoverInv

LEMMA InitiateKeeps ==
  ASSUME HandoverInv, NEW n \in Handovers, Initiate(n)
  PROVE  HandoverInv'
<1>1. CASE handovers[n].confirm
  BY <1>1, StatusTyped, StatusStepKeeps DEF Initiate, HoIs, hoRows, hoHistory
<1>2. CASE ~handovers[n].confirm
  BY <1>2, ExecuteKeeps DEF Initiate, HoIs, hoRows, hoHistory
<1> QED
  BY <1>1, <1>2

LEMMA ConfirmKeeps ==
  ASSUME HandoverInv, NEW n \in Handovers, NEW accept \in BOOLEAN, Confirm(n, accept)
  PROVE  HandoverInv'
<1>1. CASE accept
  BY <1>1, ExecuteKeeps DEF Confirm, HoIs, hoRows, hoHistory
<1>2. CASE ~accept
  BY <1>2, StatusTyped, StatusStepKeeps DEF Confirm, HoIs, hoRows, hoHistory, HoFinal
<1> QED
  BY <1>1, <1>2

LEMMA CancelKeeps ==
  ASSUME HandoverInv, NEW n \in Handovers, Cancel(n)
  PROVE  HandoverInv'
BY StatusTyped, StatusStepKeeps DEF Cancel, hoRows, hoHistory, HoFinal

LEMMA ExpiryOfHandoverKeeps ==
  ASSUME HandoverInv, CheckAndCancelExpired
  PROVE  HandoverInv'
BY StatusTyped, StatusStepKeeps
DEF CheckAndCancelExpired, ListExpiredPendingHandovers, HoIs, hoRows, hoHistory, HoFinal

-----------------------------------------------------------------------------
(* executeInternalLocked *)

LEMMA JobTyped ==
  ASSUME HandoverInv, hoJob # HoNobody
  PROVE  /\ hoJob \in HoJob /\ hoJob.id \in Handovers
         /\ hoJob.undo \in HoList /\ hoJob.left \in HoList
         /\ handovers[hoJob.id] \in HandoverRow /\ HoFrom \in HoCallers /\ HoTo \in HoCallers
BY DEF HandoverInv, HandoverTypes, JobOfHandover, HoJob, HandoverRow, HoFrom, HoTo

(* What the method is about to do, or to undo, is one of the resources.    *)
LEMMA JobLists ==
  ASSUME HandoverInv, hoJob # HoNobody
  PROVE  /\ hoJob.left # <<>> =>
              /\ HoAt \in HoResources \cup {"quota"} /\ Tail(hoJob.left) \in HoList
              /\ ToSet(hoJob.left) = {HoAt} \cup ToSet(Tail(hoJob.left))
              /\ <<HoAt>> \o hoJob.undo \in HoList
              /\ ToSet(<<HoAt>> \o hoJob.undo) = {HoAt} \cup ToSet(hoJob.undo)
         /\ hoJob.undo # <<>> =>
              /\ Head(hoJob.undo) \in HoResources \cup {"quota"} /\ Tail(hoJob.undo) \in HoList
              /\ ToSet(hoJob.undo) = {Head(hoJob.undo)} \cup ToSet(Tail(hoJob.undo))
BY JobTyped, ListHeadAndTail, ListPrepended DEF HoList, HoAt

(* The method goes on with the same handover.                              *)
LEMMA JobGoesOn ==
  ASSUME HandoverInv, hoJob # HoNobody, UNCHANGED handovers,
         NEW do \in {"check", "first", "second", "undo", "undo other"},
         NEW undo \in HoList, NEW left \in HoList,
         hoJob' = [hoJob EXCEPT !.do = do, !.undo = undo, !.left = left]
  PROVE  /\ hoJob' \in HoJob /\ hoJob' # HoNobody
         /\ hoJob'.do = do /\ hoJob'.undo = undo /\ hoJob'.left = left /\ hoJob'.id = hoJob.id
         /\ HoFrom' = HoFrom /\ HoTo' = HoTo
<1>1. hoJob \in HoJob
  BY JobTyped
<1>2. hoJob' \in HoJob
  BY <1>1 DEF HoJob
<1>3. hoJob'.do = do /\ hoJob'.undo = undo /\ hoJob'.left = left /\ hoJob'.id = hoJob.id
  BY <1>1 DEF HoJob
<1> QED
  BY <1>2, <1>3, HoNobodyAssumption DEF HoFrom, HoTo

LEMMA JobDoesOnly ==
  ASSUME HandoverInv, hoJob # HoNobody, UNCHANGED handovers,
         NEW do \in {"check", "first", "second", "undo", "undo other"}, HoDoes(do)
  PROVE  /\ hoJob' \in HoJob /\ hoJob' # HoNobody
         /\ hoJob'.do = do /\ hoJob'.undo = hoJob.undo /\ hoJob'.left = hoJob.left
         /\ hoJob'.id = hoJob.id /\ HoFrom' = HoFrom /\ HoTo' = HoTo
<1>1. hoJob \in HoJob /\ hoJob.undo \in HoList /\ hoJob.left \in HoList
  BY JobTyped
<1>2. hoJob' = [hoJob EXCEPT !.do = do, !.undo = hoJob.undo, !.left = hoJob.left]
  BY <1>1 DEF HoDoes, HoJob
<1> QED
  BY <1>1, <1>2, JobGoesOn

LEMMA JobNextResource ==
  ASSUME HandoverInv, hoJob # HoNobody, UNCHANGED handovers, hoJob.left # <<>>, HoNextResource
  PROVE  /\ hoJob' \in HoJob /\ hoJob' # HoNobody
         /\ hoJob'.do = "check" /\ hoJob'.undo = <<HoAt>> \o hoJob.undo
         /\ hoJob'.left = Tail(hoJob.left)
         /\ hoJob'.id = hoJob.id /\ HoFrom' = HoFrom /\ HoTo' = HoTo
<1>1. hoJob' = [hoJob EXCEPT !.do = "check", !.undo = <<HoAt>> \o hoJob.undo,
                             !.left = Tail(hoJob.left)]
  BY JobTyped DEF HoNextResource, HoJob
<1> QED
  BY <1>1, JobLists, JobGoesOn

LEMMA JobUndone ==
  ASSUME HandoverInv, hoJob # HoNobody, UNCHANGED handovers, hoJob.undo # <<>>, HoUndone
  PROVE  /\ hoJob' \in HoJob /\ hoJob' # HoNobody
         /\ hoJob'.do = "undo" /\ hoJob'.undo = Tail(hoJob.undo) /\ hoJob'.left = hoJob.left
         /\ hoJob'.id = hoJob.id /\ HoFrom' = HoFrom /\ HoTo' = HoTo
<1>1. hoJob.left \in HoList /\ Tail(hoJob.undo) \in HoList
  BY JobTyped, JobLists
<1>2. hoJob' = [hoJob EXCEPT !.do = "undo", !.undo = Tail(hoJob.undo), !.left = hoJob.left]
  BY JobTyped DEF HoUndone, HoJob
<1> QED
  BY <1>1, <1>2, JobGoesOn

LEMMA CheckSourceKeeps ==
  ASSUME HandoverInv, CheckSource
  PROVE  HandoverInv'
<1>1. hoJob # HoNobody /\ hoJob.do = "check" /\ hoJob.left # <<>>
      /\ UNCHANGED <<handovers, hoOwner, hoSecond, hoMeant, hoTorn>>
  BY DEF CheckSource, HoDoing, hoRows, hoHistory
<1>2. PICK do \in {"first", "undo"} :
        HoDoes(do) /\ (do = "first" => StillHeldBySource(HoAt))
  BY DEF CheckSource
<1>3. /\ hoJob' \in HoJob /\ hoJob' # HoNobody
      /\ hoJob'.do = do /\ hoJob'.undo = hoJob.undo /\ hoJob'.left = hoJob.left
      /\ hoJob'.id = hoJob.id /\ HoFrom' = HoFrom /\ HoTo' = HoTo /\ HoAt' = HoAt
  BY <1>1, <1>2, JobDoesOnly DEF HoAt
<1>4. HandoverTypes'
  BY <1>1, <1>3 DEF HandoverInv, HandoverTypes
<1>5. JobOfHandover'
  BY <1>1, <1>3 DEF HandoverInv, JobOfHandover
<1>6. ASSUME NEW r \in HoTracked \ hoTorn
      PROVE  Underway(r)'
  <2>1. Underway(r)
    BY <1>1 DEF HandoverInv, RowsFollowHandovers
  <2>2. do = "first" /\ HoAt = r => hoMeant[r] = HoFrom
    <3>1. SUFFICES ASSUME do = "first", HoAt = r
                   PROVE  hoMeant[r] = HoFrom
      OBVIOUS
    <3>2. hoOwner[r] = HoFrom
      BY <3>1, <1>2, HandoverAssumption
      DEF StillHeldBySource, HoTracked, HoResources, HoTwoRows
    <3> QED
      BY <3>2, <2>1, <1>1 DEF Underway, WithOwner, HalfGiven
  <2> QED
    BY <2>1, <2>2, <1>1, <1>3
    DEF Underway, WithOwner, WithReceiver, HalfGiven, HalfTaken
<1>7. RowsFollowHandovers'
  BY <1>1, <1>3, <1>6 DEF RowsFollowHandovers
<1> QED
  BY <1>4, <1>5, <1>7 DEF HandoverInv

LEMMA TransferReservationKeeps ==
  ASSUME HandoverInv, TransferReservationCaller
  PROVE  HandoverInv'
<1>1. /\ hoJob # HoNobody /\ hoJob.do = "first" /\ hoJob.left # <<>> /\ HoAt \in HoReservations
      /\ hoOwner' = [hoOwner EXCEPT ![HoAt] = HoTo] /\ HoNextResource
      /\ UNCHANGED <<handovers, hoSecond, hoMeant, hoTorn>>
  BY DEF TransferReservationCaller, HoDoing, hoHistory, HandoverInv, JobOfHandover
<1>2. /\ hoJob' \in HoJob /\ hoJob' # HoNobody
      /\ hoJob'.do = "check" /\ hoJob'.undo = <<HoAt>> \o hoJob.undo
      /\ hoJob'.left = Tail(hoJob.left)
      /\ hoJob'.id = hoJob.id /\ HoFrom' = HoFrom /\ HoTo' = HoTo
  BY <1>1, JobNextResource
<1>3. /\ ToSet(hoJob'.undo) = {HoAt} \cup ToSet(hoJob.undo)
      /\ ToSet(hoJob.left) = {HoAt} \cup ToSet(hoJob'.left)
  BY <1>1, <1>2, JobLists
<1>4. hoOwner' \in [HoResources -> HoCallers \cup {HoNobody}]
  BY <1>1, JobTyped DEF HandoverInv, HandoverTypes, HoResources
<1>5. HandoverTypes'
  BY <1>1, <1>2, <1>4 DEF HandoverInv, HandoverTypes
<1>6. JobOfHandover'
  BY <1>1, <1>2, <1>3 DEF HandoverInv, JobOfHandover
<1>7. ASSUME NEW r \in HoTracked \ hoTorn
      PROVE  Underway(r)'
  <2>1. Underway(r)
    BY <1>1 DEF HandoverInv, RowsFollowHandovers
  <2>2. CASE r = HoAt
    <3>1. hoOwner'[r] = HoTo /\ hoMeant'[r] = HoFrom /\ r \notin HoTxs
      BY <2>1, <2>2, <1>1, HandoverAssumption
      DEF Underway, HandoverInv, HandoverTypes, HoResources, HoTwoRows
    <3> QED
      BY <3>1, <2>2, <1>2, <1>3 DEF Underway, WithReceiver, HalfGiven, HalfTaken
  <2>3. CASE r # HoAt
    <3>1. hoOwner'[r] = hoOwner[r]
      BY <2>3, <1>1 DEF HandoverInv, HandoverTypes, HoTracked, HoResources, HoTwoRows
    <3> QED
      BY <3>1, <2>3, <2>1, <1>1, <1>2, <1>3
      DEF Underway, WithOwner, WithReceiver, HalfGiven, HalfTaken
  <2> QED
    BY <2>2, <2>3
<1>8. RowsFollowHandovers'
  BY <1>1, <1>2, <1>7 DEF RowsFollowHandovers
<1> QED
  BY <1>5, <1>6, <1>8 DEF HandoverInv

LEMMA TransferHolderKeeps ==
  ASSUME HandoverInv, TransferHolder
  PROVE  HandoverInv'
<1>1. /\ hoJob # HoNobody /\ hoJob.do = "first" /\ hoJob.left # <<>> /\ HoAt \in HoTwoRows
      /\ hoOwner' = [hoOwner EXCEPT ![HoAt] = HoTo] /\ HoDoes("second")
      /\ UNCHANGED <<handovers, hoSecond, hoMeant, hoTorn>>
  BY DEF TransferHolder, HoDoing, hoHistory, HandoverInv, JobOfHandover
<1>2. /\ hoJob' \in HoJob /\ hoJob' # HoNobody
      /\ hoJob'.do = "second" /\ hoJob'.undo = hoJob.undo /\ hoJob'.left = hoJob.left
      /\ hoJob'.id = hoJob.id /\ HoFrom' = HoFrom /\ HoTo' = HoTo /\ HoAt' = HoAt
  BY <1>1, JobDoesOnly DEF HoAt
<1>3. hoOwner' \in [HoResources -> HoCallers \cup {HoNobody}]
  BY <1>1, JobTyped DEF HandoverInv, HandoverTypes, HoResources
<1>4. HandoverTypes'
  BY <1>1, <1>2, <1>3 DEF HandoverInv, HandoverTypes
<1>5. JobOfHandover'
  BY <1>1, <1>2 DEF HandoverInv, JobOfHandover
<1>6. ASSUME NEW r \in HoTracked \ hoTorn
      PROVE  Underway(r)'
  <2>1. Underway(r)
    BY <1>1 DEF HandoverInv, RowsFollowHandovers
  <2>2. CASE r = HoAt
    <3>1. hoOwner'[r] = HoTo /\ hoMeant'[r] = HoFrom
      BY <2>1, <2>2, <1>1 DEF Underway, HandoverInv, HandoverTypes, HoResources
    <3> QED
      BY <3>1, <2>2, <1>2 DEF Underway, HalfGiven, HalfTaken
  <2>3. CASE r # HoAt
    <3>1. hoOwner'[r] = hoOwner[r]
      BY <2>3, <1>1 DEF HandoverInv, HandoverTypes, HoTracked, HoResources, HoTwoRows
    <3> QED
      BY <3>1, <2>3, <2>1, <1>1, <1>2
      DEF Underway, WithOwner, WithReceiver, HalfGiven, HalfTaken
  <2> QED
    BY <2>2, <2>3
<1>7. RowsFollowHandovers'
  BY <1>1, <1>2, <1>6 DEF RowsFollowHandovers
<1> QED
  BY <1>4, <1>5, <1>7 DEF HandoverInv

(* The second row of the resource, the lease of a free lock excepted       *)
LEMMA SecondRowTyped ==
  ASSUME HandoverInv, NEW h \in HoTwoRows, NEW c \in HoCallers, SecondRow(h, c)
  PROVE  /\ hoSecond' \in [HoTwoRows -> HoCallers \cup {HoNobody}]
         /\ \A r \in HoTwoRows : r # h => hoSecond'[r] = hoSecond[r]
         /\ \A r \in HoTxs : hoSecond'[r] \in HoCallers /\ (r = h => hoSecond'[r] = c)
BY HoNobodyAssumption DEF HandoverInv, HandoverTypes, SecondRow, HoTwoRows

LEMMA TransferSecondKeeps ==
  ASSUME HandoverInv, TransferSecond
  PROVE  HandoverInv'
<1>1. /\ hoJob # HoNobody /\ hoJob.do = "second" /\ hoJob.left # <<>> /\ HoAt \in HoTwoRows
      /\ SecondRow(HoAt, HoTo) /\ HoNextResource
      /\ UNCHANGED <<handovers, hoOwner, hoMeant, hoTorn>>
  BY DEF TransferSecond, HoDoing, hoHistory, HandoverInv, JobOfHandover
<1>2. /\ hoJob' \in HoJob /\ hoJob' # HoNobody
      /\ hoJob'.do = "check" /\ hoJob'.undo = <<HoAt>> \o hoJob.undo
      /\ hoJob'.left = Tail(hoJob.left)
      /\ hoJob'.id = hoJob.id /\ HoFrom' = HoFrom /\ HoTo' = HoTo
  BY <1>1, JobNextResource
<1>3. /\ ToSet(hoJob'.undo) = {HoAt} \cup ToSet(hoJob.undo)
      /\ ToSet(hoJob.left) = {HoAt} \cup ToSet(hoJob'.left)
  BY <1>1, <1>2, JobLists
<1>4. /\ hoSecond' \in [HoTwoRows -> HoCallers \cup {HoNobody}]
      /\ \A r \in HoTwoRows : r # HoAt => hoSecond'[r] = hoSecond[r]
      /\ \A r \in HoTxs : hoSecond'[r] \in HoCallers /\ (r = HoAt => hoSecond'[r] = HoTo)
  BY <1>1, SecondRowTyped, JobTyped
<1>5. HandoverTypes'
  BY <1>1, <1>2, <1>4 DEF HandoverInv, HandoverTypes
<1>6. JobOfHandover'
  BY <1>1, <1>2, <1>3 DEF HandoverInv, JobOfHandover
<1>7. ASSUME NEW r \in HoTracked \ hoTorn
      PROVE  Underway(r)'
  <2>1. Underway(r)
    BY <1>1 DEF HandoverInv, RowsFollowHandovers
  <2>2. CASE r = HoAt
    <3>1. hoOwner'[r] = HoTo /\ hoMeant'[r] = HoFrom /\ (r \in HoTxs => hoSecond'[r] = HoTo)
      BY <2>1, <2>2, <1>1, <1>4 DEF Underway, HalfGiven
    <3> QED
      BY <3>1, <2>2, <1>2, <1>3 DEF Underway, WithReceiver, HalfGiven, HalfTaken
  <2>3. CASE r # HoAt
    <3>1. r \in HoTxs => hoSecond'[r] = hoSecond[r]
      BY <2>3, <1>4 DEF HoTwoRows
    <3> QED
      BY <3>1, <2>3, <2>1, <1>1, <1>2, <1>3
      DEF Underway, WithOwner, WithReceiver, HalfGiven, HalfTaken
  <2> QED
    BY <2>2, <2>3
<1>8. RowsFollowHandovers'
  BY <1>1, <1>2, <1>7 DEF RowsFollowHandovers
<1> QED
  BY <1>5, <1>6, <1>8 DEF HandoverInv

LEMMA TransferQuotaToKeeps ==
  ASSUME HandoverInv, TransferQuotaTo
  PROVE  HandoverInv'
<1>1. /\ hoJob # HoNobody /\ hoJob.do = "first" /\ HoAt = "quota" /\ HoDoes("second")
      /\ UNCHANGED <<handovers, hoOwner, hoSecond, hoMeant, hoTorn>>
  BY DEF TransferQuotaTo, HoDoing, hoHistory
<1>2. /\ hoJob' \in HoJob /\ hoJob' # HoNobody
      /\ hoJob'.do = "second" /\ hoJob'.undo = hoJob.undo /\ hoJob'.left = hoJob.left
      /\ hoJob'.id = hoJob.id /\ HoFrom' = HoFrom /\ HoTo' = HoTo /\ HoAt' = HoAt
  BY <1>1, JobDoesOnly DEF HoAt
<1>3. HandoverTypes'
  BY <1>1, <1>2 DEF HandoverInv, HandoverTypes
<1>4. JobOfHandover'
  BY <1>1, <1>2 DEF HandoverInv, JobOfHandover
<1>5. \A r \in HoTracked : r # "quota"
  BY HandoverAssumption DEF HoTracked, HoResources, HoTwoRows
<1>6. RowsFollowHandovers'
  BY <1>1, <1>2, <1>5
  DEF HandoverInv, RowsFollowHandovers, Underway, WithOwner, WithReceiver, HalfGiven, HalfTaken
<1> QED
  BY <1>3, <1>4, <1>6 DEF HandoverInv

LEMMA TransferQuotaFromKeeps ==
  ASSUME HandoverInv, TransferQuotaFrom
  PROVE  HandoverInv'
<1>1. /\ hoJob # HoNobody /\ hoJob.do = "second" /\ hoJob.left # <<>> /\ HoAt = "quota"
      /\ HoNextResource /\ UNCHANGED <<handovers, hoOwner, hoSecond, hoMeant, hoTorn>>
  BY DEF TransferQuotaFrom, HoDoing, hoRows, hoHistory, HandoverInv, JobOfHandover
<1>2. /\ hoJob' \in HoJob /\ hoJob' # HoNobody
      /\ hoJob'.do = "check" /\ hoJob'.undo = <<HoAt>> \o hoJob.undo
      /\ hoJob'.left = Tail(hoJob.left)
      /\ hoJob'.id = hoJob.id /\ HoFrom' = HoFrom /\ HoTo' = HoTo
  BY <1>1, JobNextResource
<1>3. /\ ToSet(hoJob'.undo) = {HoAt} \cup ToSet(hoJob.undo)
      /\ ToSet(hoJob.left) = {HoAt} \cup ToSet(hoJob'.left)
  BY <1>1, <1>2, JobLists
<1>4. HandoverTypes'
  BY <1>1, <1>2 DEF HandoverInv, HandoverTypes
<1>5. JobOfHandover'
  BY <1>1, <1>2, <1>3 DEF HandoverInv, JobOfHandover
<1>6. \A r \in HoTracked : r # "quota"
  BY HandoverAssumption DEF HoTracked, HoResources, HoTwoRows
<1>7. RowsFollowHandovers'
  BY <1>1, <1>2, <1>3, <1>6
  DEF HandoverInv, RowsFollowHandovers, Underway, WithOwner, WithReceiver, HalfGiven, HalfTaken
<1> QED
  BY <1>4, <1>5, <1>7 DEF HandoverInv

(* The handover is completed: each of its resources has been moved, so had *)
(* the source as its owner.                                                *)
LEMMA CompleteKeeps ==
  ASSUME HandoverInv, HoComplete
  PROVE  HandoverInv'
<1>1. /\ hoJob # HoNobody /\ hoJob.do = "check" /\ hoJob.left = <<>>
      /\ UpdateHandoverStatus(hoJob.id, "completed") /\ hoJob' = HoNobody
      /\ hoMeant' = [r \in DOMAIN hoMeant |->
           IF r \in ToSet(handovers[hoJob.id].resources) /\ hoMeant[r] = HoFrom
           THEN HoTo ELSE hoMeant[r]]
      /\ UNCHANGED <<hoOwner, hoSecond, hoTorn>>
  BY DEF HoComplete, HoDoing, hoRows
<1>2. handovers[hoJob.id] # HoNobody /\ ToSet(hoJob.undo) = ToSet(handovers[hoJob.id].resources)
  BY <1>1, NothingListed DEF HandoverInv, JobOfHandover
<1>3. handovers' \in [Handovers -> HandoverRow \cup {HoNobody}]
  BY <1>1, <1>2, JobTyped, StatusTyped DEF HoFinal
<1>4. hoMeant' \in [HoTracked -> HoCallers]
  BY <1>1, JobTyped DEF HandoverInv, HandoverTypes
<1>5. HandoverTypes'
  BY <1>1, <1>3, <1>4 DEF HandoverInv, HandoverTypes
<1>6. JobOfHandover'
  BY <1>1 DEF JobOfHandover
<1>7. ASSUME NEW r \in HoTracked \ hoTorn
      PROVE  WithOwner(r)'
  <2>1. Underway(r) /\ r \in DOMAIN hoMeant
    BY <1>1 DEF HandoverInv, HandoverTypes, RowsFollowHandovers
  <2>2. CASE r \in ToSet(hoJob.undo)
    <3>1. WithReceiver(r) /\ hoMeant'[r] = HoTo
      BY <2>1, <2>2, <1>1, <1>2 DEF Underway, HalfGiven
    <3> QED
      BY <3>1, <1>1 DEF WithReceiver, WithOwner
  <2>3. CASE r \notin ToSet(hoJob.undo)
    <3>1. WithOwner(r) /\ hoMeant'[r] = hoMeant[r]
      BY <2>1, <2>3, <1>1, <1>2 DEF Underway, HalfGiven
    <3> QED
      BY <3>1, <1>1 DEF WithOwner
  <2> QED
    BY <2>2, <2>3
<1>8. RowsFollowHandovers'
  BY <1>1, <1>7 DEF RowsFollowHandovers
<1> QED
  BY <1>5, <1>6, <1>8 DEF HandoverInv

-----------------------------------------------------------------------------
(* rollbackAllLocked *)

LEMMA UndoQuotaKeeps ==
  ASSUME HandoverInv, UndoQuota
  PROVE  HandoverInv'
<1>1. /\ hoJob # HoNobody /\ hoJob.do = "undo" /\ hoJob.undo # <<>>
      /\ Head(hoJob.undo) = "quota" /\ HoUndone
      /\ UNCHANGED <<handovers, hoOwner, hoSecond, hoMeant, hoTorn>>
  BY DEF UndoQuota, HoDoing, hoRows, hoHistory
<1>2. /\ hoJob' \in HoJob /\ hoJob' # HoNobody
      /\ hoJob'.do = "undo" /\ hoJob'.undo = Tail(hoJob.undo) /\ hoJob'.left = hoJob.left
      /\ hoJob'.id = hoJob.id /\ HoFrom' = HoFrom /\ HoTo' = HoTo
  BY <1>1, JobUndone
<1>3. ToSet(hoJob.undo) = {"quota"} \cup ToSet(hoJob'.undo)
  BY <1>1, <1>2, JobLists
<1>4. HandoverTypes'
  BY <1>1, <1>2 DEF HandoverInv, HandoverTypes
<1>5. JobOfHandover'
  BY <1>1, <1>2, <1>3 DEF HandoverInv, JobOfHandover
<1>6. \A r \in HoTracked : r # "quota"
  BY HandoverAssumption DEF HoTracked, HoResources, HoTwoRows
<1>7. RowsFollowHandovers'
  BY <1>1, <1>2, <1>3, <1>6
  DEF HandoverInv, RowsFollowHandovers, Underway, WithOwner, WithReceiver, HalfGiven, HalfTaken
<1> QED
  BY <1>4, <1>5, <1>7 DEF HandoverInv

LEMMA UndoReservationKeeps ==
  ASSUME HandoverInv, UndoReservation
  PROVE  HandoverInv'
<1>1. /\ hoJob # HoNobody /\ hoJob.do = "undo" /\ hoJob.undo # <<>> /\ HoUndone
      /\ Head(hoJob.undo) \in HoReservations
      /\ hoOwner' = [hoOwner EXCEPT ![Head(hoJob.undo)] = HoFrom]
      /\ UNCHANGED <<handovers, hoSecond, hoMeant, hoTorn>>
  BY DEF UndoReservation, HoDoing, hoHistory
<1>2. /\ hoJob' \in HoJob /\ hoJob' # HoNobody
      /\ hoJob'.do = "undo" /\ hoJob'.undo = Tail(hoJob.undo) /\ hoJob'.left = hoJob.left
      /\ hoJob'.id = hoJob.id /\ HoFrom' = HoFrom /\ HoTo' = HoTo
  BY <1>1, JobUndone
<1>3. ToSet(hoJob.undo) = {Head(hoJob.undo)} \cup ToSet(hoJob'.undo)
  BY <1>1, <1>2, JobLists
<1>4. hoOwner' \in [HoResources -> HoCallers \cup {HoNobody}]
  BY <1>1, JobTyped DEF HandoverInv, HandoverTypes, HoResources
<1>5. HandoverTypes'
  BY <1>1, <1>2, <1>4 DEF HandoverInv, HandoverTypes
<1>6. JobOfHandover'
  BY <1>1, <1>2, <1>3 DEF HandoverInv, JobOfHandover
<1>7. ASSUME NEW r \in HoTracked \ hoTorn
      PROVE  Underway(r)'
  <2>1. Underway(r)
    BY <1>1 DEF HandoverInv, RowsFollowHandovers
  <2>2. CASE r = Head(hoJob.undo)
    <3>1. hoOwner'[r] = HoFrom /\ hoMeant'[r] = HoFrom /\ r \notin HoTxs
      BY <2>1, <2>2, <1>1, <1>3, HandoverAssumption
      DEF Underway, HandoverInv, HandoverTypes, HoResources, HoTwoRows
    <3> QED
      BY <3>1, <1>2 DEF Underway, WithOwner, HalfGiven, HalfTaken
  <2>3. CASE r # Head(hoJob.undo)
    <3>1. hoOwner'[r] = hoOwner[r]
      BY <2>3, <1>1 DEF HandoverInv, HandoverTypes, HoTracked, HoResources, HoTwoRows
    <3> QED
      BY <3>1, <2>3, <2>1, <1>1, <1>2, <1>3 DEF Underway, WithOwner, HalfGiven, HalfTaken
  <2> QED
    BY <2>2, <2>3
<1>8. RowsFollowHandovers'
  BY <1>1, <1>2, <1>7 DEF RowsFollowHandovers
<1> QED
  BY <1>5, <1>6, <1>8 DEF HandoverInv

(* A row of h is written back: its rows stay well typed, no other's change *)
(* and both rows of a transaction, if either, then say c.                  *)
LEMMA OwnerRowTyped ==
  ASSUME HandoverInv, NEW h \in HoTwoRows, NEW c \in HoCallers,
         hoOwner' = [hoOwner EXCEPT ![h] = c]
  PROVE  /\ hoOwner' \in [HoResources -> HoCallers \cup {HoNobody}]
         /\ hoOwner'[h] = c
         /\ \A r \in HoTracked : r # h => hoOwner'[r] = hoOwner[r]
BY DEF HandoverInv, HandoverTypes, HoTracked, HoResources, HoTwoRows

LEMMA UndoOneKeeps ==
  ASSUME HandoverInv, UndoOne
  PROVE  HandoverInv'
<1>1. /\ hoJob # HoNobody /\ hoJob.do = "undo" /\ hoJob.undo # <<>>
      /\ Head(hoJob.undo) \in HoTwoRows /\ HoDoes("undo other")
      /\ IF Head(hoJob.undo) \in HoLocks
         THEN SecondRow(Head(hoJob.undo), HoFrom) /\ hoOwner' = hoOwner
         ELSE hoOwner' = [hoOwner EXCEPT ![Head(hoJob.undo)] = HoFrom] /\ hoSecond' = hoSecond
      /\ UNCHANGED <<handovers, hoMeant, hoTorn>>
  BY DEF UndoOne, HoDoing, hoHistory
<1>2. /\ hoJob' \in HoJob /\ hoJob' # HoNobody
      /\ hoJob'.do = "undo other" /\ hoJob'.undo = hoJob.undo /\ hoJob'.left = hoJob.left
      /\ hoJob'.id = hoJob.id /\ HoFrom' = HoFrom /\ HoTo' = HoTo
  BY <1>1, JobDoesOnly
<1>3. Head(hoJob.undo) \in ToSet(hoJob.undo)
  BY <1>1, JobLists
<1>4. /\ hoOwner' \in [HoResources -> HoCallers \cup {HoNobody}]
      /\ hoSecond' \in [HoTwoRows -> HoCallers \cup {HoNobody}]
      /\ \A r \in HoTxs : hoSecond'[r] \in HoCallers
      /\ \A r \in HoTracked : r # Head(hoJob.undo) =>
           hoOwner'[r] = hoOwner[r] /\ (r \in HoTxs => hoSecond'[r] = hoSecond[r])
      /\ Head(hoJob.undo) \notin HoLocks => hoOwner'[Head(hoJob.undo)] = HoFrom
  <2>1. CASE Head(hoJob.undo) \in HoLocks
    BY <2>1, <1>1, SecondRowTyped, JobTyped DEF HandoverInv, HandoverTypes, HoTwoRows
  <2>2. CASE Head(hoJob.undo) \notin HoLocks
    BY <2>2, <1>1, OwnerRowTyped, JobTyped DEF HandoverInv, HandoverTypes
  <2> QED
    BY <2>1, <2>2
<1>5. HandoverTypes'
  BY <1>1, <1>2, <1>4 DEF HandoverInv, HandoverTypes
<1>6. JobOfHandover'
  BY <1>1, <1>2 DEF HandoverInv, JobOfHandover
<1>7. ASSUME NEW r \in HoTracked \ hoTorn
      PROVE  Underway(r)'
  <2>1. Underway(r) /\ r \notin HoLocks
    BY <1>1, HandoverAssumption
    DEF HandoverInv, RowsFollowHandovers, HoTracked, HoTwoRows
  <2>2. CASE r = Head(hoJob.undo)
    <3>1. hoOwner'[r] = HoFrom /\ hoMeant'[r] = HoFrom
      BY <2>1, <2>2, <1>1, <1>3, <1>4 DEF Underway
    <3> QED
      BY <3>1, <2>2, <1>2, <1>3 DEF Underway, HalfGiven, HalfTaken
  <2>3. CASE r # Head(hoJob.undo)
    <3>1. hoOwner'[r] = hoOwner[r] /\ (r \in HoTxs => hoSecond'[r] = hoSecond[r])
      BY <2>3, <1>4
    <3> QED
      BY <3>1, <2>3, <2>1, <1>1, <1>2 DEF Underway, WithOwner, HalfGiven, HalfTaken
  <2> QED
    BY <2>2, <2>3
<1>8. RowsFollowHandovers'
  BY <1>1, <1>2, <1>7 DEF RowsFollowHandovers
<1> QED
  BY <1>5, <1>6, <1>8 DEF HandoverInv

LEMMA UndoOtherKeeps ==
  ASSUME HandoverInv, UndoOther
  PROVE  HandoverInv'
<1>1. /\ hoJob # HoNobody /\ hoJob.do = "undo other" /\ hoJob.undo # <<>>
      /\ Head(hoJob.undo) \in HoTwoRows /\ HoUndone
      /\ IF Head(hoJob.undo) \in HoLocks
         THEN hoOwner' = [hoOwner EXCEPT ![Head(hoJob.undo)] = HoFrom] /\ hoSecond' = hoSecond
         ELSE SecondRow(Head(hoJob.undo), HoFrom) /\ hoOwner' = hoOwner
      /\ UNCHANGED <<handovers, hoMeant, hoTorn>>
  BY DEF UndoOther, HoDoing, hoHistory, HandoverInv, JobOfHandover
<1>2. /\ hoJob' \in HoJob /\ hoJob' # HoNobody
      /\ hoJob'.do = "undo" /\ hoJob'.undo = Tail(hoJob.undo) /\ hoJob'.left = hoJob.left
      /\ hoJob'.id = hoJob.id /\ HoFrom' = HoFrom /\ HoTo' = HoTo
  BY <1>1, JobUndone
<1>3. ToSet(hoJob.undo) = {Head(hoJob.undo)} \cup ToSet(hoJob'.undo)
  BY <1>1, <1>2, JobLists
<1>4. /\ hoOwner' \in [HoResources -> HoCallers \cup {HoNobody}]
      /\ hoSecond' \in [HoTwoRows -> HoCallers \cup {HoNobody}]
      /\ \A r \in HoTxs : hoSecond'[r] \in HoCallers
      /\ \A r \in HoTracked : r # Head(hoJob.undo) =>
           hoOwner'[r] = hoOwner[r] /\ (r \in HoTxs => hoSecond'[r] = hoSecond[r])
      /\ Head(hoJob.undo) \in HoTxs =>
           hoOwner' = hoOwner /\ hoSecond'[Head(hoJob.undo)] = HoFrom
  <2>1. CASE Head(hoJob.undo) \in HoLocks
    BY <2>1, <1>1, OwnerRowTyped, JobTyped, HandoverAssumption DEF HandoverInv, HandoverTypes
  <2>2. CASE Head(hoJob.undo) \notin HoLocks
    BY <2>2, <1>1, SecondRowTyped, JobTyped DEF HandoverInv, HandoverTypes, HoTwoRows
  <2> QED
    BY <2>1, <2>2
<1>5. HandoverTypes'
  BY <1>1, <1>2, <1>4 DEF HandoverInv, HandoverTypes
<1>6. JobOfHandover'
  BY <1>1, <1>2, <1>3 DEF HandoverInv, JobOfHandover
<1>7. ASSUME NEW r \in HoTracked \ hoTorn
      PROVE  Underway(r)'
  <2>1. Underway(r) /\ r \notin HoLocks
    BY <1>1, HandoverAssumption
    DEF HandoverInv, RowsFollowHandovers, HoTracked, HoTwoRows
  <2>2. CASE r = Head(hoJob.undo)
    <3>1. r \in HoTxs
      BY <2>1, <2>2, <1>1 DEF HoTwoRows
    <3>2. hoOwner'[r] = HoFrom /\ hoSecond'[r] = HoFrom /\ hoMeant'[r] = HoFrom
      BY <3>1, <2>1, <2>2, <1>1, <1>3, <1>4 DEF Underway, HalfTaken
    <3> QED
      BY <3>2, <1>2 DEF Underway, WithOwner, HalfGiven, HalfTaken
  <2>3. CASE r # Head(hoJob.undo)
    <3>1. hoOwner'[r] = hoOwner[r] /\ (r \in HoTxs => hoSecond'[r] = hoSecond[r])
      BY <2>3, <1>4
    <3> QED
      BY <3>1, <2>3, <2>1, <1>1, <1>2, <1>3 DEF Underway, WithOwner, HalfGiven, HalfTaken
  <2> QED
    BY <2>2, <2>3
<1>8. RowsFollowHandovers'
  BY <1>1, <1>2, <1>7 DEF RowsFollowHandovers
<1> QED
  BY <1>5, <1>6, <1>8 DEF HandoverInv

LEMMA RolledBackKeeps ==
  ASSUME HandoverInv, HoRolledBack
  PROVE  HandoverInv'
<1>1. /\ hoJob # HoNobody /\ hoJob.do = "undo" /\ hoJob.undo = <<>> /\ hoJob' = HoNobody
      /\ UNCHANGED <<handovers, hoOwner, hoSecond, hoMeant, hoTorn>>
  BY DEF HoRolledBack, HoDoing, hoRows, hoHistory
<1>2. \A r \in HoTracked \ hoTorn : WithOwner(r)
  BY <1>1, NothingListed DEF HandoverInv, RowsFollowHandovers, Underway, HalfGiven
<1> QED
  BY <1>1, <1>2
  DEF HandoverInv, HandoverTypes, JobOfHandover, RowsFollowHandovers, WithOwner

-----------------------------------------------------------------------------
(* Everybody else *)

LEMMA LockManagerMovesKeeps ==
  ASSUME HandoverInv, NEW r \in HoResources, NEW c \in HoCallers \cup {HoNobody},
         LockManagerMoves(r, c)
  PROVE  HandoverInv'
<1>1. /\ r \in HoLocks /\ hoOwner' = [hoOwner EXCEPT ![r] = c]
      /\ hoSecond' = [hoSecond EXCEPT ![r] = c]
      /\ UNCHANGED <<handovers, hoJob, hoMeant, hoTorn>>
  BY DEF LockManagerMoves, hoHistory
<1>2. \A q \in HoTracked : q # r
  BY <1>1, HandoverAssumption DEF HoTracked, HoTwoRows
<1>3. \A q \in HoTracked :
        hoOwner'[q] = hoOwner[q] /\ (q \in HoTxs => hoSecond'[q] = hoSecond[q])
  BY <1>1, <1>2 DEF HandoverInv, HandoverTypes, HoTracked, HoResources, HoTwoRows
<1>4. HandoverTypes'
  BY <1>1, <1>3 DEF HandoverInv, HandoverTypes, HoTracked
<1>5. JobOfHandover' /\ HoFrom' = HoFrom /\ HoTo' = HoTo /\ HoAt' = HoAt
  BY <1>1 DEF HandoverInv, JobOfHandover, HoFrom, HoTo, HoAt
<1>6. RowsFollowHandovers'
  BY <1>1, <1>3, <1>5
  DEF HandoverInv, RowsFollowHandovers, Underway, WithOwner, WithReceiver, HalfGiven, HalfTaken
<1> QED
  BY <1>4, <1>5, <1>6 DEF HandoverInv

(* What a crash leaves half written is written off.                        *)
LEMMA HandoverCrashKeeps ==
  ASSUME HandoverInv, HoCrash
  PROVE  HandoverInv'
<1>1. /\ hoJob # HoNobody /\ hoJob' = HoNobody
      /\ hoTorn' = hoTorn \cup ToSet(handovers[hoJob.id].resources)
      /\ UNCHANGED <<handovers, hoOwner, hoSecond, hoMeant>>
  BY DEF HoCrash, hoRows
<1>2. ASSUME NEW r \in HoTracked \ hoTorn'
      PROVE  WithOwner(r)
  <2>1. r \notin ToSet(hoJob.undo)
    BY <1>1, <1>2 DEF HandoverInv, JobOfHandover
  <2>2. ~HalfGiven(r)
    <3>1. SUFFICES ASSUME hoJob.do = "second", HoAt = r
                   PROVE  FALSE
      BY DEF HalfGiven
    <3>2. r \in ToSet(handovers[hoJob.id].resources)
      BY <3>1, <1>1, JobLists DEF HandoverInv, JobOfHandover
    <3> QED
      BY <3>2, <1>1, <1>2
  <2> QED
    BY <2>1, <2>2, <1>1, <1>2 DEF HandoverInv, RowsFollowHandovers, Underway
<1> QED
  BY <1>1, <1>2
  DEF HandoverInv, HandoverTypes, JobOfHandover, RowsFollowHandovers, WithOwner

LEMMA HoInitInv == HoInit => HandoverInv
BY HandoverAssumption
DEF HoInit, HandoverInv, HandoverTypes, JobOfHandover, RowsFollowHandovers, WithOwner,
    HoTracked, HoResources, HoTwoRows

LEMMA HoNextKeepsInv ==
  ASSUME HandoverInv, [HoNext]_hoVars
  PROVE  HandoverInv'
<1>1. CASE HoExecutes
  BY <1>1, CheckSourceKeeps, TransferReservationKeeps, TransferHolderKeeps,
     TransferSecondKeeps, TransferQuotaToKeeps, TransferQuotaFromKeeps, CompleteKeeps,
     UndoQuotaKeeps, UndoReservationKeeps, UndoOneKeeps, UndoOtherKeeps, RolledBackKeeps
  DEF HoExecutes
<1>2. CASE CheckAndCancelExpired
  BY <1>2, ExpiryOfHandoverKeeps
<1>3. CASE HoCrash
  BY <1>3, HandoverCrashKeeps
<1>4. ASSUME NEW n \in Handovers,
             \/ \E request \in HoRequests : CreateHandover(n, request)
             \/ PreCheck(n) \/ Initiate(n) \/ Cancel(n)
             \/ \E accept \in BOOLEAN : Confirm(n, accept)
      PROVE  HandoverInv'
  BY <1>4, CreateHandoverKeeps, PreCheckKeeps, InitiateKeeps, CancelKeeps, ConfirmKeeps
<1>5. ASSUME NEW r \in HoResources,
             HoEnds(r) \/ \E c \in HoCallers \cup {HoNobody} : LockManagerMoves(r, c)
      PROVE  HandoverInv'
  <2>1. CASE HoEnds(r)
    BY <2>1, OtherHandoverStepsKeep DEF HoEnds, hoRows, hoHistory
  <2> QED
    BY <2>1, <1>5, LockManagerMovesKeeps
<1>6. ASSUME NEW c \in HoCallers, BindCaller(c)
      PROVE  HandoverInv'
  BY <1>6, OtherHandoverStepsKeep DEF BindCaller, hoHistory
<1>7. CASE UNCHANGED hoVars
  BY <1>7, OtherHandoverStepsKeep DEF hoVars, hoRows, hoHistory
<1> QED
  BY <1>1, <1>2, <1>3, <1>4, <1>5, <1>6, <1>7 DEF HoNext

LEMMA HandoverInvSuffices == HandoverInv => HandedOverWholly
BY DEF HandoverInv, HandoverTypes, RowsFollowHandovers, WithOwner, HandedOverWholly

(* All or nothing: HandedOverWholly, of executeInternalLocked and          *)
(* rollbackAllLocked, for any resources and handovers, one resource named  *)
(* twice included.                                                         *)
THEOREM HandoversCorrect == HoSpec => []HandedOverWholly
<1>1. HoInit => HandoverInv
  BY HoInitInv
<1>2. HandoverInv /\ [HoNext]_hoVars => HandoverInv'
  BY HoNextKeepsInv
<1>3. HandoverInv => HandedOverWholly
  BY HandoverInvSuffices
<1> QED
  BY <1>1, <1>2, <1>3, PTL DEF HoSpec

-----------------------------------------------------------------------------
(* Debts *)

DebtSpec == DebtInit /\ [][DebtNext]_debtVars

DebtTypes ==
  /\ debts \in [DebtIds -> DebtRecord \cup {DebtNone}]
  /\ debtDue \in Seq(DebtIds)
  /\ debtPaid \in [DebtIds -> Nat]
  /\ debtJob \in DebtJob \cup {DebtNone}

(* A debt is due only once it is on record, and stays there.               *)
DueDebtsExist == \A i \in DOMAIN debtDue : debts[debtDue[i]] # DebtNone

(* The debts a method is at, and those it still has before it              *)
DebtsAtHand ==
  IF debtJob = DebtNone THEN {}
  ELSE (IF debtJob.do \in {"return", "mark"} THEN {} ELSE {debtJob.at})
       \cup (IF debtJob.do \in {"settle by hand", "lift"} THEN {} ELSE debtJob.left)

DebtsAtHandExist == \A d \in DebtsAtHand : debts[d] # DebtNone

(* What is about to be written as collected has been paid.                 *)
PaidBeforeSettled ==
  DebtDoing("settle") \/ DebtDoing("settle by hand") => debtPaid[DebtAt] >= debts[DebtAt].amount

DebtInv == DebtTypes /\ DueDebtsExist /\ DebtsAtHandExist /\ PaidBeforeSettled /\ CollectedIsPaid

(* A record changes in its status and its attempts only.                   *)
LEMMA DebtKept ==
  ASSUME NEW rec \in DebtRecord, NEW status \in {"active", "overdue", "collected", "written_off"},
         NEW n \in Nat
  PROVE  /\ [rec EXCEPT !.status = status] \in DebtRecord
         /\ [rec EXCEPT !.status = status].amount = rec.amount
         /\ [rec EXCEPT !.status = status].creditor = rec.creditor
         /\ [rec EXCEPT !.status = status].status = status
         /\ [rec EXCEPT !.attempts = n] \in DebtRecord
         /\ [rec EXCEPT !.attempts = n].amount = rec.amount
         /\ [rec EXCEPT !.attempts = n].creditor = rec.creditor
         /\ [rec EXCEPT !.attempts = n].status = rec.status
BY DEF DebtRecord

(* What is paid is counted up to one more than the debt.                   *)
LEMMA PaidInFull ==
  ASSUME NEW owed \in Nat, NEW paid \in Nat, NEW amount \in Nat
  PROVE  /\ Min({owed + 1, paid + amount}) \in Nat
         /\ paid >= owed \/ amount >= owed => Min({owed + 1, paid + amount}) >= owed
<1>1. Min({owed + 1, paid + amount}) \in {owed + 1, paid + amount}
  BY MinOfNaturals
<1> QED
  BY <1>1

(* The table after a write: the debts are the same, of the same amounts to *)
(* the same creditors, and d has another status or number of attempts.     *)
DebtsStand(d) ==
  /\ d \in DebtIds /\ debts[d] # DebtNone
  /\ debts' \in [DebtIds -> DebtRecord \cup {DebtNone}]
  /\ \A e \in DebtIds : debts[e] # DebtNone => debts'[e] # DebtNone
  /\ \A e \in DebtIds : debts[e] # DebtNone => debts'[e].amount = debts[e].amount
  /\ \A e \in DebtIds : debts[e] # DebtNone => debts'[e].creditor = debts[e].creditor
  /\ \A e \in DebtIds \ {d} : debts'[e] = debts[e]

LEMMA StatusWritten ==
  ASSUME DebtTypes, NEW d \in DebtIds, debts[d] # DebtNone,
         NEW status \in {"active", "overdue", "collected", "written_off"},
         UpdateDebtRecord(d, status)
  PROVE  DebtsStand(d) /\ debts'[d].status = status
<1>1. debts[d] \in DebtRecord
  BY DEF DebtTypes
<1> DEFINE r == [debts[d] EXCEPT !.status = status]
<1>2. debts' = [debts EXCEPT ![d] = r]
  BY DEF UpdateDebtRecord
<1>3. r \in DebtRecord /\ r.status = status
  BY <1>1 DEF DebtRecord
<1>4. r.amount = debts[d].amount /\ r.creditor = debts[d].creditor
  BY <1>1 DEF DebtRecord
<1> HIDE DEF r
<1> QED
  BY <1>2, <1>3, <1>4, DebtNoneAssumption DEF DebtTypes, DebtsStand

LEMMA AttemptWritten ==
  ASSUME DebtTypes, NEW d \in DebtIds, debts[d] # DebtNone,
         debts' = [debts EXCEPT ![d].attempts = Capped(@ + 1)]
  PROVE  DebtsStand(d) /\ debts'[d].status = debts[d].status
<1>1. debts[d] \in DebtRecord
  BY DEF DebtTypes
<1>2. Capped(debts[d].attempts + 1) \in Nat
  BY <1>1, DebtAssumption DEF DebtRecord, Capped
<1>3. /\ debts' = [debts EXCEPT ![d] = [debts[d] EXCEPT !.attempts = Capped(debts[d].attempts + 1)]]
      /\ [debts[d] EXCEPT !.attempts = Capped(debts[d].attempts + 1)] \in DebtRecord
      /\ [debts[d] EXCEPT !.attempts = Capped(debts[d].attempts + 1)].amount = debts[d].amount
      /\ [debts[d] EXCEPT !.attempts = Capped(debts[d].attempts + 1)].creditor = debts[d].creditor
      /\ [debts[d] EXCEPT !.attempts = Capped(debts[d].attempts + 1)].status = debts[d].status
  BY <1>1, <1>2, DebtKept
<1> QED
  BY <1>3, DebtNoneAssumption DEF DebtTypes, DebtsStand

LEMMA CollectedByHandWritten ==
  ASSUME DebtTypes, NEW d \in DebtIds, debts[d] # DebtNone,
         debts' = [debts EXCEPT ![d].status = "collected", ![d].attempts = Capped(@ + 1)]
  PROVE  DebtsStand(d)
<1>1. debts[d] \in DebtRecord
  BY DEF DebtTypes
<1>2. Capped(debts[d].attempts + 1) \in Nat
  BY <1>1, DebtAssumption DEF DebtRecord, Capped
<1>3. debts' = [debts EXCEPT ![d] = [debts[d] EXCEPT
                  !.status = "collected", !.attempts = Capped(debts[d].attempts + 1)]]
  BY <1>1 DEF DebtTypes, DebtRecord
<1>4. /\ [debts[d] EXCEPT !.status = "collected",
              !.attempts = Capped(debts[d].attempts + 1)] \in DebtRecord
      /\ [debts[d] EXCEPT !.status = "collected",
              !.attempts = Capped(debts[d].attempts + 1)].amount = debts[d].amount
      /\ [debts[d] EXCEPT !.status = "collected",
              !.attempts = Capped(debts[d].attempts + 1)].creditor = debts[d].creditor
  BY <1>1, <1>2 DEF DebtRecord
<1> QED
  BY <1>3, <1>4, DebtNoneAssumption DEF DebtTypes, DebtsStand

(* What is paid for a debt stays paid.                                     *)
PaidStands ==
  /\ debtPaid' \in [DebtIds -> Nat]
  /\ \A e \in DebtIds : debts[e] # DebtNone /\ debtPaid[e] >= debts[e].amount
       => debtPaid'[e] >= debts[e].amount

LEMMA PaymentStands ==
  ASSUME DebtTypes, NEW d \in DebtIds, debts[d] # DebtNone, NEW amount \in Nat,
         DebtPay(d, amount)
  PROVE  PaidStands /\ (amount >= debts[d].amount => debtPaid'[d] >= debts[d].amount)
<1>1. debts[d].amount \in Nat /\ debtPaid[d] \in Nat
  BY DEF DebtTypes, DebtRecord
<1>2. debtPaid' = [debtPaid EXCEPT ![d] = Min({debts[d].amount + 1, debtPaid[d] + amount})]
  BY DEF DebtPay
<1> QED
  BY <1>1, <1>2, PaidInFull DEF DebtTypes, PaidStands

LEMMA ElementsOf ==
  ASSUME NEW S, NEW s \in Seq(S)
  PROVE  \A i \in DOMAIN s : s[i] \in S
OBVIOUS

(* A step that leaves the records or writes one of them, leaves what is    *)
(* paid or pays, and whose method stays with debts on record.              *)
LEMMA DebtsKept ==
  ASSUME DebtInv, NEW d, UNCHANGED debts \/ DebtsStand(d), UNCHANGED debtPaid \/ PaidStands,
         UNCHANGED debts \/ debts'[d].status # "collected" \/ debts'[d].status = debts[d].status
           \/ (d \in DebtIds /\ debtPaid'[d] >= debts[d].amount)
           \/ debts[d].creditor = DebtSystem,
         debtDue' = debtDue, debtJob' \in DebtJob \cup {DebtNone},
         DebtsAtHand' \subseteq DebtsAtHand,
         debtJob' = DebtNone \/ debtJob'.do \notin {"settle", "settle by hand"}
  PROVE  DebtInv'
<1>1. /\ debts' \in [DebtIds -> DebtRecord \cup {DebtNone}]
      /\ \A e \in DebtIds : debts[e] # DebtNone => debts'[e] # DebtNone
      /\ \A e \in DebtIds : debts[e] # DebtNone => debts'[e].amount = debts[e].amount
      /\ \A e \in DebtIds : debts[e] # DebtNone => debts'[e].creditor = debts[e].creditor
      /\ \A e \in DebtIds \ {d} : debts'[e] = debts[e]
  BY DEF DebtInv, DebtTypes, DebtsStand
<1>2. debtPaid' \in [DebtIds -> Nat]
  BY DEF DebtInv, DebtTypes, PaidStands
<1>3. DebtsAtHand \subseteq DebtIds
  BY DebtNoneAssumption DEF DebtInv, DebtTypes, DebtsAtHand, DebtJob
<1>4. DebtTypes' /\ DueDebtsExist' /\ DebtsAtHandExist'
  <2>0. debtDue' \in Seq(DebtIds)
    BY Zenon DEF DebtInv, DebtTypes
  <2>1. DebtTypes'
    BY <1>1, <1>2, <2>0 DEF DebtTypes, DebtRecord, DebtJob
  <2>2. \A i \in DOMAIN debtDue : debtDue[i] \in DebtIds
    BY ElementsOf DEF DebtInv, DebtTypes
  <2>3. DueDebtsExist'
    BY <1>1, <2>2 DEF DebtInv, DueDebtsExist
  <2>4. DebtsAtHandExist'
    BY <1>1, <1>3 DEF DebtInv, DebtsAtHandExist
  <2> QED
    BY <2>1, <2>3, <2>4
<1>5. PaidBeforeSettled'
  BY DEF PaidBeforeSettled, DebtDoing
<1>6. CollectedIsPaid'
  <2> SUFFICES ASSUME NEW e \in DebtIds, debts'[e] # DebtNone, debts'[e].status = "collected",
                      debts'[e].creditor # DebtSystem
               PROVE  debtPaid'[e] >= debts'[e].amount
    BY DEF CollectedIsPaid, DebtIs
  <2>1. debts[e] # DebtNone
    BY DEF DebtsStand
  <2> QED
    BY <1>1, <2>1 DEF DebtInv, CollectedIsPaid, DebtIs, PaidStands
<1> QED
  BY <1>4, <1>5, <1>6 DEF DebtInv

(* The debts a method has before it are on record.                         *)
LEMMA AtDebt ==
  ASSUME DebtInv, debtJob # DebtNone
  PROVE  /\ debtJob.do \notin {"return", "mark"} => DebtAt \in DebtIds /\ debts[DebtAt] # DebtNone
         /\ debtJob.do \in {"return", "mark"} =>
              \A d \in debtJob.left : d \in DebtIds /\ debts[d] # DebtNone
BY DEF DebtInv, DebtTypes, DebtsAtHandExist, DebtsAtHand, DebtJob, DebtAt

(* A return                                                                *)
LEMMA ReturnKeeps ==
  ASSUME DebtInv, ReturnNext
  PROVE  DebtInv'
<1>1. /\ debtJob \in [do : {"return"}, remaining : Nat, debtor : Debtors, left : SUBSET DebtIds]
      /\ debtJob.do = "return" /\ debtJob # DebtNone
  BY DEF ReturnNext, DebtDoing, DebtInv, DebtTypes, DebtJob
<1>2. PICK d \in debtJob.left :
        /\ IF debts[d].amount <= debtJob.remaining
           THEN UpdateDebtRecord(d, "collected") ELSE UNCHANGED debts
        /\ DebtPay(d, debtJob.remaining - Remaining(d))
        /\ debtJob' = [debtJob EXCEPT !.left = @ \ {d}, !.remaining = Remaining(d)]
  BY DEF ReturnNext
<1>3. d \in DebtIds /\ debts[d] # DebtNone /\ debts[d].amount \in Nat
  BY <1>1, AtDebt DEF DebtInv, DebtTypes, DebtRecord
<1>4. /\ Remaining(d) \in Nat /\ debtJob.remaining - Remaining(d) \in Nat
      /\ debts[d].amount <= debtJob.remaining
           => debtJob.remaining - Remaining(d) >= debts[d].amount
  BY <1>1, <1>3 DEF Remaining
<1>5. /\ debtJob' = [do |-> "return", remaining |-> Remaining(d), debtor |-> debtJob.debtor,
                     left |-> debtJob.left \ {d}]
      /\ debtJob' \in [do : {"return"}, remaining : Nat, debtor : Debtors, left : SUBSET DebtIds]
      /\ debtJob'.do = "return" /\ debtJob'.left \subseteq debtJob.left
  BY <1>1, <1>2, <1>4
<1>6. debtJob' \in DebtJob /\ debtJob' # DebtNone
  BY <1>5, DebtNoneAssumption DEF DebtJob
<1>7. DebtsAtHand' \subseteq DebtsAtHand
  BY <1>1, <1>5, <1>6 DEF DebtsAtHand
<1>8. PaidStands /\ (debts[d].amount <= debtJob.remaining => debtPaid'[d] >= debts[d].amount)
  BY <1>2, <1>3, <1>4, PaymentStands DEF DebtInv
<1>9. CASE debts[d].amount <= debtJob.remaining
  <2>1. DebtsStand(d) /\ debtPaid'[d] >= debts[d].amount
    BY <1>2, <1>3, <1>8, <1>9, StatusWritten DEF DebtInv
  <2> QED
    BY <1>3, <1>5, <1>6, <1>7, <1>8, <2>1, DebtsKept DEF ReturnNext
<1>10. CASE ~(debts[d].amount <= debtJob.remaining)
  BY <1>2, <1>5, <1>6, <1>7, <1>8, <1>10, DebtsKept DEF ReturnNext
<1> QED
  BY <1>9, <1>10

LEMMA ReturnedKeeps ==
  ASSUME DebtInv, Returned \/ LiftByHand
  PROVE  DebtInv'
<1>1. debtJob' = DebtNone /\ UNCHANGED <<debts, debtDue, debtPaid>>
  BY DEF Returned, LiftByHand, debtHistory
<1>2. DebtsAtHand' = {}
  BY <1>1 DEF DebtsAtHand
<1> QED
  BY <1>1, <1>2, DebtsKept

(* The tick, at one debt                                                   *)
TickJob ==
  [do : {"attempt", "collect", "settle", "fail", "restrict"}, at : DebtIds, left : SUBSET DebtIds]

LEMMA DoesNext ==
  ASSUME DebtInv, debtJob # DebtNone, debtJob.do \in {"attempt", "collect", "settle", "fail"},
         NEW what \in {"collect", "settle", "fail", "restrict"}, DebtDoes(what)
  PROVE  /\ debtJob' \in DebtJob /\ debtJob' # DebtNone /\ debtJob'.do = what
         /\ debtJob'.at = debtJob.at /\ DebtsAtHand' \subseteq DebtsAtHand
<1>1. debtJob \in TickJob
  BY DEF DebtInv, DebtTypes, DebtJob, TickJob
<1>2. debtJob' = [do |-> what, at |-> debtJob.at, left |-> debtJob.left]
  BY <1>1 DEF DebtDoes, TickJob
<1>3. debtJob' \in TickJob
  BY <1>1, <1>2 DEF TickJob
<1>4. debtJob' \in DebtJob /\ debtJob' # DebtNone
  BY <1>3, DebtNoneAssumption DEF DebtJob, TickJob
<1> QED
  BY <1>2, <1>4 DEF DebtsAtHand

LEMMA MarkKeeps ==
  ASSUME DebtInv, MarkOverdue
  PROVE  DebtInv'
<1>1. /\ debtJob \in [do : {"mark"}, left : SUBSET DebtIds]
      /\ debtJob.do = "mark" /\ debtJob # DebtNone
  BY DEF MarkOverdue, DebtDoing, DebtInv, DebtTypes, DebtJob
<1>2. PICK d \in debtJob.left :
        /\ UpdateDebtRecord(d, "overdue")
        /\ debtJob' = [do |-> "attempt", at |-> d, left |-> debtJob.left \ {d}]
  BY DEF MarkOverdue
<1>3. d \in DebtIds /\ debts[d] # DebtNone
  BY <1>1, AtDebt
<1>4. debtJob' \in TickJob /\ debtJob'.do = "attempt"
  BY <1>1, <1>2, <1>3 DEF TickJob
<1>5. debtJob' \in DebtJob /\ debtJob' # DebtNone
  BY <1>4, DebtNoneAssumption DEF DebtJob, TickJob
<1>6. DebtsAtHand' \subseteq DebtsAtHand
  BY <1>1, <1>2, <1>5 DEF DebtsAtHand
<1>7. DebtsStand(d) /\ debts'[d].status = "overdue"
  BY <1>2, <1>3, StatusWritten DEF DebtInv
<1> QED
  BY <1>4, <1>5, <1>6, <1>7, DebtsKept DEF MarkOverdue, debtHistory

LEMMA AttemptKeeps ==
  ASSUME DebtInv, WriteOff \/ Attempt \/ CollectFails
  PROVE  DebtInv'
<1>1. /\ debtJob # DebtNone /\ debtJob.do \in {"attempt", "fail"}
      /\ debtDue' = debtDue /\ debtPaid' = debtPaid
      /\ DebtDoes("restrict") \/ DebtDoes("collect")
  BY DEF WriteOff, Attempt, CollectFails, DebtDoing, debtHistory
<1>2. /\ debtJob' \in DebtJob /\ debtJob' # DebtNone /\ debtJob'.do \in {"restrict", "collect"}
      /\ DebtsAtHand' \subseteq DebtsAtHand
  BY <1>1, DoesNext
<1>3. DebtAt \in DebtIds /\ debts[DebtAt] # DebtNone
  BY <1>1, AtDebt
<1>4. \/ UNCHANGED debts
      \/ DebtsStand(DebtAt) /\ debts'[DebtAt].status \in {"written_off", debts[DebtAt].status}
  BY <1>3, StatusWritten, AttemptWritten DEF WriteOff, Attempt, CollectFails, DebtInv
<1> QED
  BY <1>1, <1>2, <1>4, DebtsKept

LEMMA CollectKeeps ==
  ASSUME DebtInv, Collect
  PROVE  DebtInv'
<1>1. /\ debtJob # DebtNone /\ debtJob.do = "collect"
      /\ UNCHANGED <<debts, debtDue>>
  BY DEF Collect, DebtDoing, debtTables
<1>2. DebtAt \in DebtIds /\ debts[DebtAt] # DebtNone /\ debts[DebtAt].amount \in Nat
  BY <1>1, AtDebt DEF DebtInv, DebtTypes, DebtRecord
<1>3. CASE DebtPay(DebtAt, debts[DebtAt].amount) /\ DebtDoes("settle")
  <2>1. PaidStands /\ debtPaid'[DebtAt] >= debts[DebtAt].amount
    BY <1>2, <1>3, PaymentStands DEF DebtInv
  <2>2. /\ debtJob' \in DebtJob /\ DebtsAtHand' \subseteq DebtsAtHand
        /\ debtJob'.at = debtJob.at
    BY <1>1, <1>3, DoesNext
  <2>3. PaidBeforeSettled'
    BY <1>1, <2>1, <2>2 DEF PaidBeforeSettled, DebtAt
  <2>4. CollectedIsPaid'
    BY <1>1, <2>1 DEF DebtInv, CollectedIsPaid, PaidStands, DebtIs
  <2>5. DebtsAtHandExist' /\ DueDebtsExist'
    BY <1>1, <2>2 DEF DebtInv, DebtsAtHandExist, DueDebtsExist
  <2>6. DebtTypes'
    BY <1>1, <2>1, <2>2 DEF DebtInv, DebtTypes, PaidStands, DebtRecord, DebtJob
  <2> QED
    BY <2>3, <2>4, <2>5, <2>6 DEF DebtInv
<1>4. CASE DebtDoes("fail") /\ UNCHANGED debtPaid
  <2>1. /\ debtJob' \in DebtJob /\ DebtsAtHand' \subseteq DebtsAtHand
        /\ debtJob'.do = "fail"
    BY <1>1, <1>4, DoesNext
  <2> QED
    BY <1>1, <1>4, <2>1, DebtsKept
<1> QED
  BY <1>3, <1>4 DEF Collect

LEMMA SettleKeeps ==
  ASSUME DebtInv, Settle
  PROVE  DebtInv'
<1>1. /\ debtJob # DebtNone /\ debtJob.do = "settle"
      /\ debtDue' = debtDue /\ debtPaid' = debtPaid
      /\ DebtDoes("restrict") /\ UpdateDebtRecord(DebtAt, "collected")
  BY DEF Settle, DebtDoing, debtHistory
<1>2. /\ debtJob' \in DebtJob /\ DebtsAtHand' \subseteq DebtsAtHand
      /\ debtJob'.do = "restrict"
  BY <1>1, DoesNext
<1>3. DebtAt \in DebtIds /\ debts[DebtAt] # DebtNone
  BY <1>1, AtDebt
<1>4. DebtsStand(DebtAt)
  BY <1>1, <1>3, StatusWritten DEF DebtInv
<1>5. debtPaid'[DebtAt] >= debts[DebtAt].amount
  BY <1>1 DEF DebtInv, PaidBeforeSettled, DebtDoing
<1> QED
  BY <1>1, <1>2, <1>3, <1>4, <1>5, DebtsKept

LEMMA RestrictKeeps ==
  ASSUME DebtInv, ApplyRestrictionsIfNeeded
  PROVE  DebtInv'
<1>1. /\ debtJob \in TickJob /\ debtJob.do = "restrict" /\ debtJob # DebtNone
      /\ UNCHANGED <<debts, debtDue, debtPaid>>
      /\ debtJob' = IF debtJob.left = {} THEN DebtNone
                    ELSE [do |-> "mark", left |-> debtJob.left]
  BY DEF ApplyRestrictionsIfNeeded, DebtDoing, DebtInv, DebtTypes, DebtJob, TickJob, debtHistory
<1>2. CASE debtJob' = DebtNone
  BY <1>1, <1>2, DebtsKept DEF DebtsAtHand
<1>3. CASE debtJob' = [do |-> "mark", left |-> debtJob.left]
  <2>1. debtJob' \in [do : {"mark"}, left : SUBSET DebtIds]
    BY <1>1, <1>3 DEF TickJob
  <2>2. debtJob' \in DebtJob /\ debtJob' # DebtNone /\ debtJob'.do = "mark"
    BY <1>3, <2>1, DebtNoneAssumption DEF DebtJob
  <2>3. DebtsAtHand' \subseteq DebtsAtHand
    <3>1. debtJob'.left = debtJob.left
      BY <1>3
    <3>2. DebtsAtHand' = debtJob.left
      BY <2>2, <3>1 DEF DebtsAtHand
    <3>3. debtJob.left \subseteq DebtsAtHand
      BY <1>1 DEF DebtsAtHand
    <3> QED
      BY <3>2, <3>3
  <2> QED
    BY <1>1, <2>2, <2>3, DebtsKept
<1> QED
  BY <1>1, <1>2, <1>3

(* A return or the tick begins with the debts it has listed.               *)
LEMMA ListedKeeps ==
  ASSUME DebtInv, NEW what \in {"return", "mark"},
         UNCHANGED <<debts, debtDue, debtPaid>>, debtJob' \in DebtJob, debtJob'.do = what,
         \A d \in debtJob'.left : d \in DebtIds /\ debts[d] # DebtNone
  PROVE  DebtInv'
<1>1. debtJob' # DebtNone
  BY DebtNoneAssumption
<1>2. DebtsAtHand' = debtJob'.left
  BY <1>1 DEF DebtsAtHand
<1>3. DebtsAtHandExist' /\ DueDebtsExist' /\ CollectedIsPaid'
  BY <1>2 DEF DebtInv, DebtsAtHandExist, DueDebtsExist, CollectedIsPaid, DebtIs
<1>4. PaidBeforeSettled'
  BY DEF PaidBeforeSettled, DebtDoing
<1>5. DebtTypes'
  BY DEF DebtInv, DebtTypes, DebtRecord, DebtJob
<1> QED
  BY <1>3, <1>4, <1>5 DEF DebtInv

LEMMA RecordReturnKeeps ==
  ASSUME DebtInv, NEW debtor \in Debtors, NEW creditor, NEW amount \in DebtAmounts,
         RecordReturn(debtor, creditor, amount)
  PROVE  DebtInv'
<1>1. PICK listed \in SUBSET DebtIds :
        /\ \A d \in listed : debts[d] # DebtNone
        /\ debtJob' = [do |-> "return", remaining |-> amount, debtor |-> debtor, left |-> listed]
  <2> DEFINE listed == {d \in ListDebtRecords(debtor, "active") \cup ListDebtRecords(debtor, "overdue") :
                          debts[d].creditor = creditor}
  <2>1. listed \subseteq DebtIds /\ \A d \in listed : debts[d] # DebtNone
    BY DEF ListDebtRecords, DebtIs
  <2> QED
    BY <2>1 DEF RecordReturn
<1>2. /\ debtJob' \in [do : {"return"}, remaining : Nat, debtor : Debtors, left : SUBSET DebtIds]
      /\ debtJob'.do = "return" /\ debtJob'.left = listed
  BY <1>1, DebtAssumption
<1>3. debtJob' \in DebtJob
  BY <1>2 DEF DebtJob
<1> QED
  BY <1>1, <1>2, <1>3, ListedKeeps DEF RecordReturn, debtTables, debtHistory

LEMMA TickKeeps ==
  ASSUME DebtInv, RunLiquidationTick
  PROVE  DebtInv'
<1>1. \A i \in DOMAIN debtDue : debtDue[i] \in DebtIds
  BY ElementsOf DEF DebtInv, DebtTypes
<1>2. ListOverdueDebts \subseteq DebtIds /\ \A d \in ListOverdueDebts : debts[d] # DebtNone
  BY <1>1 DEF ListOverdueDebts, ToSet, DebtIs
<1>3. /\ debtJob' \in [do : {"mark"}, left : SUBSET DebtIds]
      /\ debtJob'.do = "mark" /\ debtJob'.left = ListOverdueDebts
  BY <1>2 DEF RunLiquidationTick
<1>4. debtJob' \in DebtJob
  BY <1>3 DEF DebtJob
<1> QED
  BY <1>2, <1>3, <1>4, ListedKeeps DEF RunLiquidationTick, debtTables, debtHistory

(* A collection by hand pays first and writes the row then, or the debt is *)
(* one to the system.                                                      *)
LEMMA ManualCollectKeeps ==
  ASSUME DebtInv, NEW d \in DebtIds, ManualCollect(d)
  PROVE  DebtInv'
<1>1. debtJob = DebtNone /\ debts[d] # DebtNone /\ debtDue' = debtDue
      /\ debts[d].amount \in Nat
  BY DEF ManualCollect, DebtFree, DebtIs, DebtInv, DebtTypes, DebtRecord
<1>2. CASE debtJob' = [do |-> "settle by hand", at |-> d] /\ DebtPay(d, debts[d].amount)
           /\ UNCHANGED debts
  <2>0. debts[d].amount >= debts[d].amount
    BY <1>1
  <2>1. PaidStands /\ debtPaid'[d] >= debts[d].amount
    BY <1>1, <1>2, <2>0, PaymentStands, Zenon DEF DebtInv
  <2>2. /\ debtJob' \in [do : {"settle by hand", "lift"}, at : DebtIds]
        /\ debtJob'.do = "settle by hand" /\ debtJob'.at = d
    BY <1>2
  <2>3. debtJob' \in DebtJob /\ debtJob' # DebtNone
    BY <2>2, DebtNoneAssumption DEF DebtJob
  <2>4. DebtsAtHand' = {d}
    BY <2>2, <2>3 DEF DebtsAtHand
  <2>5. PaidBeforeSettled'
    BY <1>2, <2>1, <2>2 DEF PaidBeforeSettled, DebtAt
  <2>6. CollectedIsPaid'
    BY <1>2, <2>1 DEF DebtInv, CollectedIsPaid, PaidStands, DebtIs
  <2>7. DebtsAtHandExist' /\ DueDebtsExist'
    BY <1>1, <1>2, <2>4 DEF DebtInv, DebtsAtHandExist, DueDebtsExist
  <2>8. DebtTypes'
    BY <1>1, <1>2, <2>1, <2>3 DEF DebtInv, DebtTypes, PaidStands, DebtRecord, DebtJob
  <2> QED
    BY <2>5, <2>6, <2>7, <2>8 DEF DebtInv
<1>3. CASE debts' = [debts EXCEPT ![d].attempts = Capped(@ + 1)] /\ UNCHANGED <<debtJob, debtPaid>>
  <2>1. DebtsStand(d) /\ debts'[d].status = debts[d].status
    BY <1>1, <1>3, AttemptWritten DEF DebtInv
  <2>2. DebtsAtHand' \subseteq DebtsAtHand
    BY <1>1, <1>3 DEF DebtsAtHand
  <2> QED
    BY <1>1, <1>3, <2>1, <2>2, DebtsKept
<1>4. CASE ManualCollectForSystem(d)
  <2>1. DebtsStand(d) /\ UNCHANGED debtPaid
    BY <1>1, <1>4, CollectedByHandWritten DEF ManualCollectForSystem, DebtInv
  <2>2. /\ debtJob' \in [do : {"settle by hand", "lift"}, at : DebtIds]
        /\ debtJob'.do = "lift" /\ debtJob'.at = d
    BY <1>4 DEF ManualCollectForSystem
  <2>3. debtJob' \in DebtJob /\ debtJob' # DebtNone
    BY <2>2, DebtNoneAssumption DEF DebtJob
  <2>4. DebtsAtHand' = {d}
    BY <2>2, <2>3 DEF DebtsAtHand
  <2>5. DebtTypes'
    BY <1>1, <2>1, <2>3 DEF DebtInv, DebtTypes, DebtsStand
  <2>6. DueDebtsExist' /\ DebtsAtHandExist'
    BY <1>1, <2>1, <2>4, ElementsOf DEF DebtInv, DebtTypes, DueDebtsExist, DebtsAtHandExist, DebtsStand
  <2>7. CollectedIsPaid'
    <3> SUFFICES ASSUME NEW e \in DebtIds, debts'[e] # DebtNone, debts'[e].status = "collected",
                        debts'[e].creditor # DebtSystem
                 PROVE  debtPaid'[e] >= debts'[e].amount
      BY DEF CollectedIsPaid, DebtIs
    <3>1. e # d /\ debts'[e] = debts[e]
      BY <1>1, <1>4, <2>1 DEF ManualCollectForSystem, DebtsStand
    <3> QED
      BY <2>1, <3>1 DEF DebtInv, CollectedIsPaid, DebtIs
  <2>8. PaidBeforeSettled'
    BY <2>2 DEF PaidBeforeSettled, DebtDoing
  <2> QED
    BY <2>5, <2>6, <2>7, <2>8 DEF DebtInv
<1> QED
  BY <1>2, <1>3, <1>4 DEF ManualCollect, ManualCollectForCaller

LEMMA SettleByHandKeeps ==
  ASSUME DebtInv, SettleByHand
  PROVE  DebtInv'
<1>1. /\ debtJob # DebtNone /\ debtJob.do = "settle by hand"
      /\ debtDue' = debtDue /\ debtPaid' = debtPaid
  BY DEF SettleByHand, DebtDoing, debtHistory
<1>2. debtJob \in [do : {"settle by hand", "lift"}, at : DebtIds]
  BY <1>1 DEF DebtInv, DebtTypes, DebtJob
<1>3. debtJob' = [do |-> "lift", at |-> debtJob.at]
  BY <1>2 DEF SettleByHand, DebtDoes
<1>4. debtJob' \in [do : {"settle by hand", "lift"}, at : DebtIds] /\ debtJob'.do = "lift"
  BY <1>2, <1>3
<1>5. debtJob' \in DebtJob /\ debtJob' # DebtNone
  BY <1>4, DebtNoneAssumption DEF DebtJob
<1>6. DebtsAtHand' \subseteq DebtsAtHand
  BY <1>1, <1>3, <1>5 DEF DebtsAtHand
<1>7. DebtAt \in DebtIds /\ debts[DebtAt] # DebtNone
  BY <1>1, AtDebt
<1>8. DebtsStand(DebtAt)
  BY <1>7, CollectedByHandWritten DEF SettleByHand, DebtInv
<1>9. debtPaid'[DebtAt] >= debts[DebtAt].amount
  BY <1>1 DEF DebtInv, PaidBeforeSettled, DebtDoing
<1> QED
  BY <1>1, <1>4, <1>5, <1>6, <1>7, <1>8, <1>9, DebtsKept

(* A new record is of a debt that is not due yet, and not collected.       *)
LEMMA CreateKeeps ==
  ASSUME DebtInv, NEW d \in DebtIds, NEW debtor \in Debtors, NEW loan \in DebtLoans,
         CreateDebtRecord(d, debtor, loan[1], loan[2]) \/ CreateDebtRecord(d, debtor, DebtSystem, loan[2])
  PROVE  DebtInv'
<1>1. PICK rec \in DebtRecord :
        debts' = [debts EXCEPT ![d] = rec] /\ rec.status = "active"
  <2>1. loan[2] \in Nat
    BY DebtAssumption
  <2>2. ASSUME NEW creditor \in {a[1] : a \in DebtLoans} \cup {DebtSystem},
               CreateDebtRecord(d, debtor, creditor, loan[2])
        PROVE  \E rec \in DebtRecord :
                 debts' = [debts EXCEPT ![d] = rec] /\ rec.status = "active"
    <3> DEFINE rec == [debtor |-> debtor, creditor |-> creditor, amount |-> loan[2],
                       status |-> "active", attempts |-> 0]
    <3>1. rec \in DebtRecord /\ rec.status = "active"
      BY <2>1 DEF DebtRecord
    <3> QED
      BY <2>2, <3>1 DEF CreateDebtRecord
  <2> QED
    BY <2>2
<1>2. /\ debtJob = DebtNone /\ debts[d] = DebtNone
      /\ UNCHANGED <<debtDue, debtJob, debtPaid>>
  BY DEF CreateDebtRecord, DebtFree, debtHistory
<1>3. \A e \in DebtIds : debts[e] # DebtNone => debts'[e] = debts[e] /\ e # d
  BY <1>1, <1>2 DEF DebtInv, DebtTypes
<1>4. \A i \in DOMAIN debtDue : debtDue[i] \in DebtIds
  BY ElementsOf DEF DebtInv, DebtTypes
<1>5. DueDebtsExist' /\ DebtsAtHandExist' /\ PaidBeforeSettled'
  BY <1>2, <1>3, <1>4
     DEF DebtInv, DueDebtsExist, DebtsAtHandExist, DebtsAtHand, PaidBeforeSettled, DebtDoing
<1>6. CollectedIsPaid'
  <2>1. debts'[d].status # "collected"
    BY <1>1 DEF DebtInv, DebtTypes
  <2>2. \A e \in DebtIds : e # d => debts'[e] = debts[e]
    BY <1>1 DEF DebtInv, DebtTypes
  <2> QED
    BY <1>2, <2>1, <2>2 DEF DebtInv, CollectedIsPaid, DebtIs
<1>7. DebtTypes'
  <2>1. debts' \in [DebtIds -> DebtRecord \cup {DebtNone}]
    BY <1>1 DEF DebtInv, DebtTypes
  <2> QED
    BY <1>2, <2>1 DEF DebtInv, DebtTypes, DebtRecord, DebtJob
<1> QED
  BY <1>5, <1>6, <1>7 DEF DebtInv

LEMMA FallsDueKeeps ==
  ASSUME DebtInv, NEW d \in DebtIds, DebtFallsDue(d)
  PROVE  DebtInv'
<1>1. /\ debtDue' = Append(debtDue, d) /\ debts[d] # DebtNone
      /\ UNCHANGED <<debts, debtJob, debtPaid>>
  BY DEF DebtFallsDue, debtTables, debtHistory
<1>2. debtDue \in Seq(DebtIds)
  BY DEF DebtInv, DebtTypes
<1>3. /\ debtDue' \in Seq(DebtIds)
      /\ \A i \in DOMAIN debtDue' :
           debtDue'[i] = d \/ (i \in DOMAIN debtDue /\ debtDue'[i] = debtDue[i])
  BY <1>1, <1>2
<1>4. DueDebtsExist'
  BY <1>1, <1>3 DEF DebtInv, DueDebtsExist
<1>5. DebtTypes'
  BY <1>1, <1>3 DEF DebtInv, DebtTypes, DebtRecord, DebtJob
<1>6. DebtsAtHandExist' /\ PaidBeforeSettled' /\ CollectedIsPaid'
  BY <1>1 DEF DebtInv, DebtsAtHandExist, DebtsAtHand, PaidBeforeSettled, DebtDoing, DebtAt,
              CollectedIsPaid, DebtIs
<1> QED
  BY <1>4, <1>5, <1>6 DEF DebtInv

(* What leaves the records, their payments and the method alone, or lets   *)
(* go of the method                                                        *)
LEMMA OthersKeep ==
  ASSUME DebtInv, UNCHANGED <<debts, debtDue, debtPaid>>, debtJob' \in {debtJob, DebtNone}
  PROVE  DebtInv'
<1>1. DebtTypes' /\ DueDebtsExist'
  BY DEF DebtInv, DebtTypes, DueDebtsExist, DebtRecord, DebtJob
<1>2. DebtsAtHandExist' /\ PaidBeforeSettled' /\ CollectedIsPaid'
  BY DEF DebtInv, DebtsAtHandExist, DebtsAtHand, PaidBeforeSettled, DebtDoing, DebtAt,
         CollectedIsPaid, DebtIs
<1> QED
  BY <1>1, <1>2 DEF DebtInv

LEMMA DebtInitially == DebtInit => DebtInv
<1> SUFFICES ASSUME DebtInit PROVE DebtInv
  OBVIOUS
<1>1. DebtTypes /\ DueDebtsExist
  BY DEF DebtInit, DebtTypes, DueDebtsExist
<1>2. DebtsAtHandExist /\ PaidBeforeSettled /\ CollectedIsPaid
  BY DEF DebtInit, DebtsAtHandExist, DebtsAtHand, PaidBeforeSettled, DebtDoing,
         CollectedIsPaid, DebtIs
<1> QED
  BY <1>1, <1>2 DEF DebtInv

LEMMA DebtStep == DebtInv /\ [DebtNext]_debtVars => DebtInv'
<1> SUFFICES ASSUME DebtInv, [DebtNext]_debtVars PROVE DebtInv'
  OBVIOUS
<1>1. CASE DebtSteps
  BY <1>1, ReturnKeeps, ReturnedKeeps, MarkKeeps, AttemptKeeps, CollectKeeps, SettleKeeps,
     RestrictKeeps, SettleByHandKeeps DEF DebtSteps
<1>2. CASE DebtCrash
  BY <1>2, OthersKeep DEF DebtCrash, debtTables
<1>3. ASSUME NEW c \in Debtors, NEW d \in DebtIds, NEW loan \in DebtLoans,
             \/ RecordBorrow(d, c, loan[1], loan[2])
             \/ RecordSystemDebt(d, c, loan[2])
      PROVE  DebtInv'
  BY <1>3, CreateKeeps DEF RecordBorrow, RecordSystemDebt
<1>4. ASSUME NEW c \in Debtors,
             \/ LiftRestriction(c) \/ DeleteLiquidationRule(c)
             \/ \E rule \in DebtRuleChoices : SetLiquidationRule(c, rule)
      PROVE  DebtInv'
  BY <1>4, OthersKeep DEF LiftRestriction, DeleteLiquidationRule, SetLiquidationRule, debtHistory
<1>5. CASE UNCHANGED debtVars
  BY <1>5, OthersKeep DEF debtVars, debtTables, debtHistory
<1> QED
  BY <1>1, <1>2, <1>3, <1>4, <1>5, TickKeeps, RecordReturnKeeps, ManualCollectKeeps, FallsDueKeeps
     DEF DebtNext

(* No debt to a caller counts as collected before it is paid in full,      *)
(* whoever returns or collects it, whatever fails and whenever the process *)
(* dies: CollectedIsPaid.                                                  *)
THEOREM DebtsPaid == DebtSpec => []CollectedIsPaid
<1>1. DebtInv => CollectedIsPaid
  BY DEF DebtInv
<1> QED
  BY <1>1, DebtInitially, DebtStep, PTL DEF DebtSpec

-----------------------------------------------------------------------------
(* Callers that fall silent, and groups *)

HbSpec == HbInit /\ [][HbNext]_hbVars

HbTaskType ==
  [do : {"check", "check only", "dispose", "thawed"}, caller : HbCallers]
    \cup [do : {"freeze", "thaw"}, caller : HbCallers, resource : HbResources]
    \cup [do : {"group", "delete"}, group : HbGroups]
    \cup [do : {"degrade", "restore"}, groups : SUBSET HbGroups]

HbListed == ToSet(hbTodo)

HbRows == [HbGroups -> HbGroupRow \cup {HbNone}]
DepsExist == \A d \in hbDeps : hbGroups[d[1]] # HbNone /\ hbGroups[d[2]] # HbNone

HbTypes ==
  /\ hbRegs \in [HbCallers -> HbRegistration \cup {HbNone}]
  /\ hbFrozen \in [HbCallers -> SUBSET HbResources]
  /\ hbGroups \in HbRows
  /\ hbDeps \subseteq HbGroups \X HbGroups
  /\ DepsExist
  /\ hbTodo \in Seq(HbTaskType)
  /\ hbLateAtStart \subseteq HbCallers

Thaws(t) == t.do \in {"thaw", "thawed"}
Cascades(t) == t.do \in {"degrade", "restore"}
AboutGroups(t) == Cascades(t) \/ t.do \in {"group", "delete"}

(* A method is about callers that are registered; resources are frozen for *)
(* those frozen already; and nothing else goes on while some are released. *)
TasksStand ==
  /\ \A c \in hbLateAtStart : hbRegs[c] # HbNone
  /\ \A t \in HbListed : ~AboutGroups(t) => hbRegs[t.caller] # HbNone
  /\ \A t \in HbListed : t.do = "freeze" => HbIs(t.caller, {"frozen"})
  /\ (\E t \in HbListed : Thaws(t)) => \A t \in HbListed : Thaws(t)

FrozenInv == TasksStand /\ FrozenTogether

LEMMA NoneListed ==
  ASSUME NEW S
  PROVE  <<>> \in Seq(S) /\ ToSet(<<>>) = {}
  BY DEF ToSet

LEMMA OneListed ==
  ASSUME NEW S, NEW t \in S
  PROVE  <<t>> \in Seq(S) /\ ToSet(<<t>>) = {t}
  BY DEF ToSet

LEMMA HbHead ==
  ASSUME HbTypes, hbTodo # <<>>
  PROVE  /\ hbTodo[1] \in HbTaskType /\ hbTodo[1] \in HbListed
         /\ Tail(hbTodo) \in Seq(HbTaskType)
         /\ HbListed = {hbTodo[1]} \cup ToSet(Tail(hbTodo))
<1>1. hbTodo \in Seq(HbTaskType) /\ Head(hbTodo) = hbTodo[1]
  BY DEF HbTypes
<1> QED
  BY <1>1, ListHeadAndTail DEF HbListed

LEMMA HbTaskFields ==
  ASSUME NEW t \in HbTaskType
  PROVE  /\ t.do \in {"check", "check only", "dispose", "thawed", "freeze", "thaw"}
              => t.caller \in HbCallers
         /\ t.do \in {"freeze", "thaw"} => t.resource \in HbResources
         /\ t.do \in {"group", "delete"} => t.group \in HbGroups
         /\ Cascades(t) => t.groups \in SUBSET HbGroups
  BY DEF HbTaskType, Cascades

LEMMA HbUpdated ==
  ASSUME HbTypes, NEW c \in HbCallers, hbRegs[c] # HbNone, NEW status \in HbStatus,
         UpdateHeartbeatRegistration(c, status)
  PROVE  /\ hbRegs' \in [HbCallers -> HbRegistration \cup {HbNone}]
         /\ hbRegs'[c] # HbNone /\ hbRegs'[c].status = status
         /\ \A d \in HbCallers \ {c} : hbRegs'[d] = hbRegs[d]
<1>1. hbRegs \in [HbCallers -> HbRegistration \cup {HbNone}] /\ hbRegs[c] \in HbRegistration
  BY DEF HbTypes
<1>2. PICK row : row = [hbRegs[c] EXCEPT !.status = status]
  OBVIOUS
<1>3. row \in HbRegistration /\ row.status = status
  BY <1>1, <1>2 DEF HbRegistration
<1>4. row # HbNone
  BY <1>3, HbAssumption
<1>5. hbRegs' = [hbRegs EXCEPT ![c] = row]
  BY <1>2 DEF UpdateHeartbeatRegistration
<1> QED
  BY <1>1, <1>3, <1>4, <1>5

LEMMA HbTasksListed ==
  ASSUME NEW do \in {"freeze", "thaw"}, NEW c \in HbCallers, NEW rs \in SUBSET HbResources
  PROVE  /\ HbTasks(do, c, rs) \in Seq(HbTaskType)
         /\ \A t \in ToSet(HbTasks(do, c, rs)) : t.do = do /\ t.caller = c
<1>1. PICK q : q = SetToSeq(rs)
  OBVIOUS
<1>2. q \in Seq(rs)
  BY <1>1, SetListed, FS_Subset, HbAssumption
<1>3. DOMAIN q = 1..Len(q) /\ Len(q) \in Nat /\ \A i \in 1..Len(q) : q[i] \in HbResources
  BY <1>2
<1>4. PICK ts : ts = [i \in 1..Len(q) |-> [do |-> do, caller |-> c, resource |-> q[i]]]
  OBVIOUS
<1>5. HbTasks(do, c, rs) = ts
  BY <1>1, <1>3, <1>4 DEF HbTasks
<1>6. \A i \in 1..Len(q) : ts[i] \in HbTaskType /\ ts[i].do = do /\ ts[i].caller = c
  BY <1>3, <1>4 DEF HbTaskType
<1>7. ts \in Seq(HbTaskType) /\ DOMAIN ts = 1..Len(q)
  BY <1>3, <1>4, <1>6
<1> QED
  BY <1>5, <1>6, <1>7 DEF ToSet

LEMMA HbChecksListed ==
  ASSUME NEW rs \in SUBSET HbCallers, NEW ts,
         ts = LET cs == SetToSeq(rs) IN [i \in DOMAIN cs |-> HbTask("check", cs[i])]
  PROVE  /\ ts \in Seq(HbTaskType)
         /\ \A t \in ToSet(ts) : t.do = "check" /\ t.caller \in rs
<1>1. PICK q : q = SetToSeq(rs)
  OBVIOUS
<1>2. q \in Seq(rs)
  BY <1>1, SetListed, FS_Subset, HbAssumption
<1>3. DOMAIN q = 1..Len(q) /\ Len(q) \in Nat /\ \A i \in 1..Len(q) : q[i] \in rs
  BY <1>2
<1>4. ts = [i \in 1..Len(q) |-> HbTask("check", q[i])]
  BY <1>1, <1>3
<1>5. \A i \in 1..Len(q) : ts[i] \in HbTaskType /\ ts[i].do = "check" /\ ts[i].caller \in rs
  BY <1>3, <1>4 DEF HbTaskType, HbTask
<1>6. ts \in Seq(HbTaskType) /\ DOMAIN ts = 1..Len(q)
  BY <1>3, <1>4, <1>5
<1> QED
  BY <1>5, <1>6 DEF ToSet

(* The groups that a method looks at last                                  *)
LEMMA HbGroupsListed ==
  ASSUME HbTypes, NEW c \in HbCallers, hbRegs[c] # HbNone
  PROVE  /\ HbGroupTasks(c) \in Seq(HbTaskType)
         /\ \A t \in ToSet(HbGroupTasks(c)) : t.do = "group"
<1>1. hbRegs[c].group \in HbGroups \cup {HbNone}
  BY DEF HbTypes, HbRegistration
<1>2. CASE hbRegs[c].group = HbNone
  BY <1>2 DEF HbGroupTasks, ToSet
<1>3. CASE hbRegs[c].group # HbNone
  <2>1. PICK t : t = HbGroupTask(hbRegs[c].group)
    OBVIOUS
  <2>2. t \in HbTaskType /\ t.do = "group"
    BY <1>1, <1>3, <2>1 DEF HbGroupTask, HbTaskType
  <2>3. HbGroupTasks(c) = <<t>>
    BY <1>3, <2>1 DEF HbGroupTasks
  <2> QED
    BY <2>2, <2>3 DEF ToSet
<1> QED
  BY <1>2, <1>3

LEMMA HbListedTyped ==
  ASSUME HbTypes
  PROVE  \A t \in HbListed : t \in HbTaskType
  BY DEF HbTypes, HbListed, ToSet

(* What an action may do that leaves what is frozen frozen                 *)
FrozenStand ==
  /\ \A c \in HbCallers : hbRegs[c] # HbNone => hbRegs'[c] # HbNone
  /\ \A c \in HbCallers : HbIs(c, {"frozen"}) => HbIs(c, {"frozen"})'
  /\ \A c \in hbLateAtStart' : c \in hbLateAtStart \/ hbRegs'[c] # HbNone
  /\ \A c \in HbCallers : hbFrozen'[c] \subseteq hbFrozen[c] \/ HbIs(c, {"frozen"})'

TaskComes(t) ==
  /\ ~AboutGroups(t) => hbRegs'[t.caller] # HbNone
  /\ t.do = "freeze" => HbIs(t.caller, {"frozen"})'

TasksCome ==
  /\ \A t \in HbListed' : t \in HbListed \/ TaskComes(t)
  /\ \/ HbListed' \subseteq HbListed
     \/ \A t \in HbListed' : ~Thaws(t)
     \/ \A t \in HbListed' : Thaws(t)

LEMMA FrozenKept ==
  ASSUME HbTypes, FrozenInv, FrozenStand, TasksCome
  PROVE  FrozenInv'
<1>1. \A t \in HbListed : t \in HbTaskType
  BY HbListedTyped
<1>2. \A c \in hbLateAtStart' : hbRegs'[c] # HbNone
  BY DEF FrozenInv, TasksStand, FrozenStand, HbTypes
<1>3. ASSUME NEW t \in HbListed', ~AboutGroups(t)
      PROVE  hbRegs'[t.caller] # HbNone
  <2>1. CASE t \in HbListed
    <3>1. hbRegs[t.caller] # HbNone /\ t.caller \in HbCallers
      BY <1>1, <1>3, <2>1, HbTaskFields
         DEF FrozenInv, TasksStand, HbTaskType, AboutGroups, Cascades
    <3> QED
      BY <3>1 DEF FrozenStand
  <2> QED
    BY <1>3, <2>1 DEF TasksCome, TaskComes
<1>4. ASSUME NEW t \in HbListed', t.do = "freeze"
      PROVE  HbIs(t.caller, {"frozen"})'
  <2>1. CASE t \in HbListed
    <3>1. HbIs(t.caller, {"frozen"}) /\ t.caller \in HbCallers
      BY <1>1, <1>4, <2>1, HbTaskFields DEF FrozenInv, TasksStand
    <3> QED
      BY <3>1 DEF FrozenStand
  <2> QED
    BY <1>4, <2>1 DEF TasksCome, TaskComes
<1>5. (\E t \in HbListed' : Thaws(t)) => \A t \in HbListed' : Thaws(t)
  BY DEF TasksCome, FrozenInv, TasksStand
<1>6. FrozenTogether'
  <2> SUFFICES ASSUME NEW c \in HbCallers, hbFrozen'[c] # {}
               PROVE  HbIs(c, {"frozen"})'
    BY DEF FrozenTogether
  <2>1. hbFrozen[c] # {} \/ HbIs(c, {"frozen"})'
    BY DEF FrozenStand
  <2> QED
    BY <2>1 DEF FrozenInv, FrozenTogether, FrozenStand
<1> QED
  BY <1>2, <1>3, <1>4, <1>5, <1>6 DEF FrozenInv, TasksStand, Thaws

(* Groups.  A degrade has a cause for every group that it has still to     *)
(* take, and comes before everything else that is listed.                  *)
Cause(g) == \E d \in hbDeps : d[1] = g /\ GroupFails(d[2])

NoDegrade(ts) == \A t \in ts : t.do # "degrade"
CascadeStands ==
  /\ hbTodo # <<>> => NoDegrade(ToSet(Tail(hbTodo)))
  /\ \A t \in HbListed : t.do = "degrade" => \A g \in t.groups : Cause(g)

CausesStand == \A g \in HbDegraded \ (hbOrphans \cup HbPending) : Cause(g)

GraphTypes ==
  /\ hbGroups \in HbRows
  /\ hbDeps \subseteq HbGroups \X HbGroups
  /\ DepsExist

GraphInv == GraphTypes /\ CausesStand /\ CascadeStands

(* What a step lists                                                       *)
ListsWell ==
  /\ hbTodo' \in Seq(HbTaskType)
  /\ \A t \in HbListed' : t \in HbListed \/ AboutGroups(t)

LEMMA PendingListed ==
  ASSUME NEW g
  PROVE  g \in HbPending <=> \E t \in HbListed : t.do = "restore" /\ g \in t.groups
  BY DEF HbPending, HbListed

(* The same of a later state                                               *)
LEMMA PendingListedNext ==
  ASSUME NEW g
  PROVE  g \in HbPending' <=> \E t \in HbListed' : t.do = "restore" /\ g \in t.groups
  BY DEF HbPending, HbListed

LEMMA DegradedIs ==
  ASSUME NEW g
  PROVE  g \in HbDegraded <=> g \in HbGroups /\ hbGroups[g] # HbNone /\ hbGroups[g].degraded
  BY DEF HbDegraded

LEMMA DegradedIsNext ==
  ASSUME NEW g
  PROVE  g \in HbDegraded' <=> g \in HbGroups /\ hbGroups'[g] # HbNone /\ hbGroups'[g].degraded
  BY DEF HbDegraded

(* One that cannot be restored has a cause.                                *)
LEMMA RestoredOrCaused ==
  ASSUME NEW g \in HbDegraded, ~CanRestore(g)
  PROVE  Cause(g)
  BY DEF CanRestore, Cause, ListGroupDependenciesByGroup

LEMMA RestoredOrCausedNext ==
  ASSUME NEW g \in HbDegraded', ~CanRestore(g)'
  PROVE  Cause(g)'
  BY DEF CanRestore, Cause, ListGroupDependenciesByGroup

(* A cascade put before what is listed                                     *)
Pushed(s, do, groups, rest) ==
  /\ s \in Seq(HbTaskType)
  /\ ToSet(rest) \subseteq ToSet(s)
  /\ \A t \in ToSet(s) : t \in ToSet(rest) \/ (t.do = do /\ t.groups = groups)
  /\ \A g \in groups : \E t \in ToSet(s) : t.do = do /\ g \in t.groups
  /\ s # <<>> => ToSet(Tail(s)) \subseteq ToSet(rest)

LEMMA CascadePushed ==
  ASSUME NEW do \in {"degrade", "restore"}, NEW groups \in SUBSET HbGroups,
         NEW rest \in Seq(HbTaskType), NEW s, s = HbCascade(do, groups) \o rest
  PROVE  Pushed(s, do, groups, rest)
<1>1. CASE groups = {}
  <2>1. HbCascade(do, groups) = <<>>
    BY <1>1 DEF HbCascade
  <2>2. s = rest
    BY <2>1
  <2>3. rest # <<>> => ToSet(Tail(rest)) \subseteq ToSet(rest)
    BY ListHeadAndTail
  <2> QED
    BY <1>1, <2>2, <2>3 DEF Pushed
<1>2. CASE groups # {}
  <2>1. PICK t : t = [do |-> do, groups |-> groups]
    OBVIOUS
  <2>2. t \in HbTaskType /\ t.do = do /\ t.groups = groups
    BY <2>1 DEF HbTaskType
  <2>3. s = <<t>> \o rest
    BY <1>2, <2>1 DEF HbCascade
  <2>4. s \in Seq(HbTaskType) /\ ToSet(s) = {t} \cup ToSet(rest)
    BY <2>2, <2>3, ListPrepended
  <2>5. Tail(s) = rest
    BY <2>3
  <2> QED
    BY <2>2, <2>4, <2>5 DEF Pushed
<1> QED
  BY <1>1, <1>2

(* checkCascadeDegradeLocked after g's row is written: whoever depends on  *)
(* g is tried, unless g fails.                                             *)
LEMMA CheckedListed ==
  ASSUME NEW g \in HbGroups, NEW rest \in Seq(HbTaskType),
         hbTodo' = CheckCascadeDegrade(g)' \o rest
  PROVE  /\ hbTodo' \in Seq(HbTaskType)
         /\ ToSet(rest) \subseteq HbListed'
         /\ \A t \in HbListed' : t \in ToSet(rest) \/ AboutGroups(t)
         /\ hbTodo' # <<>> => ToSet(Tail(hbTodo')) \subseteq ToSet(rest)
         /\ \A t \in HbListed' : t.do = "degrade" =>
              t \in ToSet(rest) \/ \A d \in t.groups : Cause(d)'
         /\ \A d \in HbDegraded' : <<d, g>> \in hbDeps' => d \in HbPending' \/ GroupFails(g)'
<1>1. PICK s : s = hbTodo'
  OBVIOUS
<1>2. HbListed' = ToSet(s)
  BY <1>1 DEF HbListed
<1>3. CASE hbGroups'[g].status = "unhealthy"
  <2>1. PICK ds \in SUBSET HbGroups :
          ds = {d \in ListGroupsThatDependOn(g)' : hbGroups'[d] # HbNone /\ ~hbGroups'[d].degraded}
    BY DEF ListGroupsThatDependOn
  <2>2. CheckCascadeDegrade(g)' = HbCascade("degrade", ds)
    BY <1>3, <2>1 DEF CheckCascadeDegrade
  <2>3. s = HbCascade("degrade", ds) \o rest
    BY <1>1, <2>2
  <2>4. /\ s \in Seq(HbTaskType)
        /\ ToSet(rest) \subseteq ToSet(s)
        /\ \A t \in ToSet(s) : t \in ToSet(rest) \/ (t.do = "degrade" /\ t.groups = ds)
        /\ s # <<>> => ToSet(Tail(s)) \subseteq ToSet(rest)
    <3>1. Pushed(s, "degrade", ds, rest)
      BY <2>3, CascadePushed
    <3> QED
      BY <3>1 DEF Pushed
  <2>5. GroupFails(g)'
    BY <1>3 DEF GroupFails
  <2>6. \A d \in ds : Cause(d)'
    BY <2>1, <2>5 DEF Cause, ListGroupsThatDependOn
  <2> QED
    BY <1>1, <1>2, <2>4, <2>5, <2>6 DEF AboutGroups, Cascades
<1>4. CASE hbGroups'[g].status # "unhealthy"
  <2>1. PICK ds \in SUBSET HbGroups : ds = ListGroupsThatDependOn(g)' \cap HbDegraded'
    BY DEF ListGroupsThatDependOn
  <2>2. CheckCascadeDegrade(g)' = HbCascade("restore", ds)
    BY <1>4, <2>1 DEF CheckCascadeDegrade
  <2>3. s = HbCascade("restore", ds) \o rest
    BY <1>1, <2>2
  <2>4. /\ s \in Seq(HbTaskType)
        /\ ToSet(rest) \subseteq ToSet(s)
        /\ \A t \in ToSet(s) : t \in ToSet(rest) \/ (t.do = "restore" /\ t.groups = ds)
        /\ \A d \in ds : \E t \in ToSet(s) : t.do = "restore" /\ d \in t.groups
        /\ s # <<>> => ToSet(Tail(s)) \subseteq ToSet(rest)
    <3>1. Pushed(s, "restore", ds, rest)
      BY <2>3, CascadePushed
    <3> QED
      BY <3>1 DEF Pushed
  <2>5. \A d \in HbDegraded' : <<d, g>> \in hbDeps' => d \in ds
    BY <2>1 DEF ListGroupsThatDependOn, HbDegraded
  <2>6. \A d \in ds : d \in HbPending'
    BY <1>2, <2>4, PendingListedNext
  <2> QED
    BY <1>1, <1>2, <2>4, <2>5, <2>6 DEF AboutGroups, Cascades
<1> QED
  BY <1>3, <1>4

LEMMA HbAliveCounted ==
  ASSUME NEW g
  PROVE  Cardinality({c \in GroupMembers(g) : HbIs(c, HbAlive)}) \in Nat
<1>1. {c \in GroupMembers(g) : HbIs(c, HbAlive)} \subseteq HbCallers
  BY DEF GroupMembers
<1> QED
  BY <1>1, FS_Subset, FS_CardinalityType, HbAssumption

(* A row that is there is written, so the groups that have one are those   *)
(* that had.                                                               *)
LEMMA GroupRowWritten ==
  ASSUME GraphTypes, NEW g \in HbGroups, hbGroups[g] # HbNone, NEW row \in HbGroupRow,
         hbGroups' = [hbGroups EXCEPT ![g] = row], hbDeps' = hbDeps
  PROVE  /\ GraphTypes' /\ hbGroups'[g] = row
         /\ \A h \in HbGroups \ {g} : hbGroups'[h] = hbGroups[h]
<1>1. row # HbNone
  BY HbAssumption
<1>2. /\ hbGroups' \in HbRows /\ hbGroups'[g] = row
      /\ \A h \in HbGroups \ {g} : hbGroups'[h] = hbGroups[h]
  BY DEF GraphTypes, HbRows
<1>3. \A h \in HbGroups : hbGroups[h] # HbNone => hbGroups'[h] # HbNone
  BY <1>1, <1>2
<1> QED
  BY <1>2, <1>3 DEF GraphTypes, DepsExist

(* What is listed behind a task of a group                                 *)
LEMMA GraphTail ==
  ASSUME HbTypes, GraphInv, hbTodo # <<>>
  PROVE  \E rest \in Seq(HbTaskType) :
           /\ rest = Tail(hbTodo) /\ NoDegrade(ToSet(rest))
           /\ HbListed = {hbTodo[1]} \cup ToSet(rest)
           /\ rest # <<>> => ToSet(Tail(rest)) \subseteq ToSet(rest)
<1>1. PICK rest \in Seq(HbTaskType) : rest = Tail(hbTodo)
  BY HbHead
<1>2. HbListed = {hbTodo[1]} \cup ToSet(rest)
  BY <1>1, HbHead
<1>3. rest # <<>> => ToSet(Tail(rest)) \subseteq ToSet(rest)
  BY ListHeadAndTail
<1>4. NoDegrade(ToSet(rest))
  BY <1>1 DEF GraphInv, CascadeStands
<1> QED
  BY <1>1, <1>2, <1>3, <1>4

(* Of one that is degraded neither the orphan nor the pending knows; then  *)
(* there is a dependency that fails.                                       *)
LEMMA CauseOf ==
  ASSUME GraphInv, NEW h \in HbDegraded, h \notin hbOrphans, h \notin HbPending
  PROVE  \E d \in hbDeps : d = <<h, d[2]>> /\ d[2] \in HbGroups /\ GroupFails(d[2])
<1>1. PICK d \in hbDeps : d[1] = h /\ GroupFails(d[2])
  BY DEF GraphInv, CausesStand, Cause
<1>2. d = <<d[1], d[2]>> /\ d[2] \in HbGroups
  BY DEF GraphInv, GraphTypes
<1> QED
  BY <1>1, <1>2

LEMMA GroupHealthKeepsGraph ==
  ASSUME HbTypes, GraphInv, NEW g \in HbGroups, UpdateGroupHealth(g)
  PROVE  GraphInv' /\ ListsWell
<1>1. hbTodo # <<>> /\ hbTodo[1].do = "group" /\ UNCHANGED <<hbDeps, hbOrphans>>
  BY DEF UpdateGroupHealth, HbNow
<1>2. PICK rest \in Seq(HbTaskType) :
        /\ rest = Tail(hbTodo) /\ NoDegrade(ToSet(rest))
        /\ HbListed = {hbTodo[1]} \cup ToSet(rest)
        /\ rest # <<>> => ToSet(Tail(rest)) \subseteq ToSet(rest)
  BY <1>1, GraphTail
<1>3. ASSUME NEW h \in HbPending
      PROVE  \E t \in ToSet(rest) : t.do = "restore" /\ h \in t.groups
  BY <1>1, <1>2, <1>3, PendingListed
<1>4. CASE hbGroups[g] = HbNone
  <2>1. hbTodo' = rest /\ hbGroups' = hbGroups
    BY <1>2, <1>4 DEF UpdateGroupHealth
  <2>2. HbListed' = ToSet(rest)
    BY <2>1 DEF HbListed
  <2>3. \A h \in HbPending : h \in HbPending'
    BY <1>3, <2>2, PendingListedNext
  <2>4. GraphTypes'
    BY <1>1, <2>1 DEF GraphInv, GraphTypes, DepsExist
  <2>5. HbDegraded' = HbDegraded /\ \A h : Cause(h) => Cause(h)'
    BY <1>1, <2>1 DEF HbDegraded, Cause, GroupFails
  <2>6. CausesStand'
    BY <1>1, <2>3, <2>5 DEF GraphInv, CausesStand
  <2>7. CascadeStands'
    BY <1>2, <2>1, <2>2 DEF CascadeStands, NoDegrade
  <2> QED
    BY <1>2, <2>1, <2>2, <2>4, <2>6, <2>7 DEF GraphInv, ListsWell
<1>5. CASE hbGroups[g] # HbNone
  <2>1. PICK alive \in Nat : alive = Cardinality({c \in GroupMembers(g) : HbIs(c, HbAlive)})
    BY HbAliveCounted
  <2>2. PICK row : row = [hbGroups[g] EXCEPT !.alive = alive, !.status = HbStatusOf(alive)]
    OBVIOUS
  <2>3. hbGroups[g] \in HbGroupRow /\ HbStatusOf(alive) \in {"healthy", "unhealthy"}
    BY <1>5 DEF GraphInv, GraphTypes, HbRows, HbStatusOf
  <2>4. row \in HbGroupRow /\ row.degraded = hbGroups[g].degraded
    BY <2>1, <2>2, <2>3 DEF HbGroupRow
  <2>5. hbGroups' = [hbGroups EXCEPT ![g] = row]
    BY <1>5, <2>1, <2>2 DEF UpdateGroupHealth
  <2>6. /\ GraphTypes' /\ hbGroups'[g] = row
        /\ \A h \in HbGroups \ {g} : hbGroups'[h] = hbGroups[h]
    BY <1>1, <1>5, <2>4, <2>5, GroupRowWritten DEF GraphInv
  <2>7. hbTodo' = CheckCascadeDegrade(g)' \o rest
    BY <1>2, <1>5 DEF UpdateGroupHealth
  <2>8. /\ hbTodo' \in Seq(HbTaskType)
        /\ ToSet(rest) \subseteq HbListed'
        /\ \A t \in HbListed' : t \in ToSet(rest) \/ AboutGroups(t)
        /\ hbTodo' # <<>> => ToSet(Tail(hbTodo')) \subseteq ToSet(rest)
        /\ \A t \in HbListed' : t.do = "degrade" =>
             t \in ToSet(rest) \/ \A d \in t.groups : Cause(d)'
        /\ \A d \in HbDegraded' : <<d, g>> \in hbDeps' => d \in HbPending' \/ GroupFails(g)'
    BY <2>7, CheckedListed
  <2>9. \A h \in HbPending : h \in HbPending'
    BY <1>3, <2>8, PendingListedNext
  <2>10. ASSUME NEW h \in HbDegraded', h \notin hbOrphans', h \notin HbPending'
         PROVE  Cause(h)'
    <3>1. h \in HbDegraded
      BY <1>5, <2>4, <2>6, DegradedIs, DegradedIsNext
    <3>2. PICK d \in hbDeps : d = <<h, d[2]>> /\ d[2] \in HbGroups /\ GroupFails(d[2])
      BY <1>1, <2>9, <2>10, <3>1, CauseOf
    <3>3. GroupFails(d[2])'
      <4>1. CASE d[2] = g
        BY <1>1, <2>8, <2>10, <3>2, <4>1
      <4>2. CASE d[2] # g
        BY <2>6, <3>2, <4>2 DEF GroupFails
      <4> QED
        BY <4>1, <4>2
    <3> QED
      BY <1>1, <3>2, <3>3 DEF Cause
  <2>11. CausesStand'
    BY <2>10 DEF CausesStand
  <2>12. CascadeStands'
    BY <1>2, <2>8 DEF CascadeStands, NoDegrade
  <2> QED
    BY <1>2, <2>6, <2>8, <2>11, <2>12 DEF GraphInv, ListsWell
<1> QED
  BY <1>4, <1>5

(* Failing is not undone, so what had a cause has it still.                *)
LEMMA DegradeKeepsGraph ==
  ASSUME HbTypes, GraphInv, DegradeGroup
  PROVE  GraphInv' /\ ListsWell
<1>1. hbTodo # <<>> /\ hbTodo[1].do = "degrade" /\ UNCHANGED <<hbDeps, hbOrphans>>
  BY DEF DegradeGroup, HbNow
<1>2. PICK rest \in Seq(HbTaskType) :
        /\ rest = Tail(hbTodo) /\ NoDegrade(ToSet(rest))
        /\ HbListed = {hbTodo[1]} \cup ToSet(rest)
        /\ rest # <<>> => ToSet(Tail(rest)) \subseteq ToSet(rest)
  BY <1>1, GraphTail
<1>3. PICK t \in HbTaskType : t = hbTodo[1] /\ t \in HbListed /\ t.do = "degrade"
  BY <1>1, HbHead
<1>4. t.groups \in SUBSET HbGroups
  BY <1>3, HbTaskFields DEF Cascades
<1>5. PICK g \in t.groups :
        /\ hbGroups' = [hbGroups EXCEPT ![g] = [@ EXCEPT !.degraded = TRUE, !.status = "degraded"]]
        /\ hbTodo' = HbTaken(g)
  BY <1>3 DEF DegradeGroup
<1>6. \A h \in t.groups : Cause(h)
  BY <1>3 DEF GraphInv, CascadeStands
<1>7. g \in HbGroups /\ hbGroups[g] # HbNone
  BY <1>4, <1>6 DEF Cause, GraphInv, GraphTypes, DepsExist
<1>8. PICK row : row = [hbGroups[g] EXCEPT !.degraded = TRUE, !.status = "degraded"]
  OBVIOUS
<1>9. row \in HbGroupRow /\ row.degraded = TRUE
  <2>1. hbGroups[g] \in HbGroupRow
    BY <1>7 DEF GraphInv, GraphTypes, HbRows
  <2> QED
    BY <1>8, <2>1 DEF HbGroupRow
<1>10. /\ GraphTypes' /\ hbGroups'[g] = row
       /\ \A h \in HbGroups \ {g} : hbGroups'[h] = hbGroups[h]
  <2>1. hbGroups' = [hbGroups EXCEPT ![g] = row]
    BY <1>5, <1>8
  <2> QED
    BY <1>1, <1>7, <1>9, <2>1, GroupRowWritten DEF GraphInv
<1>11. \A h \in HbGroups : GroupFails(h) => GroupFails(h)'
  BY <1>9, <1>10 DEF GroupFails
<1>12. \A h : Cause(h) => Cause(h)'
  BY <1>1, <1>11 DEF Cause, GraphInv, GraphTypes
<1>13. PICK s, groups : s = hbTodo' /\ groups = t.groups \ {g} /\ groups \in SUBSET HbGroups
  BY <1>4
<1>14. s = HbCascade("degrade", groups) \o rest
  BY <1>2, <1>3, <1>5, <1>13 DEF HbTaken
<1>15. /\ s \in Seq(HbTaskType)
       /\ ToSet(rest) \subseteq ToSet(s)
       /\ \A u \in ToSet(s) : u \in ToSet(rest) \/ (u.do = "degrade" /\ u.groups = groups)
       /\ s # <<>> => ToSet(Tail(s)) \subseteq ToSet(rest)
  <2>1. Pushed(s, "degrade", groups, rest)
    BY <1>13, <1>14, CascadePushed
  <2> QED
    BY <2>1 DEF Pushed
<1>16. HbListed' = ToSet(s)
  BY <1>13 DEF HbListed
<1>17. \A h \in HbPending : h \in HbPending'
  <2> SUFFICES ASSUME NEW h \in HbPending PROVE h \in HbPending'
    OBVIOUS
  <2>1. PICK u \in HbListed : u.do = "restore" /\ h \in u.groups
    BY PendingListed
  <2>2. u \in HbListed'
    BY <1>1, <1>2, <1>15, <1>16, <2>1
  <2> QED
    BY <2>1, <2>2, PendingListedNext
<1>18. ASSUME NEW h \in HbDegraded', h \notin hbOrphans', h \notin HbPending'
       PROVE  Cause(h)'
  <2>1. CASE h = g
    BY <1>6, <1>12, <2>1
  <2>2. CASE h # g
    <3>1. h \in HbDegraded
      BY <1>10, <2>2, DegradedIs, DegradedIsNext
    <3>2. Cause(h)
      BY <1>1, <1>17, <1>18, <3>1 DEF GraphInv, CausesStand
    <3> QED
      BY <1>12, <3>2
  <2> QED
    BY <2>1, <2>2
<1>19. CausesStand'
  BY <1>18 DEF CausesStand
<1>20. CascadeStands'
  <2>1. \A u \in HbListed' : u.do = "degrade" => \A h \in u.groups : Cause(h)'
    BY <1>2, <1>6, <1>12, <1>13, <1>15, <1>16 DEF NoDegrade
  <2>2. hbTodo' # <<>> => NoDegrade(ToSet(Tail(hbTodo')))
    BY <1>2, <1>13, <1>15 DEF NoDegrade
  <2> QED
    BY <2>1, <2>2 DEF CascadeStands
<1> QED
  BY <1>2, <1>10, <1>13, <1>15, <1>16, <1>19, <1>20 DEF GraphInv, ListsWell, AboutGroups, Cascades

(* A group that depends on the one restored is tried, one that does not    *)
(* keeps its cause.                                                        *)
LEMMA RestoreKeepsGraph ==
  ASSUME HbTypes, GraphInv, TryRestoreGroup
  PROVE  GraphInv' /\ ListsWell
<1>1. hbTodo # <<>> /\ hbTodo[1].do = "restore" /\ hbDeps' = hbDeps
  BY DEF TryRestoreGroup, HbNow
<1>2. PICK rest \in Seq(HbTaskType) :
        /\ rest = Tail(hbTodo) /\ NoDegrade(ToSet(rest))
        /\ HbListed = {hbTodo[1]} \cup ToSet(rest)
        /\ rest # <<>> => ToSet(Tail(rest)) \subseteq ToSet(rest)
  BY <1>1, GraphTail
<1>3. PICK t \in HbTaskType : t = hbTodo[1] /\ t \in HbListed /\ t.do = "restore"
  BY <1>1, HbHead
<1>4. t.groups \in SUBSET HbGroups
  BY <1>3, HbTaskFields DEF Cascades
<1>5. PICK g \in t.groups :
        /\ IF CanRestore(g)
           THEN /\ hbGroups' = [hbGroups EXCEPT ![g] = RestoredRow(@)]
                /\ hbTodo' = DependentsTry(g) \o HbTaken(g)
           ELSE hbGroups' = hbGroups /\ hbTodo' = HbTaken(g)
        /\ hbOrphans' = hbOrphans \ {g}
  BY <1>3 DEF TryRestoreGroup
<1>6. g \in HbGroups
  BY <1>4
<1>7. PICK groups \in SUBSET HbGroups : groups = t.groups \ {g}
  BY <1>4
<1>8. PICK taken : taken = HbTaken(g)
  OBVIOUS
<1>9. /\ taken \in Seq(HbTaskType)
      /\ ToSet(rest) \subseteq ToSet(taken)
      /\ \A u \in ToSet(taken) : u \in ToSet(rest) \/ (u.do = "restore" /\ u.groups = groups)
      /\ \A h \in groups : \E u \in ToSet(taken) : u.do = "restore" /\ h \in u.groups
      /\ taken # <<>> => ToSet(Tail(taken)) \subseteq ToSet(rest)
  <2>1. taken = HbCascade("restore", groups) \o rest
    BY <1>2, <1>3, <1>7, <1>8 DEF HbTaken
  <2>2. Pushed(taken, "restore", groups, rest)
    BY <2>1, CascadePushed
  <2> QED
    BY <2>2 DEF Pushed
<1>10. NoDegrade(ToSet(taken))
  BY <1>2, <1>9 DEF NoDegrade
<1>11. ASSUME NEW h \in HbPending, h # g
       PROVE  \E u \in ToSet(taken) : u.do = "restore" /\ h \in u.groups
  <2>1. PICK u \in HbListed : u.do = "restore" /\ h \in u.groups
    BY PendingListed
  <2>2. CASE u = t
    BY <1>7, <1>9, <1>11, <2>1, <2>2
  <2>3. CASE u # t
    BY <1>2, <1>3, <1>9, <2>1, <2>3
  <2> QED
    BY <2>2, <2>3
<1>12. CASE ~CanRestore(g)
  <2>1. hbGroups' = hbGroups /\ hbTodo' = taken
    BY <1>5, <1>8, <1>12
  <2>2. HbListed' = ToSet(taken)
    BY <2>1 DEF HbListed
  <2>3. GraphTypes'
    BY <1>1, <2>1 DEF GraphInv, GraphTypes, DepsExist
  <2>4. HbDegraded' = HbDegraded /\ \A h : Cause(h) => Cause(h)'
    BY <1>1, <2>1 DEF HbDegraded, Cause, GroupFails
  <2>5. ASSUME NEW h \in HbDegraded', h \notin hbOrphans', h \notin HbPending'
        PROVE  Cause(h)'
    <3>1. CASE h = g
      BY <1>12, <2>4, <2>5, <3>1, RestoredOrCaused
    <3>2. CASE h # g
      <4>1. h \notin HbPending
        BY <1>11, <2>2, <2>5, <3>2, PendingListedNext
      <4>2. h \notin hbOrphans
        BY <1>5, <2>5, <3>2
      <4>3. Cause(h)
        BY <2>4, <2>5, <4>1, <4>2 DEF GraphInv, CausesStand
      <4> QED
        BY <2>4, <4>3
    <3> QED
      BY <3>1, <3>2
  <2>6. CausesStand'
    BY <2>5 DEF CausesStand
  <2>7. CascadeStands'
    BY <1>2, <1>9, <1>10, <2>1, <2>2 DEF CascadeStands, NoDegrade
  <2> QED
    BY <1>2, <1>9, <2>1, <2>2, <2>3, <2>6, <2>7 DEF GraphInv, ListsWell, AboutGroups, Cascades
<1>13. CASE CanRestore(g)
  <2>1. g \in HbDegraded
    BY <1>13 DEF CanRestore
  <2>2. PICK row : row = RestoredRow(hbGroups[g])
    OBVIOUS
  <2>3. row \in HbGroupRow /\ ~row.degraded
    <3>1. hbGroups[g] \in HbGroupRow
      BY <1>6, <2>1, DegradedIs DEF GraphInv, GraphTypes, HbRows
    <3>2. HbStatusOf(hbGroups[g].alive) \in {"healthy", "unhealthy"}
      BY DEF HbStatusOf
    <3> QED
      BY <2>2, <3>1, <3>2 DEF RestoredRow, HbGroupRow
  <2>4. /\ GraphTypes' /\ hbGroups'[g] = row
        /\ \A h \in HbGroups \ {g} : hbGroups'[h] = hbGroups[h]
    <3>1. hbGroups' = [hbGroups EXCEPT ![g] = row]
      BY <1>5, <1>13, <2>2
    <3> QED
      BY <1>1, <1>6, <2>1, <2>3, <3>1, DegradedIs, GroupRowWritten DEF GraphInv
  <2>5. PICK s : s = hbTodo'
    OBVIOUS
  <2>6. PICK ds \in SUBSET HbGroups : ds = ListGroupsThatDependOn(g) \cap HbDegraded
    BY DEF ListGroupsThatDependOn
  <2>7. s = HbCascade("restore", ds) \o taken
    BY <1>5, <1>8, <1>13, <2>5, <2>6 DEF DependentsTry
  <2>8. /\ s \in Seq(HbTaskType)
        /\ ToSet(taken) \subseteq ToSet(s)
        /\ \A u \in ToSet(s) : u \in ToSet(taken) \/ (u.do = "restore" /\ u.groups = ds)
        /\ \A h \in ds : \E u \in ToSet(s) : u.do = "restore" /\ h \in u.groups
        /\ s # <<>> => ToSet(Tail(s)) \subseteq ToSet(taken)
    <3>1. Pushed(s, "restore", ds, taken)
      BY <1>9, <2>7, CascadePushed
    <3> QED
      BY <3>1 DEF Pushed
  <2>9. HbListed' = ToSet(s)
    BY <2>5 DEF HbListed
  <2>10. ASSUME NEW h \in HbDegraded', h \notin hbOrphans', h \notin HbPending'
         PROVE  Cause(h)'
    <3>1. h # g /\ h \in HbDegraded
      BY <2>3, <2>4, <2>10, DegradedIs, DegradedIsNext
    <3>2. h \notin HbPending
      BY <1>11, <2>8, <2>9, <2>10, <3>1, PendingListedNext
    <3>3. h \notin hbOrphans
      BY <1>5, <2>10, <3>1
    <3>4. PICK d \in hbDeps : d = <<h, d[2]>> /\ d[2] \in HbGroups /\ GroupFails(d[2])
      BY <3>1, <3>2, <3>3, CauseOf
    <3>5. d[2] # g
      <4>1. h \notin ds
        BY <2>8, <2>9, <2>10, PendingListedNext
      <4> QED
        BY <2>6, <3>1, <3>4, <4>1, DegradedIs DEF ListGroupsThatDependOn
    <3>6. GroupFails(d[2])'
      BY <2>4, <3>4, <3>5 DEF GroupFails
    <3> QED
      BY <1>1, <3>4, <3>6 DEF Cause
  <2>11. CausesStand'
    BY <2>10 DEF CausesStand
  <2>12. NoDegrade(HbListed')
    BY <1>10, <2>8, <2>9 DEF NoDegrade
  <2>13. CascadeStands'
    BY <1>10, <2>5, <2>8, <2>12 DEF CascadeStands, NoDegrade
  <2>14. \A u \in HbListed' : u \in HbListed \/ AboutGroups(u)
    BY <1>2, <1>9, <2>8, <2>9 DEF AboutGroups, Cascades
  <2> QED
    BY <2>4, <2>5, <2>8, <2>11, <2>13, <2>14 DEF GraphInv, ListsWell
<1> QED
  BY <1>12, <1>13

LEMMA CreateGroupKeepsGraph ==
  ASSUME HbTypes, GraphInv, NEW g \in HbGroups, CreateGroup(g)
  PROVE  GraphInv' /\ ListsWell
<1> USE DEF CreateGroup
<1>1. PICK row : row = [alive |-> 0, status |-> "healthy", degraded |-> FALSE]
  OBVIOUS
<1>2. row \in HbGroupRow /\ row # HbNone /\ ~row.degraded
  <2>1. row \in HbGroupRow /\ ~row.degraded
    BY <1>1 DEF HbGroupRow
  <2> QED
    BY <2>1, HbAssumption
<1>3. hbGroups' = [hbGroups EXCEPT ![g] = row] /\ UNCHANGED <<hbDeps, hbOrphans, hbTodo>>
  BY <1>1
<1>4. GraphTypes' /\ hbGroups'[g] = row /\ \A h \in HbGroups \ {g} : hbGroups'[h] = hbGroups[h]
  BY <1>2, <1>3 DEF GraphInv, GraphTypes, HbRows, DepsExist
<1>5. HbListed' = HbListed /\ HbPending' = HbPending
  BY <1>3 DEF HbListed, HbPending
<1>6. \A d \in hbDeps : d[2] \in HbGroups \ {g}
  BY DEF GraphInv, GraphTypes, DepsExist
<1>7. \A h : Cause(h) => Cause(h)'
  BY <1>3, <1>4, <1>6 DEF Cause, GroupFails
<1>8. \A h \in HbDegraded' : h \in HbDegraded
  BY <1>2, <1>4, DegradedIs, DegradedIsNext
<1>9. CausesStand'
  BY <1>3, <1>5, <1>7, <1>8 DEF GraphInv, CausesStand
<1>10. CascadeStands'
  BY <1>3, <1>5, <1>7 DEF GraphInv, CascadeStands, NoDegrade
<1> QED
  BY <1>3, <1>4, <1>5, <1>9, <1>10 DEF GraphInv, ListsWell, HbTypes

(* Rows are removed when nothing else is listed.                           *)
LEMMA DeleteKeepsGraph ==
  ASSUME HbTypes, GraphInv, DeleteDependency \/ DeleteGroupRow
  PROVE  GraphInv' /\ ListsWell
<1>1. hbTodo # <<>> /\ hbTodo[1].do = "delete"
  BY DEF DeleteDependency, DeleteGroupRow, HbNow
<1>2. PICK rest \in Seq(HbTaskType) :
        /\ rest = Tail(hbTodo) /\ NoDegrade(ToSet(rest))
        /\ HbListed = {hbTodo[1]} \cup ToSet(rest)
        /\ rest # <<>> => ToSet(Tail(rest)) \subseteq ToSet(rest)
  BY <1>1, GraphTail
<1>3. NoDegrade(HbListed)
  BY <1>1, <1>2 DEF NoDegrade
<1>4. CASE DeleteDependency
  <2>1. PICK d \in hbDeps :
          /\ hbDeps' = hbDeps \ {d} /\ UNCHANGED <<hbGroups, hbTodo>>
          /\ hbOrphans' = IF CanRestore(d[1])' THEN hbOrphans \cup {d[1]} ELSE hbOrphans
    BY <1>4 DEF DeleteDependency
  <2>2. HbListed' = HbListed /\ HbPending' = HbPending /\ HbDegraded' = HbDegraded
    BY <2>1 DEF HbListed, HbPending, HbDegraded
  <2>3. GraphTypes'
    BY <2>1 DEF GraphInv, GraphTypes, DepsExist
  <2>4. ASSUME NEW h \in HbDegraded', h \notin hbOrphans', h \notin HbPending'
        PROVE  Cause(h)'
    <3>1. CASE h = d[1]
      BY <2>1, <2>4, <3>1, RestoredOrCausedNext
    <3>2. CASE h # d[1]
      <4>1. Cause(h)
        BY <2>1, <2>2, <2>4 DEF GraphInv, CausesStand
      <4> QED
        BY <2>1, <3>2, <4>1 DEF Cause, GroupFails
    <3> QED
      BY <3>1, <3>2
  <2>5. CausesStand'
    BY <2>4 DEF CausesStand
  <2>6. CascadeStands'
    BY <1>3, <2>1, <2>2 DEF GraphInv, CascadeStands, NoDegrade
  <2> QED
    BY <2>1, <2>2, <2>3, <2>5, <2>6 DEF GraphInv, ListsWell, HbTypes
<1>5. CASE DeleteGroupRow
  <2>1. PICK t \in HbTaskType : t = hbTodo[1] /\ t.do = "delete"
    BY <1>1, HbHead
  <2>2. PICK g \in HbGroups : g = hbTodo[1].group
    BY <2>1, HbTaskFields
  <2>3. /\ hbGroups' = [hbGroups EXCEPT ![g] = HbNone] /\ hbDeps' = hbDeps
        /\ hbOrphans' = hbOrphans \ {g} /\ hbTodo' = rest
        /\ \A d \in hbDeps : d[1] # g /\ d[2] # g
    BY <1>2, <1>5, <2>2 DEF DeleteGroupRow
  <2>4. hbGroups'[g] = HbNone /\ \A h \in HbGroups \ {g} : hbGroups'[h] = hbGroups[h]
    BY <2>3 DEF GraphInv, GraphTypes, HbRows
  <2>5. GraphTypes'
    <3>1. hbGroups' \in HbRows
      BY <2>3 DEF GraphInv, GraphTypes, HbRows
    <3>2. DepsExist'
      BY <2>3, <2>4 DEF GraphInv, GraphTypes, DepsExist
    <3> QED
      BY <2>3, <3>1, <3>2 DEF GraphInv, GraphTypes
  <2>6. HbListed' = ToSet(rest)
    BY <2>3 DEF HbListed
  <2>7. \A h \in HbPending : h \in HbPending'
    BY <1>1, <1>2, <2>6, PendingListed, PendingListedNext
  <2>8. ASSUME NEW h \in HbDegraded', h \notin hbOrphans', h \notin HbPending'
        PROVE  Cause(h)'
    <3>1. h \in HbDegraded /\ h # g
      BY <2>4, <2>8, DegradedIs, DegradedIsNext
    <3>2. PICK d \in hbDeps : d = <<h, d[2]>> /\ d[2] \in HbGroups /\ GroupFails(d[2])
      BY <2>3, <2>7, <2>8, <3>1, CauseOf
    <3>3. GroupFails(d[2])'
      BY <2>3, <2>4, <3>2 DEF GroupFails
    <3> QED
      BY <2>3, <3>2, <3>3 DEF Cause
  <2>9. CausesStand'
    BY <2>8 DEF CausesStand
  <2>10. CascadeStands'
    BY <1>2, <2>3, <2>6 DEF CascadeStands, NoDegrade
  <2> QED
    BY <1>2, <2>3, <2>5, <2>6, <2>9, <2>10 DEF GraphInv, ListsWell
<1> QED
  BY <1>4, <1>5

LEMMA AddDependencyKeepsGraph ==
  ASSUME HbTypes, GraphInv, NEW g \in HbGroups, NEW on \in HbGroups, AddGroupDependency(g, on)
  PROVE  GraphInv' /\ ListsWell
<1>1. /\ hbDeps' = hbDeps \cup {<<g, on>>} /\ UNCHANGED <<hbGroups, hbOrphans>>
      /\ hbGroups[g] # HbNone /\ hbGroups[on] # HbNone
  BY DEF AddGroupDependency
<1>2. HbListed = {} /\ \A h : h \notin HbPending
  BY DEF AddGroupDependency, HbFree, HbListed, HbPending, ToSet
<1>3. GraphTypes'
  <2>1. PICK d : d = <<g, on>>
    OBVIOUS
  <2>2. d \in HbGroups \X HbGroups /\ hbGroups[d[1]] # HbNone /\ hbGroups[d[2]] # HbNone
    BY <1>1, <2>1
  <2>3. hbDeps' = hbDeps \cup {d}
    BY <1>1, <2>1
  <2> QED
    BY <1>1, <2>2, <2>3 DEF GraphInv, GraphTypes, DepsExist
<1>4. HbDegraded' = HbDegraded /\ \A h : Cause(h) => Cause(h)'
  BY <1>1 DEF HbDegraded, Cause, GroupFails
<1>5. CausesStand'
  BY <1>1, <1>2, <1>4 DEF GraphInv, CausesStand
<1>6. /\ hbTodo' \in Seq(HbTaskType)
      /\ \A t \in HbListed' : AboutGroups(t)
      /\ hbTodo' # <<>> => NoDegrade(ToSet(Tail(hbTodo')))
      /\ \A t \in HbListed' : t.do = "degrade" => \A d \in t.groups : Cause(d)'
  <2>1. PICK rest \in Seq(HbTaskType) : rest = <<>> /\ ToSet(rest) = {}
    BY NoneListed
  <2>2. CASE hbTodo' = <<>>
    BY <2>1, <2>2 DEF HbListed
  <2>3. CASE hbTodo' = CheckCascadeDegrade(on)'
    <3>1. hbTodo' = CheckCascadeDegrade(on)' \o rest
      BY <2>1, <2>3 DEF CheckCascadeDegrade, HbCascade
    <3>2. /\ hbTodo' \in Seq(HbTaskType)
          /\ \A t \in HbListed' : t \in ToSet(rest) \/ AboutGroups(t)
          /\ hbTodo' # <<>> => ToSet(Tail(hbTodo')) \subseteq ToSet(rest)
          /\ \A t \in HbListed' : t.do = "degrade" =>
               t \in ToSet(rest) \/ \A d \in t.groups : Cause(d)'
      BY <3>1, CheckedListed
    <3> QED
      BY <2>1, <3>2 DEF NoDegrade
  <2> QED
    BY <2>2, <2>3 DEF AddGroupDependency
<1> QED
  BY <1>3, <1>5, <1>6 DEF GraphInv, CascadeStands, ListsWell

LEMMA RemoveDependencyKeepsGraph ==
  ASSUME HbTypes, GraphInv, NEW g \in HbGroups, NEW on \in HbGroups, RemoveGroupDependency(g, on)
  PROVE  GraphInv' /\ ListsWell
<1>1. hbDeps' = hbDeps \ {<<g, on>>} /\ UNCHANGED <<hbGroups, hbOrphans>>
  BY DEF RemoveGroupDependency
<1>2. HbListed = {} /\ \A h : h \notin HbPending
  BY DEF RemoveGroupDependency, HbFree, HbListed, HbPending, ToSet
<1>3. GraphTypes'
  BY <1>1 DEF GraphInv, GraphTypes, DepsExist
<1>4. HbDegraded' = HbDegraded
  BY <1>1 DEF HbDegraded
<1>5. PICK ds \in SUBSET HbGroups : ds = {g} \cap HbDegraded
  OBVIOUS
<1>6. PICK rest \in Seq(HbTaskType) : rest = <<>> /\ ToSet(rest) = {}
  BY NoneListed
<1>7. PICK s : s = hbTodo'
  OBVIOUS
<1>8. /\ s \in Seq(HbTaskType)
      /\ \A t \in ToSet(s) : t \in ToSet(rest) \/ (t.do = "restore" /\ t.groups = ds)
      /\ \A h \in ds : \E t \in ToSet(s) : t.do = "restore" /\ h \in t.groups
      /\ s # <<>> => ToSet(Tail(s)) \subseteq ToSet(rest)
  <2>1. s = HbCascade("restore", ds)
    BY <1>5, <1>7 DEF RemoveGroupDependency
  <2>2. s = HbCascade("restore", ds) \o rest
    BY <1>6, <2>1 DEF HbCascade
  <2>3. Pushed(s, "restore", ds, rest)
    BY <2>2, CascadePushed
  <2> QED
    BY <2>3 DEF Pushed
<1>9. HbListed' = ToSet(s)
  BY <1>7 DEF HbListed
<1>10. ASSUME NEW h \in HbDegraded', h \notin hbOrphans', h \notin HbPending'
       PROVE  Cause(h)'
  <2>1. h # g
    BY <1>4, <1>5, <1>8, <1>9, <1>10, PendingListedNext
  <2>2. Cause(h)
    BY <1>1, <1>2, <1>4, <1>10 DEF GraphInv, CausesStand
  <2> QED
    BY <1>1, <2>1, <2>2 DEF Cause, GroupFails
<1>11. CausesStand'
  BY <1>10 DEF CausesStand
<1>12. CascadeStands'
  BY <1>6, <1>7, <1>8, <1>9 DEF CascadeStands, NoDegrade
<1> QED
  BY <1>3, <1>6, <1>7, <1>8, <1>9, <1>11, <1>12 DEF GraphInv, ListsWell, AboutGroups, Cascades

(* Whatever was still to be tried and could be restored is an orphan.      *)
LEMMA CrashKeepsGraph ==
  ASSUME HbTypes, GraphInv, HbCrash
  PROVE  GraphInv' /\ ListsWell
<1>1. /\ hbTodo' = <<>> /\ UNCHANGED <<hbGroups, hbDeps>>
      /\ hbOrphans' = hbOrphans \cup {g \in HbPending : CanRestore(g)}
  BY DEF HbCrash
<1>2. hbTodo' \in Seq(HbTaskType) /\ HbListed' = {}
  BY <1>1, NoneListed DEF HbListed
<1>3. GraphTypes'
  BY <1>1 DEF GraphInv, GraphTypes, DepsExist
<1>4. HbDegraded' = HbDegraded /\ \A h : Cause(h) => Cause(h)'
  BY <1>1 DEF HbDegraded, Cause, GroupFails
<1>5. ASSUME NEW h \in HbDegraded, h \notin hbOrphans'
      PROVE  Cause(h)
  <2>1. CASE h \in HbPending
    BY <1>1, <1>5, <2>1, RestoredOrCaused
  <2>2. CASE h \notin HbPending
    BY <1>1, <1>5, <2>2 DEF GraphInv, CausesStand
  <2> QED
    BY <2>1, <2>2
<1>6. CausesStand'
  BY <1>4, <1>5 DEF CausesStand
<1>7. CascadeStands'
  BY <1>1, <1>2 DEF CascadeStands
<1> QED
  BY <1>2, <1>3, <1>6, <1>7 DEF GraphInv, ListsWell

(* Steps that are not about groups: of the cascades that were listed none  *)
(* is left out, and none comes.                                            *)
OthersListed ==
  /\ \A t \in HbListed' : t \in HbListed \/ ~Cascades(t)
  /\ hbTodo # <<>> => ToSet(Tail(hbTodo)) \subseteq HbListed'

LEMMA GraphStands ==
  ASSUME HbTypes, GraphInv, UNCHANGED hbGraph, hbTodo' \in Seq(HbTaskType), OthersListed,
         hbTodo # <<>> => ~Cascades(hbTodo[1])
  PROVE  GraphInv'
<1>1. UNCHANGED <<hbGroups, hbDeps, hbOrphans>>
  BY DEF hbGraph
<1>2. NoDegrade(HbListed)
  <2>1. CASE hbTodo = <<>>
    BY <2>1 DEF NoDegrade, HbListed, ToSet
  <2>2. CASE hbTodo # <<>>
    BY <2>2, GraphTail DEF NoDegrade, Cascades
  <2> QED
    BY <2>1, <2>2
<1>3. NoDegrade(HbListed')
  BY <1>2 DEF NoDegrade, OthersListed, Cascades
<1>4. \A h \in HbPending : h \in HbPending'
  <2> SUFFICES ASSUME NEW h \in HbPending PROVE h \in HbPending'
    OBVIOUS
  <2>1. PICK u \in HbListed : u.do = "restore" /\ h \in u.groups
    BY PendingListed
  <2>2. hbTodo # <<>> /\ u # hbTodo[1]
    BY <2>1 DEF HbListed, ToSet, Cascades
  <2>3. u \in ToSet(Tail(hbTodo))
    BY <2>1, <2>2, HbHead
  <2> QED
    BY <2>1, <2>2, <2>3, PendingListedNext DEF OthersListed
<1>5. GraphTypes' /\ HbDegraded' = HbDegraded /\ \A h : Cause(h) => Cause(h)'
  BY <1>1 DEF GraphInv, GraphTypes, DepsExist, HbDegraded, Cause, GroupFails
<1>6. CausesStand'
  BY <1>1, <1>4, <1>5 DEF GraphInv, CausesStand
<1>7. CascadeStands'
  <2>1. hbTodo' # <<>> => ToSet(Tail(hbTodo')) \subseteq HbListed'
    BY ListHeadAndTail DEF HbListed
  <2> QED
    BY <1>3, <2>1 DEF CascadeStands, NoDegrade
<1> QED
  BY <1>5, <1>6, <1>7 DEF GraphInv

(* Callers and the tasks of the method under mu                            *)
MembersTypes ==
  /\ hbRegs \in [HbCallers -> HbRegistration \cup {HbNone}]
  /\ hbFrozen \in [HbCallers -> SUBSET HbResources]
  /\ hbTodo \in Seq(HbTaskType)
  /\ hbLateAtStart \subseteq HbCallers

LEMMA NobodyMoves ==
  ASSUME HbTypes, FrozenInv, UNCHANGED <<hbRegs, hbFrozen>>, hbLateAtStart' \subseteq hbLateAtStart,
         hbTodo' \in Seq(HbTaskType), TasksCome
  PROVE  MembersTypes' /\ FrozenInv'
<1>1. FrozenStand
  BY DEF FrozenStand, HbIs
<1> QED
  BY <1>1, FrozenKept DEF MembersTypes, HbTypes

LEMMA TaskDone ==
  ASSUME HbTypes, hbTodo # <<>>, hbTodo' = Tail(hbTodo)
  PROVE  hbTodo' \in Seq(HbTaskType) /\ TasksCome /\ OthersListed
<1>1. Tail(hbTodo) \in Seq(HbTaskType) /\ HbListed = {hbTodo[1]} \cup ToSet(Tail(hbTodo))
  BY HbHead
<1>2. HbListed' = ToSet(Tail(hbTodo))
  BY DEF HbListed
<1> QED
  BY <1>1, <1>2 DEF TasksCome, OthersListed

(* Steps about groups                                                      *)
LEMMA GroupsStep ==
  ASSUME HbTypes, FrozenInv, GraphInv,
         \/ \E g \in HbGroups : UpdateGroupHealth(g)
         \/ DegradeGroup \/ TryRestoreGroup \/ DeleteDependency \/ DeleteGroupRow
         \/ \E g \in HbGroups : CreateGroup(g)
         \/ \E d \in HbDependencies :
              AddGroupDependency(d[1], d[2]) \/ RemoveGroupDependency(d[1], d[2])
         \/ HbCrash
  PROVE  MembersTypes' /\ FrozenInv' /\ GraphInv'
<1>1. UNCHANGED <<hbRegs, hbFrozen>> /\ hbLateAtStart' \subseteq hbLateAtStart
  BY DEF UpdateGroupHealth, DegradeGroup, TryRestoreGroup, DeleteDependency, DeleteGroupRow,
         CreateGroup, AddGroupDependency, RemoveGroupDependency, HbCrash, hbMembers, hbProcess
<1>2. GraphInv' /\ ListsWell
  <2>1. ASSUME NEW d \in HbDependencies,
               AddGroupDependency(d[1], d[2]) \/ RemoveGroupDependency(d[1], d[2])
        PROVE  GraphInv' /\ ListsWell
    <3>1. d[1] \in HbGroups /\ d[2] \in HbGroups
      BY HbAssumption
    <3>2. CASE AddGroupDependency(d[1], d[2])
      BY <3>1, <3>2, AddDependencyKeepsGraph
    <3>3. CASE RemoveGroupDependency(d[1], d[2])
      BY <3>1, <3>3, RemoveDependencyKeepsGraph
    <3> QED
      BY <2>1, <3>2, <3>3
  <2>2. ASSUME NEW g \in HbGroups, UpdateGroupHealth(g)
        PROVE  GraphInv' /\ ListsWell
    BY <2>2, GroupHealthKeepsGraph
  <2>3. ASSUME NEW g \in HbGroups, CreateGroup(g)
        PROVE  GraphInv' /\ ListsWell
    BY <2>3, CreateGroupKeepsGraph
  <2>4. CASE DegradeGroup
    BY <2>4, DegradeKeepsGraph
  <2>5. CASE TryRestoreGroup
    BY <2>5, RestoreKeepsGraph
  <2>6. CASE DeleteDependency \/ DeleteGroupRow
    BY <2>6, DeleteKeepsGraph
  <2>7. CASE HbCrash
    BY <2>7, CrashKeepsGraph
  <2> QED
    BY <2>1, <2>2, <2>3, <2>4, <2>5, <2>6, <2>7
<1>3. CASE HbCrash
  <2>1. HbListed' = {}
    BY <1>3, NoneListed DEF HbCrash, HbListed
  <2>2. TasksCome
    BY <2>1 DEF TasksCome
  <2> QED
    BY <1>1, <1>2, <2>2, NobodyMoves DEF ListsWell
<1>4. CASE ~HbCrash
  <2>1. hbTodo # <<>> => hbTodo[1] \in HbListed
    BY HbHead
  <2>2. \/ hbTodo # <<>> /\ hbTodo[1].do \in {"group", "degrade", "restore", "delete"}
        \/ hbTodo = <<>>
    BY <1>4 DEF UpdateGroupHealth, DegradeGroup, TryRestoreGroup, DeleteDependency,
         DeleteGroupRow, CreateGroup, AddGroupDependency, RemoveGroupDependency, HbNow, HbFree
  <2>3. hbTodo = <<>> => HbListed = {}
    BY NoneListed DEF HbListed
  <2>4. \A t \in HbListed : ~Thaws(t)
    BY <2>1, <2>2, <2>3 DEF FrozenInv, TasksStand, Thaws
  <2>5. TasksCome
    BY <1>2, <2>4 DEF ListsWell, TasksCome, TaskComes, Thaws, AboutGroups, Cascades
  <2> QED
    BY <1>1, <1>2, <2>5, NobodyMoves DEF ListsWell
<1> QED
  BY <1>3, <1>4

(* Steps that write no row and list nothing                                *)
LEMMA QuietStep ==
  ASSUME HbTypes, FrozenInv, GraphInv,
         \/ HbStart \/ UNCHANGED hbVars
         \/ \E c \in HbCallers : HbSilent(c)
  PROVE  MembersTypes' /\ FrozenInv' /\ GraphInv'
<1>1. UNCHANGED <<hbRegs, hbFrozen, hbGroups, hbDeps, hbOrphans, hbTodo>>
  BY DEF HbStart, HbSilent, hbVars, hbMembers, hbGraph
<1>2. \A c \in hbLateAtStart' : c \in HbCallers /\ (c \in hbLateAtStart \/ hbRegs'[c] # HbNone)
  <2>1. CASE HbStart
    BY <2>1 DEF HbStart, HbIs, hbMembers
  <2>2. CASE hbLateAtStart' = hbLateAtStart
    BY <2>2 DEF HbTypes
  <2> QED
    BY <2>1, <2>2 DEF HbSilent, hbVars, hbProcess
<1>3. FrozenStand
  BY <1>1, <1>2 DEF FrozenStand, HbIs
<1>4. TasksCome
  BY <1>1 DEF TasksCome, HbListed
<1>5. MembersTypes' /\ FrozenInv'
  BY <1>1, <1>2, <1>3, <1>4, FrozenKept DEF MembersTypes, HbTypes
<1>6. GraphTypes' /\ CausesStand' /\ CascadeStands'
  <2>1. GraphTypes'
    BY <1>1 DEF GraphInv, GraphTypes, DepsExist
  <2>2. HbDegraded' = HbDegraded /\ HbPending' = HbPending /\ HbListed' = HbListed
    BY <1>1 DEF HbDegraded, HbPending, HbListed
  <2>3. \A h : Cause(h) => Cause(h)'
    BY <1>1 DEF Cause, GroupFails
  <2> QED
    BY <1>1, <2>1, <2>2, <2>3 DEF GraphInv, CausesStand, CascadeStands
<1> QED
  BY <1>5, <1>6 DEF GraphInv

(* Methods that list what they will do                                     *)
LEMMA ListingStep ==
  ASSUME HbTypes, FrozenInv,
         \/ HbTick
         \/ \E g \in HbGroups : DeleteGroup(g)
         \/ \E c \in HbCallers : CheckAtStart(c)
         \/ \E c \in HbCallers : ReleaseAllFrozenResources(c)
         \/ \E c \in HbCallers, r \in HbResources : ReleaseFrozenResource(c, r)
  PROVE  MembersTypes' /\ FrozenInv' /\ OthersListed
<1>1. UNCHANGED <<hbRegs, hbFrozen>> /\ hbTodo = <<>>
  BY DEF HbTick, DeleteGroup, CheckAtStart, ReleaseAllFrozenResources, ReleaseFrozenResource,
         hbMembers, HbFree
<1>2. ASSUME hbLateAtStart' \subseteq hbLateAtStart,
             hbTodo' \in Seq(HbTaskType), TasksCome, \A t \in HbListed' : ~Cascades(t)
      PROVE  MembersTypes' /\ FrozenInv' /\ OthersListed
  BY <1>1, <1>2, NobodyMoves DEF OthersListed
<1>3. CASE HbTick
  <2>1. PICK rs \in SUBSET HbCallers : rs = ListHeartbeatRegistrations
    BY DEF ListHeartbeatRegistrations
  <2>2. hbTodo' = LET cs == SetToSeq(rs) IN [i \in DOMAIN cs |-> HbTask("check", cs[i])]
    BY <1>3, <2>1 DEF HbTick
  <2>3. hbTodo' \in Seq(HbTaskType) /\ \A t \in HbListed' : t.do = "check" /\ t.caller \in rs
    BY <2>2, HbChecksListed DEF HbListed
  <2>4. \A c \in rs : hbRegs'[c] # HbNone
    BY <1>1, <2>1 DEF ListHeartbeatRegistrations, HbIs
  <2>5. TasksCome
    BY <2>3, <2>4 DEF TasksCome, TaskComes, Thaws
  <2>6. \A t \in HbListed' : ~Cascades(t)
    BY <2>3 DEF Cascades
  <2> QED
    BY <1>2, <1>3, <2>3, <2>5, <2>6 DEF HbTick, hbProcess
<1>4. ASSUME NEW g \in HbGroups, DeleteGroup(g)
      PROVE  MembersTypes' /\ FrozenInv' /\ OthersListed
  <2>1. PICK t : t = [do |-> "delete", group |-> g]
    OBVIOUS
  <2>2. t \in HbTaskType /\ t.do = "delete"
    BY <2>1 DEF HbTaskType
  <2>3. hbTodo' \in Seq(HbTaskType) /\ HbListed' = {t}
    <3>1. <<t>> \in Seq(HbTaskType) /\ ToSet(<<t>>) = {t}
      BY <2>2, OneListed
    <3>2. hbTodo' = <<t>>
      BY <1>4, <2>1 DEF DeleteGroup
    <3> QED
      BY <3>1, <3>2 DEF HbListed
  <2>4. TasksCome /\ \A u \in HbListed' : ~Cascades(u)
    BY <2>2, <2>3 DEF TasksCome, TaskComes, Thaws, AboutGroups, Cascades
  <2> QED
    BY <1>2, <1>4, <2>3, <2>4 DEF DeleteGroup, hbProcess
<1>5. ASSUME NEW c \in HbCallers, CheckAtStart(c)
      PROVE  MembersTypes' /\ FrozenInv' /\ OthersListed
  <2>1. PICK t : t = HbTask("check only", c)
    OBVIOUS
  <2>2. t \in HbTaskType /\ t.do = "check only" /\ t.caller = c
    BY <2>1 DEF HbTask, HbTaskType
  <2>3. hbTodo' = <<t>> /\ hbRegs[c] # HbNone /\ hbLateAtStart' \subseteq hbLateAtStart
    BY <1>5, <2>1 DEF CheckAtStart, FrozenInv, TasksStand
  <2>4. hbTodo' \in Seq(HbTaskType) /\ HbListed' = {t}
    <3>1. <<t>> \in Seq(HbTaskType) /\ ToSet(<<t>>) = {t}
      BY <2>2, OneListed
    <3> QED
      BY <2>3, <3>1 DEF HbListed
  <2>5. TasksCome /\ \A u \in HbListed' : ~Cascades(u)
    BY <1>1, <2>2, <2>3, <2>4 DEF TasksCome, TaskComes, Thaws, Cascades
  <2> QED
    BY <1>2, <2>3, <2>4, <2>5
<1>6. ASSUME NEW c \in HbCallers, NEW rs \in SUBSET HbResources, hbRegs[c] # HbNone,
             HbThaw(c, rs), hbLateAtStart' = hbLateAtStart
      PROVE  MembersTypes' /\ FrozenInv' /\ OthersListed
  <2>1. PICK t : t = HbTask("thawed", c)
    OBVIOUS
  <2>2. t \in HbTaskType /\ t.do = "thawed" /\ t.caller = c
    BY <2>1 DEF HbTask, HbTaskType
  <2>3. PICK q : q = HbTasks("thaw", c, rs)
    OBVIOUS
  <2>4. q \in Seq(HbTaskType) /\ \A u \in ToSet(q) : u.do = "thaw" /\ u.caller = c
    BY <2>3, HbTasksListed
  <2>5. <<t>> \in Seq(HbTaskType) /\ ToSet(<<t>>) = {t}
    BY <2>2, OneListed
  <2>6. hbTodo' = q \o <<t>>
    BY <1>6, <2>1, <2>3 DEF HbThaw
  <2>7. hbTodo' \in Seq(HbTaskType) /\ HbListed' = ToSet(q) \cup {t}
    <3>1. PICK one \in Seq(HbTaskType) : one = <<t>>
      BY <2>5
    <3>2. q \o one \in Seq(HbTaskType) /\ ToSet(q \o one) = ToSet(q) \cup ToSet(one)
      BY <2>4, ListJoined
    <3>3. hbTodo' = q \o one /\ ToSet(one) = {t}
      BY <2>5, <2>6, <3>1, Zenon
    <3> QED
      BY <3>2, <3>3 DEF HbListed
  <2>8. \A u \in HbListed' : u.do \in {"thaw", "thawed"} /\ u.caller = c
    BY <2>2, <2>4, <2>7
  <2>9. TasksCome /\ \A u \in HbListed' : ~Cascades(u)
    BY <1>1, <1>6, <2>8 DEF TasksCome, TaskComes, Thaws, Cascades
  <2> QED
    BY <1>2, <1>6, <2>7, <2>9
<1>7. ASSUME NEW c \in HbCallers, ReleaseAllFrozenResources(c)
      PROVE  MembersTypes' /\ FrozenInv' /\ OthersListed
  <2>1. PICK rs \in SUBSET HbResources : rs = hbFrozen[c]
    BY DEF HbTypes
  <2> QED
    BY <1>6, <1>7, <2>1 DEF ReleaseAllFrozenResources, hbProcess
<1>8. ASSUME NEW c \in HbCallers, NEW r \in HbResources, ReleaseFrozenResource(c, r)
      PROVE  MembersTypes' /\ FrozenInv' /\ OthersListed
  <2>1. hbRegs[c] # HbNone
    BY <1>8 DEF ReleaseFrozenResource, FrozenInv, FrozenTogether, HbIs
  <2>2. {r} \in SUBSET HbResources
    OBVIOUS
  <2> QED
    BY <1>6, <1>8, <2>1, <2>2 DEF ReleaseFrozenResource, hbProcess
<1> QED
  BY <1>3, <1>4, <1>5, <1>7, <1>8

(* A caller's row is written: its status, or all of it.  One that was      *)
(* frozen stays so.                                                        *)
LEMMA RowWritten ==
  ASSUME HbTypes, FrozenInv, NEW c \in HbCallers,
         hbRegs' \in [HbCallers -> HbRegistration \cup {HbNone}],
         hbRegs'[c] # HbNone, \A d \in HbCallers \ {c} : hbRegs'[d] = hbRegs[d],
         HbIs(c, {"frozen"}) => HbIs(c, {"frozen"})',
         UNCHANGED <<hbFrozen, hbLateAtStart>>, hbTodo' \in Seq(HbTaskType), TasksCome
  PROVE  MembersTypes' /\ FrozenInv'
<1>1. FrozenStand
  BY DEF FrozenStand, HbIs
<1> QED
  BY <1>1, FrozenKept DEF MembersTypes, HbTypes

(* Tasks of groups and tasks listed already may come in any order.         *)
LEMMA ListedWithGroups ==
  ASSUME HbTypes, NEW s \in Seq(HbTaskType), NEW t \in Seq(HbTaskType),
         \A u \in ToSet(s) \cup ToSet(t) :
           \/ u \in HbListed \/ u.do = "group"
           \/ u.do = "dispose" /\ hbRegs'[u.caller] # HbNone,
         \A u \in HbListed : ~Thaws(u), hbTodo' = s \o t,
         hbTodo # <<>> => ToSet(Tail(hbTodo)) \subseteq ToSet(s) \cup ToSet(t)
  PROVE  hbTodo' \in Seq(HbTaskType) /\ TasksCome /\ OthersListed
<1>1. s \o t \in Seq(HbTaskType) /\ ToSet(s \o t) = ToSet(s) \cup ToSet(t)
  BY ListJoined
<1>2. hbTodo' \in Seq(HbTaskType) /\ HbListed' = ToSet(s) \cup ToSet(t)
  BY <1>1 DEF HbListed
<1>3. TasksCome
  BY <1>2 DEF TasksCome, TaskComes, Thaws, AboutGroups
<1>4. OthersListed
  BY <1>2 DEF OthersListed, Cascades
<1> QED
  BY <1>2, <1>3, <1>4

LEMMA RegisterKeepsFrozen ==
  ASSUME HbTypes, FrozenInv, NEW q \in HbRegistrations, Register(q.caller, q.group, q.freeze)
  PROVE  MembersTypes' /\ FrozenInv' /\ OthersListed
<1>1. PICK c, g, freeze : c = q.caller /\ g = q.group /\ freeze = q.freeze
  OBVIOUS
<1>2. c \in HbCallers /\ g \in HbGroups \cup {HbNone} /\ freeze \in BOOLEAN
  BY <1>1, HbAssumption
<1>3. Register(c, g, freeze)
  BY <1>1
<1>4. PICK row : row = [group |-> g, freeze |-> freeze, status |-> "healthy"]
  OBVIOUS
<1>5. row \in HbRegistration
  BY <1>2, <1>4 DEF HbRegistration, HbStatus, HbAlive
<1>6. hbRegs' = [hbRegs EXCEPT ![c] = row] /\ row # HbNone
  BY <1>3, <1>4, <1>5, HbAssumption DEF Register
<1>7. /\ hbRegs' \in [HbCallers -> HbRegistration \cup {HbNone}]
      /\ hbRegs'[c] # HbNone /\ \A d \in HbCallers \ {c} : hbRegs'[d] = hbRegs[d]
  BY <1>2, <1>5, <1>6 DEF HbTypes
<1>8. ~HbIs(c, {"frozen"})
  BY <1>3 DEF Register, HbIs
<1>9. PICK old : old = IF hbRegs[c] = HbNone THEN g ELSE hbRegs[c].group
  OBVIOUS
<1>10. old \in HbGroups \cup {HbNone}
  BY <1>2, <1>9 DEF HbTypes, HbRegistration
<1>11. PICK s, t : /\ s = IF old \notin {g, HbNone} THEN <<HbGroupTask(old)>> ELSE <<>>
                   /\ t = IF g # HbNone THEN <<HbGroupTask(g)>> ELSE <<>>
  OBVIOUS
<1>12. ASSUME NEW h \in HbGroups
       PROVE  /\ <<HbGroupTask(h)>> \in Seq(HbTaskType)
              /\ \A u \in ToSet(<<HbGroupTask(h)>>) : u.do = "group"
  <2>1. PICK u : u = HbGroupTask(h)
    OBVIOUS
  <2>2. u \in HbTaskType /\ u.do = "group"
    BY <2>1 DEF HbTaskType, HbGroupTask
  <2>3. <<u>> \in Seq(HbTaskType) /\ ToSet(<<u>>) = {u}
    BY <2>2, OneListed
  <2> QED
    BY <2>1, <2>2, <2>3
<1>13. <<>> \in Seq(HbTaskType) /\ ToSet(<<>>) = {}
  BY DEF ToSet
<1>14. s \in Seq(HbTaskType) /\ \A u \in ToSet(s) : u.do = "group"
  BY <1>10, <1>11, <1>12, <1>13
<1>15. t \in Seq(HbTaskType) /\ \A u \in ToSet(t) : u.do = "group"
  BY <1>2, <1>11, <1>12, <1>13
<1>16. hbTodo' = s \o t /\ hbTodo = <<>>
  BY <1>3, <1>9, <1>11 DEF Register, HbFree
<1>17. HbListed = {}
  BY <1>16 DEF HbListed, ToSet
<1>18. hbTodo' \in Seq(HbTaskType) /\ TasksCome /\ OthersListed
  BY <1>14, <1>15, <1>16, <1>17, ListedWithGroups
<1>19. UNCHANGED <<hbFrozen, hbLateAtStart>>
  BY <1>3 DEF Register, hbProcess
<1> QED
  BY <1>2, <1>7, <1>8, <1>18, <1>19, RowWritten

LEMMA ReportKeepsFrozen ==
  ASSUME HbTypes, FrozenInv, NEW c \in HbCallers, ReportHeartbeat(c)
  PROVE  MembersTypes' /\ FrozenInv' /\ OthersListed
<1>1. hbRegs[c] # HbNone /\ ~HbIs(c, {"frozen"})
  BY DEF ReportHeartbeat, HbIs
<1>2. PICK status \in HbStatus :
        /\ status = IF HbIs(c, {"lost"}) THEN "recovered" ELSE "healthy"
        /\ UpdateHeartbeatRegistration(c, status)
  BY DEF ReportHeartbeat, HbStatus, HbAlive
<1>3. /\ hbRegs' \in [HbCallers -> HbRegistration \cup {HbNone}]
      /\ hbRegs'[c] # HbNone /\ \A d \in HbCallers \ {c} : hbRegs'[d] = hbRegs[d]
  BY <1>1, <1>2, HbUpdated
<1>4. PICK s : s = HbGroupTasks(c)
  OBVIOUS
<1>5. s \in Seq(HbTaskType) /\ \A u \in ToSet(s) : u.do = "group"
  BY <1>1, <1>4, HbGroupsListed
<1>6. hbTodo' = s
  BY <1>4 DEF ReportHeartbeat
<1>7. hbTodo' \in Seq(HbTaskType) /\ HbListed' = ToSet(s) /\ hbTodo = <<>>
  BY <1>5, <1>6 DEF HbListed, ReportHeartbeat, HbFree
<1>8. TasksCome /\ OthersListed
  BY <1>5, <1>7 DEF TasksCome, TaskComes, Thaws, OthersListed, Cascades, AboutGroups
<1>9. UNCHANGED <<hbFrozen, hbLateAtStart>>
  BY DEF ReportHeartbeat, hbProcess
<1> QED
  BY <1>1, <1>3, <1>7, <1>8, <1>9, RowWritten

LEMMA AtWork ==
  ASSUME HbTypes, FrozenInv, NEW do \in {"check", "check only", "dispose", "thawed", "freeze", "thaw"},
         HbNow(do)
  PROVE  /\ HbAt \in HbCallers /\ hbRegs[HbAt] # HbNone /\ hbTodo # <<>>
         /\ hbTodo[1].do = do /\ hbTodo[1] \in HbListed /\ hbTodo[1] \in HbTaskType
         /\ do \in {"freeze", "thaw"} => hbTodo[1].resource \in HbResources
         /\ IF do \in {"thaw", "thawed"} THEN \A u \in HbListed : Thaws(u)
            ELSE \A u \in HbListed : ~Thaws(u)
<1>1. hbTodo # <<>> /\ hbTodo[1].do = do
  BY DEF HbNow
<1>2. hbTodo[1] \in HbTaskType /\ hbTodo[1] \in HbListed
  BY <1>1, HbHead
<1>3. PICK t \in HbTaskType : t = hbTodo[1]
  BY <1>2
<1>4. t.caller \in HbCallers /\ (do \in {"freeze", "thaw"} => t.resource \in HbResources)
  BY <1>1, <1>3, HbTaskFields
<1>5. hbRegs[t.caller] # HbNone
  BY <1>1, <1>2, <1>3 DEF FrozenInv, TasksStand, AboutGroups, Cascades
<1>6. IF do \in {"thaw", "thawed"} THEN \A u \in HbListed : Thaws(u)
      ELSE \A u \in HbListed : ~Thaws(u)
  BY <1>1, <1>2 DEF FrozenInv, TasksStand, Thaws
<1> QED
  BY <1>1, <1>2, <1>3, <1>4, <1>5, <1>6 DEF HbAt

LEMMA CheckListed ==
  ASSUME HbTypes, hbTodo # <<>>, \A u \in HbListed : ~Thaws(u),
         NEW lost \in Seq(HbTaskType), NEW groups \in Seq(HbTaskType),
         \A u \in ToSet(lost) \cup ToSet(groups) :
           \/ u.do = "group"
           \/ u.do = "dispose" /\ hbRegs'[u.caller] # HbNone,
         hbTodo' = lost \o Tail(hbTodo) \o groups
  PROVE  hbTodo' \in Seq(HbTaskType) /\ TasksCome /\ OthersListed
<1>1. PICK rest : rest = Tail(hbTodo)
  OBVIOUS
<1>2. rest \in Seq(HbTaskType) /\ ToSet(rest) \subseteq HbListed
  BY <1>1, HbHead
<1>3. lost \o rest \in Seq(HbTaskType) /\ ToSet(lost \o rest) = ToSet(lost) \cup ToSet(rest)
  BY <1>2, ListJoined
<1>4. PICK s : s = lost \o rest
  OBVIOUS
<1>5. s \in Seq(HbTaskType) /\ ToSet(s) = ToSet(lost) \cup ToSet(rest) /\ hbTodo' = s \o groups
  BY <1>1, <1>3, <1>4
<1>6. \A u \in ToSet(s) \cup ToSet(groups) :
        \/ u \in HbListed \/ u.do = "group"
        \/ u.do = "dispose" /\ hbRegs'[u.caller] # HbNone
  <2>1. \A u \in ToSet(rest) : u \in HbListed
    BY <1>2
  <2>2. \A u \in ToSet(s) \cup ToSet(groups) :
          u \in ToSet(rest) \/ u \in ToSet(lost) \cup ToSet(groups)
    BY <1>5
  <2> QED
    BY <2>1, <2>2
<1>7. ToSet(Tail(hbTodo)) \subseteq ToSet(s) \cup ToSet(groups)
  BY <1>1, <1>5
<1> QED
  BY <1>5, <1>6, <1>7, ListedWithGroups

LEMMA CheckKeepsFrozen ==
  ASSUME HbTypes, FrozenInv, CheckCaller
  PROVE  MembersTypes' /\ FrozenInv' /\ OthersListed
<1>1. PICK do \in {"check", "check only"} : HbNow(do)
  BY DEF CheckCaller
<1>2. PICK c \in HbCallers : c = HbAt
  BY <1>1, AtWork
<1>3. /\ hbRegs[c] # HbNone /\ hbTodo # <<>> /\ hbTodo[1] \in HbListed
      /\ \A u \in HbListed : ~Thaws(u)
  BY <1>1, <1>2, AtWork
<1>4. PICK status : status = CheckedStatus(c)
  OBVIOUS
<1>5. hbRegs[c].status \in HbStatus
  BY <1>3 DEF HbTypes, HbRegistration
<1>6. status \in HbStatus /\ (HbIs(c, {"frozen"}) => status = hbRegs[c].status)
  BY <1>4, <1>5 DEF CheckedStatus, HbStatus, HbAlive, HbIs, MayBeLost
<1>7. HbChecked(c, status)
  BY <1>2, <1>4 DEF CheckCaller
<1>8. /\ hbRegs' \in [HbCallers -> HbRegistration \cup {HbNone}]
      /\ hbRegs'[c] # HbNone /\ \A d \in HbCallers \ {c} : hbRegs'[d] = hbRegs[d]
      /\ HbIs(c, {"frozen"}) => HbIs(c, {"frozen"})'
  <2>1. CASE status = hbRegs[c].status
    <3>1. hbRegs' = hbRegs
      BY <1>7, <2>1 DEF HbChecked
    <3> QED
      BY <1>3, <3>1 DEF HbTypes, HbIs
  <2>2. CASE status # hbRegs[c].status
    <3>1. UpdateHeartbeatRegistration(c, status)
      BY <1>7, <2>2 DEF HbChecked
    <3> QED
      BY <1>3, <1>6, <2>2, <3>1, HbUpdated
  <2> QED
    BY <2>1, <2>2
<1>9. PICK G : G = HbGroupTasks(c)
  OBVIOUS
<1>10. G \in Seq(HbTaskType) /\ \A u \in ToSet(G) : u.do = "group"
  BY <1>3, <1>9, HbGroupsListed
<1>11. PICK t : t = HbTask("dispose", c)
  OBVIOUS
<1>12. t \in HbTaskType /\ t.do = "dispose" /\ t.caller = c
  BY <1>11 DEF HbTask, HbTaskType
<1>13. <<t>> \in Seq(HbTaskType) /\ ToSet(<<t>>) = {t}
  BY <1>12, OneListed
<1>14. <<t>> \o G \in Seq(HbTaskType) /\ ToSet(<<t>> \o G) = ToSet(<<t>>) \cup ToSet(G)
  <2>1. PICK one \in Seq(HbTaskType) : one = <<t>>
    BY <1>13
  <2>2. one \o G \in Seq(HbTaskType) /\ ToSet(one \o G) = ToSet(one) \cup ToSet(G)
    BY <1>10, ListJoined
  <2> QED
    BY <2>1, <2>2, Zenon
<1> DEFINE gone == <<t>> \o G
<1>15. gone \in Seq(HbTaskType) /\ ToSet(gone) = {t} \cup ToSet(G)
  BY <1>13, <1>14
<1> HIDE DEF gone
<1>16. <<>> \in Seq(HbTaskType) /\ ToSet(<<>>) = {}
  BY NoneListed
<1>17. ConnectionLost(c) = gone
  BY <1>9, <1>11 DEF ConnectionLost, gone
<1>18. \A u \in {t} \cup ToSet(G) :
         \/ u.do = "group"
         \/ u.do = "dispose" /\ hbRegs'[u.caller] # HbNone
  BY <1>8, <1>10, <1>12
<1>19. PICK lost, groups :
         /\ hbTodo' = lost \o Tail(hbTodo) \o groups
         /\ lost = <<>> \/ lost = gone
         /\ groups = <<>> \/ groups = G
  BY <1>2, <1>9, <1>17 DEF CheckCaller
<1>20. lost \in Seq(HbTaskType) /\ ToSet(lost) \subseteq {t} \cup ToSet(G)
  BY <1>15, <1>16, <1>19
<1>21. groups \in Seq(HbTaskType) /\ ToSet(groups) \subseteq {t} \cup ToSet(G)
  BY <1>10, <1>16, <1>19
<1>22. hbTodo' \in Seq(HbTaskType) /\ TasksCome /\ OthersListed
  BY <1>3, <1>18, <1>19, <1>20, <1>21, CheckListed
<1>23. UNCHANGED <<hbFrozen, hbLateAtStart>>
  BY DEF CheckCaller, hbProcess
<1> QED
  BY <1>8, <1>22, <1>23, RowWritten

LEMMA FreezeKeepsFrozen ==
  ASSUME HbTypes, FrozenInv, FreezeResources
  PROVE  MembersTypes' /\ FrozenInv' /\ OthersListed
<1>1. HbNow("dispose")
  BY DEF FreezeResources
<1>2. PICK c \in HbCallers : c = HbAt
  BY <1>1, AtWork
<1>3. hbRegs[c] # HbNone /\ hbTodo # <<>> /\ \A u \in HbListed : ~Thaws(u)
  BY <1>1, <1>2, AtWork
<1>4. UpdateHeartbeatRegistration(c, "frozen") /\ "frozen" \in HbStatus
  BY <1>2 DEF FreezeResources, HbStatus
<1>5. /\ hbRegs' \in [HbCallers -> HbRegistration \cup {HbNone}]
      /\ hbRegs'[c] # HbNone /\ hbRegs'[c].status = "frozen"
      /\ \A d \in HbCallers \ {c} : hbRegs'[d] = hbRegs[d]
  BY <1>3, <1>4, HbUpdated
<1>6. HbIs(c, {"frozen"})'
  BY <1>5 DEF HbIs
<1>7. PICK rs \in SUBSET HbResources : hbTodo' = HbTasks("freeze", c, rs) \o Tail(hbTodo)
  BY <1>2 DEF FreezeResources
<1>8. PICK q, rest : q = HbTasks("freeze", c, rs) /\ rest = Tail(hbTodo)
  OBVIOUS
<1>9. q \in Seq(HbTaskType) /\ \A u \in ToSet(q) : u.do = "freeze" /\ u.caller = c
  BY <1>8, HbTasksListed
<1>10. rest \in Seq(HbTaskType) /\ ToSet(rest) \subseteq HbListed
  BY <1>3, <1>8, HbHead
<1>11. q \o rest \in Seq(HbTaskType) /\ ToSet(q \o rest) = ToSet(q) \cup ToSet(rest)
  BY <1>9, <1>10, ListJoined
<1>12. hbTodo' \in Seq(HbTaskType) /\ HbListed' = ToSet(q) \cup ToSet(rest)
  BY <1>7, <1>8, <1>11 DEF HbListed
<1>13. \A u \in ToSet(q) : TaskComes(u) /\ ~Thaws(u)
  BY <1>5, <1>6, <1>9 DEF TaskComes, Thaws
<1>14. TasksCome /\ OthersListed
  BY <1>3, <1>8, <1>9, <1>10, <1>12, <1>13 DEF TasksCome, OthersListed, Cascades
<1>15. UNCHANGED <<hbFrozen, hbLateAtStart>>
  BY DEF FreezeResources, hbProcess
<1> QED
  BY <1>5, <1>6, <1>12, <1>14, <1>15, RowWritten

LEMMA ReleaseKeepsFrozen ==
  ASSUME HbTypes, FrozenInv, ReleaseResources
  PROVE  MembersTypes' /\ FrozenInv' /\ OthersListed
<1>1. /\ hbTodo' = Tail(hbTodo) /\ hbTodo # <<>>
      /\ UNCHANGED <<hbRegs, hbFrozen>> /\ hbLateAtStart' = hbLateAtStart
  BY DEF ReleaseResources, HbNow, hbMembers, hbProcess
<1> QED
  BY <1>1, TaskDone, NobodyMoves

LEMMA RowsKeepFrozen ==
  ASSUME HbTypes, FrozenInv, CreateFrozenResource \/ ThawRow
  PROVE  MembersTypes' /\ FrozenInv' /\ OthersListed
<1>1. /\ hbTodo' = Tail(hbTodo) /\ hbTodo # <<>>
      /\ hbRegs' = hbRegs /\ hbLateAtStart' = hbLateAtStart
  BY DEF CreateFrozenResource, ThawRow, HbNow, hbProcess
<1>2. hbTodo' \in Seq(HbTaskType) /\ TasksCome /\ OthersListed
  BY <1>1, TaskDone
<1>4. /\ hbFrozen' \in [HbCallers -> SUBSET HbResources]
      /\ \A c \in HbCallers : hbFrozen'[c] \subseteq hbFrozen[c] \/ HbIs(c, {"frozen"})
  <2>1. CASE CreateFrozenResource
    <3>1. HbNow("freeze")
      BY <2>1 DEF CreateFrozenResource
    <3>2. PICK c \in HbCallers : c = HbAt
      BY <3>1, AtWork
    <3>3. PICK r \in HbResources : r = hbTodo[1].resource
      BY <3>1, AtWork
    <3>4. HbIs(c, {"frozen"})
      BY <3>1, <3>2, AtWork DEF FrozenInv, TasksStand, HbAt
    <3>5. hbFrozen' = [hbFrozen EXCEPT ![c] = @ \cup {r}]
      BY <2>1, <3>2, <3>3 DEF CreateFrozenResource
    <3> QED
      BY <3>4, <3>5 DEF HbTypes
  <2>2. CASE ThawRow
    <3>1. HbNow("thaw")
      BY <2>2 DEF ThawRow
    <3>2. PICK c \in HbCallers : c = HbAt
      BY <3>1, AtWork
    <3>3. hbFrozen' = [hbFrozen EXCEPT ![c] = @ \ {hbTodo[1].resource}]
      BY <2>2, <3>2 DEF ThawRow
    <3> QED
      BY <3>3 DEF HbTypes
  <2> QED
    BY <2>1, <2>2
<1>5. FrozenStand
  BY <1>1, <1>4 DEF FrozenStand, HbIs
<1> QED
  BY <1>1, <1>2, <1>4, <1>5, FrozenKept DEF MembersTypes, HbTypes

(* The caller recovers when none of its resources is frozen any more, and  *)
(* none is about to be: nothing else goes on while resources are released. *)
LEMMA ThawedKeepsFrozen ==
  ASSUME HbTypes, FrozenInv, Thawed
  PROVE  MembersTypes' /\ FrozenInv' /\ OthersListed
<1>1. HbNow("thawed")
  BY DEF Thawed
<1>2. PICK c \in HbCallers : c = HbAt
  BY <1>1, AtWork
<1>3. hbRegs[c] # HbNone /\ hbTodo # <<>> /\ \A u \in HbListed : Thaws(u)
  BY <1>1, <1>2, AtWork
<1>4. hbTodo' \in Seq(HbTaskType) /\ TasksCome /\ OthersListed /\ HbListed' \subseteq HbListed
  <2>1. hbTodo' \in Seq(HbTaskType) /\ TasksCome /\ OthersListed
    BY <1>3, TaskDone DEF Thawed
  <2>2. HbListed' \subseteq HbListed
    BY <1>3, HbHead DEF Thawed, HbListed
  <2> QED
    BY <2>1, <2>2
<1>5. hbFrozen' = hbFrozen /\ hbLateAtStart' = hbLateAtStart
  BY DEF Thawed, hbProcess
<1>6. CASE hbFrozen[c] # {}
  <2>1. hbRegs' = hbRegs
    BY <1>2, <1>6 DEF Thawed
  <2> QED
    BY <1>4, <1>5, <2>1, NobodyMoves
<1>7. CASE hbFrozen[c] = {}
  <2>1. UpdateHeartbeatRegistration(c, "recovered") /\ "recovered" \in HbStatus
    BY <1>2, <1>7 DEF Thawed, HbStatus, HbAlive
  <2>2. /\ hbRegs' \in [HbCallers -> HbRegistration \cup {HbNone}]
        /\ hbRegs'[c] # HbNone /\ \A d \in HbCallers \ {c} : hbRegs'[d] = hbRegs[d]
    BY <1>3, <2>1, HbUpdated
  <2>3. \A t \in HbListed' : ~AboutGroups(t) /\ t.do # "freeze" /\ Thaws(t)
    BY <1>3, <1>4 DEF Thaws, AboutGroups, Cascades
  <2>4. \A d \in HbCallers : hbRegs[d] # HbNone => hbRegs'[d] # HbNone
    BY <2>2
  <2>5. \A t \in HbListed' : t.caller \in HbCallers /\ hbRegs[t.caller] # HbNone
    BY <1>4, <2>3, HbListedTyped, HbTaskFields DEF FrozenInv, TasksStand, Thaws
  <2>6. \A d \in hbLateAtStart' : hbRegs'[d] # HbNone
    BY <1>5, <2>4 DEF FrozenInv, TasksStand, HbTypes
  <2>7. TasksStand'
    BY <2>3, <2>4, <2>5, <2>6 DEF TasksStand, Thaws
  <2>8. FrozenTogether'
    BY <1>5, <1>7, <2>2 DEF FrozenInv, FrozenTogether, HbIs
  <2> QED
    BY <1>4, <1>5, <2>2, <2>7, <2>8 DEF MembersTypes, FrozenInv, HbTypes
<1> QED
  BY <1>6, <1>7

HbInv == HbTypes /\ FrozenInv /\ GraphInv

LEMMA HbInitInv == HbInit => HbInv
<1> SUFFICES ASSUME HbInit PROVE HbInv
  OBVIOUS
<1> USE DEF HbInit
<1>1. hbTodo \in Seq(HbTaskType) /\ HbListed = {}
  BY DEF HbListed, ToSet
<1>2. HbTypes
  BY <1>1 DEF HbTypes, HbRows, DepsExist
<1>3. FrozenInv
  BY <1>1 DEF FrozenInv, TasksStand, FrozenTogether
<1>4. CausesStand
  BY DEF CausesStand, HbDegraded
<1>5. CascadeStands
  BY <1>1 DEF CascadeStands
<1> QED
  BY <1>2, <1>3, <1>4, <1>5 DEF HbInv, HbTypes, GraphInv, GraphTypes

LEMMA HbNextKeepsInv == HbInv /\ [HbNext]_hbVars => HbInv'
<1> SUFFICES ASSUME HbInv, [HbNext]_hbVars PROVE HbInv'
  OBVIOUS
<1>1. HbTypes /\ FrozenInv /\ GraphInv
  BY DEF HbInv
<1>2. SUFFICES MembersTypes' /\ FrozenInv' /\ GraphInv'
  BY DEF HbInv, HbTypes, MembersTypes, GraphInv, GraphTypes
<1>3. CASE \/ \E g \in HbGroups : UpdateGroupHealth(g)
           \/ DegradeGroup \/ TryRestoreGroup \/ DeleteDependency \/ DeleteGroupRow
           \/ \E g \in HbGroups : CreateGroup(g)
           \/ \E d \in HbDependencies :
                AddGroupDependency(d[1], d[2]) \/ RemoveGroupDependency(d[1], d[2])
           \/ HbCrash
  BY <1>1, <1>3, GroupsStep
<1>4. CASE \/ HbStart \/ UNCHANGED hbVars
           \/ \E c \in HbCallers : HbSilent(c)
  BY <1>1, <1>4, QuietStep
<1>5. ASSUME MembersTypes', FrozenInv', OthersListed, UNCHANGED hbGraph,
             hbTodo # <<>> => ~Cascades(hbTodo[1])
      PROVE  MembersTypes' /\ FrozenInv' /\ GraphInv'
  BY <1>1, <1>5, GraphStands DEF MembersTypes
<1>6. CASE \/ HbTick
           \/ \E g \in HbGroups : DeleteGroup(g)
           \/ \E c \in HbCallers : CheckAtStart(c)
           \/ \E c \in HbCallers : ReleaseAllFrozenResources(c)
           \/ \E c \in HbCallers, r \in HbResources : ReleaseFrozenResource(c, r)
  <2>1. UNCHANGED hbGraph /\ hbTodo = <<>>
    BY <1>6 DEF HbTick, DeleteGroup, CheckAtStart, ReleaseAllFrozenResources,
         ReleaseFrozenResource, HbFree
  <2> QED
    BY <1>1, <1>5, <1>6, <2>1, ListingStep
<1>7. ASSUME NEW q \in HbRegistrations, Register(q.caller, q.group, q.freeze)
      PROVE  MembersTypes' /\ FrozenInv' /\ GraphInv'
  <2>1. UNCHANGED hbGraph /\ hbTodo = <<>>
    BY <1>7 DEF Register, HbFree
  <2> QED
    BY <1>1, <1>5, <1>7, <2>1, RegisterKeepsFrozen
<1>8. ASSUME NEW c \in HbCallers, ReportHeartbeat(c)
      PROVE  MembersTypes' /\ FrozenInv' /\ GraphInv'
  <2>1. UNCHANGED hbGraph /\ hbTodo = <<>>
    BY <1>8 DEF ReportHeartbeat, HbFree
  <2> QED
    BY <1>1, <1>5, <1>8, <2>1, ReportKeepsFrozen
<1>9. CASE CheckCaller \/ ReleaseResources \/ FreezeResources
           \/ CreateFrozenResource \/ ThawRow \/ Thawed
  <2>1. UNCHANGED hbGraph /\ ~Cascades(hbTodo[1])
    BY <1>9 DEF CheckCaller, ReleaseResources, FreezeResources, CreateFrozenResource, ThawRow,
         Thawed, HbNow, Cascades
  <2>2. MembersTypes' /\ FrozenInv' /\ OthersListed
    BY <1>1, <1>9, CheckKeepsFrozen, ReleaseKeepsFrozen, FreezeKeepsFrozen, RowsKeepFrozen,
       ThawedKeepsFrozen
  <2> QED
    BY <1>5, <2>1, <2>2
<1> QED
  BY <1>3, <1>4, <1>6, <1>7, <1>8, <1>9 DEF HbNext, HbSteps

(* Nothing is frozen of a caller that is not (heartbeat: handleConnection- *)
(* LostLocked, ReleaseFrozenResource and ReleaseAllFrozenResources), in    *)
(* whatever order ticks, manual releases and crashes come.                 *)
THEOREM FrozenCorrect == HbSpec => []FrozenTogether
<1>1. HbInv => FrozenTogether
  BY DEF HbInv, FrozenInv
<1> QED
  BY <1>1, HbInitInv, HbNextKeepsInv, PTL DEF HbSpec

(* A group is degraded only while one that it depends on fails, unless the *)
(* method under way has still to try it, or a crash came before that, or a *)
(* group it depended on was deleted (heartbeat: updateGroupHealthLocked,   *)
(* checkCascadeDegradeLocked, tryRestoreGroupLocked, DeleteGroup, a row at *)
(* a time), for every graph of groups, cycles included.                    *)
THEOREM DegradedCorrect == HbSpec => []DegradedForACause
<1>1. HbInv => DegradedForACause
  BY DEF HbInv, GraphInv, CausesStand, Cause, DegradedForACause, ListGroupDependenciesByGroup
<1> QED
  BY <1>1, HbInitInv, HbNextKeepsInv, PTL DEF HbSpec
=============================================================================
