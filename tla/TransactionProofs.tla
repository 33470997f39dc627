-------------------------- MODULE TransactionProofs --------------------------
(***************************************************************************)
(* That a transaction's tokens come back once, for any transactions, with  *)
(* any number of locks and token callers, and any crashes.                 *)
(*                                                                         *)
(* There txVars alone matter: a step of anybody else, the lock manager     *)
(* included, is a stutter.                                                 *)
(*                                                                         *)
(* And that a cascade which fails gives back what it took, along whatever  *)
(* order, for any number of holders that run cascades or call the lock     *)
(* manager otherwise.                                                      *)
(*                                                                         *)
(* And that the searches of the resource graph are right in any graph:     *)
(* the order a cascade locks its node's ancestors in, the descendants a    *)
(* forced release goes to, and the edges refused because of a cycle.       *)
(***************************************************************************)
EXTENDS Orchestration, Topology, FiniteSetTheorems, SequenceTheorems, TLAPS

TxSpec == TxInit /\ [][TxNext]_txVars

KnownTxs == {t \in Txs : txs[t] # None}

TxTypes ==
  /\ txs \in [Txs -> TxEntry \cup {None}]
  /\ txLocks \in [Txs -> Seq(TxPart)] /\ txTokens \in [Txs -> Seq(TxPart)]
  /\ txPaid \in [Txs -> Int]
  /\ txJob \in TxJob \cup {None}
  /\ txJob # None => txJob.tx \in KnownTxs
  /\ txTimers \in SUBSET KnownTxs /\ txFired \in SUBSET KnownTxs

AtWork(t) == txJob # None /\ txJob.tx = t
Asked(t) == Len(txs[t].spec.callers)
Granted(t) == Len(txTokens[t])

AtRest(t) ==
  /\ txPaid[t] = IF txs[t].status \in {"committed", "released"} THEN Asked(t) ELSE 0
  /\ txs[t].status = "committed" => Granted(t) = Asked(t)

(* What is paid for while a method runs: what is granted so far, what is   *)
(* left to return, or all of it until the locks are released.              *)
InWork(t) ==
  /\ txJob.do = "lock" =>
       txPaid[t] = 0 /\ Granted(t) = 0 /\ txJob.left \in Seq(TxPart)
  /\ txJob.do = "token" =>
       txPaid[t] = Granted(t) /\ Granted(t) + Len(txJob.left) = Asked(t)
  /\ txJob.do \in {"undo tokens", "time out tokens"} => txPaid[t] = Len(txJob.left)
  /\ txJob.do = "undo locks" => txPaid[t] = 0
  /\ txJob.do \in {"release", "time out"} => txPaid[t] = Asked(t)
  /\ txJob.do = "time out" => Granted(t) = Asked(t)

Accounted(t) ==
  /\ txs[t] = None => txPaid[t] = 0 /\ txTokens[t] = <<>>
  /\ txs[t] # None /\ t \notin txTorn => IF AtWork(t) THEN InWork(t) ELSE AtRest(t)

TokensInv == TxTypes /\ \A t \in Txs : Accounted(t)

LEMMA LengthOfParts ==
  ASSUME NEW S, NEW s \in Seq(S)
  PROVE  /\ Len(s) \in Nat /\ (s = <<>> <=> Len(s) = 0)
         /\ \A x \in S : Append(s, x) \in Seq(S) /\ Len(Append(s, x)) = Len(s) + 1
         /\ s # <<>> => Head(s) \in S /\ Tail(s) \in Seq(S) /\ Len(Tail(s)) = Len(s) - 1
OBVIOUS

LEMMA ReverseOfParts ==
  ASSUME NEW S, NEW s \in Seq(S)
  PROVE  Reverse(s) \in Seq(S) /\ Len(Reverse(s)) = Len(s)
BY DEF Reverse

(* What nobody's method is about, before and after, stays accounted.       *)
LEMMA OthersStayAccounted ==
  ASSUME NEW t \in Txs, Accounted(t),
         txs'[t] = txs[t], txTokens'[t] = txTokens[t], txPaid'[t] = txPaid[t],
         t \in txTorn => t \in txTorn',
         ~AtWork(t), ~AtWork(t)'
  PROVE  Accounted(t)'
BY DEF Accounted, AtRest, Asked, Granted

(* A step on the transaction of the method under way, or of the method     *)
(* that begins, needs looking at nowhere else.                             *)
LEMMA OneAccounted ==
  ASSUME TokensInv, TxTypes', NEW t \in Txs, Accounted(t)',
         \A u \in Txs : AtWork(u) \/ AtWork(u)' => u = t,
         \A u \in Txs : u # t =>
           /\ txs'[u] = txs[u] /\ txTokens'[u] = txTokens[u] /\ txPaid'[u] = txPaid[u]
           /\ u \in txTorn => u \in txTorn'
  PROVE  TokensInv'
<1>1. ASSUME NEW u \in Txs
      PROVE  Accounted(u)'
  <2>1. CASE u = t
    BY <2>1
  <2>2. CASE u # t
    BY <2>2, OthersStayAccounted DEF TokensInv
  <2> QED
    BY <2>1, <2>2
<1> QED
  BY <1>1 DEF TokensInv

LEMMA Specs ==
  ASSUME NEW spec \in TxSpecs
  PROVE  spec.locks \in Seq(TxPart) /\ spec.callers \in Seq(TxPart)
BY TxAssumption DEF TxPart

-----------------------------------------------------------------------------
(* A method begins *)

LEMMA CreateKeeps ==
  ASSUME TokensInv, NEW t \in Txs, NEW spec \in TxSpecs, CreateTx(t, spec)
  PROVE  TokensInv'
<1> USE TxAssumption
<1>1. /\ txs[t] = None /\ txJob = None
      /\ txs' = [txs EXCEPT ![t] = [status |-> "created", spec |-> spec]]
      /\ txJob' = [do |-> "lock", tx |-> t, left |-> spec.locks]
      /\ UNCHANGED <<txLocks, txTokens, txTimers, txFired, txPaid, txTorn>>
  BY DEF CreateTx, CreateOrchTx, TxFree, txHistory
<1>2. [status |-> "created", spec |-> spec] \in TxEntry /\ txJob' \in TxJob
  BY <1>1, Specs DEF TxEntry, TxStatus, TxJob
<1>3. txJob' # None /\ txJob'.tx = t /\ txJob'.do = "lock" /\ txJob'.left \in Seq(TxPart)
  BY <1>1, <1>2, Specs
<1>4. TxTypes'
  BY <1>1, <1>2, <1>3 DEF TokensInv, TxTypes, KnownTxs
<1>5. Accounted(t)'
  BY <1>1, <1>2, <1>3 DEF TokensInv, TxTypes, Accounted, InWork, AtWork, Granted
<1> QED
  BY <1>1, <1>3, <1>4, <1>5, OneAccounted DEF AtWork, TokensInv, TxTypes

(* A committed transaction is released, or its time is up.                 *)
LEMMA BeginKeeps ==
  ASSUME TokensInv, NEW t \in Txs, txs[t] # None, txs[t].status = "committed",
         NEW do \in {"release", "time out"}, txJob = None,
         txJob' = [do |-> do, tx |-> t, left |-> txLocks[t]],
         txFired' \in SUBSET txFired,
         UNCHANGED <<txs, txLocks, txTokens, txTimers, txPaid, txTorn>>
  PROVE  TokensInv'
<1> USE TxAssumption
<1>1. txJob' \in TxJob
  BY DEF TxJob, TokensInv, TxTypes
<1>2. txJob' # None /\ txJob'.tx = t /\ txJob'.do = do
  BY <1>1
<1>3. TxTypes'
  BY <1>1, <1>2 DEF TokensInv, TxTypes, KnownTxs
<1>4. Accounted(t)'
  BY <1>2 DEF TokensInv, Accounted, InWork, AtRest, AtWork, Granted, Asked
<1> QED
  BY <1>2, <1>3, <1>4, OneAccounted DEF AtWork

LEMMA ReleaseKeeps ==
  ASSUME TokensInv, NEW t \in Txs, ReleaseTx(t)
  PROVE  TokensInv'
BY BeginKeeps DEF ReleaseTx, TxFree, txTables, txHistory

(* Nothing that the invariant is about changes.                            *)
LEMMA StutterKeeps ==
  ASSUME TokensInv, UNCHANGED <<txs, txLocks, txTokens, txPaid, txTorn, txJob>>,
         txTimers' \in SUBSET KnownTxs, txFired' \in SUBSET KnownTxs
  PROVE  TokensInv'
<1>1. KnownTxs' = KnownTxs
  BY DEF KnownTxs
<1>2. TxTypes'
  BY <1>1 DEF TokensInv, TxTypes
<1>3. ASSUME NEW t \in Txs
      PROVE  Accounted(t)'
  BY DEF TokensInv, Accounted, InWork, AtRest, AtWork, Granted, Asked
<1> QED
  BY <1>2, <1>3 DEF TokensInv

LEMMA TimeoutKeeps ==
  ASSUME TokensInv, NEW t \in Txs, TimeoutTx(t)
  PROVE  TokensInv'
<1>1. txJob = None /\ txs[t] # None /\ txFired' \in SUBSET txFired
  BY DEF TimeoutTx, TxFree, TokensInv, TxTypes, KnownTxs
<1>2. CASE txs[t].status = "committed"
  BY <1>1, <1>2, BeginKeeps DEF TimeoutTx, txTables, txHistory
<1>3. CASE txs[t].status # "committed"
  BY <1>1, <1>3, StutterKeeps DEF TimeoutTx, txTables, txHistory, TokensInv, TxTypes
<1> QED
  BY <1>2, <1>3

-----------------------------------------------------------------------------
(* The steps of a method *)

(* What a step changes: the transaction's tokens, what is paid for it and  *)
(* what is left to do for it; and the account holds again.                 *)
LEMMA WorkKeeps ==
  ASSUME TokensInv, txJob # None,
         txs' = txs, txTorn' = txTorn, txTimers' = txTimers, txFired' = txFired,
         txLocks' \in [Txs -> Seq(TxPart)],
         txTokens' \in [Txs -> Seq(TxPart)], txPaid' \in [Txs -> Int],
         \A u \in Txs : u # txJob.tx => txTokens'[u] = txTokens[u] /\ txPaid'[u] = txPaid[u],
         txJob' \in TxJob, txJob'.tx = txJob.tx,
         txJob.tx \notin txTorn => InWork(txJob.tx)'
  PROVE  TokensInv'
<1> USE TxAssumption
<1> DEFINE t == txJob.tx
<1>1. t \in Txs /\ txs[t] # None /\ txJob' # None
  BY DEF TokensInv, TxTypes, KnownTxs
<1>2. TxTypes'
  BY <1>1 DEF TokensInv, TxTypes, KnownTxs
<1>3. Accounted(t)'
  BY <1>1 DEF Accounted, AtWork
<1> QED
  BY <1>1, <1>2, <1>3, OneAccounted DEF AtWork

(* The facts about the method under way that its steps start from          *)
LEMMA Working ==
  ASSUME TokensInv, txJob # None
  PROVE  /\ txJob \in TxJob /\ txJob.tx \in Txs /\ txs[txJob.tx] \in TxEntry
         /\ txJob.left \in Seq(TxPart) /\ txTokens[txJob.tx] \in Seq(TxPart)
         /\ txLocks[txJob.tx] \in Seq(TxPart) /\ txPaid[txJob.tx] \in Int
         /\ txs[txJob.tx].spec.callers \in Seq(TxPart) /\ txs[txJob.tx].spec \in TxSpecs
         /\ txJob.tx \notin txTorn => InWork(txJob.tx)
<1>1. txJob \in TxJob /\ txJob.tx \in Txs /\ txs[txJob.tx] \in TxEntry
  BY DEF TokensInv, TxTypes, KnownTxs
<1>2. txs[txJob.tx].spec \in TxSpecs /\ txJob.left \in Seq(TxPart) /\ txs[txJob.tx] # None
  BY <1>1, TxAssumption DEF TxEntry, TxJob
<1> QED
  BY <1>1, <1>2, Specs DEF TokensInv, TxTypes, Accounted, AtWork

LEMMA AcquireKeeps ==
  ASSUME TokensInv, TxAcquire
  PROVE  TokensInv'
<1> DEFINE t == txJob.tx
<1>0. /\ txJob # None /\ txJob.do = "lock" /\ txJob.left # <<>>
      /\ UNCHANGED <<txs, txTokens, txTimers, txFired, txPaid, txTorn>>
  BY DEF TxAcquire, TxDoing, txHistory
<1>1. CASE /\ txLocks' = [txLocks EXCEPT ![t] = Append(@, Head(txJob.left))]
           /\ txJob' = [txJob EXCEPT !.left = Tail(@)]
  <2>1. /\ Tail(txJob.left) \in Seq(TxPart)
        /\ Append(txLocks[t], Head(txJob.left)) \in Seq(TxPart)
    BY <1>0, Working, LengthOfParts
  <2>2. txLocks' \in [Txs -> Seq(TxPart)]
    BY <1>1, <2>1 DEF TokensInv, TxTypes
  <2>3. /\ txJob' \in TxJob /\ txJob'.tx = t /\ txJob'.do = "lock"
        /\ txJob'.left \in Seq(TxPart)
    BY <1>0, <1>1, <2>1, Working DEF TxJob
  <2>4. t \notin txTorn => InWork(t)'
    BY <1>0, <2>3, Working DEF InWork, Granted
  <2> QED
    BY <1>0, <2>2, <2>3, <2>4, WorkKeeps DEF TokensInv, TxTypes
<1>2. CASE txJob' = RollBack(t) /\ UNCHANGED txLocks
  <2>1. /\ Reverse(txTokens[t]) \in Seq(TxPart)
        /\ Len(Reverse(txTokens[t])) = Granted(t)
    BY <1>0, Working, ReverseOfParts DEF Granted
  <2>2. /\ txJob' \in TxJob /\ txJob'.tx = t /\ txJob'.do = "undo tokens"
        /\ Len(txJob'.left) = Granted(t)
    BY <1>0, <1>2, <2>1, Working DEF TxJob, RollBack
  <2>3. t \notin txTorn => InWork(t)'
    BY <1>0, <2>2, Working DEF InWork, Granted
  <2> QED
    BY <1>0, <1>2, <2>2, <2>3, WorkKeeps DEF TokensInv, TxTypes
<1> QED
  BY <1>1, <1>2 DEF TxAcquire, AddTxLock

LEMMA RequestTokensKeeps ==
  ASSUME TokensInv, TxRequestTokens
  PROVE  TokensInv'
<1> DEFINE t == txJob.tx
<1>0. /\ txJob # None /\ txJob.do = "token" /\ txJob.left # <<>>
      /\ UNCHANGED <<txs, txLocks, txTimers, txFired, txTorn>>
  BY DEF TxRequestTokens, TxDoing
<1>1. CASE /\ txTokens' = [txTokens EXCEPT ![t] = Append(@, Head(txJob.left))]
           /\ txPaid' = [txPaid EXCEPT ![t] = @ + 1]
           /\ txJob' = [txJob EXCEPT !.left = Tail(@)]
  <2>1. /\ Tail(txJob.left) \in Seq(TxPart) /\ Len(txJob.left) \in Nat
        /\ Len(Tail(txJob.left)) = Len(txJob.left) - 1
        /\ Append(txTokens[t], Head(txJob.left)) \in Seq(TxPart)
        /\ Len(Append(txTokens[t], Head(txJob.left))) = Granted(t) + 1 /\ Granted(t) \in Nat
    <3>1. txJob.left \in Seq(TxPart) /\ txTokens[t] \in Seq(TxPart)
      BY <1>0, Working
    <3>2. /\ Head(txJob.left) \in TxPart /\ Tail(txJob.left) \in Seq(TxPart)
          /\ Len(txJob.left) \in Nat /\ Len(Tail(txJob.left)) = Len(txJob.left) - 1
      BY <1>0, <3>1, LengthOfParts
    <3>3. PICK part \in TxPart : part = Head(txJob.left)
      BY <3>2
    <3>4. /\ Append(txTokens[t], part) \in Seq(TxPart)
          /\ Len(Append(txTokens[t], part)) = Len(txTokens[t]) + 1 /\ Len(txTokens[t]) \in Nat
      BY <3>1, LengthOfParts
    <3> QED
      BY <3>2, <3>3, <3>4, Zenon DEF Granted
  <2>2. /\ txTokens' \in [Txs -> Seq(TxPart)] /\ txPaid' \in [Txs -> Int]
        /\ Len(txTokens'[t]) = Granted(t) + 1 /\ txPaid'[t] = txPaid[t] + 1
        /\ \A u \in Txs : u # t => txTokens'[u] = txTokens[u] /\ txPaid'[u] = txPaid[u]
    <3>1. PICK more : more = Append(txTokens[t], Head(txJob.left))
      OBVIOUS
    <3>2. more \in Seq(TxPart) /\ Len(more) = Granted(t) + 1
      BY <2>1, <3>1
    <3>3. txTokens' = [txTokens EXCEPT ![t] = more]
      BY <1>1, <3>1
    <3>4. t \in Txs /\ txPaid[t] \in Int
      BY <1>0, Working
    <3>5. txTokens \in [Txs -> Seq(TxPart)] /\ txPaid \in [Txs -> Int]
      BY DEF TokensInv, TxTypes
    <3>6. /\ txTokens' \in [Txs -> Seq(TxPart)] /\ txTokens'[t] = more
          /\ \A u \in Txs : u # t => txTokens'[u] = txTokens[u]
      BY <3>2, <3>3, <3>4, <3>5
    <3>7. /\ txPaid' \in [Txs -> Int] /\ txPaid'[t] = txPaid[t] + 1
          /\ \A u \in Txs : u # t => txPaid'[u] = txPaid[u]
      BY <1>1, <3>4, <3>5
    <3> QED
      BY <3>2, <3>6, <3>7, Zenon
  <2>3. /\ txJob' \in TxJob /\ txJob'.tx = t /\ txJob'.do = "token"
        /\ Len(txJob'.left) = Len(txJob.left) - 1
    BY <1>0, <1>1, <2>1, Working DEF TxJob
  <2>4. t \notin txTorn => InWork(t)'
    <3> SUFFICES ASSUME t \notin txTorn PROVE InWork(t)'
      OBVIOUS
    <3>1. txPaid[t] = Granted(t) /\ Granted(t) + Len(txJob.left) = Asked(t)
      BY <1>0, Working DEF InWork
    <3>2. txPaid'[t] = Len(txTokens'[t])
          /\ Len(txTokens'[t]) + Len(txJob'.left) = Asked(t)
      BY <2>1, <2>2, <2>3, <3>1
    <3> QED
      BY <1>0, <2>3, <3>2 DEF InWork, Granted, Asked
  <2> QED
    BY <1>0, <2>2, <2>3, <2>4, WorkKeeps DEF TokensInv, TxTypes
<1>2. CASE txJob' = RollBack(t) /\ UNCHANGED <<txTokens, txPaid>>
  <2>1. /\ Reverse(txTokens[t]) \in Seq(TxPart)
        /\ Len(Reverse(txTokens[t])) = Granted(t)
    BY <1>0, Working, ReverseOfParts DEF Granted
  <2>2. /\ txJob' \in TxJob /\ txJob'.tx = t /\ txJob'.do = "undo tokens"
        /\ Len(txJob'.left) = Granted(t)
    BY <1>0, <1>2, <2>1, Working DEF TxJob, RollBack
  <2>3. t \notin txTorn => InWork(t)'
    BY <1>0, <1>2, <2>2, Working DEF InWork, Granted
  <2> QED
    BY <1>0, <1>2, <2>2, <2>3, WorkKeeps DEF TokensInv, TxTypes
<1> QED
  BY <1>1, <1>2 DEF TxRequestTokens, AddTxToken

(* One phase is over and the next begins.                                  *)
LEMMA PhaseKeeps ==
  ASSUME TokensInv, txJob # None, NEW do, NEW left \in Seq(TxPart),
         txJob' = [do |-> do, tx |-> txJob.tx, left |-> left],
         \/ /\ txJob.do = "lock" /\ do = "token" /\ left = txs[txJob.tx].spec.callers
         \/ /\ txJob.do = "undo tokens" /\ txJob.left = <<>> /\ do = "undo locks"
         \/ /\ txJob.do = "time out" /\ do = "time out tokens" /\ left = txTokens[txJob.tx],
         UNCHANGED <<txs, txLocks, txTokens, txTimers, txFired, txPaid, txTorn>>
  PROVE  TokensInv'
<1> DEFINE t == txJob.tx
<1>1. txJob' \in TxJob /\ txJob'.tx = t /\ txJob'.do = do /\ txJob'.left = left
  BY Working DEF TxJob
<1>2. t \notin txTorn => InWork(t)'
  <2> SUFFICES ASSUME t \notin txTorn PROVE InWork(t)'
    OBVIOUS
  <2>1. InWork(t) /\ txPaid[t] \in Int /\ Granted(t) \in Nat /\ Len(left) \in Nat
    BY Working, LengthOfParts DEF Granted
  <2>2. txJob.left = <<>> => Len(txJob.left) = 0
    BY Working, LengthOfParts
  <2>3. CASE txJob.do = "lock" /\ do = "token" /\ left = txs[t].spec.callers
    <3>1. txPaid[t] = 0 /\ Len(txTokens[t]) = 0
      BY <2>1, <2>3 DEF InWork, Granted
    <3>2. txPaid'[txJob'.tx] = 0 /\ Len(txTokens'[txJob'.tx]) = 0
          /\ Len(txJob'.left) = Len(txs'[txJob'.tx].spec.callers) /\ Len(txJob'.left) \in Nat
      BY <1>1, <2>1, <2>3, <3>1
    <3>3. txJob'.do = "token"
      BY <1>1, <2>3
    <3> QED
      BY <3>2, <3>3 DEF InWork, Granted, Asked
  <2>4. CASE txJob.do = "undo tokens" /\ txJob.left = <<>> /\ do = "undo locks"
    BY <1>1, <2>1, <2>2, <2>4 DEF InWork
  <2>5. CASE txJob.do = "time out" /\ do = "time out tokens" /\ left = txTokens[t]
    BY <1>1, <2>1, <2>5 DEF InWork, Granted
  <2> QED
    BY <2>3, <2>4, <2>5
<1> QED
  BY <1>1, <1>2, WorkKeeps DEF TokensInv, TxTypes

LEMMA LockedKeeps ==
  ASSUME TokensInv, TxLocked
  PROVE  TokensInv'
BY PhaseKeeps, Working DEF TxLocked, TxDoing, txTables, txHistory

LEMMA UndoLocksKeeps ==
  ASSUME TokensInv, TxUndoLocks
  PROVE  TokensInv'
<1>1. txJob # None
  BY DEF TxUndoLocks, TxDoing
<1>2. Reverse(txLocks[txJob.tx]) \in Seq(TxPart)
  BY <1>1, Working, ReverseOfParts
<1> QED
  BY <1>1, <1>2, PhaseKeeps DEF TxUndoLocks, TxDoing, txTables, txHistory

LEMMA TimeoutTokensKeeps ==
  ASSUME TokensInv, TxTimeoutTokens
  PROVE  TokensInv'
BY PhaseKeeps, Working DEF TxTimeoutTokens, TxDoing, txTables, txHistory

LEMMA ReturnTokensKeeps ==
  ASSUME TokensInv, TxReturnTokens
  PROVE  TokensInv'
<1> DEFINE t == txJob.tx
<1>0. /\ txJob # None /\ txJob.do \in {"undo tokens", "time out tokens"}
      /\ txJob.left # <<>>
      /\ txPaid' = [txPaid EXCEPT ![t] = @ - 1]
      /\ txJob' = [txJob EXCEPT !.left = Tail(@)]
      /\ UNCHANGED <<txs, txLocks, txTokens, txTimers, txFired, txTorn>>
  BY DEF TxReturnTokens, txTables
<1>1. Tail(txJob.left) \in Seq(TxPart) /\ Len(Tail(txJob.left)) = Len(txJob.left) - 1
  BY <1>0, Working, LengthOfParts
<1>2. /\ txPaid' \in [Txs -> Int] /\ txPaid'[t] = txPaid[t] - 1
      /\ \A u \in Txs : u # t => txPaid'[u] = txPaid[u]
  <2>1. t \in Txs /\ txPaid[t] \in Int
    BY <1>0, Working
  <2>2. txPaid \in [Txs -> Int]
    BY DEF TokensInv, TxTypes
  <2>3. txPaid[t] - 1 \in Int
    BY <2>1
  <2> HIDE DEF t
  <2> QED
    BY <1>0, <2>1, <2>2, <2>3
<1>3. /\ txJob' \in TxJob /\ txJob'.tx = t /\ txJob'.do = txJob.do
      /\ Len(txJob'.left) = Len(txJob.left) - 1
  BY <1>0, <1>1, Working DEF TxJob
<1>4. t \notin txTorn => InWork(t)'
  BY <1>0, <1>2, <1>3, Working DEF InWork
<1> QED
  BY <1>0, <1>2, <1>3, <1>4, WorkKeeps DEF TokensInv, TxTypes

LEMMA ReleaseLockKeeps ==
  ASSUME TokensInv, TxReleaseLock
  PROVE  TokensInv'
<1> DEFINE t == txJob.tx
<1>0. /\ txJob # None /\ txJob.do \in {"undo locks", "release", "time out"}
      /\ txJob.left # <<>>
      /\ txJob' = [txJob EXCEPT !.left = Tail(@)]
      /\ UNCHANGED <<txs, txLocks, txTokens, txTimers, txFired, txPaid, txTorn>>
  BY DEF TxReleaseLock, txTables, txHistory
<1>1. Tail(txJob.left) \in Seq(TxPart)
  BY <1>0, Working, LengthOfParts
<1>2. txJob' \in TxJob /\ txJob'.tx = t /\ txJob'.do = txJob.do
  BY <1>0, <1>1, Working DEF TxJob
<1>3. t \notin txTorn => InWork(t)'
  BY <1>0, <1>2, Working DEF InWork, Granted, Asked
<1> QED
  BY <1>0, <1>2, <1>3, WorkKeeps DEF TokensInv, TxTypes

-----------------------------------------------------------------------------
(* The end of a method: the last write is the transaction's status.        *)

LEMMA EndKeeps ==
  ASSUME TokensInv, txJob # None, NEW status \in TxStatus,
         txs' = [txs EXCEPT ![txJob.tx].status = status], txJob' = None,
         \/ status = "committed" /\ txJob.do = "token" /\ txJob.left = <<>>
         \/ status = "rolled_back" /\ txJob.do = "undo locks"
         \/ status = "released" /\ txJob.do = "release"
         \/ status = "timed_out" /\ txJob.do = "time out tokens" /\ txJob.left = <<>>,
         txTimers' \in SUBSET (txTimers \cup {txJob.tx}),
         UNCHANGED <<txLocks, txTokens, txFired, txPaid, txTorn>>
  PROVE  TokensInv'
<1> USE TxAssumption
<1>0. PICK t \in Txs : t = txJob.tx
  BY Working
<1>1. /\ txs[t] \in TxEntry
      /\ txs' \in [Txs -> TxEntry \cup {None}]
      /\ txs'[t].status = status /\ txs'[t].spec = txs[t].spec /\ txs'[t] \in TxEntry
      /\ \A u \in Txs : u # t => txs'[u] = txs[u]
  BY <1>0, Working DEF TokensInv, TxTypes, TxEntry
<1>2. KnownTxs' = KnownTxs /\ t \in KnownTxs
  <2>1. txs[t] # None /\ txs'[t] # None
    BY <1>1
  <2>2. \A u \in Txs : txs'[u] # None <=> txs[u] # None
    BY <1>1, <2>1
  <2> QED
    BY <2>1, <2>2 DEF KnownTxs
<1>3. TxTypes'
  BY <1>0, <1>1, <1>2 DEF TokensInv, TxTypes
<1>4. Accounted(t)'
  <2> SUFFICES ASSUME t \notin txTorn PROVE AtRest(t)'
    BY <1>0, <1>1 DEF Accounted, AtWork
  <2>1. InWork(t) /\ Granted(t) \in Nat
    BY <1>0, Working, LengthOfParts DEF Granted
  <2>2. txJob.left = <<>> => Len(txJob.left) = 0
    BY Working, LengthOfParts
  <2>3. CASE status = "committed" /\ txJob.do = "token" /\ txJob.left = <<>>
    <3>1. txPaid[t] = Granted(t) /\ Granted(t) = Asked(t)
      <4>1. Granted(t) + Len(txJob.left) = Asked(t) /\ txPaid[t] = Granted(t)
        BY <2>1, <2>3 DEF InWork
      <4> QED
        BY <2>1, <2>2, <2>3, <4>1
    <3> QED
      BY <1>1, <2>3, <3>1 DEF AtRest, Granted, Asked
  <2>4. CASE status = "rolled_back" /\ txJob.do = "undo locks"
    BY <1>1, <2>1, <2>4 DEF InWork, AtRest
  <2>5. CASE status = "released" /\ txJob.do = "release"
    BY <1>1, <2>1, <2>5 DEF InWork, AtRest, Asked
  <2>6. CASE status = "timed_out" /\ txJob.do = "time out tokens" /\ txJob.left = <<>>
    BY <1>1, <2>1, <2>2, <2>6 DEF InWork, AtRest
  <2> QED
    BY <2>3, <2>4, <2>5, <2>6
<1> QED
  BY <1>0, <1>1, <1>3, <1>4, OneAccounted DEF AtWork, TokensInv

LEMMA MethodEndsKeep ==
  ASSUME TokensInv, TxCommit \/ TxRolledBack \/ TxReleased \/ TxTimedOut
  PROVE  TokensInv'
<1>1. CASE TxCommit
  BY <1>1, EndKeeps DEF TxCommit, TxRow, TxDoing, TxStatus, txHistory
<1>2. CASE TxRolledBack
  BY <1>2, EndKeeps DEF TxRolledBack, TxRow, TxDoing, TxStatus, txHistory
<1>3. CASE TxReleased
  BY <1>3, EndKeeps DEF TxReleased, TxRow, TxDoing, TxStatus, txHistory
<1>4. CASE TxTimedOut
  BY <1>4, EndKeeps DEF TxTimedOut, TxRow, TxDoing, TxStatus, txHistory
<1> QED
  BY <1>1, <1>2, <1>3, <1>4

-----------------------------------------------------------------------------
(* Time, crashes, and the whole *)

LEMMA CrashKeeps ==
  ASSUME TokensInv, TxCrash
  PROVE  TokensInv'
<1>1. /\ txJob' = None /\ txTimers' = {} /\ txFired' = {}
      /\ UNCHANGED <<txs, txLocks, txTokens, txPaid>>
      /\ \A t \in Txs : t \notin txTorn' => t \notin txTorn /\ ~AtWork(t)
  BY DEF TxCrash, txTables, AtWork
<1>2. TxTypes'
  BY <1>1 DEF TokensInv, TxTypes
<1>3. ASSUME NEW t \in Txs
      PROVE  Accounted(t)'
  BY <1>1 DEF TokensInv, Accounted, AtRest, AtWork, Asked, Granted
<1> QED
  BY <1>2, <1>3 DEF TokensInv

LEMMA StartKeeps ==
  ASSUME TokensInv, TxStart
  PROVE  TokensInv'
<1>1. ListActiveOrchTxs \subseteq KnownTxs
  BY DEF ListActiveOrchTxs, KnownTxs
<1> QED
  BY <1>1, StutterKeeps DEF TxStart, txTables, txHistory

LEMMA TokensStep ==
  ASSUME TokensInv, [TxNext]_txVars
  PROVE  TokensInv'
<1>1. CASE UNCHANGED txVars
  BY <1>1, StutterKeeps DEF txVars, txTables, txMemory, txHistory, TokensInv, TxTypes
<1>2. CASE TxSteps
  BY <1>2, AcquireKeeps, LockedKeeps, RequestTokensKeeps, ReturnTokensKeeps, UndoLocksKeeps,
     ReleaseLockKeeps, TimeoutTokensKeeps, MethodEndsKeep DEF TxSteps
<1>3. CASE TxCrash \/ TxStart
  BY <1>3, CrashKeeps, StartKeeps
<1>4. ASSUME NEW t \in Txs, NEW spec \in TxSpecs, CreateTx(t, spec)
      PROVE  TokensInv'
  BY <1>4, CreateKeeps
<1>5. ASSUME NEW t \in Txs, ReleaseTx(t) \/ TimeoutTx(t)
      PROVE  TokensInv'
  BY <1>5, ReleaseKeeps, TimeoutKeeps
<1>6. ASSUME NEW t \in Txs, TxTimerFires(t) \/ TxExpires(t)
      PROVE  TokensInv'
  BY <1>6, StutterKeeps
     DEF TxTimerFires, TxExpires, txTables, txMemory, txHistory, TokensInv, TxTypes
<1> QED
  BY <1>1, <1>2, <1>3, <1>4, <1>5, <1>6 DEF TxNext

(* However release, timeout and restart race, and whichever call fails: a  *)
(* rolled back or timed out transaction has returned all its tokens, and   *)
(* none twice; a crash inside one of its methods alone can break it.       *)
THEOREM TokensCorrect == TxSpec => []TokensComeBackOnce
<1>1. TxInit => TokensInv
  BY TxAssumption DEF TxInit, TokensInv, TxTypes, KnownTxs, Accounted
<1>2. TokensInv /\ [TxNext]_txVars => TokensInv'
  BY TokensStep
<1>3. TokensInv => TokensComeBackOnce
  BY DEF TokensInv, Accounted, AtRest, AtWork, Asked, TokensComeBackOnce
<1> QED
  BY <1>1, <1>2, <1>3, PTL DEF TxSpec

-----------------------------------------------------------------------------
(* Cascades *)

LockRow == [holder : Holders \cup {None}, count : Int, reentrant : BOOLEAN]
WaitEntry == [holder : Holders, reentrant : BOOLEAN]

LockTypes ==
  /\ lockRow \in [Locks -> LockRow]
  /\ lockQueue \in [Locks -> Seq(WaitEntry)]

CascadeTypes == topoJobs \in [CascadeHolders -> AcquireJob \cup ReleaseJob \cup {None}]

(* Everybody else at the lock manager, transactions included               *)
OtherUse ==
  \E l \in Locks, h \in Holders \ CascadeHolders :
    \/ \E answer \in {"acquired", "again", "queued", "deadlock", "error", "rejected"},
          reentrant \in BOOLEAN : Acquire(l, h, reentrant, answer)
    \/ Release(l, h) \/ CancelWaits(h)

(* Cascades along any orders: what the graph makes of them does not matter *)
(* to what they give back.                                                 *)
AnyCascade ==
  \E h \in CascadeHolders :
    \/ \E order \in Seq(Nodes), reentrant \in BOOLEAN : BeginAcquire(h, order, reentrant)
    \/ \E order \in Seq(Nodes) : BeginRelease(h, order)
    \/ CascadeSteps(h)

CascadeNext ==
  \/ AnyCascade
  \/ (LeasesNext \/ OtherUse) /\ UNCHANGED topoJobs

cascadeVars == <<lockVars, topoJobs>>
CascadeSpec ==
  /\ LocksInit /\ topoJobs = [h \in CascadeHolders |-> None]
  /\ [][CascadeNext]_cascadeVars

PaidItems(got) == {i \in 1..Len(got) : got[i].paid}

(* What h may hold by job, a call of CascadeAcquire: what it had before or *)
(* waits for; and what is still to be undone.                              *)
Allowed(job) == job.held \cup job.waits \cup job.queuedFor
ToUndo(job, l) ==
  /\ \E i \in 1..Len(job.got) : LockOf[job.got[i].node] = l
  /\ ~(lockRow[l].reentrant /\ lockRow[l].count > 1)

TakenByJob(h, job) ==
  /\ WaitsOf(h) \subseteq job.waits \cup job.queuedFor
  /\ \A l \in HeldBy(h) : l \in Allowed(job) \/ ToUndo(job, l)
  /\ job.do \in {"lock", "tokens"} => job.queuedFor = {}
  /\ \A i \in 1..Len(job.got) : ~job.got[i].wasHeld

PaidByJob(job) ==
  /\ job.paid = Cardinality(PaidItems(job.got))
  /\ job.do = "tokens" => job.got # <<>> /\ ~job.got[Len(job.got)].paid
  /\ job.do = "rolled_back" => job.got = <<>>

JobAccounted(h, job) ==
  job \in AcquireJob /\ job.do # "done" =>
    /\ PaidByJob(job)
    /\ ~job.reentrant => TakenByJob(h, job)

CascadeInv ==
  /\ LockTypes /\ CascadeTypes
  /\ \A h \in CascadeHolders : JobAccounted(h, topoJobs[h])

(* The lock manager's steps, for a holder that does not take them: it      *)
(* waits for no other lock, and holds none that it has not waited for.     *)
Gentle(h) ==
  /\ WaitsOf(h)' \subseteq WaitsOf(h)
  /\ \A l \in HeldBy(h)' : \/ l \in HeldBy(h) /\ lockRow'[l] = lockRow[l]
                           \/ l \in WaitsOf(h)

LEMMA QueueCut ==
  ASSUME NEW q \in Seq(WaitEntry), NEW n \in 1..Len(q)
  PROVE  /\ SubSeq(q, n + 1, Len(q)) \in Seq(WaitEntry)
         /\ \A i \in DOMAIN SubSeq(q, n + 1, Len(q)) :
              \E j \in DOMAIN q : SubSeq(q, n + 1, Len(q))[i] = q[j]
         /\ RemoveAt(q, n) \in Seq(WaitEntry)
         /\ \A i \in DOMAIN RemoveAt(q, n) : \E j \in DOMAIN q : RemoveAt(q, n)[i] = q[j]
<1>1. PICK s, t : s = SubSeq(q, 1, n - 1) /\ t = SubSeq(q, n + 1, Len(q))
  OBVIOUS
<1>2. /\ s \in Seq(WaitEntry) /\ Len(s) = n - 1 /\ DOMAIN s = 1..(n - 1)
      /\ \A i \in 1..(n - 1) : s[i] = q[i]
  BY <1>1
<1>3. /\ t \in Seq(WaitEntry) /\ Len(t) = Len(q) - n /\ DOMAIN t = 1..(Len(q) - n)
      /\ \A i \in 1..(Len(q) - n) : t[i] = q[n + i]
  BY <1>1
<1>4. RemoveAt(q, n) = s \o t
  BY <1>1, Zenon DEF RemoveAt
<1>5. DOMAIN q = 1..Len(q) /\ Len(q) \in Nat /\ n \in Nat /\ n <= Len(q)
  OBVIOUS
<1>6. /\ s \o t \in Seq(WaitEntry) /\ DOMAIN (s \o t) = 1..(Len(q) - 1)
      /\ \A i \in 1..(Len(q) - 1) : (s \o t)[i] = IF i < n THEN q[i] ELSE q[i + 1]
  BY <1>2, <1>3, <1>5
<1>7. \A i \in 1..(Len(q) - 1) : \E j \in DOMAIN q : (s \o t)[i] = q[j]
  <2> TAKE i \in 1..(Len(q) - 1)
  <2>1. i \in DOMAIN q /\ i + 1 \in DOMAIN q
    BY <1>5
  <2> QED
    BY <1>6, <2>1
<1>8. \A i \in 1..(Len(q) - n) : n + i \in DOMAIN q
  BY <1>5
<1> QED
  BY <1>1, <1>3, <1>4, <1>6, <1>7, <1>8

LEMMA QueuesCut ==
  ASSUME LockTypes, lockQueue' \in [Locks -> Seq(WaitEntry)], lockRow' = lockRow,
         \A l \in Locks : \A i \in DOMAIN lockQueue'[l] :
           \E j \in DOMAIN lockQueue[l] : lockQueue'[l][i] = lockQueue[l][j]
  PROVE  LockTypes' /\ \A h \in Holders : Gentle(h)
<1>1. \A l \in Locks, h \in Holders : Queued(l, h)' => Queued(l, h)
  BY DEF Queued
<1> QED
  BY <1>1 DEF LockTypes, Gentle, WaitsOf, HeldBy

LEMMA WithoutCuts ==
  ASSUME LockTypes, NEW l \in Locks, NEW h
  PROVE  /\ Without(l, h) \in Seq(WaitEntry)
         /\ \A i \in DOMAIN Without(l, h) :
              \E j \in DOMAIN lockQueue[l] : Without(l, h)[i] = lockQueue[l][j]
<1>1. PICK q \in Seq(WaitEntry) : q = lockQueue[l]
  BY DEF LockTypes
<1>2. CASE Queued(l, h)
  <2>1. \E i \in DOMAIN q : q[i].holder = h
    BY <1>1, <1>2 DEF Queued
  <2>2. PICK n : n = CHOOSE i \in DOMAIN q : q[i].holder = h
    OBVIOUS
  <2>3. n \in DOMAIN q
    BY <2>1, <2>2
  <2>4. n \in 1..Len(q)
    BY <2>3
  <2>5. Without(l, h) = RemoveAt(q, n)
    BY <1>1, <1>2, <2>2 DEF Without
  <2> QED
    BY <1>1, <2>4, <2>5, QueueCut
<1>3. CASE ~Queued(l, h)
  BY <1>1, <1>3 DEF Without
<1> QED
  BY <1>2, <1>3

LEMMA WaitsEnd ==
  ASSUME LockTypes, NEW k,
         CancelWaits(k) \/ \E l \in Locks : WaitTimesOut(l, k)
  PROVE  LockTypes' /\ \A h \in Holders : Gentle(h)
<1>1. CASE CancelWaits(k)
  <2>1. lockQueue' = [l \in Locks |-> Without(l, k)] /\ lockRow' = lockRow
    BY <1>1 DEF CancelWaits
  <2>2. lockQueue' \in [Locks -> Seq(WaitEntry)]
    BY <2>1, WithoutCuts
  <2>3. \A l \in Locks : lockQueue'[l] = Without(l, k)
    BY <2>1
  <2>4. \A l \in Locks : \A i \in DOMAIN lockQueue'[l] :
          \E j \in DOMAIN lockQueue[l] : lockQueue'[l][i] = lockQueue[l][j]
    BY <2>3, WithoutCuts
  <2> QED
    BY <2>1, <2>2, <2>4, QueuesCut
<1>2. ASSUME NEW l \in Locks, WaitTimesOut(l, k)
      PROVE  LockTypes' /\ \A h \in Holders : Gentle(h)
  <2>1. PICK q : q = Without(l, k)
    OBVIOUS
  <2>2. lockQueue' = [lockQueue EXCEPT ![l] = q] /\ lockRow' = lockRow
    BY <1>2, <2>1 DEF WaitTimesOut
  <2>3. /\ q \in Seq(WaitEntry)
        /\ \A i \in DOMAIN q : \E j \in DOMAIN lockQueue[l] : q[i] = lockQueue[l][j]
    BY <2>1, WithoutCuts
  <2>4. lockQueue' \in [Locks -> Seq(WaitEntry)]
    BY <2>2, <2>3 DEF LockTypes
  <2>5. \A m \in Locks : lockQueue'[m] = IF m = l THEN q ELSE lockQueue[m]
    BY <2>2 DEF LockTypes
  <2>6. \A m \in Locks : \A i \in DOMAIN lockQueue'[m] :
          \E j \in DOMAIN lockQueue[m] : lockQueue'[m][i] = lockQueue[m][j]
    BY <2>3, <2>5
  <2> QED
    BY <2>2, <2>4, <2>6, QueuesCut
<1> QED
  BY <1>1, <1>2

LEMMA GrantsAreWaitedFor ==
  ASSUME LockTypes, NEW l \in Locks, FreeAndGrant(l)
  PROVE  LockTypes' /\ \A h \in Holders : Gentle(h) /\ (l \in HeldBy(h)' => l \in WaitsOf(h))
<1>1. lockQueue[l] \in Seq(WaitEntry)
  BY DEF LockTypes
<1>2. CASE /\ lockRow' = [lockRow EXCEPT ![l] = FreeLock]
           /\ lockQueue' = [lockQueue EXCEPT ![l] = <<>>]
  <2>1. FreeLock \in LockRow /\ FreeLock.holder = None
    BY DEF FreeLock, LockRow
  <2>2. LockTypes'
    BY <1>2, <2>1 DEF LockTypes
  <2>3. \A m \in Locks : m # l => lockRow'[m] = lockRow[m] /\ lockQueue'[m] = lockQueue[m]
    BY <1>2 DEF LockTypes
  <2>4. lockRow'[l] = FreeLock /\ lockQueue'[l] = <<>>
    BY <1>2 DEF LockTypes
  <2>5. \A h \in Holders : l \notin HeldBy(h)' /\ ~Queued(l, h)'
    BY <2>1, <2>4, CascadeAssumption DEF HeldBy, Queued
  <2> QED
    BY <2>2, <2>3, <2>5 DEF Gentle, HeldBy, WaitsOf, Queued
<1>3. ASSUME NEW n \in DOMAIN lockQueue[l],
             lockRow' = [lockRow EXCEPT ![l] =
               [holder |-> lockQueue[l][n].holder, count |-> 1,
                reentrant |-> lockQueue[l][n].reentrant]],
             lockQueue' = [lockQueue EXCEPT ![l] = SubSeq(@, n + 1, Len(@))]
      PROVE  LockTypes' /\ \A h \in Holders : Gentle(h) /\ (l \in HeldBy(h)' => l \in WaitsOf(h))
  <2>1. PICK q \in Seq(WaitEntry) : q = lockQueue[l]
    BY <1>1
  <2>2. n \in 1..Len(q) /\ q[n] \in WaitEntry
    BY <1>3, <2>1
  <2>3. PICK row : row = [holder |-> q[n].holder, count |-> 1, reentrant |-> q[n].reentrant]
    OBVIOUS
  <2>4. row \in LockRow /\ row.holder = q[n].holder
    BY <2>2, <2>3 DEF LockRow, WaitEntry
  <2>5. PICK rest : rest = SubSeq(q, n + 1, Len(q))
    OBVIOUS
  <2>6. rest \in Seq(WaitEntry) /\ \A i \in DOMAIN rest : \E j \in DOMAIN q : rest[i] = q[j]
    BY <2>2, <2>5, QueueCut
  <2>7. /\ lockRow' = [lockRow EXCEPT ![l] = row]
        /\ lockQueue' = [lockQueue EXCEPT ![l] = rest]
    BY <1>3, <2>1, <2>3, <2>5
  <2>8. LockTypes'
    BY <2>4, <2>6, <2>7 DEF LockTypes
  <2>9. \A m \in Locks : m # l => lockRow'[m] = lockRow[m] /\ lockQueue'[m] = lockQueue[m]
    BY <2>7 DEF LockTypes
  <2>10. lockRow'[l] = row /\ lockQueue'[l] = rest
    BY <2>7 DEF LockTypes
  <2>11. ASSUME NEW h \in Holders, Queued(l, h)' \/ l \in HeldBy(h)'
         PROVE  l \in WaitsOf(h)
    <3>1. CASE Queued(l, h)'
      BY <2>1, <2>6, <2>10, <3>1 DEF Queued, WaitsOf
    <3>2. CASE l \in HeldBy(h)'
      BY <1>3, <2>1, <2>4, <2>10, <3>2 DEF HeldBy, Queued, WaitsOf
    <3> QED
      BY <2>11, <3>1, <3>2
  <2> QED
    BY <2>8, <2>9, <2>11 DEF Gentle, HeldBy, WaitsOf, Queued
<1> QED
  BY <1>2, <1>3 DEF FreeAndGrant

(* What a call of AcquireLock does to the caller, and to everybody else    *)
AcquireDid(l, k, reentrant, answer) ==
  /\ LockTypes'
  /\ \A h \in Holders : h # k => Gentle(h)
  /\ WaitsOf(k)' \subseteq WaitsOf(k) \cup (IF answer = "queued" THEN {l} ELSE {})
  /\ answer = "again" => reentrant
  /\ \A m \in HeldBy(k)' :
       \/ m \in HeldBy(k) /\ lockRow'[m] = lockRow[m]
       \/ answer = "acquired" /\ m = l /\ lockRow'[m].count = 1
       \/ answer = "again"

LEMMA AcquireEffect ==
  ASSUME LockTypes, NEW l \in Locks, NEW k \in Holders, NEW reentrant \in BOOLEAN, NEW answer,
         Acquire(l, k, reentrant, answer)
  PROVE  AcquireDid(l, k, reentrant, answer)
<1>1. ASSUME NEW row \in LockRow, row.holder = k, lockRow' = [lockRow EXCEPT ![l] = row],
             UNCHANGED lockQueue,
             \/ answer = "acquired" /\ row.count = 1
             \/ answer = "again" /\ reentrant
      PROVE  AcquireDid(l, k, reentrant, answer)
  <2>1. LockTypes'
    BY <1>1 DEF LockTypes
  <2>2. \A m \in Locks : lockRow'[m] = IF m = l THEN row ELSE lockRow[m]
    BY <1>1 DEF LockTypes
  <2>3. \A h \in Holders : WaitsOf(h)' = WaitsOf(h)
    BY <1>1 DEF WaitsOf, Queued
  <2>4. \A h \in Holders : h # k => Gentle(h)
    BY <1>1, <2>2, <2>3 DEF Gentle, HeldBy
  <2>5. \A m \in HeldBy(k)' : \/ m \in HeldBy(k) /\ lockRow'[m] = lockRow[m]
                              \/ m = l /\ lockRow'[m] = row
    BY <2>2 DEF HeldBy
  <2> QED
    BY <1>1, <2>1, <2>3, <2>4, <2>5 DEF AcquireDid
<1>2. ASSUME answer # "again", answer # "acquired", UNCHANGED lockRow,
             NEW q \in Seq(WaitEntry), lockQueue' = [lockQueue EXCEPT ![l] = q],
             \A h \in Holders : (\E i \in DOMAIN q : q[i].holder = h)
               => Queued(l, h) \/ (h = k /\ answer = "queued")
      PROVE  AcquireDid(l, k, reentrant, answer)
  <2>1. LockTypes'
    BY <1>2 DEF LockTypes
  <2>2. \A m \in Locks : lockQueue'[m] = IF m = l THEN q ELSE lockQueue[m]
    BY <1>2 DEF LockTypes
  <2>3. \A m \in Locks, h \in Holders :
          Queued(m, h)' => Queued(m, h) \/ (m = l /\ h = k /\ answer = "queued")
    BY <1>2, <2>2 DEF Queued
  <2>4. \A h \in Holders : HeldBy(h)' = HeldBy(h)
    BY <1>2 DEF HeldBy
  <2>5. \A h \in Holders : h # k => WaitsOf(h)' \subseteq WaitsOf(h)
    BY <2>3 DEF WaitsOf
  <2>6. WaitsOf(k)' \subseteq WaitsOf(k) \cup (IF answer = "queued" THEN {l} ELSE {})
    BY <2>3 DEF WaitsOf
  <2> QED
    BY <1>2, <2>1, <2>4, <2>5, <2>6 DEF AcquireDid, Gentle
<1>3. CASE /\ answer = "acquired" /\ lockRow[l].holder = None
           /\ lockRow' = [lockRow EXCEPT ![l] =
                            [holder |-> k, count |-> 1, reentrant |-> reentrant]]
           /\ UNCHANGED lockQueue
  <2>1. PICK row : row = [holder |-> k, count |-> 1, reentrant |-> reentrant]
    OBVIOUS
  <2>2. row \in LockRow /\ row.holder = k /\ row.count = 1
    BY <2>1 DEF LockRow
  <2>3. lockRow' = [lockRow EXCEPT ![l] = row]
    BY <1>3, <2>1
  <2>4. UNCHANGED lockQueue /\ answer = "acquired"
    BY <1>3
  <2> QED
    BY <1>1, <2>2, <2>3, <2>4
<1>4. CASE /\ answer = "again" /\ lockRow[l].holder = k
           /\ lockRow[l].reentrant /\ reentrant /\ lockRow[l].count < MaxCount
           /\ lockRow' = [lockRow EXCEPT ![l].count = @ + 1]
           /\ UNCHANGED lockQueue
  <2>0. PICK old \in LockRow : old = lockRow[l]
    BY DEF LockTypes
  <2>1. PICK row : row = [old EXCEPT !.count = @ + 1]
    OBVIOUS
  <2>2. row \in LockRow /\ row.holder = k
    BY <1>4, <2>0, <2>1 DEF LockRow
  <2>3. lockRow' = [lockRow EXCEPT ![l] = row]
    BY <1>4, <2>0, <2>1
  <2>4. UNCHANGED lockQueue /\ answer = "again" /\ reentrant
    BY <1>4
  <2> QED
    BY <1>1, <2>2, <2>3, <2>4
<1>5. CASE /\ answer = "queued"
           /\ lockQueue' = [lockQueue EXCEPT ![l] = Append(@, Waiter(k, reentrant))]
           /\ UNCHANGED lockRow
  <2>1. PICK p \in Seq(WaitEntry) : p = lockQueue[l]
    BY DEF LockTypes
  <2>2. PICK w \in WaitEntry : w = Waiter(k, reentrant)
    BY DEF Waiter, WaitEntry
  <2>3. w.holder = k
    BY <2>2 DEF Waiter
  <2>4. PICK q : q = Append(p, w)
    OBVIOUS
  <2>5. /\ q \in Seq(WaitEntry) /\ DOMAIN q = 1..(Len(p) + 1)
        /\ \A i \in 1..(Len(p) + 1) : q[i] = IF i = Len(p) + 1 THEN w ELSE p[i]
    BY <2>4
  <2>6. DOMAIN p = 1..Len(p) /\ Len(p) \in Nat
    OBVIOUS
  <2>7. \A h \in Holders : (\E i \in DOMAIN q : q[i].holder = h)
          => Queued(l, h) \/ (h = k /\ answer = "queued")
    BY <1>5, <2>1, <2>3, <2>5, <2>6 DEF Queued
  <2>8. lockQueue' = [lockQueue EXCEPT ![l] = q]
    BY <1>5, <2>1, <2>2, <2>4
  <2>9. answer # "again" /\ answer # "acquired" /\ UNCHANGED lockRow
    BY <1>5
  <2> QED
    BY <1>2, <2>5, <2>7, <2>8, <2>9
<1>6. CASE answer \in {"deadlock", "error", "rejected"} /\ UNCHANGED lockVars
  <2>1. LockTypes'
    BY <1>6 DEF lockVars, LockTypes
  <2>2. \A h \in Holders : WaitsOf(h)' = WaitsOf(h) /\ HeldBy(h)' = HeldBy(h)
    BY <1>6 DEF lockVars, WaitsOf, Queued, HeldBy
  <2>3. lockRow' = lockRow
    BY <1>6 DEF lockVars
  <2> QED
    BY <1>6, <2>1, <2>2, <2>3 DEF AcquireDid, Gentle
<1> QED
  BY <1>3, <1>4, <1>5, <1>6 DEF Acquire

(* A holder that releases a lock keeps it only with one level less, or     *)
(* gets it again because it waits for it as well.                          *)
LEMMA ReleaseEffect ==
  ASSUME LockTypes, NEW l \in Locks, NEW k \in Holders, Release(l, k)
  PROVE  /\ LockTypes'
         /\ \A h \in Holders : h # k => Gentle(h)
         /\ WaitsOf(k)' \subseteq WaitsOf(k)
         /\ \A m \in HeldBy(k)' :
              \/ m # l /\ m \in HeldBy(k) /\ lockRow'[m] = lockRow[m]
              \/ m = l /\ m \in HeldBy(k) /\ lockRow[m].reentrant /\ lockRow[m].count > 1
              \/ m \in WaitsOf(k)
<1>1. CASE lockRow[l].holder # k /\ UNCHANGED lockVars
  <2>1. LockTypes'
    BY <1>1 DEF lockVars, LockTypes
  <2>2. \A h \in Holders : WaitsOf(h)' = WaitsOf(h) /\ HeldBy(h)' = HeldBy(h)
    BY <1>1 DEF lockVars, WaitsOf, Queued, HeldBy
  <2>3. lockRow' = lockRow /\ l \notin HeldBy(k)
    BY <1>1 DEF lockVars, HeldBy
  <2> QED
    BY <2>1, <2>2, <2>3 DEF Gentle
<1>2. CASE /\ lockRow[l].holder = k /\ lockRow[l].reentrant /\ lockRow[l].count > 1
           /\ lockRow' = [lockRow EXCEPT ![l].count = @ - 1]
           /\ UNCHANGED lockQueue
  <2>0. PICK old \in LockRow : old = lockRow[l]
    BY DEF LockTypes
  <2>1. PICK row : row = [old EXCEPT !.count = @ - 1]
    OBVIOUS
  <2>2. row \in LockRow /\ row.holder = k
    BY <1>2, <2>0, <2>1 DEF LockRow
  <2>3. lockRow' = [lockRow EXCEPT ![l] = row]
    BY <1>2, <2>0, <2>1
  <2>4. \A m \in Locks : lockRow'[m] = IF m = l THEN row ELSE lockRow[m]
    BY <2>3 DEF LockTypes
  <2>5. LockTypes'
    BY <1>2, <2>2, <2>3 DEF LockTypes
  <2>6. \A h \in Holders : WaitsOf(h)' = WaitsOf(h)
    BY <1>2 DEF WaitsOf, Queued
  <2>7. \A h \in Holders : h # k => Gentle(h)
    BY <2>2, <2>4, <2>6 DEF Gentle, HeldBy
  <2> QED
    BY <1>2, <2>4, <2>5, <2>6, <2>7 DEF HeldBy
<1>3. CASE FreeAndGrant(l)
  BY <1>3, GrantsAreWaitedFor DEF Gentle
<1> QED
  BY <1>1, <1>2, <1>3 DEF Release

(* A step of the lock manager that is none of a cascade's                  *)
LEMMA OthersAreGentle ==
  ASSUME LockTypes, LeasesNext \/ OtherUse
  PROVE  LockTypes' /\ \A h \in CascadeHolders : Gentle(h)
<1> USE CascadeAssumption
<1>1. ASSUME NEW l \in Locks, LeaseEnds(l)
      PROVE  LockTypes' /\ \A h \in CascadeHolders : Gentle(h)
  BY <1>1, GrantsAreWaitedFor DEF LeaseEnds
<1>2. ASSUME NEW l \in Locks, NEW k \in Holders, WaitTimesOut(l, k)
      PROVE  LockTypes' /\ \A h \in CascadeHolders : Gentle(h)
  BY <1>2, WaitsEnd
<1>3. ASSUME NEW l \in Locks, NEW k \in Holders \ CascadeHolders,
             NEW answer, NEW reentrant \in BOOLEAN, Acquire(l, k, reentrant, answer)
      PROVE  LockTypes' /\ \A h \in CascadeHolders : Gentle(h)
  BY <1>3, AcquireEffect DEF AcquireDid
<1>4. ASSUME NEW l \in Locks, NEW k \in Holders \ CascadeHolders, Release(l, k)
      PROVE  LockTypes' /\ \A h \in CascadeHolders : Gentle(h)
  BY <1>4, ReleaseEffect
<1>5. ASSUME NEW k, CancelWaits(k)
      PROVE  LockTypes' /\ \A h \in CascadeHolders : Gentle(h)
  BY <1>5, WaitsEnd
<1> QED
  BY <1>1, <1>2, <1>3, <1>4, <1>5 DEF LeasesNext, OtherUse

(* Whoever takes gentle steps, a call stays accounted.                     *)
LEMMA GentleKeeps ==
  ASSUME NEW h \in Holders, NEW job, JobAccounted(h, job), Gentle(h)
  PROVE  JobAccounted(h, job)'
<1> SUFFICES ASSUME job \in AcquireJob, job.do # "done", ~job.reentrant
             PROVE  TakenByJob(h, job)'
  BY DEF JobAccounted, PaidByJob, PaidItems
<1>1. TakenByJob(h, job)
  BY DEF JobAccounted
<1>2. WaitsOf(h)' \subseteq job.waits \cup job.queuedFor
  BY <1>1 DEF TakenByJob, Gentle
<1>3. ASSUME NEW l \in HeldBy(h)'
      PROVE  l \in Allowed(job) \/ ToUndo(job, l)'
  <2>1. CASE l \in HeldBy(h) /\ lockRow'[l] = lockRow[l]
    BY <1>1, <2>1 DEF TakenByJob, ToUndo
  <2>2. CASE l \in WaitsOf(h)
    BY <1>1, <2>2 DEF TakenByJob, Allowed
  <2> QED
    BY <1>3, <2>1, <2>2 DEF Gentle
<1> QED
  BY <1>1, <1>2, <1>3 DEF TakenByJob, Allowed

-----------------------------------------------------------------------------
(* What a cascade has paid for *)

LEMMA PaidFinite ==
  ASSUME NEW got \in Seq(Item)
  PROVE  IsFiniteSet(PaidItems(got)) /\ Cardinality(PaidItems(got)) \in Nat
<1>1. IsFiniteSet(1..Len(got)) /\ PaidItems(got) \subseteq 1..Len(got)
  BY FS_Interval DEF PaidItems
<1> QED
  BY <1>1, FS_Subset, FS_CardinalityType

LEMMA ItemAppended ==
  ASSUME NEW got \in Seq(Item), NEW x \in Item, ~x.paid
  PROVE  /\ Append(got, x) \in Seq(Item) /\ Append(got, x) # <<>>
         /\ Len(Append(got, x)) = Len(got) + 1
         /\ \A i \in 1..Len(got) : Append(got, x)[i] = got[i]
         /\ Append(got, x)[Len(got) + 1] = x
         /\ PaidItems(Append(got, x)) = PaidItems(got)
<1>1. PICK s : s = Append(got, x)
  OBVIOUS
<1>2. /\ s \in Seq(Item) /\ Len(s) = Len(got) + 1 /\ s # <<>>
      /\ \A i \in 1..Len(got) : s[i] = got[i]
      /\ s[Len(got) + 1] = x /\ Len(got) \in Nat
  BY <1>1
<1>3. PaidItems(s) = PaidItems(got)
  BY <1>2 DEF PaidItems
<1> QED
  BY <1>1, <1>2, <1>3

LEMMA ItemReplaced ==
  ASSUME NEW got \in Seq(Item), NEW n \in 1..Len(got), NEW y \in Item,
         NEW s, s = [got EXCEPT ![n] = y]
  PROVE  /\ s \in Seq(Item) /\ Len(s) = Len(got)
         /\ \A i \in 1..Len(got) : s[i] = IF i = n THEN y ELSE got[i]
BY ExceptSeq

LEMMA LastPaid ==
  ASSUME NEW got \in Seq(Item), got # <<>>, ~got[Len(got)].paid
  PROVE  \E s \in Seq(Item) :
           /\ s = [got EXCEPT ![Len(got)].paid = TRUE] /\ Len(s) = Len(got)
           /\ \A i \in 1..Len(got) : s[i].node = got[i].node /\ s[i].wasHeld = got[i].wasHeld
           /\ Cardinality(PaidItems(s)) = Cardinality(PaidItems(got)) + 1
<1>1. PICK n \in 1..Len(got) : n = Len(got)
  OBVIOUS
<1>2. PICK x \in Item : x = got[n]
  OBVIOUS
<1>3. PICK y \in Item : y = [x EXCEPT !.paid = TRUE]
  BY DEF Item
<1>4. y.paid /\ y.node = x.node /\ y.wasHeld = x.wasHeld
  BY <1>3 DEF Item
<1>5. PICK s : s = [got EXCEPT ![n] = y]
  OBVIOUS
<1>6. /\ s \in Seq(Item) /\ Len(s) = Len(got)
      /\ \A i \in 1..Len(got) : s[i] = IF i = n THEN y ELSE got[i]
  BY <1>5, ItemReplaced
<1>7. PaidItems(s) = PaidItems(got) \cup {n} /\ n \notin PaidItems(got)
  BY <1>1, <1>4, <1>6 DEF PaidItems
<1>8. Cardinality(PaidItems(s)) = Cardinality(PaidItems(got)) + 1
  BY <1>7, PaidFinite, FS_AddElement
<1>9. s = [got EXCEPT ![Len(got)].paid = TRUE]
  BY <1>1, <1>2, <1>3, <1>5
<1> QED
  BY <1>2, <1>4, <1>6, <1>8, <1>9

LEMMA LastUndone ==
  ASSUME NEW got \in Seq(Item), got # <<>>
  PROVE  /\ Front(got) \in Seq(Item) /\ Len(Front(got)) = Len(got) - 1
         /\ \A i \in 1..(Len(got) - 1) : Front(got)[i] = got[i]
         /\ Last(got) = got[Len(got)] /\ Last(got) \in Item
         /\ Cardinality(PaidItems(Front(got)))
              = Cardinality(PaidItems(got)) - (IF Last(got).paid THEN 1 ELSE 0)
<1>1. PICK s : s = Front(got)
  OBVIOUS
<1>2. Len(got) \in Nat \ {0}
  OBVIOUS
<1>3. s = SubSeq(got, 1, Len(got) - 1)
  BY <1>1 DEF Front
<1>4. /\ s \in Seq(Item) /\ Len(s) = Len(got) - 1
      /\ \A i \in 1..(Len(got) - 1) : s[i] = got[i]
  <2>1. PICK n \in Nat : n = Len(got) - 1
    BY <1>2
  <2>2. \A i \in 1..n : got[i] \in Item
    BY <2>1
  <2>3. s = SubSeq(got, 1, n)
    BY <1>3, <2>1
  <2> QED
    BY <2>1, <2>2, <2>3, SubSeqProperties
<1>5. Last(got) = got[Len(got)] /\ Last(got) \in Item
  BY <1>2 DEF Last
<1>6. PaidItems(s) = PaidItems(got) \ {Len(got)}
  BY <1>2, <1>4 DEF PaidItems
<1>7. Len(got) \in PaidItems(got) <=> Last(got).paid
  BY <1>2, <1>5 DEF PaidItems
<1>8. Cardinality(PaidItems(s)) = Cardinality(PaidItems(got)) - (IF Last(got).paid THEN 1 ELSE 0)
  <2>1. CASE Last(got).paid
    BY <1>6, <1>7, <2>1, PaidFinite, FS_RemoveElement
  <2>2. CASE ~Last(got).paid
    <3>1. PaidItems(s) = PaidItems(got)
      BY <1>6, <1>7, <2>2
    <3> QED
      BY <2>2, <3>1, PaidFinite
  <2> QED
    BY <2>1, <2>2
<1> QED
  BY <1>1, <1>4, <1>5, <1>8

-----------------------------------------------------------------------------
(* The steps of a cascade *)

LEMMA CallIs ==
  ASSUME NEW h, NEW job, topoJobs'[h] = job, JobAccounted(h, job)'
  PROVE  JobAccounted(h, topoJobs[h])'
BY DEF JobAccounted, PaidByJob, PaidItems, TakenByJob, Allowed, ToUndo, WaitsOf, HeldBy, Queued

(* A step of h's call: everybody else's stays accounted.                   *)
LEMMA OneCall ==
  ASSUME CascadeInv, NEW h \in CascadeHolders,
         NEW job \in AcquireJob \cup ReleaseJob \cup {None},
         topoJobs' = [topoJobs EXCEPT ![h] = job],
         LockTypes', \A k \in Holders : k # h => Gentle(k), JobAccounted(h, job)'
  PROVE  CascadeInv'
<1> USE CascadeAssumption
<1>1. \A k \in CascadeHolders : topoJobs'[k] = IF k = h THEN job ELSE topoJobs[k]
  BY DEF CascadeInv, CascadeTypes
<1>2. CascadeTypes'
  BY DEF CascadeInv, CascadeTypes
<1>3. ASSUME NEW k \in CascadeHolders
      PROVE  JobAccounted(k, topoJobs[k])'
  <2>1. CASE k = h
    BY <1>1, <2>1, CallIs
  <2>2. CASE k # h
    <3>1. PICK own \in AcquireJob \cup ReleaseJob \cup {None} : own = topoJobs[k]
      BY DEF CascadeInv, CascadeTypes
    <3>2. JobAccounted(k, own)'
      BY <2>2, <3>1, GentleKeeps DEF CascadeInv
    <3>3. topoJobs'[k] = own
      BY <1>1, <2>2, <3>1
    <3> QED
      BY <3>2, <3>3, CallIs
  <2> QED
    BY <2>1, <2>2
<1> QED
  BY <1>2, <1>3 DEF CascadeInv

LEMMA LocksStay ==
  ASSUME LockTypes, UNCHANGED lockVars
  PROVE  LockTypes' /\ \A k \in Holders : Gentle(k)
BY DEF lockVars, LockTypes, Gentle, WaitsOf, Queued, HeldBy

(* A call of each kind, as CascadeDoes finds it                            *)
LEMMA CallDoes ==
  ASSUME CascadeInv, NEW h \in CascadeHolders, NEW what, CascadeDoes(h, what)
  PROVE  /\ topoJobs[h].do = what
         /\ what # "release" => topoJobs[h] \in AcquireJob
         /\ what = "release" => topoJobs[h] \in ReleaseJob
         /\ JobAccounted(h, topoJobs[h])
<1>1. topoJobs[h] \in AcquireJob \cup ReleaseJob /\ topoJobs[h].do = what
  BY DEF CascadeInv, CascadeTypes, CascadeDoes
<1>2. topoJobs[h] \in ReleaseJob => topoJobs[h].do = "release"
  BY DEF ReleaseJob
<1>3. topoJobs[h] \in AcquireJob => topoJobs[h].do # "release"
  BY DEF AcquireJob
<1> QED
  BY <1>1, <1>2, <1>3 DEF CascadeInv

LEMMA BeginAcquireKeeps ==
  ASSUME CascadeInv, NEW h \in CascadeHolders, NEW order \in Seq(Nodes),
         NEW reentrant \in BOOLEAN, BeginAcquire(h, order, reentrant)
  PROVE  CascadeInv'
<1>1. PICK held, waits : held = HeldBy(h) /\ waits = WaitsOf(h)
  OBVIOUS
<1>2. held \in SUBSET Locks /\ waits \in SUBSET Locks
  BY <1>1 DEF HeldBy, WaitsOf
<1>3. PICK job : job =
        [do |-> "lock", left |-> order, reentrant |-> reentrant,
         got |-> <<>>, paid |-> 0, held |-> held, waits |-> waits, queuedFor |-> {}]
  OBVIOUS
<1>4. topoJobs' = [topoJobs EXCEPT ![h] = job] /\ UNCHANGED lockVars
  BY <1>1, <1>3 DEF BeginAcquire
<1>5. /\ job \in AcquireJob /\ job.do = "lock" /\ job.got = <<>> /\ job.paid = 0
      /\ job.held = held /\ job.waits = waits /\ job.queuedFor = {}
  BY <1>2, <1>3 DEF AcquireJob
<1>6. PaidItems(job.got) = {} /\ Cardinality({}) = 0
  BY <1>5, FS_EmptySet DEF PaidItems
<1>7. PaidByJob(job)
  BY <1>5, <1>6 DEF PaidByJob
<1>8. TakenByJob(h, job)
  BY <1>1, <1>5 DEF TakenByJob, Allowed
<1>9. JobAccounted(h, job)
  BY <1>7, <1>8 DEF JobAccounted
<1>10. h \in Holders
  BY CascadeAssumption
<1> QED
  BY <1>4, <1>5, <1>9, <1>10, LocksStay, GentleKeeps, OneCall DEF CascadeInv

LEMMA CascadeLockKeeps ==
  ASSUME CascadeInv, NEW h \in CascadeHolders, CascadeLock(h)
  PROVE  CascadeInv'
<1> USE CascadeAssumption
<1>1. PICK old \in AcquireJob : old = topoJobs[h]
  BY CallDoes DEF CascadeLock
<1>2. /\ old.do = "lock" /\ old.left # <<>> /\ JobAccounted(h, old)
      /\ old.left \in Seq(Nodes) /\ old.got \in Seq(Item) /\ old.reentrant \in BOOLEAN
  BY <1>1, CallDoes DEF CascadeLock, AcquireJob
<1>3. PICK n \in Nodes, rest \in Seq(Nodes) : n = Head(old.left) /\ rest = Tail(old.left)
  BY <1>2, LengthOfParts
<1>4. PICK l \in Locks : l = LockOf[n]
  OBVIOUS
<1>5. PaidByJob(old) /\ (~old.reentrant => TakenByJob(h, old))
  BY <1>2 DEF JobAccounted
<1>6. ASSUME NEW answer \in {"acquired", "again", "rejected"},
             Acquire(l, h, old.reentrant, answer), NEW next \in {"tokens", "lock"},
             topoJobs' = [topoJobs EXCEPT
               ![h].do = next, ![h].left = rest,
               ![h].got = Append(@, [node |-> n, paid |-> FALSE, wasHeld |-> answer = "again"])]
      PROVE  CascadeInv'
  <2>1. PICK x : x = [node |-> n, paid |-> FALSE, wasHeld |-> answer = "again"]
    OBVIOUS
  <2>2. x \in Item /\ ~x.paid /\ x.node = n /\ (x.wasHeld <=> answer = "again")
    BY <2>1 DEF Item
  <2>3. PICK s : s = Append(old.got, x)
    OBVIOUS
  <2>4. /\ s \in Seq(Item) /\ s # <<>> /\ Len(s) = Len(old.got) + 1
        /\ \A i \in 1..Len(old.got) : s[i] = old.got[i]
        /\ s[Len(old.got) + 1] = x /\ PaidItems(s) = PaidItems(old.got)
        /\ Len(old.got) \in Nat
    <3>1. PICK got \in Seq(Item) : got = old.got
      BY <1>2
    <3>2. Len(got) \in Nat
      OBVIOUS
    <3>3. PICK more : more = Append(got, x)
      OBVIOUS
    <3>4. /\ more \in Seq(Item) /\ more # <<>> /\ Len(more) = Len(got) + 1
          /\ \A i \in 1..Len(got) : more[i] = got[i]
          /\ more[Len(got) + 1] = x /\ PaidItems(more) = PaidItems(got)
      BY <2>2, <3>3, ItemAppended
    <3>5. more = s
      BY <2>3, <3>1, <3>3, Zenon
    <3> QED
      BY <3>1, <3>2, <3>4, <3>5, Zenon
  <2>5. PICK job : job = [old EXCEPT !.do = next, !.left = rest, !.got = s]
    OBVIOUS
  <2>6. /\ job \in AcquireJob /\ job.do = next /\ job.got = s /\ job.paid = old.paid
        /\ job.reentrant = old.reentrant
        /\ job.held = old.held /\ job.waits = old.waits /\ job.queuedFor = old.queuedFor
    BY <2>4, <2>5 DEF AcquireJob
  <2>7. topoJobs' = [topoJobs EXCEPT ![h] = job]
    BY <1>1, <1>6, <2>1, <2>3, <2>5
  <2>8. AcquireDid(l, h, old.reentrant, answer)
    BY <1>2, <1>6, AcquireEffect DEF CascadeInv
  <2>9. PaidByJob(job)
    BY <1>5, <2>2, <2>4, <2>6 DEF PaidByJob
  <2>10. ASSUME ~old.reentrant
         PROVE  TakenByJob(h, job)'
    <3>1. /\ WaitsOf(h) \subseteq old.waits \cup old.queuedFor /\ old.queuedFor = {}
          /\ \A m \in HeldBy(h) : m \in Allowed(old) \/ ToUndo(old, m)
          /\ \A i \in 1..Len(old.got) : ~old.got[i].wasHeld
      BY <1>2, <1>5, <2>10 DEF TakenByJob
    <3>2. answer # "again" /\ WaitsOf(h)' \subseteq WaitsOf(h)
      BY <2>8, <2>10 DEF AcquireDid
    <3>3. ASSUME NEW i \in 1..Len(s)
          PROVE  ~s[i].wasHeld
      <4>1. CASE i = Len(old.got) + 1
        BY <2>2, <2>4, <3>2, <4>1
      <4>2. CASE i # Len(old.got) + 1
        <5>1. i \in 1..Len(old.got)
          BY <2>4, <4>2
        <5> QED
          BY <2>4, <3>1, <5>1
      <4> QED
        BY <4>1, <4>2
    <3>4. ASSUME NEW m \in HeldBy(h)'
          PROVE  m \in Allowed(job) \/ ToUndo(job, m)'
      <4>1. CASE m \in HeldBy(h) /\ lockRow'[m] = lockRow[m]
        <5>1. CASE m \in Allowed(old)
          BY <2>6, <5>1 DEF Allowed
        <5>2. CASE ToUndo(old, m)
          <6>1. PICK i \in 1..Len(old.got) : LockOf[old.got[i].node] = m
            BY <5>2 DEF ToUndo
          <6>2. i \in 1..Len(s) /\ LockOf[s[i].node] = m
            BY <2>4, <6>1
          <6> QED
            BY <2>6, <4>1, <5>2, <6>2 DEF ToUndo
        <5> QED
          BY <3>1, <4>1, <5>1, <5>2
      <4>2. CASE m = l /\ lockRow'[m].count = 1
        <5>1. Len(s) \in 1..Len(s) /\ LockOf[s[Len(s)].node] = m
          BY <1>4, <2>2, <2>4, <4>2
        <5> QED
          BY <2>6, <4>2, <5>1 DEF ToUndo
      <4> QED
        BY <2>8, <3>2, <3>4, <4>1, <4>2 DEF AcquireDid
    <3> QED
      BY <2>6, <3>1, <3>2, <3>3, <3>4 DEF TakenByJob, Allowed
  <2>11. JobAccounted(h, job)'
    BY <2>6, <2>9, <2>10 DEF JobAccounted, PaidByJob, PaidItems
  <2> QED
    BY <2>6, <2>7, <2>8, <2>11, OneCall DEF AcquireDid
<1>7. ASSUME NEW answer \in {"queued", "deadlock", "error"},
             Acquire(l, h, old.reentrant, answer),
             topoJobs' = [topoJobs EXCEPT
               ![h].do = "undo",
               ![h].queuedFor = IF answer = "queued" THEN {l} ELSE {}]
      PROVE  CascadeInv'
  <2>1. PICK queuedFor \in SUBSET Locks : queuedFor = IF answer = "queued" THEN {l} ELSE {}
    OBVIOUS
  <2>2. PICK job : job = [old EXCEPT !.do = "undo", !.queuedFor = queuedFor]
    OBVIOUS
  <2>3. /\ job \in AcquireJob /\ job.do = "undo" /\ job.got = old.got /\ job.paid = old.paid
        /\ job.reentrant = old.reentrant
        /\ job.held = old.held /\ job.waits = old.waits /\ job.queuedFor = queuedFor
    BY <2>2 DEF AcquireJob
  <2>4. topoJobs' = [topoJobs EXCEPT ![h] = job]
    BY <1>1, <1>7, <2>1, <2>2
  <2>5. AcquireDid(l, h, old.reentrant, answer)
    BY <1>2, <1>7, AcquireEffect DEF CascadeInv
  <2>6. PaidByJob(job)
    BY <1>5, <2>3 DEF PaidByJob
  <2>7. ASSUME ~old.reentrant
        PROVE  TakenByJob(h, job)'
    <3>1. /\ WaitsOf(h) \subseteq old.waits \cup old.queuedFor /\ old.queuedFor = {}
          /\ \A m \in HeldBy(h) : m \in Allowed(old) \/ ToUndo(old, m)
          /\ \A i \in 1..Len(old.got) : ~old.got[i].wasHeld
      BY <1>2, <1>5, <2>7 DEF TakenByJob
    <3>2. WaitsOf(h)' \subseteq job.waits \cup job.queuedFor
      BY <2>1, <2>3, <2>5, <3>1 DEF AcquireDid
    <3>3. ASSUME NEW m \in HeldBy(h)'
          PROVE  m \in Allowed(job) \/ ToUndo(job, m)'
      <4>1. m \in HeldBy(h) /\ lockRow'[m] = lockRow[m]
        BY <2>5, <3>3 DEF AcquireDid
      <4> QED
        BY <2>3, <3>1, <4>1 DEF Allowed, ToUndo
    <3> QED
      BY <2>3, <3>1, <3>2, <3>3 DEF TakenByJob, Allowed
  <2>8. JobAccounted(h, job)'
    BY <2>3, <2>6, <2>7 DEF JobAccounted, PaidByJob, PaidItems
  <2> QED
    BY <2>3, <2>4, <2>5, <2>8, OneCall DEF AcquireDid
<1>8. /\ Head(topoJobs[h].left) = n /\ Tail(topoJobs[h].left) = rest
      /\ topoJobs[h].reentrant = old.reentrant
  BY <1>1, <1>3
<1> QED
  BY <1>4, <1>6, <1>7, <1>8 DEF CascadeLock

(* A step that calls nobody at the lock manager                            *)
LEMMA QuietStep ==
  ASSUME CascadeInv, NEW h \in CascadeHolders, UNCHANGED lockVars,
         NEW job \in AcquireJob \cup ReleaseJob \cup {None},
         topoJobs' = [topoJobs EXCEPT ![h] = job], JobAccounted(h, job)
  PROVE  CascadeInv'
<1>1. h \in Holders
  BY CascadeAssumption
<1> QED
  BY <1>1, LocksStay, GentleKeeps, OneCall DEF CascadeInv

LEMMA CascadeTokensKeeps ==
  ASSUME CascadeInv, NEW h \in CascadeHolders, CascadeTokens(h)
  PROVE  CascadeInv'
<1>1. PICK old \in AcquireJob : old = topoJobs[h]
  BY CallDoes DEF CascadeTokens
<1>2. /\ old.do = "tokens" /\ JobAccounted(h, old) /\ old.got \in Seq(Item)
      /\ old.paid \in Int /\ UNCHANGED lockVars
  BY <1>1, CallDoes DEF CascadeTokens, AcquireJob
<1>3. PaidByJob(old) /\ (~old.reentrant => TakenByJob(h, old))
  BY <1>2 DEF JobAccounted
<1>4. CASE topoJobs' = [topoJobs EXCEPT
             ![h].do = "lock", ![h].paid = @ + 1,
             ![h].got[Len(topoJobs[h].got)].paid = TRUE]
  <2>1. old.got # <<>> /\ ~old.got[Len(old.got)].paid
    BY <1>2, <1>3 DEF PaidByJob
  <2>2. PICK s \in Seq(Item) :
          /\ s = [old.got EXCEPT ![Len(old.got)].paid = TRUE] /\ Len(s) = Len(old.got)
          /\ \A i \in 1..Len(old.got) :
               s[i].node = old.got[i].node /\ s[i].wasHeld = old.got[i].wasHeld
          /\ Cardinality(PaidItems(s)) = Cardinality(PaidItems(old.got)) + 1
    BY <1>2, <2>1, LastPaid
  <2>3. PICK paid \in Int : paid = old.paid + 1
    BY <1>2
  <2> DEFINE job == [old EXCEPT !.do = "lock", !.paid = paid, !.got = s]
  <2>4. /\ job \in AcquireJob /\ job.do = "lock" /\ job.got = s /\ job.paid = paid
        /\ job.reentrant = old.reentrant
        /\ job.held = old.held /\ job.waits = old.waits /\ job.queuedFor = old.queuedFor
    BY DEF AcquireJob
  <2>5. s = [old.got EXCEPT ![Len(old.got)].paid = TRUE]
    BY <2>2
  <2>6. topoJobs' = [topoJobs EXCEPT ![h] = job]
    BY <1>1, <1>4, <2>3, <2>5
  <2> HIDE DEF job
  <2>7. PaidByJob(job)
    BY <1>3, <2>2, <2>3, <2>4 DEF PaidByJob
  <2>8. ~old.reentrant => TakenByJob(h, job)
    <3>1. /\ Len(s) = Len(old.got)
          /\ \A i \in 1..Len(old.got) :
               s[i].node = old.got[i].node /\ s[i].wasHeld = old.got[i].wasHeld
      BY <2>2
    <3>2. \A l : ToUndo(old, l) => ToUndo(job, l)
      BY <2>4, <3>1 DEF ToUndo
    <3> QED
      BY <1>2, <1>3, <2>4, <3>1, <3>2 DEF TakenByJob, Allowed
  <2> QED
    BY <1>2, <2>4, <2>6, <2>7, <2>8, QuietStep DEF JobAccounted
<1>5. CASE topoJobs' = [topoJobs EXCEPT ![h].do = "undo"]
  <2>1. PICK job : job = [old EXCEPT !.do = "undo"]
    OBVIOUS
  <2>2. /\ job \in AcquireJob /\ job.do = "undo" /\ job.got = old.got /\ job.paid = old.paid
        /\ job.reentrant = old.reentrant
        /\ job.held = old.held /\ job.waits = old.waits /\ job.queuedFor = old.queuedFor
    BY <2>1 DEF AcquireJob
  <2>3. topoJobs' = [topoJobs EXCEPT ![h] = job]
    BY <1>1, <1>5, <2>1
  <2>4. PaidByJob(job) /\ (~old.reentrant => TakenByJob(h, job))
    BY <1>3, <2>2 DEF PaidByJob, TakenByJob, Allowed, ToUndo
  <2> QED
    BY <1>2, <2>2, <2>3, <2>4, QuietStep DEF JobAccounted
<1> QED
  BY <1>4, <1>5 DEF CascadeTokens

LEMMA CascadeAcquiredKeeps ==
  ASSUME CascadeInv, NEW h \in CascadeHolders, CascadeAcquired(h)
  PROVE  CascadeInv'
<1>1. PICK old \in AcquireJob : old = topoJobs[h]
  BY CallDoes DEF CascadeAcquired
<1>2. PICK job : job = [old EXCEPT !.do = "done"]
  OBVIOUS
<1>3. job \in AcquireJob /\ job.do = "done"
  BY <1>2 DEF AcquireJob
<1>4. topoJobs' = [topoJobs EXCEPT ![h] = job] /\ UNCHANGED lockVars
  BY <1>1, <1>2 DEF CascadeAcquired
<1> QED
  BY <1>3, <1>4, QuietStep DEF JobAccounted

LEMMA CascadeUndoKeeps ==
  ASSUME CascadeInv, NEW h \in CascadeHolders, CascadeUndo(h)
  PROVE  CascadeInv'
<1> USE CascadeAssumption
<1>1. PICK old \in AcquireJob : old = topoJobs[h]
  BY CallDoes DEF CascadeUndo
<1>2. /\ old.do = "undo" /\ JobAccounted(h, old) /\ old.got \in Seq(Item) /\ old.got # <<>>
      /\ old.paid \in Int
  BY <1>1, CallDoes DEF CascadeUndo, AcquireJob
<1>3. PaidByJob(old) /\ (~old.reentrant => TakenByJob(h, old))
  BY <1>2 DEF JobAccounted
<1>4. PICK s \in Seq(Item), item \in Item :
        /\ s = Front(old.got) /\ item = Last(old.got)
        /\ Len(s) = Len(old.got) - 1 /\ Len(old.got) \in Nat \ {0}
        /\ \A i \in 1..(Len(old.got) - 1) : s[i] = old.got[i]
        /\ item = old.got[Len(old.got)]
        /\ Cardinality(PaidItems(s))
             = Cardinality(PaidItems(old.got)) - (IF item.paid THEN 1 ELSE 0)
  BY <1>2, LastUndone
<1>5. PICK paid \in Int : paid = IF item.paid THEN old.paid - 1 ELSE old.paid
  BY <1>2
<1>6. PICK job : job = [old EXCEPT !.got = s, !.paid = paid]
  OBVIOUS
<1>7. /\ job \in AcquireJob /\ job.do = "undo" /\ job.got = s /\ job.paid = paid
      /\ job.reentrant = old.reentrant
      /\ job.held = old.held /\ job.waits = old.waits /\ job.queuedFor = old.queuedFor
  BY <1>2, <1>5, <1>6 DEF AcquireJob
<1>8. topoJobs' = [topoJobs EXCEPT ![h] = job]
  BY <1>1, <1>4, <1>5, <1>6 DEF CascadeUndo
<1>9. PICK l \in Locks : l = LockOf[item.node]
  BY DEF Item
<1>10. /\ item.wasHeld => UNCHANGED lockVars
       /\ ~item.wasHeld => Release(l, h)
  BY <1>1, <1>4, <1>9 DEF CascadeUndo
<1>11. LockTypes' /\ \A k \in Holders : k # h => Gentle(k)
  BY <1>10, LocksStay, ReleaseEffect DEF CascadeInv
<1>12. PaidByJob(job)
  BY <1>2, <1>3, <1>4, <1>5, <1>7 DEF PaidByJob
<1>13. ASSUME ~old.reentrant
       PROVE  TakenByJob(h, job)'
  <2>1. /\ WaitsOf(h) \subseteq old.waits \cup old.queuedFor
        /\ \A m \in HeldBy(h) : m \in Allowed(old) \/ ToUndo(old, m)
        /\ \A i \in 1..Len(old.got) : ~old.got[i].wasHeld
    BY <1>3, <1>13 DEF TakenByJob
  <2>2. ~item.wasHeld /\ \A i \in 1..Len(s) : ~s[i].wasHeld
    BY <1>4, <2>1
  <2>3. /\ WaitsOf(h)' \subseteq WaitsOf(h)
        /\ \A m \in HeldBy(h)' :
             \/ m # l /\ m \in HeldBy(h) /\ lockRow'[m] = lockRow[m]
             \/ m = l /\ m \in HeldBy(h) /\ lockRow[m].reentrant /\ lockRow[m].count > 1
             \/ m \in WaitsOf(h)
    BY <1>10, <2>2, ReleaseEffect DEF CascadeInv
  <2>4. ASSUME NEW m \in HeldBy(h)'
        PROVE  m \in Allowed(job) \/ ToUndo(job, m)'
    <3>1. CASE m # l /\ m \in HeldBy(h) /\ lockRow'[m] = lockRow[m]
      <4>1. CASE m \in Allowed(old)
        BY <1>7, <4>1 DEF Allowed
      <4>2. CASE ToUndo(old, m)
        <5>1. PICK i \in 1..Len(old.got) : LockOf[old.got[i].node] = m
          BY <4>2 DEF ToUndo
        <5>2. i \in 1..Len(s) /\ LockOf[s[i].node] = m
          BY <1>4, <1>9, <3>1, <5>1
        <5> QED
          BY <1>7, <3>1, <4>2, <5>2 DEF ToUndo
      <4> QED
        BY <2>1, <3>1, <4>1, <4>2
    <3>2. CASE m \in HeldBy(h) /\ lockRow[m].reentrant /\ lockRow[m].count > 1
      BY <1>7, <2>1, <3>2 DEF Allowed, ToUndo
    <3>3. CASE m \in WaitsOf(h)
      BY <1>7, <2>1, <3>3 DEF Allowed
    <3> QED
      BY <2>3, <2>4, <3>1, <3>2, <3>3
  <2> QED
    BY <1>7, <2>1, <2>2, <2>3, <2>4 DEF TakenByJob, Allowed
<1>14. JobAccounted(h, job)'
  BY <1>7, <1>12, <1>13 DEF JobAccounted, PaidByJob, PaidItems
<1> QED
  BY <1>7, <1>8, <1>11, <1>14, OneCall

LEMMA CascadeRolledBackKeeps ==
  ASSUME CascadeInv, NEW h \in CascadeHolders, CascadeRolledBack(h)
  PROVE  CascadeInv'
<1>0. CascadeDoes(h, "undo") /\ topoJobs[h].got = <<>>
  BY DEF CascadeRolledBack
<1>1. PICK old \in AcquireJob : old = topoJobs[h]
  BY <1>0, CallDoes
<1>2. old.do = "undo" /\ JobAccounted(h, old) /\ old.got = <<>>
  BY <1>0, <1>1, CallDoes
<1>3. PICK job : job = [old EXCEPT !.do = "rolled_back"]
  OBVIOUS
<1>4. /\ job \in AcquireJob /\ job.do = "rolled_back"
      /\ job.got = old.got /\ job.paid = old.paid
      /\ job.reentrant = old.reentrant
      /\ job.held = old.held /\ job.waits = old.waits /\ job.queuedFor = old.queuedFor
  BY <1>3 DEF AcquireJob
<1>5. topoJobs' = [topoJobs EXCEPT ![h] = job] /\ UNCHANGED lockVars
  BY <1>1, <1>3 DEF CascadeRolledBack
<1>6. PaidByJob(job)
  BY <1>2, <1>4 DEF JobAccounted, PaidByJob
<1>7. ~job.reentrant => TakenByJob(h, job)
  BY <1>2, <1>4 DEF JobAccounted, TakenByJob, Allowed, ToUndo
<1> QED
  BY <1>4, <1>5, <1>6, <1>7, QuietStep DEF JobAccounted

(* Calls of CascadeRelease, and returns: there is nothing to account for.  *)
LEMMA CascadeReleaseKeeps ==
  ASSUME CascadeInv, NEW h \in CascadeHolders,
         \/ \E order \in Seq(Nodes) : BeginRelease(h, order)
         \/ CascadeReleaseNext(h) \/ CascadeReturns(h)
  PROVE  CascadeInv'
<1> USE CascadeAssumption
<1>1. \A job \in ReleaseJob \cup {None} : JobAccounted(h, job) /\ JobAccounted(h, job)'
  BY DEF JobAccounted, AcquireJob, ReleaseJob
<1>2. ASSUME NEW order \in Seq(Nodes), BeginRelease(h, order)
      PROVE  CascadeInv'
  <2>1. PICK job : job = [do |-> "release", left |-> order]
    OBVIOUS
  <2>2. job \in ReleaseJob
    BY <2>1 DEF ReleaseJob
  <2>3. topoJobs' = [topoJobs EXCEPT ![h] = job] /\ UNCHANGED lockVars
    BY <1>2, <2>1 DEF BeginRelease
  <2> QED
    BY <1>1, <2>2, <2>3, QuietStep
<1>3. CASE CascadeReleaseNext(h)
  <2>1. PICK old \in ReleaseJob : old = topoJobs[h]
    BY <1>3, CallDoes DEF CascadeReleaseNext
  <2>2. old.left \in Seq(Nodes) /\ old.left # <<>>
    BY <1>3, <2>1 DEF CascadeReleaseNext, ReleaseJob
  <2>3. PICK n \in Nodes, rest \in Seq(Nodes) : n = Head(old.left) /\ rest = Tail(old.left)
    BY <2>2, LengthOfParts
  <2>4. PICK job : job = [old EXCEPT !.left = rest]
    OBVIOUS
  <2>5. job \in ReleaseJob
    BY <2>4 DEF ReleaseJob
  <2>6. topoJobs' = [topoJobs EXCEPT ![h] = job] /\ Release(LockOf[n], h)
    BY <1>3, <2>1, <2>3, <2>4 DEF CascadeReleaseNext
  <2>7. LockTypes' /\ \A k \in Holders : k # h => Gentle(k)
    BY <2>6, ReleaseEffect DEF CascadeInv
  <2> QED
    BY <1>1, <2>5, <2>6, <2>7, OneCall
<1>4. CASE CascadeReturns(h)
  BY <1>1, <1>4, QuietStep DEF CascadeReturns
<1> QED
  BY <1>2, <1>3, <1>4

LEMMA CascadeStep ==
  ASSUME CascadeInv, [CascadeNext]_cascadeVars
  PROVE  CascadeInv'
<1> USE CascadeAssumption
<1>1. CASE UNCHANGED cascadeVars
  <2>1. /\ UNCHANGED lockVars /\ topoJobs' = topoJobs
    BY <1>1 DEF cascadeVars
  <2>2. ASSUME NEW h \in CascadeHolders
        PROVE  JobAccounted(h, topoJobs[h])'
    <3>1. PICK job : job = topoJobs[h]
      OBVIOUS
    <3>2. JobAccounted(h, job)'
      BY <2>1, <3>1, LocksStay, GentleKeeps DEF CascadeInv
    <3> QED
      BY <2>1, <3>1, <3>2, CallIs
  <2> QED
    BY <2>1, <2>2, LocksStay DEF CascadeInv, CascadeTypes
<1>2. ASSUME LeasesNext \/ OtherUse, UNCHANGED topoJobs
      PROVE  CascadeInv'
  <2>1. ASSUME NEW h \in CascadeHolders
        PROVE  JobAccounted(h, topoJobs[h])'
    <3>1. PICK job : job = topoJobs[h]
      OBVIOUS
    <3>2. JobAccounted(h, job)'
      BY <1>2, <3>1, OthersAreGentle, GentleKeeps DEF CascadeInv
    <3> QED
      BY <1>2, <3>1, <3>2, CallIs
  <2> QED
    BY <1>2, <2>1, OthersAreGentle DEF CascadeInv, CascadeTypes
<1>3. ASSUME NEW h \in CascadeHolders, NEW order \in Seq(Nodes), NEW reentrant \in BOOLEAN,
             BeginAcquire(h, order, reentrant)
      PROVE  CascadeInv'
  BY <1>3, BeginAcquireKeeps
<1>4. ASSUME NEW h \in CascadeHolders,
             \/ \E order \in Seq(Nodes) : BeginRelease(h, order)
             \/ CascadeSteps(h)
      PROVE  CascadeInv'
  BY <1>4, CascadeLockKeeps, CascadeTokensKeeps, CascadeAcquiredKeeps, CascadeUndoKeeps,
     CascadeRolledBackKeeps, CascadeReleaseKeeps DEF CascadeSteps
<1> QED
  BY <1>1, <1>2, <1>3, <1>4 DEF CascadeNext, AnyCascade

LEMMA CascadeStart ==
  ASSUME LocksInit, topoJobs = [h \in CascadeHolders |-> None]
  PROVE  CascadeInv
<1>1. LockTypes
  BY DEF LocksInit, LockTypes, LockRow, FreeLock
<1>2. \A h \in CascadeHolders : JobAccounted(h, topoJobs[h])
  BY CascadeAssumption DEF JobAccounted
<1> QED
  BY <1>1, <1>2 DEF CascadeInv, CascadeTypes

(* However cascades of several holders, leases, timeouts and other callers *)
(* interleave, and along whatever orders: a cascade that was rolled back   *)
(* has had all its tokens returned, and without re-entry holds no lock     *)
(* more than before but those it waited or queued for.                     *)
THEOREM CascadesGiveBack == CascadeSpec => []CascadeGivesBack
<1>1. LocksInit /\ topoJobs = [h \in CascadeHolders |-> None] => CascadeInv
  BY CascadeStart
<1>2. CascadeInv /\ [CascadeNext]_cascadeVars => CascadeInv'
  BY CascadeStep
<1>3. CascadeInv => CascadeGivesBack
  <2> SUFFICES ASSUME CascadeInv, NEW h \in CascadeHolders, CascadeDoes(h, "rolled_back")
               PROVE  /\ topoJobs[h].paid = 0
                      /\ \/ topoJobs[h].reentrant
                         \/ HeldBy(h) \subseteq Allowed(topoJobs[h])
    BY DEF CascadeGivesBack, Allowed
  <2>0. topoJobs[h] \in AcquireJob
    BY CallDoes
  <2>1. PICK job \in AcquireJob : job = topoJobs[h]
    BY <2>0
  <2>2. job.do = "rolled_back" /\ JobAccounted(h, job)
    BY <2>1, CallDoes
  <2>3. PaidByJob(job) /\ (~job.reentrant => TakenByJob(h, job))
    BY <2>2 DEF JobAccounted
  <2>4. job.got = <<>> /\ 1..Len(job.got) = {}
    BY <2>2, <2>3 DEF PaidByJob
  <2>5. job.paid = 0
    BY <2>3, <2>4, FS_EmptySet DEF PaidByJob, PaidItems
  <2>6. ~job.reentrant => HeldBy(h) \subseteq Allowed(job)
    BY <2>3, <2>4 DEF TakenByJob, ToUndo
  <2> QED
    BY <2>1, <2>5, <2>6
<1> QED
  BY <1>1, <1>2, <1>3, PTL DEF CascadeSpec
-----------------------------------------------------------------------------
(* The searches of the graph *)

(* The nodes a search has come back from                                   *)
Over(path, visited) == visited \ ToSet(path)

(* A search along edges: the nodes on its path are different ones, each    *)
(* reached from those before it.  From a node the search has come back     *)
(* from, every edge leads to such a node; from one on the path, every edge *)
(* walked so far leads to one, or is the way on.                           *)
Searched(edges, path, left, visited) ==
  /\ ToSet(path) \subseteq visited /\ left \subseteq edges
  /\ \A i, j \in 1..Len(path) : i < j => path[i] # path[j] /\ path[j] \in Reach(Nodes, edges, path[i])
  /\ \A e \in edges \ left : e[1] \in visited
  /\ \A e \in edges : e[1] \in Over(path, visited) => e[2] \in Over(path, visited)
  /\ \A e \in edges \ left, i \in 1..Len(path) : e[1] = path[i] =>
       e[2] \in Over(path, visited) \/ (i < Len(path) /\ e[2] = path[i + 1])

NoCycleAt(edges, n) == n \notin Reach(Nodes, Parents(edges), n)

(* What comes before a node in an order is all that is beyond it.          *)
Ordered(edges, order) ==
  \A i \in 1..Len(order) : Reach(Nodes, edges, order[i]) \subseteq ToSet(SubSeq(order, 1, i - 1))

CheckInv(scan) ==
  LET edges == topoEdges \cup {scan.edge}
  IN  /\ scan.edge \in (topoNodes \X topoNodes) \ topoEdges
      /\ scan.visited \subseteq topoNodes
      /\ Searched(edges, scan.path, scan.left, scan.visited)
      /\ \A n \in Over(scan.path, scan.visited) : NoCycleAt(edges, n)

(* The search from the scan's node, which counts as visited                *)
FromNode(edges, scan, visited) ==
  /\ scan.node \in topoNodes /\ scan.node \in visited
  /\ scan.path # <<>> => scan.path[1] = scan.node
  /\ Searched(edges, scan.path, scan.left, visited)
  /\ visited \subseteq {scan.node} \cup Reach(Nodes, edges, scan.node)

ClimbInv(scan) ==
  LET edges == Parents(topoEdges)
  IN  /\ FromNode(edges, scan, scan.visited)
      /\ ToSet(scan.order) = Over(scan.path, scan.visited) \ {scan.node}
      /\ Ordered(edges, scan.order)

DescendInv(scan) ==
  /\ FromNode(topoEdges, scan, scan.visited \cup {scan.node})
  /\ scan.node \notin scan.visited
  /\ ToSet(scan.order) = scan.visited
  /\ \A i, j \in 1..Len(scan.order) : i # j => scan.order[i] # scan.order[j]

TopoInv ==
  /\ topoNodes \subseteq Nodes /\ topoEdges \subseteq topoNodes \X topoNodes
  /\ topoScan \in CheckScan \cup OrderScan \cup {None}
  /\ \A n \in Nodes : NoCycleAt(topoEdges, n)
  /\ Scanning("check") => CheckInv(topoScan)
  /\ Scanning("climb") => ClimbInv(topoScan)
  /\ Scanning("descend") => DescendInv(topoScan)

TopoNext == GraphChanges \/ CascadeStarts \/ ScanSteps \/ CascadesNext
TopoSpec == TopoInit /\ [][TopoNext]_<<topoNodes, topoEdges, topoScan>>


LEMMA ReachSteps ==
  ASSUME NEW nodes, NEW edges \in SUBSET (nodes \X nodes), NEW n
  PROVE  Reach(nodes, edges, n) \in SUBSET nodes /\ Onward(edges, n, Reach(nodes, edges, n))
  BY DEF Reach, Onward

LEMMA ReachLeast ==
  ASSUME NEW nodes, NEW edges, NEW n, NEW S \in SUBSET nodes, Onward(edges, n, S)
  PROVE  Reach(nodes, edges, n) \subseteq S
  BY DEF Reach

(* Fewer edges, less reach. *)
LEMMA ReachFewer ==
  ASSUME NEW nodes, NEW more \in SUBSET (nodes \X nodes), NEW edges \in SUBSET more, NEW n
  PROVE  Reach(nodes, edges, n) \subseteq Reach(nodes, more, n)
<1>1. Onward(edges, n, Reach(nodes, more, n))
  BY ReachSteps DEF Onward
<1> QED
  BY <1>1, ReachSteps, ReachLeast

(* A cycle is one in either direction. *)
LEMMA CycleTurned ==
  ASSUME NEW edges \in SUBSET (Nodes \X Nodes), NEW n \in Nodes, NoCycleAt(edges, n)
  PROVE  n \notin Reach(Nodes, edges, n)
<1> DEFINE above == Reach(Nodes, Parents(edges), n)
           S == Nodes \ (above \cup {n})
<1>1. Parents(edges) \in SUBSET (Nodes \X Nodes)
  BY DEF Parents
<1>2. Onward(Parents(edges), n, above)
  BY <1>1, ReachSteps
<1>3. Onward(edges, n, S)
  <2> SUFFICES ASSUME NEW e \in edges, e[1] = n \/ e[1] \in S PROVE e[2] \in S
    BY DEF Onward
  <2>1. e[1] \in Nodes /\ e[2] \in Nodes /\ e[1] \notin above
    BY DEF NoCycleAt
  <2>2. ASSUME e[2] \in above \cup {n} PROVE FALSE
    <3>1. <<e[2], e[1]>> \in Parents(edges)
      <4>1. e = <<e[1], e[2]>>
        OBVIOUS
      <4>2. <<e[2], e[1]>> \in Nodes \X Nodes
        BY <2>1
      <4> QED
        BY <4>1, <4>2 DEF Parents
    <3> QED
      BY <3>1, <2>2, <2>1, <1>2 DEF Onward
  <2> QED
    BY <2>1, <2>2
<1>4. Reach(Nodes, edges, n) \subseteq S
  BY <1>3, ReachLeast
<1> QED
  BY <1>4

(* Fewer edges, no new cycle. *)
LEMMA NoCycleFewer ==
  ASSUME NEW more \in SUBSET (Nodes \X Nodes), NEW edges \in SUBSET more, NEW n \in Nodes,
         NoCycleAt(more, n)
  PROVE  NoCycleAt(edges, n)
<1>1. Parents(more) \in SUBSET (Nodes \X Nodes) /\ Parents(edges) \in SUBSET Parents(more)
  BY DEF Parents
<1>2. Reach(Nodes, Parents(edges), n) \subseteq Reach(Nodes, Parents(more), n)
  BY <1>1, ReachFewer
<1> QED
  BY <1>2 DEF NoCycleAt

(* What is reached from where the search has come back from *)
LEMMA OverIsClosed ==
  ASSUME NEW edges \in SUBSET (Nodes \X Nodes), NEW path, NEW left, NEW visited \in SUBSET Nodes,
         Searched(edges, path, left, visited), NEW n,
         \/ n \in Over(path, visited)
         \/ \A e \in edges : e[1] = n => e[2] \in Over(path, visited)
  PROVE  Reach(Nodes, edges, n) \subseteq Over(path, visited)
<1>1. Onward(edges, n, Over(path, visited))
  BY DEF Onward, Searched
<1>2. Over(path, visited) \in SUBSET Nodes
  BY DEF Over
<1> QED
  BY <1>1, <1>2, ReachLeast

LEMMA PathToSet ==
  ASSUME NEW path \in Seq(Nodes)
  PROVE  /\ ToSet(path) = {path[i] : i \in 1..Len(path)}
         /\ \A i \in 1..Len(path) : path[i] \in Nodes
         /\ path # <<>> => Len(path) \in Nat \ {0} /\ Len(path) \in 1..Len(path)
         /\ path = <<>> => Len(path) = 0
  BY DEF ToSet

LEMMA PathLonger ==
  ASSUME NEW path \in Seq(Nodes), NEW n \in Nodes
  PROVE  /\ Append(path, n) \in Seq(Nodes) /\ Append(path, n) # <<>>
         /\ Len(Append(path, n)) = Len(path) + 1
         /\ \A i \in 1..Len(path) : Append(path, n)[i] = path[i]
         /\ Append(path, n)[Len(path) + 1] = n
         /\ ToSet(Append(path, n)) = ToSet(path) \cup {n}
<1>1. /\ Append(path, n) \in Seq(Nodes) /\ Append(path, n) # <<>>
      /\ Len(Append(path, n)) = Len(path) + 1
      /\ \A i \in 1..Len(path) : Append(path, n)[i] = path[i]
      /\ Append(path, n)[Len(path) + 1] = n
  OBVIOUS
<1>2. 1..Len(Append(path, n)) = 1..Len(path) \cup {Len(path) + 1}
  BY <1>1
<1>3. ToSet(Append(path, n)) = {Append(path, n)[i] : i \in 1..Len(path) \cup {Len(path) + 1}}
  BY <1>1, <1>2, PathToSet
<1>4. ToSet(path) = {path[i] : i \in 1..Len(path)}
  BY PathToSet
<1> HIDE DEF ToSet
<1> QED
  BY <1>1, <1>3, <1>4

LEMMA PathShorter ==
  ASSUME NEW path \in Seq(Nodes), path # <<>>
  PROVE  /\ Front(path) \in Seq(Nodes)
         /\ Len(Front(path)) = Len(path) - 1
         /\ \A i \in 1..Len(path) - 1 : Front(path)[i] = path[i]
         /\ ToSet(path) = ToSet(Front(path)) \cup {path[Len(path)]}
         /\ Len(path) = 1 <=> Front(path) = <<>>
<1>1. Len(path) \in Nat \ {0}
  BY PathToSet
<1>2. /\ Front(path) \in Seq(Nodes)
      /\ Len(Front(path)) = Len(path) - 1
      /\ \A i \in 1..Len(path) - 1 : Front(path)[i] = path[i]
  <2> DEFINE L == Len(path)
             s == SubSeq(path, 1, L - 1)
  <2>1. 1 \in Int /\ L - 1 \in Int /\ \A i \in 1..L - 1 : path[i] \in Nodes
    BY <1>1
  <2> HIDE DEF L
  <2>2. /\ s \in Seq(Nodes)
        /\ Len(s) = IF 1 <= L - 1 THEN (L - 1) - 1 + 1 ELSE 0
        /\ \A i \in 1..(L - 1) - 1 + 1 : s[i] = path[1 + i - 1]
    BY ONLY <2>1, SubSeqProperties
  <2>3. L \in Nat \ {0}
    BY <1>1 DEF L
  <2> HIDE DEF s
  <2>4. Len(s) = L - 1
    BY <2>2, <2>3
  <2>5. \A i \in 1..L - 1 : s[i] = path[i]
    BY <2>2, <2>3
  <2>6. s = Front(path)
    BY DEF s, L, Front
  <2> QED
    BY <2>2, <2>4, <2>5, <2>6 DEF L
<1>3. ToSet(path) = {path[i] : i \in 1..Len(path)}
  BY PathToSet
<1>4. ToSet(Front(path)) = {Front(path)[i] : i \in 1..Len(path) - 1}
  BY <1>2, PathToSet
<1>5. 1..Len(path) = (1..Len(path) - 1) \cup {Len(path)}
  BY <1>1
<1>6. Len(path) = 1 <=> Front(path) = <<>>
  BY <1>1, <1>2
<1>7. ToSet(path) = ToSet(Front(path)) \cup {path[Len(path)]}
  BY ONLY <1>2, <1>3, <1>4, <1>5
<1> QED
  BY <1>2, <1>4, <1>6, <1>7

(* A node on the path is not one the search has come back from.            *)
LEMMA VisitNotOver ==
  ASSUME NEW path \in Seq(Nodes), NEW visited, ToSet(path) \subseteq visited,
         NEW n \in Nodes \ visited
  PROVE  Over(Append(path, n), visited \cup {n}) = Over(path, visited)
<1>1. ToSet(Append(path, n)) = ToSet(path) \cup {n}
  BY PathLonger
<1> QED
  BY <1>1 DEF Over

(* A node visited from the one at the end of the path, along an edge       *)
LEMMA SearchVisits ==
  ASSUME NEW edges \in SUBSET (Nodes \X Nodes), NEW path \in Seq(Nodes), NEW left,
         NEW visited \in SUBSET Nodes, Searched(edges, path, left, visited), path # <<>>,
         NEW e \in left, NEW n, n = e[2], e[1] = path[Len(path)], n \notin visited
  PROVE  Searched(edges, Append(path, n), left \ {e}, visited \cup {n})
<1> DEFINE longer == Append(path, n)
           over == Over(path, visited)
<1>1. n \in Nodes /\ e \in edges
  BY DEF Searched
<1>2. /\ longer \in Seq(Nodes) /\ Len(longer) = Len(path) + 1
      /\ \A i \in 1..Len(path) : longer[i] = path[i]
      /\ longer[Len(path) + 1] = n
      /\ ToSet(longer) = ToSet(path) \cup {n}
  BY <1>1, PathLonger
<1>3. /\ Len(path) \in Nat \ {0} /\ Len(path) \in 1..Len(path)
      /\ ToSet(path) = {path[i] : i \in 1..Len(path)}
  BY PathToSet
<1>4. Over(longer, visited \cup {n}) = over
  BY <1>1, VisitNotOver DEF Searched
<1>5. ToSet(longer) \subseteq visited \cup {n} /\ left \ {e} \subseteq edges
  BY <1>2 DEF Searched
<1>6. ASSUME NEW i \in 1..Len(longer), NEW j \in 1..Len(longer), i < j
      PROVE  longer[i] # longer[j] /\ longer[j] \in Reach(Nodes, edges, longer[i])
  <2>1. CASE j \in 1..Len(path)
    <3>1. i \in 1..Len(path) /\ longer[i] = path[i] /\ longer[j] = path[j]
      BY <1>2, <1>3, <1>6, <2>1
    <3> QED
      BY <3>1, <2>1, <1>6 DEF Searched
  <2>2. CASE j = Len(path) + 1
    <3>1. i \in 1..Len(path) /\ longer[i] = path[i] /\ longer[j] = n
      BY <1>2, <1>3, <1>6, <2>2
    <3>2. path[i] # n
      BY <3>1, <1>3 DEF Searched
    <3>3. CASE i = Len(path)
      BY <3>1, <3>2, <3>3, <1>1, ReachSteps DEF Onward
    <3>4. CASE i < Len(path)
      <4>1. e[1] \in Reach(Nodes, edges, path[i])
        BY <3>1, <3>4, <1>3 DEF Searched
      <4> QED
        BY <3>1, <3>2, <4>1, <1>1, ReachSteps DEF Onward
    <3> QED
      BY <3>1, <3>3, <3>4, <1>3
  <2> QED
    BY <1>2, <1>3, <2>1, <2>2
<1>7. \A f \in edges \ (left \ {e}) : f[1] \in visited \cup {n}
  BY <1>3 DEF Searched
<1>8. \A f \in edges : f[1] \in over => f[2] \in over
  BY DEF Searched
<1>9. ASSUME NEW f \in edges \ (left \ {e}), NEW i \in 1..Len(longer), f[1] = longer[i]
      PROVE  f[2] \in over \/ (i < Len(longer) /\ f[2] = longer[i + 1])
  <2>1. CASE i = Len(path) + 1
    <3>1. f[1] = n
      BY <1>2, <1>9, <2>1
    <3>2. f # e
      BY <3>1, <1>3 DEF Searched
    <3> QED
      BY <3>1, <3>2, <1>3 DEF Searched
  <2>2. CASE i \in 1..Len(path) /\ f = e
    <3>1. i = Len(path)
      <4>1. path[i] = path[Len(path)]
        BY <2>2, <1>2, <1>9
      <4>2. ~(i < Len(path))
        BY <4>1, <2>2, <1>3 DEF Searched
      <4> QED
        BY <4>2, <2>2, <1>3
    <3> QED
      BY <3>1, <2>2, <1>2, <1>3
  <2>3. CASE i \in 1..Len(path) /\ f # e
    <3>1. f \in edges \ left /\ f[1] = path[i]
      BY <2>3, <1>2, <1>9
    <3>2. f[2] \in over \/ (i < Len(path) /\ f[2] = path[i + 1])
      BY <3>1, <2>3 DEF Searched
    <3>3. i < Len(path) => i + 1 \in 1..Len(path) /\ longer[i + 1] = path[i + 1] /\ i < Len(longer)
      BY <2>3, <1>2, <1>3
    <3> QED
      BY <3>2, <3>3
  <2> QED
    BY <1>2, <1>3, <2>1, <2>2, <2>3
<1> HIDE DEF longer, over
<1>10. Searched(edges, longer, left \ {e}, visited \cup {n})
  BY <1>4, <1>5, <1>6, <1>7, <1>8, <1>9 DEF Searched
<1> QED
  BY <1>10 DEF longer

(* A search that begins, or begins again *)
LEMMA SearchBegins ==
  ASSUME NEW edges \in SUBSET (Nodes \X Nodes), NEW left,
         NEW visited \in SUBSET Nodes, Searched(edges, <<>>, left, visited),
         NEW n \in Nodes \ visited
  PROVE  /\ Searched(edges, <<n>>, left, visited \cup {n})
         /\ Over(<<n>>, visited \cup {n}) = Over(<<>>, visited)
<1>1. /\ Len(<<n>>) = 1 /\ \A i \in 1..Len(<<n>>) : <<n>>[i] = n /\ i = 1
      /\ ToSet(<<n>>) = {n} /\ ToSet(<<>>) = {}
  BY DEF ToSet
<1>2. Over(<<n>>, visited \cup {n}) = visited /\ Over(<<>>, visited) = visited
  BY <1>1 DEF Over
<1>3. \A i, j \in 1..Len(<<n>>) : ~(i < j)
  BY <1>1
<1>4. left \subseteq edges
  BY DEF Searched
<1>5. \A e \in edges \ left : e[1] \in visited /\ e[1] # n
  BY DEF Searched
<1>6. \A e \in edges : e[1] \in visited => e[2] \in visited
  BY <1>2 DEF Searched
<1>7. \A e \in edges \ left, i \in 1..Len(<<n>>) : e[1] # <<n>>[i]
  BY <1>1, <1>5
<1>8. Searched(edges, <<n>>, left, visited \cup {n})
  BY <1>1, <1>2, <1>3, <1>4, <1>5, <1>6, <1>7 DEF Searched
<1> QED
  BY <1>2, <1>8

(* Nothing is searched yet. *)
LEMMA NothingSearched ==
  ASSUME NEW edges
  PROVE  Searched(edges, <<>>, edges, {})
<1>1. ToSet(<<>>) = {} /\ Len(<<>>) = 0
  BY DEF ToSet
<1>2. Over(<<>>, {}) = {}
  BY DEF Over
<1> QED
  BY <1>1, <1>2 DEF Searched

(* An edge to a node the search has come back from *)
LEMMA SearchPasses ==
  ASSUME NEW edges \in SUBSET (Nodes \X Nodes), NEW path \in Seq(Nodes), NEW left,
         NEW visited \in SUBSET Nodes, Searched(edges, path, left, visited), path # <<>>,
         NEW e \in left, e[1] = path[Len(path)], e[2] \in Over(path, visited)
  PROVE  Searched(edges, path, left \ {e}, visited)
<1>1. Len(path) \in 1..Len(path) /\ ToSet(path) = {path[i] : i \in 1..Len(path)}
  BY PathToSet
<1>2. \A f \in edges \ (left \ {e}) : f[1] \in visited
  BY <1>1 DEF Searched
<1>3. \A f \in edges \ (left \ {e}), i \in 1..Len(path) : f[1] = path[i] =>
        f[2] \in Over(path, visited) \/ (i < Len(path) /\ f[2] = path[i + 1])
  BY DEF Searched
<1> QED
  BY <1>2, <1>3 DEF Searched

(* Every edge of the node at the end of the path is walked.                *)
LEMMA WayBack ==
  ASSUME NEW edges \in SUBSET (Nodes \X Nodes), NEW path \in Seq(Nodes), NEW left,
         NEW visited \in SUBSET Nodes, Searched(edges, path, left, visited), path # <<>>,
         NEW n, n = path[Len(path)], \A e \in left : e[1] # n
  PROVE  n \in visited \ Over(path, visited)
<1>1. Len(path) \in 1..Len(path) /\ ToSet(path) = {path[i] : i \in 1..Len(path)}
  BY PathToSet
<1> QED
  BY <1>1 DEF Searched, Over

LEMMA WayBackEdges ==
  ASSUME NEW edges \in SUBSET (Nodes \X Nodes), NEW path \in Seq(Nodes), NEW left,
         NEW visited \in SUBSET Nodes, Searched(edges, path, left, visited), path # <<>>,
         NEW n, n = path[Len(path)], \A e \in left : e[1] # n
  PROVE  \A e \in edges : e[1] = n => e[2] \in Over(path, visited)
<1>1. Len(path) \in 1..Len(path)
  BY PathToSet
<1> SUFFICES ASSUME NEW e \in edges \ left, e[1] = n
             PROVE  e[2] \in Over(path, visited)
  OBVIOUS
<1>2. e[1] = path[Len(path)] /\ ~(Len(path) < Len(path))
  BY <1>1
<1> QED
  BY <1>1, <1>2 DEF Searched

LEMMA WayBackOver ==
  ASSUME NEW edges \in SUBSET (Nodes \X Nodes), NEW path \in Seq(Nodes), NEW left,
         NEW visited \in SUBSET Nodes, Searched(edges, path, left, visited), path # <<>>,
         NEW n, n = path[Len(path)], \A e \in left : e[1] # n
  PROVE  Over(Front(path), visited) = Over(path, visited) \cup {n}
<1>1. /\ ToSet(path) = ToSet(Front(path)) \cup {n}
      /\ \A i \in 1..Len(path) - 1 : Front(path)[i] = path[i]
      /\ ToSet(Front(path)) = {Front(path)[i] : i \in 1..Len(path) - 1}
  BY PathShorter, PathToSet
<1>2. Len(path) \in Nat \ {0} /\ Len(path) \in 1..Len(path)
  BY PathToSet
<1>3. \A i \in 1..Len(path) - 1 : i \in 1..Len(path) /\ i < Len(path) /\ path[i] # n
  BY <1>2 DEF Searched
<1>4. n \notin ToSet(Front(path))
  <2>1. \A i \in 1..Len(path) - 1 : Front(path)[i] # n
    BY <1>1, <1>3, Zenon
  <2> QED
    BY <1>1, <2>1, Zenon
<1>5. n \in visited
  BY WayBack
<1>6. ToSet(path) = ToSet(Front(path)) \cup {n}
  BY <1>1
<1> QED
  BY ONLY <1>4, <1>5, <1>6 DEF Over

LEMMA SearchComesBack ==
  ASSUME NEW edges \in SUBSET (Nodes \X Nodes), NEW path \in Seq(Nodes), NEW left,
         NEW visited \in SUBSET Nodes, Searched(edges, path, left, visited), path # <<>>,
         NEW n, n = path[Len(path)], \A e \in left : e[1] # n
  PROVE  Searched(edges, Front(path), left, visited)
<1> DEFINE over == Over(path, visited)
<1>1. /\ Front(path) \in Seq(Nodes) /\ Len(Front(path)) = Len(path) - 1
      /\ \A i \in 1..Len(path) - 1 : Front(path)[i] = path[i]
      /\ ToSet(path) = ToSet(Front(path)) \cup {n}
  BY PathShorter
<1>2. /\ Len(path) \in Nat \ {0} /\ Len(path) \in 1..Len(path)
      /\ ToSet(path) = {path[i] : i \in 1..Len(path)}
      /\ ToSet(Front(path)) = {Front(path)[i] : i \in 1..Len(path) - 1}
  BY <1>1, PathToSet
<1>4. Over(Front(path), visited) = over \cup {n}
  BY WayBackOver
<1>5. \A e \in edges : e[1] = n => e[2] \in over
  BY WayBackEdges
<1>6. ToSet(Front(path)) \subseteq visited
  BY <1>1 DEF Searched
<1>7. \A i, j \in 1..Len(Front(path)) : i < j =>
        /\ Front(path)[i] # Front(path)[j]
        /\ Front(path)[j] \in Reach(Nodes, edges, Front(path)[i])
  <2> SUFFICES ASSUME NEW i \in 1..Len(path) - 1, NEW j \in 1..Len(path) - 1, i < j
               PROVE  /\ Front(path)[i] # Front(path)[j]
                      /\ Front(path)[j] \in Reach(Nodes, edges, Front(path)[i])
    BY <1>1
  <2>1. /\ i \in 1..Len(path) /\ j \in 1..Len(path)
        /\ Front(path)[i] = path[i] /\ Front(path)[j] = path[j]
    BY <1>1, <1>2
  <2> QED
    BY <2>1 DEF Searched
<1>8. ASSUME NEW f \in edges \ left, NEW i \in 1..Len(Front(path)), f[1] = Front(path)[i]
      PROVE  f[2] \in over \cup {n} \/ (i < Len(Front(path)) /\ f[2] = Front(path)[i + 1])
  <2>1. i \in 1..Len(path) - 1 /\ i \in 1..Len(path) /\ f[1] = path[i] /\ i < Len(path)
    BY <1>1, <1>2, <1>8
  <2>2. f[2] \in over \/ f[2] = path[i + 1]
    BY <2>1 DEF Searched
  <2>3. CASE i + 1 = Len(path)
    BY <2>2, <2>3
  <2>4. CASE i + 1 # Len(path)
    <3>1. i + 1 \in 1..Len(path) - 1 /\ i < Len(path) - 1
      BY <2>1, <2>4
    <3>2. i < Len(Front(path)) /\ Front(path)[i + 1] = path[i + 1]
      BY <1>1, <1>2, <3>1
    <3> QED
      BY <3>2, <2>2
  <2> QED
    BY <2>3, <2>4
<1>9. \A e \in edges : e[1] \in over \cup {n} => e[2] \in over \cup {n}
  BY <1>5 DEF Searched
<1> HIDE DEF over
<1> QED
  BY <1>4, <1>6, <1>7, <1>8, <1>9 DEF Searched

(* An edge back to the path closes a cycle. *)
LEMMA BackToPath ==
  ASSUME NEW edges \in SUBSET (Nodes \X Nodes), NEW path \in Seq(Nodes), NEW left,
         NEW visited, Searched(edges, path, left, visited), path # <<>>,
         NEW e \in left, e[1] = path[Len(path)], e[2] \in ToSet(path)
  PROVE  e[2] \in Reach(Nodes, edges, e[2])
<1>1. Len(path) \in 1..Len(path) /\ Len(path) \in Nat
  BY PathToSet
<1>2. PICK i \in 1..Len(path) : e[2] = path[i]
  BY PathToSet
<1>3. e \in edges
  BY DEF Searched
<1>4. CASE i = Len(path)
  BY <1>2, <1>3, <1>4, ReachSteps DEF Onward
<1>5. CASE i # Len(path)
  <2>1. e[1] \in Reach(Nodes, edges, e[2])
    BY <1>1, <1>2, <1>5 DEF Searched
  <2> QED
    BY <2>1, <1>3, ReachSteps DEF Onward
<1> QED
  BY <1>4, <1>5

(* Whoever leads only to where the search has come back from is on no      *)
(* cycle.                                                                  *)
LEMMA NoCycleOnceOver ==
  ASSUME NEW edges \in SUBSET (Nodes \X Nodes), NEW path, NEW left, NEW visited,
         Searched(edges, path, left, visited), NEW n, n \notin Over(path, visited),
         \A e \in edges : e[1] = n => e[2] \in Over(path, visited)
  PROVE  NoCycleAt(edges, n)
<1> DEFINE S == Nodes \ (Over(path, visited) \cup {n})
<1>1. Onward(Parents(edges), n, S)
  <2> SUFFICES ASSUME NEW f \in Parents(edges), f[1] = n \/ f[1] \in S PROVE f[2] \in S
    BY DEF Onward
  <2>1. PICK e \in edges : e[1] = f[2] /\ e[2] = f[1]
    BY DEF Parents
  <2>2. e[1] \in Nodes /\ e[2] \notin Over(path, visited)
    BY <2>1
  <2> QED
    BY <2>1, <2>2 DEF Searched
<1>2. Reach(Nodes, Parents(edges), n) \subseteq S
  BY <1>1, ReachLeast
<1> QED
  BY <1>2 DEF NoCycleAt

(* A node without an edge is on no cycle. *)
LEMMA NoCycleOutside ==
  ASSUME NEW nodes \in SUBSET Nodes, NEW edges \in SUBSET (nodes \X nodes), NEW n, n \notin nodes
  PROVE  NoCycleAt(edges, n)
<1>1. Onward(Parents(edges), n, nodes)
  BY DEF Onward, Parents
<1>2. Reach(Nodes, Parents(edges), n) \subseteq nodes
  BY <1>1, ReachLeast
<1> QED
  BY <1>2 DEF NoCycleAt

(* The search under way by what it is for *)
LEMMA ScanIs ==
  ASSUME TopoInv
  PROVE  /\ topoEdges \in SUBSET (Nodes \X Nodes)
         /\ Scanning("check") => topoScan \in CheckScan /\ CheckInv(topoScan)
         /\ Scanning("climb") => topoScan \in OrderScan /\ ClimbInv(topoScan)
         /\ Scanning("descend") => topoScan \in OrderScan /\ DescendInv(topoScan)
<1>1. topoEdges \in SUBSET (Nodes \X Nodes)
  BY DEF TopoInv
<1>2. topoScan \in CheckScan => topoScan.do = "check"
  BY DEF CheckScan
<1>3. topoScan \in OrderScan => topoScan.do \in {"climb", "descend"}
  BY DEF OrderScan
<1>4. Scanning("check") => topoScan \in CheckScan
  BY <1>3 DEF TopoInv, Scanning
<1>5. Scanning("climb") \/ Scanning("descend") => topoScan \in OrderScan
  BY <1>2 DEF TopoInv, Scanning
<1> QED
  BY <1>1, <1>4, <1>5 DEF TopoInv

(* A step of a search of either kind, or its end, in the same graph        *)
LEMMA CheckMoves ==
  ASSUME TopoInv, UNCHANGED <<topoNodes, topoEdges>>, NEW new \in CheckScan, topoScan' = new,
         CheckInv(new)
  PROVE  TopoInv'
<1>1. new.do = "check"
  BY DEF CheckScan
<1>2. ~Scanning("climb")' /\ ~Scanning("descend")'
  BY <1>1 DEF Scanning
<1>3. CheckInv(topoScan)'
  BY DEF CheckInv
<1>4. \A n \in Nodes : NoCycleAt(topoEdges', n)
  BY DEF TopoInv
<1> QED
  BY <1>2, <1>3, <1>4 DEF TopoInv

LEMMA OrderMoves ==
  ASSUME TopoInv, UNCHANGED <<topoNodes, topoEdges>>, NEW new \in OrderScan, topoScan' = new,
         new.do = "climb" => ClimbInv(new),
         new.do = "descend" => DescendInv(new)
  PROVE  TopoInv'
<1>1. ~Scanning("check")'
  BY DEF Scanning, OrderScan
<1>2. new.do = "climb" => ClimbInv(topoScan)'
  BY DEF ClimbInv, FromNode
<1>3. new.do = "descend" => DescendInv(topoScan)'
  BY DEF DescendInv, FromNode
<1>4. \A n \in Nodes : NoCycleAt(topoEdges', n)
  BY DEF TopoInv
<1> QED
  BY <1>1, <1>2, <1>3, <1>4 DEF TopoInv, Scanning

LEMMA ScanEnds ==
  ASSUME TopoInv, UNCHANGED topoNodes, topoScan' = None,
         topoEdges' \subseteq topoNodes \X topoNodes,
         \A n \in Nodes : NoCycleAt(topoEdges', n)
  PROVE  TopoInv'
<1>1. ~Scanning("check")' /\ ~Scanning("climb")' /\ ~Scanning("descend")'
  BY DEF Scanning
<1> QED
  BY <1>1 DEF TopoInv

(* The parts of a search after one of its steps *)
LEMMA CheckParts ==
  ASSUME NEW scan \in CheckScan, NEW e \in Nodes \X Nodes, NEW n \in Nodes
  PROVE  /\ Walk(scan, e) \in CheckScan
         /\ Walk(scan, e).edge = scan.edge /\ Walk(scan, e).path = scan.path
         /\ Walk(scan, e).left = scan.left \ {e} /\ Walk(scan, e).visited = scan.visited
         /\ Visit(scan, n) \in CheckScan
         /\ Visit(scan, n).edge = scan.edge /\ Visit(scan, n).path = Append(scan.path, n)
         /\ Visit(scan, n).left = scan.left /\ Visit(scan, n).visited = scan.visited \cup {n}
         /\ scan.path # <<>> =>
              /\ Back(scan) \in CheckScan
              /\ Back(scan).edge = scan.edge /\ Back(scan).path = Front(scan.path)
              /\ Back(scan).left = scan.left /\ Back(scan).visited = scan.visited
<1>1. scan.path # <<>> => Front(scan.path) \in Seq(Nodes)
  BY PathShorter DEF CheckScan
<1>2. Append(scan.path, n) \in Seq(Nodes)
  BY PathLonger DEF CheckScan
<1> QED
  BY <1>1, <1>2 DEF CheckScan, Walk, Visit, Back

LEMMA CheckVisits ==
  ASSUME NEW scan \in CheckScan, NEW n \in Nodes
  PROVE  /\ Visit(scan, n) \in CheckScan
         /\ Visit(scan, n).edge = scan.edge /\ Visit(scan, n).path = Append(scan.path, n)
         /\ Visit(scan, n).left = scan.left /\ Visit(scan, n).visited = scan.visited \cup {n}
<1>1. Append(scan.path, n) \in Seq(Nodes)
  BY PathLonger DEF CheckScan
<1> QED
  BY <1>1 DEF CheckScan, Visit

LEMMA OrderWalks ==
  ASSUME NEW scan \in OrderScan, NEW e
  PROVE  /\ Walk(scan, e) \in OrderScan
         /\ Walk(scan, e).path = scan.path /\ Walk(scan, e).left = scan.left \ {e}
         /\ Walk(scan, e).visited = scan.visited /\ Walk(scan, e).order = scan.order
         /\ Walk(scan, e).do = scan.do /\ Walk(scan, e).node = scan.node
  BY DEF OrderScan, Walk

LEMMA OrderVisits ==
  ASSUME NEW scan \in OrderScan, NEW n \in Nodes
  PROVE  /\ Visit(scan, n) \in OrderScan
         /\ Visit(scan, n).path = Append(scan.path, n) /\ Visit(scan, n).left = scan.left
         /\ Visit(scan, n).visited = scan.visited \cup {n} /\ Visit(scan, n).order = scan.order
         /\ Visit(scan, n).do = scan.do /\ Visit(scan, n).node = scan.node
<1>1. Append(scan.path, n) \in Seq(Nodes)
  BY PathLonger DEF OrderScan
<1> QED
  BY <1>1 DEF OrderScan, Visit

LEMMA OrderLists ==
  ASSUME NEW scan \in OrderScan, NEW n \in Nodes
  PROVE  /\ Listed(scan, n) \in OrderScan
         /\ Listed(scan, n).path = scan.path /\ Listed(scan, n).left = scan.left
         /\ Listed(scan, n).visited = scan.visited /\ Listed(scan, n).order = Append(scan.order, n)
         /\ Listed(scan, n).do = scan.do /\ Listed(scan, n).node = scan.node
<1>1. Append(scan.order, n) \in Seq(Nodes)
  BY PathLonger DEF OrderScan
<1> QED
  BY <1>1 DEF OrderScan, Listed

LEMMA OrderBack ==
  ASSUME NEW scan \in OrderScan, scan.path # <<>>
  PROVE  /\ Back(scan) \in OrderScan
         /\ Back(scan).path = Front(scan.path) /\ Back(scan).left = scan.left
         /\ Back(scan).visited = scan.visited /\ Back(scan).order = scan.order
         /\ Back(scan).do = scan.do /\ Back(scan).node = scan.node
<1>1. Front(scan.path) \in Seq(Nodes)
  BY PathShorter DEF OrderScan
<1> QED
  BY <1>1 DEF OrderScan, Back

-----------------------------------------------------------------------------
(* The search for a cycle, step by step *)

LEMMA DeclareKeeps ==
  ASSUME TopoInv, NEW from \in Nodes, NEW to \in Nodes, DeclareEdge(from, to)
  PROVE  TopoInv'
<1> DEFINE edges == topoEdges \cup {<<from, to>>}
           new == [do |-> "check", edge |-> <<from, to>>, path |-> <<>>,
                   left |-> edges, visited |-> {}]
<1>1. new \in CheckScan
  <2>1. edges \in SUBSET (Nodes \X Nodes)
    BY ScanIs
  <2> HIDE DEF edges
  <2> QED
    BY <2>1 DEF CheckScan
<1>2. CheckInv(new)
  <2>1. Over(<<>>, {}) = {}
    BY DEF Over
  <2>2. <<from, to>> \in (topoNodes \X topoNodes) \ topoEdges
    BY DEF DeclareEdge
  <2> QED
    BY <2>1, <2>2, NothingSearched DEF CheckInv
<1>3. UNCHANGED <<topoNodes, topoEdges>> /\ topoScan' = new
  BY DEF DeclareEdge
<1> HIDE DEF new
<1> QED
  BY <1>1, <1>2, <1>3, CheckMoves

LEMMA CheckFromKeeps ==
  ASSUME TopoInv, NEW n \in Nodes, CheckFrom(n)
  PROVE  TopoInv'
<1> DEFINE scan == topoScan
           new == Visit(topoScan, n)
           edges == topoEdges \cup {scan.edge}
<1>1. scan \in CheckScan /\ CheckInv(scan) /\ topoEdges \in SUBSET (Nodes \X Nodes)
  BY ScanIs DEF CheckFrom
<1>2. /\ new \in CheckScan /\ new.edge = scan.edge /\ new.path = <<n>>
      /\ new.left = scan.left /\ new.visited = scan.visited \cup {n}
  <2>1. PICK s \in CheckScan : s = topoScan
    BY <1>1
  <2>2. PICK e : e \in Nodes \X Nodes
    BY <2>1 DEF CheckScan
  <2>3. Append(<<>>, n) = <<n>>
    OBVIOUS
  <2> QED
    BY <2>1, <2>2, <2>3, CheckParts DEF CheckFrom
<1>3. /\ scan.path = <<>> /\ n \in topoNodes \ scan.visited
      /\ UNCHANGED <<topoNodes, topoEdges>> /\ topoScan' = new
  BY DEF CheckFrom
<1>4. edges \in SUBSET (Nodes \X Nodes) /\ scan.visited \in SUBSET Nodes
  BY <1>1 DEF CheckScan
<1>5. /\ Searched(edges, <<n>>, scan.left, scan.visited \cup {n})
      /\ Over(<<n>>, scan.visited \cup {n}) = Over(<<>>, scan.visited)
  BY <1>1, <1>3, <1>4, SearchBegins DEF CheckInv
<1>6. CheckInv(new)
  BY <1>1, <1>2, <1>3, <1>5 DEF CheckInv
<1> HIDE DEF new
<1> QED
  BY <1>2, <1>3, <1>6, CheckMoves

LEMMA CheckChildKeeps ==
  ASSUME TopoInv, NEW e \in Nodes \X Nodes, CheckChild(e)
  PROVE  TopoInv'
<1>1. topoScan \in CheckScan /\ CheckInv(topoScan) /\ topoEdges \in SUBSET (Nodes \X Nodes)
  BY ScanIs DEF CheckChild
<1>2. PICK scan \in CheckScan : scan = topoScan
  BY <1>1
<1> DEFINE edges == topoEdges \cup {scan.edge}
           walked == Walk(scan, e)
<1>3. /\ edges \in SUBSET (Nodes \X Nodes) /\ scan.visited \in SUBSET Nodes
      /\ scan.path \in Seq(Nodes) /\ e[2] \in Nodes
  BY <1>1 DEF CheckScan
<1>4. /\ scan.path # <<>> /\ e \in scan.left /\ e[1] = scan.path[Len(scan.path)]
      /\ UNCHANGED <<topoNodes, topoEdges>>
  BY <1>2 DEF CheckChild, ToWalk, Last
<1>5. /\ Searched(edges, scan.path, scan.left, scan.visited)
      /\ scan.edge \in (topoNodes \X topoNodes) \ topoEdges /\ scan.visited \subseteq topoNodes
      /\ \A n \in Over(scan.path, scan.visited) : NoCycleAt(edges, n)
  BY <1>1, <1>2 DEF CheckInv
<1>6. /\ walked \in CheckScan
      /\ walked.edge = scan.edge /\ walked.path = scan.path
      /\ walked.left = scan.left \ {e} /\ walked.visited = scan.visited
  BY CheckParts
<1>7. CASE e[2] \notin scan.visited
  <2> DEFINE new == Visit(walked, e[2])
  <2>1. topoScan' = new
    BY <1>2, <1>7 DEF CheckChild
  <2>2. /\ new \in CheckScan
        /\ new.edge = scan.edge /\ new.path = Append(scan.path, e[2])
        /\ new.left = scan.left \ {e} /\ new.visited = scan.visited \cup {e[2]}
    <3> HIDE DEF walked
    <3>1. PICK n \in Nodes : n = e[2]
      BY <1>3
    <3>2. /\ Visit(walked, n) \in CheckScan
          /\ Visit(walked, n).edge = walked.edge /\ Visit(walked, n).path = Append(walked.path, n)
          /\ Visit(walked, n).left = walked.left
          /\ Visit(walked, n).visited = walked.visited \cup {n}
      BY <1>6, CheckVisits
    <3> QED
      BY <1>6, <3>1, <3>2
  <2>3. /\ Searched(edges, Append(scan.path, e[2]), scan.left \ {e}, scan.visited \cup {e[2]})
        /\ Over(Append(scan.path, e[2]), scan.visited \cup {e[2]}) = Over(scan.path, scan.visited)
    <3> HIDE DEF edges, new, walked
    <3>1. PICK n : n = e[2]
      OBVIOUS
    <3>2. Searched(edges, Append(scan.path, n), scan.left \ {e}, scan.visited \cup {n})
      BY <3>1, <1>3, <1>4, <1>5, <1>7, SearchVisits
    <3>3. Over(Append(scan.path, n), scan.visited \cup {n}) = Over(scan.path, scan.visited)
      BY <3>1, <1>3, <1>5, <1>7, VisitNotOver DEF Searched
    <3> QED
      BY <3>1, <3>2, <3>3
  <2>4. e[2] \in topoNodes
    <3>1. e \in edges
      BY <1>4, <1>5 DEF Searched
    <3> QED
      BY <3>1, <1>5 DEF TopoInv
  <2>5. CheckInv(new)
    BY <1>5, <2>2, <2>3, <2>4 DEF CheckInv
  <2> HIDE DEF new
  <2> QED
    BY <1>4, <2>1, <2>2, <2>5, CheckMoves
<1>8. CASE e[2] \in scan.visited /\ e[2] \in ToSet(scan.path)
  <2>1. topoScan' = None
    BY <1>2, <1>8 DEF CheckChild
  <2> QED
    BY <1>4, <2>1, ScanEnds DEF TopoInv
<1>9. CASE e[2] \in scan.visited /\ e[2] \notin ToSet(scan.path)
  <2>1. topoScan' = walked
    BY <1>2, <1>9 DEF CheckChild
  <2>2. Searched(edges, scan.path, scan.left \ {e}, scan.visited)
    <3>1. e[2] \in Over(scan.path, scan.visited)
      BY <1>9 DEF Over
    <3> QED
      BY <3>1, <1>3, <1>4, <1>5, SearchPasses
  <2>3. CheckInv(walked)
    BY <1>5, <1>6, <2>2 DEF CheckInv
  <2> HIDE DEF walked
  <2> QED
    BY <1>4, <1>6, <2>1, <2>3, CheckMoves
<1> QED
  BY <1>7, <1>8, <1>9

LEMMA CheckBackKeeps ==
  ASSUME TopoInv, CheckBack
  PROVE  TopoInv'
<1>1. topoScan \in CheckScan /\ CheckInv(topoScan) /\ topoEdges \in SUBSET (Nodes \X Nodes)
  BY ScanIs DEF CheckBack
<1>2. PICK scan \in CheckScan : scan = topoScan
  BY <1>1
<1> DEFINE edges == topoEdges \cup {scan.edge}
           new == Back(scan)
           n == scan.path[Len(scan.path)]
           over == Over(scan.path, scan.visited)
<1>3. /\ edges \in SUBSET (Nodes \X Nodes) /\ scan.visited \in SUBSET Nodes
      /\ scan.path \in Seq(Nodes) /\ scan.edge \in Nodes \X Nodes
  BY <1>1 DEF CheckScan
<1>4. /\ scan.path # <<>> /\ \A e \in scan.left : e[1] # n
      /\ UNCHANGED <<topoNodes, topoEdges>> /\ topoScan' = new
  BY <1>2 DEF CheckBack, ToWalk, Last
<1>5. /\ Searched(edges, scan.path, scan.left, scan.visited)
      /\ scan.edge \in (topoNodes \X topoNodes) \ topoEdges /\ scan.visited \subseteq topoNodes
      /\ \A m \in over : NoCycleAt(edges, m)
  BY <1>1, <1>2 DEF CheckInv
<1>6. /\ new \in CheckScan /\ new.edge = scan.edge /\ new.path = Front(scan.path)
      /\ new.left = scan.left /\ new.visited = scan.visited
  <2>1. scan.edge[1] \in Nodes
    BY <1>3
  <2> QED
    BY <2>1, <1>3, <1>4, CheckParts
<1>7. /\ Searched(edges, Front(scan.path), scan.left, scan.visited)
      /\ Over(Front(scan.path), scan.visited) = over \cup {n} /\ n \notin over
      /\ \A e \in edges : e[1] = n => e[2] \in over
  <2> HIDE DEF edges, new
  <2>1. PICK m : m = n
    OBVIOUS
  <2>2. Searched(edges, Front(scan.path), scan.left, scan.visited)
    BY <2>1, <1>3, <1>4, <1>5, SearchComesBack
  <2>3. Over(Front(scan.path), scan.visited) = over \cup {m}
    BY <2>1, <1>3, <1>4, <1>5, WayBackOver
  <2>4. m \in scan.visited \ over
    BY <2>1, <1>3, <1>4, <1>5, WayBack
  <2>5. \A e \in edges : e[1] = m => e[2] \in over
    BY <2>1, <1>3, <1>4, <1>5, WayBackEdges
  <2> QED
    BY <2>1, <2>2, <2>3, <2>4, <2>5
<1>8. NoCycleAt(edges, n)
  <2> HIDE DEF n
  <2> QED
    BY <1>3, <1>5, <1>7, NoCycleOnceOver
<1>9. CheckInv(new)
  <2> HIDE DEF n
  <2> QED
    BY <1>5, <1>6, <1>7, <1>8 DEF CheckInv
<1> HIDE DEF new
<1> QED
  BY <1>4, <1>6, <1>9, CheckMoves

(* Every node is one the search has come back from: the edge may stay.     *)
LEMMA CheckPassedKeeps ==
  ASSUME TopoInv, CheckPassed
  PROVE  TopoInv'
<1>1. topoScan \in CheckScan /\ CheckInv(topoScan) /\ topoEdges \in SUBSET (Nodes \X Nodes)
  BY ScanIs DEF CheckPassed
<1>2. PICK scan \in CheckScan : scan = topoScan
  BY <1>1
<1> DEFINE edges == topoEdges \cup {scan.edge}
<1>3. /\ scan.path = <<>> /\ topoNodes \subseteq scan.visited
      /\ topoNodes' = topoNodes /\ topoEdges' = edges /\ topoScan' = None
  BY <1>2 DEF CheckPassed, CreateTopoEdge
<1>4. edges \in SUBSET (topoNodes \X topoNodes) /\ topoNodes \in SUBSET Nodes
  BY <1>1, <1>2 DEF CheckInv, TopoInv
<1>5. Over(scan.path, scan.visited) = scan.visited
  BY <1>3 DEF Over, ToSet
<1>6. \A n \in Nodes : NoCycleAt(edges, n)
  <2> SUFFICES ASSUME NEW n \in Nodes PROVE NoCycleAt(edges, n)
    OBVIOUS
  <2>1. CASE n \in topoNodes
    BY <1>1, <1>2, <1>3, <1>5, <2>1 DEF CheckInv
  <2>2. CASE n \notin topoNodes
    BY <1>4, <2>2, NoCycleOutside
  <2> QED
    BY <2>1, <2>2
<1> HIDE DEF edges
<1> QED
  BY <1>3, <1>4, <1>6, ScanEnds

LEMMA RemoveEdgeKeeps ==
  ASSUME TopoInv, NEW from, NEW to, RemoveEdge(from, to)
  PROVE  TopoInv'
<1>1. /\ topoScan' = None /\ topoNodes' = topoNodes /\ topoEdges' \in SUBSET topoEdges
  BY DEF RemoveEdge, MuFree, DeleteTopoEdge
<1>2. PICK fewer : fewer = topoEdges'
  OBVIOUS
<1>3. \A n \in Nodes : NoCycleAt(fewer, n)
  BY <1>1, <1>2, ScanIs, NoCycleFewer DEF TopoInv
<1> QED
  BY <1>1, <1>2, <1>3, ScanEnds DEF TopoInv

LEMMA RegisterNodeKeeps ==
  ASSUME TopoInv, NEW n \in Nodes, RegisterNode(n)
  PROVE  TopoInv'
<1>1. /\ topoScan = None /\ topoScan' = None /\ topoNodes' = topoNodes \cup {n}
      /\ topoEdges' = topoEdges
  BY DEF RegisterNode, MuFree, CreateTopoNode
<1>2. ~Scanning("check")' /\ ~Scanning("climb")' /\ ~Scanning("descend")'
  BY <1>1 DEF Scanning
<1>3. \A m \in Nodes : NoCycleAt(topoEdges', m)
  BY <1>1 DEF TopoInv
<1> QED
  BY <1>1, <1>2, <1>3 DEF TopoInv

-----------------------------------------------------------------------------
(* The orders of a cascade, step by step *)

LEMMA OrderLonger ==
  ASSUME NEW edges, NEW order \in Seq(Nodes), NEW n \in Nodes, Ordered(edges, order),
         Reach(Nodes, edges, n) \subseteq ToSet(order)
  PROVE  Ordered(edges, Append(order, n))
<1> DEFINE longer == Append(order, n)
<1>1. /\ longer \in Seq(Nodes) /\ Len(longer) = Len(order) + 1 /\ Len(order) \in Nat
      /\ \A i \in 1..Len(order) : longer[i] = order[i]
      /\ longer[Len(order) + 1] = n
  BY PathLonger
<1>2. ASSUME NEW i \in 1..Len(order) + 1
      PROVE  SubSeq(longer, 1, i - 1) = SubSeq(order, 1, i - 1)
  <2>1. \A k \in 1..i - 1 : longer[k] = order[k] /\ order[k] \in Nodes
    BY <1>1, PathToSet
  <2>2. i - 1 \in Int /\ i - 1 >= 0
    BY <1>1
  <2>3. /\ SubSeq(longer, 1, i - 1) = [k \in 1..i - 1 |-> longer[k]]
        /\ SubSeq(order, 1, i - 1) = [k \in 1..i - 1 |-> order[k]]
    BY <1>1, <2>2
  <2> QED
    BY <2>1, <2>3
<1>3. SubSeq(order, 1, Len(order)) = order
  OBVIOUS
<1> SUFFICES ASSUME NEW i \in 1..Len(longer)
             PROVE  Reach(Nodes, edges, longer[i]) \subseteq ToSet(SubSeq(longer, 1, i - 1))
  BY DEF Ordered
<1>4. CASE i \in 1..Len(order)
  BY <1>1, <1>2, <1>4 DEF Ordered
<1>5. CASE i = Len(order) + 1
  <2>1. i - 1 = Len(order)
    BY <1>1, <1>5
  <2> QED
    BY <1>1, <1>2, <1>3, <1>5, <2>1
<1> QED
  BY <1>1, <1>4, <1>5

LEMMA NothingOrdered ==
  ASSUME NEW edges PROVE Ordered(edges, <<>>) /\ ToSet(<<>>) = {}
  BY DEF Ordered, ToSet

(* A search begins at its node.                                            *)
LEMMA FromNodeBegins ==
  ASSUME NEW edges \in SUBSET (Nodes \X Nodes), NEW n \in topoNodes, topoNodes \subseteq Nodes
  PROVE  /\ Searched(edges, <<n>>, edges, {n}) /\ Over(<<n>>, {n}) = {}
         /\ <<n>>[1] = n
<1>1. Searched(edges, <<>>, edges, {}) /\ Over(<<>>, {}) = {}
  BY NothingSearched DEF Over
<1>2. {} \in SUBSET Nodes /\ n \in Nodes \ {}
  OBVIOUS
<1>3. /\ Searched(edges, <<n>>, edges, {} \cup {n})
      /\ Over(<<n>>, {} \cup {n}) = Over(<<>>, {})
  BY <1>1, <1>2, SearchBegins
<1>4. {} \cup {n} = {n}
  OBVIOUS
<1> QED
  BY <1>1, <1>3, <1>4

(* What is on the path, or visited next, is beyond the search's node. *)
LEMMA BeyondNode ==
  ASSUME NEW edges \in SUBSET (Nodes \X Nodes), NEW path \in Seq(Nodes), NEW left,
         NEW visited, Searched(edges, path, left, visited), path # <<>>,
         NEW root, path[1] = root, NEW e \in left, e[1] = path[Len(path)]
  PROVE  e[2] \in Reach(Nodes, edges, root)
<1>1. Len(path) \in 1..Len(path) /\ Len(path) \in Nat \ {0} /\ 1 \in 1..Len(path)
  BY PathToSet
<1>2. e \in edges
  BY DEF Searched
<1>3. CASE Len(path) = 1
  BY <1>2, <1>3, ReachSteps DEF Onward
<1>4. CASE Len(path) # 1
  <2>1. 1 < Len(path)
    <3>1. PICK k \in Nat \ {0} : k = Len(path)
      BY <1>1
    <3>2. 1 < k
      BY <3>1, <1>4
    <3> QED
      BY <3>1, <3>2
  <2>2. path[Len(path)] \in Reach(Nodes, edges, path[1])
    BY <2>1, <1>1 DEF Searched
  <2> QED
    BY <2>2, <1>2, ReachSteps DEF Onward
<1> QED
  BY <1>3, <1>4

(* A search comes back from its node last.                                 *)
LEMMA NodeComesLast ==
  ASSUME NEW edges, NEW path \in Seq(Nodes), NEW left, NEW visited,
         Searched(edges, path, left, visited), path # <<>>
  PROVE  /\ Len(path) = 1 => path[Len(path)] = path[1]
         /\ Len(path) # 1 => path[Len(path)] # path[1] /\ Front(path) # <<>> /\ Front(path)[1] = path[1]
         /\ path[1] \in ToSet(path)
<1>1. Len(path) \in 1..Len(path) /\ Len(path) \in Nat \ {0} /\ 1 \in 1..Len(path)
      /\ ToSet(path) = {path[i] : i \in 1..Len(path)}
  BY PathToSet
<1>2. ASSUME Len(path) # 1
      PROVE  path[Len(path)] # path[1] /\ Front(path) # <<>> /\ Front(path)[1] = path[1]
  <2>1. 1 < Len(path) /\ 1 \in 1..Len(path) - 1
    BY <1>1, <1>2
  <2>2. path[Len(path)] # path[1]
    BY <1>1, <2>1 DEF Searched
  <2> QED
    BY <1>2, <2>1, <2>2, PathShorter
<1> QED
  BY <1>1, <1>2

(* A node that is not listed yet is listed once. *)
LEMMA OnceMore ==
  ASSUME NEW order \in Seq(Nodes), NEW n \in Nodes \ ToSet(order),
         \A i, j \in 1..Len(order) : i # j => order[i] # order[j]
  PROVE  \A i, j \in 1..Len(Append(order, n)) :
           i # j => Append(order, n)[i] # Append(order, n)[j]
<1>1. /\ Len(Append(order, n)) = Len(order) + 1 /\ Len(order) \in Nat
      /\ \A i \in 1..Len(order) : Append(order, n)[i] = order[i] /\ order[i] # n
      /\ Append(order, n)[Len(order) + 1] = n
  <2>1. \A i \in 1..Len(order) : order[i] # n
    BY PathToSet
  <2> QED
    BY <2>1, PathLonger
<1>2. 1..Len(Append(order, n)) = 1..Len(order) \cup {Len(order) + 1}
  BY <1>1
<1> QED
  BY <1>1, <1>2

(* Nobody is on a cycle, neither upwards nor downwards. *)
LEMMA NoCycles ==
  ASSUME TopoInv
  PROVE  /\ Parents(topoEdges) \in SUBSET (Nodes \X Nodes) /\ topoEdges \in SUBSET (Nodes \X Nodes)
         /\ \A n \in Nodes : n \notin Reach(Nodes, Parents(topoEdges), n)
         /\ \A n \in Nodes : n \notin Reach(Nodes, topoEdges, n)
<1>1. Parents(topoEdges) \in SUBSET (Nodes \X Nodes) /\ topoEdges \in SUBSET (Nodes \X Nodes)
  BY ScanIs DEF Parents
<1>2. \A n \in Nodes : NoCycleAt(topoEdges, n)
  BY DEF TopoInv
<1>3. \A n \in Nodes : n \notin Reach(Nodes, topoEdges, n)
  BY <1>1, <1>2, CycleTurned
<1> QED
  BY <1>1, <1>2, <1>3 DEF NoCycleAt

(* The next edge of a search leads to a node not visited, or to one the    *)
(* search has come back from, and never to its node.                       *)
LEMMA NextIsNew ==
  ASSUME NEW edges \in SUBSET (Nodes \X Nodes), \A n \in Nodes : n \notin Reach(Nodes, edges, n),
         NEW path \in Seq(Nodes), NEW left, NEW visited,
         Searched(edges, path, left, visited), path # <<>>,
         NEW e \in left, e[1] = path[Len(path)]
  PROVE  /\ e[2] \in Nodes /\ e[2] \notin ToSet(path) /\ e[2] # path[1]
         /\ e[2] \in visited => e[2] \in Over(path, visited)
<1>1. e[2] \in Nodes
  BY DEF Searched
<1>2. e[2] \notin ToSet(path)
  BY <1>1, BackToPath
<1> QED
  BY <1>1, <1>2, NodeComesLast DEF Over

LEMMA ClimbBegins ==
  ASSUME TopoInv, NEW h \in CascadeHolders, NEW n \in Nodes, NEW reentrant \in BOOLEAN,
         CascadeAcquire(h, n, reentrant)
  PROVE  TopoInv'
<1> DEFINE edges == Parents(topoEdges)
           new == [do |-> "climb", holder |-> h, node |-> n, reentrant |-> reentrant,
                   path |-> <<n>>, left |-> edges, visited |-> {n}, order |-> <<>>]
<1>1. /\ n \in topoNodes /\ UNCHANGED <<topoNodes, topoEdges>> /\ topoScan' = new
  BY DEF CascadeAcquire
<1>2. edges \in SUBSET (Nodes \X Nodes)
  BY NoCycles
<1> HIDE DEF edges
<1>3. new \in OrderScan /\ new.do = "climb"
  BY <1>2 DEF OrderScan
<1>4. Searched(edges, <<n>>, edges, {n}) /\ Over(<<n>>, {n}) = {} /\ <<n>>[1] = n
  BY <1>1, <1>2, FromNodeBegins DEF TopoInv
<1>5. FromNode(edges, new, new.visited)
  BY <1>1, <1>4 DEF FromNode
<1>6. ToSet(new.order) = Over(new.path, new.visited) \ {new.node} /\ Ordered(edges, new.order)
  BY <1>4, NothingOrdered
<1>7. ClimbInv(new)
  BY <1>5, <1>6 DEF ClimbInv, edges
<1> HIDE DEF new
<1> QED
  BY <1>1, <1>3, <1>7, OrderMoves

LEMMA DescendBegins ==
  ASSUME TopoInv, NEW h \in CascadeHolders, NEW n \in Nodes, ForceRelease(h, n)
  PROVE  TopoInv'
<1> DEFINE new == [do |-> "descend", holder |-> h, node |-> n, reentrant |-> FALSE,
                   path |-> <<n>>, left |-> topoEdges, visited |-> {}, order |-> <<>>]
<1>1. /\ n \in topoNodes /\ UNCHANGED <<topoNodes, topoEdges>> /\ topoScan' = new
  BY DEF ForceRelease
<1>2. topoEdges \in SUBSET (Nodes \X Nodes)
  BY NoCycles
<1>3. new \in OrderScan /\ new.do = "descend"
  BY <1>2 DEF OrderScan
<1>4. Searched(topoEdges, <<n>>, topoEdges, {n}) /\ <<n>>[1] = n
  BY <1>1, <1>2, FromNodeBegins DEF TopoInv
<1>5. FromNode(topoEdges, new, {n})
  BY <1>1, <1>4 DEF FromNode
<1>6. new.visited \cup {new.node} = {n}
  OBVIOUS
<1>7. ToSet(new.order) = new.visited /\ Len(new.order) = 0
  BY NothingOrdered
<1>8. DescendInv(new)
  BY <1>5, <1>6, <1>7 DEF DescendInv
<1>9. PICK rigid \in OrderScan : rigid = new
  BY <1>3
<1> HIDE DEF new
<1> QED
  BY <1>1, <1>3, <1>8, <1>9, OrderMoves

LEMMA ClimbParentKeeps ==
  ASSUME TopoInv, NEW e \in Nodes \X Nodes, ClimbParent(e)
  PROVE  TopoInv'
<1>1. topoScan \in OrderScan /\ ClimbInv(topoScan) /\ topoScan.do = "climb"
  BY ScanIs DEF ClimbParent, Scanning
<1>2. PICK scan \in OrderScan : scan = topoScan
  BY <1>1
<1> DEFINE edges == Parents(topoEdges)
           walked == Walk(scan, e)
           over == Over(scan.path, scan.visited)
<1>3. /\ edges \in SUBSET (Nodes \X Nodes) /\ \A n \in Nodes : n \notin Reach(Nodes, edges, n)
      /\ scan.visited \in SUBSET Nodes /\ scan.path \in Seq(Nodes) /\ scan.order \in Seq(Nodes)
  BY NoCycles DEF OrderScan
<1>4. /\ scan.path # <<>> /\ e \in scan.left /\ e[1] = scan.path[Len(scan.path)]
      /\ UNCHANGED <<topoNodes, topoEdges>>
  BY <1>2 DEF ClimbParent, ToWalk, Last
<1>5. /\ scan.node \in topoNodes /\ scan.node \in scan.visited /\ scan.path[1] = scan.node
      /\ Searched(edges, scan.path, scan.left, scan.visited)
      /\ scan.visited \subseteq {scan.node} \cup Reach(Nodes, edges, scan.node)
      /\ ToSet(scan.order) = over \ {scan.node} /\ Ordered(edges, scan.order)
  BY <1>1, <1>2, <1>4 DEF ClimbInv, FromNode
<1> HIDE DEF edges
<1>6. PICK p : p = e[2]
  OBVIOUS
<1>7. /\ p \in Nodes /\ p \notin ToSet(scan.path) /\ p # scan.node
      /\ p \in scan.visited => p \in over
  <2>1. /\ e[2] \in Nodes /\ e[2] \notin ToSet(scan.path) /\ e[2] # scan.path[1]
        /\ e[2] \in scan.visited => e[2] \in over
    <3> HIDE DEF walked
    <3> QED
      BY <1>3, <1>4, <1>5, NextIsNew
  <2> HIDE DEF over
  <2> QED
    BY <1>5, <1>6, <2>1
<1>8. /\ walked \in OrderScan /\ walked.path = scan.path /\ walked.left = scan.left \ {e}
      /\ walked.visited = scan.visited /\ walked.order = scan.order
      /\ walked.do = "climb" /\ walked.node = scan.node
  BY <1>1, <1>2, OrderWalks
<1>9. topoScan' = IF p \in scan.visited THEN Listed(walked, p) ELSE Visit(walked, p)
  BY <1>2, <1>6 DEF ClimbParent
<1>10. scan.node \notin over
  BY <1>3, <1>4, <1>5, NodeComesLast DEF Over
<1> HIDE DEF walked
<1>11. CASE p \notin scan.visited
  <2> DEFINE new == Visit(walked, p)
  <2>1. /\ new \in OrderScan /\ new.path = Append(scan.path, p) /\ new.left = scan.left \ {e}
        /\ new.visited = scan.visited \cup {p} /\ new.order = scan.order
        /\ new.do = "climb" /\ new.node = scan.node
    <3>1. /\ new \in OrderScan /\ new.path = Append(walked.path, p) /\ new.left = walked.left
          /\ new.visited = walked.visited \cup {p} /\ new.order = walked.order
          /\ new.do = walked.do /\ new.node = walked.node
      BY <1>7, <1>8, OrderVisits
    <3> HIDE DEF new, over
    <3> QED
      BY <1>8, <3>1
  <2>2. Searched(edges, Append(scan.path, p), scan.left \ {e}, scan.visited \cup {p})
    BY <1>3, <1>4, <1>5, <1>6, <1>11, SearchVisits
  <2>3. Over(Append(scan.path, p), scan.visited \cup {p}) = over
    BY <1>3, <1>5, <1>7, <1>11, VisitNotOver DEF Searched
  <2>4. Append(scan.path, p)[1] = scan.node
    <3>1. 1 \in 1..Len(scan.path)
      BY <1>3, <1>4, PathToSet
    <3> QED
      BY <3>1, <1>3, <1>5, <1>7, PathLonger
  <2>5. p \in Reach(Nodes, edges, scan.node)
    BY <1>3, <1>4, <1>5, <1>6, BeyondNode
  <2> HIDE DEF new, over
  <2>6. FromNode(edges, new, new.visited)
    BY <1>5, <2>1, <2>2, <2>4, <2>5 DEF FromNode
  <2>7. ClimbInv(new)
    BY <1>5, <2>1, <2>3, <2>6 DEF ClimbInv, edges
  <2> QED
    BY <1>4, <1>9, <1>11, <2>1, <2>7, OrderMoves DEF new
<1>12. CASE p \in scan.visited
  <2> DEFINE new == Listed(walked, p)
  <2>1. /\ new \in OrderScan /\ new.path = scan.path /\ new.left = scan.left \ {e}
        /\ new.visited = scan.visited /\ new.order = Append(scan.order, p)
        /\ new.do = "climb" /\ new.node = scan.node
    <3>1. /\ new \in OrderScan /\ new.path = walked.path /\ new.left = walked.left
          /\ new.visited = walked.visited /\ new.order = Append(walked.order, p)
          /\ new.do = walked.do /\ new.node = walked.node
      BY <1>7, <1>8, OrderLists
    <3> HIDE DEF new, over
    <3> QED
      BY <1>8, <3>1
  <2>2. Searched(edges, scan.path, scan.left \ {e}, scan.visited)
    BY <1>3, <1>4, <1>5, <1>6, <1>7, <1>12, SearchPasses
  <2>3. ToSet(Append(scan.order, p)) = over \ {scan.node}
    BY <1>3, <1>5, <1>7, <1>12, PathLonger
  <2>4. Reach(Nodes, edges, p) \subseteq over
    BY <1>3, <1>5, <1>7, <1>12, OverIsClosed
  <2>5. Ordered(edges, Append(scan.order, p))
    BY <1>3, <1>5, <1>7, <1>10, <2>4, OrderLonger
  <2> HIDE DEF new, over
  <2>6. FromNode(edges, new, new.visited)
    BY <1>5, <2>1, <2>2 DEF FromNode
  <2>7. ClimbInv(new)
    BY <2>1, <2>3, <2>5, <2>6 DEF ClimbInv, edges, over
  <2> QED
    BY <1>4, <1>9, <1>12, <2>1, <2>7, OrderMoves DEF new
<1> QED
  BY <1>11, <1>12

LEMMA ClimbBackKeeps ==
  ASSUME TopoInv, ClimbBack
  PROVE  TopoInv'
<1>1. topoScan \in OrderScan /\ ClimbInv(topoScan) /\ topoScan.do = "climb"
  BY ScanIs DEF ClimbBack, Scanning
<1>2. PICK scan \in OrderScan : scan = topoScan
  BY <1>1
<1> DEFINE edges == Parents(topoEdges)
           back == Back(scan)
           over == Over(scan.path, scan.visited)
<1>3. /\ edges \in SUBSET (Nodes \X Nodes) /\ \A n \in Nodes : n \notin Reach(Nodes, edges, n)
      /\ scan.visited \in SUBSET Nodes /\ scan.path \in Seq(Nodes) /\ scan.order \in Seq(Nodes)
  BY NoCycles DEF OrderScan
<1>4. PICK n : n = scan.path[Len(scan.path)]
  OBVIOUS
<1>5. /\ scan.path # <<>> /\ \A e \in scan.left : e[1] # n
      /\ UNCHANGED <<topoNodes, topoEdges>>
      /\ topoScan' = IF back.path = <<>> THEN back ELSE Listed(back, n)
  BY <1>2, <1>4 DEF ClimbBack, ToWalk, Last
<1>6. /\ scan.node \in topoNodes /\ scan.node \in scan.visited /\ scan.path[1] = scan.node
      /\ Searched(edges, scan.path, scan.left, scan.visited)
      /\ scan.visited \subseteq {scan.node} \cup Reach(Nodes, edges, scan.node)
      /\ ToSet(scan.order) = over \ {scan.node} /\ Ordered(edges, scan.order)
  BY <1>1, <1>2, <1>5 DEF ClimbInv, FromNode
<1> HIDE DEF edges
<1>7. /\ back \in OrderScan /\ back.path = Front(scan.path) /\ back.left = scan.left
      /\ back.visited = scan.visited /\ back.order = scan.order
      /\ back.do = "climb" /\ back.node = scan.node
  BY <1>1, <1>2, <1>5, OrderBack
<1>8. Searched(edges, Front(scan.path), scan.left, scan.visited)
  BY <1>3, <1>4, <1>5, <1>6, SearchComesBack
<1>9. Over(Front(scan.path), scan.visited) = over \cup {n}
  BY <1>3, <1>4, <1>5, <1>6, WayBackOver
<1>10. n \in scan.visited \ over
  BY <1>3, <1>4, <1>5, <1>6, WayBack
<1>11. \A e \in edges : e[1] = n => e[2] \in over
  BY <1>3, <1>4, <1>5, <1>6, WayBackEdges
<1>12. /\ Len(scan.path) = 1 => n = scan.node
       /\ Len(scan.path) # 1 => n # scan.node /\ Front(scan.path) # <<>>
                                /\ Front(scan.path)[1] = scan.node
       /\ Len(scan.path) = 1 <=> Front(scan.path) = <<>>
       /\ scan.node \notin over
  <2>1. /\ Len(scan.path) = 1 => n = scan.node
        /\ Len(scan.path) # 1 => n # scan.node /\ Front(scan.path) # <<>>
                                 /\ Front(scan.path)[1] = scan.node
        /\ scan.node \in ToSet(scan.path)
    BY <1>3, <1>4, <1>5, <1>6, NodeComesLast
  <2>2. Len(scan.path) = 1 <=> Front(scan.path) = <<>>
    BY <1>3, <1>5, PathShorter
  <2> QED
    BY <2>1, <2>2 DEF Over
<1> HIDE DEF back, over
<1>13. CASE Len(scan.path) = 1
  <2>1. topoScan' = back
    BY <1>5, <1>7, <1>12, <1>13
  <2>2. FromNode(edges, back, back.visited)
    BY <1>6, <1>7, <1>8, <1>12, <1>13 DEF FromNode
  <2>3. ToSet(back.order) = Over(back.path, back.visited) \ {back.node}
    BY <1>6, <1>7, <1>9, <1>12, <1>13
  <2>4. ClimbInv(back)
    BY <1>6, <1>7, <2>2, <2>3 DEF ClimbInv, edges
  <2> QED
    BY <1>5, <1>7, <2>1, <2>4, OrderMoves
<1>14. CASE Len(scan.path) # 1
  <2> DEFINE new == Listed(back, n)
  <2>1. n \in Nodes
    BY <1>3, <1>10
  <2>2. /\ new \in OrderScan /\ new.path = Front(scan.path) /\ new.left = scan.left
        /\ new.visited = scan.visited /\ new.order = Append(scan.order, n)
        /\ new.do = "climb" /\ new.node = scan.node
    BY <1>7, <2>1, OrderLists
  <2>3. ToSet(Append(scan.order, n)) = Over(Front(scan.path), scan.visited) \ {scan.node}
    BY <1>3, <1>6, <1>9, <1>12, <1>14, <2>1, PathLonger
  <2>4. Reach(Nodes, edges, n) \subseteq over
    BY <1>3, <1>6, <1>11, OverIsClosed DEF over
  <2>5. Ordered(edges, Append(scan.order, n))
    BY <1>3, <1>6, <1>12, <2>1, <2>4, OrderLonger
  <2>6. topoScan' = new
    BY <1>5, <1>7, <1>12, <1>14
  <2> HIDE DEF new
  <2>7. FromNode(edges, new, new.visited)
    BY <1>6, <1>8, <1>12, <1>14, <2>2 DEF FromNode
  <2>8. ClimbInv(new)
    BY <2>2, <2>3, <2>5, <2>7 DEF ClimbInv, edges
  <2> QED
    BY <1>5, <2>2, <2>6, <2>8, OrderMoves
<1> QED
  BY <1>13, <1>14

LEMMA DescendChildKeeps ==
  ASSUME TopoInv, NEW e \in Nodes \X Nodes, DescendChild(e)
  PROVE  TopoInv'
<1>1. topoScan \in OrderScan /\ DescendInv(topoScan) /\ topoScan.do = "descend"
  BY ScanIs DEF DescendChild, Scanning
<1>2. PICK scan \in OrderScan : scan = topoScan
  BY <1>1
<1> DEFINE edges == topoEdges
           walked == Walk(scan, e)
<1>3. PICK visited : visited = scan.visited \cup {scan.node}
  OBVIOUS
<1>4. /\ edges \in SUBSET (Nodes \X Nodes) /\ \A n \in Nodes : n \notin Reach(Nodes, edges, n)
      /\ scan.visited \in SUBSET Nodes /\ visited \in SUBSET Nodes
      /\ scan.path \in Seq(Nodes) /\ scan.order \in Seq(Nodes)
  BY <1>3, NoCycles DEF OrderScan
<1>5. /\ scan.path # <<>> /\ e \in scan.left /\ e[1] = scan.path[Len(scan.path)]
      /\ UNCHANGED <<topoNodes, topoEdges>>
  BY <1>2 DEF DescendChild, ToWalk, Last
<1>6. /\ scan.node \in topoNodes /\ scan.node \in visited /\ scan.path[1] = scan.node
      /\ Searched(edges, scan.path, scan.left, visited)
      /\ visited \subseteq {scan.node} \cup Reach(Nodes, edges, scan.node)
      /\ scan.node \notin scan.visited /\ ToSet(scan.order) = scan.visited
      /\ \A i, j \in 1..Len(scan.order) : i # j => scan.order[i] # scan.order[j]
  BY <1>1, <1>2, <1>3, <1>5 DEF DescendInv, FromNode
<1> HIDE DEF edges
<1>7. PICK c : c = e[2]
  OBVIOUS
<1>8. /\ c \in Nodes /\ c \notin ToSet(scan.path) /\ c # scan.node
      /\ c \in visited => c \in Over(scan.path, visited)
  BY <1>4, <1>5, <1>6, <1>7, NextIsNew
<1>9. /\ walked \in OrderScan /\ walked.path = scan.path /\ walked.left = scan.left \ {e}
      /\ walked.visited = scan.visited /\ walked.order = scan.order
      /\ walked.do = "descend" /\ walked.node = scan.node
  BY <1>1, <1>2, OrderWalks
<1>10. topoScan' = IF c \in scan.visited THEN walked ELSE Listed(Visit(walked, c), c)
  BY <1>2, <1>7 DEF DescendChild
<1> HIDE DEF walked
<1>11. CASE c \notin scan.visited
  <2> DEFINE new == Listed(Visit(walked, c), c)
  <2>1. /\ new \in OrderScan /\ new.path = Append(scan.path, c) /\ new.left = scan.left \ {e}
        /\ new.visited = scan.visited \cup {c} /\ new.order = Append(scan.order, c)
        /\ new.do = "descend" /\ new.node = scan.node
    <3>1. /\ Visit(walked, c) \in OrderScan /\ Visit(walked, c).path = Append(walked.path, c)
          /\ Visit(walked, c).left = walked.left
          /\ Visit(walked, c).visited = walked.visited \cup {c}
          /\ Visit(walked, c).order = walked.order
          /\ Visit(walked, c).do = walked.do /\ Visit(walked, c).node = walked.node
      BY <1>8, <1>9, OrderVisits
    <3>2. PICK there \in OrderScan : there = Visit(walked, c)
      BY <3>1
    <3>3. /\ Listed(there, c) \in OrderScan
          /\ Listed(there, c).path = there.path /\ Listed(there, c).left = there.left
          /\ Listed(there, c).visited = there.visited
          /\ Listed(there, c).order = Append(there.order, c)
          /\ Listed(there, c).do = there.do /\ Listed(there, c).node = there.node
      BY <1>8, OrderLists
    <3> QED
      BY <1>9, <3>1, <3>2, <3>3
  <2>2. c \notin visited
    BY <1>3, <1>8, <1>11
  <2>3. Searched(edges, Append(scan.path, c), scan.left \ {e}, visited \cup {c})
    BY <1>4, <1>5, <1>6, <1>7, <2>2, SearchVisits
  <2>4. Append(scan.path, c)[1] = scan.node
    <3>1. 1 \in 1..Len(scan.path)
      BY <1>4, <1>5, PathToSet
    <3> QED
      BY <3>1, <1>4, <1>6, <1>8, PathLonger
  <2>5. c \in Reach(Nodes, edges, scan.node)
    BY <1>4, <1>5, <1>6, <1>7, BeyondNode
  <2>6. ToSet(Append(scan.order, c)) = scan.visited \cup {c}
    BY <1>4, <1>6, <1>8, PathLonger
  <2>7. \A i, j \in 1..Len(Append(scan.order, c)) :
          i # j => Append(scan.order, c)[i] # Append(scan.order, c)[j]
    BY <1>4, <1>6, <1>8, <1>11, OnceMore
  <2> HIDE DEF new
  <2>8. (scan.visited \cup {c}) \cup {scan.node} = visited \cup {c}
    BY <1>3
  <2>9. FromNode(edges, new, visited \cup {c})
    BY <1>6, <2>1, <2>3, <2>4, <2>5 DEF FromNode
  <2>10. DescendInv(new)
    BY <1>6, <1>8, <2>1, <2>6, <2>7, <2>8, <2>9 DEF DescendInv, edges
  <2> QED
    BY <1>5, <1>10, <1>11, <2>1, <2>10, OrderMoves DEF new
<1>12. CASE c \in scan.visited
  <2>1. Searched(edges, scan.path, scan.left \ {e}, visited)
    BY <1>3, <1>4, <1>5, <1>6, <1>7, <1>8, <1>12, SearchPasses
  <2>2. FromNode(edges, walked, visited)
    BY <1>6, <1>9, <2>1 DEF FromNode
  <2>3. DescendInv(walked)
    BY <1>3, <1>6, <1>9, <2>2 DEF DescendInv, edges
  <2> QED
    BY <1>5, <1>9, <1>10, <1>12, <2>3, OrderMoves
<1> QED
  BY <1>11, <1>12

LEMMA DescendBackKeeps ==
  ASSUME TopoInv, DescendBack
  PROVE  TopoInv'
<1>1. topoScan \in OrderScan /\ DescendInv(topoScan) /\ topoScan.do = "descend"
  BY ScanIs DEF DescendBack, Scanning
<1>2. PICK scan \in OrderScan : scan = topoScan
  BY <1>1
<1> DEFINE edges == topoEdges
           new == Back(scan)
<1>3. PICK visited : visited = scan.visited \cup {scan.node}
  OBVIOUS
<1>4. /\ edges \in SUBSET (Nodes \X Nodes) /\ visited \in SUBSET Nodes
      /\ scan.path \in Seq(Nodes)
  BY <1>3, NoCycles DEF OrderScan
<1>5. PICK n : n = scan.path[Len(scan.path)]
  OBVIOUS
<1>6. /\ scan.path # <<>> /\ \A e \in scan.left : e[1] # n
      /\ UNCHANGED <<topoNodes, topoEdges>> /\ topoScan' = new
  BY <1>2, <1>5 DEF DescendBack, ToWalk, Last
<1>7. /\ scan.node \in topoNodes /\ scan.node \in visited /\ scan.path[1] = scan.node
      /\ Searched(edges, scan.path, scan.left, visited)
      /\ visited \subseteq {scan.node} \cup Reach(Nodes, edges, scan.node)
      /\ scan.node \notin scan.visited /\ ToSet(scan.order) = scan.visited
      /\ \A i, j \in 1..Len(scan.order) : i # j => scan.order[i] # scan.order[j]
  BY <1>1, <1>2, <1>3, <1>6 DEF DescendInv, FromNode
<1> HIDE DEF edges
<1>8. /\ new \in OrderScan /\ new.path = Front(scan.path) /\ new.left = scan.left
      /\ new.visited = scan.visited /\ new.order = scan.order
      /\ new.do = "descend" /\ new.node = scan.node
  BY <1>1, <1>2, <1>6, OrderBack
<1>9. Searched(edges, Front(scan.path), scan.left, visited)
  BY <1>4, <1>5, <1>6, <1>7, SearchComesBack
<1>10. Front(scan.path) # <<>> => Front(scan.path)[1] = scan.node
  <2>1. Len(scan.path) = 1 <=> Front(scan.path) = <<>>
    BY <1>4, <1>6, PathShorter
  <2> QED
    BY <1>4, <1>6, <1>7, <2>1, NodeComesLast
<1> HIDE DEF new
<1>11. FromNode(edges, new, visited)
  BY <1>7, <1>8, <1>9, <1>10 DEF FromNode
<1>12. DescendInv(new)
  BY <1>3, <1>7, <1>8, <1>11 DEF DescendInv, edges
<1> QED
  BY <1>6, <1>8, <1>12, OrderMoves

-----------------------------------------------------------------------------
LEMMA TopoStarts == ASSUME TopoInit PROVE TopoInv
<1>1. \A n \in Nodes : NoCycleAt({}, n)
  <2>1. {} \in SUBSET Nodes /\ {} \in SUBSET ({} \X {})
    OBVIOUS
  <2> QED
    BY <2>1, NoCycleOutside
<1>2. ~Scanning("check") /\ ~Scanning("climb") /\ ~Scanning("descend")
  BY DEF TopoInit, Scanning
<1> QED
  BY <1>1, <1>2 DEF TopoInit, TopoInv

(* The steps that leave the graph as it is, and no search under way        *)
LEMMA GraphRests ==
  ASSUME TopoInv, UNCHANGED <<topoNodes, topoEdges>>, topoScan' \in {topoScan, None}
  PROVE  TopoInv'
<1>1. CASE topoScan' = None
  BY <1>1, ScanEnds DEF TopoInv
<1>2. CASE topoScan' = topoScan
  BY <1>2 DEF TopoInv, Scanning, CheckInv, ClimbInv, DescendInv, FromNode
<1> QED
  BY <1>1, <1>2

LEMMA TopoStep ==
  ASSUME TopoInv, [TopoNext]_<<topoNodes, topoEdges, topoScan>>
  PROVE  TopoInv'
<1>1. ASSUME NEW n \in Nodes, NEW to \in Nodes,
             RegisterNode(n) \/ DeclareEdge(n, to) \/ RemoveEdge(n, to)
      PROVE  TopoInv'
  BY <1>1, RegisterNodeKeeps, DeclareKeeps, RemoveEdgeKeeps
<1>2. ASSUME NEW h \in CascadeHolders, NEW n \in Nodes, NEW reentrant \in BOOLEAN,
             CascadeAcquire(h, n, reentrant)
      PROVE  TopoInv'
  BY <1>2, ClimbBegins
<1>3. ASSUME NEW h \in CascadeHolders, NEW n \in Nodes, ForceRelease(h, n)
      PROVE  TopoInv'
  BY <1>3, DescendBegins
<1>4. ASSUME NEW h \in CascadeHolders, NEW n \in Nodes, CascadeRelease(h, n)
      PROVE  TopoInv'
  BY <1>4, GraphRests DEF CascadeRelease
<1>5. ASSUME NEW n \in Nodes, CheckFrom(n)
      PROVE  TopoInv'
  BY <1>5, CheckFromKeeps
<1>6. ASSUME NEW e \in Nodes \X Nodes, CheckChild(e) \/ ClimbParent(e) \/ DescendChild(e)
      PROVE  TopoInv'
  BY <1>6, CheckChildKeeps, ClimbParentKeeps, DescendChildKeeps
<1>7. ASSUME CheckBack \/ CheckPassed \/ ClimbBack \/ DescendBack
      PROVE  TopoInv'
  BY <1>7, CheckBackKeeps, CheckPassedKeeps, ClimbBackKeeps, DescendBackKeeps
<1>8. ASSUME CascadesNext
      PROVE  TopoInv'
  BY <1>8, GraphRests DEF CascadesNext, Climbed, Descended
<1>9. CASE UNCHANGED <<topoNodes, topoEdges, topoScan>>
  BY <1>9, GraphRests
<1>10. CASE TopoNext
  BY <1>10, <1>1, <1>2, <1>3, <1>4, <1>5, <1>6, <1>7, <1>8
     DEF TopoNext, GraphChanges, CascadeStarts, ScanSteps
<1> QED
  BY <1>9, <1>10

LEMMA TopoInvariant == TopoSpec => []TopoInv
<1>1. TopoInit => TopoInv
  BY TopoStarts
<1>2. TopoInv /\ [TopoNext]_<<topoNodes, topoEdges, topoScan>> => TopoInv'
  BY TopoStep
<1> QED
  BY <1>1, <1>2, PTL DEF TopoSpec

(* What the search for ancestors has listed when it is back from its node  *)
LEMMA ClimbListsAll ==
  ASSUME TopoInv, Scanning("climb"), topoScan.path = <<>>
  PROVE  /\ ToSet(topoScan.order) = Above(topoScan.node)
         /\ Ordered(Parents(topoEdges), topoScan.order)
<1>1. topoScan \in OrderScan /\ ClimbInv(topoScan)
  BY ScanIs
<1>2. PICK scan \in OrderScan : scan = topoScan
  BY <1>1
<1> DEFINE edges == Parents(topoEdges)
<1>3. /\ scan.node \in topoNodes /\ scan.node \in scan.visited
      /\ Searched(edges, scan.path, scan.left, scan.visited)
      /\ scan.visited \subseteq {scan.node} \cup Reach(Nodes, edges, scan.node)
      /\ ToSet(scan.order) = Over(scan.path, scan.visited) \ {scan.node}
      /\ Ordered(edges, scan.order)
  BY <1>1, <1>2 DEF ClimbInv, FromNode
<1>4. /\ edges \in SUBSET (Nodes \X Nodes) /\ scan.visited \in SUBSET Nodes
      /\ scan.node \notin Reach(Nodes, edges, scan.node)
  BY NoCycles DEF OrderScan
<1> HIDE DEF edges
<1>5. Over(scan.path, scan.visited) = scan.visited
  BY <1>2 DEF Over, ToSet
<1>6. scan.node \in Over(scan.path, scan.visited)
  BY <1>3, <1>5
<1>7. Reach(Nodes, edges, scan.node) \subseteq Over(scan.path, scan.visited)
  BY <1>3, <1>4, <1>6, OverIsClosed
<1>8. ToSet(scan.order) = Reach(Nodes, edges, scan.node)
  <2> HIDE DEF ToSet
  <2> QED
    BY <1>3, <1>4, <1>5, <1>7
<1> QED
  BY <1>2, <1>3, <1>8 DEF edges, Above

(* Ancestors are locked first, and all of them, in any graph: of any nodes *)
(* and edges, declared and removed in any order, whichever way the lists   *)
(* of parents are walked (collectAncestorsLocked, hasCycleDFS).            *)
THEOREM AncestorsCorrect == TopoSpec => []AncestorsFirst
<1>1. TopoInv => AncestorsFirst
  <2> SUFFICES ASSUME TopoInv PROVE AncestorsFirst
    OBVIOUS
  <2>1. \A n \in topoNodes : n \notin Above(n)
    BY DEF TopoInv, NoCycleAt, Above
  <2>2. ASSUME Scanning("climb"), topoScan.path = <<>>
        PROVE  LET order == topoScan.order
               IN  /\ ToSet(order) = Above(topoScan.node)
                   /\ \A i \in DOMAIN order :
                        Above(order[i]) \subseteq ToSet(SubSeq(order, 1, i - 1))
    <3>1. topoScan \in OrderScan
      BY <2>2, ScanIs
    <3>2. DOMAIN topoScan.order = 1..Len(topoScan.order)
      BY <3>1 DEF OrderScan
    <3> QED
      BY <2>2, <3>2, ClimbListsAll DEF Ordered, Above
  <2> QED
    BY <2>1, <2>2 DEF AncestorsFirst
<1> QED
  BY <1>1, TopoInvariant, PTL

(* A forced release goes to every descendant of its node and to nobody     *)
(* else, to each once, before the node itself.                             *)
DescendantsOnce ==
  Scanning("descend") /\ topoScan.path = <<>> =>
    /\ ToSet(topoScan.order) = Reach(Nodes, topoEdges, topoScan.node)
    /\ IsInjective(topoScan.order)

(* What CascadeRelease with force releases is right (see DescendantsOnce), *)
(* though the search does not visit the node itself: no path leads back.   *)
THEOREM DescendantsCorrect == TopoSpec => []DescendantsOnce
<1>1. TopoInv => DescendantsOnce
  <2> SUFFICES ASSUME TopoInv, Scanning("descend"), topoScan.path = <<>>
               PROVE  /\ ToSet(topoScan.order) = Reach(Nodes, topoEdges, topoScan.node)
                      /\ IsInjective(topoScan.order)
    BY DEF DescendantsOnce
  <2>1. topoScan \in OrderScan /\ DescendInv(topoScan)
    BY ScanIs
  <2>2. PICK scan \in OrderScan : scan = topoScan
    BY <2>1
  <2>3. PICK visited : visited = scan.visited \cup {scan.node}
    OBVIOUS
  <2>4. /\ scan.node \in visited
        /\ Searched(topoEdges, scan.path, scan.left, visited)
        /\ visited \subseteq {scan.node} \cup Reach(Nodes, topoEdges, scan.node)
        /\ ToSet(scan.order) = scan.visited /\ scan.node \notin scan.visited
        /\ \A i, j \in 1..Len(scan.order) : i # j => scan.order[i] # scan.order[j]
    BY <2>1, <2>2, <2>3 DEF DescendInv, FromNode
  <2>5. /\ topoEdges \in SUBSET (Nodes \X Nodes) /\ visited \in SUBSET Nodes
        /\ scan.node \notin Reach(Nodes, topoEdges, scan.node)
        /\ scan.order \in Seq(Nodes)
    BY <2>3, NoCycles DEF OrderScan
  <2>6. Over(scan.path, visited) = visited
    BY <2>2 DEF Over, ToSet
  <2>7. scan.node \in Over(scan.path, visited)
    BY <2>4, <2>6
  <2>8. Reach(Nodes, topoEdges, scan.node) \subseteq Over(scan.path, visited)
    BY <2>4, <2>5, <2>7, OverIsClosed
  <2>9. ToSet(scan.order) = Reach(Nodes, topoEdges, scan.node)
    <3> HIDE DEF ToSet
    <3>1. scan.visited = visited \ {scan.node}
      BY <2>3, <2>4
    <3>2. Reach(Nodes, topoEdges, scan.node) = visited \ {scan.node}
      BY <2>4, <2>5, <2>6, <2>8
    <3> QED
      BY <2>4, <3>1, <3>2
  <2>10. IsInjective(scan.order)
    BY <2>4, <2>5 DEF IsInjective
  <2> QED
    BY <2>2, <2>9, <2>10
<1> QED
  BY <1>1, TopoInvariant, PTL

(* An edge is refused only if the graph with it would have a cycle.        *)
EdgeRefused == Scanning("check") /\ topoScan' = None /\ topoEdges' = topoEdges
RefusedForACycle ==
  [][EdgeRefused => \E n \in topoNodes : ~NoCycleAt(topoEdges \cup {topoScan.edge}, n)]_<<
    topoNodes, topoEdges, topoScan>>

(* DeclareEdge answers "edge would create a cycle" only where one would be *)
(* (see RefusedForACycle): a node on recStack is one the search came from. *)
THEOREM RefusalsCorrect == TopoSpec => RefusedForACycle
<1> DEFINE Justified == EdgeRefused =>
             \E n \in topoNodes : ~NoCycleAt(topoEdges \cup {topoScan.edge}, n)
<1>1. ASSUME TopoInv, TopoNext, EdgeRefused
      PROVE  \E n \in topoNodes : ~NoCycleAt(topoEdges \cup {topoScan.edge}, n)
  <2>1. topoScan \in CheckScan /\ CheckInv(topoScan) /\ topoEdges \in SUBSET (Nodes \X Nodes)
    BY <1>1, ScanIs DEF EdgeRefused
  <2>2. PICK scan \in CheckScan : scan = topoScan
    BY <2>1
  <2>3. PICK edges : edges = topoEdges \cup {scan.edge}
    OBVIOUS
  <2>4. /\ Searched(edges, scan.path, scan.left, scan.visited)
        /\ scan.edge \in (topoNodes \X topoNodes) \ topoEdges /\ scan.visited \subseteq topoNodes
        /\ edges \in SUBSET (Nodes \X Nodes) /\ scan.path \in Seq(Nodes)
    BY <2>1, <2>2, <2>3 DEF CheckInv, CheckScan
  <2>5. topoScan # None /\ topoScan' = None /\ topoEdges' = topoEdges /\ topoScan.do = "check"
    BY <1>1 DEF EdgeRefused, Scanning
  <2>6. PICK e \in Nodes \X Nodes : CheckChild(e)
    <3>1. ~GraphChanges
      BY <2>5 DEF GraphChanges, RegisterNode, DeclareEdge, RemoveEdge, MuFree
    <3>2. ~CascadeStarts
      BY <2>5 DEF CascadeStarts, CascadeAcquire, CascadeRelease, ForceRelease, MuFree
    <3>3. ~CascadesNext
      BY <2>5 DEF CascadesNext, Climbed, Descended, Scanning
    <3>4. ~CheckPassed
      BY <2>1, <2>4, <2>2, <2>5 DEF CheckPassed, CreateTopoEdge
    <3>5. ~(ClimbBack \/ DescendBack)
      BY <2>5 DEF ClimbBack, DescendBack, Scanning
    <3>6. \A e \in Nodes \X Nodes : ~(ClimbParent(e) \/ DescendChild(e))
      BY <2>5 DEF ClimbParent, DescendChild, Scanning
    <3>7. ~CheckBack
      <4> SUFFICES ASSUME CheckBack PROVE FALSE
        OBVIOUS
      <4>1. None = Back(scan)
        BY <2>2, <2>5 DEF CheckBack
      <4>2. scan.path # <<>>
        BY <2>2 DEF CheckBack
      <4>3. scan.edge \in Nodes \X Nodes /\ scan.edge[1] \in Nodes
        BY <2>1 DEF CheckScan
      <4>4. Back(scan) \in CheckScan
        BY <4>2, <4>3, CheckParts
      <4> QED
        BY <4>1, <4>4, TopologyAssumption
    <3>8. ASSUME NEW n \in Nodes, CheckFrom(n) PROVE FALSE
      <4>1. None = Visit(scan, n)
        BY <2>2, <2>5, <3>8 DEF CheckFrom
      <4>2. scan.edge \in Nodes \X Nodes
        BY <2>1 DEF CheckScan
      <4>3. Visit(scan, n) \in CheckScan
        BY <4>2, CheckParts
      <4> QED
        BY <4>1, <4>3, TopologyAssumption
    <3> QED
      BY <1>1, <3>1, <3>2, <3>3, <3>4, <3>5, <3>6, <3>7, <3>8 DEF TopoNext, ScanSteps
  <2>7. /\ scan.path # <<>> /\ e \in scan.left /\ e[1] = scan.path[Len(scan.path)]
    BY <2>2, <2>6 DEF CheckChild, ToWalk, Last
  <2>8. e[2] \in ToSet(scan.path)
    <3> SUFFICES ASSUME e[2] \notin ToSet(scan.path) PROVE FALSE
      OBVIOUS
    <3>1. PICK walked : walked = Walk(scan, e)
      OBVIOUS
    <3>2. walked \in CheckScan /\ e[2] \in Nodes
      BY <3>1, CheckParts
    <3>3. Visit(walked, e[2]) \in CheckScan
      BY <3>2, CheckParts
    <3>4. topoScan' = Visit(walked, e[2]) \/ topoScan' = walked
      BY <2>2, <2>6, <3>1 DEF CheckChild
    <3> QED
      BY <2>5, <3>2, <3>3, <3>4, TopologyAssumption
  <2>9. e[2] \in Reach(Nodes, edges, e[2])
    BY <2>4, <2>7, <2>8, BackToPath
  <2>10. ~NoCycleAt(edges, e[2])
    <3>1. e[2] \in Nodes
      OBVIOUS
    <3> QED
      BY <2>4, <2>9, <3>1, CycleTurned
  <2>11. e[2] \in topoNodes
    BY <2>4, <2>8 DEF Searched
  <2> QED
    BY <2>2, <2>3, <2>10, <2>11
<1>2. TopoInv /\ [TopoNext]_<<topoNodes, topoEdges, topoScan>>
        => [Justified]_<<topoNodes, topoEdges, topoScan>>
  BY <1>1
<1> QED
  BY <1>2, TopoInvariant, PTL DEF TopoSpec, RefusedForACycle
=============================================================================
