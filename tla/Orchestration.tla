---------------------------- MODULE Orchestration ----------------------------
(***************************************************************************)
(* The transactions of internal/orchestration/manager.go: all the locks    *)
(* and tokens a transaction asks for, or none; a committed transaction     *)
(* ends by release or when its time is up, also when the process restarts. *)
(*                                                                         *)
(* A method holds Manager.mu all the while and calls the lock manager and  *)
(* the rate limiter; each call is a step, with the row that records it.    *)
(* txJob is what the method under mu still does.                           *)
(*                                                                         *)
(* A definition whose comment begins "Faulty:" is no part of the model: it *)
(* is a slip one could make in the definition after it.                    *)
(***************************************************************************)
EXTENDS LockCalls

CONSTANTS
  Txs,            \* bound: transactions, by the order they are created in
  TxSpecs,        \* requests: holder, locks (sorted by name), token callers
  TxCrashes       \* bound on crashes

VARIABLES
  txs,            \* table orch_txs: status and request
  txLocks,        \* table orch_tx_locks, by transaction
  txTokens,       \* table orch_tx_tokens, by transaction
  txOver,         \* transactions whose expires_at has passed
  txTimers,       \* Manager.timers
  txFired,        \* timeoutTx calls that wait for mu
  txJob,          \* what the method under mu still does
  txUp,           \* the process runs
  txPaid,         \* history: tokens requested for a transaction and not returned
  txCrashed,      \* how often the process has died
  txTorn          \* history: transactions whose method a crash cut short

txTables == <<txs, txLocks, txTokens>>
txMemory == <<txTimers, txFired, txJob, txUp>>
txHistory == <<txPaid, txCrashed, txTorn>>
txVars == <<txTables, txMemory, txOver, txHistory>>

TxStatus == {"created", "committed", "rolled_back", "released", "timed_out"}
TxEntry == [status : TxStatus, spec : TxSpecs]
TxPart == Locks \cup STRING    \* a lock, or a caller whose tokens it asks for
TxJob ==
  [do : {"lock", "token", "undo tokens", "undo locks", "release", "time out",
         "time out tokens"},
   tx : Txs, left : Seq(TxPart)]

ASSUME TxAssumption ==
  /\ \A spec \in TxSpecs : spec.locks \in Seq(Locks) /\ spec.callers \in Seq(STRING)
  /\ None \notin TxEntry \cup TxJob

TxInit ==
  /\ txs = [t \in Txs |-> None]
  /\ txLocks = [t \in Txs |-> <<>>] /\ txTokens = [t \in Txs |-> <<>>]
  /\ txOver = {} /\ txTimers = {} /\ txFired = {}
  /\ txJob = None /\ txUp = TRUE
  /\ txPaid = [t \in Txs |-> 0] /\ txCrashed = 0 /\ txTorn = {}

TxFree == txUp /\ txJob = None
TxDoing(what) == txJob # None /\ txJob.do = what
TxHolder == txs[txJob.tx].spec.holder
CreateOrchTx(t, spec) == txs' = [txs EXCEPT ![t] = [status |-> "created", spec |-> spec]]
TxRow(t, status) == txs' = [txs EXCEPT ![t].status = status]

-----------------------------------------------------------------------------
(* CreateTx *)

CreateTx(t, spec) ==
  /\ TxFree /\ txs[t] = None
  /\ \A u \in Txs : u < t => txs[u] # None
  /\ CreateOrchTx(t, spec)
  /\ txJob' = [do |-> "lock", tx |-> t, left |-> spec.locks]
  /\ UNCHANGED <<lockVars, txLocks, txTokens, txTimers, txFired, txUp, txOver, txHistory>>

(* The tokens granted, last first, then the locks acquired, last first     *)
RollBack(t) == [do |-> "undo tokens", tx |-> t, left |-> Reverse(txTokens[t])]

AddTxLock(t, l) == txLocks' = [txLocks EXCEPT ![t] = Append(@, l)]
AddTxToken(t, c) == txTokens' = [txTokens EXCEPT ![t] = Append(@, c)]

TxAcquire ==
  /\ TxDoing("lock") /\ txJob.left # <<>>
  /\ LET l == Head(txJob.left)
     IN  \/ /\ Acquire(l, TxHolder, FALSE, "acquired")
            /\ AddTxLock(txJob.tx, l)
            /\ txJob' = [txJob EXCEPT !.left = Tail(@)]
         \/ /\ \E answer \in {"queued", "deadlock", "error", "rejected"} :
                 Acquire(l, TxHolder, FALSE, answer)
            /\ txJob' = RollBack(txJob.tx)
            /\ UNCHANGED txLocks
  /\ UNCHANGED <<txs, txTokens, txTimers, txFired, txUp, txOver, txHistory>>

TxLocked ==
  /\ TxDoing("lock") /\ txJob.left = <<>>
  /\ txJob' = [do |-> "token", tx |-> txJob.tx, left |-> txs[txJob.tx].spec.callers]
  /\ UNCHANGED <<lockVars, txTables, txTimers, txFired, txUp, txOver, txHistory>>

TxRequestTokens ==
  /\ TxDoing("token") /\ txJob.left # <<>>
  /\ \/ /\ AddTxToken(txJob.tx, Head(txJob.left))
        /\ txPaid' = [txPaid EXCEPT ![txJob.tx] = @ + 1]
        /\ txJob' = [txJob EXCEPT !.left = Tail(@)]
     \/ /\ txJob' = RollBack(txJob.tx)
        /\ UNCHANGED <<txTokens, txPaid>>
  /\ UNCHANGED <<lockVars, txs, txLocks, txTimers, txFired, txUp, txOver, txCrashed, txTorn>>

TxCommit ==
  /\ TxDoing("token") /\ txJob.left = <<>>
  /\ TxRow(txJob.tx, "committed")
  /\ txTimers' = txTimers \cup {txJob.tx}
  /\ txJob' = None
  /\ UNCHANGED <<lockVars, txLocks, txTokens, txFired, txUp, txOver, txHistory>>

-----------------------------------------------------------------------------
(* The ends of a transaction: in what order its parts are given back *)

TxReturnTokens ==
  /\ txJob # None /\ txJob.do \in {"undo tokens", "time out tokens"} /\ txJob.left # <<>>
  /\ txPaid' = [txPaid EXCEPT ![txJob.tx] = @ - 1]
  /\ txJob' = [txJob EXCEPT !.left = Tail(@)]
  /\ UNCHANGED <<lockVars, txTables, txTimers, txFired, txUp, txOver, txCrashed, txTorn>>

TxUndoLocks ==
  /\ TxDoing("undo tokens") /\ txJob.left = <<>>
  /\ txJob' = [do |-> "undo locks", tx |-> txJob.tx, left |-> Reverse(txLocks[txJob.tx])]
  /\ UNCHANGED <<lockVars, txTables, txTimers, txFired, txUp, txOver, txHistory>>

TxReleaseLock ==
  /\ txJob # None /\ txJob.do \in {"undo locks", "release", "time out"} /\ txJob.left # <<>>
  /\ Release(Head(txJob.left), TxHolder)
  /\ txJob' = [txJob EXCEPT !.left = Tail(@)]
  /\ UNCHANGED <<txTables, txTimers, txFired, txUp, txOver, txHistory>>

(* A lock that it queued for may have been granted to it since.            *)
TxRolledBack ==
  /\ TxDoing("undo locks") /\ txJob.left = <<>>
  /\ CancelWaits(TxHolder)
  /\ TxRow(txJob.tx, "rolled_back")
  /\ txJob' = None
  /\ UNCHANGED <<txLocks, txTokens, txTimers, txFired, txUp, txOver, txHistory>>

ReleaseTx(t) ==
  /\ TxFree /\ txs[t] # None /\ txs[t].status = "committed"
  /\ txJob' = [do |-> "release", tx |-> t, left |-> txLocks[t]]
  /\ UNCHANGED <<lockVars, txTables, txTimers, txFired, txUp, txOver, txHistory>>

(* stopTxTimerLocked does not take back a callback that waits for mu.      *)
TxReleased ==
  /\ TxDoing("release") /\ txJob.left = <<>>
  /\ txTimers' = txTimers \ {txJob.tx}
  /\ TxRow(txJob.tx, "released")
  /\ txJob' = None
  /\ UNCHANGED <<lockVars, txLocks, txTokens, txFired, txUp, txOver, txHistory>>

TxTimerFires(t) ==
  /\ txUp /\ t \in txTimers /\ t \in txOver /\ t \notin txFired
  /\ txFired' = txFired \cup {t}
  /\ UNCHANGED <<lockVars, txTables, txTimers, txJob, txUp, txOver, txHistory>>

(* Faulty: times out whatever the transaction has become meanwhile         *)
TimeoutTxUnchecked(t) ==
  /\ TxFree /\ t \in txFired
  /\ txFired' = txFired \ {t}
  /\ txJob' = [do |-> "time out", tx |-> t, left |-> txLocks[t]]
  /\ UNCHANGED <<lockVars, txTables, txTimers, txUp, txOver, txHistory>>

TimeoutTx(t) ==
  /\ TxFree /\ t \in txFired
  /\ txFired' = txFired \ {t}
  /\ txJob' = IF txs[t].status = "committed"
              THEN [do |-> "time out", tx |-> t, left |-> txLocks[t]] ELSE None
  /\ UNCHANGED <<lockVars, txTables, txTimers, txUp, txOver, txHistory>>

TxTimeoutTokens ==
  /\ TxDoing("time out") /\ txJob.left = <<>>
  /\ txJob' = [do |-> "time out tokens", tx |-> txJob.tx, left |-> txTokens[txJob.tx]]
  /\ UNCHANGED <<lockVars, txTables, txTimers, txFired, txUp, txOver, txHistory>>

TxTimedOut ==
  /\ TxDoing("time out tokens") /\ txJob.left = <<>>
  /\ txTimers' = txTimers \ {txJob.tx}
  /\ TxRow(txJob.tx, "timed_out")
  /\ txJob' = None
  /\ UNCHANGED <<lockVars, txLocks, txTokens, txFired, txUp, txOver, txHistory>>

-----------------------------------------------------------------------------
(* Time, crash, restart *)

TxExpires(t) ==
  /\ txs[t] # None /\ t \notin txOver
  /\ txOver' = txOver \cup {t}
  /\ UNCHANGED <<lockVars, txTables, txMemory, txHistory>>

TxCrash ==
  /\ txUp /\ txCrashed < TxCrashes
  /\ txUp' = FALSE /\ txJob' = None /\ txTimers' = {} /\ txFired' = {}
  /\ txCrashed' = txCrashed + 1
  /\ txTorn' = txTorn \cup {t \in Txs : txJob # None /\ txJob.tx = t}
  /\ UNCHANGED <<lockVars, txTables, txOver, txPaid>>

ListActiveOrchTxs == {t \in Txs : txs[t] # None /\ txs[t].status = "committed"}

(* Faulty: arms a timer for those still in time and leaves the others      *)
TxStartLate ==
  /\ ~txUp /\ txUp' = TRUE
  /\ txTimers' = ListActiveOrchTxs \ txOver
  /\ txFired' = {}
  /\ UNCHANGED <<lockVars, txTables, txJob, txOver, txHistory>>

(* rebuildTimersLocked *)
TxStart ==
  /\ ~txUp /\ txUp' = TRUE
  /\ txTimers' = ListActiveOrchTxs \ txOver
  /\ txFired' = ListActiveOrchTxs \cap txOver
  /\ UNCHANGED <<lockVars, txTables, txJob, txOver, txHistory>>

TxSteps ==
  \/ TxAcquire \/ TxLocked \/ TxRequestTokens \/ TxCommit
  \/ TxReturnTokens \/ TxUndoLocks \/ TxReleaseLock \/ TxRolledBack
  \/ TxReleased \/ TxTimeoutTokens \/ TxTimedOut

TxNext ==
  \/ TxSteps \/ TxCrash \/ TxStart
  \/ \E t \in Txs :
       \/ \E spec \in TxSpecs : CreateTx(t, spec)
       \/ ReleaseTx(t) \/ TimeoutTx(t) \/ TxTimerFires(t) \/ TxExpires(t)

(* The runtime fires due timers and lets a waiting callback have mu; time  *)
(* goes by; whoever runs the server starts it again.                       *)
TxFairness ==
  /\ WF_<<lockVars, txVars>>(TxSteps)
  /\ WF_<<lockVars, txVars>>(TxStart)
  /\ \A t \in Txs : /\ WF_<<lockVars, txVars>>(TxTimerFires(t))
                    /\ SF_<<lockVars, txVars>>(TimeoutTx(t))
                    /\ WF_<<lockVars, txVars>>(TxExpires(t))

-----------------------------------------------------------------------------
(* Properties *)

(* Tokens come back once: all of them when a transaction is rolled back or *)
(* timed out, none when it is released, whatever timer, release and        *)
(* restart race for it; a crash inside one of its methods can break it.    *)
TokensComeBackOnce ==
  \A t \in Txs :
    txs[t] # None /\ t \notin txTorn /\ ~(txJob # None /\ txJob.tx = t) =>
      txPaid[t] = IF txs[t].status \in {"committed", "released"}
                  THEN Len(txs[t].spec.callers) ELSE 0

(* Every committed transaction ends, though the process may die, and be    *)
(* down when its time is up, and its timers with it.                       *)
CommittedTxEnds ==
  \A t \in Txs :
    t \in ListActiveOrchTxs ~>
      txs[t] # None /\ txs[t].status \in {"released", "timed_out"}
=============================================================================
