------------------------------ MODULE Handover ------------------------------
(***************************************************************************)
(* The handovers of internal/handover/manager.go: locks, quota, running    *)
(* transactions and reservations of one caller become another caller's.    *)
(*                                                                         *)
(* A handover is created, checked beforehand, initiated and, if the other  *)
(* is to confirm it, accepted.  To execute it is to rewrite the rows of    *)
(* other managers, one statement after the other; if a resource has left   *)
(* its owner the rows written so far are written back.  Manager.mu is held *)
(* meanwhile (hoJob), the mutexes of those managers are not.               *)
(*                                                                         *)
(* Of a caller's quota the model has the row, not the numbers in it: the   *)
(* rate limiter is not told of a handover and writes them over from its    *)
(* memory with every request, return and tick, also between the reads and  *)
(* the two writes of a handover, so that nothing is promised about them.   *)
(*                                                                         *)
(* A definition whose comment begins "Faulty:" is no part of the model: it *)
(* is a slip one could make in the definition after it.                    *)
(***************************************************************************)
EXTENDS Integers, Sequences, FiniteSetsExt, SequencesExt

CONSTANTS
  HoCallers,
  HoNobody,             \* no holder, no row, no method
  HoLocks, HoTxs, HoReservations,
  HoRequests,           \* handovers asked for: from, to, confirm, and resources:
                        \* locks, "quota", transactions, reservations in this order
  Handovers,            \* bound: handovers, by their id
  HoFirst,              \* the caller that owns everything at first
  HoBoundFirst,         \* callers the rate limiter knows at first
  HoCrashes             \* bound on crashes

VARIABLES
  handovers,            \* tables handovers and handover_resources
  hoOwner,              \* holder in locks and orch_txs, caller_id in rl_reservations
  hoSecond,             \* holder of the active lease, and in orch_tx_locks
  hoEnded,              \* transactions and reservations no longer running
  hoBound,              \* callers with a row in rl_caller_bindings
  hoJob,                \* what the method under mu still does
  hoMeant,              \* history: who owns what by the handovers completed
  hoTorn,               \* history: resources a crash left half written
  hoCrashed             \* how often the process has died

hoRows == <<hoOwner, hoSecond, hoBound>>
hoHistory == <<hoMeant, hoTorn, hoCrashed>>
hoVars == <<handovers, hoRows, hoEnded, hoJob, hoHistory>>

HoTwoRows == HoLocks \cup HoTxs
HoResources == HoTwoRows \cup HoReservations
HoFinal == {"completed", "cancelled", "rejected"}

HoList == Seq(HoResources \cup {"quota"})
HoRequest == [from : HoCallers, to : HoCallers, confirm : BOOLEAN, resources : HoList]
HandoverRow ==
  [from : HoCallers, to : HoCallers, confirm : BOOLEAN, resources : HoList,
   status : HoFinal \cup {"created", "prechecked", "pending_receive"}, passed : BOOLEAN]
HoJob ==
  [do : {"check", "first", "second", "undo", "undo other"}, id : Handovers,
   undo : HoList, left : HoList]

(* Requests may name a resource twice, as those for transactions may.      *)
ASSUME HandoverAssumption ==
  /\ HoRequests \subseteq HoRequest /\ HoFirst \in HoCallers
  /\ HoLocks \cap HoTxs = {} /\ HoTwoRows \cap HoReservations = {}
  /\ "quota" \notin HoResources
ASSUME HoNobodyAssumption == HoNobody \notin HoCallers \cup HandoverRow \cup HoJob

HoInit ==
  /\ handovers = [n \in Handovers |-> HoNobody]
  /\ hoEnded = {} /\ hoJob = HoNobody
  /\ hoOwner = [r \in HoResources |-> HoFirst]
  /\ hoSecond = [r \in HoTwoRows |-> HoFirst]
  /\ hoMeant = [r \in HoTxs \cup HoReservations |-> HoFirst]
  /\ hoBound = HoBoundFirst
  /\ hoTorn = {} /\ hoCrashed = 0

HoIs(n, status) == hoJob = HoNobody /\ handovers[n] # HoNobody /\ handovers[n].status = status
UpdateHandoverStatus(n, status) == handovers' = [handovers EXCEPT ![n].status = status]

-----------------------------------------------------------------------------
(* CreateHandover, PreCheck *)

(* The rows of its resources follow its own: a crash leaves the first few. *)
CreateHandover(n, request) ==
  /\ hoJob = HoNobody /\ request.from # request.to
  /\ handovers[n] = HoNobody /\ \A k \in Handovers : k < n => handovers[k] # HoNobody
  /\ \E kept \in 0..Len(request.resources) :
       /\ handovers' = [handovers EXCEPT ![n] =
            [from |-> request.from, to |-> request.to, confirm |-> request.confirm,
             resources |-> SubSeq(request.resources, 1, kept),
             status |-> "created", passed |-> TRUE]]
       /\ hoCrashed' = hoCrashed + IF kept < Len(request.resources) THEN 1 ELSE 0
       /\ hoCrashed' <= HoCrashes
  /\ UNCHANGED <<hoRows, hoEnded, hoJob, hoMeant, hoTorn>>

(* Whether a resource may pass the check.  The receiver may be restricted  *)
(* for its debts, be bound to another policy or have its breaker open, and *)
(* the source owe tokens, at any time; a reservation passes whatever that. *)
PreCheckLock(r, from) == IF hoOwner[r] = from THEN BOOLEAN ELSE {FALSE}
PreCheckQuota(from) == IF from \in hoBound THEN BOOLEAN ELSE {FALSE}
PreCheckOrchTx(r, from) ==
  IF r \notin hoEnded /\ hoOwner[r] = from THEN BOOLEAN ELSE {FALSE}
PreCheckReservation(r, from) == {r \notin hoEnded /\ hoOwner[r] = from}

PreCheckResource(r, from) ==
  CASE r = "quota" -> PreCheckQuota(from)
    [] r \in HoLocks -> PreCheckLock(r, from)
    [] r \in HoTxs -> PreCheckOrchTx(r, from)
    [] r \in HoReservations -> PreCheckReservation(r, from)

PreCheck(n) ==
  /\ HoIs(n, "created") \/ HoIs(n, "prechecked")
  /\ \E passed \in BOOLEAN :
       /\ IF passed
          THEN \A r \in ToSet(handovers[n].resources) :
                 TRUE \in PreCheckResource(r, handovers[n].from)
          ELSE \E r \in ToSet(handovers[n].resources) :
                 FALSE \in PreCheckResource(r, handovers[n].from)
       /\ handovers' = [handovers EXCEPT ![n].passed = passed, ![n].status = "prechecked"]
  /\ UNCHANGED <<hoRows, hoEnded, hoJob, hoHistory>>

-----------------------------------------------------------------------------
(* Initiate, Confirm, Cancel and the tick *)

ExecuteInternal(n) ==
  hoJob' = [do |-> "check", id |-> n, undo |-> <<>>,
            left |-> handovers[n].resources]

Initiate(n) ==
  /\ HoIs(n, "prechecked") /\ handovers[n].passed
  /\ IF handovers[n].confirm
     THEN UpdateHandoverStatus(n, "pending_receive") /\ UNCHANGED hoJob
     ELSE ExecuteInternal(n) /\ UNCHANGED handovers
  /\ UNCHANGED <<hoRows, hoEnded, hoHistory>>

Confirm(n, accept) ==
  /\ HoIs(n, "pending_receive")
  /\ IF accept THEN ExecuteInternal(n) /\ UNCHANGED handovers
     ELSE UpdateHandoverStatus(n, "rejected") /\ UNCHANGED hoJob
  /\ UNCHANGED <<hoRows, hoEnded, hoHistory>>

Cancel(n) ==
  /\ hoJob = HoNobody /\ handovers[n] # HoNobody /\ handovers[n].status \notin HoFinal
  /\ UpdateHandoverStatus(n, "cancelled")
  /\ UNCHANGED <<hoRows, hoEnded, hoJob, hoHistory>>

(* Faulty: looks for handovers that have not been initiated                *)
ListExpiredCreated == {n \in Handovers : HoIs(n, "created")}

(* A confirm_deadline passes at any time; one that passes while the        *)
(* handover is not pending is as good as passed when it is.                *)
ListExpiredPendingHandovers == {n \in Handovers : HoIs(n, "pending_receive")}

CheckAndCancelExpired ==
  /\ \E n \in ListExpiredPendingHandovers : UpdateHandoverStatus(n, "cancelled")
  /\ UNCHANGED <<hoRows, hoEnded, hoJob, hoHistory>>

-----------------------------------------------------------------------------
(* executeInternalLocked, statement by statement *)

HoDoing(what) == hoJob # HoNobody /\ hoJob.do = what
HoDoes(what) == hoJob' = [hoJob EXCEPT !.do = what]
HoFrom == handovers[hoJob.id].from
HoTo == handovers[hoJob.id].to
HoAt == Head(hoJob.left)
HoNextResource ==
  hoJob' = [hoJob EXCEPT !.do = "check", !.left = Tail(@), !.undo = <<HoAt>> \o @]

StillHeldBySource(r) ==
  IF r = "quota" THEN HoFrom \in hoBound ELSE hoOwner[r] = HoFrom

CheckSource ==
  /\ HoDoing("check") /\ hoJob.left # <<>>
  /\ HoDoes(IF StillHeldBySource(HoAt) THEN "first" ELSE "undo")
  /\ UNCHANGED <<handovers, hoRows, hoEnded, hoHistory>>

TransferReservationCaller ==
  /\ HoDoing("first") /\ HoAt \in HoReservations
  /\ hoOwner' = [hoOwner EXCEPT ![HoAt] = HoTo]
  /\ HoNextResource
  /\ UNCHANGED <<handovers, hoSecond, hoBound, hoEnded, hoHistory>>

(* TransferLockHolder, TransferOrchTxHolder *)
TransferHolder ==
  /\ HoDoing("first") /\ HoAt \in HoTwoRows
  /\ hoOwner' = [hoOwner EXCEPT ![HoAt] = HoTo]
  /\ HoDoes("second")
  /\ UNCHANGED <<handovers, hoSecond, hoBound, hoEnded, hoHistory>>

(* TransferLeaseHolder of the active lease, if any; TransferOrchTxLockHolder *)
SecondRow(r, c) ==
  hoSecond' = IF hoSecond[r] = HoNobody THEN hoSecond ELSE [hoSecond EXCEPT ![r] = c]

TransferSecond ==
  /\ HoDoing("second") /\ HoAt \in HoTwoRows
  /\ SecondRow(HoAt, HoTo)
  /\ HoNextResource
  /\ UNCHANGED <<handovers, hoOwner, hoBound, hoEnded, hoHistory>>

(* The receiver's row, written or made, then the source's                  *)
TransferQuotaTo ==
  /\ HoDoing("first") /\ HoAt = "quota"
  /\ hoBound' = hoBound \cup {HoTo}
  /\ HoDoes("second")
  /\ UNCHANGED <<handovers, hoOwner, hoSecond, hoEnded, hoHistory>>

TransferQuotaFrom ==
  /\ HoDoing("second") /\ HoAt = "quota"
  /\ HoNextResource
  /\ UNCHANGED <<handovers, hoRows, hoEnded, hoHistory>>

(* Whoever is meant to own a resource is the source, not another receiver. *)
HoComplete ==
  /\ HoDoing("check") /\ hoJob.left = <<>>
  /\ UpdateHandoverStatus(hoJob.id, "completed")
  /\ hoMeant' = [r \in DOMAIN hoMeant |->
       IF r \in ToSet(handovers[hoJob.id].resources) /\ hoMeant[r] = HoFrom
       THEN HoTo ELSE hoMeant[r]]
  /\ hoJob' = HoNobody
  /\ UNCHANGED <<hoRows, hoEnded, hoTorn, hoCrashed>>

-----------------------------------------------------------------------------
(* rollbackAllLocked: the last resource first; quota is not given back.    *)

HoUndone == hoJob' = [hoJob EXCEPT !.do = "undo", !.undo = Tail(@)]

UndoQuota ==
  /\ HoDoing("undo") /\ hoJob.undo # <<>> /\ Head(hoJob.undo) = "quota"
  /\ HoUndone
  /\ UNCHANGED <<handovers, hoRows, hoEnded, hoHistory>>

UndoReservation ==
  /\ HoDoing("undo") /\ hoJob.undo # <<>> /\ Head(hoJob.undo) \in HoReservations
  /\ hoOwner' = [hoOwner EXCEPT ![Head(hoJob.undo)] = HoFrom]
  /\ HoUndone
  /\ UNCHANGED <<handovers, hoSecond, hoBound, hoEnded, hoHistory>>

(* The lease before the lock, the transaction before its locks             *)
UndoOne ==
  /\ HoDoing("undo") /\ hoJob.undo # <<>> /\ Head(hoJob.undo) \in HoTwoRows
  /\ IF Head(hoJob.undo) \in HoLocks
     THEN SecondRow(Head(hoJob.undo), HoFrom) /\ UNCHANGED hoOwner
     ELSE hoOwner' = [hoOwner EXCEPT ![Head(hoJob.undo)] = HoFrom] /\ UNCHANGED hoSecond
  /\ HoDoes("undo other")
  /\ UNCHANGED <<handovers, hoBound, hoEnded, hoHistory>>

(* Faulty: leaves the locks of a transaction with the receiver             *)
UndoOtherLocksOnly ==
  /\ HoDoing("undo other")
  /\ IF Head(hoJob.undo) \in HoLocks
     THEN hoOwner' = [hoOwner EXCEPT ![Head(hoJob.undo)] = HoFrom]
     ELSE UNCHANGED hoOwner
  /\ HoUndone
  /\ UNCHANGED <<handovers, hoSecond, hoBound, hoEnded, hoHistory>>

UndoOther ==
  /\ HoDoing("undo other")
  /\ IF Head(hoJob.undo) \in HoLocks
     THEN hoOwner' = [hoOwner EXCEPT ![Head(hoJob.undo)] = HoFrom] /\ UNCHANGED hoSecond
     ELSE SecondRow(Head(hoJob.undo), HoFrom) /\ UNCHANGED hoOwner
  /\ HoUndone
  /\ UNCHANGED <<handovers, hoBound, hoEnded, hoHistory>>

HoRolledBack ==
  /\ HoDoing("undo") /\ hoJob.undo = <<>>
  /\ hoJob' = HoNobody
  /\ UNCHANGED <<handovers, hoRows, hoEnded, hoHistory>>

-----------------------------------------------------------------------------
(* The managers whose rows these are, time, crashes *)

(* The lock manager frees the lock, or grants it to someone.               *)
LockManagerMoves(r, c) ==
  /\ r \in HoLocks /\ hoOwner[r] # c
  /\ hoOwner' = [hoOwner EXCEPT ![r] = c]
  /\ hoSecond' = [hoSecond EXCEPT ![r] = c]
  /\ UNCHANGED <<handovers, hoBound, hoEnded, hoJob, hoHistory>>

(* The rate limiter; it never deletes the row, nor does a caller bound     *)
(* again get another one.                                                  *)
BindCaller(c) ==
  /\ c \notin hoBound
  /\ hoBound' = hoBound \cup {c}
  /\ UNCHANGED <<handovers, hoOwner, hoSecond, hoEnded, hoJob, hoHistory>>

(* A transaction is released, a reservation is over.                       *)
HoEnds(r) ==
  /\ r \in HoTxs \cup HoReservations /\ r \notin hoEnded
  /\ hoEnded' = hoEnded \cup {r}
  /\ UNCHANGED <<handovers, hoRows, hoJob, hoHistory>>

(* The process dies in the middle of a handover and is started again.      *)
HoCrash ==
  /\ hoJob # HoNobody /\ hoCrashed < HoCrashes
  /\ hoCrashed' = hoCrashed + 1
  /\ hoTorn' = hoTorn \cup ToSet(handovers[hoJob.id].resources)
  /\ hoJob' = HoNobody
  /\ UNCHANGED <<handovers, hoRows, hoEnded, hoMeant>>

HoExecutes ==
  \/ CheckSource \/ TransferReservationCaller \/ TransferHolder \/ TransferSecond
  \/ TransferQuotaTo \/ TransferQuotaFrom \/ HoComplete
  \/ UndoQuota \/ UndoReservation \/ UndoOne \/ UndoOther \/ HoRolledBack

HoNext ==
  \/ HoExecutes \/ CheckAndCancelExpired \/ HoCrash
  \/ \E n \in Handovers :
       \/ \E request \in HoRequests : CreateHandover(n, request)
       \/ PreCheck(n) \/ Initiate(n) \/ Cancel(n)
       \/ \E accept \in BOOLEAN : Confirm(n, accept)
  \/ \E c \in HoCallers : BindCaller(c)
  \/ \E r \in HoResources : HoEnds(r) \/ \E c \in HoCallers \cup {HoNobody} : LockManagerMoves(r, c)

(* Go's mutex passes over nobody for ever; the ticker goes on ticking, and *)
(* a deadline passes.                                                      *)
HoFairness ==
  /\ WF_hoVars(HoExecutes)
  /\ SF_hoVars(CheckAndCancelExpired)

-----------------------------------------------------------------------------
(* Properties *)

(* All or nothing: whatever the check beforehand said and whoever else was *)
(* promised it since, a transaction and a reservation is, in every row,    *)
(* with whom the completed handovers gave it to (crashes excepted).        *)
HandedOverWholly ==
  hoJob = HoNobody =>
    \A r \in DOMAIN hoMeant \ hoTorn :
      hoOwner[r] = hoMeant[r] /\ (r \in HoTxs => hoSecond[r] = hoMeant[r])

(* A handover that waits for the receiver does not wait for ever.          *)
PendingHandoverEnds ==
  \A n \in Handovers :
    handovers[n] # HoNobody /\ handovers[n].status = "pending_receive" ~>
      handovers[n] # HoNobody /\ handovers[n].status \in HoFinal
=============================================================================
