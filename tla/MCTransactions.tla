--------------------------- MODULE MCTransactions ---------------------------
(***************************************************************************)
(* Transactions and cascades, each over the lock manager, for TLC.  They   *)
(* meet nowhere else, and either has other callers of the lock manager     *)
(* beside it; so one behaviour has the one or the other.                   *)
(***************************************************************************)
EXTENDS Orchestration, Topology

CONSTANTS h1, h2, l1, l2, l3, n1, n2, n3

MCTxSpecs ==
  {[holder |-> h1, locks |-> <<l1, l2>>, callers |-> <<"c1">>],
   [holder |-> h2, locks |-> <<l1>>, callers |-> <<>>]}
MCLockOf == n1 :> l1 @@ n2 :> l2 @@ n3 :> l3

(* The graph that cascades run in: two paths lead from n1 to n3.           *)
MCGraph == {<<n1, n2>>, <<n2, n3>>, <<n1, n3>>}

vars == <<lockVars, txVars, topoVars>>
NoTx == TxInit
NoCascade == LocksInit /\ \A h \in CascadeHolders : topoJobs[h] = None

Init == LocksInit /\ TxInit /\ TopoInit

(* A cascade reads the graph at its start only: it is not changed while    *)
(* a cascade runs or its locks are held.  A search meets nobody else.      *)
Next ==
  \/ topoNodes = {} /\ TxNext /\ UNCHANGED topoVars
  \/ NoTx /\ NoCascade /\ GraphChanges /\ UNCHANGED txVars
  \/ (NoCascade \/ topoEdges = MCGraph) /\ NoTx /\ CascadeStarts /\ UNCHANGED txVars
  \/ ScanSteps /\ UNCHANGED txVars
  \/ topoEdges = MCGraph /\ CascadesNext /\ UNCHANGED txVars
  \/ MuFree /\ LeasesNext /\ UNCHANGED <<txVars, topoVars>>
  \/ /\ MuFree /\ topoEdges = MCGraph /\ \E l \in Locks : OtherCalls(l)
     /\ UNCHANGED <<txVars, topoVars>>

Spec == Init /\ [][Next]_vars /\ TxFairness
=============================================================================
