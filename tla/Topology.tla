------------------------------ MODULE Topology ------------------------------
(***************************************************************************)
(* The resource graph of internal/topology/manager.go, and the cascades    *)
(* that start from it: those of a node take its ancestors' locks first,    *)
(* those of a release give its descendants' back first.  Cascades has what *)
(* they do then.                                                           *)
(*                                                                         *)
(* A depth-first search of the graph goes on under Manager.mu, edge by     *)
(* edge; the frames of the recursion are its path.  The list of a node's   *)
(* children or parents is walked in the order the edges were declared in;  *)
(* here it is walked in any order.                                         *)
(*                                                                         *)
(* A definition whose comment begins "Faulty:" is no part of the model: it *)
(* is a slip one could make in the definition after it.                    *)
(***************************************************************************)
EXTENDS Cascades

VARIABLES
  topoNodes,      \* Manager.nodes and table topo_nodes
  topoEdges,      \* table topo_edges, Manager.children and Manager.parents
  topoScan        \* the search under way, of whom and what for

topoVars == <<topoNodes, topoEdges, topoScan, topoJobs>>

(* A search: its path, what it has left to walk, and whom it has visited.  *)
CheckScan ==
  [do : {"check"}, edge : Nodes \X Nodes,
   path : Seq(Nodes), left : SUBSET (Nodes \X Nodes), visited : SUBSET Nodes]
OrderScan ==
  [do : {"climb", "descend"}, holder : CascadeHolders, node : Nodes, reentrant : BOOLEAN,
   path : Seq(Nodes), left : SUBSET (Nodes \X Nodes), visited : SUBSET Nodes,
   order : Seq(Nodes)]

ASSUME TopologyAssumption == None \notin CheckScan \cup OrderScan

TopoInit ==
  /\ topoNodes = {} /\ topoEdges = {} /\ topoScan = None
  /\ topoJobs = [h \in CascadeHolders |-> None]

MuFree == topoScan = None
Scanning(what) == topoScan # None /\ topoScan.do = what

-----------------------------------------------------------------------------
(* A search along edges, from the first of a pair to the second            *)

Parents(edges) == {e \in Nodes \X Nodes : <<e[2], e[1]>> \in edges}

ToWalk(scan) == {e \in scan.left : e[1] = Last(scan.path)}
Visit(scan, n) == [scan EXCEPT !.path = Append(@, n), !.visited = @ \cup {n}]
Walk(scan, e) == [scan EXCEPT !.left = @ \ {e}]
Back(scan) == [scan EXCEPT !.path = Front(@)]

-----------------------------------------------------------------------------
(* The graph *)

CreateTopoNode(n) == topoNodes' = topoNodes \cup {n}
CreateTopoEdge(e) == topoEdges' = topoEdges \cup {e}
DeleteTopoEdge(e) == topoEdges' = topoEdges \ {e}

RegisterNode(n) ==
  /\ MuFree /\ n \notin topoNodes
  /\ CreateTopoNode(n)
  /\ UNCHANGED <<lockVars, topoEdges, topoScan, topoJobs>>

(* The search for a cycle begins in the graph with the new edge.           *)
DeclareEdge(from, to) ==
  /\ MuFree /\ from # to /\ {from, to} \subseteq topoNodes
  /\ <<from, to>> \notin topoEdges
  /\ topoScan' = [do |-> "check", edge |-> <<from, to>>, path |-> <<>>,
                  left |-> topoEdges \cup {<<from, to>>}, visited |-> {}]
  /\ UNCHANGED <<lockVars, topoNodes, topoEdges, topoJobs>>

(* hasCycleDFS begins again at any node not visited                        *)
CheckFrom(n) ==
  /\ Scanning("check") /\ topoScan.path = <<>> /\ n \in topoNodes \ topoScan.visited
  /\ topoScan' = Visit(topoScan, n)
  /\ UNCHANGED <<lockVars, topoNodes, topoEdges, topoJobs>>

(* A child on the path (recStack) closes a cycle: the edge is refused.     *)
CheckChild(e) ==
  /\ Scanning("check") /\ topoScan.path # <<>> /\ e \in ToWalk(topoScan)
  /\ topoScan' =
       IF e[2] \notin topoScan.visited THEN Visit(Walk(topoScan, e), e[2])
       ELSE IF e[2] \in ToSet(topoScan.path) THEN None
       ELSE Walk(topoScan, e)
  /\ UNCHANGED <<lockVars, topoNodes, topoEdges, topoJobs>>

CheckBack ==
  /\ Scanning("check") /\ topoScan.path # <<>> /\ ToWalk(topoScan) = {}
  /\ topoScan' = Back(topoScan)
  /\ UNCHANGED <<lockVars, topoNodes, topoEdges, topoJobs>>

CheckPassed ==
  /\ Scanning("check") /\ topoScan.path = <<>> /\ topoNodes \subseteq topoScan.visited
  /\ CreateTopoEdge(topoScan.edge)
  /\ topoScan' = None
  /\ UNCHANGED <<lockVars, topoNodes, topoJobs>>

RemoveEdge(from, to) ==
  /\ MuFree /\ <<from, to>> \in topoEdges
  /\ DeleteTopoEdge(<<from, to>>)
  /\ UNCHANGED <<lockVars, topoNodes, topoScan, topoJobs>>

-----------------------------------------------------------------------------
(* Cascades: the graph is read under mu at their start only.               *)

CascadeAcquire(h, n, reentrant) ==
  /\ MuFree /\ n \in topoNodes /\ topoJobs[h] = None
  /\ topoScan' = [do |-> "climb", holder |-> h, node |-> n, reentrant |-> reentrant,
                  path |-> <<n>>, left |-> Parents(topoEdges), visited |-> {n}, order |-> <<>>]
  /\ UNCHANGED <<lockVars, topoNodes, topoEdges, topoJobs>>

(* collectAncestorsLocked appends a parent after the search from it, again *)
(* for each path to it.                                                    *)
Listed(scan, n) == [scan EXCEPT !.order = Append(@, n)]

(* Faulty: puts a parent before the parents it has itself                  *)
ClimbParentFirst(e) ==
  /\ Scanning("climb") /\ topoScan.path # <<>> /\ e \in ToWalk(topoScan)
  /\ LET walked == Listed(Walk(topoScan, e), e[2])
     IN  topoScan' = IF e[2] \in topoScan.visited THEN walked ELSE Visit(walked, e[2])
  /\ UNCHANGED <<lockVars, topoNodes, topoEdges, topoJobs>>

ClimbParent(e) ==
  /\ Scanning("climb") /\ topoScan.path # <<>> /\ e \in ToWalk(topoScan)
  /\ LET walked == Walk(topoScan, e)
     IN  topoScan' = IF e[2] \in topoScan.visited THEN Listed(walked, e[2])
                     ELSE Visit(walked, e[2])
  /\ UNCHANGED <<lockVars, topoNodes, topoEdges, topoJobs>>

ClimbBack ==
  /\ Scanning("climb") /\ topoScan.path # <<>> /\ ToWalk(topoScan) = {}
  /\ LET back == Back(topoScan)
     IN  topoScan' = IF back.path = <<>> THEN back ELSE Listed(back, Last(topoScan.path))
  /\ UNCHANGED <<lockVars, topoNodes, topoEdges, topoJobs>>

Climbed ==
  /\ Scanning("climb") /\ topoScan.path = <<>>
  /\ BeginAcquire(topoScan.holder, Append(topoScan.order, topoScan.node), topoScan.reentrant)
  /\ topoScan' = None
  /\ UNCHANGED <<topoNodes, topoEdges>>

(* Without force, if no child's lock is held                               *)
CascadeRelease(h, n) ==
  /\ MuFree /\ n \in topoNodes
  /\ \A e \in topoEdges : e[1] = n => LockOf[e[2]] \notin HeldBy(h)
  /\ BeginRelease(h, <<n>>)
  /\ UNCHANGED <<topoNodes, topoEdges, topoScan>>

(* With force: collectDescendantsLocked, which does not visit n itself     *)
ForceRelease(h, n) ==
  /\ MuFree /\ n \in topoNodes /\ topoJobs[h] = None
  /\ topoScan' = [do |-> "descend", holder |-> h, node |-> n, reentrant |-> FALSE,
                  path |-> <<n>>, left |-> topoEdges, visited |-> {}, order |-> <<>>]
  /\ UNCHANGED <<lockVars, topoNodes, topoEdges, topoJobs>>

DescendChild(e) ==
  /\ Scanning("descend") /\ topoScan.path # <<>> /\ e \in ToWalk(topoScan)
  /\ LET walked == Walk(topoScan, e)
     IN  topoScan' = IF e[2] \in topoScan.visited THEN walked
                     ELSE Listed(Visit(walked, e[2]), e[2])
  /\ UNCHANGED <<lockVars, topoNodes, topoEdges, topoJobs>>

DescendBack ==
  /\ Scanning("descend") /\ topoScan.path # <<>> /\ ToWalk(topoScan) = {}
  /\ topoScan' = Back(topoScan)
  /\ UNCHANGED <<lockVars, topoNodes, topoEdges, topoJobs>>

Descended ==
  /\ Scanning("descend") /\ topoScan.path = <<>>
  /\ BeginRelease(topoScan.holder, Append(Reverse(topoScan.order), topoScan.node))
  /\ topoScan' = None
  /\ UNCHANGED <<topoNodes, topoEdges>>

-----------------------------------------------------------------------------
GraphChanges ==
  \E n, to \in Nodes : RegisterNode(n) \/ DeclareEdge(n, to) \/ RemoveEdge(n, to)

CascadeStarts ==
  \E h \in CascadeHolders, n \in Nodes :
    \/ \E reentrant \in BOOLEAN : CascadeAcquire(h, n, reentrant)
    \/ CascadeRelease(h, n) \/ ForceRelease(h, n)

ScanSteps ==
  \/ \E n \in Nodes : CheckFrom(n)
  \/ \E e \in Nodes \X Nodes : CheckChild(e) \/ ClimbParent(e) \/ DescendChild(e)
  \/ CheckBack \/ CheckPassed \/ ClimbBack \/ DescendBack

CascadesNext ==
  \/ Climbed \/ Descended
  \/ \E h \in CascadeHolders : CascadeSteps(h) /\ UNCHANGED <<topoNodes, topoEdges, topoScan>>

-----------------------------------------------------------------------------
(* Properties *)

Above(n) == Reach(Nodes, Parents(topoEdges), n)

(* A cascade locks all ancestors of its target and nothing else, and each  *)
(* before whatever is below it, however the paths of the graph meet.  No   *)
(* node is its own ancestor, whatever edges were declared and removed in   *)
(* whatever order: there is no such order for a cycle.                     *)
AncestorsFirst ==
  /\ \A n \in topoNodes : n \notin Above(n)
  /\ Scanning("climb") /\ topoScan.path = <<>> =>
       LET order == topoScan.order
       IN  /\ ToSet(order) = Above(topoScan.node)
           /\ \A i \in DOMAIN order : Above(order[i]) \subseteq ToSet(SubSeq(order, 1, i - 1))
=============================================================================
