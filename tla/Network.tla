------------------------------ MODULE Network ------------------------------
(***************************************************************************)
(* The directed multigraph a solver of the program works on.               *)
(*                                                                         *)
(* The solver and the Euler search get a LEDA graph and an array with the  *)
(* length of every arc.  Nodes and arcs are members of two finite sets     *)
(* here, so two arcs may well join the same two nodes.  A selection of     *)
(* arcs, such as the arcs whose variable is one in a solution, is a subset *)
(* of Arc.                                                                 *)
(***************************************************************************)
EXTENDS Integers, FiniteSets, FiniteSetsExt

CONSTANTS Node, Arc,      \* the nodes and the arcs of the graph
          Source, Target, \* source(e) and target(e) of every arc
          Dist            \* its length

ASSUME NetworkAssumption ==
  /\ IsFiniteSet(Node)
  /\ IsFiniteSet(Arc)
  /\ Source \in [Arc -> Node]
  /\ Target \in [Arc -> Node]
  /\ Dist \in [Arc -> Nat]

-----------------------------------------------------------------------------
(* Arcs at a node and arcs that cross a set of nodes. *)

ArcsFrom == [n \in Node |-> {a \in Arc : Source[a] = n}]
ArcsTo == [n \in Node |-> {a \in Arc : Target[a] = n}]

OutArcs(x, n) == ArcsFrom[n] \cap x
InArcs(x, n) == ArcsTo[n] \cap x

Leaving(x, W) == {a \in x : Source[a] \in W /\ Target[a] \notin W}
Entering(x, W) == {a \in x : Source[a] \notin W /\ Target[a] \in W}

(* The nodes of the subgraph that a selection of arcs induces. *)
NodesOf(x) == {Source[a] : a \in x} \cup {Target[a] : a \in x}

(* Length of a selection: every arc counts once. *)
Cost(x) == MapThenSumSet(LAMBDA a : Dist[a], x)

-----------------------------------------------------------------------------
(* At every node as many arcs arrive as leave. *)
Balanced(x) ==
  \A n \in Node : Cardinality(InArcs(x, n)) = Cardinality(OutArcs(x, n))

(* Written as an image so that TLC lists the set once and keeps the list.  *)
Circulation == {x : x \in {y \in SUBSET Arc : Balanced(y)}}

(* No arc of the selection crosses W, in either direction. *)
IsClosed(x, W) == \A a \in x : Source[a] \in W <=> Target[a] \in W

(* The components of the undirected subgraph: its smallest closed sets.    *)
(* LEDA's COMPONENTS gives each of them a number.                          *)
Components(x) ==
  {C \in SUBSET NodesOf(x) :
     /\ C # {} /\ IsClosed(x, C)
     /\ \A W \in SUBSET C : W # {} /\ IsClosed(x, W) => W = C}

(* The component that the node n of the subgraph is in. *)
ComponentOf(x, n) == UNION {C \in Components(x) : n \in C}

Connected(x) ==
  \A W \in SUBSET NodesOf(x) : IsClosed(x, W) => W \in {{}, NodesOf(x)}

(* A selection is a closed walk in the graph that takes no arc twice when  *)
(* it is balanced and connected (Euler's theorem).                         *)
ClosedWalks == {x \in Circulation : Connected(x)}
=============================================================================
