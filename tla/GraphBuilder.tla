---------------------------- MODULE GraphBuilder ----------------------------
(***************************************************************************)
(* The constructor of GraphBuilder: from the lines to the graph on which   *)
(* the tour is sought.                                                     *)
(*                                                                         *)
(* Every line gives a path of nodes in each direction.  Switching arcs     *)
(* turn on a line, connection arcs change between lines at a station.      *)
(* With preprocessing fewer switching arcs are added, and chains of nodes  *)
(* at which nothing can be decided are replaced by one arc each.           *)
(***************************************************************************)
EXTENDS Lines, FiniteSetsExt

CONSTANTS LineMaps,                \* the networks to build a graph for
          change_cost, switch_cost

(* The reader's maps of lines: a line has stops and passes every station   *)
(* once, its times are unsigned, and its name is not that of a change.     *)
ASSUME LineMapsAssumption ==
  \A ls \in LineMaps :
    /\ IsFiniteSet(DOMAIN ls) /\ CHANGE_NAME \notin DOMAIN ls
    /\ \A l \in DOMAIN ls :
         /\ ls[l].stations # <<>>
         /\ ls[l].stations \in Seq(ToSet(ls[l].stations))
         /\ IsInjective(ls[l].stations)
         /\ ls[l].times \in [DOMAIN ls[l].stations -> Nat]

ASSUME NumbersAssumption ==
  UintRange \in Nat \ {0} /\ change_cost \in Int /\ switch_cost \in Int

VARIABLES
  type, preprocess,   \* arguments of the constructor
  phase,              \* the part of the constructor that comes next
  nodes, arcs,        \* _g, _dist, _connection_arcs and _arc_names
  station_nodes,      \* _station_nodes
  chains,             \* what computeDegree2Chains returned, still to be removed
  redundant_nodes

input == <<lines, type, preprocess>>
vars == <<input, phase, nodes, arcs, station_nodes, chains, redundant_nodes>>

-----------------------------------------------------------------------------
InEdges(n) == {a \in arcs : a.to = n}
OutEdges(n) == {a \in arcs : a.from = n}

Degree(n) == Cardinality(InEdges(n)) + Cardinality(OutEdges(n))

Grown(E, S) == S \cup {a.to : a \in {b \in E : b.from \in S}}

(* The nodes that can be reached from S by the arcs E. *)
Reach(E, S) ==
  LET grow[k \in 0..Cardinality(nodes)] ==
        IF k = 0 THEN S ELSE UNION {Grown(E, T) : T \in {grow[k - 1]}}
  IN  grow[Cardinality(nodes)]

Reversed(a) == [a EXCEPT !.from = a.to, !.to = a.from]

(* COMPONENTS looks at the undirected graph. *)
Undirected(E) == E \cup {Reversed(a) : a \in E}

-----------------------------------------------------------------------------
Init ==
  /\ lines \in LineMaps
  /\ type \in {"STATION", "SEGMENT"}
  /\ preprocess \in BOOLEAN
  /\ phase = "nodes"
  /\ nodes = {} /\ arcs = {}
  /\ station_nodes = [s \in {} |-> {}]
  /\ chains = {}
  /\ redundant_nodes = {}

TravelArcs(l) ==
  {Travel(l, Way(l, i - 1), Way(l, i), RideTime(l, i - 1, i)) : i \in 2..LastStop(l)}
    \cup
  {Travel(l, Back(l, i), Back(l, i - 1), RideTime(l, i - 1, i)) : i \in 2..LastStop(l)}

CreateNodesAndTravelArcs ==
  /\ phase = "nodes"
  /\ nodes' = UNION {LineNodes(l) : l \in DOMAIN lines}
  /\ arcs' = UNION {TravelArcs(l) : l \in DOMAIN lines}
  /\ station_nodes' = [s \in StationNames |-> NodesAt(s)]
  /\ phase' = "switching"
  /\ UNCHANGED <<input, chains, redundant_nodes>>

-----------------------------------------------------------------------------
(* Switching arcs, from one direction of a line to the other. *)

TurnBack(l, i) == Change(Way(l, i), Back(l, i), switch_cost)
TurnAround(l, i) == Change(Back(l, i), Way(l, i), switch_cost)

TurnTheWrongWay(l, i) ==   \* a slip: the directions swapped
  IF i = 1 THEN TurnBack(l, i) ELSE TurnAround(l, i)

(* At the first stop from back to way, at the last one from way to back. *)
TurnAtTerminal(l, i) == IF i = 1 THEN TurnAround(l, i) ELSE TurnBack(l, i)

TerminalTurns(l) ==
  {TurnAtTerminal(l, i) : i \in {j \in Stops(l) : IsTerminal(l, j)}}

AllTurns(l) == UNION {{TurnBack(l, i), TurnAround(l, i)} : i \in Stops(l)}

AnyInnerStop(l) ==   \* a slip: also between a terminal and the next change
  {i \in Stops(l) : ~ConnectingStop(l, i) /\ ~IsTerminal(l, i)}

(* The inner stops at which a tour may turn. *)
InnerStops(l) ==
  {i \in Stops(l) : /\ ~ConnectingStop(l, i) /\ ~IsTerminal(l, i)
                    /\ HasPrecedingConnecting(l, i) /\ HasFollowingConnecting(l, i)}

TurnsOfOneKind(l) ==   \* a slip: only on the way to a connecting station
  {TurnBack(l, i) : i \in {j \in InnerStops(l) : ConnectingStop(l, j + 1)}}

TurnsBehindChange(l) ==   \* a slip: the directions swapped
  {TurnBack(l, i) : i \in {j \in InnerStops(l) : ConnectingStop(l, j - 1)}}
    \cup
  {TurnAround(l, i) : i \in {j \in InnerStops(l) : ConnectingStop(l, j + 1)}}

(* Just before a connecting station, in the direction of the ride. *)
InnerTurns(l) ==
  {TurnBack(l, i) : i \in {j \in InnerStops(l) : ConnectingStop(l, j + 1)}}
    \cup
  {TurnAround(l, i) : i \in {j \in InnerStops(l) : ConnectingStop(l, j - 1)}}

TurnsAtFirstStop(l) ==   \* a slip: the last stop is forgotten
  InnerTurns(l) \cup {TurnAround(l, i) : i \in {j \in {1} : ~ConnectingStop(l, j)}}

StationProblemTurns(l) ==
  InnerTurns(l) \cup
  {TurnAtTerminal(l, i) :
     i \in {j \in Stops(l) : IsTerminal(l, j) /\ ~ConnectingStop(l, j)}}

AddSwitchingArcs(turns(_)) ==
  /\ phase = "switching"
  /\ arcs' = arcs \cup UNION {turns(l) : l \in DOMAIN lines}
  /\ phase' = "connections"
  /\ UNCHANGED <<input, nodes, station_nodes, chains, redundant_nodes>>

AddAllSwitchingArcs == ~preprocess /\ AddSwitchingArcs(AllTurns)

AddSwitchingArcsAtTerminals ==
  preprocess /\ type = "SEGMENT" /\ AddSwitchingArcs(TerminalTurns)

AddStationProblemSwitchingArcs ==
  preprocess /\ type = "STATION" /\ AddSwitchingArcs(StationProblemTurns)

-----------------------------------------------------------------------------
CanChangeAlways(u, v) == TRUE   \* a slip: no look at the travel arcs

(* addConnectionEdge: a ride arrives at u, and one departs from v. *)
CanChange(u, v) ==
  /\ \E a \in InEdges(u) : ~a.connection
  /\ \E a \in OutEdges(v) : ~a.connection

ConnectionArcs(s) ==
  {Change(p[1], p[2], change_cost) :
     p \in {q \in NodesAt(s) \X NodesAt(s) :
              q[1][1] # q[2][1] /\ CanChange(q[1], q[2])}}

AddAllConnectionArcs ==
  /\ phase = "connections"
  /\ arcs' = arcs \cup UNION {ConnectionArcs(s) : s \in StationNames}
  /\ phase' = IF preprocess THEN "chains" ELSE "check"
  /\ UNCHANGED <<input, nodes, station_nodes, chains, redundant_nodes>>

-----------------------------------------------------------------------------
(* Chains of nodes with one arc in and one arc out. *)

LowNodes == {n \in nodes : Degree(n) <= 2}   \* a slip: keep_edge is ignored

(* What is left when nodes of a higher degree are hidden, and then both    *)
(* ends of every connection arc that can still be seen.  Travel arcs alone *)
(* form no cycle, so TOPSORT succeeds.                                     *)
ChainNodes ==
  LET low == {n \in nodes : Degree(n) <= 2}
      kept == {a \in arcs : a.connection /\ a.from \in low /\ a.to \in low} IN
  low \ ({a.from : a \in kept} \cup {a.to : a \in kept})

(* The components of the nodes that are left. *)
Chains(inside) ==
  LET links == Undirected({a \in arcs : a.from \in inside /\ a.to \in inside}) IN
  {Reach(links, {n}) : n \in inside}

ComputeDegree2Chains ==
  /\ phase = "chains"
  /\ \E inside \in {ChainNodes} : chains' = Chains(inside)
  /\ phase' = "removing"
  /\ UNCHANGED <<input, nodes, arcs, station_nodes, redundant_nodes>>

(* The arcs of a chain, and the one it begins and the one it ends with. *)
ArcsOf(C) == {a \in arcs : a.from \in C \/ a.to \in C}
FirstArc(C) == CHOOSE a \in ArcsOf(C) : a.from \notin C
LastArc(C) == CHOOSE a \in ArcsOf(C) : a.to \notin C

LastRide(C) == LastArc(C).dist   \* a slip: the sum is not carried along

RideAlong(C) == MapThenSumSet(LAMBDA a : a.dist, ArcsOf(C))

UnnamedArc(C) ==   \* a slip: the name is left as it is for new arcs
  Travel(CHANGE_NAME, FirstArc(C).from, LastArc(C).to, RideAlong(C))

(* The arc that takes the place of a chain. *)
NewArc(C) ==
  Travel(FirstArc(C).name, FirstArc(C).from, LastArc(C).to, RideAlong(C))

(* The chain may go: the node before it or the one after it has one way in. *)
IsForced(C) ==
  \/ Cardinality(InEdges(FirstArc(C).from)) <= 1
  \/ Cardinality(InEdges(LastArc(C).to)) <= 1

Removable(C) == type = "STATION" => IsForced(C)

RemoveChain ==
  /\ phase = "removing"
  /\ \E C \in chains :
       /\ chains' = chains \ {C}
       /\ IF Removable(C)
          THEN /\ arcs' = (arcs \ ArcsOf(C)) \cup {NewArc(C)}
               /\ nodes' = nodes \ C
               /\ redundant_nodes' = redundant_nodes \cup C
          ELSE UNCHANGED <<arcs, nodes, redundant_nodes>>
  /\ UNCHANGED <<input, phase, station_nodes>>

(* A station without nodes leaves the map. *)
RemoveFromStations ==
  /\ phase = "removing"
  /\ chains = {}
  /\ \E left \in {[s \in DOMAIN station_nodes |-> station_nodes[s] \ redundant_nodes]} :
       station_nodes' = [s \in {t \in DOMAIN left : left[t] # {}} |-> left[s]]
  /\ phase' = "check"
  /\ UNCHANGED <<input, nodes, arcs, chains, redundant_nodes>>

-----------------------------------------------------------------------------
(* There is one component at most: a graph without nodes passes, too. *)
IsConnected ==
  \/ nodes = {}
  \/ \E n \in nodes : \E links \in {Undirected(arcs)} : Reach(links, {n}) = nodes

CheckConnectivity ==
  /\ phase = "check"
  /\ \/ IsConnected /\ phase' = "built"
     \/ ~IsConnected /\ phase' = "thrown"
  /\ UNCHANGED <<input, nodes, arcs, station_nodes, chains, redundant_nodes>>

Next ==
  \/ CreateNodesAndTravelArcs
  \/ AddAllSwitchingArcs \/ AddSwitchingArcsAtTerminals
  \/ AddStationProblemSwitchingArcs
  \/ AddAllConnectionArcs
  \/ ComputeDegree2Chains \/ RemoveChain \/ RemoveFromStations
  \/ CheckConnectivity

(* One thread runs the constructor to its end. *)
Spec == Init /\ [][Next]_vars /\ WF_vars(Next)

-----------------------------------------------------------------------------
(* The properties. *)

Phases == {"nodes", "switching", "connections", "chains", "removing", "check",
           "built", "thrown"}

AllNodes == UNION {LineNodes(l) : l \in DOMAIN lines}

IsArc(a) ==
  /\ a.from \in nodes /\ a.to \in nodes
  /\ a.name \in DOMAIN lines \cup {CHANGE_NAME}
  /\ a.dist \in Int
  /\ a.connection = (a.name = CHANGE_NAME)

(* Arcs join nodes of the graph and carry the name of a line just when they *)
(* are rides; stations and chains hold nodes; removed nodes are gone.       *)
TypeOK ==
  /\ lines \in LineMaps /\ phase \in Phases
  /\ nodes \subseteq AllNodes
  /\ \A a \in arcs : IsArc(a)
  /\ \A s \in DOMAIN station_nodes : station_nodes[s] \subseteq NodesAt(s)
  /\ chains \subseteq SUBSET nodes
  /\ redundant_nodes \subseteq AllNodes \ nodes

(* Nowhere is there a node with fewer than two arcs when the chains are    *)
(* computed (assertion in computeDegree2Chains).                           *)
DegreeAssertion == phase = "chains" => \A n \in nodes : Degree(n) >= 2

(* The assertions on chains, in whatever order they are removed: every     *)
(* node still has one arc in and one arc out, and all arcs of a chain are  *)
(* rides on one line.                                                      *)
ChainAssertions ==
  \A C \in chains :
    /\ \A n \in C : Cardinality(InEdges(n)) = 1 /\ Cardinality(OutEdges(n)) = 1
    /\ \A a, b \in ArcsOf(C) : ~a.connection /\ a.name = b.name

(* Reversing all lines gives the same graph: every arc has a twin of the   *)
(* same length between the nodes of the other direction.  Chains have to   *)
(* go on both directions of a line or on none.                             *)
Twin(n) == <<n[1], IF n[2] = "way" THEN "back" ELSE "way", n[3]>>

TwinOfItself ==
  phase = "built" =>
    /\ {Twin(n) : n \in nodes} = nodes
    /\ {[a EXCEPT !.from = Twin(a.to), !.to = Twin(a.from)] : a \in arcs} = arcs

(* The connectivity check ignores directions, but a graph that passes it   *)
(* has a way from every node to every other one.                           *)
StronglyConnected ==
  phase = "built" => \A n \in nodes : Reach(arcs, {n}) = nodes

(* What the message of the exception says: a network is refused when there *)
(* is no connection between two of its stations, so never one whose lines  *)
(* hang together by the stations they share.                               *)
LinesConnected ==
  \A part \in SUBSET DOMAIN lines :
    part \in {{}, DOMAIN lines} \/
    \E s \in StationNames : LinesAt(s) \cap part # {} /\ LinesAt(s) \ part # {}

RefusesOnlyUnconnected == phase = "thrown" => ~LinesConnected

(* The rides of the graph that pass the station s. *)
Passing(s) ==
  {a \in arcs : /\ ~a.connection
                /\ \E i \in Stops(a.name) :
                     /\ StationAt(a.name, i) = s
                     /\ \/ a.from[3] < i /\ i < a.to[3]
                        \/ a.to[3] < i /\ i < a.from[3]}

(* The solver does not hear of the stations that were removed with their   *)
(* chains.  For each of them another station is left that no closed walk   *)
(* can visit without a ride through the removed one.                       *)
RemovedStationsAreVisited ==
  phase = "built" /\ type = "STATION" =>
    \A s \in StationNames \ DOMAIN station_nodes :
      \E t \in DOMAIN station_nodes : \E other \in {arcs \ Passing(s)} :
        \A n \in station_nodes[t] :
          n \notin Reach(other, {a.to : a \in OutEdges(n) \cap other})

Promise == INSTANCE TransportGraph WITH
  status <- IF phase \in {"built", "thrown"} THEN phase ELSE "building",
  graph <- IF phase = "built" THEN <<nodes, arcs, station_nodes>> ELSE <<>>

(* The whole constructor gives the graph as module TransportGraph states   *)
(* it, with its stations, in whatever order chains are removed, or throws  *)
(* when the directions of the lines are not connected.                     *)
ImplementsTransportGraph == Promise!GraphSpec
=============================================================================
