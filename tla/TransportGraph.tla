--------------------------- MODULE TransportGraph ---------------------------
(***************************************************************************)
(* The graph that stands for a network, stated as a whole.                 *)
(*                                                                         *)
(* A stop has its two nodes when a decision can be made there: to change,  *)
(* to turn at the end of a line, or to turn next to a station where one    *)
(* can change, with another such station on the far side.  Rides join      *)
(* consecutive stops of this kind.                                         *)
(***************************************************************************)
EXTENDS Lines

CONSTANTS change_cost, switch_cost

VARIABLES type, preprocess, status, graph

graphVars == <<lines, type, preprocess, status, graph>>

InnerStop(l, i) ==
  /\ ~ConnectingStop(l, i) /\ ~IsTerminal(l, i)
  /\ HasPrecedingConnecting(l, i) /\ HasFollowingConnecting(l, i)

(* One turns just before a change that lies ahead. *)
TurnsBeforeChange(l, i, next) ==
  InnerStop(l, i) /\ next \in Stops(l) /\ ConnectingStop(l, next)

CanTurnBack(l, i) ==
  CASE ~preprocess -> TRUE
    [] preprocess /\ type = "SEGMENT" -> i = LastStop(l)
    [] preprocess /\ type = "STATION" ->
         \/ i = LastStop(l) /\ ~ConnectingStop(l, i)
         \/ TurnsBeforeChange(l, i, i + 1)

CanTurnAround(l, i) ==
  CASE ~preprocess -> TRUE
    [] preprocess /\ type = "SEGMENT" -> i = 1
    [] preprocess /\ type = "STATION" ->
         \/ i = 1 /\ ~ConnectingStop(l, i)
         \/ TurnsBeforeChange(l, i, i - 1)

StaysWithoutTurns(l, i) ==   \* a slip: stops between two changes go as well
  ~preprocess \/ ConnectingStop(l, i) \/ IsTerminal(l, i)

Stays(l, i) ==
  \/ ~preprocess \/ ConnectingStop(l, i) \/ IsTerminal(l, i)
  \/ CanTurnBack(l, i) \/ CanTurnAround(l, i)

Kept(l) == {i \in Stops(l) : Stays(l, i)}

NextKept(l, i, j) == i < j /\ \A k \in Kept(l) : k <= i \/ j <= k

Arrives(n) == \E i \in Stops(n[1]) : IF n[2] = "way" THEN i < n[3] ELSE n[3] < i
Departs(n) == \E i \in Stops(n[1]) : IF n[2] = "way" THEN n[3] < i ELSE i < n[3]

-----------------------------------------------------------------------------
GraphNodes == {n \in UNION {LineNodes(l) : l \in DOMAIN lines} : n[3] \in Kept(n[1])}

Rides(l) ==
  LET hops == {p \in Kept(l) \X Kept(l) : NextKept(l, p[1], p[2])} IN
  {Travel(l, Way(l, p[1]), Way(l, p[2]), RideTime(l, p[1], p[2])) : p \in hops}
    \cup
  {Travel(l, Back(l, p[2]), Back(l, p[1]), RideTime(l, p[1], p[2])) : p \in hops}

Turns(l) ==
  {Change(Way(l, i), Back(l, i), switch_cost) : i \in {j \in Stops(l) : CanTurnBack(l, j)}}
    \cup
  {Change(Back(l, i), Way(l, i), switch_cost) : i \in {j \in Stops(l) : CanTurnAround(l, j)}}

Changes ==
  {Change(p[1], p[2], change_cost) :
     p \in {q \in GraphNodes \X GraphNodes :
              /\ q[1][1] # q[2][1] /\ StationOfNode(q[1]) = StationOfNode(q[2])
              /\ Arrives(q[1]) /\ Departs(q[2])}}

GraphArcs == Changes \cup UNION {Rides(l) \cup Turns(l) : l \in DOMAIN lines}

WayNodesOnly ==   \* a slip: the nodes of one direction
  [s \in {StationOfNode(n) : n \in GraphNodes} |-> {n \in NodesAt(s) : n[2] = "way"}]

(* The stations that have a node, with all the nodes they have. *)
GraphStations ==
  [s \in {StationOfNode(n) : n \in GraphNodes} |-> NodesAt(s)]

(* A direction of a line joins another one that it can be left for. *)
Courses == {<<l, d>> : l \in DOMAIN lines, d \in Directions}

Joined ==
  {<<<<l, "way">>, <<l, "back">>>> : l \in {m \in DOMAIN lines : Turns(m) # {}}}
    \cup
  {<<<<a.from[1], a.from[2]>>, <<a.to[1], a.to[2]>>>> : a \in Changes}

(* No set of courses keeps to itself, but for none and all of them. *)
CoursesConnected ==
  \E joined \in {Joined} :
    {part \in SUBSET Courses : \A p \in joined : (p[1] \in part) = (p[2] \in part)}
      \subseteq {{}, Courses}

-----------------------------------------------------------------------------
NoGraph == <<>>

GraphInit == status = "building" /\ graph = NoGraph

Deliver ==
  /\ status = "building"
  /\ CoursesConnected
  /\ status' = "built"
  /\ graph' = <<GraphNodes, GraphArcs, GraphStations>>
  /\ UNCHANGED <<lines, type, preprocess>>

Refuse ==
  /\ status = "building"
  /\ ~CoursesConnected
  /\ status' = "thrown"
  /\ UNCHANGED <<lines, type, preprocess, graph>>

GraphSpec ==
  /\ GraphInit
  /\ [][Deliver \/ Refuse]_graphVars
  /\ <>(status # "building")
=============================================================================
