------------------------------- MODULE Euler -------------------------------
(***************************************************************************)
(* Hierholzer's algorithm as class Euler runs it, with the call stack of   *)
(* eulerRec made explicit.                                                 *)
(*                                                                         *)
(* A frame of the stack is one activation of eulerRec.  Its first arc goes *)
(* to the end of the list the activation was given, and the search goes on *)
(* from the target with the same list.  Every later arc opens a list of    *)
(* its own, filled by a nested activation from the current node, and that  *)
(* list is put before the frame's first arc when the activation returns.   *)
(* The lists form a stack too, and the reference to a list that an         *)
(* activation is given is the list's place in that stack.                  *)
(***************************************************************************)
EXTENDS Walks

CONSTANTS NoNode,   \* null pointer as the start node
          NoArc     \* listPos of a frame that has not taken an arc

ASSUME NoArcAssumption == NoArc \notin Arc

VARIABLES nodes, arcs, start,   \* the graph and the argument of getEulerTour
          status,               \* called, running, returned or thrown
          arc_visited,          \* _arc_visited
          lists,                \* cycle, and every newCycle under way
          stack                 \* activations of eulerRec, the latest last

vars == <<nodes, arcs, start, status, arc_visited, lists, stack>>

Frame(n, first, cycle) ==
  [current |-> n, start |-> first, cycle |-> cycle, listPos |-> NoArc]

Top == Last(stack)

Unvisited(n) == OutArcs(arcs, n) \ arc_visited

Running == status = "running"

-----------------------------------------------------------------------------
Init ==
  /\ nodes \in SUBSET Node
  /\ arcs \in SUBSET {a \in Arc : Source[a] \in nodes /\ Target[a] \in nodes}
  /\ start \in nodes \cup {NoNode}
  /\ status = "called"
  /\ arc_visited = {}
  /\ lists = <<<<>>>>
  /\ stack = <<>>

(* getEulerTour: an empty graph has an empty tour. *)
GetEmptyTour ==
  /\ status = "called"
  /\ nodes = {}
  /\ status' = "returned"
  /\ UNCHANGED <<nodes, arcs, start, arc_visited, lists, stack>>

GetEulerTour ==
  /\ status = "called"
  /\ \E n \in nodes :
       /\ start \in {n, NoNode}
       /\ stack' = <<Frame(n, n, 1)>>
  /\ status' = "running"
  /\ UNCHANGED <<nodes, arcs, start, arc_visited, lists>>

NotMarked(a) == arc_visited   \* a slip: the arc stays unvisited

Marked(a) == arc_visited \cup {a}

(* eulerRec finds its first arc. *)
TakeFirstArc ==
  /\ Running
  /\ Top.listPos = NoArc
  /\ \E a \in Unvisited(Top.current) :
       /\ arc_visited' = Marked(a)
       /\ lists' = [lists EXCEPT ![Top.cycle] = Append(@, a)]
       /\ stack' = Front(stack) \o <<[Top EXCEPT !.listPos = a],
                                     Frame(Target[a], Top.start, Top.cycle)>>
  /\ UNCHANGED <<nodes, arcs, start, status>>

(* eulerRec finds another arc.  The nested activation goes through the     *)
(* arcs of the same node in the same order, so it is that arc it takes.    *)
OpenNewCycle ==
  /\ Running
  /\ Top.listPos # NoArc
  /\ Unvisited(Top.current) # {}
  /\ lists' = Append(lists, <<>>)
  /\ stack' = Append(stack, Frame(Top.current, Top.current, Len(lists')))
  /\ UNCHANGED <<nodes, arcs, start, status, arc_visited>>

NeverStuck(frame) == FALSE                      \* a slip: no test at all
StuckAtStart(frame) == frame.listPos = NoArc    \* a slip: half of the test

(* No arc was taken from the current node, and it is not the start.        *)
Stuck(frame) == frame.listPos = NoArc /\ frame.current # frame.start

ThrowNotEulerian ==
  /\ Running
  /\ Unvisited(Top.current) = {}
  /\ Stuck(Top)
  /\ status' = "thrown"
  /\ UNCHANGED <<nodes, arcs, start, arc_visited, lists, stack>>

AppendCycle(list, pos, cycle) == list \o cycle   \* a slip: put at the end

(* The list with a cycle put before the arc pos. *)
InsertBefore(list, pos, cycle) ==
  LET i == CHOOSE j \in 1..Len(list) : list[j] = pos
  IN  SubSeq(list, 1, i - 1) \o cycle \o SubSeq(list, i, Len(list))

Caller == stack[Len(stack) - 1]

(* An activation returns to the one that passed its list on, or, with a    *)
(* list of its own, to the one that inserts it.                            *)
Return ==
  /\ Running
  /\ Unvisited(Top.current) = {}
  /\ ~Stuck(Top)
  /\ stack' = Front(stack)
  /\ status' = IF Len(stack) = 1 THEN "returned" ELSE "running"
  /\ IF Len(stack) = 1 \/ Top.cycle = Caller.cycle THEN UNCHANGED lists
     ELSE lists' = [Front(lists) EXCEPT ![Caller.cycle] =
                      InsertBefore(@, Caller.listPos, lists[Top.cycle])]
  /\ UNCHANGED <<nodes, arcs, start, arc_visited>>

Next ==
  \/ GetEmptyTour \/ GetEulerTour
  \/ TakeFirstArc \/ OpenNewCycle \/ ThrowNotEulerian \/ Return

(* One thread runs the search to its end. *)
Spec == Init /\ [][Next]_vars /\ WF_vars(Next)

-----------------------------------------------------------------------------
(* The properties. *)

Result == lists[1]

(* The frames: an activation with its arguments and its local variables. *)
FrameType ==
  [current : Node, start : Node, cycle : Nat, listPos : Arc \cup {NoArc}]

(* Visited arcs are arcs of the graph, lists hold visited arcs only, and   *)
(* frames stand at nodes.                                                  *)
TypeOK ==
  /\ nodes \subseteq Node /\ arcs \subseteq Arc /\ start \in Node \cup {NoNode}
  /\ status \in {"called", "running", "returned", "thrown"}
  /\ arc_visited \subseteq arcs
  /\ lists \in Seq(Seq(arc_visited)) \ {<<>>}
  /\ stack \in Seq(FrameType)

(* Each arc that is visited stands at one place of one list. *)
EachArcOnce ==
  /\ arc_visited = UNION {ToSet(lists[i]) : i \in DOMAIN lists}
  /\ \A i, k \in DOMAIN lists : \A j \in DOMAIN lists[i], m \in DOMAIN lists[k] :
       lists[i][j] = lists[k][m] => i = k /\ j = m

(* While eulerRec is at work, at any depth, every visited arc stands at    *)
(* one place of one list, every list is a walk, and the last one leads     *)
(* from the start of the latest activation to its current node: putting a  *)
(* cycle into the middle of a list never tears it.                         *)
ListsAreWalks ==
  Running =>
    /\ \A i \in DOMAIN lists : IsWalk(lists[i])
    /\ EachArcOnce
    /\ LET list == Last(lists) IN
       IF list = <<>> THEN Top.current = Top.start
       ELSE Source[list[1]] = Top.start
            /\ (Top.listPos = NoArc => Target[Last(list)] = Top.current)

(* In a graph that is balanced at every node, such as the selection of a   *)
(* circulation, the call returns, and the result has exactly the arcs of   *)
(* the component of the start node: what buildSolutionTour relies on when  *)
(* it compares sizes to find sub tours.                                    *)
BalancedGivesComponent ==
  Balanced(arcs) =>
    /\ status # "thrown"
    /\ status = "returned" =>
         \E n \in nodes \cup {NoNode} :
           /\ start \in {n, NoNode}
           /\ ToSet(Result) = {a \in arcs : Source[a] \in ComponentOf(arcs, n)}

(* The algorithm implements the call: it ends with a tour of all that can  *)
(* be reached, or throws because the graph is not balanced.                *)
Call == INSTANCE EulerTour WITH
  status <- IF status = "called" THEN "running" ELSE status,
  tour <- IF status = "returned" THEN Result ELSE <<>>

ImplementsEulerTour == Call!EulerSpec
=============================================================================
