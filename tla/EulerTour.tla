----------------------------- MODULE EulerTour -----------------------------
(***************************************************************************)
(* What a call of getEulerTour promises.                                   *)
(*                                                                         *)
(* The result is a closed walk that takes no arc twice and that leaves no  *)
(* arc behind at any node it passes.  The call throws only when some node  *)
(* of the graph has more arcs in than out or the other way round.          *)
(***************************************************************************)
EXTENDS Walks

CONSTANT NoNode   \* the null pointer, for a start node that is not given

VARIABLES nodes, arcs, start,   \* the graph and the argument of the call
          status, tour          \* how the call ended, and its result

eulerVars == <<nodes, arcs, start, status, tour>>

(* Without a start node the call takes the first node of the graph. *)
StartNodes == IF start = NoNode THEN nodes ELSE {start}

EulerInit ==
  /\ nodes \in SUBSET Node
  /\ arcs \in SUBSET {a \in Arc : Source[a] \in nodes /\ Target[a] \in nodes}
  /\ start \in nodes \cup {NoNode}
  /\ status = "running"
  /\ tour = <<>>

ReturnTour ==
  /\ status = "running"
  /\ status' = "returned"
  /\ IF nodes = {} THEN tour' = <<>>
     ELSE \E n \in StartNodes : IsEulerTour(tour', arcs, n)
  /\ UNCHANGED <<nodes, arcs, start>>

ThrowNotEulerian ==
  /\ status = "running"
  /\ ~Balanced(arcs)
  /\ status' = "thrown"
  /\ UNCHANGED <<nodes, arcs, start, tour>>

EulerNext == ReturnTour \/ ThrowNotEulerian

(* A call ends. *)
EulerSpec ==
  EulerInit /\ [][EulerNext]_eulerVars /\ <>(status # "running")
=============================================================================
