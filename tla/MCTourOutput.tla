---------------------------- MODULE MCTourOutput ----------------------------
(***************************************************************************)
(* Closed walks, from every one of their arcs on, in the graphs that the   *)
(* graph builder makes of small networks.                                  *)
(***************************************************************************)
EXTENDS TourOutput

Line(st, times) == [stations |-> st, times |-> times]

OneLine == [A |-> Line(<<"a", "b", "c">>, <<0, 1, 3>>)]
TwoLines == [A |-> Line(<<"a", "b">>, <<0, 2>>), B |-> Line(<<"b", "c">>, <<0, 1>>)]
Crossing ==
  [A |-> Line(<<"a", "b", "c">>, <<0, 2, 3>>), B |-> Line(<<"d", "b", "e">>, <<0, 1, 3>>)]

Graph(net, prep) ==
  INSTANCE TransportGraph WITH
    lines <- net, type <- "STATION", preprocess <- prep,
    change_cost <- 5, switch_cost <- 4, status <- "built", graph <- <<>>

(* Walks of k arcs that use no arc twice. *)
Trails(arcs, max) ==
  LET trails[k \in 1..max] ==
        IF k = 1 THEN {<<a>> : a \in arcs}
        ELSE {Append(p[1], p[2]) :
                p \in {q \in trails[k - 1] \X arcs :
                         q[2].from = Last(q[1]).to /\ q[2] \notin ToSet(q[1])}}
  IN  UNION {trails[k] : k \in 1..max}

ClosedTrails(arcs, max) == {t \in Trails(arcs, max) : Last(t).to = t[1].from}

ToursOf(net, prep, max) ==
  {[lines |-> net, tour |-> t] : t \in ClosedTrails(Graph(net, prep)!GraphArcs, max)}

SomeTours ==
  ToursOf(OneLine, FALSE, 6) \cup ToursOf(TwoLines, FALSE, 6) \cup ToursOf(Crossing, TRUE, 12)
=============================================================================
