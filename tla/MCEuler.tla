------------------------------ MODULE MCEuler ------------------------------
(***************************************************************************)
(* Every multigraph on at most four nodes whose arcs are among the nine   *)
(* below: two parallel arcs, arcs in both directions and a loop, balanced  *)
(* or not, connected or not.                                               *)
(***************************************************************************)
EXTENDS Euler

Ends ==
  [ab |-> <<"a", "b">>, ab2 |-> <<"a", "b">>, ba |-> <<"b", "a">>,
   bc |-> <<"b", "c">>, cb |-> <<"c", "b">>, ca |-> <<"c", "a">>,
   cc |-> <<"c", "c">>, cd |-> <<"c", "d">>, dc |-> <<"d", "c">>]

SmallNode == {"a", "b", "c", "d"}
SmallArc == DOMAIN Ends
SmallSource == [e \in SmallArc |-> Ends[e][1]]
SmallTarget == [e \in SmallArc |-> Ends[e][2]]
NoLength == [e \in SmallArc |-> 0]
=============================================================================
