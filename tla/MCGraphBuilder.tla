--------------------------- MODULE MCGraphBuilder ---------------------------
(***************************************************************************)
(* Small networks for the graph builder.                                   *)
(***************************************************************************)
EXTENDS GraphBuilder

(* A line through the given stations, with a time that grows by one more   *)
(* at each stop.                                                           *)
LineThrough(st) ==
  [stations |-> st, times |-> [i \in DOMAIN st |-> (i * (i + 1)) \div 2]]

Network1(a) == [A |-> LineThrough(a)]
Network2(a, b) == [A |-> LineThrough(a), B |-> LineThrough(b)]
Network3(a, b, c) ==
  [A |-> LineThrough(a), B |-> LineThrough(b), C |-> LineThrough(c)]

Routes(S, k) == {r \in [1..k -> S] : IsInjective(r)}

-----------------------------------------------------------------------------
(* A first line of up to seven stations, and a second one of two or three  *)
(* that shares some of them, all of them or none.                          *)
TwoLines ==
  {Network2([i \in 1..k |-> i], b) :
     k \in {2, 3, 5, 7}, b \in Routes({1, 2, 5, 7, 8}, 2) \cup Routes({1, 3, 7, 8}, 3)}

ThreeLines ==
  {Network3(<<1, 2, 3, 4, 5, 6>>, b, c) :
     b \in {<<1, 7, 6>>, <<2, 7, 5>>, <<1, 6>>}, c \in Routes({1, 3, 7, 8}, 3)}

(* A file without lines gives a graph without nodes. *)
NoLines == [l \in {} |-> LineThrough(<<>>)]

SomeLines ==
  TwoLines \cup ThreeLines \cup {Network1([i \in 1..k |-> i]) : k \in 2..5} \cup {NoLines}

(* What the schema allows as well: a line with a single station. *)
ShortLines == {Network2([i \in 1..k |-> i], <<1>>) : k \in 2..7}

(* What main asks the builder for. *)
StationSpec == Init /\ type = "STATION" /\ preprocess = TRUE /\ [][Next]_vars
=============================================================================
