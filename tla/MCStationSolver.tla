-------------------------- MODULE MCStationSolver --------------------------
(***************************************************************************)
(* Small problems for the station solver.                                  *)
(*                                                                         *)
(* Each arc is written <<name, from, to, length>>; the length of a         *)
(* connection arc is 5, the change_cost main() passes to the graph builder.*)
(***************************************************************************)
EXTENDS StationSolver, TLC

CONSTANT Far   \* length of the arcs between b and s in the parallel network

Arcs(rows) == {r[1] : r \in rows}
Row(rows, a) == CHOOSE r \in rows : r[1] = a
Column(rows, i) == [a \in Arcs(rows) |-> Row(rows, a)[i]]

-----------------------------------------------------------------------------
(* Two lines join the stations s and t, a third one runs from a over b to  *)
(* s.  Node s1i is where line 1 arrives at s, s1o where it departs.        *)
ParallelRows ==
  {<<"ab", "a", "b", 1>>, <<"ba", "b", "a", 1>>,
   <<"bs", "b", "s3i", Far>>, <<"sb", "s3o", "b", Far>>,
   <<"c31", "s3i", "s1o", 5>>, <<"c32", "s3i", "s2o", 5>>,
   <<"c13", "s1i", "s3o", 5>>, <<"c23", "s2i", "s3o", 5>>,
   <<"c21", "s2i", "s1o", 5>>, <<"c12", "s1i", "s2o", 5>>,
   <<"st1", "s1o", "t1", 1>>, <<"ts2", "t1", "s2i", 6>>,
   <<"st2", "s2o", "t2", 1>>, <<"ts1", "t2", "s1i", 6>>}

ParallelNode == {"a", "b", "s1i", "s1o", "s2i", "s2o", "s3i", "s3o", "t1", "t2"}
ParallelArc == Arcs(ParallelRows)
ParallelSource == Column(ParallelRows, 2)
ParallelTarget == Column(ParallelRows, 3)
ParallelDist == Column(ParallelRows, 4)

ParallelStations ==
  [a |-> {"a"}, b |-> {"b"},
   s |-> {"s1i", "s1o", "s2i", "s2o", "s3i", "s3o"}, t |-> {"t1", "t2"}]

(* Other ways to group the same nodes: without a tour that takes every arc *)
(* at most once, with a station where only line 3 ends, and with one       *)
(* station at the end of line 3.                                           *)
SplitTerminal ==
  [a |-> {"a"}, b |-> {"b"}, s |-> ParallelStations.s, t |-> {"t1"}, v |-> {"t2"}]
SplitChange ==
  [a |-> {"a"}, b |-> {"b"}, c |-> {"s3i", "s3o"},
   s |-> {"s1i", "s1o", "s2i", "s2o"}, t |-> {"t1", "t2"}]
OneEnd == [ab |-> {"a", "b"}, s |-> ParallelStations.s, t |-> {"t1", "t2"}]

(* Maps the constructor refuses: no unique station, a node in two          *)
(* stations, and a node in none.                                           *)
BadStations ==
  {[s |-> ParallelStations.s, t |-> {"a", "b", "t1", "t2"}],
   [ParallelStations EXCEPT !.b = {"a", "b"}],
   [ParallelStations EXCEPT !.t = {"t1"}]}

(* Stations that lie across the lines, so that candidates fall into        *)
(* components that share stations and leave nodes of them out, and the     *)
(* numbering of the components matters.                                    *)
AcrossMaps ==
  {[a |-> {"a"}, b |-> {"b"}] @@ st : st \in
     {[p |-> {"s1i", "s2o", "s3o", "t1", "t2"}, q |-> {"s1o", "s2i", "s3i"}],
      [p |-> {"s2i", "s3o", "t1"}, q |-> {"s1i", "s1o", "s2o", "s3i", "t2"}],
      [p |-> {"s2o", "s3o", "t1"}, q |-> {"s1o", "s2i"}, r |-> {"s1i", "s3i", "t2"}]}}

AllMaps ==
  {ParallelStations, SplitTerminal, SplitChange, OneEnd} \cup AcrossMaps \cup BadStations

-----------------------------------------------------------------------------
(* The network GraphBuilder makes of three lines, with the arcs in series  *)
(* joined: line 1 runs u - s - t, line 2 runs s - t, line 3 runs w - u - z *)
(* and turns at w and z.  Node s1t is line 1 at s on its way to t, s1u on  *)
(* its way back.                                                           *)
TrunkRows ==
  {<<"wu", "w", "u3z", 1>>, <<"uz", "u3z", "z", 6>>,
   <<"zu", "z", "u3w", 1>>, <<"uw", "u3w", "w", 6>>,
   <<"c31z", "u3z", "u1o", 5>>, <<"c31w", "u3w", "u1o", 5>>,
   <<"c13z", "u1i", "u3z", 5>>, <<"c13w", "u1i", "u3w", 5>>,
   <<"us", "u1o", "s1t", Far>>, <<"su", "s1u", "u1i", Far>>,
   <<"ct12", "s1t", "s2o", 5>>, <<"cu12", "s1u", "s2o", 5>>,
   <<"ct21", "s2i", "s1t", 5>>, <<"cu21", "s2i", "s1u", 5>>,
   <<"st1", "s1t", "t1", 1>>, <<"ts2", "t1", "s2i", 6>>,
   <<"st2", "s2o", "t2", 1>>, <<"ts1", "t2", "s1u", 6>>}

TrunkNode ==
  {"w", "z", "u3z", "u3w", "u1o", "u1i", "s1t", "s1u", "s2o", "s2i", "t1", "t2"}
TrunkArc == Arcs(TrunkRows)
TrunkSource == Column(TrunkRows, 2)
TrunkTarget == Column(TrunkRows, 3)
TrunkDist == Column(TrunkRows, 4)

TrunkMaps ==
  {[w |-> {"w"}, z |-> {"z"}, u |-> {"u3z", "u3w", "u1o", "u1i"},
    s |-> {"s1t", "s1u", "s2o", "s2i"}, t |-> {"t1", "t2"}]}

-----------------------------------------------------------------------------
(* An instance has closed walks, and circulations that are none. *)
ASSUME InstanceAssumption == {{}} # ClosedWalks /\ ClosedWalks # Circulation
=============================================================================
