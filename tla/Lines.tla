------------------------------- MODULE Lines --------------------------------
(***************************************************************************)
(* Lines of a transport network, as the XML reader hands them over: a line *)
(* has a sequence of stations and the times at which it passes them.  The  *)
(* file names no line at a station; Station::lines is derived.             *)
(*                                                                         *)
(* A node of the graph is a stop of a line in one of its two directions,   *)
(* <<line, direction, position on the line>>.                              *)
(***************************************************************************)
EXTENDS Integers, Sequences, FiniteSets, SequencesExt

CONSTANT UintRange   \* the number of values of an unsigned int

VARIABLE lines   \* from name to [stations, times]

Stops(l) == DOMAIN lines[l].stations

LastStop(l) == Len(lines[l].stations)

StationAt(l, i) == lines[l].stations[i]

StationNames == UNION {ToSet(lines[l].stations) : l \in DOMAIN lines}

(* Station::lines *)
LinesAt(s) == {l \in DOMAIN lines : s \in ToSet(lines[l].stations)}

IsTerminal(l, i) == i \in {1, LastStop(l)}

IsConnecting(s) == Cardinality(LinesAt(s)) > 1

ConnectingStop(l, i) == IsConnecting(StationAt(l, i))

HasPrecedingConnecting(l, i) == \E j \in 1..(i - 1) : ConnectingStop(l, j)

HasFollowingConnecting(l, i) == \E j \in (i + 1)..LastStop(l) : ConnectingStop(l, j)

-----------------------------------------------------------------------------
Directions == {"way", "back"}

Way(l, i) == <<l, "way", i>>
Back(l, i) == <<l, "back", i>>

LineNodes(l) == {<<l, d, i>> : d \in Directions, i \in Stops(l)}

StationOfNode(n) == StationAt(n[1], n[3])

NodesAt(s) ==
  {n \in UNION {LineNodes(l) : l \in DOMAIN lines} : StationOfNode(n) = s}

CHANGE_NAME == "<->"

(* An arc with the entries of _arc_names, _dist and _connection_arcs. *)
Travel(l, u, v, time) ==
  [from |-> u, to |-> v, name |-> l, dist |-> time, connection |-> FALSE]

Change(u, v, cost) ==
  [from |-> u, to |-> v, name |-> CHANGE_NAME, dist |-> cost, connection |-> TRUE]

(* An unsigned value that is put into an int. *)
AsInt(u) == IF u < UintRange \div 2 THEN u ELSE u - UintRange

(* The time from stop i to the stop j after it: the difference is unsigned. *)
RideTime(l, i, j) == AsInt((lines[l].times[j] - lines[l].times[i]) % UintRange)
=============================================================================
