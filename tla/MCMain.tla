------------------------------- MODULE MCMain -------------------------------
(***************************************************************************)
(* Transport files for the whole program: networks of one to three lines,  *)
(* in which the start station "z" is a stop between others, the end of a   *)
(* line, a station to change at, or missing, and a file that is refused.   *)
(***************************************************************************)
EXTENDS Main

Stop(s, time) == [station |-> s, time |-> time]

(* A line takes one minute more from stop to stop, or one less. *)
Line(name, st) ==
  [name |-> name, stops |-> [i \in DOMAIN st |-> Stop(st[i], (i * (i + 1)) \div 2)]]
TimedLine(name, st, times) ==
  [name |-> name, stops |-> [i \in DOMAIN st |-> Stop(st[i], times[i])]]
SlowingLine(name, st) ==
  [name |-> name, stops |-> [i \in DOMAIN st |-> Stop(st[i], i * (12 - i))]]

StationsOf(ls) ==
  FlattenSeq([k \in DOMAIN ls |-> [i \in DOMAIN ls[k].stops |-> ls[k].stops[i].station]])

FileOf(ls) ==
  [fault |-> "none",
   sections |-> <<[tag |-> "stations", items |-> StationsOf(ls)],
                  [tag |-> "lines", items |-> ls]>>]

Unlisted ==
  [fault |-> "none", sections |-> <<[tag |-> "lines", items |-> <<Line("A", <<"a", "b">>)>>]>>]

Routes(S, k) == {r \in [1..k -> S] : IsInjective(r)}

-----------------------------------------------------------------------------
FirstLines ==
  {Line("A", <<"a", "b", "z", "c", "d">>), SlowingLine("A", <<"a", "b", "c", "z", "d">>)}

SecondLines ==
  {Line("B", r) : r \in Routes({"a", "c", "e", "z"}, 3) \cup Routes({"b", "d", "e"}, 2)}

BranchLines == {Line("B", r) : r \in Routes({"c", "e", "z"}, 3)}

ThirdLines == {Line("C", <<"e", "a">>), SlowingLine("C", <<"d", "g", "b">>)}

(* Two lines between the same terminals, where no station is unique. *)
Ring == FileOf(<<Line("A", <<"a", "b", "z", "d">>), Line("B", <<"a", "c", "e", "d">>)>>)

(* Rides so long that it pays to turn before a change that lies ahead.     *)
LongRides ==
  {FileOf(<<TimedLine("A", <<"a", "b", "z", "c">>, <<0, 7, 10, 16>>),
            TimedLine("B", <<"c", "d", "b">>, <<0, 3, 6>>),
            TimedLine("C", <<"c", "a">>, <<0, 3>>)>>),
   FileOf(<<TimedLine("A", <<"b", "d", "z", "a">>, <<0, 3, 7, 9>>),
            TimedLine("B", <<"b", "z", "c", "d">>, <<0, 1, 4, 9>>)>>)}

(* Two lines between the same stations, which the graph builder refuses. *)
TwoTerminals == FileOf(<<Line("A", <<"a", "b">>), Line("B", <<"a", "b">>)>>)

(* A ride so long that it pays to turn on both sides of it. *)
LongInnerRide ==
  {FileOf(<<TimedLine("A", <<"c", "x", "y", "d">>, <<0, 1, 41, 42>>),
            TimedLine("B", <<"c", "m", "d", "n">>, <<0, 1, 2, 3>>)>>)}

(* Lines around b, a and g, so that it pays to go that way twice. *)
SameWayTwice ==
  {FileOf(<<TimedLine("B", <<"e", "g", "d">>, <<0, 1, 2>>),
            TimedLine("C", <<"d", "b", "a", "g", "f">>, <<0, 2, 3, 4, 5>>),
            TimedLine("D", <<"f", "b">>, <<0, 1>>)>>)}

-----------------------------------------------------------------------------
SomeFiles ==
  {Unlisted, Ring, TwoTerminals, FileOf(<<Line("A", <<"a", "b">>)>>)}
    \cup LongRides \cup LongInnerRide \cup SameWayTwice
    \cup {FileOf(<<a>>) : a \in FirstLines}
    \cup {FileOf(<<a, b>>) : a \in FirstLines, b \in SecondLines}
    \cup {FileOf(<<a, b, c>>) : a \in FirstLines, b \in BranchLines, c \in ThirdLines}
=============================================================================
