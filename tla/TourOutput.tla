----------------------------- MODULE TourOutput -----------------------------
(***************************************************************************)
(* GraphBuilder::printTour and saveTexTour: from a tour to the four        *)
(* columns of the table that is printed.                                   *)
(*                                                                         *)
(* The tour is rotated to the start station, its arcs become rows, or      *)
(* extend the last row, and rows of changes are erased in the end.         *)
(* _nodes_removed is never set, so that compact stays as it was given.     *)
(* Times are integers, as the lines and the costs of a change have them.   *)
(***************************************************************************)
EXTENDS Lines

CONSTANTS Tours,     \* networks with a tour each
          NoStart,   \* no start station is given
          Missing    \* a station that is not in the network

(* Tours as the solver makes them of the graph: closed walks that are not  *)
(* empty, in which a change stays at its station and has its own name.     *)
ASSUME ToursAssumption ==
  \A n \in Tours : \E t \in {n.tour} :
    /\ t \in Seq(ToSet(t)) \ {<<>>}
    /\ \A p \in 1..(Len(t) - 1) : t[p].to = t[p + 1].from
    /\ t[Len(t)].to = t[1].from
    /\ \A a \in ToSet(t) : a.dist \in Int /\ (a.connection <=> a.name = CHANGE_NAME)
    /\ \A a \in ToSet(t) : a.name = CHANGE_NAME =>
         n.lines[a.from[1]].stations[a.from[3]] = n.lines[a.to[1]].stations[a.to[3]]

VARIABLES
  tour, start, compact,   \* the arguments
  phase,
  my_tour,                \* the rotated tour
  position, time,         \* the loop that adds rows: next arc, time so far
  column,                 \* the four columns, each with its head
  it, i,                  \* the loop that erases rows: iterator and index
  changes                 \* tourGetChanges

arguments == <<lines, tour, start, compact>>
vars == <<arguments, phase, my_tour, position, time, column, it, i, changes>>

Leaves(t, p, s) == StationOfNode(t[p].from) = s

-----------------------------------------------------------------------------
Init ==
  /\ \E n \in Tours : lines = n.lines /\ tour = n.tour
  /\ start \in StationNames \cup {Missing, NoStart}
  /\ compact \in BOOLEAN
  /\ phase = "rotating"
  /\ my_tour = <<>> /\ position = 1 /\ time = 0
  /\ column = [c \in 0..3 |-> <<<<"Start">>, <<"Line">>, <<"Destination">>, <<"Time (m)">>>>[c + 1]]
  /\ it = 1 /\ i = 0
  /\ changes = 0

RotatedTo(t, p) == SubSeq(t, p, Len(t)) \o SubSeq(t, 1, p - 1)

(* The last arc that leaves the start station comes first. *)
Rotate ==
  /\ phase = "rotating" /\ start # NoStart
  /\ \E leaving \in {{p \in DOMAIN tour : Leaves(tour, p, start)}} :
       \/ /\ leaving = {}
          /\ phase' = "thrown"
          /\ UNCHANGED my_tour
       \/ /\ leaving # {}
          /\ my_tour' = RotatedTo(tour, CHOOSE p \in leaving : \A q \in leaving : q <= p)
          /\ phase' = "rows"
  /\ UNCHANGED <<arguments, position, time, column, it, i, changes>>

(* The overloads without a start station. *)
TakeAsItIs ==
  /\ phase = "rotating" /\ start = NoStart
  /\ my_tour' = tour
  /\ phase' = "rows"
  /\ UNCHANGED <<arguments, position, time, column, it, i, changes>>

-----------------------------------------------------------------------------
Arc == my_tour[position]

Rows == Len(column[0])

ExtendsByStation ==   \* a slip: the line is not looked at
  compact /\ Rows > 1 /\ Last(column[2]) = StationOfNode(Arc.from)

ExtendsRow ==
  /\ compact /\ Rows > 1
  /\ Last(column[1]) = Arc.name
  /\ Last(column[2]) = StationOfNode(Arc.from)

AddedRow(t) ==
  [c \in 0..3 |-> Append(column[c],
     <<StationOfNode(Arc.from), Arc.name, StationOfNode(Arc.to), t>>[c + 1])]

OnlyLater(t) ==   \* a slip: the destination is not replaced
  [column EXCEPT ![3] = Append(Front(@), t)]

ExtendedRow(t) ==
  [column EXCEPT ![2] = Append(Front(@), StationOfNode(Arc.to)),
                 ![3] = Append(Front(@), t)]

TakeArc ==
  /\ phase = "rows" /\ position \in DOMAIN my_tour
  /\ time' = time + Arc.dist
  /\ column' = IF ExtendsRow THEN ExtendedRow(time') ELSE AddedRow(time')
  /\ position' = position + 1
  /\ UNCHANGED <<arguments, phase, my_tour, it, i, changes>>

RowsAreComplete ==
  /\ phase = "rows" /\ position \notin DOMAIN my_tour
  /\ phase' = IF compact THEN "erasing" ELSE "printing"
  /\ UNCHANGED <<arguments, my_tour, position, time, column, it, i, changes>>

-----------------------------------------------------------------------------
AnyChange == column[1][it] = CHANGE_NAME   \* a slip: the last row is no exception

IsErased == column[1][it] = CHANGE_NAME /\ it # 1 /\ it + 1 <= Len(column[1])

SecondIndexIsBehind(k) ==   \* a slip: the other columns lose the row above
  [c \in 0..3 |-> RemoveAt(column[c], IF c = 1 THEN it ELSE k)]

(* The line is erased at the iterator, the others at the index. *)
Erased(k) == [c \in 0..3 |-> RemoveAt(column[c], IF c = 1 THEN it ELSE k + 1)]

EraseRow ==
  /\ phase = "erasing" /\ it <= Len(column[1])
  /\ IsErased
  /\ column' = Erased(i)
  /\ UNCHANGED <<arguments, phase, my_tour, position, time, it, i, changes>>

IndexStays(k) == k   \* a slip: only the iterator moves

NextIndex(k) == k + 1

KeepRow ==
  /\ phase = "erasing" /\ it <= Len(column[1])
  /\ ~IsErased
  /\ it' = it + 1 /\ i' = NextIndex(i)
  /\ UNCHANGED <<arguments, phase, my_tour, position, time, column, changes>>

RowsAreErased ==
  /\ phase = "erasing" /\ it > Len(column[1])
  /\ phase' = "printing"
  /\ UNCHANGED <<arguments, my_tour, position, time, column, it, i, changes>>

-----------------------------------------------------------------------------
(* printTour, with the number of changes. *)
PrintTour ==
  /\ phase = "printing"
  /\ changes' = Cardinality({p \in DOMAIN tour : tour[p].name = CHANGE_NAME})
  /\ phase' = "printed"
  /\ UNCHANGED <<arguments, my_tour, position, time, column, it, i>>

Next ==
  \/ Rotate \/ TakeAsItIs
  \/ TakeArc \/ RowsAreComplete
  \/ EraseRow \/ KeepRow \/ RowsAreErased
  \/ PrintTour

(* One thread prints the tour to the end. *)
Spec == Init /\ [][Next]_vars /\ WF_vars(Next)

-----------------------------------------------------------------------------
(* The properties. *)

Phases == {"rotating", "rows", "erasing", "printing", "printed", "thrown"}

(* The columns have the same number of rows all the time, the index is at  *)
(* the row of the iterator, and the times grow from row to row when every  *)
(* ride takes its time.                                                    *)
TypeOK ==
  /\ phase \in Phases
  /\ \A c \in 0..3 : Len(column[c]) = Rows
  /\ it \in 1..(Rows + 1) /\ i = it - 1
  /\ (\A p \in DOMAIN tour : tour[p].dist > 0) =>
       \A k \in 3..Rows : column[3][k - 1] < column[3][k]

(* The assertion in getTourOutput: the next arc leaves the station that    *)
(* the last row ends at, also where the rotated tour was joined.           *)
ContinuityAssertion ==
  phase = "rows" /\ position \in DOMAIN my_tour /\ Rows > 1 =>
    Last(column[2]) = StationOfNode(Arc.from)

(* A row k of the table, the head being row 1. *)
RowAt(k) == <<column[0][k], column[1][k], column[2][k], column[3][k]>>

(* The time that has passed after each arc of a tour. *)
Elapsed(t) ==
  LET sum[q \in 0..Len(t)] == IF q = 0 THEN 0 ELSE sum[q - 1] + t[q].dist IN sum

(* In a printed row, start, line, destination and time belong together:    *)
(* some part of the tour leads from that start to that destination, on     *)
(* that line only, and it is over at that time.                            *)
RowsAreRides ==
  phase = "printed" =>
    \A k \in 2..Rows : \E p, q \in DOMAIN my_tour :
      /\ p <= q
      /\ \A r \in p..q : my_tour[r].name = column[1][k]
      /\ RowAt(k) = <<StationOfNode(my_tour[p].from), my_tour[q].name,
                      StationOfNode(my_tour[q].to), Elapsed(my_tour)[q]>>

(* Whatever is merged and erased, the table stays a closed journey: it     *)
(* begins and ends at the start station, every row begins where the one    *)
(* before it ends, and the last time is the length of the tour.            *)
TableIsClosed ==
  phase = "printed" =>
    /\ Rows > 1
    /\ start # NoStart => column[0][2] = start
    /\ \A k \in 2..Rows : column[2][IF k = 2 THEN Rows ELSE k - 1] = column[0][k]
    /\ column[3][Rows] = Elapsed(tour)[Len(tour)]

Promise == INSTANCE TourTable WITH
  status <- IF phase \in {"printed", "thrown"} THEN phase ELSE "telling",
  table <- IF phase = "printed" THEN [k \in 1..(Rows - 1) |-> RowAt(k + 1)] ELSE <<>>

(* Row by row, the table that TourTable states comes out, for the tour     *)
(* told from the start station, and printing ends.                         *)
ImplementsTourTable == Promise!TableSpec
=============================================================================
