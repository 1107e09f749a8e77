----------------------------- MODULE TourTable ------------------------------
(***************************************************************************)
(* What the printed table says of a tour, stated as a whole.               *)
(*                                                                         *)
(* The tour is told from the start station on.  A compact table has one    *)
(* row for each run of arcs with the same name, the long one a row for     *)
(* each arc.  Changes are not told in a compact table, but for the last    *)
(* row.  A tour that does not leave the start station is refused.          *)
(***************************************************************************)
EXTENDS Lines

CONSTANTS NoStart

VARIABLES tour, start, compact, status, table, changes

tableVars == <<lines, tour, start, compact, status, table, changes>>

Rotation(p) == SubSeq(tour, p, Len(tour)) \o SubSeq(tour, 1, p - 1)

Told ==
  IF start = NoStart THEN {tour}
  ELSE {Rotation(p) : p \in {q \in DOMAIN tour : StationOfNode(tour[q].from) = start}}

EndsRun(t, q) == ~compact \/ q = Len(t) \/ t[q + 1].name # t[q].name

(* The arcs that a row ends with. *)
LastArcs(t) ==
  {q \in DOMAIN t : EndsRun(t, q) /\ (compact /\ t[q].name = CHANGE_NAME => q = Len(t))}

FirstOfRun(t, q) ==
  CHOOSE p \in 1..q : /\ p = 1 \/ EndsRun(t, p - 1)
                      /\ \A k \in p..(q - 1) : ~EndsRun(t, k)

Elapsed(t, q) == FoldLeft(LAMBDA sum, a : sum + a.dist, 0, SubSeq(t, 1, q))

Row(t, q) ==
  <<StationOfNode(t[FirstOfRun(t, q)].from), t[q].name,
    StationOfNode(t[q].to), Elapsed(t, q)>>

Nth(S, k) == CHOOSE q \in S : Cardinality({p \in S : p <= q}) = k

Table(t) == [k \in 1..Cardinality(LastArcs(t)) |-> Row(t, Nth(LastArcs(t), k))]

-----------------------------------------------------------------------------
TableInit == status = "telling" /\ table = <<>> /\ changes = 0

Tell ==
  /\ status = "telling" /\ status' = "printed"
  /\ \E t \in Told : table' = Table(t)
  /\ changes' = Cardinality({q \in DOMAIN tour : tour[q].connection})
  /\ UNCHANGED <<lines, tour, start, compact>>

Refuse ==
  /\ status = "telling" /\ status' = "thrown"
  /\ Told = {}
  /\ UNCHANGED <<lines, tour, start, compact, table, changes>>

TableSpec ==
  TableInit /\ [][Tell \/ Refuse]_tableVars /\ <>(status # "telling")
=============================================================================
