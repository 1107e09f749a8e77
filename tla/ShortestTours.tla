--------------------------- MODULE ShortestTours ----------------------------
(***************************************************************************)
(* Shortest closed walks through given stations, and shortest tours, which *)
(* take no arc twice, both computed by length.                             *)
(*                                                                         *)
(* A label <<first, last, visited>> stands for the walks from one node to  *)
(* another that visit a set of stations.  Level c + 1 holds the labels     *)
(* whose shortest walks have the length c.  Every arc takes some time.     *)
(***************************************************************************)
EXTENDS Lines

CONSTANT MaxLength   \* bound: longer tours are not looked for

ASSUME LengthAssumption == MaxLength \in Nat

Along(label, a) == <<label[1], a.to, label[3] \cup {StationOfNode(a.to)}>>

Closes(label, all) == label[1] = label[2] /\ all \subseteq label[3]

(* The labels reached at length c by one more arc. *)
Reached(levels, arcs, c) ==
  UNION {{Along(label, a) : label \in {k \in levels[c - a.dist + 1] : k[2] = a.from}} :
           a \in {b \in arcs : b.dist <= c}}

Extended(search, new, all) ==
  [levels |-> Append(search.levels, new),
   seen |-> search.seen \cup new,
   found |-> \E label \in new : Closes(label, all)]

(* All walks visit the station s, so they may be told from there.  The     *)
(* search goes on level by level until there is a tour.  A set of one      *)
(* search stands for it, so that TLC has its value before it goes on.      *)
Searches(arcs, all, s) ==
  LET first == {<<n, n, {s}>> : n \in {a.from : a \in arcs} \cap NodesAt(s)}
      after[c \in 0..MaxLength] ==
        IF c = 0 THEN {[levels |-> <<first>>, seen |-> first, found |-> FALSE]}
        ELSE UNION {IF p.found THEN {p}
                    ELSE {Extended(p, new, all) : new \in {Reached(p.levels, arcs, c) \ p.seen}} :
                      p \in after[c - 1]}
  IN  after[MaxLength]

LengthOf(search) == IF search.found THEN Len(search.levels) - 1 ELSE MaxLength + 1

ShortestLength(arcs, all, s) ==
  CHOOSE c \in {LengthOf(search) : search \in Searches(arcs, all, s)} : TRUE

-----------------------------------------------------------------------------
(* The tours that can be selected, with a variable for every arc.          *)
IsTour(t, arcs, all) ==
  /\ t \in Seq(arcs) \ {<<>>}
  /\ t[1].from = t[Len(t)].to
  /\ \A p \in 1..(Len(t) - 1) : t[p].to = t[p + 1].from
  /\ all \subseteq {StationOfNode(t[p].to) : p \in DOMAIN t}
  /\ IsInjective(t)

(* The trails from s of length c: an arc, or a shorter trail and one arc   *)
(* that it has not taken.                                                  *)
Trails(levels, arcs, s, c) ==
  {<<a>> : a \in {b \in arcs : b.dist = c /\ b.from \in NodesAt(s)}}
    \cup
  UNION {{Append(t, a) : t \in {u \in levels[c - a.dist] :
                                  Last(u).to = a.from /\ a \notin ToSet(u)}} :
           a \in {b \in arcs : b.dist < c}}

Continued(search, new, arcs, all) ==
  [levels |-> Append(search.levels, new), found |-> \E t \in new : IsTour(t, arcs, all)]

(* As above, level c has the trails of length c. *)
TrailSearches(arcs, all, s) ==
  LET after[c \in 0..MaxLength] ==
        IF c = 0 THEN {[levels |-> <<>>, found |-> FALSE]}
        ELSE UNION {IF p.found THEN {p}
                    ELSE {Continued(p, new, arcs, all) :
                            new \in {Trails(p.levels, arcs, s, c)}} :
                      p \in after[c - 1]}
  IN  after[MaxLength]

TourLength(arcs, all, s) ==
  CHOOSE c \in {IF search.found THEN Len(search.levels) ELSE MaxLength + 1 :
                  search \in TrailSearches(arcs, all, s)} : TRUE

(* The shortest tours, from each of their arcs on. *)
Turned(t, p) == SubSeq(t, p, Len(t)) \o SubSeq(t, 1, p - 1)

ShortestTours(arcs, all, s) ==
  UNION {UNION {{Turned(t, p) : p \in DOMAIN t} :
                  t \in {u \in Last(search.levels) : IsTour(u, arcs, all)}} :
           search \in {x \in TrailSearches(arcs, all, s) : x.found}}
=============================================================================
