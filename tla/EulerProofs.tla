---------------------------- MODULE EulerProofs ----------------------------
(***************************************************************************)
(* Proofs about Hierholzer's algorithm, for every graph.                   *)
(*                                                                         *)
(* The inductive invariant follows the frames of the stack from the first  *)
(* activation to the latest: each one that has called another one holds    *)
(* the position of an arc in its list, all lists but the last are closed   *)
(* walks, a node that still has an unvisited arc is the current node of    *)
(* some frame, and the visited arcs are balanced but for the start and the *)
(* current node of the latest activation.                                  *)
(***************************************************************************)
EXTENDS Euler, NetworkTheorems, SequenceLemmas

Start == stack[1].start

(* The list of the frame i leads back to the frame's start unless it is    *)
(* the last one and the latest activation is on its way to a first arc.    *)
Open(i) == stack[i].cycle = Len(lists) /\ Top.listPos = NoArc

(* The current node of the latest activation, while its list is open. *)
OpenEnd == IF Top.listPos = NoArc THEN Top.current ELSE Top.start

(* What joins a frame to the one below it. *)
Called(lower, upper) ==
  /\ lower.listPos # NoArc
  /\ \/ /\ upper.cycle = lower.cycle
        /\ upper.start = lower.start
        /\ upper.current = Target[lower.listPos]
     \/ /\ upper.cycle = lower.cycle + 1
        /\ upper.start = lower.current
        /\ upper.current = lower.current

FramesAreJoined ==
  /\ stack # <<>>
  /\ stack[1].cycle = 1 /\ Top.cycle = Len(lists)
  /\ \A i \in DOMAIN stack : stack[i].cycle \in DOMAIN lists
  /\ \A i \in 1..(Len(stack) - 1) : Called(stack[i], stack[i + 1])
  /\ \A i, k \in DOMAIN stack :
       /\ stack[i].cycle = stack[k].cycle => stack[i].start = stack[k].start
       /\ i <= k => stack[i].cycle <= stack[k].cycle

PositionsAreInLists ==
  \A i \in DOMAIN stack : stack[i].listPos # NoArc =>
    /\ Source[stack[i].listPos] = stack[i].current
    /\ stack[i].listPos \in ToSet(lists[stack[i].cycle])

ListsLeadOn ==
  /\ \A i \in DOMAIN lists : IsWalk(lists[i])
  /\ \A i \in DOMAIN stack : LET list == lists[stack[i].cycle] IN
       IF list = <<>> THEN Open(i) /\ Top.current = Top.start
       ELSE /\ Source[list[1]] = stack[i].start
            /\ Target[Last(list)] = IF Open(i) THEN Top.current ELSE stack[i].start

(* A node the search has come to. *)
Touched(x) == x = Start \/ x \in NodesOf(arc_visited)

NothingIsForgotten ==
  \A x \in Node : Touched(x) /\ Unvisited(x) # {} =>
    \E i \in DOMAIN stack : stack[i].current = x

VisitedIsBalanced ==
  \A x \in Node :
    Cardinality(OutArcs(arc_visited, x)) + (IF x = OpenEnd THEN 1 ELSE 0)
      = Cardinality(InArcs(arc_visited, x)) + (IF x = Top.start THEN 1 ELSE 0)

(* The search stays in every set of nodes around n that no arc leaves. *)
StaysWithin(n, x) ==
  \A W \in SUBSET Node : n \in W /\ IsClosed(arcs, W) => NodesOf(x) \subseteq W

WhileCalled ==
  arc_visited = {} /\ lists = <<<<>>>> /\ stack = <<>>

WhileRunning ==
  /\ Start \in nodes /\ start \in {Start, NoNode}
  /\ stack[1].current = Start
  /\ FramesAreJoined
  /\ PositionsAreInLists
  /\ EachArcOnce
  /\ ListsLeadOn
  /\ NothingIsForgotten
  /\ VisitedIsBalanced
  /\ StaysWithin(Start, arc_visited)

OnceReturned ==
  IF nodes = {} THEN Result = <<>>
  ELSE \E n \in nodes :
         /\ start \in {n, NoNode}
         /\ IsEulerTour(Result, arcs, n)
         /\ StaysWithin(n, ToSet(Result))

IInv ==
  /\ TypeOK
  /\ arcs \subseteq {a \in Arc : Source[a] \in nodes /\ Target[a] \in nodes}
  /\ start \in nodes \cup {NoNode}
  /\ status = "called" => WhileCalled
  /\ status = "running" => WhileRunning
  /\ status = "returned" => OnceReturned
  /\ status = "thrown" => ~Balanced(arcs)
-----------------------------------------------------------------------------
(* Putting a cycle into a list. *)

LEMMA InsertFacts ==
  ASSUME NEW S, NEW s \in Seq(S), NEW c \in Seq(S), NEW k \in 1..Len(s),
         IsInjective(s), NEW t, t = InsertBefore(s, s[k], c)
  PROVE  t \in Seq(S) /\ Inserted(t, s, k, c)
<1> DEFINE i == CHOOSE j \in 1..Len(s) : s[j] = s[k]
<1>1. i = k
  <2>1. DOMAIN s = 1..Len(s)
    OBVIOUS
  <2>2. \A j \in 1..Len(s) : s[j] = s[k] => j = k
    BY <2>1 DEF IsInjective
  <2> QED
    BY <2>2
<1> DEFINE p == SubSeq(s, 1, k - 1)
           q == SubSeq(s, k, Len(s))
<1>2. t = (p \o c) \o q
  BY <1>1 DEF InsertBefore
<1>3. /\ p \in Seq(S) /\ Len(p) = k - 1 /\ \A j \in 1..(k - 1) : p[j] = s[j]
  BY SubSeqProperties
<1>4. /\ q \in Seq(S) /\ Len(q) = Len(s) - k + 1
      /\ \A j \in 1..(Len(s) - k + 1) : q[j] = s[k + j - 1]
  BY SubSeqProperties
<1> HIDE DEF i, p, q
<1> DEFINE r == p \o c
<1>5. /\ r \in Seq(S) /\ Len(r) = Len(p) + Len(c)
      /\ \A j \in 1..Len(p) : r[j] = p[j]
      /\ \A j \in 1..Len(c) : r[j + Len(p)] = c[j]
  <2>1. p \in Seq(S) /\ c \in Seq(S) /\ r = p \o c
    BY <1>3
  <2> HIDE DEF r
  <2> QED
    BY ONLY <2>1, ConcatFacts
<1>6. t = r \o q
  BY <1>2
<1> HIDE DEF r
<1>7. /\ t \in Seq(S) /\ Len(t) = Len(r) + Len(q)
      /\ \A j \in 1..Len(r) : t[j] = r[j]
      /\ \A j \in 1..Len(q) : t[j + Len(r)] = q[j]
  <2>1. r \in Seq(S) /\ q \in Seq(S)
    BY <1>4, <1>5
  <2> QED
    BY ONLY <1>6, <2>1, ConcatFacts
<1>8. Len(s) \in Nat /\ Len(c) \in Nat /\ k \in Nat
  OBVIOUS
<1>9. Len(t) = Len(s) + Len(c)
  BY <1>3, <1>4, <1>5, <1>7, <1>8
<1>10. ASSUME NEW j \in 1..(k - 1) PROVE t[j] = s[j]
  <2>1. j \in 1..Len(p) /\ j \in 1..Len(r)
    BY <1>3, <1>5, <1>8
  <2> QED
    BY <1>3, <1>5, <1>7, <2>1
<1>11. ASSUME NEW j \in k..(k + Len(c) - 1) PROVE t[j] = c[j - k + 1]
  <2> DEFINE m == j - k + 1
  <2>1. m \in 1..Len(c) /\ m + Len(p) = j /\ j \in 1..Len(r)
    BY <1>3, <1>5, <1>8
  <2> HIDE DEF m
  <2>2. t[j] = c[m]
    BY <1>5, <1>7, <2>1
  <2> QED
    BY <2>2 DEF m
<1>12. ASSUME NEW j \in (k + Len(c))..Len(t) PROVE t[j] = s[j - Len(c)]
  <2> DEFINE m == j - (k - 1 + Len(c))
  <2>1. m \in 1..Len(q) /\ m + Len(r) = j /\ k + m - 1 = j - Len(c)
    BY <1>3, <1>4, <1>5, <1>8, <1>9
  <2> HIDE DEF m
  <2>2. t[j] = q[m] /\ q[m] = s[k + m - 1]
    BY <1>4, <1>7, <2>1
  <2> QED
    BY <2>1, <2>2
<1> QED
  BY <1>7, <1>9, <1>10, <1>11, <1>12 DEF Inserted

-----------------------------------------------------------------------------
(* Walks. *)

(* A walk goes on from where it ends. *)
LEMMA AppendWalk ==
  ASSUME NEW t \in Seq(Arc), IsWalk(t), NEW a \in Arc,
         t # <<>> => Target[Last(t)] = Source[a],
         NEW u, u = Append(t, a)
  PROVE  /\ IsWalk(u) /\ u # <<>> /\ Last(u) = a
         /\ u[1] = IF t = <<>> THEN a ELSE t[1]
<1>1. /\ u \in Seq(Arc) /\ Len(u) = Len(t) + 1
      /\ \A i \in 1..Len(t) : u[i] = t[i]
      /\ u[Len(t) + 1] = a
  BY AppendFacts
<1>2. Len(t) \in Nat /\ (t = <<>> <=> Len(t) = 0)
  OBVIOUS
<1>3. \A i \in 1..Len(t) : Target[u[i]] = Source[u[i + 1]]
  BY <1>1, <1>2 DEF IsWalk, Last
<1> QED
  BY <1>1, <1>2, <1>3 DEF IsWalk, Last

(* A closed walk put before an arc, at the node the arc leaves. *)
LEMMA InsertWalk ==
  ASSUME NEW t \in Seq(Arc), IsWalk(t), IsInjective(t), NEW k \in 1..Len(t),
         NEW c \in Seq(Arc), IsClosedWalkAt(c, Source[t[k]]),
         NEW u, u = InsertBefore(t, t[k], c)
  PROVE  /\ IsWalk(u) /\ u # <<>>
         /\ Source[u[1]] = Source[t[1]] /\ Last(u) = Last(t)
<1>1. /\ u \in Seq(Arc) /\ Len(u) = Len(t) + Len(c)
      /\ \A j \in 1..(k - 1) : u[j] = t[j]
      /\ \A j \in k..(k + Len(c) - 1) : u[j] = c[j - k + 1]
      /\ \A j \in (k + Len(c))..Len(u) : u[j] = t[j - Len(c)]
  <2>1. u \in Seq(Arc) /\ Inserted(u, t, k, c)
    BY InsertFacts
  <2> QED
    BY <2>1 DEF Inserted
<1>2. Len(t) \in Nat /\ Len(c) \in Nat /\ (c = <<>> <=> Len(c) = 0) /\ k \in Nat
  OBVIOUS
<1>3. /\ IsWalk(c)
      /\ Len(c) > 0 => Source[c[1]] = Source[t[k]] /\ Target[c[Len(c)]] = Source[t[k]]
  BY <1>2 DEF IsClosedWalkAt
<1>4. Source[u[k]] = Source[t[k]]
  <2>1. CASE Len(c) = 0
    <3>1. k \in (k + Len(c))..Len(u) /\ k - Len(c) = k
      BY <1>1, <1>2, <2>1
    <3> QED
      BY <1>1, <3>1
  <2>2. CASE Len(c) > 0
    <3>1. k \in k..(k + Len(c) - 1) /\ k - k + 1 = 1
      BY <1>2, <2>2
    <3> QED
      BY <1>1, <1>3, <2>2, <3>1
  <2> QED
    BY <1>2, <2>1, <2>2
<1>5. ASSUME NEW j \in 1..(Len(u) - 1) PROVE Target[u[j]] = Source[u[j + 1]]
  <2>1. CASE j + 1 < k
    <3>1. j \in 1..(k - 1) /\ j + 1 \in 1..(k - 1) /\ j \in 1..(Len(t) - 1)
      BY <1>2, <2>1
    <3> QED
      BY <1>1, <3>1 DEF IsWalk
  <2>2. CASE j + 1 = k
    <3>1. j \in 1..(k - 1) /\ j \in 1..(Len(t) - 1)
      BY <1>2, <2>2
    <3>2. u[j] = t[j] /\ Target[t[j]] = Source[t[j + 1]]
      BY <1>1, <3>1 DEF IsWalk
    <3> QED
      BY <1>4, <2>2, <3>2
  <2>3. CASE j >= k /\ j < k + Len(c) - 1
    <3> DEFINE i == j - k + 1
    <3>1. /\ j \in k..(k + Len(c) - 1) /\ j + 1 \in k..(k + Len(c) - 1)
          /\ i \in 1..(Len(c) - 1) /\ (j + 1) - k + 1 = i + 1
      BY <1>1, <1>2, <2>3
    <3> HIDE DEF i
    <3>2. u[j] = c[i] /\ u[j + 1] = c[i + 1]
      BY <1>1, <3>1 DEF i
    <3> QED
      BY <1>3, <3>1, <3>2 DEF IsWalk
  <2>4. CASE j >= k /\ j = k + Len(c) - 1
    <3>1. /\ j \in k..(k + Len(c) - 1) /\ j - k + 1 = Len(c) /\ Len(c) > 0
          /\ j + 1 \in (k + Len(c))..Len(u) /\ (j + 1) - Len(c) = k
      BY <1>1, <1>2, <2>4
    <3>2. u[j] = c[Len(c)] /\ u[j + 1] = t[k]
      BY <1>1, <3>1
    <3> QED
      BY <1>3, <3>1, <3>2
  <2>5. CASE j >= k + Len(c)
    <3> DEFINE i == j - Len(c)
    <3>1. /\ j \in (k + Len(c))..Len(u) /\ j + 1 \in (k + Len(c))..Len(u)
          /\ i \in 1..(Len(t) - 1) /\ (j + 1) - Len(c) = i + 1
      BY <1>1, <1>2, <2>5
    <3> HIDE DEF i
    <3>2. u[j] = t[i] /\ u[j + 1] = t[i + 1]
      BY <1>1, <3>1 DEF i
    <3> QED
      BY <3>1, <3>2 DEF IsWalk
  <2> QED
    BY <1>1, <1>2, <2>1, <2>2, <2>3, <2>4, <2>5
<1>6. Source[u[1]] = Source[t[1]]
  BY <1>1, <1>2, <1>4
<1>7. Last(u) = Last(t)
  <2>1. Len(u) \in (k + Len(c))..Len(u) /\ Len(u) - Len(c) = Len(t)
    BY <1>1, <1>2
  <2> QED
    BY <1>1, <2>1 DEF Last
<1>8. u # <<>>
  BY <1>1, <1>2
<1> QED
  BY <1>5, <1>6, <1>7, <1>8 DEF IsWalk
-----------------------------------------------------------------------------
(* The search while it runs. *)

(* What the invariant says of the top of the stack. *)
LEMMA RunningFacts ==
  ASSUME IInv, Running
  PROVE  /\ WhileRunning
         /\ Len(stack) \in Nat \ {0} /\ Len(lists) \in Nat \ {0}
         /\ stack \in Seq(FrameType) /\ lists \in Seq(Seq(arc_visited))
         /\ \A i \in 1..Len(stack) : stack[i] \in FrameType
         /\ \A i \in 1..Len(lists) : lists[i] \in Seq(arc_visited) /\ lists[i] \in Seq(Arc)
         /\ Top = stack[Len(stack)] /\ Top \in FrameType
         /\ Top.cycle = Len(lists)
         /\ arcs \subseteq Arc /\ arc_visited \subseteq arcs
<1>1. TypeOK /\ WhileRunning
  BY DEF IInv, Running
<1>2. stack # <<>> /\ lists # <<>>
  BY <1>1 DEF TypeOK, WhileRunning, FramesAreJoined
<1>3. stack \in Seq(FrameType) /\ lists \in Seq(Seq(arc_visited))
  BY <1>1 DEF TypeOK
<1>4. Len(stack) \in Nat \ {0} /\ Len(lists) \in Nat \ {0}
  BY <1>2, <1>3
<1>5. \A i \in 1..Len(stack) : stack[i] \in FrameType
  BY <1>3
<1>6. arcs \subseteq Arc /\ arc_visited \subseteq arcs
  BY <1>1 DEF TypeOK
<1>7. \A i \in 1..Len(lists) : lists[i] \in Seq(arc_visited) /\ lists[i] \in Seq(Arc)
  BY <1>3, <1>6, SeqMonotonic
<1>8. Top.cycle = Len(lists)
  BY <1>1 DEF WhileRunning, FramesAreJoined
<1> QED
  BY <1>1, <1>3, <1>4, <1>5, <1>6, <1>7, <1>8 DEF Top, Last

(* Only arcs that were visited stand in lists. *)
LEMMA ListsHoldVisited ==
  ASSUME IInv, Running
  PROVE  /\ \A l \in 1..Len(lists) : \A j \in 1..Len(lists[l]) : lists[l][j] \in arc_visited
         /\ \A x : x \in arc_visited <=>
              \E l \in 1..Len(lists) : \E j \in 1..Len(lists[l]) : lists[l][j] = x
         /\ \A l \in 1..Len(lists) : IsInjective(lists[l])
<1>1. /\ lists \in Seq(Seq(arc_visited)) /\ WhileRunning
      /\ \A l \in 1..Len(lists) : lists[l] \in Seq(arc_visited)
  BY RunningFacts
<1>2. DOMAIN lists = 1..Len(lists) /\ \A l \in 1..Len(lists) : DOMAIN lists[l] = 1..Len(lists[l])
  BY <1>1
<1>3. \A l \in 1..Len(lists) : \A j \in 1..Len(lists[l]) : lists[l][j] \in arc_visited
  BY <1>1
<1>4. EachArcOnce
  BY <1>1 DEF WhileRunning
<1>5. \A x : x \in arc_visited <=>
        \E l \in 1..Len(lists) : \E j \in 1..Len(lists[l]) : lists[l][j] = x
  BY <1>2, <1>4 DEF EachArcOnce, ToSet
<1>6. \A l \in 1..Len(lists) : IsInjective(lists[l])
  BY <1>2, <1>4 DEF EachArcOnce, IsInjective
<1> QED
  BY <1>3, <1>5, <1>6

(* The search has come to the current node of every frame. *)
LEMMA CurrentIsTouched ==
  ASSUME IInv, Running, NEW i \in 1..Len(stack)
  PROVE  Touched(stack[i].current)
<1>1. WhileRunning /\ Len(stack) \in Nat \ {0} /\ stack \in Seq(FrameType)
      /\ lists \in Seq(Seq(arc_visited)) /\ arc_visited \subseteq Arc
      /\ \A l \in 1..Len(lists) : lists[l] \in Seq(arc_visited)
  BY RunningFacts
<1>2. ASSUME NEW k \in 1..Len(stack), stack[k].listPos # NoArc
      PROVE  /\ stack[k].listPos \in arc_visited
             /\ Source[stack[k].listPos] = stack[k].current
  <2>1. /\ Source[stack[k].listPos] = stack[k].current
        /\ stack[k].listPos \in ToSet(lists[stack[k].cycle])
    BY <1>1, <1>2 DEF WhileRunning, PositionsAreInLists
  <2>2. stack[k].cycle \in 1..Len(lists)
    BY <1>1 DEF WhileRunning, FramesAreJoined
  <2>3. lists[stack[k].cycle] \in Seq(arc_visited)
    BY <1>1, <2>2
  <2> QED
    BY <2>1, <2>3, ToSetFacts
<1>3. CASE i = 1
  BY <1>1, <1>3 DEF WhileRunning, Touched
<1>4. CASE i # 1
  <2> DEFINE k == i - 1
  <2>1. k \in 1..(Len(stack) - 1) /\ k \in 1..Len(stack) /\ k + 1 = i
    BY <1>1, <1>4
  <2> HIDE DEF k
  <2>2. Called(stack[k], stack[i])
    BY <1>1, <2>1 DEF WhileRunning, FramesAreJoined
  <2>3. stack[k].listPos \in arc_visited /\ Source[stack[k].listPos] = stack[k].current
    BY <1>2, <2>1, <2>2 DEF Called
  <2> QED
    BY <2>2, <2>3 DEF Called, Touched, NodesOf
<1> QED
  BY <1>3, <1>4

(* One arc more leaves its source, and one more arrives at its target. *)
LEMMA OneArcMore ==
  ASSUME NEW x \in SUBSET Arc, NEW a \in Arc \ x, NEW n \in Node
  PROVE  /\ Cardinality(OutArcs(x \cup {a}, n))
              = Cardinality(OutArcs(x, n)) + (IF n = Source[a] THEN 1 ELSE 0)
         /\ Cardinality(InArcs(x \cup {a}, n))
              = Cardinality(InArcs(x, n)) + (IF n = Target[a] THEN 1 ELSE 0)
         /\ Cardinality(OutArcs(x, n)) \in Nat /\ Cardinality(InArcs(x, n)) \in Nat
<1>1. OutArcs(x, n) \in SUBSET Arc /\ InArcs(x, n) \in SUBSET Arc
  BY DEF OutArcs, InArcs
<1>2. IsFiniteSet(OutArcs(x, n)) /\ IsFiniteSet(InArcs(x, n))
  BY <1>1, SelectionsAreFinite
<1>3. Cardinality(OutArcs(x, n)) \in Nat /\ Cardinality(InArcs(x, n)) \in Nat
  BY <1>2, FS_CardinalityType
<1>4. Cardinality(OutArcs(x \cup {a}, n))
        = Cardinality(OutArcs(x, n)) + (IF n = Source[a] THEN 1 ELSE 0)
  <2>1. CASE n = Source[a]
    <3>1. OutArcs(x \cup {a}, n) = OutArcs(x, n) \cup {a} /\ a \notin OutArcs(x, n)
      BY <2>1 DEF OutArcs, ArcsFrom
    <3> QED
      BY <1>2, <2>1, <3>1, FS_AddElement
  <2>2. CASE n # Source[a]
    <3>1. OutArcs(x \cup {a}, n) = OutArcs(x, n)
      BY <2>2 DEF OutArcs, ArcsFrom
    <3> QED
      BY <1>3, <2>2, <3>1
  <2> QED
    BY <2>1, <2>2
<1>5. Cardinality(InArcs(x \cup {a}, n))
        = Cardinality(InArcs(x, n)) + (IF n = Target[a] THEN 1 ELSE 0)
  <2>1. CASE n = Target[a]
    <3>1. InArcs(x \cup {a}, n) = InArcs(x, n) \cup {a} /\ a \notin InArcs(x, n)
      BY <2>1 DEF InArcs, ArcsTo
    <3> QED
      BY <1>2, <2>1, <3>1, FS_AddElement
  <2>2. CASE n # Target[a]
    <3>1. InArcs(x \cup {a}, n) = InArcs(x, n)
      BY <2>2 DEF InArcs, ArcsTo
    <3> QED
      BY <1>3, <2>2, <3>1
  <2> QED
    BY <2>1, <2>2
<1> QED
  BY <1>3, <1>4, <1>5

LEMMA InitIInv == Init => IInv
<1> SUFFICES ASSUME Init PROVE IInv
  OBVIOUS
<1>1. lists = <<<<>>>> /\ stack = <<>> /\ arc_visited = {} /\ status = "called"
  BY DEF Init
<1>2. lists \in Seq(Seq(arc_visited)) /\ lists # <<>> /\ stack \in Seq(FrameType)
  BY <1>1
<1>3. TypeOK
  BY <1>1, <1>2 DEF Init, TypeOK
<1>4. WhileCalled
  BY <1>1 DEF WhileCalled
<1> QED
  BY <1>1, <1>3, <1>4 DEF Init, IInv

LEMMA GetEmptyTourKeeps ==
  ASSUME IInv, GetEmptyTour
  PROVE  IInv'
<1>1. lists = <<<<>>>> /\ lists' = lists
  BY DEF IInv, GetEmptyTour, WhileCalled
<1>2. OnceReturned'
  BY <1>1 DEF OnceReturned, Result, GetEmptyTour
<1> QED
  BY <1>2 DEF IInv, GetEmptyTour, TypeOK

(* The first activation: nothing is visited yet. *)
LEMMA GetEulerTourKeeps ==
  ASSUME IInv, GetEulerTour
  PROVE  IInv'
<1>1. TypeOK /\ arc_visited = {} /\ lists = <<<<>>>> /\ stack = <<>>
      /\ arcs \subseteq {a \in Arc : Source[a] \in nodes /\ Target[a] \in nodes}
      /\ start \in nodes \cup {NoNode}
  BY DEF IInv, GetEulerTour, WhileCalled
<1>2. PICK n \in nodes : start \in {n, NoNode} /\ stack' = <<Frame(n, n, 1)>>
  BY DEF GetEulerTour
<1>3. UNCHANGED <<nodes, arcs, start, arc_visited, lists>> /\ status' = "running"
  BY DEF GetEulerTour
<1> DEFINE f == Frame(n, n, 1)
<1>4. f \in FrameType /\ f.current = n /\ f.start = n /\ f.cycle = 1 /\ f.listPos = NoArc
  BY <1>1 DEF TypeOK, Frame, FrameType
<1> HIDE DEF f
<1>5. /\ stack' \in Seq(FrameType) /\ Len(stack') = 1 /\ stack'[1] = f
      /\ stack' # <<>> /\ DOMAIN stack' = {1}
  BY <1>2, <1>4 DEF f
<1>6. Top' = f /\ Start' = n
  BY <1>4, <1>5 DEF Top, Last, Start
<1>7. lists' = <<<<>>>> /\ Len(lists') = 1 /\ lists'[1] = <<>> /\ DOMAIN lists' = {1}
  BY <1>1, <1>3
<1>8. TypeOK'
  BY <1>1, <1>3, <1>5 DEF TypeOK
<1>9. FramesAreJoined'
  BY <1>4, <1>5, <1>6, <1>7 DEF FramesAreJoined
<1>10. PositionsAreInLists'
  BY <1>4, <1>5 DEF PositionsAreInLists
<1>11. EachArcOnce'
  <2>1. arc_visited' = {}
    BY <1>1, <1>3
  <2>2. ToSet(lists'[1]) = {}
    BY <1>7 DEF ToSet
  <2>3. DOMAIN lists'[1] = {}
    BY <1>7
  <2> QED
    BY <1>7, <2>1, <2>2, <2>3 DEF EachArcOnce
<1>12. ListsLeadOn'
  <2>1. IsWalk(lists'[1])
    BY <1>7 DEF IsWalk
  <2>2. Open(1)'
    BY <1>4, <1>5, <1>6, <1>7 DEF Open
  <2> QED
    BY <1>4, <1>5, <1>6, <1>7, <2>1, <2>2 DEF ListsLeadOn
<1>13. NothingIsForgotten'
  <2>1. NodesOf(arc_visited') = {}
    BY <1>1, <1>3 DEF NodesOf
  <2> QED
    BY <1>4, <1>5, <1>6, <2>1 DEF NothingIsForgotten, Touched
<1>14. VisitedIsBalanced'
  <2>1. \A x \in Node : OutArcs(arc_visited', x) = {} /\ InArcs(arc_visited', x) = {}
    BY <1>1, <1>3 DEF OutArcs, InArcs
  <2>2. OpenEnd' = n /\ Top'.start = n
    BY <1>4, <1>6 DEF OpenEnd
  <2> QED
    BY <2>1, <2>2 DEF VisitedIsBalanced
<1>15. StaysWithin(Start, arc_visited)'
  BY <1>1, <1>3 DEF StaysWithin, NodesOf
<1>16. WhileRunning'
  BY <1>2, <1>3, <1>4, <1>5, <1>6, <1>9, <1>10, <1>11, <1>12, <1>13, <1>14, <1>15
     DEF WhileRunning
<1> QED
  BY <1>1, <1>3, <1>8, <1>16 DEF IInv

(* What eulerRec does when it finds its first arc. *)
LEMMA TakeFirstArcFacts ==
  ASSUME IInv, TakeFirstArc
  PROVE  \E a \in Unvisited(Top.current) :
    /\ a \in arcs /\ a \in Arc /\ a \notin arc_visited /\ Source[a] = Top.current
    /\ Target[a] \in Node
    /\ arc_visited' = arc_visited \cup {a}
    /\ Top.listPos = NoArc
    /\ Len(lists') = Len(lists) /\ lists' \in Seq(Seq(arc_visited'))
    /\ \A l \in 1..(Len(lists) - 1) : lists'[l] = lists[l]
    /\ lists'[Len(lists)] = Append(lists[Len(lists)], a)
    /\ Len(stack') = Len(stack) + 1 /\ stack' \in Seq(FrameType)
    /\ \A i \in 1..(Len(stack) - 1) : stack'[i] = stack[i]
    /\ LET f == stack'[Len(stack)] IN
         /\ f.current = Top.current /\ f.start = Top.start
         /\ f.cycle = Top.cycle /\ f.listPos = a
    /\ Top' = stack'[Len(stack) + 1]
    /\ Top'.current = Target[a] /\ Top'.start = Top.start
    /\ Top'.cycle = Top.cycle /\ Top'.listPos = NoArc
<1>1. Running
  BY DEF TakeFirstArc
<1>2. /\ Len(stack) \in Nat \ {0} /\ Len(lists) \in Nat \ {0}
      /\ stack \in Seq(FrameType) /\ lists \in Seq(Seq(arc_visited))
      /\ Top = stack[Len(stack)] /\ Top \in FrameType /\ Top.cycle = Len(lists)
      /\ arcs \subseteq Arc /\ arc_visited \subseteq arcs
      /\ \A l \in 1..Len(lists) : lists[l] \in Seq(arc_visited)
  BY <1>1, RunningFacts
<1>3. Top.listPos = NoArc
  BY DEF TakeFirstArc
<1>4. PICK a \in Unvisited(Top.current) :
        /\ arc_visited' = Marked(a)
        /\ lists' = [lists EXCEPT ![Top.cycle] = Append(@, a)]
        /\ stack' = Front(stack) \o <<[Top EXCEPT !.listPos = a],
                                      Frame(Target[a], Top.start, Top.cycle)>>
  BY DEF TakeFirstArc
<1>5. a \in arcs /\ a \in Arc /\ a \notin arc_visited /\ Source[a] = Top.current
  BY <1>2, <1>4 DEF Unvisited, OutArcs, ArcsFrom, FrameType
<1>6. Target[a] \in Node
  BY <1>5, NetworkAssumption
<1>7. arc_visited' = arc_visited \cup {a}
  BY <1>4 DEF Marked
<1> DEFINE d == [Top EXCEPT !.listPos = a]
           e == Frame(Target[a], Top.start, Top.cycle)
<1>8. /\ d \in FrameType /\ d.current = Top.current /\ d.start = Top.start
      /\ d.cycle = Top.cycle /\ d.listPos = a
  BY <1>2, <1>5 DEF FrameType
<1>9. /\ e \in FrameType /\ e.current = Target[a] /\ e.start = Top.start
      /\ e.cycle = Top.cycle /\ e.listPos = NoArc
  BY <1>2, <1>6 DEF FrameType, Frame
<1>10. stack' = Front(stack) \o <<d, e>> /\ stack # <<>>
  BY <1>2, <1>4
<1> HIDE DEF d, e
<1>11. /\ stack' \in Seq(FrameType) /\ Len(stack') = Len(stack) + 1
       /\ \A i \in 1..(Len(stack) - 1) : stack'[i] = stack[i]
       /\ stack'[Len(stack)] = d /\ stack'[Len(stack) + 1] = e
  <2>1. stack \in Seq(FrameType) /\ d \in FrameType /\ e \in FrameType
    BY <1>2, <1>8, <1>9
  <2>2. stack' \in Seq(FrameType) /\ TwoForLast(stack', stack, d, e)
    BY <1>10, <2>1, FrontAndTwo
  <2> QED
    BY <2>2 DEF TwoForLast
<1>12. Top' = stack'[Len(stack) + 1]
  BY <1>2, <1>11 DEF Top, Last
<1> DEFINE u == Append(lists[Len(lists)], a)
<1>13. /\ u \in Seq(arc_visited')
       /\ \A l \in 1..Len(lists) : lists[l] \in Seq(arc_visited')
  <2>1. arc_visited \subseteq arc_visited' /\ a \in arc_visited'
    BY <1>7
  <2>2. \A l \in 1..Len(lists) : lists[l] \in Seq(arc_visited')
    BY <1>2, <2>1, SeqMonotonic
  <2>3. lists[Len(lists)] \in Seq(arc_visited')
    BY <1>2, <2>2
  <2> QED
    BY <2>1, <2>2, <2>3, AppendProperties
<1>14. lists' = [lists EXCEPT ![Len(lists)] = u]
  BY <1>2, <1>4
<1> HIDE DEF u
<1>15. /\ Len(lists') = Len(lists) /\ lists' \in Seq(Seq(arc_visited'))
       /\ \A l \in 1..(Len(lists) - 1) : lists'[l] = lists[l]
       /\ lists'[Len(lists)] = u
  <2>1. lists \in Seq(Seq(arc_visited'))
    <3>1. Seq(arc_visited) \subseteq Seq(arc_visited')
      BY <1>7, SeqMonotonic
    <3> QED
      BY <1>2, <3>1, SeqMonotonic
  <2>2. Len(lists) \in 1..Len(lists)
    BY <1>2
  <2>3. lists' \in Seq(Seq(arc_visited')) /\ Replaced(lists', lists, Len(lists), u)
    BY <1>13, <1>14, <2>1, <2>2, ReplaceFacts
  <2> QED
    BY <1>2, <2>3 DEF Replaced
<1>16. /\ a \in Unvisited(Top.current)
       /\ lists'[Len(lists)] = Append(lists[Len(lists)], a)
  BY <1>15 DEF u
<1> QED
  BY <1>3, <1>5, <1>6, <1>7, <1>8, <1>9, <1>11, <1>12, <1>15, <1>16

LEMMA TakeFirstArcKeeps ==
  ASSUME IInv, TakeFirstArc
  PROVE  IInv'
<1>1. Running /\ UNCHANGED <<nodes, arcs, start, status>>
  BY DEF TakeFirstArc
<1>2. /\ WhileRunning /\ Len(stack) \in Nat \ {0} /\ Len(lists) \in Nat \ {0}
      /\ stack \in Seq(FrameType) /\ lists \in Seq(Seq(arc_visited))
      /\ Top = stack[Len(stack)] /\ Top \in FrameType /\ Top.cycle = Len(lists)
      /\ arcs \subseteq Arc /\ arc_visited \subseteq arcs
      /\ \A l \in 1..Len(lists) : lists[l] \in Seq(Arc)
  BY <1>1, RunningFacts
<1>3. PICK a \in Unvisited(Top.current) :
    /\ a \in arcs /\ a \in Arc /\ a \notin arc_visited /\ Source[a] = Top.current
    /\ Target[a] \in Node
    /\ arc_visited' = arc_visited \cup {a}
    /\ Top.listPos = NoArc
    /\ Len(lists') = Len(lists) /\ lists' \in Seq(Seq(arc_visited'))
    /\ \A l \in 1..(Len(lists) - 1) : lists'[l] = lists[l]
    /\ lists'[Len(lists)] = Append(lists[Len(lists)], a)
    /\ Len(stack') = Len(stack) + 1 /\ stack' \in Seq(FrameType)
    /\ \A i \in 1..(Len(stack) - 1) : stack'[i] = stack[i]
    /\ LET f == stack'[Len(stack)] IN
         /\ f.current = Top.current /\ f.start = Top.start
         /\ f.cycle = Top.cycle /\ f.listPos = a
    /\ Top' = stack'[Len(stack) + 1]
    /\ Top'.current = Target[a] /\ Top'.start = Top.start
    /\ Top'.cycle = Top.cycle /\ Top'.listPos = NoArc
  BY TakeFirstArcFacts
<1> DEFINE D == Len(stack)
           L == Len(lists)
           f == stack'[D]
           t == lists[L]
           u == lists'[L]
           N == Len(t)
<1>4. /\ D \in Nat \ {0} /\ L \in Nat \ {0}
      /\ Len(lists') = L /\ Len(stack') = D + 1
      /\ \A l \in 1..(L - 1) : lists'[l] = lists[l]
      /\ \A i \in 1..(D - 1) : stack'[i] = stack[i]
      /\ stack'[D] = f /\ f.current = Top.current /\ f.start = Top.start /\ f.cycle = L
      /\ f.listPos = a /\ a # NoArc
      /\ Top = stack[D] /\ Top.cycle = L /\ Top' = stack'[D + 1] /\ Top'.cycle = L
      /\ Top'.start = Top.start
  BY <1>2, <1>3, NoArcAssumption
<1>5. /\ DOMAIN stack = 1..D /\ DOMAIN stack' = 1..(D + 1)
      /\ DOMAIN lists = 1..L /\ DOMAIN lists' = 1..L
  BY <1>2, <1>3
(* The last list has the arc behind all others. *)
<1>6. /\ t \in Seq(Arc) /\ u = Append(t, a) /\ u \in Seq(Arc)
      /\ N \in Nat /\ Len(u) = N + 1 /\ u[N + 1] = a
      /\ \A j \in 1..N : u[j] = t[j]
      /\ lists[L] = t /\ lists'[L] = u /\ Len(t) = N
  <2>1. t \in Seq(Arc) /\ u = Append(t, a)
    BY <1>2, <1>3
  <2> HIDE DEF t, u
  <2>2. a \in Arc
    BY <1>3
  <2>3. u \in Seq(Arc)
    BY <2>1, <2>2, AppendProperties
  <2>4. N \in Nat /\ Len(u) = N + 1 /\ u[N + 1] = a /\ \A j \in 1..N : u[j] = t[j]
    BY <2>1, <2>2
  <2> QED
    BY <2>1, <2>3, <2>4 DEF t, u
<1>7. D = Len(stack) /\ L = Len(lists)
  OBVIOUS
<1>8. /\ a \in arcs /\ a \in Arc /\ a \notin arc_visited /\ Source[a] = Top.current
      /\ Target[a] \in Node
      /\ arc_visited' = arc_visited \cup {a}
      /\ Top.listPos = NoArc
      /\ Top'.current = Target[a] /\ Top'.listPos = NoArc
  BY <1>3
<1>9. /\ lists \in Seq(Seq(arc_visited)) /\ lists' \in Seq(Seq(arc_visited'))
      /\ stack' \in Seq(FrameType)
  BY <1>2, <1>3
<1>10. /\ FramesAreJoined /\ PositionsAreInLists /\ EachArcOnce /\ ListsLeadOn
       /\ NothingIsForgotten /\ VisitedIsBalanced /\ StaysWithin(Start, arc_visited)
  BY <1>2 DEF WhileRunning
<1>11. ToSet(u) = ToSet(t) \cup {a}
  BY <1>6, <1>8, AppendedSet
<1> HIDE DEF D, L, f, t, u, N
(* Everything but the position of the frame stays the same. *)
<1>12. \A i \in 1..D : /\ stack'[i].current = stack[i].current
                       /\ stack'[i].start = stack[i].start
                       /\ stack'[i].cycle = stack[i].cycle
  BY <1>4
<1>13. Start' = Start /\ stack'[1].current = stack[1].current
  BY <1>4, <1>12 DEF Start
<1>14. TypeOK'
  <2>1. TypeOK
    BY DEF IInv
  <2>2. lists' # <<>>
    BY <1>4
  <2> QED
    BY <1>1, <1>8, <1>9, <2>1, <2>2 DEF TypeOK
<1>15. FramesAreJoined'
  <2>1. /\ stack[1].cycle = 1
        /\ \A i \in 1..D : stack[i].cycle \in 1..L
        /\ \A i \in 1..(D - 1) : Called(stack[i], stack[i + 1])
        /\ \A i, k \in 1..D :
             stack[i].cycle = stack[k].cycle => stack[i].start = stack[k].start
    BY <1>5, <1>7, <1>10 DEF FramesAreJoined
  <2>2. ASSUME NEW i \in 1..D PROVE Called(stack'[i], stack'[i + 1])
    <3>1. CASE i < D - 1
      BY <1>4, <2>1, <3>1
    <3>2. CASE i = D - 1
      <4>1. Called(stack[i], Top) /\ stack'[i] = stack[i] /\ stack'[i + 1] = f
        BY <1>4, <2>1, <3>2
      <4> QED
        BY <1>8, <1>4, <4>1 DEF Called
    <3>3. CASE i = D
      BY <1>8, <1>4, <3>3 DEF Called
    <3> QED
      BY <1>4, <3>1, <3>2, <3>3
  <2>3. \A i \in 1..(D + 1) : stack'[i].cycle \in 1..L
    <3>1. \A i \in 1..D : stack'[i].cycle \in 1..L
      BY <1>12, <2>1
    <3>2. stack'[D + 1].cycle \in 1..L
      BY <1>4
    <3> QED
      BY <1>4, <3>1, <3>2
  <2>4. ASSUME NEW i \in 1..(D + 1), NEW k \in 1..(D + 1),
               stack'[i].cycle = stack'[k].cycle
        PROVE  stack'[i].start = stack'[k].start
    <3>1. \A j \in 1..(D + 1) : \E m \in 1..D :
            stack'[j].cycle = stack[m].cycle /\ stack'[j].start = stack[m].start
      BY <1>8, <1>4, <1>12
    <3> QED
      BY <2>1, <2>4, <3>1
  <2>5. stack' # <<>> /\ stack'[1].cycle = 1
    BY <1>4, <1>12, <2>1
  <2>6. ASSUME NEW i \in 1..(D + 1), NEW k \in 1..(D + 1), i <= k
        PROVE  stack'[i].cycle <= stack'[k].cycle
    <3>1. CASE k \in 1..D
      <4>1. i \in 1..D
        BY <1>4, <2>6, <3>1
      <4>2. stack[i].cycle <= stack[k].cycle
        BY <1>5, <1>10, <2>6, <3>1, <4>1 DEF FramesAreJoined
      <4> QED
        BY <1>12, <3>1, <4>1, <4>2
    <3>2. CASE k = D + 1
      <4>1. stack'[k].cycle = L /\ stack'[i].cycle \in 1..L
        BY <1>4, <2>3, <3>2
      <4> QED
        BY <1>4, <4>1
    <3> QED
      BY <1>4, <3>1, <3>2
  <2> QED
    BY <1>4, <1>5, <2>2, <2>3, <2>4, <2>5, <2>6 DEF FramesAreJoined
<1>16. PositionsAreInLists'
  <2> SUFFICES ASSUME NEW i \in 1..(D + 1), stack'[i].listPos # NoArc
               PROVE  /\ Source[stack'[i].listPos] = stack'[i].current
                      /\ stack'[i].listPos \in ToSet(lists'[stack'[i].cycle])
    BY <1>5 DEF PositionsAreInLists
  <2>1. ASSUME NEW l \in 1..L PROVE ToSet(lists[l]) \subseteq ToSet(lists'[l])
    <3>1. CASE l = L
      BY <1>6, <1>11, <3>1
    <3>2. CASE l # L
      <4>1. lists'[l] = lists[l]
        BY <1>4, <3>2
      <4> QED
        BY <4>1
    <3> QED
      BY <3>1, <3>2
  <2>2. CASE i < D
    <3>1. i \in 1..D /\ stack'[i] = stack[i]
      BY <1>4, <2>2
    <3>2. /\ Source[stack[i].listPos] = stack[i].current
          /\ stack[i].listPos \in ToSet(lists[stack[i].cycle])
      BY <1>5, <1>10, <3>1 DEF PositionsAreInLists
    <3>3. stack[i].cycle \in 1..L
      BY <1>5, <1>10, <3>1 DEF FramesAreJoined
    <3> QED
      BY <2>1, <3>1, <3>2, <3>3
  <2>3. CASE i = D
    <3>1. stack'[i] = f /\ f.listPos = a /\ lists'[f.cycle] = u /\ f.current = Source[a]
      BY <1>4, <1>6, <1>8, <2>3
    <3> QED
      BY <1>11, <3>1
  <2>4. CASE i = D + 1
    BY <1>8, <1>4, <2>4
  <2> QED
    BY <1>4, <2>2, <2>3, <2>4
<1>17. EachArcOnce'
  <2>1. /\ \A l \in 1..L : \A j \in 1..Len(lists[l]) : lists[l][j] \in arc_visited
        /\ \A x : x \in arc_visited <=>
              \E l \in 1..L : \E j \in 1..Len(lists[l]) : lists[l][j] = x
    BY <1>1, <1>7, ListsHoldVisited
  <2>2. \A l \in 1..L : DOMAIN lists[l] = 1..Len(lists[l]) /\ DOMAIN lists'[l] = 1..Len(lists'[l])
    BY <1>5, <1>9
  <2>3. \A i, k \in 1..L : \A j \in 1..Len(lists[i]), m \in 1..Len(lists[k]) :
          lists[i][j] = lists[k][m] => i = k /\ j = m
    BY <1>5, <1>10, <2>2 DEF EachArcOnce
  <2>4. ASSUME NEW l \in 1..L, NEW j \in 1..Len(lists'[l])
        PROVE  \/ l = L /\ j = N + 1 /\ lists'[l][j] = a
               \/ j \in 1..Len(lists[l]) /\ lists'[l][j] = lists[l][j]
    <3>1. CASE l = L
      BY <1>6, <3>1
    <3>2. CASE l # L
      <4>1. lists'[l] = lists[l]
        BY <1>4, <3>2
      <4> QED
        BY <4>1
    <3> QED
      BY <3>1, <3>2
  <2>5. ASSUME NEW l \in 1..L, NEW j \in 1..Len(lists[l])
        PROVE  j \in 1..Len(lists'[l]) /\ lists'[l][j] = lists[l][j]
    <3>1. CASE l = L
      BY <1>6, <3>1
    <3>2. CASE l # L
      <4>1. lists'[l] = lists[l]
        BY <1>4, <3>2
      <4> QED
        BY <4>1
    <3> QED
      BY <3>1, <3>2
  <2>6. \A i, k \in 1..L : \A j \in 1..Len(lists'[i]), m \in 1..Len(lists'[k]) :
          lists'[i][j] = lists'[k][m] => i = k /\ j = m
    <3> SUFFICES ASSUME NEW i \in 1..L, NEW k \in 1..L,
                        NEW j \in 1..Len(lists'[i]), NEW m \in 1..Len(lists'[k]),
                        lists'[i][j] = lists'[k][m]
                 PROVE  i = k /\ j = m
      OBVIOUS
    <3>1. \/ i = L /\ j = N + 1 /\ lists'[i][j] = a
          \/ j \in 1..Len(lists[i]) /\ lists'[i][j] = lists[i][j]
      BY <2>4
    <3>2. \/ k = L /\ m = N + 1 /\ lists'[k][m] = a
          \/ m \in 1..Len(lists[k]) /\ lists'[k][m] = lists[k][m]
      BY <2>4
    <3> QED
      BY <1>8, <2>1, <2>3, <3>1, <3>2
  <2>7. \A x : x \in arc_visited' <=>
              \E l \in 1..L : \E j \in 1..Len(lists'[l]) : lists'[l][j] = x
    <3>1. L \in 1..L /\ N + 1 \in 1..Len(lists'[L]) /\ lists'[L][N + 1] = a
      BY <1>4, <1>6
    <3>2. \A l \in 1..L : \A j \in 1..Len(lists'[l]) : lists'[l][j] \in arc_visited'
      BY <1>8, <2>1, <2>4
    <3>3. \A x \in arc_visited :
            \E l \in 1..L : \E j \in 1..Len(lists'[l]) : lists'[l][j] = x
      BY <2>1, <2>5
    <3> QED
      BY <1>8, <3>1, <3>2, <3>3
  <2>8. arc_visited' = UNION {ToSet(lists'[l]) : l \in 1..L}
    BY <2>2, <2>7 DEF ToSet
  <2> QED
    BY <1>5, <2>2, <2>6, <2>8 DEF EachArcOnce
<1>18. ListsLeadOn'
  <2>1. /\ \A l \in 1..L : IsWalk(lists[l])
        /\ \A i \in 1..D : LET list == lists[stack[i].cycle] IN
             IF list = <<>> THEN Open(i) /\ Top.current = Top.start
             ELSE /\ Source[list[1]] = stack[i].start
                  /\ Target[Last(list)] = IF Open(i) THEN Top.current ELSE stack[i].start
    BY <1>5, <1>10 DEF ListsLeadOn
  <2>2. /\ \A i \in 1..D : stack[i].cycle \in 1..L
        /\ \A i, k \in 1..D : stack[i].cycle = stack[k].cycle => stack[i].start = stack[k].start
    BY <1>5, <1>7, <1>10 DEF FramesAreJoined
  <2>3. IF t = <<>> THEN Top.current = Top.start
        ELSE Source[t[1]] = Top.start /\ Target[Last(t)] = Top.current
    <3>1. D \in 1..D /\ stack[D] = Top /\ lists[stack[D].cycle] = t /\ Open(D)
      BY <1>6, <1>7, <1>8, <1>4 DEF Open
    <3> QED
      BY <2>1, <3>1
  <2>4. /\ IsWalk(u) /\ u # <<>> /\ Last(u) = a
        /\ u[1] = IF t = <<>> THEN a ELSE t[1]
    <3>1. IsWalk(t) /\ (t # <<>> => Target[Last(t)] = Source[a])
      <4>1. L \in 1..L
        BY <1>4
      <4> QED
        BY <1>6, <1>8, <2>1, <2>3, <4>1
    <3>2. t \in Seq(Arc) /\ a \in Arc /\ u = Append(t, a)
      BY <1>6, <1>8
    <3> QED
      BY <3>1, <3>2, AppendWalk
  <2>5. ASSUME NEW l \in 1..L PROVE IsWalk(lists'[l])
    <3>1. CASE l = L
      BY <1>6, <2>4, <3>1
    <3>2. CASE l # L
      <4>1. lists'[l] = lists[l]
        BY <1>4, <3>2
      <4> QED
        BY <2>1, <4>1
    <3> QED
      BY <3>1, <3>2
  <2>6. Source[u[1]] = Top.start
    BY <1>8, <2>3, <2>4
  <2>7. \A i \in 1..(D + 1) : Open(i)' <=> stack'[i].cycle = L
    BY <1>8, <1>4 DEF Open
  <2>8. ASSUME NEW i \in 1..(D + 1)
        PROVE LET list == lists'[stack'[i].cycle] IN
              /\ list # <<>> /\ Source[list[1]] = stack'[i].start
              /\ Target[Last(list)] = IF Open(i)' THEN Top'.current ELSE stack'[i].start
    <3>1. PICK k \in 1..D : stack'[i].cycle = stack[k].cycle /\ stack'[i].start = stack[k].start
      BY <1>8, <1>4, <1>12
    <3>2. CASE stack[k].cycle = L
      <4>1. stack[k].start = Top.start
        <5>1. D \in 1..D /\ stack[D] = Top /\ Top.cycle = L
          BY <1>4
        <5> QED
          BY <2>2, <3>2, <5>1
      <4>2. lists'[stack'[i].cycle] = u /\ Open(i)'
        BY <1>6, <2>7, <3>1, <3>2
      <4> QED
        BY <1>8, <2>4, <2>6, <3>1, <4>1, <4>2
    <3>3. CASE stack[k].cycle # L
      <4>1. stack[k].cycle \in 1..(L - 1)
        BY <1>4, <2>2, <3>3
      <4>2. lists'[stack'[i].cycle] = lists[stack[k].cycle]
        BY <1>4, <3>1, <4>1
      <4>3. ~Open(k) /\ ~Open(i)'
        BY <1>7, <2>7, <3>1, <3>3 DEF Open
      <4> QED
        BY <2>1, <3>1, <4>2, <4>3
    <3> QED
      BY <3>2, <3>3
  <2> QED
    BY <1>5, <2>5, <2>8 DEF ListsLeadOn
<1>19. NothingIsForgotten'
  <2> SUFFICES ASSUME NEW x \in Node, Touched(x)', Unvisited(x)' # {}
               PROVE  \E i \in 1..(D + 1) : stack'[i].current = x
    BY <1>5 DEF NothingIsForgotten
  <2>1. Unvisited(x) # {}
    BY <1>1, <1>8 DEF Unvisited, OutArcs
  <2>2. Touched(x) \/ x = Target[a]
    <3>1. Source[a] = stack[D].current /\ D \in 1..D
      BY <1>8, <1>4
    <3>2. Touched(Source[a])
      BY <1>1, <1>7, <3>1, CurrentIsTouched
    <3> QED
      BY <1>8, <1>13, <3>2 DEF Touched, NodesOf
  <2>3. CASE Touched(x)
    <3>1. PICK i \in 1..D : stack[i].current = x
      BY <1>5, <1>10, <2>1, <2>3 DEF NothingIsForgotten
    <3> QED
      BY <1>4, <1>12, <3>1
  <2>4. CASE x = Target[a]
    BY <1>8, <1>4, <2>4
  <2> QED
    BY <2>2, <2>3, <2>4
<1>20. VisitedIsBalanced'
  <2> SUFFICES ASSUME NEW x \in Node
               PROVE  Cardinality(OutArcs(arc_visited', x)) + (IF x = OpenEnd' THEN 1 ELSE 0)
                        = Cardinality(InArcs(arc_visited', x)) + (IF x = Top'.start THEN 1 ELSE 0)
    BY DEF VisitedIsBalanced
  <2>1. OpenEnd' = Target[a] /\ OpenEnd = Source[a] /\ Top'.start = Top.start
    BY <1>4, <1>8 DEF OpenEnd
  <2>2. Cardinality(OutArcs(arc_visited, x)) + (IF x = OpenEnd THEN 1 ELSE 0)
          = Cardinality(InArcs(arc_visited, x)) + (IF x = Top.start THEN 1 ELSE 0)
    BY <1>10 DEF VisitedIsBalanced
  <2>3. /\ Cardinality(OutArcs(arc_visited', x))
             = Cardinality(OutArcs(arc_visited, x)) + (IF x = Source[a] THEN 1 ELSE 0)
        /\ Cardinality(InArcs(arc_visited', x))
             = Cardinality(InArcs(arc_visited, x)) + (IF x = Target[a] THEN 1 ELSE 0)
        /\ Cardinality(OutArcs(arc_visited, x)) \in Nat
        /\ Cardinality(InArcs(arc_visited, x)) \in Nat
    <3>1. arc_visited \in SUBSET Arc /\ a \in Arc \ arc_visited
      BY <1>2, <1>8
    <3> QED
      BY <1>8, <3>1, OneArcMore
  <2> QED
    BY <2>1, <2>2, <2>3
<1>21. StaysWithin(Start, arc_visited)'
  <2> SUFFICES ASSUME NEW W \in SUBSET Node, Start \in W, IsClosed(arcs, W)
               PROVE  NodesOf(arc_visited') \subseteq W
    BY <1>1, <1>13 DEF StaysWithin
  <2>1. NodesOf(arc_visited) \subseteq W
    BY <1>10 DEF StaysWithin
  <2>2. Touched(Source[a])
    <3>1. Source[a] = stack[D].current /\ D \in 1..D
      BY <1>8, <1>4
    <3> QED
      BY <1>1, <1>7, <3>1, CurrentIsTouched
  <2>3. Source[a] \in W /\ Target[a] \in W
    BY <1>8, <2>1, <2>2 DEF Touched, IsClosed
  <2> QED
    BY <1>8, <2>1, <2>3 DEF NodesOf
<1>22. WhileRunning'
  <2>1. Start' \in nodes' /\ start' \in {Start', NoNode} /\ stack'[1].current = Start'
    BY <1>1, <1>2, <1>13 DEF WhileRunning
  <2> QED
    BY <1>15, <1>16, <1>17, <1>18, <1>19, <1>20, <1>21, <2>1 DEF WhileRunning
<1> QED
  BY <1>1, <1>14, <1>22 DEF IInv, Running

(* What eulerRec does when it finds another arc. *)
LEMMA OpenNewCycleFacts ==
  ASSUME IInv, OpenNewCycle
  PROVE  /\ Len(lists') = Len(lists) + 1 /\ lists' \in Seq(Seq(arc_visited))
         /\ \A l \in 1..Len(lists) : lists'[l] = lists[l]
         /\ lists'[Len(lists) + 1] = <<>>
         /\ Len(stack') = Len(stack) + 1 /\ stack' \in Seq(FrameType)
         /\ \A i \in 1..Len(stack) : stack'[i] = stack[i]
         /\ Top' = stack'[Len(stack) + 1]
         /\ Top'.current = Top.current /\ Top'.start = Top.current
         /\ Top'.cycle = Len(lists) + 1 /\ Top'.listPos = NoArc
<1>1. Running
  BY DEF OpenNewCycle
<1>2. /\ Len(stack) \in Nat \ {0} /\ Len(lists) \in Nat \ {0}
      /\ stack \in Seq(FrameType) /\ lists \in Seq(Seq(arc_visited))
      /\ Top \in FrameType
  BY <1>1, RunningFacts
<1>3. lists' = Append(lists, <<>>)
  BY DEF OpenNewCycle
<1>4. <<>> \in Seq(arc_visited)
  OBVIOUS
<1>5. /\ Len(lists') = Len(lists) + 1 /\ lists' \in Seq(Seq(arc_visited))
      /\ \A l \in 1..Len(lists) : lists'[l] = lists[l]
      /\ lists'[Len(lists) + 1] = <<>>
  BY <1>2, <1>3, <1>4
<1> DEFINE e == Frame(Top.current, Top.current, Len(lists'))
<1>6. /\ e \in FrameType /\ e.current = Top.current /\ e.start = Top.current
      /\ e.cycle = Len(lists) + 1 /\ e.listPos = NoArc
  BY <1>2, <1>5 DEF Frame, FrameType
<1>7. stack' = Append(stack, e)
  BY DEF OpenNewCycle
<1> HIDE DEF e
<1>8. /\ Len(stack') = Len(stack) + 1 /\ stack' \in Seq(FrameType)
      /\ \A i \in 1..Len(stack) : stack'[i] = stack[i]
      /\ stack'[Len(stack) + 1] = e
  BY <1>2, <1>6, <1>7
<1>9. Top' = stack'[Len(stack) + 1]
  BY <1>8 DEF Top, Last
<1> QED
  BY <1>5, <1>6, <1>8, <1>9

LEMMA OpenNewCycleKeeps ==
  ASSUME IInv, OpenNewCycle
  PROVE  IInv'
<1>1. Running /\ Top.listPos # NoArc
      /\ UNCHANGED <<nodes, arcs, start, status, arc_visited>>
  BY DEF OpenNewCycle
<1>2. /\ WhileRunning /\ Len(stack) \in Nat \ {0} /\ Len(lists) \in Nat \ {0}
      /\ stack \in Seq(FrameType) /\ lists \in Seq(Seq(arc_visited))
      /\ Top = stack[Len(stack)] /\ Top.cycle = Len(lists)
  BY <1>1, RunningFacts
<1> DEFINE D == Len(stack)
           L == Len(lists)
<1>3. /\ D \in Nat \ {0} /\ L \in Nat \ {0}
      /\ Len(lists') = L + 1 /\ Len(stack') = D + 1
      /\ \A l \in 1..L : lists'[l] = lists[l]
      /\ lists'[L + 1] = <<>>
      /\ \A i \in 1..D : stack'[i] = stack[i]
      /\ Top = stack[D] /\ Top.cycle = L /\ Top' = stack'[D + 1]
      /\ Top'.current = Top.current /\ Top'.start = Top.current
      /\ Top'.cycle = L + 1 /\ Top'.listPos = NoArc
  BY <1>2, OpenNewCycleFacts
<1>4. lists' \in Seq(Seq(arc_visited)) /\ stack' \in Seq(FrameType)
  BY OpenNewCycleFacts
<1>5. /\ DOMAIN stack = 1..D /\ DOMAIN stack' = 1..(D + 1)
      /\ DOMAIN lists = 1..L /\ DOMAIN lists' = 1..(L + 1)
      /\ \A l \in 1..L : DOMAIN lists[l] = 1..Len(lists[l])
      /\ D = Len(stack) /\ L = Len(lists)
  BY <1>2, <1>3, <1>4
<1>6. /\ FramesAreJoined /\ PositionsAreInLists /\ EachArcOnce /\ ListsLeadOn
      /\ NothingIsForgotten /\ VisitedIsBalanced /\ StaysWithin(Start, arc_visited)
  BY <1>2 DEF WhileRunning
<1> HIDE DEF D, L
<1>7. Start' = Start /\ stack'[1] = stack[1]
  BY <1>3 DEF Start
<1>8. TypeOK'
  <2>1. TypeOK
    BY DEF IInv
  <2>2. lists' # <<>>
    BY <1>3
  <2> QED
    BY <1>1, <1>4, <2>1, <2>2 DEF TypeOK
<1>9. /\ stack[1].cycle = 1
      /\ \A i \in 1..D : stack[i].cycle \in 1..L
      /\ \A i \in 1..(D - 1) : Called(stack[i], stack[i + 1])
      /\ \A i, k \in 1..D :
           stack[i].cycle = stack[k].cycle => stack[i].start = stack[k].start
  BY <1>5, <1>6 DEF FramesAreJoined
<1>10. FramesAreJoined'
  <2>1. ASSUME NEW i \in 1..D PROVE Called(stack'[i], stack'[i + 1])
    <3>1. CASE i < D
      <4>1. stack'[i] = stack[i] /\ stack'[i + 1] = stack[i + 1] /\ i \in 1..(D - 1)
        BY <1>3, <3>1
      <4> QED
        BY <1>9, <4>1
    <3>2. CASE i = D
      <4>1. stack'[i] = Top /\ stack'[i + 1] = Top'
        BY <1>3, <3>2
      <4> QED
        BY <1>1, <1>3, <4>1 DEF Called
    <3> QED
      BY <1>3, <3>1, <3>2
  <2>2. \A i \in 1..(D + 1) : stack'[i].cycle \in 1..(L + 1)
    <3>1. \A i \in 1..D : stack'[i].cycle \in 1..L
      BY <1>3, <1>9
    <3>2. stack'[D + 1].cycle = L + 1
      BY <1>3
    <3> QED
      BY <1>3, <3>1, <3>2
  <2>3. ASSUME NEW i \in 1..(D + 1), NEW k \in 1..(D + 1),
               stack'[i].cycle = stack'[k].cycle
        PROVE  stack'[i].start = stack'[k].start
    <3>1. \A j \in 1..D : stack'[j] = stack[j] /\ stack'[j].cycle \in 1..L
      BY <1>3, <1>9
    <3>2. CASE i = D + 1 \/ k = D + 1
      <4>1. stack'[i].cycle = L + 1 /\ stack'[k].cycle = L + 1
        BY <1>3, <2>3, <3>2
      <4>2. i = D + 1 /\ k = D + 1
        BY <1>3, <3>1, <4>1
      <4> QED
        BY <4>2
    <3>3. CASE i # D + 1 /\ k # D + 1
      <4>1. i \in 1..D /\ k \in 1..D
        BY <1>3, <3>3
      <4> QED
        BY <1>9, <2>3, <3>1, <4>1
    <3> QED
      BY <3>2, <3>3
  <2>4. stack' # <<>> /\ stack'[1].cycle = 1
    BY <1>3, <1>7, <1>9
  <2>5. ASSUME NEW i \in 1..(D + 1), NEW k \in 1..(D + 1), i <= k
        PROVE  stack'[i].cycle <= stack'[k].cycle
    <3>1. CASE k \in 1..D
      <4>1. i \in 1..D
        BY <1>3, <2>5, <3>1
      <4>2. stack[i].cycle <= stack[k].cycle
        BY <1>5, <1>6, <2>5, <3>1, <4>1 DEF FramesAreJoined
      <4> QED
        BY <1>3, <3>1, <4>1, <4>2
    <3>2. CASE k = D + 1
      <4>1. stack'[k].cycle = L + 1 /\ stack'[i].cycle \in 1..(L + 1)
        BY <1>3, <2>2, <3>2
      <4> QED
        BY <1>3, <4>1
    <3> QED
      BY <1>3, <3>1, <3>2
  <2> QED
    BY <1>3, <1>5, <2>1, <2>2, <2>3, <2>4, <2>5 DEF FramesAreJoined
<1>11. PositionsAreInLists'
  <2> SUFFICES ASSUME NEW i \in 1..(D + 1), stack'[i].listPos # NoArc
               PROVE  /\ Source[stack'[i].listPos] = stack'[i].current
                      /\ stack'[i].listPos \in ToSet(lists'[stack'[i].cycle])
    BY <1>5 DEF PositionsAreInLists
  <2>1. i \in 1..D
    BY <1>3
  <2>2. stack'[i] = stack[i] /\ lists'[stack[i].cycle] = lists[stack[i].cycle]
    BY <1>3, <1>9, <2>1
  <2> QED
    BY <1>5, <1>6, <2>1, <2>2 DEF PositionsAreInLists
<1>12. EachArcOnce'
  <2>1. \A l \in 1..(L + 1) : \/ l \in 1..L /\ lists'[l] = lists[l]
                              \/ l = L + 1 /\ lists'[l] = <<>>
    BY <1>3
  <2>2. DOMAIN lists'[L + 1] = {} /\ ToSet(lists'[L + 1]) = {}
    BY <1>3 DEF ToSet
  <2>3. L + 1 \notin 1..L /\ 1..L \subseteq 1..(L + 1)
    BY <1>3
  <2>4. UNION {ToSet(lists'[l]) : l \in 1..(L + 1)} = UNION {ToSet(lists[l]) : l \in 1..L}
    <3>1. \A l \in 1..L : ToSet(lists'[l]) = ToSet(lists[l])
      BY <1>3
    <3>2. \A l \in 1..(L + 1) : l \in 1..L \/ ToSet(lists'[l]) = {}
      BY <2>1, <2>2
    <3> QED
      BY <2>3, <3>1, <3>2
  <2>5. arc_visited = UNION {ToSet(lists[l]) : l \in 1..L}
    BY <1>5, <1>6 DEF EachArcOnce
  <2>6. \A i, k \in 1..L : \A j \in DOMAIN lists[i], m \in DOMAIN lists[k] :
          lists[i][j] = lists[k][m] => i = k /\ j = m
    BY <1>5, <1>6 DEF EachArcOnce
  <2>7. \A i, k \in 1..(L + 1) : \A j \in DOMAIN lists'[i], m \in DOMAIN lists'[k] :
          lists'[i][j] = lists'[k][m] => i = k /\ j = m
    BY <2>1, <2>2, <2>6
  <2> QED
    BY <1>1, <1>5, <2>4, <2>5, <2>7 DEF EachArcOnce
<1>13. ListsLeadOn'
  <2>1. /\ \A l \in 1..L : IsWalk(lists[l])
        /\ \A i \in 1..D : LET list == lists[stack[i].cycle] IN
             IF list = <<>> THEN Open(i) /\ Top.current = Top.start
             ELSE /\ Source[list[1]] = stack[i].start
                  /\ Target[Last(list)] = IF Open(i) THEN Top.current ELSE stack[i].start
    BY <1>5, <1>6 DEF ListsLeadOn
  <2>2. IsWalk(lists'[L + 1])
    BY <1>3 DEF IsWalk
  <2>3. \A l \in 1..(L + 1) : IsWalk(lists'[l])
    <3>1. \A l \in 1..(L + 1) : l \in 1..L \/ l = L + 1
      BY <1>3
    <3> QED
      BY <1>3, <2>1, <2>2, <3>1
  <2>4. ASSUME NEW i \in 1..(D + 1)
        PROVE  LET list == lists'[stack'[i].cycle] IN
               IF list = <<>> THEN Open(i)' /\ Top'.current = Top'.start
               ELSE /\ Source[list[1]] = stack'[i].start
                    /\ Target[Last(list)] = IF Open(i)' THEN Top'.current ELSE stack'[i].start
    <3>1. CASE i = D + 1
      <4>1. lists'[stack'[i].cycle] = <<>> /\ Open(i)'
        BY <1>3, <3>1 DEF Open
      <4> QED
        BY <1>3, <4>1
    <3>2. CASE i # D + 1
      <4>1. i \in 1..D /\ stack'[i] = stack[i]
        BY <1>3, <3>2
      <4>2. stack[i].cycle \in 1..L /\ lists'[stack'[i].cycle] = lists[stack[i].cycle]
        BY <1>3, <1>9, <4>1
      <4>3. ~Open(i) /\ ~Open(i)'
        BY <1>1, <1>3, <4>1, <4>2 DEF Open
      <4> QED
        BY <2>1, <4>1, <4>2, <4>3
    <3> QED
      BY <3>1, <3>2
  <2> QED
    BY <1>5, <2>3, <2>4 DEF ListsLeadOn
<1>14. NothingIsForgotten'
  <2> SUFFICES ASSUME NEW x \in Node, Touched(x)', Unvisited(x)' # {}
               PROVE  \E i \in 1..(D + 1) : stack'[i].current = x
    BY <1>5 DEF NothingIsForgotten
  <2>1. Unvisited(x) # {} /\ Touched(x)
    BY <1>1, <1>7 DEF Unvisited, Touched
  <2>2. PICK i \in 1..D : stack[i].current = x
    BY <1>5, <1>6, <2>1 DEF NothingIsForgotten
  <2>3. i \in 1..(D + 1) /\ stack'[i] = stack[i]
    BY <1>3
  <2> QED
    BY <2>2, <2>3
<1>15. VisitedIsBalanced'
  <2>1. OpenEnd = Top.start /\ OpenEnd' = Top'.start
    BY <1>1, <1>3 DEF OpenEnd
  <2>2. \A x \in Node : /\ Cardinality(OutArcs(arc_visited, x)) \in Nat
                        /\ Cardinality(InArcs(arc_visited, x)) \in Nat
    <3>1. arc_visited \subseteq Arc
      BY DEF IInv, TypeOK
    <3>2. \A x \in Node : IsFiniteSet(OutArcs(arc_visited, x)) /\ IsFiniteSet(InArcs(arc_visited, x))
      BY <3>1, SelectionsAreFinite DEF OutArcs, InArcs
    <3> QED
      BY <3>2, FS_CardinalityType
  <2>3. \A x \in Node : Cardinality(OutArcs(arc_visited, x)) = Cardinality(InArcs(arc_visited, x))
    BY <1>6, <2>1, <2>2 DEF VisitedIsBalanced
  <2> QED
    BY <1>1, <2>1, <2>3 DEF VisitedIsBalanced
<1>16. StaysWithin(Start, arc_visited)'
  BY <1>1, <1>6, <1>7 DEF StaysWithin
<1>17. WhileRunning'
  <2>1. Start' \in nodes' /\ start' \in {Start', NoNode} /\ stack'[1].current = Start'
    BY <1>1, <1>2, <1>7 DEF WhileRunning
  <2> QED
    BY <1>10, <1>11, <1>12, <1>13, <1>14, <1>15, <1>16, <2>1 DEF WhileRunning
<1> QED
  BY <1>1, <1>8, <1>17 DEF IInv, Running

(* A node where the search can neither go on nor is done has more arcs in  *)
(* than out.                                                               *)
LEMMA ThrowKeeps ==
  ASSUME IInv, ThrowNotEulerian
  PROVE  IInv' /\ ~Balanced(arcs)
<1>1. /\ Running /\ Unvisited(Top.current) = {} /\ Stuck(Top)
      /\ status' = "thrown" /\ UNCHANGED <<nodes, arcs, start, arc_visited, lists, stack>>
  BY DEF ThrowNotEulerian
<1>2. /\ WhileRunning /\ Top \in FrameType
      /\ arcs \subseteq Arc /\ arc_visited \subseteq arcs
  BY <1>1, RunningFacts
<1> DEFINE n == Top.current
<1>3. n \in Node /\ OpenEnd = n /\ n # Top.start
  BY <1>1, <1>2 DEF Stuck, FrameType, OpenEnd
<1>4. /\ OutArcs(arcs, n) = OutArcs(arc_visited, n)
      /\ InArcs(arc_visited, n) \subseteq InArcs(arcs, n)
  BY <1>1, <1>2 DEF Unvisited, OutArcs, InArcs
<1>5. /\ IsFiniteSet(OutArcs(arc_visited, n)) /\ IsFiniteSet(InArcs(arc_visited, n))
      /\ IsFiniteSet(InArcs(arcs, n))
  BY <1>2, SelectionsAreFinite DEF OutArcs, InArcs
<1> HIDE DEF n
<1>6. /\ Cardinality(OutArcs(arc_visited, n)) \in Nat
      /\ Cardinality(InArcs(arc_visited, n)) \in Nat
      /\ Cardinality(InArcs(arcs, n)) \in Nat
  BY <1>5, FS_CardinalityType
<1>7. Cardinality(OutArcs(arc_visited, n)) + 1 = Cardinality(InArcs(arc_visited, n))
  <2>1. Cardinality(OutArcs(arc_visited, n)) + (IF n = OpenEnd THEN 1 ELSE 0)
          = Cardinality(InArcs(arc_visited, n)) + (IF n = Top.start THEN 1 ELSE 0)
    BY <1>2, <1>3 DEF WhileRunning, VisitedIsBalanced
  <2> QED
    BY <1>3, <1>6, <2>1
<1>8. Cardinality(InArcs(arc_visited, n)) <= Cardinality(InArcs(arcs, n))
  BY <1>4, <1>5, FS_Subset
<1>9. Cardinality(InArcs(arcs, n)) # Cardinality(OutArcs(arcs, n))
  BY <1>4, <1>6, <1>7, <1>8
<1>10. ~Balanced(arcs)
  BY <1>3, <1>9 DEF Balanced
<1>11. TypeOK'
  BY <1>1 DEF IInv, TypeOK
<1> QED
  BY <1>1, <1>10, <1>11 DEF IInv, Balanced

(* The same said list by list: the lists repeat nothing, share nothing. *)
NothingTwice(v, seqs) ==
  /\ \A x : x \in v <=> \E i \in 1..Len(seqs) : x \in ToSet(seqs[i])
  /\ \A i \in 1..Len(seqs) : IsInjective(seqs[i])
  /\ \A i, k \in 1..Len(seqs) : i # k => ToSet(seqs[i]) \cap ToSet(seqs[k]) = {}

LEMMA NothingTwiceMeans ==
  ASSUME NEW S, NEW seqs \in Seq(Seq(S)), NEW v
  PROVE  NothingTwice(v, seqs) <=>
         /\ v = UNION {ToSet(seqs[i]) : i \in DOMAIN seqs}
         /\ \A i, k \in DOMAIN seqs : \A j \in DOMAIN seqs[i], m \in DOMAIN seqs[k] :
              seqs[i][j] = seqs[k][m] => i = k /\ j = m
<1>1. DOMAIN seqs = 1..Len(seqs)
  OBVIOUS
<1>2. v = UNION {ToSet(seqs[i]) : i \in DOMAIN seqs}
        <=> \A x : x \in v <=> \E i \in 1..Len(seqs) : x \in ToSet(seqs[i])
  BY <1>1
<1>3. ASSUME \A i, k \in DOMAIN seqs : \A j \in DOMAIN seqs[i], m \in DOMAIN seqs[k] :
               seqs[i][j] = seqs[k][m] => i = k /\ j = m
      PROVE  /\ \A i \in 1..Len(seqs) : IsInjective(seqs[i])
             /\ \A i, k \in 1..Len(seqs) : i # k => ToSet(seqs[i]) \cap ToSet(seqs[k]) = {}
  <2>1. ASSUME NEW i \in 1..Len(seqs) PROVE IsInjective(seqs[i])
    BY <1>1, <1>3 DEF IsInjective
  <2>2. ASSUME NEW i \in 1..Len(seqs), NEW k \in 1..Len(seqs), i # k,
               NEW x \in ToSet(seqs[i]) \cap ToSet(seqs[k])
        PROVE  FALSE
    <3>1. /\ \E j \in DOMAIN seqs[i] : x = seqs[i][j]
          /\ \E j \in DOMAIN seqs[k] : x = seqs[k][j]
      BY DEF ToSet
    <3> QED
      BY <1>1, <1>3, <2>2, <3>1
  <2> QED
    BY <2>1, <2>2
<1>4. ASSUME \A i \in 1..Len(seqs) : IsInjective(seqs[i]),
             \A i, k \in 1..Len(seqs) : i # k => ToSet(seqs[i]) \cap ToSet(seqs[k]) = {}
      PROVE  \A i, k \in DOMAIN seqs : \A j \in DOMAIN seqs[i], m \in DOMAIN seqs[k] :
               seqs[i][j] = seqs[k][m] => i = k /\ j = m
  <2> SUFFICES ASSUME NEW i \in 1..Len(seqs), NEW k \in 1..Len(seqs),
                      NEW j \in DOMAIN seqs[i], NEW m \in DOMAIN seqs[k],
                      seqs[i][j] = seqs[k][m]
               PROVE  i = k /\ j = m
    BY <1>1
  <2>1. seqs[i][j] \in ToSet(seqs[i]) /\ seqs[k][m] \in ToSet(seqs[k])
    BY DEF ToSet
  <2>2. i = k
    BY <1>4, <2>1
  <2>3. IsInjective(seqs[i]) /\ j \in DOMAIN seqs[i] /\ m \in DOMAIN seqs[i]
        /\ seqs[i][j] = seqs[i][m]
    BY <1>4, <2>2
  <2>4. j = m
    BY <2>3 DEF IsInjective
  <2> QED
    BY <2>2, <2>4
<1> QED
  BY <1>2, <1>3, <1>4 DEF NothingTwice

LEMMA EachArcOnceMeans ==
  ASSUME NEW S, lists \in Seq(Seq(S))
  PROVE  EachArcOnce <=> NothingTwice(arc_visited, lists)
BY NothingTwiceMeans DEF EachArcOnce

LEMMA EachArcOnceMeansNext ==
  ASSUME NEW S, lists' \in Seq(Seq(S))
  PROVE  EachArcOnce' <=> NothingTwice(arc_visited', lists')
BY NothingTwiceMeans DEF EachArcOnce

(* When an activation returns, the lists of all frames are closed. *)
LEMMA ListsAreClosed ==
  ASSUME IInv, Running, ~Stuck(Top), NEW i \in 1..Len(stack)
  PROVE  LET list == lists[stack[i].cycle] IN
         /\ stack[i].cycle \in 1..Len(lists) /\ list \in Seq(Arc)
         /\ IsClosedWalkAt(list, stack[i].start)
         /\ i < Len(stack) => list # <<>>
<1>1. /\ WhileRunning /\ Len(stack) \in Nat \ {0} /\ Len(lists) \in Nat \ {0}
      /\ stack \in Seq(FrameType) /\ lists \in Seq(Seq(arc_visited))
      /\ Top = stack[Len(stack)] /\ Top.cycle = Len(lists)
      /\ \A l \in 1..Len(lists) : lists[l] \in Seq(Arc)
  BY RunningFacts
<1>2. FramesAreJoined /\ PositionsAreInLists /\ ListsLeadOn
  BY <1>1 DEF WhileRunning
<1>3. /\ DOMAIN stack = 1..Len(stack) /\ DOMAIN lists = 1..Len(lists)
      /\ Len(stack) \in 1..Len(stack)
  BY <1>1
<1> DEFINE list == lists[stack[i].cycle]
<1>4. stack[i].cycle \in 1..Len(lists)
  BY <1>2, <1>3 DEF FramesAreJoined
<1>5. list \in Seq(Arc) /\ IsWalk(list)
  BY <1>1, <1>2, <1>3, <1>4 DEF ListsLeadOn
<1>6. list # <<>> =>
        /\ Source[list[1]] = stack[i].start
        /\ Target[Last(list)] = IF Open(i) THEN Top.current ELSE stack[i].start
  BY <1>2, <1>3 DEF ListsLeadOn
<1>7. Open(i) => Top.current = stack[i].start
  <2> SUFFICES ASSUME Open(i) PROVE Top.current = stack[i].start
    OBVIOUS
  <2>1. Top.current = Top.start
    BY DEF Open, Stuck
  <2>2. stack[i].start = Top.start
    <3>1. stack[i].cycle = stack[Len(stack)].cycle
      BY <1>1 DEF Open
    <3> QED
      BY <1>1, <1>2, <1>3, <3>1 DEF FramesAreJoined
  <2> QED
    BY <2>1, <2>2
<1>8. ASSUME i < Len(stack) PROVE list # <<>>
  <2>1. i \in 1..(Len(stack) - 1)
    BY <1>1, <1>8
  <2>2. stack[i].listPos # NoArc
    BY <1>2, <2>1 DEF FramesAreJoined, Called
  <2>3. stack[i].listPos \in ToSet(list)
    BY <1>2, <1>3, <2>2 DEF PositionsAreInLists
  <2> QED
    BY <2>3 DEF ToSet
<1> HIDE DEF list
<1>9. IsClosedWalkAt(list, stack[i].start)
  BY <1>5, <1>6, <1>7 DEF IsClosedWalkAt, Last
<1> QED
  BY <1>4, <1>5, <1>8, <1>9 DEF list

(* The frames that are left when a nested activation returns. *)
LEMMA ReturnFacts ==
  ASSUME IInv, Return, Len(stack) # 1
  PROVE  /\ Len(stack) - 1 \in Nat \ {0}
         /\ Len(stack') = Len(stack) - 1 /\ stack' \in Seq(FrameType)
         /\ \A i \in 1..(Len(stack) - 1) : stack'[i] = stack[i]
         /\ Top' = Caller /\ Caller = stack[Len(stack) - 1]
         /\ Called(Caller, Top)
         /\ Caller.cycle \in 1..Len(lists)
<1>1. Running
  BY DEF Return
<1>2. /\ WhileRunning /\ Len(stack) \in Nat \ {0}
      /\ stack \in Seq(FrameType) /\ lists \in Seq(Seq(arc_visited))
      /\ Top = stack[Len(stack)]
  BY <1>1, RunningFacts
<1>3. stack' = Front(stack) /\ stack # <<>>
  BY <1>2 DEF Return
<1>4. /\ Len(stack') = Len(stack) - 1 /\ stack' \in Seq(FrameType)
      /\ \A i \in 1..(Len(stack) - 1) : stack'[i] = stack[i]
  BY <1>2, <1>3, FrontFacts
<1>5. Len(stack) - 1 \in Nat \ {0}
  BY <1>2
<1>6. Top' = Caller
  BY <1>4, <1>5 DEF Top, Last, Caller
<1>7. Called(Caller, Top) /\ Caller.cycle \in 1..Len(lists)
  <2> DEFINE k == Len(stack) - 1
  <2>1. k \in 1..(Len(stack) - 1) /\ k + 1 = Len(stack) /\ k \in 1..Len(stack)
    <3>1. Len(stack) \in Nat \ {0} /\ Len(stack) # 1
      BY <1>2
    <3> QED
      BY ONLY <3>1
  <2>2. DOMAIN stack = 1..Len(stack) /\ DOMAIN lists = 1..Len(lists)
    BY <1>2
  <2>3. FramesAreJoined /\ Caller = stack[k]
    BY <1>2 DEF WhileRunning, Caller
  <2> HIDE DEF k
  <2> QED
    BY <1>2, <2>1, <2>2, <2>3 DEF FramesAreJoined
<1> QED
  BY <1>4, <1>5, <1>6, <1>7 DEF Caller

(* What an insertion does to the lists: the outer one stays a walk between *)
(* the same ends, and no arc is lost or doubled.                           *)
LEMMA ReturnLists ==
  ASSUME IInv, Return, Len(stack) # 1
  PROVE  /\ lists' \in Seq(Seq(arc_visited))
         /\ Len(lists') = Caller.cycle
         /\ \A l \in 1..Caller.cycle :
              /\ ToSet(lists[l]) \subseteq ToSet(lists'[l])
              /\ IsWalk(lists'[l])
              /\ lists[l] # <<>> =>
                   /\ lists'[l] # <<>>
                   /\ Source[lists'[l][1]] = Source[lists[l][1]]
                   /\ Last(lists'[l]) = Last(lists[l])
         /\ EachArcOnce'
<1>1. Running /\ ~Stuck(Top) /\ arc_visited' = arc_visited
  BY DEF Return
<1>2. /\ WhileRunning /\ Len(stack) \in Nat \ {0} /\ Len(lists) \in Nat \ {0}
      /\ stack \in Seq(FrameType) /\ lists \in Seq(Seq(arc_visited))
      /\ Top = stack[Len(stack)] /\ Top.cycle = Len(lists)
      /\ arcs \subseteq Arc /\ arc_visited \subseteq arcs
      /\ \A l \in 1..Len(lists) : lists[l] \in Seq(arc_visited)
  BY <1>1, RunningFacts
<1>3. ListsLeadOn /\ EachArcOnce /\ PositionsAreInLists
  BY <1>2 DEF WhileRunning
<1>4. \A l \in 1..Len(lists) : IsWalk(lists[l])
  BY <1>2, <1>3 DEF ListsLeadOn
<1>5. CASE Top.cycle = Caller.cycle
  <2>1. lists' = lists
    BY <1>5 DEF Return
  <2>2. EachArcOnce'
    BY <1>1, <1>3, <2>1 DEF EachArcOnce
  <2> QED
    BY <1>2, <1>4, <1>5, <2>1, <2>2
<1>6. CASE Top.cycle # Caller.cycle
  <2> DEFINE M == Caller.cycle
             pos == Caller.listPos
             outer == Front(lists)
             t == lists[M]
             c == lists[M + 1]
             u == InsertBefore(t, pos, c)
  <2>1. /\ Called(Caller, Top) /\ Caller = stack[Len(stack) - 1]
        /\ M \in 1..Len(lists) /\ Len(stack) - 1 \in 1..Len(stack)
        /\ Len(stack) \in 1..Len(stack)
    BY <1>2, ReturnFacts
  <2>2. /\ Top.cycle = M + 1 /\ Top.start = Caller.current /\ pos # NoArc
        /\ M + 1 = Len(lists) /\ M \in Nat \ {0} /\ M + 1 \in 1..Len(lists)
    BY <1>2, <1>6, <2>1 DEF Called
  <2>3. /\ outer \in Seq(Seq(arc_visited)) /\ Len(outer) = M
        /\ \A l \in 1..M : outer[l] = lists[l]
    <3>1. lists \in Seq(Seq(arc_visited)) /\ lists # <<>>
      BY <1>2, <2>2
    <3>2. /\ outer \in Seq(Seq(arc_visited)) /\ Len(outer) = Len(lists) - 1
          /\ \A l \in 1..(Len(lists) - 1) : outer[l] = lists[l]
      BY <3>1, FrontFacts
    <3>3. Len(lists) - 1 = M
      BY <2>2
    <3> HIDE DEF M, outer
    <3> QED
      BY <3>2, <3>3
  <2>4. lists' = [outer EXCEPT ![M] = u]
    <3>1. lists' = [outer EXCEPT ![M] = InsertBefore(@, pos, lists[Top.cycle])]
      BY <1>6 DEF Return
    <3>2. outer[M] = t /\ lists[Top.cycle] = c
      BY <2>2, <2>3
    <3> HIDE DEF outer, t, c, pos, M
    <3> QED
      BY <3>1, <3>2
  <2>5. t \in Seq(arc_visited) /\ c \in Seq(arc_visited) /\ t \in Seq(Arc) /\ c \in Seq(Arc)
    <3>1. t \in Seq(arc_visited) /\ c \in Seq(arc_visited)
      BY <1>2, <2>1, <2>2
    <3>2. arc_visited \subseteq Arc
      BY <1>2
    <3> HIDE DEF t, c
    <3> QED
      BY <3>1, <3>2, SeqMonotonic
  <2>6. Source[pos] = Caller.current /\ pos \in ToSet(t)
    <3>1. DOMAIN stack = 1..Len(stack)
      BY <1>2
    <3> QED
      BY <1>3, <2>1, <2>2, <3>1 DEF PositionsAreInLists
  <2>7. IsClosedWalkAt(c, Caller.current)
    <3>1. IsClosedWalkAt(lists[stack[Len(stack)].cycle], stack[Len(stack)].start)
      BY <1>1, <2>1, ListsAreClosed
    <3> QED
      BY <1>2, <2>2, <3>1
  <2>8. PICK k \in 1..Len(t) : t[k] = pos
    BY <2>5, <2>6, ToSetFacts
  <2>9. NothingTwice(arc_visited, lists)
    BY <1>2, <1>3, EachArcOnceMeans
  <2>10. /\ \A x : x \in arc_visited <=> \E i \in 1..Len(lists) : x \in ToSet(lists[i])
         /\ \A i \in 1..Len(lists) : IsInjective(lists[i])
         /\ \A i, h \in 1..Len(lists) : i # h => ToSet(lists[i]) \cap ToSet(lists[h]) = {}
    BY <2>9 DEF NothingTwice
  <2>11. M \in 1..Len(lists) /\ M + 1 \in 1..Len(lists) /\ M # M + 1 /\ Len(lists) = M + 1
    BY <2>1, <2>2
  <2>12. M \in Nat \ {0} /\ M + 1 = Len(lists)
    BY <2>2
  <2> HIDE DEF M, pos, outer, u
  <2>13. /\ IsWalk(t) /\ IsInjective(t) /\ IsInjective(c)
         /\ ToSet(t) \cap ToSet(c) = {}
    BY <1>4, <2>10, <2>11
  <2> HIDE DEF t, c
  <2>14. u \in Seq(arc_visited) /\ Inserted(u, t, k, c)
    BY <2>5, <2>8, <2>13, InsertFacts DEF u
  <2>15. IsWalk(u) /\ u # <<>> /\ Source[u[1]] = Source[t[1]] /\ Last(u) = Last(t)
    <3>1. IsClosedWalkAt(c, Source[t[k]]) /\ u = InsertBefore(t, t[k], c)
      BY <2>6, <2>7, <2>8 DEF u
    <3> QED
      BY <2>5, <2>13, <3>1, InsertWalk
  <2>16. ToSet(u) = ToSet(t) \cup ToSet(c) /\ IsInjective(u)
    BY <2>5, <2>13, <2>14, InsertedFacts
  <2>17. /\ lists' \in Seq(Seq(arc_visited)) /\ Len(lists') = M
         /\ \A l \in 1..M : l # M => lists'[l] = lists[l]
         /\ lists'[M] = u
    <3>1. M \in 1..Len(outer)
      BY <2>2, <2>3
    <3>2. lists' \in Seq(Seq(arc_visited)) /\ Replaced(lists', outer, M, u)
      BY <2>3, <2>4, <2>14, <3>1, ReplaceFacts
    <3> QED
      BY <2>3, <3>2 DEF Replaced
  <2>18. lists[M] = t /\ lists[M + 1] = c
    BY DEF t, c
  <2>19. EachArcOnce'
    <3>1. ASSUME NEW x \in arc_visited PROVE \E i \in 1..M : x \in ToSet(lists'[i])
      <4>1. PICK i \in 1..Len(lists) : x \in ToSet(lists[i])
        BY <2>10
      <4>2. CASE i = M \/ i = M + 1
        <5>1. x \in ToSet(lists'[M]) /\ M \in 1..M
          BY <2>16, <2>17, <2>18, <2>12, <4>1, <4>2
        <5> QED
          BY <5>1
      <4>3. CASE i # M /\ i # M + 1
        <5>1. i \in 1..M /\ lists'[i] = lists[i]
          BY <2>17, <2>12, <4>3
        <5> QED
          BY <4>1, <5>1
      <4> QED
        BY <4>2, <4>3
    <3>2. ASSUME NEW i \in 1..M, i # M
          PROVE  /\ i \in 1..Len(lists) /\ lists'[i] = lists[i]
                 /\ ToSet(lists[i]) \cap (ToSet(t) \cup ToSet(c)) = {}
      <4>1. i \in 1..Len(lists) /\ i # M + 1
        BY <2>12, <3>2
      <4>2. ToSet(lists[i]) \cap ToSet(t) = {} /\ ToSet(lists[i]) \cap ToSet(c) = {}
        BY <2>18, <2>10, <2>11, <3>2, <4>1
      <4> QED
        BY <2>17, <3>2, <4>1, <4>2
    <3>3. ASSUME NEW i \in 1..M, NEW x \in ToSet(lists'[i]) PROVE x \in arc_visited
      <4>1. CASE i # M
        BY <2>10, <3>2, <3>3, <4>1
      <4>2. CASE i = M
        <5>1. x \in ToSet(lists[M]) \/ x \in ToSet(lists[M + 1])
          BY <2>16, <2>17, <2>18, <3>3, <4>2
        <5> QED
          BY <2>10, <2>11, <5>1
      <4> QED
        BY <4>1, <4>2
    <3>4. ASSUME NEW i \in 1..M PROVE IsInjective(lists'[i])
      <4>1. CASE i # M
        BY <2>10, <3>2, <4>1
      <4>2. CASE i = M
        BY <2>16, <2>17, <4>2
      <4> QED
        BY <4>1, <4>2
    <3>5. ASSUME NEW i \in 1..M, NEW h \in 1..M, i # h
          PROVE  ToSet(lists'[i]) \cap ToSet(lists'[h]) = {}
      <4>1. CASE i = M
        <5>1. h # M /\ ToSet(lists'[i]) = ToSet(t) \cup ToSet(c)
          BY <2>16, <2>17, <3>5, <4>1
        <5>2. lists'[h] = lists[h] /\ ToSet(lists[h]) \cap (ToSet(t) \cup ToSet(c)) = {}
          BY <3>2, <5>1
        <5> QED
          BY <5>1, <5>2
      <4>2. CASE h = M
        <5>1. i # M /\ ToSet(lists'[h]) = ToSet(t) \cup ToSet(c)
          BY <2>16, <2>17, <3>5, <4>2
        <5>2. lists'[i] = lists[i] /\ ToSet(lists[i]) \cap (ToSet(t) \cup ToSet(c)) = {}
          BY <3>2, <5>1
        <5> QED
          BY <5>1, <5>2
      <4>3. CASE i # M /\ h # M
        <5>1. /\ lists'[i] = lists[i] /\ i \in 1..Len(lists)
              /\ lists'[h] = lists[h] /\ h \in 1..Len(lists)
          BY <3>2, <4>3
        <5> QED
          BY <2>10, <3>5, <5>1
      <4> QED
        BY <4>1, <4>2, <4>3
    <3>6. NothingTwice(arc_visited', lists')
      <4>1. Len(lists') = M /\ arc_visited' = arc_visited
        BY <1>1, <2>17
      <4> QED
        BY <3>1, <3>3, <3>4, <3>5, <4>1 DEF NothingTwice
    <3> QED
      BY <2>17, <3>6, EachArcOnceMeansNext
  <2>20. ASSUME NEW l \in 1..M
         PROVE  /\ ToSet(lists[l]) \subseteq ToSet(lists'[l])
                /\ IsWalk(lists'[l])
                /\ lists[l] # <<>> =>
                     /\ lists'[l] # <<>>
                     /\ Source[lists'[l][1]] = Source[lists[l][1]]
                     /\ Last(lists'[l]) = Last(lists[l])
    <3>1. CASE l = M
      BY <2>15, <2>16, <2>17, <2>18, <3>1
    <3>2. CASE l # M
      <4>1. lists'[l] = lists[l] /\ l \in 1..Len(lists)
        BY <2>2, <2>17, <3>2
      <4> QED
        BY <1>4, <4>1
    <3> QED
      BY <3>1, <3>2
  <2> QED
    BY <2>17, <2>19, <2>20 DEF M
<1> QED
  BY <1>5, <1>6

(* A nested activation returns. *)
LEMMA ReturnToCallerKeeps ==
  ASSUME IInv, Return, Len(stack) # 1
  PROVE  IInv'
<1>1. /\ Running /\ ~Stuck(Top) /\ Unvisited(Top.current) = {} /\ status' = "running"
      /\ UNCHANGED <<nodes, arcs, start, arc_visited>>
  BY DEF Return
<1>2. /\ WhileRunning /\ Len(stack) \in Nat \ {0} /\ Len(lists) \in Nat \ {0}
      /\ stack \in Seq(FrameType) /\ lists \in Seq(Seq(arc_visited))
      /\ Top = stack[Len(stack)] /\ Top.cycle = Len(lists)
  BY <1>1, RunningFacts
<1> DEFINE D == Len(stack) - 1
           M == Caller.cycle
<1>3. /\ D \in Nat \ {0} /\ Len(stack) = D + 1
      /\ Len(stack') = D /\ stack' \in Seq(FrameType)
      /\ \A i \in 1..D : stack'[i] = stack[i]
      /\ Top' = Caller /\ Caller = stack[D]
      /\ Called(Caller, Top)
  BY <1>2, ReturnFacts
<1>4. /\ lists' \in Seq(Seq(arc_visited)) /\ Len(lists') = M
      /\ \A l \in 1..M :
           /\ ToSet(lists[l]) \subseteq ToSet(lists'[l])
           /\ IsWalk(lists'[l])
           /\ lists[l] # <<>> =>
                /\ lists'[l] # <<>>
                /\ Source[lists'[l][1]] = Source[lists[l][1]]
                /\ Last(lists'[l]) = Last(lists[l])
      /\ EachArcOnce'
      /\ M \in 1..Len(lists)
  BY ReturnLists, ReturnFacts
<1>5. /\ FramesAreJoined /\ PositionsAreInLists /\ ListsLeadOn
      /\ NothingIsForgotten /\ VisitedIsBalanced /\ StaysWithin(Start, arc_visited)
  BY <1>2 DEF WhileRunning
<1>6. /\ DOMAIN stack = 1..(D + 1) /\ DOMAIN stack' = 1..D
      /\ DOMAIN lists = 1..Len(lists) /\ DOMAIN lists' = 1..M
      /\ M \in Nat \ {0}
  BY <1>2, <1>3, <1>4
<1>7. \A i \in 1..D : i \in 1..(D + 1) /\ i < Len(stack)
  BY <1>3
<1>8. Caller.listPos # NoArc /\ Top.cycle \in {M, M + 1} /\ M = stack[D].cycle
  BY <1>3 DEF Called
<1> HIDE DEF D, M
<1>9. Start' = Start /\ stack'[1] = stack[1]
  BY <1>3 DEF Start
<1>10. TypeOK'
  <2>1. TypeOK
    BY DEF IInv
  <2>2. lists' # <<>>
    BY <1>4, <1>6
  <2> QED
    BY <1>1, <1>3, <1>4, <2>1, <2>2 DEF TypeOK
<1>11. /\ stack[1].cycle = 1
       /\ \A i \in 1..(D + 1) : stack[i].cycle \in 1..Len(lists)
       /\ \A i \in 1..D : Called(stack[i], stack[i + 1])
       /\ \A i, k \in 1..(D + 1) :
            /\ stack[i].cycle = stack[k].cycle => stack[i].start = stack[k].start
            /\ i <= k => stack[i].cycle <= stack[k].cycle
  <2>1. Len(stack) - 1 = D
    BY <1>3
  <2> QED
    BY <1>5, <1>6, <2>1 DEF FramesAreJoined
(* No frame that is left has a list above the caller's. *)
<1>12. ASSUME NEW i \in 1..D PROVE stack[i].cycle \in 1..M
  <2>1. D \in 1..(D + 1) /\ i \in 1..(D + 1) /\ i <= D
    BY <1>3
  <2>2. stack[i].cycle <= M /\ stack[i].cycle \in 1..Len(lists)
    BY <1>8, <1>11, <2>1
  <2> QED
    BY <1>2, <1>6, <2>2
(* The lists of the frames that are left are closed walks. *)
<1>13. ASSUME NEW i \in 1..D
       PROVE  /\ lists'[stack[i].cycle] # <<>>
              /\ Source[lists'[stack[i].cycle][1]] = stack[i].start
              /\ Target[Last(lists'[stack[i].cycle])] = stack[i].start
  <2> DEFINE list == lists[stack[i].cycle]
  <2>1. list # <<>> /\ IsClosedWalkAt(list, stack[i].start)
    BY <1>1, <1>3, <1>7, ListsAreClosed
  <2>2. Source[list[1]] = stack[i].start /\ Target[Last(list)] = stack[i].start
    BY <2>1 DEF IsClosedWalkAt, Last
  <2> QED
    BY <1>4, <1>12, <2>1, <2>2
<1>14. FramesAreJoined'
  <2>1. \A i \in 1..(D - 1) : Called(stack'[i], stack'[i + 1])
    <3>1. \A i \in 1..(D - 1) : i \in 1..D /\ i + 1 \in 1..D
      BY <1>3
    <3> QED
      BY <1>3, <1>11, <3>1
  <2>2. stack' # <<>> /\ stack'[1].cycle = 1 /\ Top'.cycle = M
    BY <1>3, <1>8, <1>9, <1>11
  <2>3. \A i \in 1..D : stack'[i].cycle \in 1..M
    BY <1>3, <1>12
  <2>4. \A i, k \in 1..D :
          /\ stack'[i].cycle = stack'[k].cycle => stack'[i].start = stack'[k].start
          /\ i <= k => stack'[i].cycle <= stack'[k].cycle
    BY <1>3, <1>7, <1>11
  <2> QED
    BY <1>3, <1>4, <1>6, <2>1, <2>2, <2>3, <2>4 DEF FramesAreJoined
<1>15. PositionsAreInLists'
  <2> SUFFICES ASSUME NEW i \in 1..D, stack'[i].listPos # NoArc
               PROVE  /\ Source[stack'[i].listPos] = stack'[i].current
                      /\ stack'[i].listPos \in ToSet(lists'[stack'[i].cycle])
    BY <1>6 DEF PositionsAreInLists
  <2>1. stack'[i] = stack[i] /\ i \in 1..(D + 1)
    BY <1>3, <1>7
  <2>2. /\ Source[stack[i].listPos] = stack[i].current
        /\ stack[i].listPos \in ToSet(lists[stack[i].cycle])
    BY <1>5, <1>6, <2>1 DEF PositionsAreInLists
  <2>3. ToSet(lists[stack[i].cycle]) \subseteq ToSet(lists'[stack[i].cycle])
    BY <1>4, <1>12
  <2> QED
    BY <2>1, <2>2, <2>3
<1>16. ListsLeadOn'
  <2>1. \A i \in 1..D : ~Open(i)'
    BY <1>3, <1>8 DEF Open
  <2> QED
    BY <1>3, <1>4, <1>6, <1>13, <2>1 DEF ListsLeadOn
<1>17. NothingIsForgotten'
  <2> SUFFICES ASSUME NEW x \in Node, Touched(x)', Unvisited(x)' # {}
               PROVE  \E i \in 1..D : stack'[i].current = x
    BY <1>6 DEF NothingIsForgotten
  <2>1. Unvisited(x) # {} /\ Touched(x)
    BY <1>1, <1>9 DEF Unvisited, Touched
  <2>2. PICK i \in 1..(D + 1) : stack[i].current = x
    BY <1>5, <1>6, <2>1 DEF NothingIsForgotten
  <2>3. i # D + 1
    BY <1>1, <1>2, <1>3, <2>1, <2>2
  <2>4. i \in 1..D /\ stack'[i] = stack[i]
    BY <1>3, <2>3
  <2> QED
    BY <2>2, <2>4
<1>18. VisitedIsBalanced'
  <2>1. OpenEnd = Top.start /\ OpenEnd' = Top'.start
    BY <1>1, <1>3, <1>8 DEF OpenEnd, Stuck
  <2>2. \A x \in Node : /\ Cardinality(OutArcs(arc_visited, x)) \in Nat
                        /\ Cardinality(InArcs(arc_visited, x)) \in Nat
    <3>1. arc_visited \subseteq Arc
      BY DEF IInv, TypeOK
    <3>2. \A x \in Node : IsFiniteSet(OutArcs(arc_visited, x)) /\ IsFiniteSet(InArcs(arc_visited, x))
      BY <3>1, SelectionsAreFinite DEF OutArcs, InArcs
    <3> QED
      BY <3>2, FS_CardinalityType
  <2>3. \A x \in Node : Cardinality(OutArcs(arc_visited, x)) = Cardinality(InArcs(arc_visited, x))
    BY <1>5, <2>1, <2>2 DEF VisitedIsBalanced
  <2> QED
    BY <1>1, <2>1, <2>3 DEF VisitedIsBalanced
<1>19. StaysWithin(Start, arc_visited)'
  BY <1>1, <1>5, <1>9 DEF StaysWithin
<1>20. WhileRunning'
  <2>1. Start' \in nodes' /\ start' \in {Start', NoNode} /\ stack'[1].current = Start'
    BY <1>1, <1>2, <1>9 DEF WhileRunning
  <2> QED
    BY <1>4, <1>14, <1>15, <1>16, <1>17, <1>18, <1>19, <2>1 DEF WhileRunning
<1> QED
  BY <1>1, <1>10, <1>20 DEF IInv, Running

(* The first activation returns: the list is the tour. *)
LEMMA ReturnEnds ==
  ASSUME IInv, Return, Len(stack) = 1
  PROVE  /\ IInv' /\ status' = "returned" /\ lists' = lists
         /\ Start \in nodes /\ start \in {Start, NoNode}
         /\ IsEulerTour(Result, arcs, Start)
<1>1. /\ Running /\ ~Stuck(Top) /\ Unvisited(Top.current) = {} /\ status' = "returned"
      /\ UNCHANGED <<nodes, arcs, start, arc_visited, lists>> /\ stack' = Front(stack)
  BY DEF Return
<1>2. /\ WhileRunning /\ Len(lists) \in Nat \ {0}
      /\ stack \in Seq(FrameType) /\ lists \in Seq(Seq(arc_visited))
      /\ Top = stack[Len(stack)] /\ Top.cycle = Len(lists)
      /\ arcs \subseteq Arc /\ arc_visited \subseteq arcs
      /\ \A l \in 1..Len(lists) : lists[l] \in Seq(arc_visited)
  BY <1>1, RunningFacts
<1>3. /\ stack[1] = Top /\ stack[1].current = Start /\ stack[1].start = Start
      /\ stack[1].cycle = 1 /\ Len(lists) = 1
  BY <1>2 DEF WhileRunning, FramesAreJoined, Start
<1>4. Start \in nodes /\ start \in {Start, NoNode}
  BY <1>2 DEF WhileRunning
<1>5. /\ Result \in Seq(arc_visited) /\ Result = lists[1]
  <2>1. 1 \in 1..Len(lists)
    BY <1>3
  <2> QED
    BY <1>2, <2>1 DEF Result
<1>6. Result \in Seq(arcs)
  BY <1>2, <1>5, SeqMonotonic
<1>7. IsInjective(Result) /\ ToSet(Result) = arc_visited
  <2>1. NothingTwice(arc_visited, lists)
    BY <1>2, EachArcOnceMeans DEF WhileRunning
  <2>2. /\ \A x : x \in arc_visited <=> \E i \in 1..1 : x \in ToSet(lists[i])
        /\ \A i \in 1..1 : IsInjective(lists[i])
    BY <1>3, <2>1 DEF NothingTwice
  <2>3. \A i : i \in 1..1 <=> i = 1
    OBVIOUS
  <2>4. IsInjective(lists[1]) /\ \A x : x \in arc_visited <=> x \in ToSet(lists[1])
    BY <2>2, <2>3
  <2> QED
    BY <1>5, <2>4
<1>8. IsClosedWalkAt(Result, Start)
  <2>1. 1 \in 1..Len(stack)
    OBVIOUS
  <2> QED
    BY <1>1, <1>3, <1>5, <2>1, ListsAreClosed
<1>9. ASSUME NEW a \in arcs, Source[a] \in {Start} \cup NodesOf(ToSet(Result))
      PROVE  a \in ToSet(Result)
  <2> SUFFICES ASSUME a \notin arc_visited PROVE FALSE
    BY <1>7
  <2>1. Source[a] \in Node /\ Touched(Source[a])
    BY <1>2, <1>7, <1>9, NetworkAssumption DEF Touched
  <2>2. a \in Unvisited(Source[a])
    BY <1>2, <2>1 DEF Unvisited, OutArcs, ArcsFrom
  <2>3. PICK i \in DOMAIN stack : stack[i].current = Source[a]
    BY <1>2, <2>1, <2>2 DEF WhileRunning, NothingIsForgotten
  <2>4. i = 1
    BY <1>2
  <2> QED
    BY <1>1, <1>3, <2>2, <2>3, <2>4
<1>10. IsEulerTour(Result, arcs, Start)
  BY <1>6, <1>7, <1>8, <1>9 DEF IsEulerTour
<1>11. OnceReturned'
  <2>1. StaysWithin(Start, ToSet(Result))
    BY <1>2, <1>7 DEF WhileRunning
  <2>2. Result' = Result /\ nodes' # {}
    BY <1>1, <1>4 DEF Result
  <2>3. StaysWithin(Start, ToSet(Result)) /\ IsEulerTour(Result, arcs, Start)
    BY <1>10, <2>1
  <2>4. \E n \in nodes : /\ start \in {n, NoNode} /\ IsEulerTour(Result, arcs, n)
                         /\ StaysWithin(n, ToSet(Result))
    BY <1>4, <2>3
  <2> QED
    BY <1>1, <2>2, <2>4 DEF OnceReturned, StaysWithin
<1>12. TypeOK'
  <2>1. stack \in Seq(FrameType) /\ stack' = Front(stack) /\ stack # <<>>
    <3>1. stack # <<>>
      OBVIOUS
    <3> QED
      BY <1>1, <1>2, <3>1
  <2>2. stack' \in Seq(FrameType)
    BY ONLY <2>1, FrontFacts
  <2> QED
    BY <1>1, <2>2 DEF IInv, TypeOK
<1>13. IInv'
  BY <1>1, <1>11, <1>12 DEF IInv
<1> QED
  BY <1>1, <1>4, <1>10, <1>13

-----------------------------------------------------------------------------
(* The invariant is inductive. *)
LEMMA NextKeeps == IInv /\ [Next]_vars => IInv'
<1> SUFFICES ASSUME IInv, [Next]_vars PROVE IInv'
  OBVIOUS
<1>1. CASE GetEmptyTour
  BY <1>1, GetEmptyTourKeeps
<1>2. CASE GetEulerTour
  BY <1>2, GetEulerTourKeeps
<1>3. CASE TakeFirstArc
  BY <1>3, TakeFirstArcKeeps
<1>4. CASE OpenNewCycle
  BY <1>4, OpenNewCycleKeeps
<1>5. CASE ThrowNotEulerian
  BY <1>5, ThrowKeeps
<1>6. CASE Return
  BY <1>6, ReturnToCallerKeeps, ReturnEnds
<1>7. CASE UNCHANGED vars
  <2>1. /\ nodes' = nodes /\ arcs' = arcs /\ start' = start /\ status' = status
        /\ arc_visited' = arc_visited /\ lists' = lists /\ stack' = stack
    BY <1>7 DEF vars
  <2>2. /\ TypeOK' <=> TypeOK
        /\ WhileCalled' <=> WhileCalled
        /\ OnceReturned' <=> OnceReturned
    BY <2>1 DEF TypeOK, WhileCalled, OnceReturned, Result, StaysWithin
  <2>3. /\ Top' = Top /\ Start' = Start /\ OpenEnd' = OpenEnd
        /\ \A i : Open(i)' <=> Open(i)
        /\ \A x : Touched(x)' <=> Touched(x)
        /\ \A x : Unvisited(x)' = Unvisited(x)
    BY <2>1 DEF Top, Start, OpenEnd, Open, Touched, Unvisited
  <2>4. /\ FramesAreJoined' <=> FramesAreJoined
        /\ PositionsAreInLists' <=> PositionsAreInLists
        /\ EachArcOnce' <=> EachArcOnce
    BY <2>1, <2>3 DEF FramesAreJoined, PositionsAreInLists, EachArcOnce
  <2>5. ListsLeadOn' <=> ListsLeadOn
    BY <2>1, <2>3 DEF ListsLeadOn
  <2>6. NothingIsForgotten' <=> NothingIsForgotten
    BY <2>1, <2>3 DEF NothingIsForgotten
  <2>7. VisitedIsBalanced' <=> VisitedIsBalanced
    BY <2>1, <2>3 DEF VisitedIsBalanced
  <2>8. WhileRunning' <=> WhileRunning
    BY <2>1, <2>3, <2>4, <2>5, <2>6, <2>7 DEF WhileRunning, StaysWithin
  <2> QED
    BY <2>1, <2>2, <2>8 DEF IInv
<1> QED
  BY <1>1, <1>2, <1>3, <1>4, <1>5, <1>6, <1>7 DEF Next

LEMMA Inductive == Spec => []IInv
<1> QED
  BY InitIInv, NextKeeps, PTL DEF Spec

(* In every graph the variables keep their types: an arc is marked only    *)
(* when it is one of the graph, and only marked arcs come into the lists.  *)
THEOREM EulerTypes == Spec => []TypeOK
<1>1. IInv => TypeOK
  BY DEF IInv
<1> QED
  BY <1>1, Inductive, PTL

(* In every graph, and however deep eulerRec has called itself, every list *)
(* is a walk, and every visited arc is at one place of one list.           *)
THEOREM WalksStayWhole == Spec => []ListsAreWalks
<1>1. IInv => ListsAreWalks
  <2> SUFFICES ASSUME IInv, Running PROVE ListsAreWalks
    BY DEF ListsAreWalks
  <2>1. /\ WhileRunning /\ Len(stack) \in Nat \ {0} /\ Len(lists) \in Nat \ {0}
        /\ stack \in Seq(FrameType) /\ lists \in Seq(Seq(arc_visited))
        /\ Top = stack[Len(stack)] /\ Top.cycle = Len(lists)
    BY RunningFacts
  <2>2. ListsLeadOn /\ EachArcOnce
    BY <2>1 DEF WhileRunning
  <2>3. Len(stack) \in DOMAIN stack /\ Last(lists) = lists[Len(lists)]
    BY <2>1 DEF Last
  <2>4. LET list == Last(lists) IN
        IF list = <<>> THEN Top.current = Top.start
        ELSE Source[list[1]] = Top.start
             /\ (Top.listPos = NoArc => Target[Last(list)] = Top.current)
    BY <2>1, <2>2, <2>3 DEF ListsLeadOn, Open
  <2> QED
    BY <2>2, <2>4 DEF ListsAreWalks, ListsLeadOn
<1> QED
  BY <1>1, Inductive, PTL

(* A closed walk that leaves no arc behind and stays within every closed   *)
(* set around its start takes the arcs of the start's component.           *)
LEMMA TourIsComponent ==
  ASSUME NEW x \in SUBSET Arc, Balanced(x), NEW n \in Node, NEW t,
         IsEulerTour(t, x, n),
         \A W \in SUBSET Node : n \in W /\ IsClosed(x, W) => NodesOf(ToSet(t)) \subseteq W
  PROVE  ToSet(t) = {a \in x : Source[a] \in ComponentOf(x, n)}
<1> DEFINE T == ToSet(t)
           W == {n} \cup NodesOf(T)
<1>1. T \subseteq x /\ T \in SUBSET Arc
  BY ToSetFacts DEF IsEulerTour
<1>2. W \in SUBSET Node
  BY <1>1, NodesOfSelection
<1>3. \A a \in x : Source[a] \in W => a \in T
  BY DEF IsEulerTour
<1>4. \A a \in T : Source[a] \in NodesOf(T) /\ Target[a] \in NodesOf(T)
  BY DEF NodesOf
<1> HIDE DEF T
<1>5. Leaving(x, W) = {}
  BY <1>3, <1>4 DEF Leaving
<1> HIDE DEF W
<1>6. Entering(x, W) = {}
  BY <1>2, <1>5, LeavesIffEnters
<1>7. IsClosed(x, W)
  BY <1>5, <1>6 DEF IsClosed, Leaving, Entering
<1>8. ASSUME NEW a \in x, Source[a] \in ComponentOf(x, n) PROVE a \in T
  <2> DEFINE V == W \cap NodesOf(x)
  <2>1. V \in SUBSET NodesOf(x) /\ IsClosed(x, V)
    BY <1>7, AllNodesClosed, ClosedParts
  <2>2. n \in NodesOf(x)
    BY <1>8 DEF ComponentOf, Components
  <2>3. n \in V
    BY <2>2 DEF W
  <2> HIDE DEF V
  <2>4. Source[a] \in V
    BY <1>8, <2>1, <2>3, ComponentInClosed
  <2> QED
    BY <1>3, <2>4 DEF V
<1>9. ASSUME NEW a \in T PROVE Source[a] \in ComponentOf(x, n)
  <2>1. n \in NodesOf(x)
    <3> SUFFICES ASSUME n \notin NodesOf(x) PROVE FALSE
      OBVIOUS
    <3>1. {n} \in SUBSET Node /\ IsClosed(x, {n})
      BY DEF IsClosed, NodesOf
    <3>2. NodesOf(T) \subseteq {n}
      BY <3>1 DEF T
    <3>3. Source[a] = n
      BY <1>4, <3>2
    <3> QED
      BY <1>1, <3>3 DEF NodesOf
  <2>2. PICK C \in Components(x) : n \in C
    BY <2>1, ComponentsCover
  <2>3. IsClosed(x, C) /\ C \in SUBSET Node
    BY NodesOfSelection DEF Components
  <2>4. NodesOf(T) \subseteq C
    BY <2>2, <2>3 DEF T
  <2> QED
    BY <1>4, <2>2, <2>4 DEF ComponentOf
<1> QED
  BY <1>1, <1>8, <1>9 DEF T

(* In every graph that is balanced the call does not throw, and its result *)
(* has the arcs of the start node's component, no more and no fewer.       *)
THEOREM BalancedTour == Spec => []BalancedGivesComponent
<1>1. IInv => BalancedGivesComponent
  <2> SUFFICES ASSUME IInv, Balanced(arcs), status = "returned"
               PROVE  \E n \in nodes \cup {NoNode} :
                        /\ start \in {n, NoNode}
                        /\ ToSet(Result) = {a \in arcs : Source[a] \in ComponentOf(arcs, n)}
    BY DEF IInv, BalancedGivesComponent
  <2>1. /\ OnceReturned /\ nodes \subseteq Node /\ arcs \in SUBSET Arc
        /\ arcs \subseteq {a \in Arc : Source[a] \in nodes /\ Target[a] \in nodes}
        /\ start \in nodes \cup {NoNode}
    BY DEF IInv, TypeOK
  <2>2. CASE nodes = {}
    <3>1. arcs = {} /\ start = NoNode
      BY <2>1, <2>2
    <3>2. ToSet(Result) = {}
      BY <2>1, <2>2 DEF OnceReturned, ToSet
    <3> QED
      BY <3>1, <3>2
  <2>3. CASE nodes # {}
    <3>1. PICK n \in nodes : /\ start \in {n, NoNode}
                            /\ IsEulerTour(Result, arcs, n)
                            /\ StaysWithin(n, ToSet(Result))
      BY <2>1, <2>3 DEF OnceReturned
    <3>2. ToSet(Result) = {a \in arcs : Source[a] \in ComponentOf(arcs, n)}
      <4>1. \A W \in SUBSET Node :
              n \in W /\ IsClosed(arcs, W) => NodesOf(ToSet(Result)) \subseteq W
        BY <3>1 DEF StaysWithin
      <4>2. n \in Node
        BY <2>1
      <4> QED
        BY <2>1, <3>1, <4>1, <4>2, TourIsComponent
    <3> QED
      BY <3>1, <3>2
  <2> QED
    BY <2>2, <2>3
<1> QED
  BY <1>1, Inductive, PTL

-----------------------------------------------------------------------------
(* The search implements the call. *)

(* What makes a tour is the same in both modules. *)
LEMMA SameTours ==
  ASSUME NEW t, NEW x, NEW n
  PROVE  Call!IsEulerTour(t, x, n) <=> IsEulerTour(t, x, n)
BY DEF IsEulerTour, Call!IsEulerTour, IsClosedWalkAt, Call!IsClosedWalkAt,
       IsWalk, Call!IsWalk, IsInjective, Call!IsInjective,
       NodesOf, Call!NodesOf, ToSet, Call!ToSet

LEMMA SameBalance ==
  ASSUME NEW x
  PROVE  Call!Balanced(x) <=> Balanced(x)
<1>1. \A S : Call!Cardinality(S) = Cardinality(S)
  BY DEF Cardinality, Call!Cardinality
<1>2. Call!ArcsFrom = ArcsFrom /\ Call!ArcsTo = ArcsTo
  BY DEF ArcsFrom, Call!ArcsFrom, ArcsTo, Call!ArcsTo
<1>3. \A n \in Node : /\ Call!InArcs(x, n) = InArcs(x, n)
                      /\ Call!OutArcs(x, n) = OutArcs(x, n)
  BY <1>2 DEF InArcs, Call!InArcs, OutArcs, Call!OutArcs
<1> QED
  BY <1>1, <1>3 DEF Balanced, Call!Balanced

(* Every step of the search is one of the call or changes nothing it can   *)
(* see.                                                                    *)
LEMMA StepsAreCallSteps ==
  ASSUME IInv, [Next]_vars
  PROVE  [Call!EulerNext]_(Call!eulerVars)
<1> USE DEF Call!eulerVars
<1>1. CASE GetEmptyTour
  <2>1. Result' = <<>>
    BY <1>1 DEF GetEmptyTour, IInv, WhileCalled, Result
  <2> QED
    BY <1>1, <2>1 DEF GetEmptyTour, Call!EulerNext, Call!ReturnTour
<1>2. CASE GetEulerTour
  BY <1>2 DEF GetEulerTour
<1>3. CASE TakeFirstArc
  BY <1>3 DEF TakeFirstArc, Running
<1>4. CASE OpenNewCycle
  BY <1>4 DEF OpenNewCycle, Running
<1>5. CASE ThrowNotEulerian
  <2>1. ~Balanced(arcs)
    BY <1>5, ThrowKeeps DEF ThrowNotEulerian, IInv
  <2> QED
    BY <1>5, <2>1, SameBalance
    DEF ThrowNotEulerian, Running, Call!EulerNext, Call!ThrowNotEulerian
<1>6. CASE Return /\ Len(stack) # 1
  BY <1>6 DEF Return, Running
<1>7. CASE Return /\ Len(stack) = 1
  <2>1. /\ status = "running" /\ status' = "returned" /\ lists' = lists
        /\ UNCHANGED <<nodes, arcs, start>>
        /\ Start \in nodes /\ start \in {Start, NoNode}
        /\ IsEulerTour(Result, arcs, Start)
    BY <1>7, ReturnEnds DEF Return, Running
  <2>2. Result' = Result
    BY <2>1 DEF Result
  <2>3. Call!IsEulerTour(Result', arcs, Start)
    BY <2>1, <2>2, SameTours
  <2>4. Start \in Call!StartNodes
    BY <2>1 DEF Call!StartNodes
  <2> QED
    BY <2>1, <2>3, <2>4 DEF Call!EulerNext, Call!ReturnTour
<1>8. CASE UNCHANGED vars
  BY <1>8 DEF vars, Result
<1> QED
  BY <1>1, <1>2, <1>3, <1>4, <1>5, <1>6, <1>7, <1>8 DEF Next

(* Hierholzer's algorithm keeps the promise of the call in every graph: it *)
(* returns a closed walk that leaves no arc behind at a node it passes, or *)
(* it throws because the graph is not balanced.  (That it ends is the part *)
(* of ImplementsEulerTour that is left to TLC.)                            *)
THEOREM SearchKeepsThePromise ==
  Spec => Call!EulerInit /\ [][Call!EulerNext]_(Call!eulerVars)
<1>1. Init => Call!EulerInit
  BY DEF Init, Call!EulerInit
<1>2. IInv /\ [Next]_vars => [Call!EulerNext]_(Call!eulerVars)
  BY StepsAreCallSteps
<1> QED
  BY <1>1, <1>2, Inductive, PTL DEF Spec
=============================================================================
