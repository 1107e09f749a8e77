-------------------------- MODULE TourOutputProofs --------------------------
(***************************************************************************)
(* Proofs about the printed table, for every tour.                         *)
(*                                                                         *)
(* The inductive invariant says what the rows are while they are added and *)
(* erased: each tells a part of the tour, each begins where the one before *)
(* it ends, and a row of changes begins and ends at the same station, so   *)
(* that it can be taken out of the middle.                                 *)
(*                                                                         *)
(* A second one, on top of it, says which rows there are: one for each run *)
(* of arcs with the same name, but for the changes that are erased.  It    *)
(* gives the table that TourTable states as a whole.                       *)
(***************************************************************************)
EXTENDS TourOutput, SequenceLemmas

(* The arguments are one of the tours. *)
Given == \E n \in Tours : lines = n.lines /\ tour = n.tour

(* What is in a column: heads, names and times. *)
Heads == {"Start", "Line", "Destination", "Time (m)"}
NamesOf(a) == {StationOfNode(a.from), a.name, StationOfNode(a.to)}
Names == UNION {NamesOf(a) : a \in ToSet(tour)}
Cell == (Heads \cup Names) \cup Int

ColumnsAreLevel ==
  /\ column \in [0..3 -> Seq(Cell)]
  /\ Rows \in Nat \ {0}
  /\ \A c \in 0..3 : Len(column[c]) = Rows

(* A closed walk along arcs of the tour. *)
IsJourney(t) ==
  /\ t \in Seq(ToSet(tour)) \ {<<>>}
  /\ \A p \in 1..(Len(t) - 1) : t[p].to = t[p + 1].from
  /\ t[Len(t)].to = t[1].from

(* The row k tells the part of the tour from the arc p to the arc q. *)
Tells(k, p, q) ==
  /\ p <= q
  /\ \A r \in p..q : my_tour[r].name = column[1][k]
  /\ column[0][k] = StationOfNode(my_tour[p].from)
  /\ column[2][k] = StationOfNode(my_tour[q].to)
  /\ column[3][k] = Elapsed(my_tour)[q]

RowsAreTold ==
  \A k \in 2..Rows : \E p, q \in 1..(position - 1) :
    Tells(k, p, q) /\ (k = Rows => q = position - 1)

RowsAreJoined ==
  /\ Rows > 1 <=> position > 1
  /\ Rows > 1 =>
       /\ column[0][2] = StationOfNode(my_tour[1].from)
       /\ column[2][Rows] = StationOfNode(my_tour[position - 1].to)
       /\ column[3][Rows] = time
  /\ \A k \in 3..Rows : column[2][k - 1] = column[0][k]

ChangesStay == \A k \in 2..Rows : column[1][k] = CHANGE_NAME => column[0][k] = column[2][k]

RidesTakeTime == \A p \in DOMAIN tour : tour[p].dist > 0

TimesGrow ==
  /\ \A k \in 2..Rows : column[3][k] \in Int
  /\ RidesTakeTime => \A k \in 3..Rows : column[3][k - 1] < column[3][k]

WhileTold ==
  /\ IsJourney(my_tour)
  /\ start # NoStart => StationOfNode(my_tour[1].from) = start
  /\ Elapsed(my_tour)[Len(my_tour)] = Elapsed(tour)[Len(tour)]
  /\ position \in 1..(Len(my_tour) + 1)
  /\ phase # "rows" => position = Len(my_tour) + 1
  /\ time = Elapsed(my_tour)[position - 1]
  /\ RowsAreTold /\ RowsAreJoined /\ ChangesStay /\ TimesGrow

BeforeRows == position = 1 /\ time = 0 /\ Rows = 1 /\ it = 1

IInv ==
  /\ Given
  /\ phase \in Phases
  /\ ColumnsAreLevel
  /\ it \in 1..(Rows + 1) /\ i = it - 1
  /\ phase = "rows" => it = 1
  /\ IF phase \in {"rotating", "thrown"} THEN BeforeRows ELSE WhileTold

-----------------------------------------------------------------------------
(* The time that passes along a tour. *)

(* The partial sums exist: a function on the first arcs can be extended.   *)
LEMMA SumsExist ==
  ASSUME NEW t, NEW n \in Nat
  PROVE  \E sum : sum = [q \in 0..n |-> IF q = 0 THEN 0 ELSE sum[q - 1] + t[q].dist]
<1> DEFINE Exists(k) ==
      \E sum : sum = [q \in 0..k |-> IF q = 0 THEN 0 ELSE sum[q - 1] + t[q].dist]
           bad == {k \in Nat : ~Exists(k)}
<1> SUFFICES ASSUME bad # {} PROVE FALSE
  OBVIOUS
<1>1. bad \in SUBSET Nat
  OBVIOUS
<1> HIDE DEF bad
<1>2. PICK k \in bad : \A m \in bad : k <= m
  BY <1>1, LeastNumber
<1>3. k \in Nat /\ ~Exists(k)
  BY DEF bad
<1>4. CASE k = 0
  <2> DEFINE zero == [q \in 0..0 |-> 0]
  <2>1. zero = [q \in 0..0 |-> IF q = 0 THEN 0 ELSE zero[q - 1] + t[q].dist]
    OBVIOUS
  <2> QED
    BY <1>3, <1>4, <2>1
<1>5. CASE k # 0
  <2>1. k - 1 \in Nat /\ k - 1 \notin bad
    BY <1>2, <1>3, <1>5
  <2>2. Exists(k - 1)
    BY <2>1 DEF bad
  <2>3. PICK sum : sum = [q \in 0..(k - 1) |-> IF q = 0 THEN 0 ELSE sum[q - 1] + t[q].dist]
    BY <2>2
  <2>4. sum[0] = 0 /\ \A q \in 1..(k - 1) : sum[q] = sum[q - 1] + t[q].dist
    <3>1. 0 \in 0..(k - 1) /\ \A q \in 1..(k - 1) : q \in 0..(k - 1) /\ q # 0
      BY <2>1
    <3> QED
      BY <2>3, <3>1
  <2> DEFINE more == [q \in 0..k |-> IF q = k THEN sum[k - 1] + t[k].dist ELSE sum[q]]
  <2>5. ASSUME NEW q \in 0..k
        PROVE  more[q] = IF q = 0 THEN 0 ELSE more[q - 1] + t[q].dist
    <3>1. CASE q = 0
      BY <1>5, <2>4, <3>1
    <3>2. CASE q = k
      <4>1. k - 1 \in 0..k /\ k - 1 # k
        BY <1>3, <2>1
      <4> QED
        BY <1>5, <3>2, <4>1
    <3>3. CASE q # 0 /\ q # k
      <4>1. q \in 1..(k - 1) /\ q - 1 \in 0..k /\ q - 1 # k
        BY <1>3, <3>3
      <4> QED
        BY <2>4, <3>3, <4>1
    <3> QED
      BY <3>1, <3>2, <3>3
  <2>6. more = [q \in 0..k |-> IF q = 0 THEN 0 ELSE more[q - 1] + t[q].dist]
    BY <2>5
  <2> QED
    BY <1>3, <2>6
<1> QED
  BY <1>4, <1>5

LEMMA ElapsedFacts ==
  ASSUME NEW S, NEW t \in Seq(S), \A p \in 1..Len(t) : t[p].dist \in Int
  PROVE  /\ Elapsed(t)[0] = 0
         /\ \A q \in 1..Len(t) : Elapsed(t)[q] = Elapsed(t)[q - 1] + t[q].dist
         /\ \A q \in 0..Len(t) : Elapsed(t)[q] \in Int
<1> DEFINE n == Len(t)
           e == Elapsed(t)
<1>1. n \in Nat
  OBVIOUS
<1>2. e = [q \in 0..n |-> IF q = 0 THEN 0 ELSE e[q - 1] + t[q].dist]
  <2>1. \E sum : sum = [q \in 0..n |-> IF q = 0 THEN 0 ELSE sum[q - 1] + t[q].dist]
    BY <1>1, SumsExist
  <2>2. e = CHOOSE sum : sum = [q \in 0..n |-> IF q = 0 THEN 0 ELSE sum[q - 1] + t[q].dist]
    BY DEF Elapsed
  <2> HIDE DEF e, n
  <2> QED
    BY <2>1, <2>2
<1> HIDE DEF e, n
<1>3. e[0] = 0 /\ \A q \in 1..n : e[q] = e[q - 1] + t[q].dist
  <2>1. 0 \in 0..n /\ \A q \in 1..n : q \in 0..n /\ q # 0
    BY <1>1
  <2> QED
    BY <1>2, <2>1
<1>4. \A q \in 0..n : e[q] \in Int
  <2> DEFINE bad == {q \in Nat : q <= n /\ e[q] \notin Int}
  <2> SUFFICES ASSUME bad # {} PROVE FALSE
    BY <1>1
  <2>1. bad \in SUBSET Nat
    OBVIOUS
  <2> HIDE DEF bad
  <2>2. PICK k \in bad : \A m \in bad : k <= m
    BY <2>1, LeastNumber
  <2>3. k \in Nat /\ k <= n /\ e[k] \notin Int
    BY DEF bad
  <2>4. k \in 1..n /\ k - 1 \in Nat /\ k - 1 \notin bad
    BY <1>1, <1>3, <2>2, <2>3
  <2>5. e[k - 1] \in Int
    BY <1>1, <2>3, <2>4 DEF bad
  <2> QED
    BY <1>3, <2>3, <2>4, <2>5 DEF n
<1> QED
  BY <1>3, <1>4 DEF e, n

(* Two functions that grow alike step by step grow alike altogether.       *)
LEMMA SameGrowth ==
  ASSUME NEW f, NEW g, NEW m \in Nat,
         \A k \in 0..m : f[k] \in Int /\ g[k] \in Int,
         \A k \in 1..m : f[k] - f[k - 1] = g[k] - g[k - 1]
  PROVE  f[m] - f[0] = g[m] - g[0]
<1> DEFINE bad == {k \in Nat : k <= m /\ f[k] - f[0] # g[k] - g[0]}
<1> SUFFICES ASSUME bad # {} PROVE FALSE
  OBVIOUS
<1>1. bad \in SUBSET Nat
  OBVIOUS
<1> HIDE DEF bad
<1>2. PICK k \in bad : \A j \in bad : k <= j
  BY <1>1, LeastNumber
<1>3. k \in Nat /\ k <= m /\ f[k] - f[0] # g[k] - g[0]
  BY DEF bad
<1>4. f[0] \in Int /\ g[0] \in Int /\ f[k] \in Int /\ g[k] \in Int
  BY <1>3
<1>5. k # 0
  BY <1>3, <1>4
<1>6. k \in 1..m /\ k - 1 \in Nat /\ k - 1 \in 0..m /\ k - 1 \notin bad
  BY <1>2, <1>3, <1>5
<1>7. f[k - 1] - f[0] = g[k - 1] - g[0]
  BY <1>3, <1>6 DEF bad
<1>8. f[k - 1] \in Int /\ g[k - 1] \in Int /\ f[k] - f[k - 1] = g[k] - g[k - 1]
  BY <1>6
<1> QED
  BY <1>3, <1>4, <1>7, <1>8

(* A tour that begins at its arc p. *)
LEMMA RotatedFacts ==
  ASSUME NEW S, NEW t \in Seq(S), NEW p \in 1..Len(t), NEW r, r = RotatedTo(t, p)
  PROVE  /\ r \in Seq(S) /\ Len(r) = Len(t)
         /\ \A j \in 1..(Len(t) - p + 1) : r[j] = t[p - 1 + j]
         /\ \A j \in 1..(p - 1) : r[Len(t) - p + 1 + j] = t[j]
<1> DEFINE f == SubSeq(t, p, Len(t))
           g == SubSeq(t, 1, p - 1)
<1>1. r = f \o g
  BY DEF RotatedTo
<1>2. Len(t) \in Nat /\ p \in Nat /\ p >= 1 /\ p <= Len(t)
  OBVIOUS
<1>3. /\ f \in Seq(S) /\ Len(f) = Len(t) - p + 1
      /\ \A j \in 1..(Len(t) - p + 1) : f[j] = t[p + j - 1]
  BY SubSeqProperties
<1>4. g \in Seq(S) /\ Len(g) = p - 1 /\ \A j \in 1..(p - 1) : g[j] = t[j]
  BY SubSeqProperties
<1> HIDE DEF f, g
<1>5. /\ r \in Seq(S) /\ Len(r) = Len(f) + Len(g)
      /\ \A j \in 1..Len(f) : r[j] = f[j]
      /\ \A j \in 1..Len(g) : r[j + Len(f)] = g[j]
  <2>1. f \in Seq(S) /\ g \in Seq(S)
    BY <1>3, <1>4
  <2> QED
    BY ONLY <1>1, <2>1, ConcatFacts
<1>6. ASSUME NEW j \in 1..(Len(t) - p + 1) PROVE r[j] = t[p - 1 + j]
  <2>1. p + j - 1 = p - 1 + j
    BY <1>2
  <2> QED
    BY <1>3, <1>5, <2>1
<1>7. ASSUME NEW j \in 1..(p - 1) PROVE r[Len(t) - p + 1 + j] = t[j]
  <2>1. j + Len(f) = Len(t) - p + 1 + j
    BY <1>2, <1>3
  <2> QED
    BY <1>4, <1>5, <2>1
<1> QED
  BY <1>2, <1>3, <1>4, <1>5, <1>6, <1>7

(* It takes the same time as the tour. *)
LEMMA RotatedTime ==
  ASSUME NEW S, NEW t \in Seq(S), \A a \in S : a.dist \in Int,
         NEW p \in 1..Len(t), NEW r, r = RotatedTo(t, p)
  PROVE  Elapsed(r)[Len(r)] = Elapsed(t)[Len(t)]
<1> DEFINE n == Len(t)
           m == n - p + 1
           e == Elapsed(t)
           h == Elapsed(r)
<1>1. n \in Nat /\ p \in 1..n /\ m \in 1..n /\ p - 1 \in Nat /\ m + (p - 1) = n
  OBVIOUS
<1>2. /\ r \in Seq(S) /\ Len(r) = n
      /\ \A j \in 1..m : r[j] = t[p - 1 + j]
      /\ \A j \in 1..(p - 1) : r[m + j] = t[j]
  BY RotatedFacts
<1>3. /\ e[0] = 0
      /\ \A q \in 1..n : e[q] = e[q - 1] + t[q].dist
      /\ \A q \in 0..n : e[q] \in Int
  <2>1. \A q \in 1..Len(t) : t[q].dist \in Int
    OBVIOUS
  <2> QED
    BY <2>1, ElapsedFacts
<1>4. /\ h[0] = 0
      /\ \A q \in 1..n : h[q] = h[q - 1] + r[q].dist
      /\ \A q \in 0..n : h[q] \in Int
  <2>1. \A q \in 1..Len(r) : r[q].dist \in Int
    BY <1>2
  <2> QED
    BY <1>2, <2>1, ElapsedFacts
<1>5. \A q \in 1..n : t[q].dist \in Int /\ r[q].dist \in Int
  BY <1>2
<1> HIDE DEF n, m, e, h
<1>6. h[m] - h[0] = e[n] - e[p - 1]
  <2> DEFINE f == [k \in 0..m |-> h[k]]
             g == [k \in 0..m |-> e[p - 1 + k]]
  <2>1. \A k \in 0..m : f[k] \in Int /\ g[k] \in Int
    BY <1>1, <1>3, <1>4
  <2>2. ASSUME NEW k \in 1..m PROVE f[k] - f[k - 1] = g[k] - g[k - 1]
    <3>1. k \in 1..n /\ p - 1 + k \in 1..n /\ k - 1 \in 0..m /\ k \in 0..m
          /\ (p - 1 + k) - 1 = p - 1 + (k - 1) /\ k - 1 \in 0..n /\ (p - 1 + k) - 1 \in 0..n
      BY <1>1
    <3>2. h[k] = h[k - 1] + r[k].dist /\ r[k] = t[p - 1 + k]
      BY <1>2, <1>4, <3>1
    <3>3. e[p - 1 + k] = e[(p - 1 + k) - 1] + t[p - 1 + k].dist
      BY <1>3, <3>1
    <3>4. /\ f[k] = h[k] /\ f[k - 1] = h[k - 1]
          /\ g[k] = e[p - 1 + k] /\ g[k - 1] = e[(p - 1 + k) - 1]
      BY <3>1
    <3>5. /\ h[k] \in Int /\ h[k - 1] \in Int /\ t[p - 1 + k].dist \in Int
          /\ e[p - 1 + k] \in Int /\ e[(p - 1 + k) - 1] \in Int
      <4>1. k \in 0..n /\ p - 1 + k \in 0..n
        BY <1>1, <3>1
      <4> QED
        BY <1>3, <1>4, <1>5, <3>1, <4>1
    <3> DEFINE q == p - 1 + k
    <3>6. h[k] = h[k - 1] + t[q].dist /\ e[q] = e[q - 1] + t[q].dist
      BY <3>2, <3>3
    <3>7. /\ h[k] \in Int /\ h[k - 1] \in Int /\ t[q].dist \in Int
          /\ e[q] \in Int /\ e[q - 1] \in Int
      BY <3>5
    <3>8. f[k] = h[k] /\ f[k - 1] = h[k - 1] /\ g[k] = e[q] /\ g[k - 1] = e[q - 1]
      BY <3>4
    <3> HIDE DEF f, g, q
    <3>9. h[k] - h[k - 1] = e[q] - e[q - 1]
      BY <3>6, <3>7
    <3> QED
      BY <3>8, <3>9
  <2>3. m \in Nat /\ 0 \in 0..m /\ m \in 0..m /\ p - 1 + m = n /\ p - 1 + 0 = p - 1
    BY <1>1
  <2>4. f[0] = h[0] /\ f[m] = h[m] /\ g[0] = e[p - 1] /\ g[m] = e[n]
    BY <2>3
  <2> HIDE DEF f, g
  <2>5. f[m] - f[0] = g[m] - g[0]
    BY <2>1, <2>2, <2>3, SameGrowth
  <2> QED
    BY <2>4, <2>5
<1>7. h[n] - h[m] = e[p - 1] - e[0]
  <2> DEFINE w == p - 1
             f == [k \in 0..w |-> h[m + k]]
             g == [k \in 0..w |-> e[k]]
  <2>1. \A k \in 0..w : f[k] \in Int /\ g[k] \in Int
    BY <1>1, <1>3, <1>4
  <2>2. ASSUME NEW k \in 1..w PROVE f[k] - f[k - 1] = g[k] - g[k - 1]
    <3>1. k \in 1..n /\ m + k \in 1..n /\ k - 1 \in 0..w /\ k \in 0..w
          /\ (m + k) - 1 = m + (k - 1) /\ k - 1 \in 0..n /\ (m + k) - 1 \in 0..n
      BY <1>1
    <3>2. e[k] = e[k - 1] + t[k].dist /\ r[m + k] = t[k]
      BY <1>2, <1>3, <3>1
    <3>3. h[m + k] = h[(m + k) - 1] + r[m + k].dist
      BY <1>4, <3>1
    <3>4. /\ g[k] = e[k] /\ g[k - 1] = e[k - 1]
          /\ f[k] = h[m + k] /\ f[k - 1] = h[(m + k) - 1]
      BY <3>1
    <3>5. /\ e[k] \in Int /\ e[k - 1] \in Int /\ t[k].dist \in Int
          /\ h[m + k] \in Int /\ h[(m + k) - 1] \in Int
      <4>1. k \in 0..n /\ m + k \in 0..n
        BY <1>1, <3>1
      <4> QED
        BY <1>3, <1>4, <1>5, <3>1, <4>1
    <3>6. h[m + k] - h[(m + k) - 1] = e[k] - e[k - 1]
      BY <3>2, <3>3, <3>5
    <3> HIDE DEF f, g
    <3> QED
      BY <3>4, <3>6
  <2>3. w \in Nat /\ 0 \in 0..w /\ w \in 0..w /\ m + w = n /\ m + 0 = m
    BY <1>1
  <2>4. f[0] = h[m] /\ f[w] = h[n] /\ g[0] = e[0] /\ g[w] = e[w]
    BY <2>3
  <2> HIDE DEF f, g
  <2>5. f[w] - f[0] = g[w] - g[0]
    <3> HIDE DEF w
    <3> QED
      BY <2>1, <2>2, <2>3, SameGrowth
  <2> QED
    BY <2>4, <2>5
<1>8. h[n] = e[n]
  <2>1. /\ h[n] \in Int /\ h[m] \in Int /\ e[n] \in Int /\ e[p - 1] \in Int
    BY <1>1, <1>3, <1>4
  <2> QED
    BY <1>3, <1>4, <1>6, <1>7, <2>1
<1> QED
  BY <1>2, <1>8 DEF n, e, h

-----------------------------------------------------------------------------
(* The tour that is told. *)

LEMMA GivenFacts ==
  ASSUME Given
  PROVE  /\ IsJourney(tour)
         /\ \A a \in ToSet(tour) :
              /\ a.dist \in Int
              /\ a.connection <=> a.name = CHANGE_NAME
              /\ a.name = CHANGE_NAME => StationOfNode(a.from) = StationOfNode(a.to)
<1>1. PICK n \in Tours : lines = n.lines /\ tour = n.tour
  BY DEF Given
<1>2. /\ tour \in Seq(ToSet(tour)) \ {<<>>}
      /\ \A p \in 1..(Len(tour) - 1) : tour[p].to = tour[p + 1].from
      /\ tour[Len(tour)].to = tour[1].from
      /\ \A a \in ToSet(tour) : a.dist \in Int /\ (a.connection <=> a.name = CHANGE_NAME)
      /\ \A a \in ToSet(tour) : a.name = CHANGE_NAME =>
           lines[a.from[1]].stations[a.from[3]] = lines[a.to[1]].stations[a.to[3]]
  BY <1>1, ToursAssumption
<1> QED
  BY <1>2 DEF IsJourney, StationOfNode, StationAt

LEMMA RotatedJourney ==
  ASSUME IsJourney(tour), NEW p \in 1..Len(tour), NEW r, r = RotatedTo(tour, p)
  PROVE  IsJourney(r) /\ r[1] = tour[p]
<1> DEFINE n == Len(tour)
           m == n - p + 1
<1>1. /\ tour \in Seq(ToSet(tour)) /\ n \in Nat /\ p \in 1..n
      /\ \A j \in 1..(n - 1) : tour[j].to = tour[j + 1].from
      /\ tour[n].to = tour[1].from
  BY DEF IsJourney
<1>2. m \in 1..n /\ p - 1 \in Nat /\ m + (p - 1) = n
  BY <1>1
<1>3. /\ r \in Seq(ToSet(tour)) /\ Len(r) = n
      /\ \A j \in 1..m : r[j] = tour[p - 1 + j]
      /\ \A j \in 1..(p - 1) : r[m + j] = tour[j]
  BY <1>1, RotatedFacts
<1> HIDE DEF n, m
<1>4. r[1] = tour[p]
  <2>1. 1 \in 1..m /\ p - 1 + 1 = p
    BY <1>1, <1>2
  <2> QED
    BY <1>3, <2>1
<1>5. ASSUME NEW j \in 1..(n - 1) PROVE r[j].to = r[j + 1].from
  <2>1. CASE j < m
    <3>1. /\ j \in 1..m /\ j + 1 \in 1..m /\ p - 1 + j \in 1..(n - 1)
          /\ p - 1 + (j + 1) = (p - 1 + j) + 1
      BY <1>1, <1>2, <2>1
    <3> QED
      BY <1>1, <1>3, <3>1
  <2>2. CASE j = m
    <3>1. m \in 1..m /\ p - 1 + m = n /\ 1 \in 1..(p - 1)
      BY <1>1, <1>2, <2>2
    <3> QED
      BY <1>1, <1>3, <2>2, <3>1
  <2>3. CASE j > m
    <3> DEFINE k == j - m
    <3>1. /\ k \in 1..(p - 1) /\ k + 1 \in 1..(p - 1) /\ m + k = j
          /\ m + (k + 1) = j + 1 /\ k \in 1..(n - 1)
      BY <1>1, <1>2, <2>3
    <3> HIDE DEF k
    <3> QED
      BY <1>1, <1>3, <3>1
  <2> QED
    BY <1>1, <1>2, <2>1, <2>2, <2>3
<1>6. r[n].to = r[1].from
  <2>1. CASE p = 1
    <3>1. n \in 1..m /\ p - 1 + n = n
      BY <1>1, <1>2, <2>1
    <3> QED
      BY <1>1, <1>3, <1>4, <2>1, <3>1
  <2>2. CASE p # 1
    <3>1. p - 1 \in 1..(p - 1) /\ m + (p - 1) = n /\ p - 1 \in 1..(n - 1) /\ (p - 1) + 1 = p
      BY <1>1, <1>2, <2>2
    <3> QED
      BY <1>1, <1>3, <1>4, <3>1
  <2> QED
    BY <2>1, <2>2
<1>7. r # <<>>
  BY <1>1, <1>3
<1> QED
  BY <1>3, <1>4, <1>5, <1>6, <1>7 DEF IsJourney

LEMMA JourneyFacts ==
  ASSUME Given, NEW t, IsJourney(t)
  PROVE  /\ t \in Seq(ToSet(tour)) /\ Len(t) \in Nat \ {0}
         /\ \A q \in 1..Len(t) :
              /\ t[q] \in ToSet(tour) /\ t[q].dist \in Int
              /\ Elapsed(t)[q] = Elapsed(t)[q - 1] + t[q].dist
         /\ \A q \in 0..Len(t) : Elapsed(t)[q] \in Int
         /\ Elapsed(t)[0] = 0
<1>1. t \in Seq(ToSet(tour)) /\ t # <<>>
  BY DEF IsJourney
<1>2. \A q \in 1..Len(t) : t[q] \in ToSet(tour) /\ t[q].dist \in Int
  BY <1>1, GivenFacts
<1> QED
  BY <1>1, <1>2, ElapsedFacts

-----------------------------------------------------------------------------
(* The columns. *)

LEMMA ColumnFacts ==
  ASSUME ColumnsAreLevel
  PROVE  \A c \in 0..3 : /\ column[c] \in Seq(Cell) /\ Len(column[c]) = Rows
                         /\ DOMAIN column = 0..3
BY DEF ColumnsAreLevel

LEMMA CellsStay ==
  ASSUME UNCHANGED <<lines, tour>>
  PROVE  Cell' = Cell /\ \A n : StationOfNode(n)' = StationOfNode(n)
BY DEF Cell, Heads, Names, NamesOf, StationOfNode, StationAt

LEMMA ArcCells ==
  ASSUME NEW a \in ToSet(tour)
  PROVE  /\ StationOfNode(a.from) \in Cell /\ a.name \in Cell
         /\ StationOfNode(a.to) \in Cell
<1>1. NamesOf(a) \subseteq Names
  BY DEF Names
<1>2. NamesOf(a) \subseteq Cell
  BY <1>1 DEF Cell
<1> QED
  BY <1>2 DEF NamesOf

LEMMA TimeCells == \A t \in Int : t \in Cell
BY DEF Cell

(* A new row. *)
Added(t) ==
  /\ Rows' = Rows + 1
  /\ \A c \in 0..3 : \A k \in 1..Rows : column'[c][k] = column[c][k]
  /\ column'[0][Rows + 1] = StationOfNode(Arc.from)
  /\ column'[1][Rows + 1] = Arc.name
  /\ column'[2][Rows + 1] = StationOfNode(Arc.to)
  /\ column'[3][Rows + 1] = t

LEMMA AddedFacts ==
  ASSUME ColumnsAreLevel, Arc \in ToSet(tour), NEW t \in Int,
         column' = AddedRow(t), UNCHANGED <<lines, tour>>
  PROVE  ColumnsAreLevel' /\ Added(t)
<1> DEFINE new == <<StationOfNode(Arc.from), Arc.name, StationOfNode(Arc.to), t>>
<1>1. /\ new[1] = StationOfNode(Arc.from) /\ new[2] = Arc.name
      /\ new[3] = StationOfNode(Arc.to) /\ new[4] = t
  OBVIOUS
<1>2. t \in Cell
  BY TimeCells
<1>3. \A c \in 0..3 : new[c + 1] \in Cell
  <2>1. new[1] \in Cell /\ new[2] \in Cell /\ new[3] \in Cell /\ new[4] \in Cell
    BY <1>1, <1>2, ArcCells
  <2>2. \A c \in 0..3 : c + 1 \in {1, 2, 3, 4}
    OBVIOUS
  <2> HIDE DEF new
  <2> QED
    BY <2>1, <2>2
<1>4. column' = [c \in 0..3 |-> Append(column[c], new[c + 1])]
  BY DEF AddedRow
<1> HIDE DEF new
<1>5. Rows \in Nat \ {0} /\ \A c \in 0..3 : column[c] \in Seq(Cell) /\ Len(column[c]) = Rows
  BY DEF ColumnsAreLevel
<1>6. ASSUME NEW c \in 0..3
      PROVE  /\ column'[c] \in Seq(Cell) /\ Len(column'[c]) = Rows + 1
             /\ \A k \in 1..Rows : column'[c][k] = column[c][k]
             /\ column'[c][Rows + 1] = new[c + 1]
  <2>1. column[c] \in Seq(Cell) /\ Len(column[c]) = Rows /\ new[c + 1] \in Cell
        /\ column'[c] = Append(column[c], new[c + 1])
    BY <1>3, <1>4, <1>5
  <2> QED
    BY ONLY <2>1, AppendFacts
<1>7. Rows' = Rows + 1
  BY <1>6 DEF Rows
<1>8. column' \in [0..3 -> Seq(Cell)]
  BY <1>4, <1>6
<1>9. ColumnsAreLevel'
  BY <1>5, <1>6, <1>7, <1>8, CellsStay DEF ColumnsAreLevel
<1>10. /\ column'[0][Rows + 1] = new[1] /\ column'[1][Rows + 1] = new[2]
       /\ column'[2][Rows + 1] = new[3] /\ column'[3][Rows + 1] = new[4]
  BY <1>6
<1> QED
  BY <1>1, <1>6, <1>7, <1>9, <1>10 DEF Added

(* The last row goes on. *)
Extended(t) ==
  /\ Rows' = Rows
  /\ \A c \in 0..3 : \A k \in 1..(Rows - 1) : column'[c][k] = column[c][k]
  /\ column'[0][Rows] = column[0][Rows]
  /\ column'[1][Rows] = column[1][Rows]
  /\ column'[2][Rows] = StationOfNode(Arc.to)
  /\ column'[3][Rows] = t

(* The sequence t is s with e for its last element. *)
LEMMA NewLast ==
  ASSUME NEW S, NEW s \in Seq(S), s # <<>>, NEW e \in S, NEW t, t = Append(Front(s), e)
  PROVE  t \in Seq(S) /\ Replaced(t, s, Len(s), e)
<1> DEFINE f == Front(s)
<1>1. f \in Seq(S) /\ Len(f) = Len(s) - 1 /\ \A k \in 1..(Len(s) - 1) : f[k] = s[k]
  BY FrontFacts
<1>2. Len(s) \in Nat
  OBVIOUS
<1>3. t = Append(f, e)
  OBVIOUS
<1> HIDE DEF f
<1>4. /\ t \in Seq(S) /\ Len(t) = Len(f) + 1 /\ \A k \in 1..Len(f) : t[k] = f[k]
      /\ t[Len(f) + 1] = e
  BY <1>1, <1>3, AppendFacts
<1> QED
  BY <1>1, <1>2, <1>4 DEF Replaced

LEMMA ExtendedFacts ==
  ASSUME ColumnsAreLevel, Rows > 1, Arc \in ToSet(tour), NEW t \in Int,
         column' = ExtendedRow(t), UNCHANGED <<lines, tour>>
  PROVE  ColumnsAreLevel' /\ Extended(t)
<1>1. /\ column'[0] = column[0] /\ column'[1] = column[1]
      /\ column'[2] = Append(Front(column[2]), StationOfNode(Arc.to))
      /\ column'[3] = Append(Front(column[3]), t)
      /\ DOMAIN column' = 0..3
  BY DEF ExtendedRow, ColumnsAreLevel
<1>2. Rows \in Nat \ {0} /\ \A c \in 0..3 : column[c] \in Seq(Cell) /\ Len(column[c]) = Rows
  BY DEF ColumnsAreLevel
<1>3. t \in Cell /\ StationOfNode(Arc.to) \in Cell
  BY ArcCells, TimeCells
<1>4. /\ column'[2] \in Seq(Cell) /\ Len(column'[2]) = Rows
      /\ \A k \in 1..(Rows - 1) : column'[2][k] = column[2][k]
      /\ column'[2][Rows] = StationOfNode(Arc.to)
  <2>1. column[2] \in Seq(Cell) /\ column[2] # <<>> /\ Len(column[2]) = Rows
    BY <1>2
  <2>2. StationOfNode(Arc.to) \in Cell /\ column'[2] = Append(Front(column[2]), StationOfNode(Arc.to))
    BY <1>1, <1>3
  <2>3. column'[2] \in Seq(Cell) /\ Replaced(column'[2], column[2], Rows, StationOfNode(Arc.to))
    BY ONLY <2>1, <2>2, NewLast
  <2> QED
    BY <1>2, <2>1, <2>3 DEF Replaced
<1>5. /\ column'[3] \in Seq(Cell) /\ Len(column'[3]) = Rows
      /\ \A k \in 1..(Rows - 1) : column'[3][k] = column[3][k]
      /\ column'[3][Rows] = t
  <2>1. column[3] \in Seq(Cell) /\ column[3] # <<>> /\ Len(column[3]) = Rows
    BY <1>2
  <2>2. t \in Cell /\ column'[3] = Append(Front(column[3]), t)
    BY <1>1, <1>3
  <2>3. column'[3] \in Seq(Cell) /\ Replaced(column'[3], column[3], Rows, t)
    BY ONLY <2>1, <2>2, NewLast
  <2> QED
    BY <1>2, <2>1, <2>3 DEF Replaced
<1>6. \A c \in 0..3 : c \in {0, 1, 2, 3}
  OBVIOUS
<1>7. \A c \in 0..3 : /\ column'[c] \in Seq(Cell) /\ Len(column'[c]) = Rows
                      /\ \A k \in 1..(Rows - 1) : column'[c][k] = column[c][k]
  BY <1>1, <1>2, <1>4, <1>5, <1>6
<1>8. Rows' = Rows
  BY <1>7 DEF Rows
<1>9. column' \in [0..3 -> Seq(Cell)]
  <2>1. column' = [c \in 0..3 |-> column'[c]]
    BY <1>1 DEF ExtendedRow
  <2> QED
    BY <1>7, <2>1
<1>10. ColumnsAreLevel'
  BY <1>2, <1>7, <1>8, <1>9, CellsStay DEF ColumnsAreLevel
<1> QED
  BY <1>1, <1>4, <1>5, <1>7, <1>8, <1>10 DEF Extended

(* The row at the iterator goes. *)
RowErased ==
  /\ Rows' = Rows - 1
  /\ \A c \in 0..3 : \A k \in 1..(it - 1) : column'[c][k] = column[c][k]
  /\ \A c \in 0..3 : \A k \in it..(Rows - 1) : column'[c][k] = column[c][k + 1]

LEMMA ErasedFacts ==
  ASSUME ColumnsAreLevel, Rows > 1, it \in 1..Rows, i = it - 1,
         column' = Erased(i), UNCHANGED <<lines, tour>>
  PROVE  ColumnsAreLevel' /\ RowErased
<1>1. column' = [c \in 0..3 |-> RemoveAt(column[c], it)]
  <2>1. i + 1 = it
    OBVIOUS
  <2> QED
    BY <2>1 DEF Erased
<1>2. Rows \in Nat \ {0} /\ \A c \in 0..3 : column[c] \in Seq(Cell) /\ Len(column[c]) = Rows
  BY DEF ColumnsAreLevel
<1>3. ASSUME NEW c \in 0..3
      PROVE  column'[c] \in Seq(Cell) /\ Removed(column'[c], column[c], it)
  <2>1. column[c] \in Seq(Cell) /\ it \in 1..Len(column[c])
        /\ column'[c] = RemoveAt(column[c], it)
    BY <1>1, <1>2
  <2> QED
    BY ONLY <2>1, RemoveFacts
<1>4. \A c \in 0..3 : /\ column'[c] \in Seq(Cell) /\ Len(column'[c]) = Rows - 1
                      /\ \A k \in 1..(it - 1) : column'[c][k] = column[c][k]
                      /\ \A k \in it..(Rows - 1) : column'[c][k] = column[c][k + 1]
  BY <1>2, <1>3 DEF Removed
<1>5. Rows' = Rows - 1
  BY <1>4 DEF Rows
<1>6. column' \in [0..3 -> Seq(Cell)]
  BY <1>1, <1>4
<1>7. ColumnsAreLevel'
  BY <1>2, <1>4, <1>5, <1>6, CellsStay DEF ColumnsAreLevel
<1> QED
  BY <1>4, <1>5, <1>7 DEF RowErased

-----------------------------------------------------------------------------
(* The invariant. *)

LEMMA InitIInv == Init => IInv
<1> SUFFICES ASSUME Init PROVE IInv
  OBVIOUS
<1> DEFINE heads == <<<<"Start">>, <<"Line">>, <<"Destination">>, <<"Time (m)">>>>
<1>1. /\ Given /\ phase = "rotating" /\ position = 1 /\ time = 0 /\ it = 1 /\ i = 0
      /\ column = [c \in 0..3 |-> heads[c + 1]]
  BY DEF Init, Given
<1>2. heads[1] = <<"Start">> /\ heads[2] = <<"Line">> /\ heads[3] = <<"Destination">>
      /\ heads[4] = <<"Time (m)">>
  OBVIOUS
<1>3. \A c \in 0..3 : \E x \in Heads : heads[c + 1] = <<x>>
  <2>1. \A c \in 0..3 : c + 1 \in {1, 2, 3, 4}
    OBVIOUS
  <2> HIDE DEF heads
  <2> QED
    BY <1>2, <2>1 DEF Heads
<1> HIDE DEF heads
<1>4. Heads \subseteq Cell
  BY DEF Cell
<1>5. ASSUME NEW c \in 0..3 PROVE column[c] \in Seq(Cell) /\ Len(column[c]) = 1
  <2>1. column[c] = heads[c + 1]
    BY <1>1
  <2>2. PICK x \in Heads : heads[c + 1] = <<x>>
    BY <1>3
  <2>3. x \in Cell
    BY <1>4
  <2>4. <<x>> \in Seq(Cell) /\ Len(<<x>>) = 1
    BY ONLY <2>3
  <2> QED
    BY <2>1, <2>2, <2>4
<1>6. Rows = 1
  BY <1>5 DEF Rows
<1>7. ColumnsAreLevel
  BY <1>1, <1>5, <1>6 DEF ColumnsAreLevel
<1> QED
  BY <1>1, <1>6, <1>7 DEF IInv, Phases, BeforeRows

(* What a step leaves alone. *)
LEMMA GivenStays ==
  ASSUME Given, UNCHANGED <<lines, tour>>
  PROVE  Given'
BY DEF Given

LEMMA JourneyStays ==
  ASSUME UNCHANGED <<lines, tour>>, NEW t, IsJourney(t)
  PROVE  IsJourney(t)'
BY DEF IsJourney

(* The tour has been put in order, and no row has been told. *)
LEMMA FirstRowKeeps ==
  ASSUME IInv, phase = "rotating", phase' = "rows",
         IsJourney(my_tour'),
         start # NoStart => StationOfNode(my_tour'[1].from) = start,
         Elapsed(my_tour')[Len(my_tour')] = Elapsed(tour)[Len(tour)],
         UNCHANGED <<arguments, position, time, column, it, i, changes>>
  PROVE  IInv'
<1>1. /\ Given /\ ColumnsAreLevel /\ BeforeRows /\ i = it - 1
      /\ it \in 1..(Rows + 1)
  BY DEF IInv
<1>2. /\ lines' = lines /\ tour' = tour /\ start' = start
      /\ position' = position /\ time' = time /\ column' = column /\ it' = it /\ i' = i
  BY DEF arguments
<1>3. Given' /\ IsJourney(my_tour)'
  <2>1. Given'
    BY <1>1, <1>2, GivenStays
  <2>2. IsJourney(my_tour)'
    BY <1>2 DEF IsJourney
  <2> QED
    BY <2>1, <2>2
<1>4. Rows' = Rows /\ Rows = 1 /\ ColumnsAreLevel' /\ BeforeRows'
  BY <1>1, <1>2, CellsStay DEF Rows, ColumnsAreLevel, BeforeRows
<1>5. Len(my_tour') \in Nat \ {0} /\ Elapsed(my_tour')[0] = 0
  BY <1>1, JourneyFacts
<1>6. WhileTold'
  <2>1. position' = 1 /\ time' = 0 /\ Rows' = 1
    BY <1>4 DEF BeforeRows
  <2>2. \A k : k \notin 2..Rows' /\ k \notin 3..Rows'
    BY <2>1
  <2>3. RowsAreTold' /\ ChangesStay' /\ TimesGrow'
    BY <2>2 DEF RowsAreTold, ChangesStay, TimesGrow
  <2>4. RowsAreJoined'
    BY <2>1, <2>2 DEF RowsAreJoined
  <2>5. start' # NoStart => StationOfNode(my_tour[1].from)' = start'
    BY <1>2 DEF StationOfNode, StationAt
  <2>6. (Elapsed(my_tour)[Len(my_tour)])' = (Elapsed(tour)[Len(tour)])'
    BY <1>2
  <2>7. 1 \in 1..(Len(my_tour') + 1) /\ 1 - 1 = 0
    BY <1>5
  <2> QED
    BY <1>3, <1>5, <2>1, <2>3, <2>4, <2>5, <2>6, <2>7 DEF WhileTold
<1> QED
  BY <1>1, <1>2, <1>3, <1>4, <1>6 DEF IInv, Phases, BeforeRows

(* A nonempty set of positions has a last one. *)
LEMMA LastPosition ==
  ASSUME NEW n \in Nat, NEW T \in SUBSET (1..n), T # {}
  PROVE  \E p \in T : \A q \in T : q <= p
<1> DEFINE U == {n - q : q \in T}
<1>1. U \in SUBSET Nat /\ U # {}
  <2>1. PICK q \in T : TRUE
    OBVIOUS
  <2>2. n - q \in U
    OBVIOUS
  <2> QED
    BY <2>2
<1> HIDE DEF U
<1>2. PICK m \in U : \A k \in U : m <= k
  BY <1>1, LeastNumber
<1>3. PICK p \in T : m = n - p
  BY DEF U
<1>4. ASSUME NEW q \in T PROVE q <= p
  <2>1. n - q \in U
    BY DEF U
  <2>2. n - p <= n - q
    BY <1>2, <1>3, <2>1
  <2> QED
    BY <2>2
<1> QED
  BY <1>4

LEMMA RotateKeeps ==
  ASSUME IInv, Rotate
  PROVE  IInv'
<1>1. /\ phase = "rotating" /\ start # NoStart
      /\ UNCHANGED <<arguments, position, time, column, it, i, changes>>
  BY DEF Rotate
<1> DEFINE leaving == {p \in DOMAIN tour : Leaves(tour, p, start)}
<1>2. CASE leaving = {} /\ phase' = "thrown" /\ UNCHANGED my_tour
  <2>1. /\ Given /\ ColumnsAreLevel /\ BeforeRows /\ i = it - 1 /\ it \in 1..(Rows + 1)
    BY <1>1 DEF IInv
  <2>2. /\ lines' = lines /\ tour' = tour /\ position' = position /\ time' = time
        /\ column' = column /\ it' = it /\ i' = i
    BY <1>1 DEF arguments
  <2>3. Given' /\ Rows' = Rows /\ ColumnsAreLevel' /\ BeforeRows'
    BY <2>1, <2>2, GivenStays, CellsStay DEF Rows, ColumnsAreLevel, BeforeRows
  <2> QED
    BY <1>2, <2>1, <2>2, <2>3 DEF IInv, Phases
<1>3. ASSUME leaving # {}, phase' = "rows",
             my_tour' = RotatedTo(tour, CHOOSE p \in leaving : \A q \in leaving : q <= p)
      PROVE  IInv'
  <2>1. Given /\ IsJourney(tour) /\ \A a \in ToSet(tour) : a.dist \in Int
    BY GivenFacts DEF IInv
  <2>2. Len(tour) \in Nat /\ DOMAIN tour = 1..Len(tour) /\ tour \in Seq(ToSet(tour))
    BY <2>1 DEF IsJourney
  <2>3. \E p \in leaving : \A q \in leaving : q <= p
    <3>1. leaving \in SUBSET (1..Len(tour))
      BY <2>2
    <3> HIDE DEF leaving
    <3> QED
      BY <1>3, <2>2, <3>1, LastPosition
  <2>4. PICK p \in leaving : my_tour' = RotatedTo(tour, p)
    <3> HIDE DEF leaving
    <3> QED
      BY <1>3, <2>3
  <2>5. p \in 1..Len(tour) /\ StationOfNode(tour[p].from) = start
    BY <2>2 DEF Leaves
  <2>6. IsJourney(my_tour') /\ my_tour'[1] = tour[p]
    BY <2>1, <2>4, <2>5, RotatedJourney
  <2>7. Elapsed(my_tour')[Len(my_tour')] = Elapsed(tour)[Len(tour)]
    BY <2>1, <2>2, <2>4, <2>5, RotatedTime
  <2> HIDE DEF leaving
  <2> QED
    BY <1>1, <1>3, <2>5, <2>6, <2>7, FirstRowKeeps
<1> QED
  BY <1>2, <1>3 DEF Rotate

LEMMA TakeAsItIsKeeps ==
  ASSUME IInv, TakeAsItIs
  PROVE  IInv'
<1>1. IsJourney(tour)
  BY GivenFacts DEF IInv
<1> QED
  BY <1>1, FirstRowKeeps DEF TakeAsItIs

(* What the invariant says while rows are added. *)
LEMMA ToldFacts ==
  ASSUME IInv, phase \in {"rows", "erasing", "printing", "printed"}
  PROVE  /\ Given /\ ColumnsAreLevel /\ Rows \in Nat \ {0} /\ WhileTold
         /\ it \in 1..(Rows + 1) /\ i = it - 1
         /\ Len(my_tour) \in Nat \ {0} /\ position \in Nat \ {0}
BY JourneyFacts DEF IInv, ColumnsAreLevel, WhileTold

(* The next arc is one of the tour, and it leaves where the last one ended. *)
LEMMA ArcFacts ==
  ASSUME IInv, phase = "rows", position \in DOMAIN my_tour
  PROVE  /\ position \in 1..Len(my_tour)
         /\ Arc \in ToSet(tour) /\ Arc.dist \in Int /\ time \in Int
         /\ RidesTakeTime => Arc.dist > 0
         /\ Arc.name = CHANGE_NAME => StationOfNode(Arc.from) = StationOfNode(Arc.to)
         /\ time + Arc.dist = Elapsed(my_tour)[position]
         /\ position # 1 => my_tour[position - 1].to = Arc.from
<1>1. Given /\ WhileTold /\ Len(my_tour) \in Nat
  BY ToldFacts
<1>2. IsJourney(my_tour) /\ time = Elapsed(my_tour)[position - 1]
  BY <1>1 DEF WhileTold
<1>3. position \in 1..Len(my_tour) /\ position - 1 \in 0..Len(my_tour)
  <2>1. DOMAIN my_tour = 1..Len(my_tour)
    BY <1>2 DEF IsJourney
  <2> QED
    BY <1>1, <2>1
<1>4. Arc \in ToSet(tour) /\ Arc.dist \in Int /\ time \in Int
      /\ time + Arc.dist = Elapsed(my_tour)[position]
  BY <1>1, <1>2, <1>3, JourneyFacts DEF Arc
<1>5. Arc.name = CHANGE_NAME => StationOfNode(Arc.from) = StationOfNode(Arc.to)
  BY <1>1, <1>4, GivenFacts
<1>6. RidesTakeTime => Arc.dist > 0
  <2>1. PICK p \in DOMAIN tour : Arc = tour[p]
    BY <1>4 DEF ToSet
  <2> QED
    BY <2>1 DEF RidesTakeTime
<1>7. position # 1 => my_tour[position - 1].to = Arc.from
  <2> SUFFICES ASSUME position # 1 PROVE my_tour[position - 1].to = Arc.from
    OBVIOUS
  <2>1. position - 1 \in 1..(Len(my_tour) - 1) /\ (position - 1) + 1 = position
    BY <1>1, <1>3
  <2> QED
    BY <1>2, <2>1 DEF IsJourney, Arc
<1> QED
  BY <1>3, <1>4, <1>5, <1>6, <1>7

(* The assertion in getTourOutput. *)
LEMMA LastRowEndsAtArc ==
  ASSUME IInv, phase = "rows", position \in DOMAIN my_tour, Rows > 1
  PROVE  column[2][Rows] = StationOfNode(Arc.from) /\ position # 1
<1>1. RowsAreJoined /\ position \in Nat
  BY ToldFacts DEF WhileTold
<1>2. position # 1 /\ column[2][Rows] = StationOfNode(my_tour[position - 1].to)
  BY <1>1 DEF RowsAreJoined
<1> QED
  BY <1>2, ArcFacts

(* A row that keeps its cells, perhaps in another place, tells the same.   *)
LEMMA TellsStays ==
  ASSUME UNCHANGED <<lines, my_tour>>, NEW k, NEW j,
         \A c \in 0..3 : column'[c][k] = column[c][j],
         NEW p, NEW q, Tells(j, p, q)
  PROVE  Tells(k, p, q)'
<1>1. /\ column'[0][k] = column[0][j] /\ column'[1][k] = column[1][j]
      /\ column'[2][k] = column[2][j] /\ column'[3][k] = column[3][j]
  OBVIOUS
<1> QED
  BY <1>1 DEF Tells, StationOfNode, StationAt

LEMMA TellsAfter ==
  ASSUME UNCHANGED <<lines, my_tour>>, NEW k, NEW p, NEW q, p <= q,
         \A r \in p..q : my_tour[r].name = column'[1][k],
         column'[0][k] = StationOfNode(my_tour[p].from),
         column'[2][k] = StationOfNode(my_tour[q].to),
         column'[3][k] = Elapsed(my_tour)[q]
  PROVE  Tells(k, p, q)'
BY DEF Tells, StationOfNode, StationAt

(* What TakeArc leaves alone. *)
LEMMA TakeArcFacts ==
  ASSUME IInv, TakeArc
  PROVE  /\ phase = "rows" /\ phase' = "rows" /\ position \in DOMAIN my_tour
         /\ position' = position + 1 /\ time' = time + Arc.dist /\ time' \in Int
         /\ lines' = lines /\ tour' = tour /\ start' = start /\ my_tour' = my_tour
         /\ it' = it /\ i' = i
         /\ \/ ~ExtendsRow /\ ColumnsAreLevel' /\ Added(time')
            \/ /\ compact /\ Rows > 1 /\ column[1][Rows] = Arc.name
               /\ ColumnsAreLevel' /\ Extended(time')
<1>1. /\ phase = "rows" /\ phase' = "rows" /\ position \in DOMAIN my_tour
      /\ position' = position + 1 /\ time' = time + Arc.dist
      /\ lines' = lines /\ tour' = tour /\ start' = start /\ my_tour' = my_tour
      /\ it' = it /\ i' = i
      /\ column' = IF ExtendsRow THEN ExtendedRow(time') ELSE AddedRow(time')
  BY DEF TakeArc, arguments
<1>2. Arc \in ToSet(tour) /\ time' \in Int
  BY <1>1, ArcFacts
<1>3. ColumnsAreLevel
  BY DEF IInv
<1>4. CASE ~ExtendsRow
  <2>1. ColumnsAreLevel' /\ Added(time')
    BY <1>1, <1>2, <1>3, <1>4, AddedFacts
  <2> QED
    BY <1>1, <1>2, <1>4, <2>1
<1>5. CASE ExtendsRow
  <2>1. compact /\ Rows > 1 /\ Last(column[1]) = Arc.name
    BY <1>5 DEF ExtendsRow
  <2>2. column[1][Rows] = Arc.name
    BY <1>3, <2>1 DEF ColumnsAreLevel, Last
  <2>3. ColumnsAreLevel' /\ Extended(time')
    BY <1>1, <1>2, <1>3, <1>5, <2>1, ExtendedFacts
  <2> QED
    BY <1>1, <1>2, <2>1, <2>2, <2>3
<1> QED
  BY <1>4, <1>5

(* The parts of the invariant in the words of the step. *)
LEMMA TakeArcKeeps ==
  ASSUME IInv, TakeArc
  PROVE  IInv'
<1>0. PICK R, P : R = Rows /\ P = position
  OBVIOUS
<1> DEFINE here == StationOfNode(Arc.from)
           there == StationOfNode(Arc.to)
<1>1. /\ phase = "rows" /\ phase' = "rows" /\ P \in DOMAIN my_tour
      /\ position' = P + 1 /\ time' = time + Arc.dist /\ time' \in Int
      /\ lines' = lines /\ tour' = tour /\ start' = start /\ my_tour' = my_tour
      /\ it' = it /\ i' = i
      /\ \/ ~ExtendsRow /\ ColumnsAreLevel' /\ Added(time')
         \/ /\ Rows > 1 /\ column[1][Rows] = Arc.name
            /\ ColumnsAreLevel' /\ Extended(time')
  BY <1>0, TakeArcFacts
<1>2. /\ Given /\ WhileTold /\ R \in Nat \ {0} /\ it \in 1..(R + 1) /\ i = it - 1
      /\ Len(my_tour) \in Nat \ {0} /\ P \in Nat \ {0} /\ it = 1
  BY <1>0, <1>1, ToldFacts DEF IInv
<1>3. /\ P \in 1..Len(my_tour) /\ Arc.dist \in Int /\ time \in Int
      /\ RidesTakeTime => Arc.dist > 0
      /\ Arc.name = CHANGE_NAME => here = there
      /\ time' = Elapsed(my_tour)[P]
  BY <1>0, <1>1, ArcFacts
<1>4. /\ IsJourney(my_tour)
      /\ start # NoStart => StationOfNode(my_tour[1].from) = start
      /\ Elapsed(my_tour)[Len(my_tour)] = Elapsed(tour)[Len(tour)]
      /\ time = Elapsed(my_tour)[P - 1]
      /\ RowsAreTold /\ RowsAreJoined /\ ChangesStay /\ TimesGrow
  BY <1>0, <1>2 DEF WhileTold
<1>5. /\ Arc = my_tour[P]
      /\ \A n : StationOfNode(n)' = StationOfNode(n)
      /\ RidesTakeTime' <=> RidesTakeTime
  BY <1>0, <1>1, CellsStay DEF Arc, RidesTakeTime
<1>6. R > 1 => column[2][R] = here /\ P # 1
  BY <1>0, <1>1, LastRowEndsAtArc
<1>7. /\ R > 1 <=> P > 1
      /\ R > 1 => column[0][2] = StationOfNode(my_tour[1].from) /\ column[3][R] = time
      /\ \A k \in 3..R : column[2][k - 1] = column[0][k]
      /\ \A k \in 2..R : column[1][k] = CHANGE_NAME => column[0][k] = column[2][k]
      /\ \A k \in 2..R : column[3][k] \in Int
      /\ RidesTakeTime => \A k \in 3..R : column[3][k - 1] < column[3][k]
      /\ \A k \in 2..R : \E p, q \in 1..(P - 1) : Tells(k, p, q) /\ (k = R => q = P - 1)
  BY <1>0, <1>4 DEF RowsAreJoined, ChangesStay, TimesGrow, RowsAreTold
<1> HIDE DEF here, there
<1>8. ASSUME /\ Rows' > 1
             /\ \A k \in 2..Rows' : \E p, q \in 1..P : Tells(k, p, q)' /\ (k = Rows' => q = P)
             /\ column'[0][2] = StationOfNode(my_tour[1].from)
             /\ column'[2][Rows'] = there /\ column'[3][Rows'] = time'
             /\ \A k \in 3..Rows' : column'[2][k - 1] = column'[0][k]
             /\ \A k \in 2..Rows' : column'[1][k] = CHANGE_NAME => column'[0][k] = column'[2][k]
             /\ \A k \in 2..Rows' : column'[3][k] \in Int
             /\ RidesTakeTime => \A k \in 3..Rows' : column'[3][k - 1] < column'[3][k],
             ColumnsAreLevel'
      PROVE  IInv'
  <2>1. position' - 1 = P /\ position' > 1 /\ position' \in 1..(Len(my_tour') + 1)
    BY <1>1, <1>2, <1>3
  <2>2. RowsAreTold'
    BY <1>8, <2>1 DEF RowsAreTold
  <2>3. RowsAreJoined'
    <3>1. \A n : StationOfNode(n)' = StationOfNode(n)
      BY <1>5
    <3>2. StationOfNode(my_tour[1].from)' = StationOfNode(my_tour[1].from)
          /\ StationOfNode(my_tour[P].to)' = there
      BY <1>1, <1>5 DEF there, StationOfNode, StationAt
    <3>3. (Rows > 1)' /\ (position > 1)'
      BY <1>8, <2>1
    <3>4. my_tour[position - 1]' = my_tour[P]
      BY <1>1, <2>1
    <3>5. column'[2][Rows'] = StationOfNode(my_tour[position - 1].to)'
      BY <1>5, <1>8, <3>4 DEF there, StationOfNode, StationAt
    <3> QED
      BY <1>8, <3>2, <3>3, <3>5 DEF RowsAreJoined
  <2>4. ChangesStay' /\ TimesGrow'
    BY <1>5, <1>8 DEF ChangesStay, TimesGrow
  <2>5. /\ IsJourney(my_tour)'
        /\ (start # NoStart => StationOfNode(my_tour[1].from) = start)'
        /\ (Elapsed(my_tour)[Len(my_tour)] = Elapsed(tour)[Len(tour)])'
        /\ time' = Elapsed(my_tour')[P]
    <3>1. IsJourney(my_tour)'
      BY <1>1, <1>4 DEF IsJourney
    <3>2. (start # NoStart => StationOfNode(my_tour[1].from) = start)'
      BY <1>1, <1>4 DEF StationOfNode, StationAt
    <3> QED
      BY <1>1, <1>3, <1>4, <3>1, <3>2
  <2>6. WhileTold'
    BY <1>1, <2>1, <2>2, <2>3, <2>4, <2>5 DEF WhileTold
  <2>7. Given'
    BY <1>1, <1>2, GivenStays
  <2>8. it' \in 1..(Rows' + 1) /\ i' = it' - 1 /\ it' = 1
    <3>1. \A n \in Nat : 1 \in 1..(n + 1)
      OBVIOUS
    <3>2. Rows' \in Nat
      BY <1>8 DEF ColumnsAreLevel
    <3>3. it' = 1 /\ i' = 0 /\ i' = it' - 1
      BY <1>1, <1>2
    <3>4. 1 \in 1..(Rows' + 1)
      BY <3>1, <3>2
    <3> QED
      BY <3>3, <3>4
  <2> QED
    BY <1>1, <1>8, <2>6, <2>7, <2>8 DEF IInv, Phases
<1>9. CASE ColumnsAreLevel' /\ Added(time')
  <2>1. /\ Rows' = R + 1
        /\ \A c \in 0..3 : \A k \in 1..R : column'[c][k] = column[c][k]
        /\ column'[0][R + 1] = here /\ column'[1][R + 1] = Arc.name
        /\ column'[2][R + 1] = there /\ column'[3][R + 1] = time'
    BY <1>0, <1>9 DEF Added, here, there
  <2>2. \A k \in 1..R : /\ column'[0][k] = column[0][k] /\ column'[1][k] = column[1][k]
                        /\ column'[2][k] = column[2][k] /\ column'[3][k] = column[3][k]
    BY <2>1
  <2>3. ASSUME NEW k \in 2..(R + 1)
        PROVE  \E p, q \in 1..P : Tells(k, p, q)' /\ (k = R + 1 => q = P)
    <3>1. CASE k = R + 1
      <4>1. Tells(R + 1, P, P)'
        <5>1. \A r \in P..P : r = P
          BY <1>2
        <5>2. P <= P /\ \A r \in P..P : my_tour[r].name = column'[1][R + 1]
          BY <1>2, <1>5, <2>1, <5>1
        <5>3. /\ column'[0][R + 1] = StationOfNode(my_tour[P].from)
              /\ column'[2][R + 1] = StationOfNode(my_tour[P].to)
              /\ column'[3][R + 1] = Elapsed(my_tour)[P]
          BY <1>3, <1>5, <2>1 DEF here, there
        <5>4. UNCHANGED <<lines, my_tour>>
          BY <1>1
        <5> QED
          BY ONLY <5>2, <5>3, <5>4, TellsAfter
      <4>2. P \in 1..P
        BY <1>2
      <4>3. Tells(k, P, P)'
        BY <3>1, <4>1
      <4> QED
        BY <4>2, <4>3
    <3>2. CASE k # R + 1
      <4>1. k \in 2..R /\ k \in 1..R
        BY <1>2, <3>2
      <4>2. PICK p \in 1..(P - 1), q \in 1..(P - 1) : Tells(k, p, q)
        BY <1>7, <4>1
      <4>3. Tells(k, p, q)'
        BY <1>1, <2>1, <4>1, <4>2, TellsStays
      <4>4. p \in 1..P /\ q \in 1..P
        BY <1>2
      <4> QED
        BY <3>2, <4>3, <4>4
    <3> QED
      BY <3>1, <3>2
  <2>4. column'[0][2] = StationOfNode(my_tour[1].from)
    <3>1. CASE R = 1
      <4>1. P = 1 /\ R + 1 = 2
        BY <1>2, <1>7, <3>1
      <4> QED
        BY <1>5, <2>1, <4>1 DEF here
    <3>2. CASE R # 1
      <4>1. R > 1 /\ 2 \in 1..R
        BY <1>2, <3>2
      <4> QED
        BY <1>7, <2>2, <4>1
    <3> QED
      BY <3>1, <3>2
  <2>5. ASSUME NEW k \in 3..(R + 1) PROVE column'[2][k - 1] = column'[0][k]
    <3>1. k - 1 \in 1..R /\ R > 1
      BY <1>2
    <3>2. CASE k = R + 1
      <4>1. k - 1 = R
        BY <1>2, <3>2
      <4> QED
        BY <1>6, <2>1, <2>2, <3>1, <3>2, <4>1
    <3>3. CASE k # R + 1
      <4>1. k \in 3..R /\ k \in 1..R
        BY <1>2, <3>3
      <4> QED
        BY <1>7, <2>2, <3>1, <4>1
    <3> QED
      BY <3>2, <3>3
  <2>6. ASSUME NEW k \in 2..(R + 1)
        PROVE  /\ column'[1][k] = CHANGE_NAME => column'[0][k] = column'[2][k]
               /\ column'[3][k] \in Int
    <3>1. CASE k = R + 1
      BY <1>1, <1>3, <2>1, <3>1
    <3>2. CASE k # R + 1
      <4>1. k \in 2..R /\ k \in 1..R
        BY <1>2, <3>2
      <4> QED
        BY <1>7, <2>2, <4>1
    <3> QED
      BY <3>1, <3>2
  <2>7. ASSUME RidesTakeTime, NEW k \in 3..(R + 1) PROVE column'[3][k - 1] < column'[3][k]
    <3>1. k - 1 \in 1..R /\ R > 1
      BY <1>2
    <3>2. CASE k = R + 1
      <4>1. k - 1 = R /\ column'[3][R] = time
        BY <1>2, <1>7, <2>2, <3>1, <3>2
      <4>2. time < time'
        BY <1>1, <1>3, <2>7
      <4> QED
        BY <2>1, <3>2, <4>1, <4>2
    <3>3. CASE k # R + 1
      <4>1. k \in 3..R /\ k \in 1..R
        BY <1>2, <3>3
      <4> QED
        BY <1>7, <2>2, <2>7, <3>1, <4>1
    <3> QED
      BY <3>2, <3>3
  <2>8. R + 1 > 1
    BY <1>2
  <2> QED
    BY <1>8, <1>9, <2>1, <2>3, <2>4, <2>5, <2>6, <2>7, <2>8
<1>10. CASE Rows > 1 /\ column[1][Rows] = Arc.name /\ ColumnsAreLevel' /\ Extended(time')
  <2>1. /\ R > 1 /\ column[1][R] = Arc.name /\ Rows' = R
        /\ \A c \in 0..3 : \A k \in 1..(R - 1) : column'[c][k] = column[c][k]
        /\ column'[0][R] = column[0][R] /\ column'[1][R] = column[1][R]
        /\ column'[2][R] = there /\ column'[3][R] = time'
    BY <1>0, <1>10 DEF Extended, there
  <2>2. \A k \in 1..(R - 1) :
          /\ column'[0][k] = column[0][k] /\ column'[1][k] = column[1][k]
          /\ column'[2][k] = column[2][k] /\ column'[3][k] = column[3][k]
    BY <2>1
  <2>3. ASSUME NEW k \in 2..R
        PROVE  \E p, q \in 1..P : Tells(k, p, q)' /\ (k = R => q = P)
    <3>1. PICK p \in 1..(P - 1), q \in 1..(P - 1) : Tells(k, p, q) /\ (k = R => q = P - 1)
      BY <1>7
    <3>2. p \in 1..P /\ q \in 1..P /\ P \in 1..P /\ p <= P
      BY <1>2
    <3>3. CASE k = R
      <4>1. q = P - 1 /\ Tells(R, p, P - 1)
        BY <3>1, <3>3
      <4>2. ASSUME NEW r \in p..P PROVE my_tour[r].name = column'[1][R]
        <5>1. r = P \/ r \in p..(P - 1)
          BY <1>2
        <5> QED
          BY <1>5, <2>1, <4>1, <5>1 DEF Tells
      <4>3. /\ column'[0][R] = StationOfNode(my_tour[p].from)
            /\ column'[2][R] = StationOfNode(my_tour[P].to)
            /\ column'[3][R] = Elapsed(my_tour)[P]
        BY <1>3, <1>5, <2>1, <4>1 DEF Tells, there
      <4>4. UNCHANGED <<lines, my_tour>> /\ p <= P
        BY <1>1, <3>2
      <4>5. Tells(R, p, P)'
        BY ONLY <4>2, <4>3, <4>4, TellsAfter
      <4>6. Tells(k, p, P)'
        BY <3>3, <4>5
      <4> QED
        BY <3>2, <4>6
    <3>4. CASE k # R
      <4>1. k \in 1..(R - 1)
        BY <1>2, <3>4
      <4>2. Tells(k, p, q)'
        BY <1>1, <2>1, <3>1, <4>1, TellsStays
      <4> QED
        BY <3>2, <3>4, <4>2
    <3> QED
      BY <3>3, <3>4
  <2>4. column'[0][2] = StationOfNode(my_tour[1].from)
    <3>1. 2 \in 1..(R - 1) \/ R = 2
      BY <1>2, <2>1
    <3> QED
      BY <1>7, <2>1, <2>2, <3>1
  <2>5. ASSUME NEW k \in 3..R PROVE column'[2][k - 1] = column'[0][k]
    <3>1. k - 1 \in 1..(R - 1) /\ (k \in 1..(R - 1) \/ k = R)
      BY <1>2
    <3> QED
      BY <1>7, <2>1, <2>2, <3>1
  <2>6. ASSUME NEW k \in 2..R
        PROVE  /\ column'[1][k] = CHANGE_NAME => column'[0][k] = column'[2][k]
               /\ column'[3][k] \in Int
    <3>1. CASE k = R
      BY <1>1, <1>3, <1>6, <1>7, <2>1, <3>1
    <3>2. CASE k # R
      <4>1. k \in 1..(R - 1)
        BY <1>2, <3>2
      <4> QED
        BY <1>7, <2>2, <4>1
    <3> QED
      BY <3>1, <3>2
  <2>7. ASSUME RidesTakeTime, NEW k \in 3..R PROVE column'[3][k - 1] < column'[3][k]
    <3>1. k - 1 \in 1..(R - 1) /\ column[3][k - 1] < column[3][k]
      BY <1>2, <1>7, <2>7
    <3>2. CASE k = R
      <4>1. column'[3][k - 1] < time /\ time < time'
        <5>1. column'[3][k - 1] = column[3][k - 1]
          BY <2>2, <3>1
        <5>2. column[3][R] = time
          BY <1>7, <2>1
        <5>3. time < time'
          BY <1>1, <1>3, <2>7
        <5> QED
          BY <3>1, <3>2, <5>1, <5>2, <5>3
      <4>2. column'[3][k - 1] \in Int
        <5>1. k - 1 \in 2..R
          BY <1>2
        <5> QED
          BY <2>6, <5>1
      <4> QED
        BY <1>1, <1>3, <2>1, <3>2, <4>1, <4>2
    <3>3. CASE k # R
      <4>1. k \in 1..(R - 1)
        BY <1>2, <3>3
      <4> QED
        BY <2>2, <3>1, <4>1
    <3> QED
      BY <3>2, <3>3
  <2> QED
    BY <1>8, <1>10, <2>1, <2>3, <2>4, <2>5, <2>6, <2>7
<1> QED
  BY <1>1, <1>9, <1>10

(* The arguments, the rows and how far they are told stay as they are.     *)
LEMMA WhileToldStays ==
  ASSUME IInv, phase \in {"rows", "erasing", "printing", "printed"},
         phase' \in {"erasing", "printing", "printed"},
         position = Len(my_tour) + 1,
         UNCHANGED <<arguments, my_tour, position, time, column>>
  PROVE  Given' /\ ColumnsAreLevel' /\ WhileTold' /\ Rows' = Rows
<1>1. Given /\ ColumnsAreLevel /\ WhileTold
  BY ToldFacts
<1>2. /\ lines' = lines /\ tour' = tour /\ start' = start /\ my_tour' = my_tour
      /\ position' = position /\ time' = time /\ column' = column
  BY DEF arguments
<1>3. Given' /\ Rows' = Rows /\ ColumnsAreLevel'
  BY <1>1, <1>2, GivenStays, CellsStay DEF Rows, ColumnsAreLevel
<1>4. IsJourney(my_tour)'
  BY <1>1, <1>2 DEF WhileTold, IsJourney
<1>5. RowsAreTold'
  <2>1. RowsAreTold
    BY <1>1 DEF WhileTold
  <2>2. ASSUME NEW k, NEW p, NEW q, Tells(k, p, q) PROVE Tells(k, p, q)'
    BY <1>2, <2>2, TellsStays
  <2> QED
    BY <1>2, <1>3, <2>1, <2>2 DEF RowsAreTold
<1>6. RowsAreJoined'
  <2>1. \A n : StationOfNode(n)' = StationOfNode(n)
    BY <1>2, CellsStay
  <2>2. RowsAreJoined
    BY <1>1 DEF WhileTold
  <2> QED
    BY <1>2, <1>3, <2>1, <2>2 DEF RowsAreJoined, StationOfNode, StationAt
<1>7. ChangesStay' /\ TimesGrow'
  BY <1>1, <1>2, <1>3 DEF WhileTold, ChangesStay, TimesGrow, RidesTakeTime
<1>8. /\ (start # NoStart => StationOfNode(my_tour[1].from) = start)'
      /\ (Elapsed(my_tour)[Len(my_tour)] = Elapsed(tour)[Len(tour)])'
      /\ (time = Elapsed(my_tour)[position - 1])'
      /\ position' \in 1..(Len(my_tour') + 1) /\ position' = Len(my_tour') + 1
  BY <1>1, <1>2 DEF WhileTold, StationOfNode, StationAt
<1>9. WhileTold'
  BY <1>4, <1>5, <1>6, <1>7, <1>8 DEF WhileTold
<1> QED
  BY <1>3, <1>9

LEMMA RowsAreCompleteKeeps ==
  ASSUME IInv, RowsAreComplete
  PROVE  IInv'
<1>1. /\ phase = "rows" /\ position \notin DOMAIN my_tour
      /\ phase' \in {"erasing", "printing"}
      /\ UNCHANGED <<arguments, my_tour, position, time, column, it, i>>
  BY DEF RowsAreComplete
<1>2. position = Len(my_tour) + 1
  <2>1. WhileTold
    BY <1>1, ToldFacts
  <2>2. DOMAIN my_tour = 1..Len(my_tour) /\ Len(my_tour) \in Nat
    BY <2>1 DEF WhileTold, IsJourney
  <2>3. position \in 1..(Len(my_tour) + 1)
    BY <2>1 DEF WhileTold
  <2> QED
    BY <1>1, <2>2, <2>3
<1>3. Given' /\ ColumnsAreLevel' /\ WhileTold' /\ Rows' = Rows
  BY <1>1, <1>2, WhileToldStays
<1>4. it' \in 1..(Rows' + 1) /\ i' = it' - 1
  BY <1>1, <1>3 DEF IInv
<1> QED
  BY <1>1, <1>3, <1>4 DEF IInv, Phases

(* While rows are erased all of the tour is told. *)
LEMMA AllIsTold ==
  ASSUME IInv, phase \in {"erasing", "printing", "printed"}
  PROVE  position = Len(my_tour) + 1
BY ToldFacts DEF WhileTold

LEMMA KeepRowKeeps ==
  ASSUME IInv, KeepRow
  PROVE  IInv'
<1>1. /\ phase = "erasing" /\ phase' = "erasing" /\ it <= Len(column[1])
      /\ it' = it + 1 /\ i' = i + 1
      /\ UNCHANGED <<arguments, my_tour, position, time, column>>
  BY DEF KeepRow, NextIndex
<1>2. Given' /\ ColumnsAreLevel' /\ WhileTold' /\ Rows' = Rows
  BY <1>1, AllIsTold, WhileToldStays
<1>3. it \in 1..(Rows + 1) /\ i = it - 1 /\ Rows \in Nat /\ it <= Rows
  BY <1>1, ToldFacts DEF ColumnsAreLevel
<1>4. it' \in 1..(Rows' + 1) /\ i' = it' - 1
  <2> DEFINE R == Rows
  <2>1. it \in 1..(R + 1) /\ i = it - 1 /\ R \in Nat /\ it <= R /\ Rows' = R
    BY <1>2, <1>3
  <2> HIDE DEF R
  <2> QED
    BY <1>1, <2>1
<1> QED
  BY <1>1, <1>2, <1>4 DEF IInv, Phases

LEMMA RowsAreErasedKeeps ==
  ASSUME IInv, RowsAreErased
  PROVE  IInv'
<1>1. /\ phase = "erasing" /\ phase' = "printing"
      /\ UNCHANGED <<arguments, my_tour, position, time, column, it, i>>
  BY DEF RowsAreErased
<1>2. Given' /\ ColumnsAreLevel' /\ WhileTold' /\ Rows' = Rows
  BY <1>1, AllIsTold, WhileToldStays
<1>3. it' \in 1..(Rows' + 1) /\ i' = it' - 1
  BY <1>1, <1>2 DEF IInv
<1> QED
  BY <1>1, <1>2, <1>3 DEF IInv, Phases

LEMMA PrintTourKeeps ==
  ASSUME IInv, PrintTour
  PROVE  IInv'
<1>1. /\ phase = "printing" /\ phase' = "printed"
      /\ UNCHANGED <<arguments, my_tour, position, time, column, it, i>>
  BY DEF PrintTour
<1>2. Given' /\ ColumnsAreLevel' /\ WhileTold' /\ Rows' = Rows
  BY <1>1, AllIsTold, WhileToldStays
<1>3. it' \in 1..(Rows' + 1) /\ i' = it' - 1
  BY <1>1, <1>2 DEF IInv
<1> QED
  BY <1>1, <1>2, <1>3 DEF IInv, Phases

(* A row of changes goes: the rows around it meet at its station.          *)
LEMMA EraseRowKeeps ==
  ASSUME IInv, EraseRow
  PROVE  IInv'
<1>0. PICK R, P, a : R = Rows /\ P = position /\ a = it
  OBVIOUS
<1>1. /\ phase = "erasing" /\ phase' = "erasing" /\ IsErased /\ it <= Len(column[1])
      /\ column' = Erased(i)
      /\ lines' = lines /\ tour' = tour /\ start' = start /\ my_tour' = my_tour
      /\ position' = P /\ time' = time /\ it' = it /\ i' = i
  BY <1>0 DEF EraseRow, arguments
<1>2. /\ Given /\ ColumnsAreLevel /\ WhileTold /\ R \in Nat \ {0}
      /\ it \in 1..(R + 1) /\ i = it - 1
  BY <1>0, <1>1, ToldFacts
<1>3. /\ a \in 2..(R - 1) /\ column[1][a] = CHANGE_NAME /\ R > 2
  <2>1. Len(column[1]) = R
    BY <1>0, <1>2 DEF ColumnsAreLevel
  <2>2. column[1][a] = CHANGE_NAME /\ a # 1 /\ a + 1 <= R /\ a \in 1..(R + 1)
    BY <1>0, <1>1, <1>2, <2>1 DEF IsErased
  <2> QED
    BY <1>2, <2>2
<1>4. ColumnsAreLevel' /\ RowErased
  <2>1. Rows > 1 /\ it \in 1..Rows
    BY <1>0, <1>2, <1>3
  <2> QED
    BY <1>1, <1>2, <2>1, ErasedFacts
<1>5. /\ Rows' = R - 1
      /\ \A c \in 0..3 : \A k \in 1..(a - 1) : column'[c][k] = column[c][k]
      /\ \A c \in 0..3 : \A k \in a..(R - 1) : column'[c][k] = column[c][k + 1]
  BY <1>0, <1>4 DEF RowErased
<1>6. /\ \A k \in 1..(a - 1) :
            /\ column'[0][k] = column[0][k] /\ column'[1][k] = column[1][k]
            /\ column'[2][k] = column[2][k] /\ column'[3][k] = column[3][k]
      /\ \A k \in a..(R - 1) :
            /\ column'[0][k] = column[0][k + 1] /\ column'[1][k] = column[1][k + 1]
            /\ column'[2][k] = column[2][k + 1] /\ column'[3][k] = column[3][k + 1]
  BY <1>5
<1>7. /\ IsJourney(my_tour)
      /\ start # NoStart => StationOfNode(my_tour[1].from) = start
      /\ Elapsed(my_tour)[Len(my_tour)] = Elapsed(tour)[Len(tour)]
      /\ P \in 1..(Len(my_tour) + 1) /\ P = Len(my_tour) + 1
      /\ time = Elapsed(my_tour)[P - 1]
      /\ RowsAreTold /\ RowsAreJoined /\ ChangesStay /\ TimesGrow
  BY <1>0, <1>1, <1>2 DEF WhileTold
<1>8. /\ P > 1
      /\ column[0][2] = StationOfNode(my_tour[1].from)
      /\ column[2][R] = StationOfNode(my_tour[P - 1].to)
      /\ column[3][R] = time
      /\ \A k \in 3..R : column[2][k - 1] = column[0][k]
      /\ \A k \in 2..R : column[1][k] = CHANGE_NAME => column[0][k] = column[2][k]
      /\ \A k \in 2..R : column[3][k] \in Int
      /\ RidesTakeTime => \A k \in 3..R : column[3][k - 1] < column[3][k]
      /\ \A k \in 2..R : \E p, q \in 1..(P - 1) : Tells(k, p, q) /\ (k = R => q = P - 1)
  BY <1>0, <1>2, <1>3, <1>7 DEF RowsAreJoined, ChangesStay, TimesGrow, RowsAreTold
<1>9. column[0][a] = column[2][a] /\ column[2][a] = column[0][a + 1]
  <2>1. a \in 2..R /\ a + 1 \in 3..R /\ (a + 1) - 1 = a
    BY <1>2, <1>3
  <2> QED
    BY <1>3, <1>8, <2>1
<1>10. RowsAreTold'
  <2>1. ASSUME NEW k \in 2..(R - 1)
        PROVE  \E p, q \in 1..(P - 1) : Tells(k, p, q)' /\ (k = R - 1 => q = P - 1)
    <3>1. PICK j \in 2..R : /\ \A c \in 0..3 : column'[c][k] = column[c][j]
                            /\ k = R - 1 => j = R
      <4>1. CASE k < a
        <5>1. k \in 1..(a - 1) /\ k \in 2..R /\ k # R - 1
          BY <1>2, <1>3, <4>1
        <5> QED
          BY <1>5, <5>1
      <4>2. CASE ~(k < a)
        <5>1. k \in a..(R - 1) /\ k + 1 \in 2..R /\ (k = R - 1 => k + 1 = R)
          BY <1>2, <1>3, <4>2
        <5> QED
          BY <1>5, <5>1
      <4> QED
        BY <4>1, <4>2
    <3>2. PICK p \in 1..(P - 1), q \in 1..(P - 1) : Tells(j, p, q) /\ (j = R => q = P - 1)
      BY <1>8
    <3>3. Tells(k, p, q)'
      BY <1>1, <3>1, <3>2, TellsStays
    <3> QED
      BY <3>1, <3>2, <3>3
  <2> QED
    BY <1>1, <1>5, <2>1 DEF RowsAreTold
<1>11. RowsAreJoined'
  <2>1. /\ Rows' > 1 /\ position' > 1
        /\ Rows' \in 2..(R - 1) /\ Rows' + 1 = R /\ Rows' \in a..(R - 1)
    BY <1>1, <1>2, <1>3, <1>5, <1>8
  <2>2. column'[2][Rows'] = column[2][R] /\ column'[3][Rows'] = column[3][R]
    <3>1. R - 1 \in a..(R - 1) /\ (R - 1) + 1 = R
      BY <1>2, <1>3
    <3> QED
      BY <1>5, <1>6, <3>1
  <2>3. column'[0][2] = column[0][2]
    <3>1. CASE a = 2
      <4>1. 2 \in a..(R - 1) /\ 2 + 1 = 3
        BY <1>2, <1>3, <3>1
      <4> QED
        BY <1>6, <1>9, <3>1, <4>1
    <3>2. CASE a # 2
      <4>1. 2 \in 1..(a - 1)
        BY <1>2, <1>3, <3>2
      <4> QED
        BY <1>6, <4>1
    <3> QED
      BY <3>1, <3>2
  <2>4. ASSUME NEW k \in 3..(R - 1) PROVE column'[2][k - 1] = column'[0][k]
    <3>1. k \in 3..R /\ k - 1 \in 2..R
      BY <1>2
    <3>2. CASE k < a
      <4>1. k \in 1..(a - 1) /\ k - 1 \in 1..(a - 1)
        BY <1>2, <1>3, <3>2
      <4> QED
        BY <1>6, <1>8, <3>1, <4>1
    <3>3. CASE k = a
      <4>1. k \in a..(R - 1) /\ k - 1 \in 1..(a - 1)
        BY <1>2, <1>3, <3>3
      <4>2. column[2][k - 1] = column[0][k]
        BY <1>8, <3>1
      <4> QED
        BY <1>6, <1>9, <3>3, <4>1, <4>2
    <3>4. CASE k > a
      <4>1. k \in a..(R - 1) /\ k - 1 \in a..(R - 1) /\ k + 1 \in 3..R
            /\ (k + 1) - 1 = k /\ (k - 1) + 1 = k
        BY <1>2, <1>3, <3>4
      <4>2. column'[2][k - 1] = column[2][k] /\ column'[0][k] = column[0][k + 1]
        BY <1>6, <4>1
      <4>3. column[2][(k + 1) - 1] = column[0][k + 1]
        BY <1>8, <4>1
      <4> QED
        BY <4>1, <4>2, <4>3
    <3> QED
      BY <1>3, <3>2, <3>3, <3>4
  <2>5. /\ StationOfNode(my_tour[1].from)' = StationOfNode(my_tour[1].from)
        /\ StationOfNode(my_tour[position - 1].to)' = StationOfNode(my_tour[P - 1].to)
    BY <1>1 DEF StationOfNode, StationAt
  <2>6. \A k \in 3..Rows' : column'[2][k - 1] = column'[0][k]
    BY <1>5, <2>4
  <2> QED
    BY <1>1, <1>8, <2>1, <2>2, <2>3, <2>5, <2>6 DEF RowsAreJoined
<1>12. ChangesStay' /\ TimesGrow'
  <2>1. ASSUME NEW k \in 2..(R - 1)
        PROVE  /\ column'[1][k] = CHANGE_NAME => column'[0][k] = column'[2][k]
               /\ column'[3][k] \in Int
    <3>1. CASE k < a
      <4>1. k \in 1..(a - 1) /\ k \in 2..R
        BY <1>2, <1>3, <3>1
      <4> QED
        BY <1>6, <1>8, <4>1
    <3>2. CASE ~(k < a)
      <4>1. k \in a..(R - 1) /\ k + 1 \in 2..R
        BY <1>2, <1>3, <3>2
      <4> QED
        BY <1>6, <1>8, <4>1
    <3> QED
      BY <3>1, <3>2
  <2>2. ASSUME RidesTakeTime, NEW k \in 3..(R - 1) PROVE column'[3][k - 1] < column'[3][k]
    <3>1. \A j \in 3..R : column[3][j - 1] < column[3][j]
      BY <1>8, <2>2
    <3>2. CASE k < a
      <4>1. k \in 1..(a - 1) /\ k - 1 \in 1..(a - 1) /\ k \in 3..R
        BY <1>2, <1>3, <3>2
      <4> QED
        BY <1>6, <3>1, <4>1
    <3>3. CASE k = a
      <4>1. /\ k \in a..(R - 1) /\ k - 1 \in 1..(a - 1) /\ k \in 3..R /\ k + 1 \in 3..R
            /\ (k + 1) - 1 = k /\ k - 1 \in 2..R /\ k \in 2..R /\ k + 1 \in 2..R
        BY <1>2, <1>3, <3>3
      <4>2. column'[3][k - 1] = column[3][k - 1] /\ column'[3][k] = column[3][k + 1]
        BY <1>6, <4>1
      <4>3. column[3][k - 1] < column[3][k]
        BY <3>1, <4>1
      <4>4. column[3][k] < column[3][k + 1]
        <5>1. column[3][(k + 1) - 1] < column[3][k + 1]
          BY <3>1, <4>1
        <5> QED
          BY <4>1, <5>1
      <4>5. column[3][k - 1] \in Int /\ column[3][k] \in Int /\ column[3][k + 1] \in Int
        BY <1>8, <4>1
      <4> QED
        BY <4>2, <4>3, <4>4, <4>5
    <3>4. CASE k > a
      <4>1. k \in a..(R - 1) /\ k - 1 \in a..(R - 1) /\ k + 1 \in 3..R
            /\ (k + 1) - 1 = k /\ (k - 1) + 1 = k
        BY <1>2, <1>3, <3>4
      <4>2. column'[3][k - 1] = column[3][k] /\ column'[3][k] = column[3][k + 1]
        BY <1>6, <4>1
      <4>3. column[3][(k + 1) - 1] < column[3][k + 1]
        BY <3>1, <4>1
      <4> QED
        BY <4>1, <4>2, <4>3
    <3> QED
      BY <1>3, <3>2, <3>3, <3>4
  <2>3. RidesTakeTime' <=> RidesTakeTime
    BY <1>1 DEF RidesTakeTime
  <2> QED
    BY <1>5, <2>1, <2>2, <2>3 DEF ChangesStay, TimesGrow
<1>13. WhileTold'
  <2>1. IsJourney(my_tour)'
    BY <1>1, <1>7 DEF IsJourney
  <2>2. (start # NoStart => StationOfNode(my_tour[1].from) = start)'
    BY <1>1, <1>7 DEF StationOfNode, StationAt
  <2>3. /\ (Elapsed(my_tour)[Len(my_tour)] = Elapsed(tour)[Len(tour)])'
        /\ (time = Elapsed(my_tour)[position - 1])'
        /\ position' \in 1..(Len(my_tour') + 1) /\ position' = Len(my_tour') + 1
    BY <1>1, <1>7
  <2> QED
    BY <1>10, <1>11, <1>12, <2>1, <2>2, <2>3 DEF WhileTold
<1>14. it' \in 1..(Rows' + 1) /\ i' = it' - 1
  BY <1>0, <1>1, <1>2, <1>3, <1>5
<1>15. Given'
  BY <1>1, <1>2, GivenStays
<1> QED
  BY <1>1, <1>4, <1>13, <1>14, <1>15 DEF IInv, Phases

LEMMA StepKeeps ==
  ASSUME IInv, [Next]_vars
  PROVE  IInv'
<1>1. CASE UNCHANGED vars
  <2>1. /\ lines' = lines /\ tour' = tour /\ start' = start /\ phase' = phase
        /\ my_tour' = my_tour /\ position' = position /\ time' = time
        /\ column' = column /\ it' = it /\ i' = i
    BY <1>1 DEF vars, arguments
  <2>2. Given /\ ColumnsAreLevel /\ phase \in Phases
    BY DEF IInv
  <2>3. Given' /\ Rows' = Rows /\ ColumnsAreLevel' /\ phase' \in Phases'
    BY <2>1, <2>2, GivenStays, CellsStay DEF Rows, ColumnsAreLevel, Phases
  <2>4. CASE phase \in {"rotating", "thrown"}
    <3>1. BeforeRows'
      BY <2>1, <2>3, <2>4 DEF IInv, BeforeRows
    <3> QED
      BY <2>1, <2>3, <2>4, <3>1 DEF IInv
  <2>5. CASE phase \in {"erasing", "printing", "printed"}
    <3>1. WhileTold'
      <4>1. UNCHANGED <<arguments, my_tour, position, time, column>>
        BY <1>1 DEF vars
      <4>2. phase' \in {"erasing", "printing", "printed"} /\ position = Len(my_tour) + 1
        BY <2>1, <2>5, AllIsTold
      <4> QED
        BY <2>5, <4>1, <4>2, WhileToldStays
    <3> QED
      BY <2>1, <2>3, <2>5, <3>1 DEF IInv
  <2>6. CASE phase = "rows"
    <3>1. WhileTold
      BY <2>6 DEF IInv
    <3>2. WhileTold'
      <4>1. /\ IsJourney(my_tour)' /\ RowsAreJoined' /\ ChangesStay' /\ TimesGrow'
        BY <2>1, <2>3, <3>1 DEF WhileTold, IsJourney, RowsAreJoined, ChangesStay, TimesGrow,
                           RidesTakeTime, StationOfNode, StationAt
      <4>2. RowsAreTold'
        <5>1. RowsAreTold
          BY <3>1 DEF WhileTold
        <5>2. ASSUME NEW k, NEW p, NEW q, Tells(k, p, q) PROVE Tells(k, p, q)'
          BY <2>1, <5>2, TellsStays
        <5> QED
          BY <2>1, <2>3, <5>1, <5>2 DEF RowsAreTold
      <4> QED
        BY <2>1, <3>1, <4>1, <4>2 DEF WhileTold, StationOfNode, StationAt
    <3> QED
      BY <2>1, <2>3, <2>6, <3>2 DEF IInv
  <2> QED
    BY <2>2, <2>4, <2>5, <2>6 DEF Phases
<1>2. CASE Next
  BY <1>2, RotateKeeps, TakeAsItIsKeeps, TakeArcKeeps, RowsAreCompleteKeeps,
     EraseRowKeeps, KeepRowKeeps, RowsAreErasedKeeps, PrintTourKeeps DEF Next
<1> QED
  BY <1>1, <1>2

LEMMA TableInductive == Spec => []IInv
<1>1. Init => IInv
  BY InitIInv
<1>2. IInv /\ [Next]_vars => IInv'
  BY StepKeeps
<1> QED
  BY <1>1, <1>2, PTL DEF Spec

-----------------------------------------------------------------------------
(* The columns stay level, the iterator and the index of the loop that     *)
(* erases rows stay together, and the times grow.                          *)
THEOREM TableTypes == Spec => []TypeOK
<1>1. IInv => TypeOK
  <2> SUFFICES ASSUME IInv PROVE TypeOK
    OBVIOUS
  <2>1. /\ phase \in Phases /\ ColumnsAreLevel
        /\ it \in 1..(Rows + 1) /\ i = it - 1
    BY DEF IInv
  <2>2. ASSUME RidesTakeTime, NEW k \in 3..Rows PROVE column[3][k - 1] < column[3][k]
    <3>1. CASE phase \in {"rotating", "thrown"}
      BY <3>1 DEF IInv, BeforeRows
    <3>2. CASE ~(phase \in {"rotating", "thrown"})
      BY <2>2, <3>2 DEF IInv, WhileTold, TimesGrow
    <3> QED
      BY <3>1, <3>2
  <2> QED
    BY <2>1, <2>2 DEF TypeOK, ColumnsAreLevel, RidesTakeTime
<1> QED
  BY <1>1, TableInductive, PTL

(* The assertion in getTourOutput holds for every tour: the next arc       *)
(* leaves the station that the last row ends at.                           *)
THEOREM RowsContinue == Spec => []ContinuityAssertion
<1>1. IInv => ContinuityAssertion
  <2> SUFFICES ASSUME IInv, phase = "rows", position \in DOMAIN my_tour, Rows > 1
               PROVE  Last(column[2]) = StationOfNode(Arc.from)
    BY DEF ContinuityAssertion
  <2>1. column[2][Rows] = StationOfNode(Arc.from)
    BY LastRowEndsAtArc
  <2>2. Len(column[2]) = Rows
    BY DEF IInv, ColumnsAreLevel
  <2> QED
    BY <2>1, <2>2 DEF Last
<1> QED
  BY <1>1, TableInductive, PTL

(* Every printed row is a ride of the tour: merging and erasing rows keep  *)
(* start, line, destination and time together.                             *)
THEOREM PrintedRowsAreRides == Spec => []RowsAreRides
<1>1. IInv => RowsAreRides
  <2> SUFFICES ASSUME IInv, phase = "printed", NEW k \in 2..Rows
               PROVE  \E p, q \in DOMAIN my_tour :
                        /\ p <= q
                        /\ \A r \in p..q : my_tour[r].name = column[1][k]
                        /\ RowAt(k) = <<StationOfNode(my_tour[p].from), my_tour[q].name,
                                        StationOfNode(my_tour[q].to), Elapsed(my_tour)[q]>>
    BY DEF RowsAreRides
  <2>1. RowsAreTold /\ IsJourney(my_tour) /\ position = Len(my_tour) + 1
    BY AllIsTold, ToldFacts DEF WhileTold
  <2>2. Len(my_tour) \in Nat /\ DOMAIN my_tour = 1..Len(my_tour)
    BY <2>1 DEF IsJourney
  <2>3. PICK p \in 1..(position - 1), q \in 1..(position - 1) : Tells(k, p, q)
    BY <2>1 DEF RowsAreTold
  <2>4. p \in DOMAIN my_tour /\ q \in DOMAIN my_tour
    BY <2>1, <2>2
  <2>5. p <= q /\ \A r \in p..q : my_tour[r].name = column[1][k]
    BY <2>3 DEF Tells
  <2>6. column[1][k] = my_tour[q].name
    BY <2>5
  <2>7. RowAt(k) = <<StationOfNode(my_tour[p].from), my_tour[q].name,
                     StationOfNode(my_tour[q].to), Elapsed(my_tour)[q]>>
    BY <2>3, <2>6 DEF RowAt, Tells
  <2> QED
    BY <2>4, <2>5, <2>7
<1> QED
  BY <1>1, TableInductive, PTL

(* The printed table is a closed journey from the start station that takes *)
(* as long as the tour.                                                    *)
THEOREM TableStaysClosed == Spec => []TableIsClosed
<1>1. IInv => TableIsClosed
  <2> SUFFICES ASSUME IInv, phase = "printed" PROVE TableIsClosed
    BY DEF TableIsClosed
  <2>1. /\ WhileTold /\ position = Len(my_tour) + 1 /\ Len(my_tour) \in Nat \ {0}
        /\ Rows \in Nat
    BY AllIsTold, ToldFacts
  <2>2. position > 1 /\ position - 1 = Len(my_tour)
    BY <2>1
  <2>3. /\ Rows > 1
        /\ column[0][2] = StationOfNode(my_tour[1].from)
        /\ column[2][Rows] = StationOfNode(my_tour[Len(my_tour)].to)
        /\ column[3][Rows] = time
        /\ \A k \in 3..Rows : column[2][k - 1] = column[0][k]
    BY <2>1, <2>2 DEF WhileTold, RowsAreJoined
  <2>4. start # NoStart => column[0][2] = start
    BY <2>1, <2>3 DEF WhileTold
  <2>5. ASSUME NEW k \in 2..Rows
        PROVE  column[2][IF k = 2 THEN Rows ELSE k - 1] = column[0][k]
    <3>1. CASE k = 2
      <4>1. my_tour[Len(my_tour)].to = my_tour[1].from
        BY <2>1 DEF WhileTold, IsJourney
      <4> QED
        BY <2>3, <3>1, <4>1
    <3>2. CASE k # 2
      <4>1. k \in 3..Rows
        BY <2>1, <3>2
      <4> QED
        BY <2>3, <3>2, <4>1
    <3> QED
      BY <3>1, <3>2
  <2>6. column[3][Rows] = Elapsed(tour)[Len(tour)]
    BY <2>1, <2>2, <2>3 DEF WhileTold
  <2> QED
    BY <2>3, <2>4, <2>5, <2>6 DEF TableIsClosed
<1> QED
  BY <1>1, TableInductive, PTL
-----------------------------------------------------------------------------
(* The times of TourTable are folds. *)

(* The partial sums of a sequence, as the fold forms them: for each set of *)
(* places, the greatest is taken off first.                                *)
Top(s) == CHOOSE x \in s : \A y \in s : x >= y

Folded(t, s, h) == IF s = {} THEN 0 ELSE h[s \ {Top(s)}] + t[Top(s)].dist

FoldsUpTo(t, n, k, h) ==
  /\ h = [s \in SUBSET (1..n) |-> h[s]]
  /\ \A s \in SUBSET (1..n) : s \subseteq 1..k => h[s] = Folded(t, s, h)

LEMMA TopFacts ==
  ASSUME NEW n \in Nat, NEW s \in SUBSET (1..n), s # {}
  PROVE  Top(s) \in s /\ \A y \in s : y <= Top(s)
<1>1. PICK p \in s : \A q \in s : q <= p
  BY LastPosition
<1>2. \A x, y \in s : x >= y <=> y <= x
  OBVIOUS
<1>3. \E x \in s : \A y \in s : x >= y
  BY <1>1, <1>2
<1>4. Top(s) \in s /\ \A y \in s : Top(s) >= y
  BY <1>3 DEF Top
<1> QED
  BY <1>2, <1>4

LEMMA TopOfFirst ==
  ASSUME NEW k \in Nat, k > 0
  PROVE  Top(1..k) = k /\ (1..k) \ {Top(1..k)} = 1..(k - 1)
<1>1. 1..k \in SUBSET (1..k) /\ 1..k # {} /\ k \in 1..k
  OBVIOUS
<1>2. Top(1..k) \in 1..k /\ k <= Top(1..k)
  BY <1>1, TopFacts
<1>3. Top(1..k) = k
  BY <1>2
<1>4. (1..k) \ {k} = 1..(k - 1)
  OBVIOUS
<1> QED
  BY <1>3, <1>4

LEMMA FoldsExist ==
  ASSUME NEW t, NEW n \in Nat, NEW m \in Nat
  PROVE  \E h : FoldsUpTo(t, n, m, h)
<1> DEFINE Exists(k) == \E h : FoldsUpTo(t, n, k, h)
           bad == {k \in Nat : ~Exists(k)}
<1> HIDE DEF Exists
<1> SUFFICES ASSUME bad # {} PROVE FALSE
  BY DEF Exists
<1>1. bad \in SUBSET Nat
  OBVIOUS
<1> HIDE DEF bad
<1>2. PICK k \in bad : \A j \in bad : k <= j
  BY <1>1, LeastNumber
<1>3. k \in Nat /\ ~Exists(k)
  BY DEF bad
<1>4. CASE k = 0
  <2> DEFINE h == [s \in SUBSET (1..n) |-> 0]
  <2>1. ASSUME NEW s \in SUBSET (1..n), s \subseteq 1..0 PROVE h[s] = Folded(t, s, h)
    <3>1. s = {}
      BY <2>1
    <3> QED
      BY <3>1 DEF Folded
  <2>2. h = [s \in SUBSET (1..n) |-> h[s]]
    OBVIOUS
  <2> HIDE DEF h
  <2>3. FoldsUpTo(t, n, k, h)
    BY <1>4, <2>1, <2>2 DEF FoldsUpTo
  <2> QED
    BY <1>3, <2>3 DEF Exists
<1>5. CASE k # 0
  <2>1. k - 1 \in Nat /\ k - 1 \notin bad
    BY <1>2, <1>3, <1>5
  <2>2. PICK f : FoldsUpTo(t, n, k - 1, f)
    BY <2>1 DEF bad, Exists
  <2> DEFINE h == [s \in SUBSET (1..n) |-> Folded(t, s, f)]
  <2>3. ASSUME NEW s \in SUBSET (1..n), s \subseteq 1..k PROVE h[s] = Folded(t, s, h)
    <3>1. CASE s = {}
      BY <3>1 DEF Folded
    <3>2. CASE s # {}
      <4> DEFINE r == s \ {Top(s)}
      <4>1. r \in SUBSET (1..n)
        OBVIOUS
      <4>2. r \subseteq 1..(k - 1)
        <5>1. Top(s) \in s /\ \A y \in s : y <= Top(s)
          BY <3>2, TopFacts
        <5>2. ASSUME NEW y \in r PROVE y \in 1..(k - 1)
          <6>1. y \in 1..k /\ Top(s) \in 1..k /\ y <= Top(s) /\ y # Top(s)
            BY <2>3, <5>1
          <6> QED
            BY <1>3, <6>1
        <5> QED
          BY <5>2
      <4>3. f[r] = Folded(t, r, f)
        BY <2>2, <4>1, <4>2 DEF FoldsUpTo
      <4>4. h[r] = Folded(t, r, f) /\ h[s] = Folded(t, s, f)
        BY <4>1
      <4>5. Folded(t, s, f) = f[r] + t[Top(s)].dist /\ Folded(t, s, h) = h[r] + t[Top(s)].dist
        BY <3>2 DEF Folded
      <4> HIDE DEF h, r
      <4> QED
        BY <4>3, <4>4, <4>5
    <3> QED
      BY <3>1, <3>2
  <2>4. h = [s \in SUBSET (1..n) |-> h[s]]
    OBVIOUS
  <2> HIDE DEF h
  <2>5. FoldsUpTo(t, n, k, h)
    BY <2>3, <2>4 DEF FoldsUpTo
  <2> QED
    BY <1>3, <2>5 DEF Exists
<1> QED
  BY <1>4, <1>5

(* The fold of TourTable over the first arcs is the time that has passed.  *)
LEMMA FoldedTime ==
  ASSUME NEW S, NEW t \in Seq(S), \A p \in 1..Len(t) : t[p].dist \in Int, NEW q \in 0..Len(t)
  PROVE  Promise!Elapsed(t, q) = Elapsed(t)[q]
<1> DEFINE part == SubSeq(t, 1, q)
           Is(h) == h = [s \in SUBSET (1..q) |-> Folded(part, s, h)]
           iter == CHOOSE h : Is(h)
           e == Elapsed(t)
<1>1. Len(t) \in Nat /\ q \in Nat /\ q <= Len(t)
  OBVIOUS
<1>2. part \in Seq(S) /\ Len(part) = q /\ \A k \in 1..q : part[k] = t[k]
  BY <1>1
<1>3. DOMAIN part = 1..q
  BY <1>2
<1>4. Promise!Elapsed(t, q) = iter[1..q]
  <2>1. Promise!Elapsed(t, q) =
          (CHOOSE h : h = [s \in SUBSET (DOMAIN part) |-> Folded(part, s, h)])[DOMAIN part]
    BY DEF Promise!Elapsed, Promise!FoldLeft, Promise!MapThenFoldSet, Promise!Max, Folded, Top
  <2> HIDE DEF part
  <2> QED
    BY <1>3, <2>1
<1> HIDE DEF part
<1>5. \E h : Is(h)
  <2>1. PICK h : FoldsUpTo(part, q, q, h)
    BY <1>1, FoldsExist
  <2>2. \A s \in SUBSET (1..q) : h[s] = Folded(part, s, h)
    BY <2>1 DEF FoldsUpTo
  <2>3. h = [s \in SUBSET (1..q) |-> h[s]]
    BY <2>1 DEF FoldsUpTo
  <2> QED
    BY <2>2, <2>3
<1>6. Is(iter)
  <2> HIDE DEF Is
  <2> QED
    BY <1>5
<1> HIDE DEF iter
<1>7. \A s \in SUBSET (1..q) : iter[s] = Folded(part, s, iter)
  BY <1>6
<1> HIDE DEF Is
<1> DEFINE sum == [k \in 0..q |-> iter[1..k]]
<1>8. sum[0] = 0
  <2>1. 1..0 = {} /\ 1..0 \in SUBSET (1..q)
    OBVIOUS
  <2>2. iter[1..0] = 0
    BY <1>7, <2>1 DEF Folded
  <2> QED
    BY <1>1, <2>2
<1>9. \A k \in 1..q : sum[k] = sum[k - 1] + t[k].dist
  <2>1. ASSUME NEW k \in 1..q PROVE sum[k] = sum[k - 1] + t[k].dist
    <3>1. k \in Nat /\ k > 0 /\ k - 1 \in 0..q /\ k \in 0..q
      BY <1>1
    <3>2. 1..k \in SUBSET (1..q) /\ 1..k # {}
      BY <1>1, <3>1
    <3>3. Top(1..k) = k /\ (1..k) \ {Top(1..k)} = 1..(k - 1)
      BY <3>1, TopOfFirst
    <3>4. iter[1..k] = iter[1..(k - 1)] + part[k].dist
      BY <1>7, <3>2, <3>3 DEF Folded
    <3> QED
      BY <1>2, <3>1, <3>4
  <2> QED
    BY <2>1
<1> HIDE DEF sum
<1>10. /\ e[0] = 0
       /\ \A k \in 1..Len(t) : e[k] = e[k - 1] + t[k].dist
       /\ \A k \in 0..Len(t) : e[k] \in Int
  BY ElapsedFacts
<1> HIDE DEF e
<1>11. \A k \in 1..q : k \in 1..Len(t) /\ t[k].dist \in Int
  BY <1>1
<1> DEFINE bad == {k \in Nat : k <= q /\ sum[k] # e[k]}
<1>12. bad = {}
  <2> SUFFICES ASSUME bad # {} PROVE FALSE
    OBVIOUS
  <2>1. bad \in SUBSET Nat
    OBVIOUS
  <2> HIDE DEF bad
  <2>2. PICK k \in bad : \A j \in bad : k <= j
    BY <2>1, LeastNumber
  <2>3. k \in Nat /\ k <= q /\ sum[k] # e[k]
    BY DEF bad
  <2>4. k # 0
    BY <1>8, <1>10, <2>3
  <2>5. k \in 1..q /\ k - 1 \in Nat /\ k - 1 \notin bad
    BY <1>1, <2>2, <2>3, <2>4
  <2>6. sum[k - 1] = e[k - 1]
    BY <1>1, <2>3, <2>5 DEF bad
  <2>7. sum[k] = sum[k - 1] + t[k].dist /\ e[k] = e[k - 1] + t[k].dist
    BY <1>9, <1>10, <1>11, <2>5
  <2> QED
    BY <2>3, <2>6, <2>7
<1>13. sum[q] = e[q]
  BY <1>1, <1>12
<1> QED
  BY <1>1, <1>4, <1>13 DEF sum, e

-----------------------------------------------------------------------------
(* The rows are the runs of the tour.                                      *)
(*                                                                         *)
(* Each row ends with an arc, later rows with later arcs, and an arc that  *)
(* ends a run is the end of a row, unless it was a change that is erased.  *)

Breaks(t, q) == ~compact \/ t[q + 1].name # t[q].name

IsRun(t, p, q) ==
  /\ p \in 1..q
  /\ p = 1 \/ Breaks(t, p - 1)
  /\ \A r \in p..(q - 1) : ~Breaks(t, r)

RowEnds(t, col, k, q) ==
  /\ col[1][k] = t[q].name
  /\ col[2][k] = StationOfNode(t[q].to)
  /\ col[3][k] = Elapsed(t)[q]
  /\ \E p \in 1..q : IsRun(t, p, q) /\ col[0][k] = StationOfNode(t[p].from)

RowsEnd(t, col, n, P, e) ==
  /\ \A k \in 2..n : e[k] \in 1..(P - 1) /\ RowEnds(t, col, k, e[k])
  /\ \A j, k \in 2..n : j < k => e[j] < e[k]
  /\ n > 1 => e[n] = P - 1
  /\ \A k \in 2..(n - 1) : Breaks(t, e[k])

Covers(t, n, P, e, gone) ==
  \A q \in 1..(P - 2) : Breaks(t, q) => q \in gone \/ \E k \in 2..n : e[k] = q

(* The arcs whose rows may be erased. *)
MayGo ==
  IF phase # "rows" /\ compact
  THEN {q \in 1..Len(my_tour) : my_tour[q].name = CHANGE_NAME}
  ELSE {}

ToldFromStart ==
  IF start = NoStart THEN my_tour = tour
  ELSE \E p \in DOMAIN tour : Leaves(tour, p, start) /\ my_tour = RotatedTo(tour, p)

RowsAreRuns ==
  \E e : /\ RowsEnd(my_tour, column, Rows, position, e)
         /\ Covers(my_tour, Rows, position, e, MayGo)

(* The rows before the iterator are no changes. *)
ChangesAreErased ==
  /\ phase = "erasing" => compact
  /\ phase # "rows" /\ compact =>
       \A k \in 2..(Rows - 1) : k < it \/ phase # "erasing" => column[1][k] # CHANGE_NAME

RunsAreTold ==
  phase \in {"rows", "erasing", "printing", "printed"} =>
    ToldFromStart /\ RowsAreRuns /\ ChangesAreErased

(* An arc that does not go on with the last row begins a row. *)
LEMMA EndsAdded ==
  ASSUME NEW t, NEW n \in Nat \ {0}, NEW P \in Nat \ {0}, NEW e, NEW col, NEW new,
         RowsEnd(t, col, n, P, e), Covers(t, n, P, e, {}),
         n > 1 <=> P > 1, P > 1 => Breaks(t, P - 1),
         \A c \in 0..3 : \A k \in 1..n : new[c][k] = col[c][k],
         new[0][n + 1] = StationOfNode(t[P].from), new[1][n + 1] = t[P].name,
         new[2][n + 1] = StationOfNode(t[P].to), new[3][n + 1] = Elapsed(t)[P]
  PROVE  \E f : RowsEnd(t, new, n + 1, P + 1, f) /\ Covers(t, n + 1, P + 1, f, {})
<1> DEFINE f == [k \in 2..(n + 1) |-> IF k = n + 1 THEN P ELSE e[k]]
<1>1. n + 1 \in 2..(n + 1) /\ \A k \in 2..n : k \in 2..(n + 1) /\ k # n + 1 /\ k \in 1..n
  OBVIOUS
<1>2. f[n + 1] = P /\ \A k \in 2..n : f[k] = e[k]
  BY <1>1
<1> HIDE DEF f
<1>3. /\ \A k \in 2..n : e[k] \in 1..(P - 1) /\ RowEnds(t, col, k, e[k])
      /\ \A j, k \in 2..n : j < k => e[j] < e[k]
      /\ n > 1 => e[n] = P - 1
      /\ \A k \in 2..(n - 1) : Breaks(t, e[k])
  BY DEF RowsEnd
<1>4. RowEnds(t, new, n + 1, P)
  <2>1. IsRun(t, P, P)
    BY DEF IsRun
  <2> QED
    BY <2>1 DEF RowEnds
<1>5. ASSUME NEW k \in 2..n PROVE RowEnds(t, new, k, e[k])
  <2>1. /\ new[0][k] = col[0][k] /\ new[1][k] = col[1][k]
        /\ new[2][k] = col[2][k] /\ new[3][k] = col[3][k]
    BY <1>1
  <2> QED
    BY <1>3, <2>1 DEF RowEnds
<1>6. ASSUME NEW k \in 2..(n + 1)
      PROVE  f[k] \in 1..P /\ RowEnds(t, new, k, f[k])
  <2>1. CASE k = n + 1
    BY <1>2, <1>4, <2>1
  <2>2. CASE k # n + 1
    <3>1. k \in 2..n
      BY <2>2
    <3>2. e[k] \in 1..(P - 1)
      BY <1>3, <3>1
    <3>3. e[k] \in 1..P
      BY <3>2
    <3> QED
      BY <1>2, <1>5, <3>1, <3>3
  <2> QED
    BY <2>1, <2>2
<1>7. ASSUME NEW j \in 2..(n + 1), NEW k \in 2..(n + 1), j < k PROVE f[j] < f[k]
  <2>1. j \in 2..n
    BY <1>7
  <2>2. f[j] = e[j] /\ e[j] \in 1..(P - 1)
    BY <1>2, <1>3, <2>1
  <2>3. CASE k = n + 1
    BY <1>2, <2>2, <2>3
  <2>4. CASE k # n + 1
    <3>1. k \in 2..n
      BY <2>4
    <3> QED
      BY <1>2, <1>3, <1>7, <2>1, <3>1
  <2> QED
    BY <2>3, <2>4
<1>8. ASSUME NEW k \in 2..n PROVE Breaks(t, f[k])
  <2>1. CASE k = n
    <3>1. n > 1 /\ f[k] = P - 1
      BY <1>2, <1>3, <2>1
    <3> QED
      BY <3>1
  <2>2. CASE k # n
    <3>1. k \in 2..(n - 1)
      BY <2>2
    <3> QED
      BY <1>2, <1>3, <3>1
  <2> QED
    BY <2>1, <2>2
<1>9. RowsEnd(t, new, n + 1, P + 1, f)
  <2>1. (P + 1) - 1 = P /\ (n + 1) - 1 = n
    OBVIOUS
  <2> QED
    BY <1>2, <1>6, <1>7, <1>8, <2>1 DEF RowsEnd
<1>10. Covers(t, n + 1, P + 1, f, {})
  <2> SUFFICES ASSUME NEW q \in 1..(P - 1), Breaks(t, q) PROVE \E k \in 2..(n + 1) : f[k] = q
    <3>1. (P + 1) - 2 = P - 1
      OBVIOUS
    <3> QED
      BY <3>1 DEF Covers
  <2>1. CASE q = P - 1
    <3>1. n \in 2..n /\ e[n] = P - 1
      BY <1>3, <2>1
    <3> QED
      BY <1>1, <1>2, <2>1, <3>1
  <2>2. CASE q # P - 1
    <3>1. q \in 1..(P - 2)
      BY <2>2
    <3>2. PICK k \in 2..n : e[k] = q
      BY <3>1 DEF Covers
    <3> QED
      BY <1>1, <1>2, <3>2
  <2> QED
    BY <2>1, <2>2
<1> QED
  BY <1>9, <1>10

(* An arc with the name of the arc before it makes its row go on. *)
LEMMA EndsExtended ==
  ASSUME NEW t, NEW n \in Nat, n > 1, NEW P \in Nat, P > 1, NEW e, NEW col, NEW new,
         RowsEnd(t, col, n, P, e), Covers(t, n, P, e, {}),
         compact, col[1][n] = t[P].name,
         \A c \in 0..3 : \A k \in 1..(n - 1) : new[c][k] = col[c][k],
         new[0][n] = col[0][n], new[1][n] = col[1][n],
         new[2][n] = StationOfNode(t[P].to), new[3][n] = Elapsed(t)[P]
  PROVE  \E f : RowsEnd(t, new, n, P + 1, f) /\ Covers(t, n, P + 1, f, {})
<1> DEFINE f == [k \in 2..n |-> IF k = n THEN P ELSE e[k]]
<1>1. n \in 2..n /\ \A k \in 2..(n - 1) : k \in 2..n /\ k # n /\ k \in 1..(n - 1)
  OBVIOUS
<1>2. f[n] = P /\ \A k \in 2..(n - 1) : f[k] = e[k]
  BY <1>1
<1> HIDE DEF f
<1>3. /\ \A k \in 2..n : e[k] \in 1..(P - 1) /\ RowEnds(t, col, k, e[k])
      /\ \A j, k \in 2..n : j < k => e[j] < e[k]
      /\ e[n] = P - 1
      /\ \A k \in 2..(n - 1) : Breaks(t, e[k])
  BY DEF RowsEnd
<1>4. ~Breaks(t, P - 1)
  <2>1. col[1][n] = t[P - 1].name
    BY <1>1, <1>3 DEF RowEnds
  <2>2. (P - 1) + 1 = P
    OBVIOUS
  <2> QED
    BY <2>1, <2>2 DEF Breaks
<1>5. RowEnds(t, new, n, P)
  <2>1. PICK p \in 1..(P - 1) : IsRun(t, p, P - 1) /\ col[0][n] = StationOfNode(t[p].from)
    BY <1>1, <1>3 DEF RowEnds
  <2>2. ASSUME NEW r \in p..(P - 1) PROVE ~Breaks(t, r)
    <3>1. CASE r = P - 1
      BY <1>4, <3>1
    <3>2. CASE r # P - 1
      <4>1. r \in p..((P - 1) - 1)
        BY <3>2
      <4> QED
        BY <2>1, <4>1 DEF IsRun
    <3> QED
      BY <3>1, <3>2
  <2>3. IsRun(t, p, P) /\ p \in 1..P
    BY <2>1, <2>2 DEF IsRun
  <2> QED
    BY <2>1, <2>3 DEF RowEnds
<1>6. ASSUME NEW k \in 2..(n - 1) PROVE RowEnds(t, new, k, e[k])
  <2>1. /\ new[0][k] = col[0][k] /\ new[1][k] = col[1][k]
        /\ new[2][k] = col[2][k] /\ new[3][k] = col[3][k]
    BY <1>1
  <2> QED
    BY <1>1, <1>3, <2>1 DEF RowEnds
<1>7. ASSUME NEW k \in 2..n PROVE f[k] \in 1..P /\ RowEnds(t, new, k, f[k])
  <2>1. CASE k = n
    BY <1>2, <1>5, <2>1
  <2>2. CASE k # n
    <3>1. k \in 2..(n - 1)
      BY <2>2
    <3>2. e[k] \in 1..(P - 1)
      BY <1>3
    <3>3. e[k] \in 1..P
      BY <3>2
    <3> QED
      BY <1>2, <1>6, <3>1, <3>3
  <2> QED
    BY <2>1, <2>2
<1>8. ASSUME NEW j \in 2..n, NEW k \in 2..n, j < k PROVE f[j] < f[k]
  <2>1. j \in 2..(n - 1)
    BY <1>8
  <2>2. f[j] = e[j] /\ e[j] \in 1..(P - 1)
    BY <1>2, <1>3, <2>1
  <2>3. CASE k = n
    BY <1>2, <2>2, <2>3
  <2>4. CASE k # n
    <3>1. k \in 2..(n - 1)
      BY <2>4
    <3> QED
      BY <1>2, <1>3, <1>8, <2>1, <3>1
  <2> QED
    BY <2>3, <2>4
<1>9. RowsEnd(t, new, n, P + 1, f)
  <2>1. (P + 1) - 1 = P
    OBVIOUS
  <2> QED
    BY <1>2, <1>3, <1>7, <1>8, <2>1 DEF RowsEnd
<1>10. Covers(t, n, P + 1, f, {})
  <2> SUFFICES ASSUME NEW q \in 1..(P - 1), Breaks(t, q) PROVE \E k \in 2..n : f[k] = q
    <3>1. (P + 1) - 2 = P - 1
      OBVIOUS
    <3> QED
      BY <3>1 DEF Covers
  <2>1. q # P - 1
    BY <1>4
  <2>2. q \in 1..(P - 2)
    BY <2>1
  <2>3. PICK k \in 2..n : e[k] = q
    BY <2>2 DEF Covers
  <2>4. k \in 2..(n - 1)
    <3>1. k # n
      BY <1>3, <2>1, <2>3
    <3> QED
      BY <3>1
  <2> QED
    BY <1>1, <1>2, <2>3, <2>4
<1> QED
  BY <1>9, <1>10

(* A row in the middle is erased with its arc. *)
LEMMA EndsErased ==
  ASSUME NEW t, NEW n \in Nat, NEW P \in Nat, NEW e, NEW col, NEW new, NEW gone,
         NEW a \in 2..(n - 1),
         RowsEnd(t, col, n, P, e), Covers(t, n, P, e, gone), e[a] \in gone,
         \A c \in 0..3 : \A k \in 1..(a - 1) : new[c][k] = col[c][k],
         \A c \in 0..3 : \A k \in a..(n - 1) : new[c][k] = col[c][k + 1]
  PROVE  \E f : RowsEnd(t, new, n - 1, P, f) /\ Covers(t, n - 1, P, f, gone)
<1> DEFINE old(k) == IF k < a THEN k ELSE k + 1
           f == [k \in 2..(n - 1) |-> e[old(k)]]
<1>1. /\ \A k \in 2..(n - 1) : old(k) \in 2..n /\ old(k) # a
      /\ \A j, k \in 2..(n - 1) : j < k => old(j) < old(k)
      /\ \A k \in 2..(n - 2) : k \in 2..(n - 1) /\ old(k) \in 2..(n - 1)
      /\ n - 1 \in 2..(n - 1) /\ old(n - 1) = n
  OBVIOUS
<1>2. \A k \in 2..(n - 1) : f[k] = e[old(k)]
  OBVIOUS
<1>3. /\ \A k \in 2..n : e[k] \in 1..(P - 1) /\ RowEnds(t, col, k, e[k])
      /\ \A j, k \in 2..n : j < k => e[j] < e[k]
      /\ e[n] = P - 1
      /\ \A k \in 2..(n - 1) : Breaks(t, e[k])
  <2>1. n > 1
    OBVIOUS
  <2> QED
    BY <2>1 DEF RowsEnd
<1>4. ASSUME NEW k \in 2..(n - 1) PROVE \A c \in 0..3 : new[c][k] = col[c][old(k)]
  <2>1. CASE k < a
    <3>1. k \in 1..(a - 1) /\ old(k) = k
      BY <2>1
    <3> QED
      BY <3>1
  <2>2. CASE ~(k < a)
    <3>1. k \in a..(n - 1) /\ old(k) = k + 1
      BY <2>2
    <3> QED
      BY <3>1
  <2> QED
    BY <2>1, <2>2
<1>5. \A k \in 2..n : k # a => \E j \in 2..(n - 1) : old(j) = k
  <2>1. ASSUME NEW k \in 2..n, k # a PROVE \E j \in 2..(n - 1) : old(j) = k
    <3>1. CASE k < a
      <4>1. k \in 2..(n - 1) /\ old(k) = k
        BY <3>1
      <4> QED
        BY <4>1
    <3>2. CASE ~(k < a)
      <4>1. k - 1 \in 2..(n - 1) /\ old(k - 1) = k
        BY <2>1, <3>2
      <4> QED
        BY <4>1
    <3> QED
      BY <3>1, <3>2
  <2> QED
    BY <2>1
<1> HIDE DEF f, old
<1>6. ASSUME NEW k \in 2..(n - 1) PROVE f[k] \in 1..(P - 1) /\ RowEnds(t, new, k, f[k])
  <2>1. /\ new[0][k] = col[0][old(k)] /\ new[1][k] = col[1][old(k)]
        /\ new[2][k] = col[2][old(k)] /\ new[3][k] = col[3][old(k)]
    BY <1>4
  <2>2. e[old(k)] \in 1..(P - 1) /\ RowEnds(t, col, old(k), e[old(k)])
    BY <1>1, <1>3
  <2>3. RowEnds(t, new, k, e[old(k)])
    BY <2>1, <2>2 DEF RowEnds
  <2> QED
    BY <1>2, <2>2, <2>3
<1>7. ASSUME NEW j \in 2..(n - 1), NEW k \in 2..(n - 1), j < k PROVE f[j] < f[k]
  <2>1. old(j) \in 2..n /\ old(k) \in 2..n /\ old(j) < old(k)
    BY <1>1, <1>7
  <2> QED
    BY <1>2, <1>3, <2>1
<1>8. ASSUME NEW k \in 2..(n - 2) PROVE Breaks(t, f[k])
  BY <1>1, <1>2, <1>3
<1>9. f[n - 1] = P - 1
  BY <1>1, <1>2, <1>3
<1>10. RowsEnd(t, new, n - 1, P, f)
  <2>1. (n - 1) - 1 = n - 2
    OBVIOUS
  <2> QED
    BY <1>6, <1>7, <1>8, <1>9, <2>1 DEF RowsEnd
<1>11. Covers(t, n - 1, P, f, gone)
  <2> SUFFICES ASSUME NEW q \in 1..(P - 2), Breaks(t, q), q \notin gone
               PROVE  \E k \in 2..(n - 1) : f[k] = q
    BY DEF Covers
  <2>1. PICK k \in 2..n : e[k] = q
    BY DEF Covers
  <2>2. k # a
    BY <2>1
  <2>3. PICK j \in 2..(n - 1) : old(j) = k
    BY <1>5, <2>2
  <2> QED
    BY <1>2, <2>1, <2>3
<1> QED
  BY <1>10, <1>11

(* The station of a node, the compact table and the tour stay as they are. *)
LEMMA RunsStay ==
  ASSUME UNCHANGED <<lines, compact, my_tour>>, NEW e,
         RowsEnd(my_tour, column', Rows', position', e),
         Covers(my_tour, Rows', position', e, MayGo')
  PROVE  RowsAreRuns'
<1>1. ASSUME NEW q PROVE Breaks(my_tour, q)' <=> Breaks(my_tour, q)
  BY DEF Breaks
<1>2. ASSUME NEW p, NEW q PROVE IsRun(my_tour, p, q)' <=> IsRun(my_tour, p, q)
  BY <1>1 DEF IsRun
<1>3. ASSUME NEW k, NEW q
      PROVE  RowEnds(my_tour, column, k, q)' <=> RowEnds(my_tour, column', k, q)
  <2>1. \A n : StationOfNode(n)' = StationOfNode(n)
    BY DEF StationOfNode, StationAt
  <2> QED
    BY <1>2, <2>1 DEF RowEnds
<1>4. RowsEnd(my_tour, column, Rows, position, e)'
  BY <1>1, <1>3 DEF RowsEnd
<1>5. Covers(my_tour, Rows, position, e, MayGo)'
  BY <1>1 DEF Covers
<1> QED
  BY <1>4, <1>5 DEF RowsAreRuns

LEMMA ToldStays ==
  ASSUME UNCHANGED <<lines, tour, start, my_tour>>, ToldFromStart
  PROVE  ToldFromStart'
BY DEF ToldFromStart, Leaves, StationOfNode, StationAt, RotatedTo

LEMMA FirstRun ==
  ASSUME IInv, phase = "rotating", phase' = "rows", ToldFromStart',
         UNCHANGED <<lines, compact, position, column>>
  PROVE  RunsAreTold'
<1>1. Rows' = 1 /\ position' = 1
  BY DEF IInv, BeforeRows, Rows
<1>2. RowsEnd(my_tour, column, Rows, position, <<>>)'
  BY <1>1 DEF RowsEnd
<1>3. Covers(my_tour, Rows, position, <<>>, MayGo)'
  BY <1>1 DEF Covers
<1>4. RowsAreRuns' /\ ChangesAreErased'
  BY <1>2, <1>3 DEF RowsAreRuns, ChangesAreErased
<1> QED
  BY <1>4 DEF RunsAreTold

LEMMA RotateRuns ==
  ASSUME IInv, Rotate
  PROVE  RunsAreTold'
<1>1. /\ phase = "rotating" /\ start # NoStart
      /\ UNCHANGED <<arguments, position, time, column, it, i, changes>>
  BY DEF Rotate
<1> DEFINE leaving == {p \in DOMAIN tour : Leaves(tour, p, start)}
<1>2. CASE phase' = "thrown"
  BY <1>2 DEF RunsAreTold
<1>3. CASE /\ leaving # {} /\ phase' = "rows"
           /\ my_tour' = RotatedTo(tour, CHOOSE p \in leaving : \A q \in leaving : q <= p)
  <2>1. leaving \in SUBSET (1..Len(tour)) /\ Len(tour) \in Nat
    BY GivenFacts DEF IInv, IsJourney
  <2>2. \E p \in leaving : \A q \in leaving : q <= p
    <3> HIDE DEF leaving
    <3> QED
      BY <1>3, <2>1, LastPosition
  <2>3. PICK p \in leaving : my_tour' = RotatedTo(tour, p)
    <3> HIDE DEF leaving
    <3> QED
      BY <1>3, <2>2
  <2>4. /\ lines' = lines /\ tour' = tour /\ start' = start /\ compact' = compact
    BY <1>1 DEF arguments
  <2>5. ToldFromStart'
    BY <1>1, <2>3, <2>4 DEF ToldFromStart, Leaves, StationOfNode, StationAt, RotatedTo
  <2> QED
    BY <1>1, <1>3, <2>4, <2>5, FirstRun
<1> QED
  BY <1>2, <1>3 DEF Rotate

LEMMA TakeAsItIsRuns ==
  ASSUME IInv, TakeAsItIs
  PROVE  RunsAreTold'
<1>1. /\ phase = "rotating" /\ phase' = "rows" /\ start = NoStart /\ my_tour' = tour
      /\ lines' = lines /\ tour' = tour /\ start' = start /\ compact' = compact
      /\ position' = position /\ column' = column
  BY DEF TakeAsItIs, arguments
<1>2. ToldFromStart'
  BY <1>1 DEF ToldFromStart
<1> QED
  BY <1>1, <1>2, FirstRun

LEMMA TakeArcRuns ==
  ASSUME IInv, RunsAreTold, TakeArc
  PROVE  RunsAreTold'
<1>0. PICK n, P, t : n = Rows /\ P = position /\ t = my_tour
  OBVIOUS
<1>1. /\ phase = "rows" /\ phase' = "rows" /\ P \in DOMAIN my_tour
      /\ position' = P + 1 /\ time' = time + Arc.dist /\ time' \in Int
      /\ lines' = lines /\ tour' = tour /\ start' = start /\ my_tour' = t
      /\ \/ ~ExtendsRow /\ ColumnsAreLevel' /\ Added(time')
         \/ /\ compact /\ Rows > 1 /\ column[1][Rows] = Arc.name
            /\ ColumnsAreLevel' /\ Extended(time')
  BY <1>0, TakeArcFacts
<1>2. /\ n \in Nat \ {0} /\ P \in Nat \ {0} /\ (n > 1 <=> P > 1)
      /\ ColumnsAreLevel
  BY <1>0, <1>1, ToldFacts DEF WhileTold, RowsAreJoined
<1>3. time' = Elapsed(t)[P] /\ Arc = t[P]
  BY <1>0, <1>1, ArcFacts DEF Arc
<1>4. compact' = compact
  BY DEF TakeArc, arguments
<1>5. ToldFromStart' /\ ChangesAreErased'
  BY <1>0, <1>1, <1>4, ToldStays DEF RunsAreTold, ChangesAreErased
<1>6. MayGo = {} /\ MayGo' = {}
  BY <1>1 DEF MayGo
<1>7. PICK e : RowsEnd(t, column, n, P, e) /\ Covers(t, n, P, e, {})
  BY <1>0, <1>1, <1>6 DEF RunsAreTold, RowsAreRuns
<1>8. \E f : RowsEnd(t, column', Rows', position', f) /\ Covers(t, Rows', position', f, {})
  <2>1. CASE ~ExtendsRow /\ ColumnsAreLevel' /\ Added(time')
    <3>1. /\ Rows' = n + 1
          /\ \A c \in 0..3 : \A k \in 1..n : column'[c][k] = column[c][k]
          /\ column'[0][n + 1] = StationOfNode(t[P].from)
          /\ column'[1][n + 1] = t[P].name
          /\ column'[2][n + 1] = StationOfNode(t[P].to)
          /\ column'[3][n + 1] = Elapsed(t)[P]
      BY <1>0, <1>3, <2>1 DEF Added
    <3>2. ASSUME P > 1 PROVE Breaks(t, P - 1)
      <4>1. n > 1 /\ n \in 2..n
        BY <1>2, <3>2
      <4>2. column[1][n] = t[P - 1].name
        <5>1. e[n] = P - 1 /\ RowEnds(t, column, n, e[n])
          BY <1>7, <4>1 DEF RowsEnd
        <5> QED
          BY <5>1 DEF RowEnds
      <4>3. column[2][n] = StationOfNode(Arc.from)
        BY <1>0, <1>1, <4>1, LastRowEndsAtArc
      <4>4. Last(column[1]) = column[1][n] /\ Last(column[2]) = column[2][n]
        BY <1>0, <1>2 DEF ColumnsAreLevel, Last
      <4>5. ~compact \/ t[P - 1].name # t[P].name
        BY <1>0, <1>3, <2>1, <4>1, <4>2, <4>3, <4>4 DEF ExtendsRow
      <4>6. (P - 1) + 1 = P
        BY <1>2
      <4> QED
        BY <4>5, <4>6 DEF Breaks
    <3>3. \E f : RowsEnd(t, column', n + 1, P + 1, f) /\ Covers(t, n + 1, P + 1, f, {})
      <4> PICK new : new = column'
        OBVIOUS
      <4> QED
        BY <1>2, <1>7, <3>1, <3>2, EndsAdded
    <3> QED
      BY <1>1, <3>1, <3>3
  <2>2. CASE /\ compact /\ Rows > 1 /\ column[1][Rows] = Arc.name
             /\ ColumnsAreLevel' /\ Extended(time')
    <3>1. /\ Rows' = n /\ n > 1 /\ P > 1 /\ n \in Nat /\ P \in Nat
          /\ compact /\ column[1][n] = t[P].name
          /\ \A c \in 0..3 : \A k \in 1..(n - 1) : column'[c][k] = column[c][k]
          /\ column'[0][n] = column[0][n] /\ column'[1][n] = column[1][n]
          /\ column'[2][n] = StationOfNode(t[P].to)
          /\ column'[3][n] = Elapsed(t)[P]
      BY <1>0, <1>2, <1>3, <2>2 DEF Extended
    <3>2. \E f : RowsEnd(t, column', n, P + 1, f) /\ Covers(t, n, P + 1, f, {})
      <4> PICK new : new = column'
        OBVIOUS
      <4> QED
        BY <1>7, <3>1, EndsExtended
    <3> QED
      BY <1>1, <3>1, <3>2
  <2> QED
    BY <1>1, <2>1, <2>2
<1>9. RowsAreRuns'
  BY <1>0, <1>1, <1>4, <1>6, <1>8, RunsStay
<1> QED
  BY <1>5, <1>9 DEF RunsAreTold

(* The steps that add and erase nothing. *)
LEMMA SameRuns ==
  ASSUME IInv, RunsAreTold, phase \in {"rows", "erasing", "printing", "printed"},
         ChangesAreErased', MayGo \subseteq MayGo',
         UNCHANGED <<arguments, my_tour, position, column>>
  PROVE  RunsAreTold'
<1>1. /\ lines' = lines /\ tour' = tour /\ start' = start /\ compact' = compact
      /\ my_tour' = my_tour /\ position' = position /\ column' = column /\ Rows' = Rows
  BY DEF arguments, Rows
<1>2. PICK e : /\ RowsEnd(my_tour, column, Rows, position, e)
               /\ Covers(my_tour, Rows, position, e, MayGo)
  BY DEF RunsAreTold, RowsAreRuns
<1>3. RowsEnd(my_tour, column', Rows', position', e)
  BY <1>1, <1>2
<1>4. Covers(my_tour, Rows', position', e, MayGo')
  BY <1>1, <1>2 DEF Covers
<1>5. RowsAreRuns'
  BY <1>1, <1>3, <1>4, RunsStay
<1>6. ToldFromStart'
  BY <1>1, ToldStays DEF RunsAreTold
<1> QED
  BY <1>5, <1>6 DEF RunsAreTold

LEMMA RowsAreCompleteRuns ==
  ASSUME IInv, RunsAreTold, RowsAreComplete
  PROVE  RunsAreTold'
<1>1. /\ phase = "rows" /\ phase' = IF compact THEN "erasing" ELSE "printing"
      /\ UNCHANGED <<arguments, my_tour, position, column>>
      /\ it' = it /\ compact' = compact /\ column' = column /\ it = 1
  BY DEF RowsAreComplete, arguments, IInv
<1>2. ChangesAreErased'
  BY <1>1 DEF ChangesAreErased
<1>3. MayGo \subseteq MayGo'
  BY <1>1 DEF MayGo
<1> QED
  BY <1>1, <1>2, <1>3, SameRuns

LEMMA KeepRowRuns ==
  ASSUME IInv, RunsAreTold, KeepRow
  PROVE  RunsAreTold'
<1>1. /\ phase = "erasing" /\ phase' = "erasing" /\ it <= Len(column[1]) /\ ~IsErased
      /\ it' = it + 1 /\ compact' = compact /\ my_tour' = my_tour /\ column' = column
      /\ UNCHANGED <<arguments, my_tour, position, column>>
  BY DEF KeepRow, arguments
<1>2. /\ Rows \in Nat \ {0} /\ it \in 1..(Rows + 1) /\ Len(column[1]) = Rows /\ Rows' = Rows
  BY <1>1, ToldFacts DEF ColumnsAreLevel, Rows
<1>3. ChangesAreErased
  BY <1>1 DEF RunsAreTold
<1>4. ASSUME compact, NEW k \in 2..(Rows - 1), k < it + 1 PROVE column[1][k] # CHANGE_NAME
  <2>1. CASE k < it
    BY <1>1, <1>3, <1>4, <2>1 DEF ChangesAreErased
  <2>2. CASE ~(k < it)
    <3>1. k = it /\ it # 1 /\ it + 1 <= Len(column[1])
      BY <1>2, <1>4, <2>2
    <3> QED
      BY <1>1, <3>1 DEF IsErased
  <2> QED
    BY <2>1, <2>2
<1>5. ChangesAreErased'
  BY <1>1, <1>2, <1>3, <1>4 DEF ChangesAreErased
<1>6. MayGo \subseteq MayGo'
  BY <1>1 DEF MayGo
<1> QED
  BY <1>1, <1>5, <1>6, SameRuns

LEMMA RowsAreErasedRuns ==
  ASSUME IInv, RunsAreTold, RowsAreErased
  PROVE  RunsAreTold'
<1>1. /\ phase = "erasing" /\ phase' = "printing" /\ it > Len(column[1])
      /\ it' = it /\ compact' = compact /\ my_tour' = my_tour /\ column' = column
      /\ UNCHANGED <<arguments, my_tour, position, column>>
  BY DEF RowsAreErased, arguments
<1>2. /\ Rows \in Nat \ {0} /\ it \in 1..(Rows + 1) /\ Len(column[1]) = Rows /\ Rows' = Rows
  BY <1>1, ToldFacts DEF ColumnsAreLevel, Rows
<1>3. \A k \in 2..(Rows - 1) : k < it
  BY <1>1, <1>2
<1>4. ChangesAreErased'
  BY <1>1, <1>2, <1>3 DEF ChangesAreErased, RunsAreTold
<1>5. MayGo \subseteq MayGo'
  BY <1>1 DEF MayGo
<1> QED
  BY <1>1, <1>4, <1>5, SameRuns

LEMMA PrintTourRuns ==
  ASSUME IInv, RunsAreTold, PrintTour
  PROVE  RunsAreTold'
<1>1. /\ phase = "printing" /\ phase' = "printed"
      /\ it' = it /\ compact' = compact /\ my_tour' = my_tour /\ column' = column
      /\ UNCHANGED <<arguments, my_tour, position, column>>
  BY DEF PrintTour, arguments
<1>2. ChangesAreErased'
  BY <1>1 DEF ChangesAreErased, RunsAreTold, Rows
<1>3. MayGo \subseteq MayGo'
  BY <1>1 DEF MayGo
<1> QED
  BY <1>1, <1>2, <1>3, SameRuns

LEMMA EraseRowRuns ==
  ASSUME IInv, RunsAreTold, EraseRow
  PROVE  RunsAreTold'
<1>0. PICK n, P, a, t : n = Rows /\ P = position /\ a = it /\ t = my_tour
  OBVIOUS
<1>1. /\ phase = "erasing" /\ phase' = "erasing" /\ IsErased /\ it <= Len(column[1])
      /\ column' = Erased(i)
      /\ lines' = lines /\ tour' = tour /\ start' = start /\ compact' = compact
      /\ my_tour' = t /\ position' = P /\ it' = a
  BY <1>0 DEF EraseRow, arguments
<1>2. /\ ColumnsAreLevel /\ n \in Nat \ {0} /\ P \in Nat \ {0} /\ Len(column[1]) = n
      /\ it \in 1..(n + 1) /\ i = it - 1
  BY <1>0, <1>1, ToldFacts DEF ColumnsAreLevel
<1>3. a \in 2..(n - 1) /\ column[1][a] = CHANGE_NAME
  BY <1>0, <1>1, <1>2 DEF IsErased
<1>4. /\ Rows' = n - 1
      /\ \A c \in 0..3 : \A k \in 1..(a - 1) : column'[c][k] = column[c][k]
      /\ \A c \in 0..3 : \A k \in a..(n - 1) : column'[c][k] = column[c][k + 1]
  <2>1. Rows > 1 /\ it \in 1..Rows
    BY <1>0, <1>2, <1>3
  <2>2. RowErased
    BY <1>1, <1>2, <2>1, ErasedFacts
  <2> QED
    BY <1>0, <2>2 DEF RowErased
<1>5. ToldFromStart /\ RowsAreRuns /\ ChangesAreErased /\ compact
  BY <1>1 DEF RunsAreTold, ChangesAreErased
<1>6. MayGo' = MayGo
  BY <1>0, <1>1 DEF MayGo
<1>7. PICK e : RowsEnd(t, column, n, P, e) /\ Covers(t, n, P, e, MayGo)
  BY <1>0, <1>5 DEF RowsAreRuns
<1>8. e[a] \in MayGo
  <2>1. a \in 2..n
    BY <1>2, <1>3
  <2>2. e[a] \in 1..(P - 1) /\ t[e[a]].name = CHANGE_NAME
    BY <1>3, <1>7, <2>1 DEF RowsEnd, RowEnds
  <2>3. P = Len(t) + 1 /\ Len(t) \in Nat
    BY <1>0, <1>1, AllIsTold, ToldFacts
  <2>4. e[a] \in 1..Len(t)
    BY <2>2, <2>3
  <2> QED
    BY <1>0, <1>1, <1>5, <2>2, <2>4 DEF MayGo
<1>9. \E f : RowsEnd(t, column', n - 1, P, f) /\ Covers(t, n - 1, P, f, MayGo)
  <2> PICK new, gone : new = column' /\ gone = MayGo
    OBVIOUS
  <2>1. n \in Nat /\ P \in Nat
    BY <1>2
  <2> QED
    BY <1>3, <1>4, <1>7, <1>8, <2>1, EndsErased
<1>10. RowsAreRuns'
  BY <1>0, <1>1, <1>4, <1>6, <1>9, RunsStay
<1>11. ChangesAreErased'
  <2>1. ASSUME NEW k \in 2..(n - 2), k < a PROVE column'[1][k] # CHANGE_NAME
    <3>1. k \in 2..(n - 1) /\ k \in 1..(a - 1)
      BY <1>2, <1>3, <2>1
    <3>2. column[1][k] # CHANGE_NAME
      BY <1>0, <1>1, <1>5, <2>1, <3>1 DEF ChangesAreErased
    <3> QED
      BY <1>4, <3>1, <3>2
  <2>2. Rows' - 1 = n - 2
    BY <1>2, <1>4
  <2> QED
    BY <1>1, <1>5, <2>1, <2>2 DEF ChangesAreErased
<1>12. ToldFromStart'
  BY <1>0, <1>1, <1>5, ToldStays
<1> QED
  BY <1>10, <1>11, <1>12 DEF RunsAreTold

LEMMA RunsAreKept ==
  ASSUME IInv, RunsAreTold, [Next]_vars
  PROVE  RunsAreTold'
<1>1. CASE UNCHANGED vars
  <2>1. /\ phase' = phase /\ it' = it /\ compact' = compact
        /\ my_tour' = my_tour /\ column' = column /\ Rows' = Rows
        /\ UNCHANGED <<arguments, my_tour, position, column>>
    BY <1>1 DEF vars, arguments, Rows
  <2>2. CASE phase \in {"rows", "erasing", "printing", "printed"}
    <3>1. ChangesAreErased'
      BY <2>1, <2>2 DEF RunsAreTold, ChangesAreErased
    <3>2. MayGo \subseteq MayGo'
      BY <2>1 DEF MayGo
    <3> QED
      BY <2>1, <2>2, <3>1, <3>2, SameRuns
  <2>3. CASE ~(phase \in {"rows", "erasing", "printing", "printed"})
    BY <2>1, <2>3 DEF RunsAreTold
  <2> QED
    BY <2>2, <2>3
<1>2. CASE Next
  BY <1>2, RotateRuns, TakeAsItIsRuns, TakeArcRuns, RowsAreCompleteRuns,
     EraseRowRuns, KeepRowRuns, RowsAreErasedRuns, PrintTourRuns DEF Next
<1> QED
  BY <1>1, <1>2

-----------------------------------------------------------------------------
(* The printed table is the one that TourTable tells. *)

LEMMA AtLastRow ==
  ASSUME IInv, RunsAreTold, phase = "printing"
  PROVE  /\ Rows \in Nat /\ Rows > 1 /\ Len(my_tour) \in Nat \ {0}
         /\ position = Len(my_tour) + 1
         /\ my_tour \in Seq(ToSet(tour))
         /\ \A q \in 1..Len(my_tour) : my_tour[q].dist \in Int
         /\ compact => \A k \in 2..(Rows - 1) : column[1][k] # CHANGE_NAME
<1>1. /\ Given /\ WhileTold /\ Rows \in Nat \ {0} /\ Len(my_tour) \in Nat \ {0}
      /\ position = Len(my_tour) + 1
  BY ToldFacts, AllIsTold
<1>2. Rows > 1
  <2>1. position > 1
    BY <1>1
  <2> QED
    BY <1>1, <2>1 DEF WhileTold, RowsAreJoined
<1>3. compact => \A k \in 2..(Rows - 1) : column[1][k] # CHANGE_NAME
  BY DEF RunsAreTold, ChangesAreErased
<1> QED
  BY <1>1, <1>2, <1>3, JourneyFacts DEF WhileTold

LEMMA SameSize ==
  ASSUME NEW S
  PROVE  Promise!Cardinality(S) = Cardinality(S)
BY DEF Promise!Cardinality, Cardinality

(* Before the last arc, runs end where the name breaks. *)
LEMMA EndsOfRuns ==
  ASSUME NEW t, Len(t) \in Nat, NEW q \in 1..(Len(t) - 1)
  PROVE  Promise!EndsRun(t, q) <=> Breaks(t, q)
<1>1. q # Len(t)
  OBVIOUS
<1> QED
  BY <1>1 DEF Promise!EndsRun, Breaks

(* A run has one first arc. *)
LEMMA FirstIsFirst ==
  ASSUME NEW t, Len(t) \in Nat, NEW q \in 1..Len(t), NEW p, IsRun(t, p, q)
  PROVE  Promise!FirstOfRun(t, q) = p
<1> DEFINE Is(x) == /\ x = 1 \/ Promise!EndsRun(t, x - 1)
                    /\ \A k \in x..(q - 1) : ~Promise!EndsRun(t, k)
<1>1. p \in 1..q /\ (p = 1 \/ Breaks(t, p - 1)) /\ \A r \in p..(q - 1) : ~Breaks(t, r)
  BY DEF IsRun
<1>2. Is(p)
  <2>1. p # 1 => Promise!EndsRun(t, p - 1)
    <3>1. p # 1 => p - 1 \in 1..(Len(t) - 1)
      BY <1>1
    <3> QED
      BY <1>1, <3>1, EndsOfRuns
  <2>2. ASSUME NEW k \in p..(q - 1) PROVE ~Promise!EndsRun(t, k)
    <3>1. k \in 1..(Len(t) - 1)
      BY <1>1
    <3> QED
      BY <1>1, <3>1, EndsOfRuns
  <2> QED
    BY <2>1, <2>2
<1>3. ASSUME NEW x \in 1..q, Is(x) PROVE x = p
  <2>1. CASE x < p
    <3>1. p - 1 \in x..(q - 1) /\ p - 1 \in 1..(Len(t) - 1) /\ p # 1
      BY <1>1, <2>1
    <3>2. Breaks(t, p - 1) /\ ~Promise!EndsRun(t, p - 1)
      BY <1>1, <1>3, <3>1
    <3> QED
      BY <3>1, <3>2, EndsOfRuns
  <2>2. CASE p < x
    <3>1. x - 1 \in p..(q - 1) /\ x - 1 \in 1..(Len(t) - 1) /\ x # 1
      BY <1>1, <2>2
    <3>2. ~Breaks(t, x - 1) /\ Promise!EndsRun(t, x - 1)
      BY <1>1, <1>3, <3>1
    <3> QED
      BY <3>1, <3>2, EndsOfRuns
  <2> QED
    BY <1>1, <2>1, <2>2
<1>4. Promise!FirstOfRun(t, q) = CHOOSE x \in 1..q : Is(x)
  BY DEF Promise!FirstOfRun
<1> HIDE DEF Is
<1> QED
  BY <1>1, <1>2, <1>3, <1>4

(* The arcs in order: each is the one with so many up to it. *)
LEMMA NthInOrder ==
  ASSUME NEW m \in Nat, NEW f, \A j, k \in 1..m : j < k => f[j] < f[k],
         \A k \in 1..m : f[k] \in Int, NEW L,
         \A k \in 1..m : f[k] \in L, \A q \in L : \E k \in 1..m : q = f[k]
  PROVE  /\ Cardinality(L) = m
         /\ \A k \in 1..m : Promise!Nth(L, k) = f[k]
<1>0. L = {f[k] : k \in 1..m}
  OBVIOUS
<1>1. \A j, k \in 1..m : f[j] = f[k] => j = k
  <2>1. ASSUME NEW j \in 1..m, NEW k \in 1..m, f[j] = f[k] PROVE j = k
    <3>1. ~(j < k)
      <4> SUFFICES ASSUME j < k PROVE FALSE
        OBVIOUS
      <4>1. f[j] < f[k] /\ f[j] \in Int
        OBVIOUS
      <4> QED
        BY <2>1, <4>1
    <3>2. ~(k < j)
      <4> SUFFICES ASSUME k < j PROVE FALSE
        OBVIOUS
      <4>1. f[k] < f[j] /\ f[j] \in Int
        OBVIOUS
      <4> QED
        BY <2>1, <4>1
    <3> QED
      BY <3>1, <3>2
  <2> QED
    BY <2>1
<1>2. Cardinality(L) = m
  BY <1>0, <1>1, ImageSize
<1>3. ASSUME NEW k \in 1..m PROVE Cardinality({p \in L : p <= f[k]}) = k
  <2>1. {p \in L : p <= f[k]} = {f[j] : j \in 1..k}
    <3>1. ASSUME NEW j \in 1..m PROVE f[j] <= f[k] <=> j <= k
      <4>1. f[j] \in Int /\ f[k] \in Int
        OBVIOUS
      <4>2. CASE j < k
        <5>1. f[j] < f[k]
          BY <4>2
        <5> QED
          BY <4>1, <4>2, <5>1
      <4>3. CASE j = k
        BY <4>1, <4>3
      <4>4. CASE k < j
        <5>1. f[k] < f[j]
          BY <4>4
        <5> QED
          BY <4>1, <4>4, <5>1
      <4> QED
        BY <4>2, <4>3, <4>4
    <3>2. \A j \in 1..k : j \in 1..m /\ j <= k
      OBVIOUS
    <3>3. \A j \in 1..m : j <= k => j \in 1..k
      OBVIOUS
    <3> QED
      BY <3>1, <3>2, <3>3
  <2>2. k \in Nat /\ \A j, l \in 1..k : f[j] = f[l] => j = l
    <3>1. k \in Nat /\ \A j \in 1..k : j \in 1..m
      OBVIOUS
    <3> QED
      BY <1>1, <3>1
  <2>3. Cardinality({f[j] : j \in 1..k}) = k
    BY <2>2, ImageSize
  <2> QED
    BY <2>1, <2>3
<1>4. ASSUME NEW k \in 1..m PROVE Promise!Nth(L, k) = f[k]
  <2> DEFINE Is(q) == Cardinality({p \in L : p <= q}) = k
  <2>1. f[k] \in L /\ Is(f[k])
    BY <1>3
  <2>2. ASSUME NEW q \in L, Is(q) PROVE q = f[k]
    <3>1. PICK j \in 1..m : q = f[j]
      OBVIOUS
    <3>2. j = k
      BY <1>3, <2>2, <3>1
    <3> QED
      BY <3>1, <3>2
  <2>3. Promise!Nth(L, k) = CHOOSE q \in L : Is(q)
    BY SameSize DEF Promise!Nth
  <2> HIDE DEF Is
  <2> QED
    BY <2>1, <2>2, <2>3
<1> QED
  BY <1>2, <1>4

LEMMA TableIsTold ==
  ASSUME IInv, RunsAreTold, phase = "printing"
  PROVE  Promise!Table(my_tour) = [k \in 1..(Rows - 1) |-> RowAt(k + 1)]
<1>0. PICK n, t, N : n = Rows /\ t = my_tour /\ N = Len(my_tour)
  OBVIOUS
<1>1. /\ n \in Nat /\ n > 1 /\ N \in Nat \ {0} /\ N = Len(t)
      /\ position = N + 1
      /\ t \in Seq(ToSet(tour)) /\ DOMAIN t = 1..N
      /\ \A q \in 1..N : t[q].dist \in Int
      /\ compact => \A k \in 2..(n - 1) : column[1][k] # CHANGE_NAME
  BY <1>0, AtLastRow
<1>2. PICK e : RowsEnd(t, column, n, N + 1, e) /\ Covers(t, n, N + 1, e, MayGo)
  BY <1>0, <1>1 DEF RunsAreTold, RowsAreRuns
<1>3. /\ \A k \in 2..n : e[k] \in 1..N /\ RowEnds(t, column, k, e[k])
      /\ \A j, k \in 2..n : j < k => e[j] < e[k]
      /\ e[n] = N
      /\ \A k \in 2..(n - 1) : Breaks(t, e[k])
  <2>1. (N + 1) - 1 = N
    BY <1>1
  <2> QED
    BY <1>1, <1>2, <2>1 DEF RowsEnd
<1>4. \A q \in 1..(N - 1) : Breaks(t, q) => q \in MayGo \/ \E k \in 2..n : e[k] = q
  <2>1. (N + 1) - 2 = N - 1
    BY <1>1
  <2> QED
    BY <1>2, <2>1 DEF Covers
<1> DEFINE f == [k \in 1..(n - 1) |-> e[k + 1]]
           L == Promise!LastArcs(t)
<1>5. ASSUME NEW k \in 2..n PROVE e[k] \in L
  <2>1. e[k] \in 1..N /\ column[1][k] = t[e[k]].name
    BY <1>3 DEF RowEnds
  <2>2. CASE k = n
    <3>1. e[k] = N
      BY <1>3, <2>2
    <3> QED
      BY <1>1, <2>1, <3>1 DEF Promise!LastArcs, Promise!EndsRun, Promise!CHANGE_NAME, CHANGE_NAME
  <2>3. CASE k # n
    <3>1. k \in 2..(n - 1)
      BY <1>1, <2>3
    <3>2. Breaks(t, e[k]) /\ (compact => t[e[k]].name # CHANGE_NAME)
      BY <1>1, <1>3, <2>1, <3>1
    <3> QED
      BY <1>1, <2>1, <3>2
        DEF Promise!LastArcs, Promise!EndsRun, Promise!CHANGE_NAME, CHANGE_NAME, Breaks
  <2> QED
    BY <2>2, <2>3
<1>6. ASSUME NEW q \in L PROVE \E k \in 2..n : e[k] = q
  <2>1. /\ q \in 1..N /\ Promise!EndsRun(t, q)
        /\ compact /\ t[q].name = CHANGE_NAME => q = N
    BY <1>1 DEF Promise!LastArcs, L, Promise!CHANGE_NAME, CHANGE_NAME
  <2>2. CASE q = N
    <3>1. n \in 2..n
      BY <1>1
    <3> QED
      BY <1>3, <2>2, <3>1
  <2>3. CASE q # N
    <3>1. q \in 1..(N - 1)
      BY <1>1, <2>1, <2>3
    <3>2. Breaks(t, q)
      BY <1>1, <2>1, <3>1, EndsOfRuns
    <3>3. q \notin MayGo
      BY <1>0, <2>1, <2>3 DEF MayGo
    <3> QED
      BY <1>4, <3>1, <3>2, <3>3
  <2> QED
    BY <2>2, <2>3
<1>7. \A k \in 1..(n - 1) : k + 1 \in 2..n /\ f[k] = e[k + 1]
  BY <1>1
<1>8. \A k \in 2..n : k - 1 \in 1..(n - 1) /\ f[k - 1] = e[k]
  <2>1. ASSUME NEW k \in 2..n PROVE k - 1 \in 1..(n - 1) /\ f[k - 1] = e[k]
    <3>1. k - 1 \in 1..(n - 1) /\ (k - 1) + 1 = k
      BY <1>1
    <3> QED
      BY <1>7, <3>1
  <2> QED
    BY <2>1
<1> HIDE DEF f, L
<1>9. /\ \A q \in L : \E k \in 1..(n - 1) : q = f[k]
      /\ \A k \in 1..(n - 1) : f[k] \in L
  BY <1>5, <1>6, <1>7, <1>8
<1>10. Cardinality(L) = n - 1 /\ \A k \in 1..(n - 1) : Promise!Nth(L, k) = f[k]
  <2>1. \A j, k \in 1..(n - 1) : j < k => f[j] < f[k]
    <3>1. ASSUME NEW j \in 1..(n - 1), NEW k \in 1..(n - 1), j < k PROVE f[j] < f[k]
      <4>1. j + 1 \in 2..n /\ k + 1 \in 2..n /\ j + 1 < k + 1
        BY <1>1, <3>1
      <4> QED
        BY <1>3, <1>7, <4>1
    <3> QED
      BY <3>1
  <2>2. \A k \in 1..(n - 1) : f[k] \in Int
    <3>1. \A k \in 2..n : e[k] \in Int
      BY <1>1, <1>3
    <3> QED
      BY <1>7, <3>1
  <2>3. PICK m, g, S : m = n - 1 /\ g = f /\ S = L
    OBVIOUS
  <2>4. m \in Nat
    BY <1>1, <2>3
  <2>5. \A j, k \in 1..m : j < k => g[j] < g[k]
    BY ONLY <2>1, <2>3
  <2>6. \A k \in 1..m : g[k] \in Int
    BY ONLY <2>2, <2>3
  <2>7. (\A k \in 1..m : g[k] \in S) /\ \A q \in S : \E k \in 1..m : q = g[k]
    BY ONLY <1>9, <2>3
  <2>8. Cardinality(S) = m /\ \A k \in 1..m : Promise!Nth(S, k) = g[k]
    BY ONLY <2>4, <2>5, <2>6, <2>7, NthInOrder
  <2> QED
    BY ONLY <2>3, <2>8
<1>11. ASSUME NEW k \in 1..(n - 1) PROVE Promise!Row(t, f[k]) = RowAt(k + 1)
  <2>1. k + 1 \in 2..n /\ f[k] = e[k + 1]
    BY <1>7
  <2> DEFINE q == e[k + 1]
  <2>2. /\ q \in 1..N
        /\ column[1][k + 1] = t[q].name
        /\ column[2][k + 1] = StationOfNode(t[q].to)
        /\ column[3][k + 1] = Elapsed(t)[q]
    BY <1>3, <2>1 DEF RowEnds
  <2>3. PICK p \in 1..q : IsRun(t, p, q) /\ column[0][k + 1] = StationOfNode(t[p].from)
    BY <1>3, <2>1 DEF RowEnds
  <2> HIDE DEF q
  <2>4. Promise!FirstOfRun(t, q) = p
    BY <1>1, <2>2, <2>3, FirstIsFirst
  <2>5. Promise!Elapsed(t, q) = Elapsed(t)[q]
    <3>1. q \in 0..Len(t) /\ \A r \in 1..Len(t) : t[r].dist \in Int
      BY <1>1, <2>2
    <3> QED
      BY <1>1, <3>1, FoldedTime
  <2>6. \A x : Promise!StationOfNode(x) = StationOfNode(x)
    BY DEF Promise!StationOfNode, Promise!StationAt, StationOfNode, StationAt
  <2>7. Promise!Row(t, q) =
          <<StationOfNode(t[p].from), t[q].name, StationOfNode(t[q].to), Elapsed(t)[q]>>
    BY <2>4, <2>5, <2>6 DEF Promise!Row
  <2>8. Promise!Row(t, q) = RowAt(k + 1)
    BY <2>2, <2>3, <2>7 DEF RowAt
  <2> QED
    BY <2>1, <2>8 DEF q
<1>12. Promise!Table(t) =
         [k \in 1..Cardinality(L) |-> Promise!Row(t, Promise!Nth(L, k))]
  BY SameSize DEF Promise!Table, L
<1>13. Promise!Table(t) = [k \in 1..(n - 1) |-> RowAt(k + 1)]
  BY <1>10, <1>11, <1>12
<1> QED
  BY <1>0, <1>13

LEMMA TourIsTold ==
  ASSUME ToldFromStart
  PROVE  my_tour \in Promise!Told
<1>1. \A x : Promise!StationOfNode(x) = StationOfNode(x)
  BY DEF Promise!StationOfNode, Promise!StationAt, StationOfNode, StationAt
<1>2. CASE start = NoStart
  BY <1>2 DEF ToldFromStart, Promise!Told
<1>3. CASE start # NoStart
  <2>1. PICK p \in DOMAIN tour : Leaves(tour, p, start) /\ my_tour = RotatedTo(tour, p)
    BY <1>3 DEF ToldFromStart
  <2>2. my_tour = Promise!Rotation(p)
    BY <2>1 DEF RotatedTo, Promise!Rotation
  <2>3. p \in {q \in DOMAIN tour : Promise!StationOfNode(tour[q].from) = start}
    BY <1>1, <2>1 DEF Leaves
  <2> QED
    BY <1>3, <2>2, <2>3 DEF Promise!Told
<1> QED
  BY <1>2, <1>3

(* A tour is refused just when it does not leave the start station. *)
LEMMA NothingIsTold ==
  ASSUME start # NoStart, {p \in DOMAIN tour : Leaves(tour, p, start)} = {}
  PROVE  Promise!Told = {}
<1>1. \A x : Promise!StationOfNode(x) = StationOfNode(x)
  BY DEF Promise!StationOfNode, Promise!StationAt, StationOfNode, StationAt
<1>2. {q \in DOMAIN tour : Promise!StationOfNode(tour[q].from) = start} = {}
  BY <1>1 DEF Leaves
<1> QED
  BY <1>2 DEF Promise!Told

LEMMA PrintTourTells ==
  ASSUME IInv, RunsAreTold, PrintTour
  PROVE  Promise!Tell
<1>1. /\ phase = "printing" /\ phase' = "printed"
      /\ lines' = lines /\ tour' = tour /\ start' = start /\ compact' = compact
      /\ my_tour' = my_tour /\ column' = column
      /\ changes' = Cardinality({p \in DOMAIN tour : tour[p].name = CHANGE_NAME})
  BY DEF PrintTour, arguments
<1>2. Promise!Table(my_tour) = [k \in 1..(Rows - 1) |-> RowAt(k + 1)]
  BY <1>1, TableIsTold
<1>3. my_tour \in Promise!Told
  BY <1>1, TourIsTold DEF RunsAreTold
<1>4. (IF phase = "printed" THEN [k \in 1..(Rows - 1) |-> RowAt(k + 1)] ELSE <<>>)' =
        Promise!Table(my_tour)
  BY <1>1, <1>2 DEF RowAt, Rows
<1>5. {q \in DOMAIN tour : tour[q].connection} =
        {p \in DOMAIN tour : tour[p].name = CHANGE_NAME}
  <2>1. \A p \in DOMAIN tour : tour[p].connection <=> tour[p].name = CHANGE_NAME
    BY GivenFacts DEF IInv, ToSet
  <2> QED
    BY <2>1
<1> QED
  BY <1>1, <1>3, <1>4, <1>5, SameSize DEF Promise!Tell

(* Row by row, what TourTable states is printed, for every tour: a step    *)
(* tells the table, refuses the tour, or is not seen.                      *)
THEOREM OutputImplements ==
  Spec => Promise!TableInit /\ [][Promise!Tell \/ Promise!Refuse]_(Promise!tableVars)
<1>1. Init => Promise!TableInit
  BY DEF Init, Promise!TableInit
<1>2. Init => RunsAreTold
  BY DEF Init, RunsAreTold
<1>3. IInv /\ RunsAreTold /\ [Next]_vars => RunsAreTold'
  BY RunsAreKept
<1>4. ASSUME IInv, RunsAreTold, [Next]_vars
      PROVE  [Promise!Tell \/ Promise!Refuse]_(Promise!tableVars)
  <2>1. CASE PrintTour
    BY <1>4, <2>1, PrintTourTells
  <2>2. CASE Rotate /\ phase' = "thrown"
    <3>1. /\ phase = "rotating" /\ start # NoStart /\ changes' = changes
          /\ lines' = lines /\ tour' = tour /\ start' = start /\ compact' = compact
          /\ {p \in DOMAIN tour : Leaves(tour, p, start)} = {}
      BY <2>2 DEF Rotate, arguments
    <3>2. Promise!Told = {}
      BY <3>1, NothingIsTold
    <3>3. Promise!Refuse
      BY <2>2, <3>1, <3>2 DEF Promise!Refuse
    <3> QED
      BY <3>3
  <2>3. CASE \/ Rotate /\ phase' # "thrown"
             \/ TakeAsItIs \/ TakeArc
             \/ RowsAreComplete \/ EraseRow \/ KeepRow \/ RowsAreErased
    <3>1. /\ lines' = lines /\ tour' = tour /\ start' = start /\ compact' = compact
          /\ changes' = changes
      BY <2>3 DEF Rotate, TakeAsItIs, TakeArc, RowsAreComplete, EraseRow, KeepRow,
                  RowsAreErased, arguments
    <3>2. phase \notin {"printed", "thrown"} /\ phase' \notin {"printed", "thrown"}
      BY <2>3 DEF Rotate, TakeAsItIs, TakeArc, RowsAreComplete, EraseRow, KeepRow,
                  RowsAreErased
    <3> QED
      BY <3>1, <3>2 DEF Promise!tableVars
  <2>4. CASE UNCHANGED vars
    BY <2>4 DEF vars, arguments, Promise!tableVars, Rows, RowAt
  <2> QED
    BY <1>4, <2>1, <2>2, <2>3, <2>4 DEF Next
<1> QED
  BY <1>1, <1>2, <1>3, <1>4, TableInductive, PTL DEF Spec
=============================================================================
