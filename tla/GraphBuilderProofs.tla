------------------------- MODULE GraphBuilderProofs -------------------------
(***************************************************************************)
(* Proofs about the constructor of the graph builder, for all networks.    *)
(***************************************************************************)
EXTENDS GraphBuilder, SequenceLemmas

-----------------------------------------------------------------------------
(* What can be reached. *)

Closed(E, T) == \A a \in E : a.from \in T => a.to \in T

(* One step more, until there is nothing to add. *)
GrownIn(E, S, n, f) ==
  /\ f = [k \in 0..n |-> f[k]]
  /\ f[0] = S
  /\ \A k \in 1..n : f[k] = Grown(E, f[k - 1])

LEMMA GrownExists ==
  ASSUME NEW E, NEW S, NEW n \in Nat
  PROVE  \E f : GrownIn(E, S, n, f)
<1> DEFINE Exists(k) == \E f : GrownIn(E, S, k, f)
<1> SUFFICES Exists(n)
  OBVIOUS
<1> HIDE DEF Exists
<1> DEFINE bad == {k \in Nat : ~Exists(k)}
<1> SUFFICES ASSUME bad # {} PROVE FALSE
  OBVIOUS
<1>1. bad \in SUBSET Nat
  OBVIOUS
<1> HIDE DEF bad
<1>2. PICK k \in bad : \A m \in bad : k <= m
  BY <1>1, LeastNumber
<1>3. k \in Nat /\ ~Exists(k)
  BY DEF bad
<1>4. CASE k = 0
  <2> DEFINE f == [i \in 0..0 |-> S]
  <2>1. f = [i \in 0..0 |-> f[i]] /\ f[0] = S /\ \A i \in 1..0 : f[i] = Grown(E, f[i - 1])
    OBVIOUS
  <2> HIDE DEF f
  <2> QED
    BY <1>3, <1>4, <2>1 DEF Exists, GrownIn
<1>5. CASE k # 0
  <2>1. k - 1 \in Nat /\ k - 1 \notin bad
    BY <1>2, <1>3, <1>5
  <2>2. PICK f : GrownIn(E, S, k - 1, f)
    BY <2>1 DEF bad, Exists
  <2> DEFINE top == Grown(E, f[k - 1])
             g == [i \in 0..k |-> IF i = k THEN top ELSE f[i]]
  <2>3. g = [i \in 0..k |-> g[i]] /\ g[0] = S
    BY <1>3, <1>5, <2>2 DEF GrownIn
  <2>4. ASSUME NEW i \in 1..k PROVE g[i] = Grown(E, g[i - 1])
    <3>1. i - 1 \in 0..k /\ i - 1 # k /\ i \in 0..k
      BY <1>3
    <3>2. g[i - 1] = f[i - 1]
      BY <3>1
    <3>3. CASE i = k
      BY <3>1, <3>2, <3>3
    <3>4. CASE i # k
      <4>1. i \in 1..(k - 1)
        BY <1>3, <3>4
      <4> HIDE DEF top
      <4>2. g[i] = f[i]
        BY <3>1, <3>4
      <4> HIDE DEF g
      <4> QED
        BY <2>2, <3>2, <4>1, <4>2 DEF GrownIn
    <3> QED
      BY <3>3, <3>4
  <2> HIDE DEF g
  <2> QED
    BY <1>3, <2>3, <2>4 DEF Exists, GrownIn
<1> QED
  BY <1>4, <1>5

LEMMA GrownFacts ==
  ASSUME IsFiniteSet(nodes), NEW E, NEW S \in SUBSET nodes, \A a \in E : a.to \in nodes,
         NEW n \in Nat, NEW f, GrownIn(E, S, n, f), NEW k \in 0..n
  PROVE  /\ S \subseteq f[k] /\ f[k] \subseteq nodes
         /\ \A T : S \subseteq T /\ Closed(E, T) => f[k] \subseteq T
         /\ Closed(E, f[k]) \/ Cardinality(f[k]) > k
<1> DEFINE Good(j) ==
      /\ S \subseteq f[j] /\ f[j] \subseteq nodes
      /\ \A T : S \subseteq T /\ Closed(E, T) => f[j] \subseteq T
      /\ Closed(E, f[j]) \/ Cardinality(f[j]) > j
<1> SUFFICES Good(k)
  OBVIOUS
<1> HIDE DEF Good
<1> DEFINE bad == {j \in Nat : j \in 0..n /\ ~Good(j)}
<1> SUFFICES ASSUME bad # {} PROVE FALSE
  OBVIOUS
<1>1. bad \in SUBSET Nat
  OBVIOUS
<1> HIDE DEF bad
<1>2. PICK j \in bad : \A m \in bad : j <= m
  BY <1>1, LeastNumber
<1>3. j \in Nat /\ j \in 0..n /\ ~Good(j)
  BY DEF bad
<1>4. CASE j = 0
  <2>1. f[j] = S
    BY <1>4 DEF GrownIn
  <2>2. IsFiniteSet(S)
    BY FS_Subset
  <2>3. Closed(E, S) \/ Cardinality(S) > 0
    <3>1. Cardinality(S) \in Nat /\ (Cardinality(S) = 0 <=> S = {})
      BY <2>2, FS_CardinalityType, FS_EmptySet
    <3> QED
      BY <3>1 DEF Closed
  <2> QED
    BY <1>3, <1>4, <2>1, <2>3 DEF Good
<1>5. CASE j # 0
  <2>1. j - 1 \in 0..n /\ j - 1 \notin bad /\ j \in 1..n
    BY <1>2, <1>3, <1>5
  <2>2. Good(j - 1)
    BY <2>1 DEF bad
  <2> DEFINE F == f[j - 1]
  <2>3. f[j] = F \cup {a.to : a \in {b \in E : b.from \in F}}
    BY <2>1 DEF GrownIn, Grown
  <2> HIDE DEF F
  <2>4. /\ S \subseteq F /\ F \subseteq nodes
        /\ \A T : S \subseteq T /\ Closed(E, T) => F \subseteq T
        /\ Closed(E, F) \/ Cardinality(F) > j - 1
    BY <2>2 DEF F, Good
  <2>5. \A T : S \subseteq T /\ Closed(E, T) => f[j] \subseteq T
    BY <2>3, <2>4 DEF Closed
  <2>6. Closed(E, f[j]) \/ Cardinality(f[j]) > j
    <3>1. CASE Closed(E, F)
      <4>1. f[j] = F
        BY <2>3, <3>1 DEF Closed
      <4> QED
        BY <3>1, <4>1
    <3>2. CASE ~Closed(E, F)
      <4>1. f[j] # F /\ F \subseteq f[j] /\ f[j] \subseteq nodes
        BY <2>3, <2>4, <3>2 DEF Closed
      <4>2. IsFiniteSet(f[j])
        BY <4>1, FS_Subset
      <4>3. IsFiniteSet(F) /\ Cardinality(F) <= Cardinality(f[j])
            /\ Cardinality(f[j]) # Cardinality(F)
        BY <4>1, <4>2, FS_Subset
      <4>4. Cardinality(F) \in Nat /\ Cardinality(f[j]) \in Nat
        BY <4>2, <4>3, FS_CardinalityType
      <4> QED
        BY <1>3, <2>4, <3>2, <4>3, <4>4
    <3> QED
      BY <3>1, <3>2
  <2>7. S \subseteq f[j] /\ f[j] \subseteq nodes
    BY <2>3, <2>4
  <2> QED
    BY <1>3, <2>5, <2>6, <2>7 DEF Good
<1> QED
  BY <1>4, <1>5

(* Reach is the smallest set with the nodes of S that is closed under E.   *)
LEMMA ReachFacts ==
  ASSUME IsFiniteSet(nodes), NEW E, NEW S \in SUBSET nodes, \A a \in E : a.to \in nodes
  PROVE  /\ S \subseteq Reach(E, S) /\ Reach(E, S) \subseteq nodes
         /\ Closed(E, Reach(E, S))
         /\ \A T : S \subseteq T /\ Closed(E, T) => Reach(E, S) \subseteq T
<1> DEFINE N == Cardinality(nodes)
           Is(f) == f = [k \in 0..N |-> IF k = 0 THEN S ELSE UNION {Grown(E, T) : T \in {f[k - 1]}}]
           grow == CHOOSE f : Is(f)
<1>1. N \in Nat
  BY FS_CardinalityType
<1>2. Reach(E, S) = grow[N]
  BY DEF Reach
<1>3. ASSUME NEW f, GrownIn(E, S, N, f) PROVE Is(f)
  <2> HIDE DEF N
  <2>1. \A k \in 0..N : k # 0 => k \in 1..N
    BY <1>1
  <2> DEFINE h == [k \in 0..N |-> IF k = 0 THEN S ELSE Grown(E, f[k - 1])]
  <2>2. \A k \in 0..N : f[k] = h[k]
    BY <1>3, <2>1 DEF GrownIn
  <2>3. f = [k \in 0..N |-> f[k]]
    BY <1>3 DEF GrownIn
  <2> QED
    BY <2>2, <2>3
<1>4. Is(grow)
  <2> HIDE DEF Is
  <2>1. \E f : Is(f)
    BY <1>1, <1>3, GrownExists
  <2> QED
    BY <2>1
<1> HIDE DEF grow
<1>5. GrownIn(E, S, N, grow)
  <2> HIDE DEF N
  <2>1. \A k \in 1..N : k \in 0..N /\ k # 0
    OBVIOUS
  <2>2. 0 \in 0..N
    BY <1>1
  <2>3. \A k \in 0..N : grow[k] = IF k = 0 THEN S ELSE UNION {Grown(E, T) : T \in {grow[k - 1]}}
    BY <1>4
  <2>4. \A x : UNION {Grown(E, T) : T \in {x}} = Grown(E, x)
    OBVIOUS
  <2>5. grow[0] = S
    BY <2>2, <2>3
  <2>6. \A k \in 1..N : grow[k] = Grown(E, grow[k - 1])
    <3> TAKE k \in 1..N
    <3>1. grow[k] = UNION {Grown(E, T) : T \in {grow[k - 1]}}
      BY <2>1, <2>3
    <3> QED
      BY <2>4, <3>1
  <2>7. grow = [k \in 0..N |-> grow[k]]
    BY <1>4
  <2> QED
    BY <2>7, <2>5, <2>6 DEF GrownIn
<1>6. /\ S \subseteq grow[N] /\ grow[N] \subseteq nodes
      /\ \A T : S \subseteq T /\ Closed(E, T) => grow[N] \subseteq T
      /\ Closed(E, grow[N]) \/ Cardinality(grow[N]) > N
  <2> HIDE DEF N
  <2>1. N \in 0..N
    BY <1>1
  <2> QED
    BY <1>1, <1>5, <2>1, GrownFacts
<1>7. Closed(E, grow[N])
  <2>1. Cardinality(grow[N]) <= N
    BY <1>6, FS_Subset
  <2>2. IsFiniteSet(grow[N])
    BY <1>6, FS_Subset
  <2> QED
    BY <1>1, <1>6, <2>1, <2>2, FS_CardinalityType
<1> QED
  BY <1>2, <1>6, <1>7

-----------------------------------------------------------------------------
(* The times of arcs, added up. *)

AnyOf(S) == CHOOSE x \in S : TRUE

Sum(s, h) == IF s = {} THEN 0 ELSE AnyOf(s).dist + h[s \ {AnyOf(s)}]

SumsUpTo(S, n, h) ==
  /\ h \in [SUBSET S -> Int]
  /\ \A s \in SUBSET S : Cardinality(s) <= n => h[s] = Sum(s, h)

LEMMA OneLess ==
  ASSUME NEW S, IsFiniteSet(S), NEW s \in SUBSET S, s # {}
  PROVE  /\ AnyOf(s) \in s /\ s \ {AnyOf(s)} \in SUBSET S
         /\ Cardinality(s) \in Nat /\ Cardinality(s) > 0
         /\ Cardinality(s \ {AnyOf(s)}) = Cardinality(s) - 1
<1>1. IsFiniteSet(s)
  BY FS_Subset
<1>2. AnyOf(s) \in s
  BY DEF AnyOf
<1>3. Cardinality(s) \in Nat /\ Cardinality(s) # 0
  BY <1>1, FS_CardinalityType, FS_EmptySet
<1>4. Cardinality(s \ {AnyOf(s)}) = Cardinality(s) - 1
  BY <1>1, <1>2, FS_RemoveElement
<1> QED
  BY <1>2, <1>3, <1>4

LEMMA SumsExist ==
  ASSUME NEW S, IsFiniteSet(S), \A a \in S : a.dist \in Int, NEW n \in Nat
  PROVE  \E h : SumsUpTo(S, n, h)
<1> DEFINE Exists(k) == \E h : SumsUpTo(S, k, h)
<1> SUFFICES Exists(n)
  OBVIOUS
<1> HIDE DEF Exists
<1> DEFINE bad == {k \in Nat : ~Exists(k)}
<1> SUFFICES ASSUME bad # {} PROVE FALSE
  OBVIOUS
<1>1. bad \in SUBSET Nat
  OBVIOUS
<1> HIDE DEF bad
<1>2. PICK k \in bad : \A m \in bad : k <= m
  BY <1>1, LeastNumber
<1>3. k \in Nat /\ ~Exists(k)
  BY DEF bad
<1>4. CASE k = 0
  <2> DEFINE h == [s \in SUBSET S |-> 0]
  <2>1. h \in [SUBSET S -> Int]
    OBVIOUS
  <2>2. ASSUME NEW s \in SUBSET S, Cardinality(s) <= 0 PROVE h[s] = Sum(s, h)
    <3>1. s = {}
      <4>1. s # {} => Cardinality(s) \in Nat /\ Cardinality(s) > 0
        BY OneLess
      <4> QED
        BY <2>2, <4>1
    <3> QED
      BY <3>1 DEF Sum
  <2> HIDE DEF h
  <2> QED
    BY <1>3, <1>4, <2>1, <2>2 DEF Exists, SumsUpTo
<1>5. CASE k # 0
  <2>1. k - 1 \in Nat /\ k - 1 \notin bad
    BY <1>2, <1>3, <1>5
  <2>2. PICK f : SumsUpTo(S, k - 1, f)
    BY <2>1 DEF bad, Exists
  <2> DEFINE h == [s \in SUBSET S |-> Sum(s, f)]
  <2>3. ASSUME NEW s \in SUBSET S PROVE Sum(s, f) \in Int
    <3>1. CASE s = {}
      BY <3>1 DEF Sum
    <3>2. CASE s # {}
      <4>1. AnyOf(s) \in S /\ s \ {AnyOf(s)} \in SUBSET S
        BY <3>2, OneLess
      <4>2. f[s \ {AnyOf(s)}] \in Int /\ AnyOf(s).dist \in Int
        BY <2>2, <4>1 DEF SumsUpTo
      <4> QED
        BY <3>2, <4>2 DEF Sum
    <3> QED
      BY <3>1, <3>2
  <2>4. h \in [SUBSET S -> Int]
    BY <2>3
  <2>5. ASSUME NEW s \in SUBSET S, Cardinality(s) <= k PROVE h[s] = Sum(s, h)
    <3>1. CASE s = {}
      BY <3>1 DEF Sum
    <3>2. CASE s # {}
      <4> DEFINE r == s \ {AnyOf(s)}
      <4>1. r \in SUBSET S /\ Cardinality(r) <= k - 1
        BY <1>3, <2>5, <3>2, OneLess
      <4>2. f[r] = Sum(r, f)
        BY <2>2, <4>1 DEF SumsUpTo
      <4>3. h[r] = Sum(r, f) /\ h[s] = Sum(s, f)
        BY <4>1
      <4> HIDE DEF h
      <4> QED
        BY <3>2, <4>2, <4>3 DEF Sum
    <3> QED
      BY <3>1, <3>2
  <2> HIDE DEF h
  <2> QED
    BY <1>3, <2>4, <2>5 DEF Exists, SumsUpTo
<1> QED
  BY <1>4, <1>5

IsSum(S, h) == h \in [SUBSET S -> Int] /\ \A s \in SUBSET S : h[s] = Sum(s, h)

LEMMA SumByTerms ==
  ASSUME NEW S, IsFiniteSet(S), \A a \in S : a.dist \in Int
  PROVE  \E h : IsSum(S, h) /\ MapThenSumSet(LAMBDA a : a.dist, S) = h[S]
<1> DEFINE Is(h) == h = [s \in SUBSET S |-> Sum(s, h)]
           iter == CHOOSE h : Is(h)
<1>1. MapThenSumSet(LAMBDA a : a.dist, S) = iter[S]
  BY DEF MapThenSumSet, MapThenFoldSet, Sum, AnyOf
<1>2. Cardinality(S) \in Nat
  BY FS_CardinalityType
<1>3. PICK g : SumsUpTo(S, Cardinality(S), g)
  BY <1>2, SumsExist
<1>4. \A s \in SUBSET S : g[s] = Sum(s, g)
  BY <1>3, FS_Subset DEF SumsUpTo
<1>5. g = [s \in SUBSET S |-> g[s]]
  BY <1>3 DEF SumsUpTo
<1>6. Is(g)
  BY <1>4, <1>5
<1>7. Is(iter)
  <2> HIDE DEF Is
  <2> QED
    BY <1>6
<1> HIDE DEF iter
<1>8. \A s \in SUBSET S : iter[s] = Sum(s, iter)
  BY <1>7
<1> DEFINE bad == {n \in Nat : \E s \in SUBSET S : Cardinality(s) = n /\ iter[s] # g[s]}
<1>9. bad = {}
  <2> SUFFICES ASSUME bad # {} PROVE FALSE
    OBVIOUS
  <2>1. bad \in SUBSET Nat
    OBVIOUS
  <2> HIDE DEF bad
  <2>2. PICK n \in bad : \A m \in bad : n <= m
    BY <2>1, LeastNumber
  <2>3. PICK s \in SUBSET S : Cardinality(s) = n /\ iter[s] # g[s]
    BY <2>2 DEF bad
  <2>4. iter[s] = Sum(s, iter) /\ g[s] = Sum(s, g)
    BY <1>4, <1>8
  <2>5. s # {}
    <3>1. Sum({}, iter) = 0 /\ Sum({}, g) = 0
      BY DEF Sum
    <3> QED
      BY <2>3, <2>4, <3>1
  <2> DEFINE r == s \ {AnyOf(s)}
  <2>6. r \in SUBSET S /\ Cardinality(r) = n - 1 /\ n - 1 \in Nat
    BY <2>3, <2>5, OneLess
  <2>7. n - 1 \notin bad
    BY <2>1, <2>2, <2>6
  <2>8. iter[r] = g[r]
    BY <2>6, <2>7 DEF bad
  <2>9. Sum(s, iter) = AnyOf(s).dist + iter[r] /\ Sum(s, g) = AnyOf(s).dist + g[r]
    BY <2>5 DEF Sum
  <2> HIDE DEF r
  <2> QED
    BY <2>3, <2>4, <2>8, <2>9
<1>10. iter[S] = g[S]
  <2>1. S \in SUBSET S
    OBVIOUS
  <2> QED
    BY <1>2, <1>9, <2>1
<1>11. IsSum(S, g)
  BY <1>3, <1>4 DEF IsSum, SumsUpTo
<1> HIDE DEF IsSum
<1> QED
  BY <1>1, <1>10, <1>11

LEMMA SumIsInt ==
  ASSUME NEW S, IsFiniteSet(S), \A a \in S : a.dist \in Int
  PROVE  MapThenSumSet(LAMBDA a : a.dist, S) \in Int
<1>1. PICK h : IsSum(S, h) /\ MapThenSumSet(LAMBDA a : a.dist, S) = h[S]
  BY SumByTerms
<1> QED
  BY <1>1 DEF IsSum

-----------------------------------------------------------------------------
(* The nodes of the lines, and how a ride goes on from them.               *)

(* Every line has a ride. *)
TwoStops == \A l \in DOMAIN lines : LastStop(l) > 1

Arriving(n) == IF n[2] = "way" THEN n[3] > 1 ELSE n[3] < LastStop(n[1])
Departing(n) == IF n[2] = "way" THEN n[3] < LastStop(n[1]) ELSE n[3] > 1

NextStop(n) == IF n[2] = "way" THEN Way(n[1], n[3] + 1) ELSE Back(n[1], n[3] - 1)

SameStation(n, m) == StationOfNode(n) = StationOfNode(m)

LEMMA LineFacts ==
  ASSUME lines \in LineMaps, NEW l \in DOMAIN lines
  PROVE  /\ LastStop(l) \in Nat /\ LastStop(l) > 0
         /\ Stops(l) = 1..LastStop(l)
         /\ l # CHANGE_NAME
         /\ \A i, j \in Stops(l) : StationAt(l, i) = StationAt(l, j) => i = j
         /\ \A i, j \in Stops(l) : RideTime(l, i, j) \in Int
<1> DEFINE st == lines[l].stations
           time == lines[l].times
<1>1. /\ st # <<>> /\ st \in Seq(ToSet(st)) /\ IsInjective(st) /\ l # CHANGE_NAME
      /\ time \in [DOMAIN st -> Nat]
  BY LineMapsAssumption
<1> HIDE DEF st, time
<1>2. Len(st) \in Nat /\ Len(st) > 0 /\ DOMAIN st = 1..Len(st)
  BY <1>1
<1>3. \A i, j \in DOMAIN st : st[i] = st[j] => i = j
  BY <1>1 DEF IsInjective
<1>4. ASSUME NEW i \in DOMAIN st, NEW j \in DOMAIN st PROVE RideTime(l, i, j) \in Int
  <2>1. time[i] \in Nat /\ time[j] \in Nat
    BY <1>1
  <2>2. \A x, y \in Nat, r \in Nat \ {0} : (x - y) % r \in Int
    OBVIOUS
  <2>3. (time[j] - time[i]) % UintRange \in Int
    BY <2>1, <2>2, NumbersAssumption
  <2>4. \A x \in Int : AsInt(x) \in Int
    BY NumbersAssumption DEF AsInt
  <2> QED
    BY <2>3, <2>4 DEF RideTime, time
<1> QED
  BY <1>1, <1>2, <1>3, <1>4 DEF LastStop, Stops, StationAt, st

LEMMA NodeParts ==
  ASSUME NEW n \in AllNodes
  PROVE  /\ n[1] \in DOMAIN lines /\ n[3] \in Stops(n[1])
         /\ (n = Way(n[1], n[3]) /\ n[2] = "way") \/ (n = Back(n[1], n[3]) /\ n[2] = "back")
<1>1. PICK l \in DOMAIN lines : n \in LineNodes(l)
  BY DEF AllNodes
<1>2. PICK d \in Directions, i \in Stops(l) : n = <<l, d, i>>
  BY <1>1 DEF LineNodes
<1> QED
  BY <1>2 DEF Directions, Way, Back

LEMMA WayAndBack ==
  ASSUME NEW l \in DOMAIN lines, NEW i \in Stops(l)
  PROVE  Way(l, i) \in AllNodes /\ Back(l, i) \in AllNodes
BY DEF AllNodes, LineNodes, Way, Back, Directions

(* The two nodes of a stop, and those of a station. *)
NodeFacts ==
  /\ \A n \in AllNodes :
       /\ Twin(n) \in AllNodes /\ Twin(Twin(n)) = n /\ Twin(n) # n
       /\ Twin(n)[1] = n[1] /\ SameStation(Twin(n), n)
       /\ Arriving(Twin(n)) = Departing(n) /\ Departing(Twin(n)) = Arriving(n)
       /\ Arriving(n) \/ Departing(n)
  /\ \A n, m \in AllNodes :
       n[1] = m[1] /\ SameStation(n, m) => m = n \/ m = Twin(n)
  /\ \A n \in AllNodes :
       IsConnecting(StationOfNode(n)) <=> \E m \in AllNodes : SameStation(n, m) /\ m[1] # n[1]

LEMMA Connecting ==
  ASSUME lines \in LineMaps, NEW n \in AllNodes
  PROVE  IsConnecting(StationOfNode(n)) <=>
           \E m \in AllNodes : SameStation(n, m) /\ m[1] # n[1]
<1> DEFINE s == StationOfNode(n)
           S == LinesAt(s)
<1>1. S \in SUBSET DOMAIN lines /\ IsFiniteSet(S) /\ Cardinality(S) \in Nat
  <2>1. S \in SUBSET DOMAIN lines /\ IsFiniteSet(DOMAIN lines)
    BY LineMapsAssumption DEF LinesAt
  <2> QED
    BY <2>1, FS_Subset, FS_CardinalityType
<1>2. \A m \in AllNodes : StationOfNode(m) = s => m[1] \in S
  BY NodeParts DEF LinesAt, StationOfNode, StationAt, Stops, ToSet
<1>3. \A k \in S : \E m \in AllNodes : m[1] = k /\ StationOfNode(m) = s
  <2> TAKE k \in S
  <2>1. PICK i \in Stops(k) : StationAt(k, i) = s
    BY DEF LinesAt, StationAt, Stops, ToSet
  <2>2. Way(k, i) \in AllNodes
    BY <1>1, WayAndBack
  <2> QED
    BY <2>1, <2>2 DEF Way, StationOfNode
<1>4. n[1] \in S
  BY <1>2
<1> HIDE DEF S, s
<1>5. Cardinality(S) > 1 <=> \E k \in S : k # n[1]
  <2> DEFINE R == S \ {n[1]}
  <2>1. Cardinality(R) = Cardinality(S) - 1 /\ IsFiniteSet(R)
    BY <1>1, <1>4, FS_RemoveElement
  <2>2. Cardinality(R) \in Nat /\ (Cardinality(R) = 0 <=> R = {})
    BY <2>1, FS_CardinalityType, FS_EmptySet
  <2>3. R = {} <=> ~\E k \in S : k # n[1]
    OBVIOUS
  <2> HIDE DEF R
  <2> QED
    BY <1>1, <2>1, <2>2, <2>3
<1> QED
  BY <1>2, <1>3, <1>5 DEF IsConnecting, SameStation, S, s

LEMMA NodesAreTwins ==
  ASSUME lines \in LineMaps, TwoStops
  PROVE  NodeFacts
<1>1. ASSUME NEW n \in AllNodes
      PROVE  /\ Twin(n) \in AllNodes /\ Twin(Twin(n)) = n /\ Twin(n) # n
             /\ Twin(n)[1] = n[1] /\ SameStation(Twin(n), n)
             /\ Arriving(Twin(n)) = Departing(n) /\ Departing(Twin(n)) = Arriving(n)
             /\ Arriving(n) \/ Departing(n)
  <2> DEFINE l == n[1]
             i == n[3]
  <2>1. /\ l \in DOMAIN lines /\ i \in Stops(l)
        /\ (n = Way(l, i) /\ n[2] = "way") \/ (n = Back(l, i) /\ n[2] = "back")
    BY NodeParts
  <2>2. /\ Twin(n)[1] = l /\ Twin(n)[3] = i
        /\ IF n[2] = "way" THEN Twin(n) = Back(l, i) /\ Twin(n)[2] = "back"
                           ELSE Twin(n) = Way(l, i) /\ Twin(n)[2] = "way"
    BY <2>1 DEF Twin, Way, Back
  <2>3. /\ Twin(n) \in AllNodes /\ Twin(Twin(n)) = n /\ Twin(n) # n
        /\ Twin(n)[1] = n[1] /\ SameStation(Twin(n), n)
    <3>1. Twin(n) \in AllNodes /\ Twin(n) # n
      BY <2>1, <2>2, WayAndBack
    <3>2. Twin(Twin(n)) = n
      BY <2>1, <2>2 DEF Twin, Way, Back
    <3>3. SameStation(Twin(n), n)
      BY <2>1, <2>2 DEF SameStation, StationOfNode
    <3> QED
      BY <2>1, <2>2, <3>1, <3>2, <3>3
  <2>4. LastStop(l) \in Nat /\ LastStop(l) > 1 /\ i \in 1..LastStop(l)
    BY <2>1, LineFacts DEF TwoStops
  <2>5. Arriving(Twin(n)) = Departing(n) /\ Departing(Twin(n)) = Arriving(n)
    BY <2>1, <2>2 DEF Arriving, Departing
  <2>6. Arriving(n) \/ Departing(n)
    BY <2>1, <2>4 DEF Arriving, Departing
  <2> QED
    BY <2>3, <2>5, <2>6
<1>2. ASSUME NEW n \in AllNodes, NEW m \in AllNodes, n[1] = m[1], SameStation(n, m)
      PROVE  m = n \/ m = Twin(n)
  <2> DEFINE l == n[1]
             i == n[3]
             k == m[1]
             j == m[3]
  <2>1. /\ l \in DOMAIN lines /\ i \in Stops(l)
        /\ (n = Way(l, i) /\ n[2] = "way") \/ (n = Back(l, i) /\ n[2] = "back")
    BY NodeParts
  <2>2. /\ k \in DOMAIN lines /\ j \in Stops(k)
        /\ (m = Way(k, j) /\ m[2] = "way") \/ (m = Back(k, j) /\ m[2] = "back")
    BY NodeParts
  <2>3. k = l /\ i = j
    BY <1>2, <2>1, <2>2, LineFacts DEF SameStation, StationOfNode
  <2> QED
    BY <2>1, <2>2, <2>3 DEF Twin, Way, Back
<1> QED
  BY <1>1, <1>2, Connecting DEF NodeFacts

-----------------------------------------------------------------------------
(* The arcs, as they are when the chains are computed. *)

(* The one ride that leaves n. *)
RideFrom(n) ==
  IF n[2] = "way"
  THEN Travel(n[1], Way(n[1], n[3]), Way(n[1], n[3] + 1), RideTime(n[1], n[3], n[3] + 1))
  ELSE Travel(n[1], Back(n[1], n[3]), Back(n[1], n[3] - 1), RideTime(n[1], n[3] - 1, n[3]))

Rides == UNION {TravelArcs(l) : l \in DOMAIN lines}

(* Rides lead from stop to stop, and every arriving node has one. *)
RideFacts(A) ==
  /\ \A a \in A : ~a.connection =>
       /\ a.from \in AllNodes /\ Departing(a.from) /\ a = RideFrom(a.from)
       /\ a.to \in AllNodes /\ Arriving(a.to) /\ a.to = NextStop(a.from)
       /\ a.name = a.from[1] /\ a.dist \in Int
  /\ \A a, b \in A : ~a.connection /\ ~b.connection /\ a.to = b.to => a = b
  /\ \A n \in AllNodes : Departing(n) => \E a \in A : ~a.connection /\ a.from = n
  /\ \A n \in AllNodes : Arriving(n) => \E a \in A : ~a.connection /\ a.to = n

IsChange(a) ==
  /\ a.from \in AllNodes /\ a.to \in AllNodes
  /\ SameStation(a.from, a.to) /\ a.from[1] # a.to[1]
  /\ Arriving(a.from) /\ Departing(a.to)
  /\ a = Change(a.from, a.to, change_cost)

(* A turn on a line: between changes, or at its end. *)
IsTurn(a) ==
  /\ a.from \in AllNodes /\ a.to = Twin(a.from)
  /\ a = Change(a.from, a.to, switch_cost)

IsPlannedTurn(a) ==
  /\ IsTurn(a)
  /\ Arriving(a.from)
  /\ IF Departing(a.from) THEN ~IsConnecting(StationOfNode(a.from))
     ELSE type = "STATION" => ~IsConnecting(StationOfNode(a.from))

TurnFacts(A) ==
  \A n \in AllNodes :
    Arriving(n) /\ ~Departing(n) /\ (type = "SEGMENT" \/ ~IsConnecting(StationOfNode(n)))
      => Change(n, Twin(n), switch_cost) \in A

ChangeFacts(A) ==
  \A u, v \in AllNodes :
    SameStation(u, v) /\ u[1] # v[1] /\ Arriving(u) /\ Departing(v)
      => Change(u, v, change_cost) \in A

Shape ==
  /\ RideFacts(arcs) /\ TurnFacts(arcs) /\ ChangeFacts(arcs)
  /\ \A a \in arcs : a.connection => IsPlannedTurn(a) \/ IsChange(a)

(* Every node has an arc that comes in and one that goes out. *)
LEMMA BothWays ==
  ASSUME NodeFacts, Shape, type \in {"STATION", "SEGMENT"}, NEW n \in AllNodes
  PROVE  (\E a \in arcs : a.to = n) /\ (\E a \in arcs : a.from = n)
<1>1. \A u, v, c : Change(u, v, c).from = u /\ Change(u, v, c).to = v
  BY DEF Change
<1>2. ASSUME NEW u \in AllNodes, Arriving(u) PROVE \E a \in arcs : a.from = u
  <2>1. CASE Departing(u)
    BY <2>1 DEF Shape, RideFacts
  <2>2. CASE ~Departing(u) /\ (type = "SEGMENT" \/ ~IsConnecting(StationOfNode(u)))
    BY <1>1, <1>2, <2>2 DEF Shape, TurnFacts
  <2>3. CASE IsConnecting(StationOfNode(u))
    <3>1. PICK m \in AllNodes : SameStation(u, m) /\ m[1] # u[1]
      BY <2>3 DEF NodeFacts
    <3>2. \E v \in AllNodes : SameStation(u, v) /\ u[1] # v[1] /\ Departing(v)
      <4>1. Departing(m) \/ Departing(Twin(m))
        BY DEF NodeFacts
      <4>2. Twin(m) \in AllNodes /\ SameStation(u, Twin(m)) /\ Twin(m)[1] = m[1]
        BY <3>1 DEF NodeFacts, SameStation
      <4> QED
        BY <3>1, <4>1, <4>2
    <3> QED
      BY <1>1, <1>2, <3>2 DEF Shape, ChangeFacts
  <2> QED
    BY <2>1, <2>2, <2>3
<1>3. ASSUME NEW v \in AllNodes, Departing(v) PROVE \E a \in arcs : a.to = v
  <2>1. CASE Arriving(v)
    BY <2>1 DEF Shape, RideFacts
  <2>2. CASE ~Arriving(v) /\ (type = "SEGMENT" \/ ~IsConnecting(StationOfNode(v)))
    <3>1. /\ Twin(v) \in AllNodes /\ Arriving(Twin(v)) /\ ~Departing(Twin(v))
          /\ Twin(Twin(v)) = v /\ StationOfNode(Twin(v)) = StationOfNode(v)
      BY <1>3, <2>2 DEF NodeFacts, SameStation
    <3>2. Change(Twin(v), v, switch_cost) \in arcs
      BY <2>2, <3>1 DEF Shape, TurnFacts
    <3> QED
      BY <1>1, <3>2
  <2>3. CASE IsConnecting(StationOfNode(v))
    <3>1. PICK m \in AllNodes : SameStation(v, m) /\ m[1] # v[1]
      BY <2>3 DEF NodeFacts
    <3>2. \E u \in AllNodes : SameStation(u, v) /\ u[1] # v[1] /\ Arriving(u)
      <4>1. Arriving(m) \/ Arriving(Twin(m))
        BY DEF NodeFacts
      <4>2. Twin(m) \in AllNodes /\ SameStation(Twin(m), v) /\ Twin(m)[1] = m[1]
        BY <3>1 DEF NodeFacts, SameStation
      <4>3. SameStation(m, v)
        BY <3>1 DEF SameStation
      <4> QED
        BY <3>1, <4>1, <4>2, <4>3
    <3> QED
      BY <1>1, <1>3, <3>2 DEF Shape, ChangeFacts
  <2> QED
    BY <2>1, <2>2, <2>3
<1>4. Arriving(n) \/ Departing(n)
  BY DEF NodeFacts
<1> QED
  BY <1>2, <1>3, <1>4 DEF Shape, RideFacts

(* At most one arc comes in and one goes out. *)
Single(n) ==
  (\A a, b \in InEdges(n) : a = b) /\ (\A a, b \in OutEdges(n) : a = b)

LEMMA RidesAreSingle ==
  ASSUME Shape, NEW n
  PROVE  /\ \A a, b \in InEdges(n) : ~a.connection /\ ~b.connection => a = b
         /\ \A a, b \in OutEdges(n) : ~a.connection /\ ~b.connection => a = b
BY DEF Shape, RideFacts, InEdges, OutEdges

(* A change is a matter of a station where lines meet. *)
LEMMA ChangeMeets ==
  ASSUME NodeFacts, NEW a, IsChange(a)
  PROVE  IsConnecting(StationOfNode(a.from)) /\ IsConnecting(StationOfNode(a.to))
<1>1. IsConnecting(StationOfNode(a.from))
  BY DEF NodeFacts, IsChange
<1> QED
  BY <1>1 DEF IsChange, SameStation

(* Both ends of a turn have other arcs, or neither has. *)
LEMMA TurnEnds ==
  ASSUME NodeFacts, Shape, type \in {"STATION", "SEGMENT"},
         NEW a \in arcs, IsPlannedTurn(a)
  PROVE  Single(a.from) <=> Single(a.to)
<1> DEFINE u == a.from
           w == a.to
<1>1. /\ u \in AllNodes /\ w = Twin(u) /\ w \in AllNodes /\ u # w /\ Twin(w) = u
      /\ w[1] = u[1] /\ SameStation(w, u) /\ Arriving(u)
      /\ Departing(w) /\ Arriving(w) = Departing(u)
      /\ a = Change(u, w, switch_cost) /\ a.connection
  <2>1. a = Change(u, w, switch_cost) /\ u \in AllNodes /\ w = Twin(u) /\ Arriving(u)
    BY DEF IsPlannedTurn, IsTurn
  <2>2. a.connection
    BY <2>1 DEF Change
  <2> QED
    BY <2>1, <2>2 DEF NodeFacts
<1>2. \A b \in arcs : /\ b.from = u => b \in OutEdges(u)
                      /\ b.to = u => b \in InEdges(u)
                      /\ b.from = w => b \in OutEdges(w)
                      /\ b.to = w => b \in InEdges(w)
  BY DEF InEdges, OutEdges
<1>3. \A x, y, c : Change(x, y, c).from = x /\ Change(x, y, c).to = y
  BY DEF Change
<1>4. CASE Departing(u)
  <2>1. \E b \in arcs : ~b.connection /\ b.from = u
    BY <1>1, <1>4 DEF Shape, RideFacts
  <2>2. \E b \in arcs : ~b.connection /\ b.to = w
    BY <1>1, <1>4 DEF Shape, RideFacts
  <2> QED
    BY <1>1, <1>2, <2>1, <2>2 DEF Single
<1>5. CASE ~Departing(u) /\ IsConnecting(StationOfNode(u))
  <2>1. type = "SEGMENT"
    BY <1>1, <1>5 DEF IsPlannedTurn
  <2>2. PICK m \in AllNodes : SameStation(u, m) /\ m[1] # u[1]
    BY <1>1, <1>5 DEF NodeFacts
  <2>3. /\ Twin(m) \in AllNodes /\ SameStation(u, Twin(m)) /\ Twin(m)[1] # u[1]
        /\ Arriving(Twin(m)) = Departing(m) /\ Departing(Twin(m)) = Arriving(m)
        /\ Arriving(m) \/ Departing(m)
    BY <2>2 DEF NodeFacts, SameStation
  <2>4. PICK v \in AllNodes : SameStation(u, v) /\ v[1] # u[1] /\ Departing(v)
    BY <2>2, <2>3
  <2>5. PICK x \in AllNodes : SameStation(u, x) /\ x[1] # u[1] /\ Arriving(x)
    BY <2>2, <2>3
  <2>6. Change(u, v, change_cost) \in arcs
    BY <1>1, <2>4 DEF Shape, ChangeFacts
  <2>7. Change(x, w, change_cost) \in arcs
    <3>1. SameStation(x, w) /\ x[1] # w[1]
      BY <1>1, <2>5 DEF SameStation
    <3> QED
      BY <1>1, <2>5, <3>1 DEF Shape, ChangeFacts
  <2>8. v # w /\ x # u
    BY <1>1, <2>4, <2>5
  <2> QED
    BY <1>2, <1>3, <2>6, <2>7, <2>8 DEF Single
<1>6. CASE ~Departing(u) /\ ~IsConnecting(StationOfNode(u))
  <2>1. ~IsConnecting(StationOfNode(w))
    BY <1>1, <1>6 DEF SameStation
  <2>2. ASSUME NEW b \in arcs, b.from = u PROVE b = a
    <3>1. b.connection
      BY <1>6, <2>2 DEF Shape, RideFacts
    <3>2. ~IsChange(b)
      BY <1>6, <2>2, ChangeMeets
    <3>3. IsPlannedTurn(b)
      BY <3>1, <3>2 DEF Shape
    <3> QED
      BY <1>1, <2>2, <3>3 DEF IsPlannedTurn, IsTurn
  <2>3. ASSUME NEW b \in arcs, b.to = u PROVE ~b.connection
    <3>1. ~IsChange(b)
      BY <1>6, <2>3, ChangeMeets
    <3>2. ASSUME IsPlannedTurn(b) PROVE FALSE
      <4>1. b.from \in AllNodes /\ Arriving(b.from) /\ u = Twin(b.from)
        BY <2>3, <3>2 DEF IsPlannedTurn, IsTurn
      <4> QED
        BY <1>6, <4>1 DEF NodeFacts
    <3> QED
      BY <3>1, <3>2 DEF Shape
  <2>4. ASSUME NEW b \in arcs, b.to = w PROVE b = a
    <3>1. b.connection
      BY <1>1, <1>6, <2>4 DEF Shape, RideFacts
    <3>2. ~IsChange(b)
      BY <2>1, <2>4, ChangeMeets
    <3>3. IsPlannedTurn(b)
      BY <3>1, <3>2 DEF Shape
    <3>4. b.from \in AllNodes /\ w = Twin(b.from) /\ b = Change(b.from, w, switch_cost)
      BY <2>4, <3>3 DEF IsPlannedTurn, IsTurn
    <3>5. b.from = u
      BY <1>1, <3>4 DEF NodeFacts
    <3> QED
      BY <1>1, <3>4, <3>5
  <2>5. ASSUME NEW b \in arcs, b.from = w PROVE ~b.connection
    <3>1. ~IsChange(b)
      BY <2>1, <2>5, ChangeMeets
    <3>2. ~IsPlannedTurn(b)
      BY <1>1, <1>6, <2>5 DEF IsPlannedTurn
    <3> QED
      BY <3>1, <3>2 DEF Shape
  <2>6. Single(u)
    BY <2>2, <2>3, RidesAreSingle DEF Single, InEdges, OutEdges
  <2>7. Single(w)
    BY <2>4, <2>5, RidesAreSingle DEF Single, InEdges, OutEdges
  <2> QED
    BY <2>6, <2>7
<1> QED
  BY <1>4, <1>5, <1>6

(* And so it is with a change. *)
LEMMA ChangeEnds ==
  ASSUME NodeFacts, Shape, type \in {"STATION", "SEGMENT"},
         NEW a \in arcs, IsChange(a)
  PROVE  Single(a.from) <=> Single(a.to)
<1> DEFINE u == a.from
           v == a.to
<1>1. /\ u \in AllNodes /\ v \in AllNodes /\ SameStation(u, v) /\ SameStation(v, u)
      /\ u[1] # v[1] /\ Arriving(u) /\ Departing(v)
      /\ a = Change(u, v, change_cost) /\ a.connection
  <2>1. a = Change(u, v, change_cost)
    BY DEF IsChange
  <2>2. a.connection
    BY <2>1 DEF Change
  <2> QED
    BY <2>1, <2>2 DEF IsChange, SameStation
<1>2. IsConnecting(StationOfNode(u)) /\ IsConnecting(StationOfNode(v))
  BY ChangeMeets
<1>3. \A x, y, c : Change(x, y, c).from = x /\ Change(x, y, c).to = y
  BY DEF Change
<1>4. \A n \in AllNodes : /\ Twin(n) \in AllNodes /\ Twin(n) # n /\ Twin(n)[1] = n[1]
                          /\ StationOfNode(Twin(n)) = StationOfNode(n)
                          /\ Arriving(Twin(n)) = Departing(n)
                          /\ Departing(Twin(n)) = Arriving(n)
                          /\ Arriving(n) \/ Departing(n)
                          /\ Twin(Twin(n)) = n
  BY DEF NodeFacts, SameStation
<1>5. ASSUME Single(u) PROVE Single(v)
  <2>1. \A b \in arcs : b.from = u => b = a
    BY <1>5 DEF Single, OutEdges
  <2>2. ~Departing(u)
    BY <1>1, <2>1 DEF Shape, RideFacts
  <2>3. ASSUME NEW w \in AllNodes, SameStation(u, w), w[1] # u[1], Departing(w) PROVE w = v
    <3>1. Change(u, w, change_cost) \in arcs
      BY <1>1, <2>3 DEF Shape, ChangeFacts
    <3> QED
      BY <1>3, <2>1, <3>1
  <2>4. type = "STATION"
    <3>1. SUFFICES ASSUME type = "SEGMENT" PROVE FALSE
      OBVIOUS
    <3>2. Change(u, Twin(u), switch_cost) \in arcs
      BY <1>1, <2>2, <3>1 DEF Shape, TurnFacts
    <3>3. Twin(u) = v
      BY <1>3, <2>1, <3>2
    <3> QED
      BY <1>1, <1>4, <3>3
  <2>5. ~Arriving(v)
    <3>1. Twin(v) \in AllNodes /\ Twin(v) # v /\ SameStation(u, Twin(v)) /\ Twin(v)[1] # u[1]
      BY <1>1, <1>4 DEF SameStation
    <3> QED
      BY <1>1, <1>4, <2>3, <3>1
  <2>6. ASSUME NEW b \in arcs, b.to = v PROVE b = a
    <3>1. b.connection
      BY <2>5, <2>6 DEF Shape, RideFacts
    <3>2. ~IsPlannedTurn(b)
      <4>1. SUFFICES ASSUME IsPlannedTurn(b) PROVE FALSE
        OBVIOUS
      <4>2. b.from \in AllNodes /\ v = Twin(b.from)
        BY <2>6, <4>1 DEF IsPlannedTurn, IsTurn
      <4>3. ~Departing(b.from) /\ IsConnecting(StationOfNode(b.from))
        BY <1>2, <1>4, <2>5, <4>2
      <4> QED
        BY <2>4, <4>1, <4>3 DEF IsPlannedTurn
    <3>3. IsChange(b)
      BY <3>1, <3>2 DEF Shape
    <3> DEFINE x == b.from
    <3>4. /\ x \in AllNodes /\ SameStation(x, v) /\ x[1] # v[1] /\ Arriving(x)
          /\ b = Change(x, v, change_cost)
      BY <2>6, <3>3 DEF IsChange
    <3> HIDE DEF x
    <3>5. x[1] = u[1]
      <4>1. SUFFICES ASSUME x[1] # u[1] PROVE FALSE
        OBVIOUS
      <4>2. SameStation(u, x) /\ SameStation(u, Twin(x)) /\ Twin(x) \in AllNodes
        BY <1>1, <1>4, <3>4 DEF SameStation
      <4>3. x = v \/ Twin(x) = v
        BY <1>4, <2>3, <3>4, <4>1, <4>2
      <4> QED
        BY <1>4, <3>4, <4>3
    <3>6. x = u \/ x = Twin(u)
      <4>1. SameStation(u, x) /\ u[1] = x[1]
        BY <1>1, <3>4, <3>5 DEF SameStation
      <4> QED
        BY <1>1, <3>4, <4>1 DEF NodeFacts
    <3>7. x = u
      BY <1>1, <1>4, <2>2, <3>4, <3>6
    <3> QED
      BY <1>1, <3>4, <3>7
  <2>7. ASSUME NEW b \in arcs, b.from = v PROVE ~b.connection
    BY <2>5, <2>7 DEF Shape, IsPlannedTurn, IsChange
  <2> QED
    BY <2>6, <2>7, RidesAreSingle DEF Single, InEdges, OutEdges
<1>6. ASSUME Single(v) PROVE Single(u)
  <2>1. \A b \in arcs : b.to = v => b = a
    BY <1>6 DEF Single, InEdges
  <2>2. ~Arriving(v)
    BY <1>1, <2>1 DEF Shape, RideFacts
  <2>3. ASSUME NEW x \in AllNodes, SameStation(x, v), x[1] # v[1], Arriving(x) PROVE x = u
    <3>1. Change(x, v, change_cost) \in arcs
      BY <1>1, <2>3 DEF Shape, ChangeFacts
    <3> QED
      BY <1>3, <2>1, <3>1
  <2>4. type = "STATION"
    <3>1. SUFFICES ASSUME type = "SEGMENT" PROVE FALSE
      OBVIOUS
    <3>2. Twin(v) \in AllNodes /\ Arriving(Twin(v)) /\ ~Departing(Twin(v)) /\ Twin(Twin(v)) = v
      BY <1>1, <1>4, <2>2
    <3>3. Change(Twin(v), v, switch_cost) \in arcs
      BY <3>1, <3>2 DEF Shape, TurnFacts
    <3>4. Twin(v) = u
      BY <1>3, <2>1, <3>3
    <3> QED
      BY <1>1, <1>4, <3>4
  <2>5. ~Departing(u)
    <3>1. Twin(u) \in AllNodes /\ Twin(u) # u /\ SameStation(Twin(u), v) /\ Twin(u)[1] # v[1]
      BY <1>1, <1>4 DEF SameStation
    <3> QED
      BY <1>1, <1>4, <2>3, <3>1
  <2>6. ASSUME NEW b \in arcs, b.from = u PROVE b = a
    <3>1. b.connection
      BY <2>5, <2>6 DEF Shape, RideFacts
    <3>2. ~IsPlannedTurn(b)
      BY <1>2, <2>4, <2>5, <2>6 DEF IsPlannedTurn
    <3>3. IsChange(b)
      BY <3>1, <3>2 DEF Shape
    <3> DEFINE w == b.to
    <3>4. /\ w \in AllNodes /\ SameStation(u, w) /\ w[1] # u[1] /\ Departing(w)
          /\ b = Change(u, w, change_cost)
      BY <2>6, <3>3 DEF IsChange
    <3> HIDE DEF w
    <3>5. w[1] = v[1]
      <4>1. SUFFICES ASSUME w[1] # v[1] PROVE FALSE
        OBVIOUS
      <4>2. SameStation(w, v) /\ SameStation(Twin(w), v) /\ Twin(w) \in AllNodes
        BY <1>1, <1>4, <3>4 DEF SameStation
      <4>3. w = u \/ Twin(w) = u
        BY <1>4, <2>3, <3>4, <4>1, <4>2
      <4> QED
        BY <1>4, <3>4, <4>3
    <3>6. w = v \/ w = Twin(v)
      <4>1. SameStation(v, w) /\ v[1] = w[1]
        BY <1>1, <3>4, <3>5 DEF SameStation
      <4> QED
        BY <1>1, <3>4, <4>1 DEF NodeFacts
    <3>7. w = v
      BY <1>1, <1>4, <2>2, <3>4, <3>6
    <3> QED
      BY <1>1, <3>4, <3>7
  <2>7. ASSUME NEW b \in arcs, b.to = u PROVE ~b.connection
    <3>1. ~IsChange(b)
      BY <2>5, <2>7 DEF IsChange
    <3>2. ASSUME IsPlannedTurn(b) PROVE FALSE
      <4>1. b.from \in AllNodes /\ Arriving(b.from) /\ u = Twin(b.from)
        BY <2>7, <3>2 DEF IsPlannedTurn, IsTurn
      <4> QED
        BY <1>4, <2>5, <4>1
    <3> QED
      BY <3>1, <3>2 DEF Shape
  <2> QED
    BY <2>6, <2>7, RidesAreSingle DEF Single, InEdges, OutEdges
<1> QED
  BY <1>5, <1>6

(* What the degrees say. *)
LEMMA DegreeFacts ==
  ASSUME IsFiniteSet(arcs), NEW n, \E a \in arcs : a.to = n, \E a \in arcs : a.from = n
  PROVE  /\ Degree(n) >= 2
         /\ Degree(n) <= 2 => Single(n)
         /\ Single(n) => /\ Degree(n) <= 2
                         /\ Cardinality(InEdges(n)) = 1 /\ Cardinality(OutEdges(n)) = 1
<1> DEFINE S == InEdges(n)
           T == OutEdges(n)
<1>1. S # {} /\ T # {} /\ S \in SUBSET arcs /\ T \in SUBSET arcs
  BY DEF InEdges, OutEdges
<1>2. Single(n) <=> (\A a, b \in S : a = b) /\ (\A a, b \in T : a = b)
  BY DEF Single
<1>3. Degree(n) = Cardinality(S) + Cardinality(T)
  BY DEF Degree
<1> HIDE DEF S, T
<1>4. ASSUME NEW U \in SUBSET arcs, U # {}
      PROVE  /\ Cardinality(U) \in Nat /\ Cardinality(U) >= 1
             /\ Cardinality(U) = 1 <=> \A a, b \in U : a = b
  <2>1. IsFiniteSet(U)
    BY FS_Subset
  <2>2. Cardinality(U) \in Nat /\ Cardinality(U) # 0
    BY <1>4, <2>1, FS_CardinalityType, FS_EmptySet
  <2>3. Cardinality(U) = 1 <=> \E x : U = {x}
    BY <2>1, FS_Singleton
  <2>4. (\E x : U = {x}) <=> \A a, b \in U : a = b
    <3>1. PICK x \in U : TRUE
      BY <1>4
    <3>2. (\A a, b \in U : a = b) => U = {x}
      BY <3>1
    <3> QED
      BY <3>2
  <2> QED
    BY <2>2, <2>3, <2>4
<1>5. /\ Cardinality(S) \in Nat /\ Cardinality(S) >= 1
      /\ Cardinality(S) = 1 <=> \A a, b \in S : a = b
  BY <1>1, <1>4
<1>6. /\ Cardinality(T) \in Nat /\ Cardinality(T) >= 1
      /\ Cardinality(T) = 1 <=> \A a, b \in T : a = b
  BY <1>1, <1>4
<1>7. Degree(n) <= 2 <=> Cardinality(S) = 1 /\ Cardinality(T) = 1
  BY <1>3, <1>5, <1>6
<1>8. Degree(n) >= 2
  BY <1>3, <1>5, <1>6
<1> QED
  BY <1>2, <1>5, <1>6, <1>7, <1>8 DEF S, T

-----------------------------------------------------------------------------
(* Chains. *)

OneInOneOut(n) == Cardinality(InEdges(n)) = 1 /\ Cardinality(OutEdges(n)) = 1

(* A ride from a stop to the next one. *)
IsHop(a) == /\ ~a.connection /\ a.name = a.from[1] /\ a.to = NextStop(a.from)
            /\ a.from \in AllNodes /\ a.to \in AllNodes
            /\ a = RideFrom(a.from)

(* At a node inside of a chain there are just two rides. *)
LEMMA InsideFacts ==
  ASSUME NodeFacts, Shape, type \in {"STATION", "SEGMENT"},
         IsFiniteSet(arcs), nodes = AllNodes, NEW n \in ChainNodes
  PROVE  /\ n \in nodes /\ OneInOneOut(n)
         /\ \A a \in arcs : a.from = n \/ a.to = n => IsHop(a)
<1> DEFINE low == {m \in nodes : Degree(m) <= 2}
           kept == {a \in arcs : a.connection /\ a.from \in low /\ a.to \in low}
<1>1. n \in low /\ \A a \in kept : n # a.from /\ n # a.to
  BY DEF ChainNodes
<1>2. \A m \in nodes : m \in low <=> Single(m)
  BY BothWays, DegreeFacts
<1>3. \A m \in nodes : Single(m) => OneInOneOut(m)
  BY BothWays, DegreeFacts DEF OneInOneOut
<1>4. ASSUME NEW a \in arcs, a.from = n \/ a.to = n PROVE IsHop(a)
  <2>1. ASSUME a.connection PROVE FALSE
    <3>1. a.from \in nodes /\ a.to \in nodes /\ (Single(a.from) <=> Single(a.to))
      <4>1. CASE IsPlannedTurn(a)
        <5>1. a.from \in AllNodes /\ a.to = Twin(a.from)
          BY <4>1 DEF IsPlannedTurn, IsTurn
        <5>2. a.to \in AllNodes
          BY <5>1 DEF NodeFacts
        <5> QED
          BY <4>1, <5>1, <5>2, TurnEnds
      <4>2. CASE IsChange(a)
        <5>1. a.from \in AllNodes /\ a.to \in AllNodes
          BY <4>2 DEF IsChange
        <5> QED
          BY <4>2, <5>1, ChangeEnds
      <4> QED
        BY <2>1, <4>1, <4>2 DEF Shape
    <3>2. a \in kept
      <4> HIDE DEF low
      <4>1. a.from \in low /\ a.to \in low
        BY <1>1, <1>2, <1>4, <3>1
      <4> QED
        BY <2>1, <4>1
    <3> QED
      BY <1>1, <1>4, <3>2
  <2> QED
    BY <2>1 DEF Shape, RideFacts, IsHop
<1> HIDE DEF kept
<1> QED
  BY <1>1, <1>2, <1>3, <1>4

(* The nodes of a chain hang together. *)
Linked(C) ==
  \A S \in SUBSET C :
    S # {} /\ (\A a \in arcs : a.from \in C /\ a.to \in C => (a.from \in S <=> a.to \in S))
      => S = C

(* Chains lie apart from each other, and each on one line. *)
GoodChains(Cs) ==
  /\ \A C \in Cs : C # {} /\ C \subseteq nodes /\ \A n \in C : OneInOneOut(n)
  /\ \A C \in Cs : \A n, m \in C : n[1] = m[1]
  /\ \A C \in Cs : \A a \in ArcsOf(C) : IsHop(a)
  /\ \A C, D \in Cs : C \cap D # {} => C = D
  /\ \A C, D \in Cs : \A a \in arcs : a.from \in C /\ a.to \in D => C = D
  /\ \A C \in Cs : Linked(C)

LEMMA NextOnLine ==
  ASSUME NEW a, IsHop(a)
  PROVE  a.to[1] = a.from[1]
BY DEF IsHop, NextStop, Way, Back

LEMMA ReversedFacts ==
  ASSUME NEW a, IsHop(a)
  PROVE  Reversed(a).from = a.to /\ Reversed(a).to = a.from
<1>1. PICK l, u, v, t : a = Travel(l, u, v, t)
  BY DEF IsHop, RideFrom
<1> QED
  BY <1>1 DEF Travel, Reversed

(* A chain is the smallest set of nodes that is linked. *)
LEMMA ComponentFacts ==
  ASSUME IsFiniteSet(nodes), NEW inside \in SUBSET nodes, NEW E,
         \A a \in E : /\ a.from \in inside /\ a.to \in inside
                      /\ Reversed(a).from = a.to /\ Reversed(a).to = a.from,
         NEW n \in inside, NEW R, R = Reach(Undirected(E), {n})
  PROVE  /\ n \in R /\ R \subseteq inside
         /\ \A a \in E : a.from \in R <=> a.to \in R
         /\ \A T : n \in T /\ (\A a \in E : a.from \in T <=> a.to \in T) => R \subseteq T
<1> DEFINE links == Undirected(E)
<1>1. \A a \in links : a.to \in inside
  BY DEF Undirected
<1>2. \A T : Closed(links, T) <=> \A a \in E : a.from \in T <=> a.to \in T
  BY DEF Closed, Undirected
<1> HIDE DEF links
<1>3. {n} \in SUBSET nodes /\ \A a \in links : a.to \in nodes
  BY <1>1
<1>4. R = Reach(links, {n})
  BY DEF links
<1>5. /\ {n} \subseteq R /\ Closed(links, R)
      /\ \A T : {n} \subseteq T /\ Closed(links, T) => R \subseteq T
  BY <1>3, <1>4, ReachFacts
<1>6. \A a \in E : a.from \in R <=> a.to \in R
  <2> HIDE DEF Closed
  <2> QED
    BY ONLY <1>2, <1>5
<1>7. \A T : n \in T /\ (\A a \in E : a.from \in T <=> a.to \in T) => R \subseteq T
  BY <1>2, <1>5
<1>8. R \subseteq inside
  <2>1. \A a \in E : a.from \in inside <=> a.to \in inside
    OBVIOUS
  <2> QED
    BY <1>7, <2>1
<1> QED
  BY <1>5, <1>6, <1>7, <1>8

LEMMA ComponentsOfChains ==
  ASSUME NEW inside \in SUBSET nodes, IsFiniteSet(nodes),
         \A n \in inside : OneInOneOut(n),
         \A n \in inside : \A a \in arcs : a.from = n \/ a.to = n => IsHop(a)
  PROVE  GoodChains(Chains(inside))
<1> DEFINE E == {a \in arcs : a.from \in inside /\ a.to \in inside}
           R(n) == Reach(Undirected(E), {n})
<1>1. Chains(inside) = {R(n) : n \in inside}
  BY DEF Chains
<1>2. \A a \in E : /\ IsHop(a) /\ a.from \in inside /\ a.to \in inside
                   /\ Reversed(a).from = a.to /\ Reversed(a).to = a.from
  BY ReversedFacts
<1>5. ASSUME NEW n \in inside
      PROVE  /\ n \in R(n) /\ R(n) \subseteq inside
             /\ \A a \in E : a.from \in R(n) <=> a.to \in R(n)
             /\ \A T : n \in T /\ (\A a \in E : a.from \in T <=> a.to \in T) => R(n) \subseteq T
  <2> PICK Q : Q = R(n)
    OBVIOUS
  <2>1. \A a \in E : /\ a.from \in inside /\ a.to \in inside
                     /\ Reversed(a).from = a.to /\ Reversed(a).to = a.from
    BY <1>2
  <2> HIDE DEF E
  <2>2. Q = Reach(Undirected(E), {n})
    OBVIOUS
  <2>3. /\ n \in Q /\ Q \subseteq inside
        /\ \A a \in E : a.from \in Q <=> a.to \in Q
        /\ \A T : n \in T /\ (\A a \in E : a.from \in T <=> a.to \in T) => Q \subseteq T
    BY <2>1, <2>2, ComponentFacts
  <2> QED
    BY <2>3
<1> HIDE DEF R
<1>6. \A n \in inside : R(n) \subseteq inside
  BY <1>5
<1>7. ASSUME NEW n \in inside, NEW m \in R(n) PROVE m[1] = n[1]
  <2> DEFINE T == {x \in inside : x[1] = n[1]}
  <2>1. \A a \in E : a.from \in T <=> a.to \in T
    BY <1>2, NextOnLine
  <2>2. n \in T
    OBVIOUS
  <2>3. R(n) \subseteq T
    <3> HIDE DEF T, E
    <3> QED
      BY <1>5, <2>1, <2>2
  <2> QED
    BY <2>3
<1>8. ASSUME NEW n \in inside, NEW x \in R(n) PROVE R(x) = R(n)
  <2>1. x \in inside
    BY <1>6
  <2>2. R(x) \subseteq R(n)
    <3> HIDE DEF E
    <3> QED
      BY <1>5, <2>1
  <2>3. n \in R(x)
    <3>1. SUFFICES ASSUME n \notin R(x) PROVE FALSE
      OBVIOUS
    <3> DEFINE T == R(n) \ R(x)
    <3>2. \A a \in E : a.from \in T <=> a.to \in T
      <4> HIDE DEF E
      <4> QED
        BY <1>5, <2>1
    <3>3. n \in T
      BY <1>5, <3>1
    <3>4. R(n) \subseteq T
      <4> HIDE DEF T, E
      <4> QED
        BY <1>5, <3>2, <3>3
    <3> QED
      BY <1>5, <2>1, <2>2, <3>4
  <2>4. R(n) \subseteq R(x)
    <3> HIDE DEF E
    <3> QED
      BY <1>5, <2>1, <2>3
  <2> QED
    BY <2>2, <2>4
<1>9. ASSUME NEW n \in inside, NEW m \in inside, R(n) \cap R(m) # {} PROVE R(n) = R(m)
  BY <1>8, <1>9
<1>10. ASSUME NEW n \in inside, NEW m \in inside, NEW a \in arcs,
              a.from \in R(n), a.to \in R(m)
       PROVE  R(n) = R(m)
  <2>1. a \in E
    BY <1>6, <1>10
  <2>2. a.to \in R(n)
    BY <1>5, <1>10, <2>1
  <2> QED
    BY <1>9, <1>10, <2>2
<1>11. ASSUME NEW n \in inside, NEW a \in ArcsOf(R(n)) PROVE IsHop(a)
  BY <1>6 DEF ArcsOf
<1>14. ASSUME NEW n \in inside, NEW S \in SUBSET R(n), S # {},
              \A a \in arcs : a.from \in R(n) /\ a.to \in R(n) => (a.from \in S <=> a.to \in S)
       PROVE  S = R(n)
  <2>1. PICK m \in S : TRUE
    BY <1>14
  <2>2. \A a \in E : a.from \in S <=> a.to \in S
    <3> TAKE a \in E
    <3>1. a \in arcs /\ (a.from \in R(n) <=> a.to \in R(n))
      BY <1>5
    <3> HIDE DEF E
    <3> QED
      BY <1>14, <3>1
  <2> HIDE DEF E
  <2>3. m \in inside /\ R(m) \subseteq S
    BY <1>5, <1>6, <2>2
  <2> QED
    BY <1>8, <2>3
<1> HIDE DEF E
<1>12. \A C \in Chains(inside) : C # {} /\ C \subseteq nodes /\ \A n \in C : OneInOneOut(n)
  BY <1>1, <1>5, <1>6
<1>13. \A C \in Chains(inside) : \A n, m \in C : n[1] = m[1]
  BY <1>1, <1>7
<1> QED
  BY <1>1, <1>9, <1>10, <1>11, <1>12, <1>13, <1>14 DEF GoodChains, Linked

(* How far a ride on the line has come. *)
Place(n) == IF n[2] = "way" THEN n[3] ELSE LastStop(n[1]) - n[3]

LEMMA PlaceFacts ==
  ASSUME lines \in LineMaps
  PROVE  /\ \A n \in AllNodes : Place(n) \in Nat /\ LastStop(n[1]) - Place(n) \in Nat
         /\ \A a : IsHop(a) => /\ Place(a.to) = Place(a.from) + 1
                              /\ LastStop(a.to[1]) = LastStop(a.from[1])
<1>1. ASSUME NEW n \in AllNodes
      PROVE  LastStop(n[1]) \in Nat /\ n[3] \in 1..LastStop(n[1]) /\ n[2] \in {"way", "back"}
  BY NodeParts, LineFacts
<1>2. ASSUME NEW a, IsHop(a) PROVE Place(a.to) = Place(a.from) + 1 /\ a.to[1] = a.from[1]
  <2> DEFINE n == a.from
             m == a.to
  <2>1. n \in AllNodes /\ m = NextStop(n)
    BY <1>2 DEF IsHop
  <2>2. LastStop(n[1]) \in Nat /\ n[3] \in 1..LastStop(n[1]) /\ n[2] \in {"way", "back"}
    BY <1>1, <2>1
  <2>3. /\ m[1] = n[1] /\ m[2] = n[2]
        /\ m[3] = IF n[2] = "way" THEN n[3] + 1 ELSE n[3] - 1
    BY <2>1, <2>2 DEF NextStop, Way, Back
  <2> HIDE DEF n, m
  <2>4. Place(m) = Place(n) + 1
    BY <2>2, <2>3 DEF Place
  <2> QED
    BY <2>3, <2>4 DEF n, m
<1>3. ASSUME NEW n \in AllNodes PROVE Place(n) \in Nat /\ LastStop(n[1]) - Place(n) \in Nat
  BY <1>1 DEF Place
<1> QED
  BY <1>2, <1>3

(* A chain begins with an arc and ends with one. *)
LEMMA ChainEnds ==
  ASSUME lines \in LineMaps, nodes \subseteq AllNodes, IsFiniteSet(arcs),
         NEW Cs, GoodChains(Cs), NEW C \in Cs
  PROVE  /\ FirstArc(C) \in ArcsOf(C) /\ FirstArc(C).from \notin C /\ FirstArc(C).to \in C
         /\ LastArc(C) \in ArcsOf(C) /\ LastArc(C).to \notin C /\ LastArc(C).from \in C
<1>1. C # {} /\ C \subseteq AllNodes /\ (\A n \in C : OneInOneOut(n))
      /\ \A a \in ArcsOf(C) : IsHop(a)
  BY DEF GoodChains
<1>2. ASSUME NEW n \in C
      PROVE  /\ \E a \in ArcsOf(C) : a.to = n
             /\ \E a \in ArcsOf(C) : a.from = n
  <2>1. InEdges(n) \subseteq arcs /\ OutEdges(n) \subseteq arcs
    BY DEF InEdges, OutEdges
  <2>2. IsFiniteSet(InEdges(n)) /\ IsFiniteSet(OutEdges(n))
    BY <2>1, FS_Subset
  <2>3. InEdges(n) # {} /\ OutEdges(n) # {}
    BY <1>1, <2>2, FS_EmptySet DEF OneInOneOut
  <2> QED
    BY <2>3 DEF InEdges, OutEdges, ArcsOf
<1>3. \E a \in ArcsOf(C) : a.from \notin C
  <2> DEFINE T == {Place(n) : n \in C}
  <2>1. T \in SUBSET Nat /\ T # {}
    BY <1>1, PlaceFacts
  <2>2. PICK p \in T : \A q \in T : p <= q
    <3> HIDE DEF T
    <3> QED
      BY <2>1, LeastNumber
  <2>3. PICK n \in C : p = Place(n)
    OBVIOUS
  <2>4. PICK a \in ArcsOf(C) : a.to = n
    BY <1>2
  <2>5. p \in Nat /\ p = Place(a.from) + 1 /\ a.from \in AllNodes /\ Place(a.from) \in Nat
    BY <1>1, <2>1, <2>3, <2>4, PlaceFacts DEF IsHop
  <2>6. Place(a.from) \notin T
    <3> HIDE DEF T
    <3> QED
      BY <2>2, <2>5
  <2> QED
    BY <2>6
<1>4. \E a \in ArcsOf(C) : a.to \notin C
  <2> DEFINE Left(n) == LastStop(n[1]) - Place(n)
             T == {Left(n) : n \in C}
  <2>1. T \in SUBSET Nat /\ T # {}
    BY <1>1, PlaceFacts
  <2>2. PICK p \in T : \A q \in T : p <= q
    <3> HIDE DEF T
    <3> QED
      BY <2>1, LeastNumber
  <2>3. PICK n \in C : p = Left(n)
    OBVIOUS
  <2>4. PICK a \in ArcsOf(C) : a.from = n
    BY <1>2
  <2>5. Left(a.to) = p - 1
    <3>1. IsHop(a) /\ n \in AllNodes
      BY <1>1
    <3>2. Place(n) \in Nat /\ Left(n) \in Nat
      BY <3>1, PlaceFacts
    <3>3. Place(a.to) = Place(n) + 1 /\ LastStop(a.to[1]) = LastStop(n[1])
      BY <2>4, <3>1, PlaceFacts
    <3>4. n[1] \in DOMAIN lines
      BY <3>1, NodeParts
    <3>5. LastStop(n[1]) \in Nat
      BY <3>4, LineFacts
    <3> QED
      BY <2>3, <3>2, <3>3, <3>5
  <2>6. p \in Nat /\ Left(a.to) \notin T
    <3> HIDE DEF T, Left
    <3> QED
      BY <2>1, <2>2, <2>5
  <2> QED
    BY <2>6
<1> QED
  BY <1>3, <1>4 DEF FirstArc, LastArc, ArcsOf

(* When a chain is removed, the others are as they were. *)
LEMMA OthersUntouched ==
  ASSUME lines \in LineMaps, nodes \subseteq AllNodes, IsFiniteSet(arcs),
         GoodChains(chains), NEW C \in chains,
         nodes' = nodes \ C, arcs' = (arcs \ ArcsOf(C)) \cup {NewArc(C)},
         UNCHANGED lines, chains' = chains \ {C}
  PROVE  GoodChains(chains)'
<1> DEFINE others == chains \ {C}
           u == FirstArc(C).from
           v == LastArc(C).to
           new == NewArc(C)
<1>1. new.from = u /\ new.to = v
  BY DEF NewArc, Travel
<1>2. \A D \in others : D \cap C = {} /\ u \notin D /\ v \notin D
  <2> TAKE D \in others
  <2>1. D \cap C = {}
    BY DEF GoodChains
  <2>2. u \notin D /\ v \notin D
    BY ChainEnds DEF GoodChains, ArcsOf
  <2> QED
    BY <2>1, <2>2
<1>3. \A D \in others : \A a \in arcs : a.from \in D \/ a.to \in D => a \notin ArcsOf(C)
  BY <1>2 DEF GoodChains, ArcsOf
<1> HIDE DEF u, v, new
<1>4. arcs' = (arcs \ ArcsOf(C)) \cup {new}
  BY DEF new
<1>5. \A D \in others : \A n \in D : InEdges(n)' = InEdges(n) /\ OutEdges(n)' = OutEdges(n)
  BY <1>1, <1>2, <1>3, <1>4 DEF InEdges, OutEdges
<1>6. \A D \in others : ArcsOf(D)' = ArcsOf(D)
  BY <1>1, <1>2, <1>3, <1>4 DEF ArcsOf
<1>7. \A n : OneInOneOut(n)' <=> Cardinality(InEdges(n)') = 1 /\ Cardinality(OutEdges(n)') = 1
  BY DEF OneInOneOut
<1>8. \A D \in others : D # {} /\ D \subseteq nodes' /\ \A n \in D : OneInOneOut(n)'
  BY <1>2, <1>5, <1>7 DEF GoodChains, OneInOneOut
<1>9. \A a : IsHop(a)' <=> IsHop(a)
  BY DEF IsHop, NextStop, RideFrom, AllNodes, LineNodes, Stops, RideTime, Travel, Way, Back
<1>10. \A D, F \in others : \A a \in arcs' : a.from \in D /\ a.to \in F => D = F
  BY <1>1, <1>2, <1>4 DEF GoodChains
<1>11. chains' = others /\ others \subseteq chains
  OBVIOUS
<1> HIDE DEF others
<1>12. /\ \A D \in others : \A n, m \in D : n[1] = m[1]
       /\ \A D, F \in others : D \cap F # {} => D = F
       /\ \A D \in others : \A a \in ArcsOf(D) : IsHop(a)
  BY <1>11 DEF GoodChains
<1>13. \A D \in others : \A a \in ArcsOf(D)' : IsHop(a)'
  BY <1>6, <1>9, <1>12
<1>14. ASSUME NEW D \in others PROVE Linked(D)'
  <2>1. \A a \in arcs : a.from \in D /\ a.to \in D => a \in arcs'
    BY <1>3, <1>4
  <2>2. Linked(D)
    BY <1>11, <1>14 DEF GoodChains
  <2> QED
    BY <2>1, <2>2 DEF Linked
<1> QED
  BY <1>8, <1>10, <1>11, <1>12, <1>13, <1>14 DEF GoodChains

-----------------------------------------------------------------------------
(* How the graph is built up. *)

LEMMA SameLines ==
  ASSUME UNCHANGED lines
  PROVE  /\ AllNodes' = AllNodes /\ (DOMAIN lines)' = DOMAIN lines
         /\ \A n : Arriving(n)' = Arriving(n) /\ Departing(n)' = Departing(n)
         /\ \A n : RideFrom(n)' = RideFrom(n)
         /\ \A n, m : SameStation(n, m)' = SameStation(n, m)
         /\ \A n : IsConnecting(StationOfNode(n))' = IsConnecting(StationOfNode(n))
         /\ \A s : NodesAt(s)' = NodesAt(s)
         /\ TwoStops' = TwoStops
<1>1. \A l : Stops(l)' = Stops(l) /\ LastStop(l)' = LastStop(l)
  BY DEF Stops, LastStop
<1>2. \A n : StationOfNode(n)' = StationOfNode(n)
  BY DEF StationOfNode, StationAt
<1>3. \A l : LineNodes(l)' = LineNodes(l)
  BY <1>1 DEF LineNodes
<1>4. \A s : LinesAt(s)' = LinesAt(s)
  BY DEF LinesAt
<1>5. \A l, i, j : RideTime(l, i, j)' = RideTime(l, i, j)
  BY DEF RideTime, AsInt
<1>6. AllNodes' = AllNodes
  BY <1>3 DEF AllNodes
<1>7. \A n : Arriving(n)' = Arriving(n) /\ Departing(n)' = Departing(n)
  BY <1>1 DEF Arriving, Departing
<1>8. \A n : RideFrom(n)' = RideFrom(n)
  BY <1>5 DEF RideFrom, Travel, Way, Back
<1>9. \A n, m : SameStation(n, m)' = SameStation(n, m)
  BY <1>2 DEF SameStation
<1>10. \A n : IsConnecting(StationOfNode(n))' = IsConnecting(StationOfNode(n))
  BY <1>2, <1>4 DEF IsConnecting
<1>11. \A s : NodesAt(s)' = NodesAt(s)
  BY <1>2, <1>3 DEF NodesAt
<1>12. TwoStops' = TwoStops
  BY <1>1 DEF TwoStops
<1> QED
  BY <1>6, <1>7, <1>8, <1>9, <1>10, <1>11, <1>12

LEMMA RideOfNode ==
  ASSUME lines \in LineMaps, NEW n \in AllNodes, Departing(n)
  PROVE  /\ RideFrom(n) \in Rides
         /\ RideFrom(n).from = n /\ RideFrom(n).to = NextStop(n)
         /\ NextStop(n) \in AllNodes /\ Arriving(NextStop(n))
         /\ RideFrom(n).name = n[1] /\ RideFrom(n).dist \in Int /\ ~RideFrom(n).connection
<1> DEFINE l == n[1]
           i == n[3]
<1>1. l \in DOMAIN lines /\ i \in Stops(l)
  BY NodeParts
<1>2. LastStop(l) \in Nat /\ Stops(l) = 1..LastStop(l) /\ \A j, k \in Stops(l) : RideTime(l, j, k) \in Int
  BY <1>1, LineFacts
<1>3. CASE n = Way(l, i) /\ n[2] = "way"
  <2>1. i + 1 \in 2..LastStop(l) /\ i + 1 \in Stops(l) /\ (i + 1) - 1 = i
    BY <1>1, <1>2, <1>3 DEF Departing
  <2>2. RideFrom(n) = Travel(l, Way(l, i), Way(l, i + 1), RideTime(l, i, i + 1))
    BY <1>3 DEF RideFrom
  <2>3. RideFrom(n) \in TravelArcs(l)
    <3>1. RideFrom(n) = Travel(l, Way(l, (i + 1) - 1), Way(l, i + 1), RideTime(l, (i + 1) - 1, i + 1))
      BY <2>1, <2>2
    <3> QED
      BY <2>1, <3>1 DEF TravelArcs
  <2>4. NextStop(n) = Way(l, i + 1) /\ NextStop(n) \in AllNodes
    BY <1>1, <1>3, <2>1, WayAndBack DEF NextStop
  <2>5. Arriving(NextStop(n))
    BY <1>1, <1>2, <2>4 DEF Arriving, Way
  <2>6. RideTime(l, i, i + 1) \in Int
    BY <1>1, <1>2, <2>1
  <2> QED
    BY <1>1, <1>3, <2>2, <2>3, <2>4, <2>5, <2>6 DEF Rides, Travel
<1>4. CASE n = Back(l, i) /\ n[2] = "back"
  <2>1. i \in 2..LastStop(l) /\ i - 1 \in Stops(l) /\ i - 1 < LastStop(l)
    BY <1>1, <1>2, <1>4 DEF Departing
  <2>2. RideFrom(n) = Travel(l, Back(l, i), Back(l, i - 1), RideTime(l, i - 1, i))
    BY <1>4 DEF RideFrom
  <2>3. RideFrom(n) \in TravelArcs(l)
    BY <2>1, <2>2 DEF TravelArcs
  <2>4. NextStop(n) = Back(l, i - 1) /\ NextStop(n) \in AllNodes
    BY <1>1, <1>4, <2>1, WayAndBack DEF NextStop
  <2>5. Arriving(NextStop(n))
    BY <2>1, <2>4 DEF Arriving, Back
  <2>6. RideTime(l, i - 1, i) \in Int
    BY <1>1, <1>2, <2>1
  <2> QED
    BY <1>1, <1>4, <2>2, <2>3, <2>4, <2>5, <2>6 DEF Rides, Travel
<1> QED
  BY <1>3, <1>4, NodeParts

(* A node with an arriving ride follows another one. *)
LEMMA PreviousNode ==
  ASSUME lines \in LineMaps, NEW n \in AllNodes, Arriving(n)
  PROVE  \E m \in AllNodes : Departing(m) /\ NextStop(m) = n
<1> DEFINE l == n[1]
           i == n[3]
<1>1. l \in DOMAIN lines /\ i \in Stops(l)
  BY NodeParts
<1>2. LastStop(l) \in Nat /\ Stops(l) = 1..LastStop(l)
  BY <1>1, LineFacts
<1>3. CASE n = Way(l, i) /\ n[2] = "way"
  <2>1. i - 1 \in Stops(l) /\ i - 1 < LastStop(l) /\ (i - 1) + 1 = i
    BY <1>1, <1>2, <1>3 DEF Arriving
  <2>2. Way(l, i - 1) \in AllNodes
    BY <1>1, <2>1, WayAndBack
  <2>3. Departing(Way(l, i - 1)) /\ NextStop(Way(l, i - 1)) = Way(l, i)
    BY <2>1 DEF Departing, NextStop, Way
  <2> QED
    BY <1>3, <2>2, <2>3
<1>4. CASE n = Back(l, i) /\ n[2] = "back"
  <2>1. i + 1 \in Stops(l) /\ i + 1 > 1 /\ (i + 1) - 1 = i
    BY <1>1, <1>2, <1>4 DEF Arriving
  <2>2. Back(l, i + 1) \in AllNodes
    BY <1>1, <2>1, WayAndBack
  <2>3. Departing(Back(l, i + 1)) /\ NextStop(Back(l, i + 1)) = Back(l, i)
    BY <2>1 DEF Departing, NextStop, Back
  <2> QED
    BY <1>4, <2>2, <2>3
<1> QED
  BY <1>3, <1>4, NodeParts

LEMMA NextIsInjective ==
  ASSUME lines \in LineMaps, NEW n \in AllNodes, NEW m \in AllNodes, NextStop(n) = NextStop(m)
  PROVE  n = m
<1>1. /\ n[1] \in DOMAIN lines /\ n[3] \in Stops(n[1])
      /\ (n = Way(n[1], n[3]) /\ n[2] = "way") \/ (n = Back(n[1], n[3]) /\ n[2] = "back")
  BY NodeParts
<1>2. /\ m[1] \in DOMAIN lines /\ m[3] \in Stops(m[1])
      /\ (m = Way(m[1], m[3]) /\ m[2] = "way") \/ (m = Back(m[1], m[3]) /\ m[2] = "back")
  BY NodeParts
<1>3. n[3] \in Int /\ m[3] \in Int
  BY <1>1, <1>2, LineFacts
<1>4. n[1] = m[1] /\ n[2] = m[2]
  BY <1>1, <1>2 DEF NextStop, Way, Back
<1>5. n[3] = m[3]
  BY <1>1, <1>2, <1>3, <1>4 DEF NextStop, Way, Back
<1> QED
  BY <1>1, <1>2, <1>4, <1>5

LEMMA RidesOfLines ==
  ASSUME lines \in LineMaps
  PROVE  RideFacts(Rides) /\ (\A a \in Rides : ~a.connection)
         /\ \A a \in Rides : \E n \in AllNodes : a = RideFrom(n)
<1>1. ASSUME NEW a \in Rides
      PROVE  \E n \in AllNodes : Departing(n) /\ a = RideFrom(n)
  <2>1. PICK l \in DOMAIN lines : a \in TravelArcs(l)
    BY DEF Rides
  <2>2. LastStop(l) \in Nat /\ Stops(l) = 1..LastStop(l)
    BY LineFacts
  <2>3. PICK i \in 2..LastStop(l) :
          \/ a = Travel(l, Way(l, i - 1), Way(l, i), RideTime(l, i - 1, i))
          \/ a = Travel(l, Back(l, i), Back(l, i - 1), RideTime(l, i - 1, i))
    BY <2>1 DEF TravelArcs
  <2>4. i \in Stops(l) /\ i - 1 \in Stops(l) /\ (i - 1) + 1 = i /\ i > 1 /\ i - 1 < LastStop(l)
    BY <2>2
  <2>5. Way(l, i - 1) \in AllNodes /\ Back(l, i) \in AllNodes
    BY <2>4, WayAndBack
  <2>6. /\ Departing(Way(l, i - 1))
        /\ RideFrom(Way(l, i - 1)) = Travel(l, Way(l, i - 1), Way(l, i), RideTime(l, i - 1, i))
    BY <2>4 DEF Departing, RideFrom, Way
  <2>7. /\ Departing(Back(l, i))
        /\ RideFrom(Back(l, i)) = Travel(l, Back(l, i), Back(l, i - 1), RideTime(l, i - 1, i))
    BY <2>4 DEF Departing, RideFrom, Back
  <2> QED
    BY <2>3, <2>5, <2>6, <2>7
<1>2. \A a \in Rides :
       /\ ~a.connection /\ a.from \in AllNodes /\ Departing(a.from) /\ a = RideFrom(a.from)
       /\ a.to \in AllNodes /\ Arriving(a.to) /\ a.to = NextStop(a.from)
       /\ a.name = a.from[1] /\ a.dist \in Int
  BY <1>1, RideOfNode
<1>3. \A a, b \in Rides : a.to = b.to => a = b
  BY <1>2, NextIsInjective
<1>4. \A n \in AllNodes : Departing(n) => \E a \in Rides : ~a.connection /\ a.from = n
  BY RideOfNode
<1>5. \A n \in AllNodes : Arriving(n) => \E a \in Rides : ~a.connection /\ a.to = n
  BY RideOfNode, PreviousNode
<1> QED
  BY <1>1, <1>2, <1>3, <1>4, <1>5 DEF RideFacts

(* Everything is finite. *)
LEMMA FiniteGraph ==
  ASSUME lines \in LineMaps
  PROVE  /\ IsFiniteSet(AllNodes) /\ IsFiniteSet(Rides)
         /\ \A c : IsFiniteSet({Change(p[1], p[2], c) : p \in AllNodes \X AllNodes})
<1>1. IsFiniteSet(AllNodes)
  <2>1. \A l \in DOMAIN lines : IsFiniteSet(LineNodes(l))
    <3> TAKE l \in DOMAIN lines
    <3> DEFINE Pair == Directions \X Stops(l)
               node == [p \in Pair |-> <<l, p[1], p[2]>>]
    <3>1. IsFiniteSet(Stops(l))
      BY LineFacts, FS_Interval
    <3>2. IsFiniteSet(Directions)
      <4>1. Directions = {"way"} \cup {"back"}
        BY DEF Directions
      <4> QED
        BY <4>1, FS_Singleton, FS_Union
    <3>3. IsFiniteSet(Pair)
      BY <3>1, <3>2, FS_Product
    <3>4. LineNodes(l) = {node[p] : p \in Pair}
      <4>1. \A d \in Directions : \A i \in Stops(l) : <<d, i>> \in Pair /\ node[<<d, i>>] = <<l, d, i>>
        OBVIOUS
      <4>2. \A p \in Pair : p[1] \in Directions /\ p[2] \in Stops(l) /\ node[p] = <<l, p[1], p[2]>>
        OBVIOUS
      <4>3. LineNodes(l) = {<<l, d, i>> : d \in Directions, i \in Stops(l)}
        BY DEF LineNodes
      <4> HIDE DEF node, Pair
      <4>4. \A x \in LineNodes(l) : \E d \in Directions : \E i \in Stops(l) : x = <<l, d, i>>
        BY <4>3
      <4>5. \A d \in Directions : \A i \in Stops(l) : <<l, d, i>> \in LineNodes(l)
        BY <4>3
      <4>6. LineNodes(l) \subseteq {node[p] : p \in Pair}
        <5> SUFFICES ASSUME NEW x \in LineNodes(l) PROVE \E p \in Pair : x = node[p]
          OBVIOUS
        <5>1. PICK d \in Directions : \E i \in Stops(l) : x = <<l, d, i>>
          BY <4>4
        <5>2. PICK i \in Stops(l) : x = <<l, d, i>>
          BY <5>1
        <5> QED
          BY <4>1, <5>2
      <4>7. {node[p] : p \in Pair} \subseteq LineNodes(l)
        BY <4>2, <4>5
      <4> QED
        BY <4>6, <4>7
    <3> HIDE DEF node, Pair
    <3> QED
      BY <3>3, <3>4, FiniteImage
  <2> DEFINE of == [l \in DOMAIN lines |-> LineNodes(l)]
             Sets == {of[l] : l \in DOMAIN lines}
  <2>2. IsFiniteSet(DOMAIN lines)
    BY LineMapsAssumption
  <2>3. AllNodes = UNION Sets /\ \A S \in Sets : IsFiniteSet(S)
    BY <2>1 DEF AllNodes
  <2>4. IsFiniteSet(Sets)
    <3> HIDE DEF of
    <3> QED
      BY <2>2, FiniteImage
  <2> HIDE DEF Sets
  <2> QED
    BY <2>3, <2>4, FS_UNION
<1>2. IsFiniteSet(Rides)
  <2> DEFINE ride == [n \in AllNodes |-> RideFrom(n)]
  <2>1. Rides \subseteq {ride[n] : n \in AllNodes}
    BY RidesOfLines
  <2>2. IsFiniteSet({ride[n] : n \in AllNodes})
    <3> HIDE DEF ride
    <3> QED
      BY <1>1, FiniteImage
  <2> QED
    BY <2>1, <2>2, FS_Subset
<1>3. ASSUME NEW c PROVE IsFiniteSet({Change(p[1], p[2], c) : p \in AllNodes \X AllNodes})
  <2> DEFINE change == [p \in AllNodes \X AllNodes |-> Change(p[1], p[2], c)]
  <2>1. {Change(p[1], p[2], c) : p \in AllNodes \X AllNodes}
          = {change[p] : p \in AllNodes \X AllNodes}
    OBVIOUS
  <2>2. IsFiniteSet(AllNodes \X AllNodes)
    BY <1>1, FS_Product
  <2> HIDE DEF change
  <2>3. IsFiniteSet({change[p] : p \in AllNodes \X AllNodes})
    BY <2>2, FiniteImage
  <2> QED
    BY <2>1, <2>3
<1> QED
  BY <1>1, <1>2, <1>3

-----------------------------------------------------------------------------
(* Turns and changes. *)

LEMMA TurnsOfStop ==
  ASSUME lines \in LineMaps, NEW l \in DOMAIN lines, NEW i \in Stops(l)
  PROVE  /\ IsTurn(TurnBack(l, i)) /\ TurnBack(l, i).from = Way(l, i)
         /\ IsTurn(TurnAround(l, i)) /\ TurnAround(l, i).from = Back(l, i)
         /\ StationOfNode(Way(l, i)) = StationAt(l, i) /\ StationOfNode(Back(l, i)) = StationAt(l, i)
         /\ (Arriving(Way(l, i)) <=> (i > 1)) /\ (Departing(Way(l, i)) <=> (i < LastStop(l)))
         /\ (Arriving(Back(l, i)) <=> (i < LastStop(l))) /\ (Departing(Back(l, i)) <=> (i > 1))
         /\ LastStop(l) \in Nat /\ i \in 1..LastStop(l)
<1>1. Way(l, i) \in AllNodes /\ Back(l, i) \in AllNodes
  BY WayAndBack
<1>2. Twin(Way(l, i)) = Back(l, i) /\ Twin(Back(l, i)) = Way(l, i)
  BY DEF Twin, Way, Back
<1>3. IsTurn(TurnBack(l, i)) /\ TurnBack(l, i).from = Way(l, i)
  BY <1>1, <1>2 DEF IsTurn, TurnBack, Change
<1>4. IsTurn(TurnAround(l, i)) /\ TurnAround(l, i).from = Back(l, i)
  BY <1>1, <1>2 DEF IsTurn, TurnAround, Change
<1>5. LastStop(l) \in Nat /\ i \in 1..LastStop(l)
  BY LineFacts
<1>6. /\ StationOfNode(Way(l, i)) = StationAt(l, i) /\ StationOfNode(Back(l, i)) = StationAt(l, i)
      /\ (Arriving(Way(l, i)) <=> (i > 1)) /\ (Departing(Way(l, i)) <=> (i < LastStop(l)))
      /\ (Arriving(Back(l, i)) <=> (i < LastStop(l))) /\ (Departing(Back(l, i)) <=> (i > 1))
  BY DEF StationOfNode, Arriving, Departing, Way, Back
<1> QED
  BY <1>3, <1>4, <1>5, <1>6

(* Where a line ends, one can turn. *)
LEMMA TerminalTurnFacts ==
  ASSUME lines \in LineMaps, TwoStops
  PROVE  /\ \A l \in DOMAIN lines : \A i \in Stops(l) : IsTerminal(l, i) =>
              /\ IsTurn(TurnAtTerminal(l, i))
              /\ Arriving(TurnAtTerminal(l, i).from) /\ ~Departing(TurnAtTerminal(l, i).from)
              /\ StationOfNode(TurnAtTerminal(l, i).from) = StationAt(l, i)
         /\ \A n \in AllNodes : Arriving(n) /\ ~Departing(n) =>
              \E l \in DOMAIN lines : \E i \in Stops(l) :
                /\ IsTerminal(l, i) /\ TurnAtTerminal(l, i) = Change(n, Twin(n), switch_cost)
                /\ StationOfNode(n) = StationAt(l, i)
<1>1. ASSUME NEW l \in DOMAIN lines, NEW i \in Stops(l), IsTerminal(l, i)
      PROVE  /\ IsTurn(TurnAtTerminal(l, i))
             /\ Arriving(TurnAtTerminal(l, i).from) /\ ~Departing(TurnAtTerminal(l, i).from)
             /\ StationOfNode(TurnAtTerminal(l, i).from) = StationAt(l, i)
  <2>1. LastStop(l) > 1 /\ LastStop(l) \in Nat /\ i \in {1, LastStop(l)}
    BY <1>1, LineFacts DEF TwoStops, IsTerminal
  <2>2. CASE i = 1
    <3>1. TurnAtTerminal(l, i) = TurnAround(l, i)
      BY <2>2 DEF TurnAtTerminal
    <3> QED
      BY <2>1, <2>2, <3>1, TurnsOfStop
  <2>3. CASE i # 1
    <3>1. TurnAtTerminal(l, i) = TurnBack(l, i) /\ i = LastStop(l)
      BY <2>1, <2>3 DEF TurnAtTerminal
    <3> QED
      BY <2>1, <2>3, <3>1, TurnsOfStop
  <2> QED
    BY <2>2, <2>3
<1>2. ASSUME NEW n \in AllNodes, Arriving(n), ~Departing(n)
      PROVE  \E l \in DOMAIN lines : \E i \in Stops(l) :
               /\ IsTerminal(l, i) /\ TurnAtTerminal(l, i) = Change(n, Twin(n), switch_cost)
               /\ StationOfNode(n) = StationAt(l, i)
  <2> DEFINE l == n[1]
             i == n[3]
  <2>1. /\ l \in DOMAIN lines /\ i \in Stops(l)
        /\ (n = Way(l, i) /\ n[2] = "way") \/ (n = Back(l, i) /\ n[2] = "back")
    BY NodeParts
  <2> HIDE DEF l, i
  <2>2. CASE n = Way(l, i)
    <3>1. ~(i < LastStop(l)) /\ i > 1 /\ i \in 1..LastStop(l) /\ LastStop(l) \in Nat
      BY <1>2, <2>1, <2>2, TurnsOfStop
    <3>2. i = LastStop(l) /\ i # 1
      BY <3>1
    <3>3. TurnAtTerminal(l, i) = Change(n, Twin(n), switch_cost)
      BY <2>2, <3>2 DEF TurnAtTerminal, TurnBack, Twin, Way, Back
    <3>4. StationOfNode(n) = StationAt(l, i)
      BY <2>1, <2>2, TurnsOfStop
    <3> QED
      BY <2>1, <3>2, <3>3, <3>4 DEF IsTerminal
  <2>3. CASE n = Back(l, i)
    <3>1. ~(i > 1) /\ i \in 1..LastStop(l) /\ LastStop(l) \in Nat
      BY <1>2, <2>1, <2>3, TurnsOfStop
    <3>2. i = 1
      BY <3>1
    <3>3. TurnAtTerminal(l, i) = Change(n, Twin(n), switch_cost)
      BY <2>3, <3>2 DEF TurnAtTerminal, TurnAround, Twin, Way, Back
    <3>4. StationOfNode(n) = StationAt(l, i)
      BY <2>1, <2>3, TurnsOfStop
    <3> QED
      BY <2>1, <3>2, <3>3, <3>4 DEF IsTerminal
  <2> QED
    BY <2>1, <2>2, <2>3
<1> QED
  BY <1>1, <1>2

(* The inner turns lie between stations at which one can change. *)
LEMMA InnerTurnFacts ==
  ASSUME lines \in LineMaps, NEW l \in DOMAIN lines, NEW a \in InnerTurns(l)
  PROVE  /\ IsTurn(a) /\ Arriving(a.from) /\ Departing(a.from)
         /\ ~IsConnecting(StationOfNode(a.from))
<1>1. PICK i \in InnerStops(l) : a = TurnBack(l, i) \/ a = TurnAround(l, i)
  BY DEF InnerTurns
<1>2. i \in Stops(l) /\ ~IsConnecting(StationAt(l, i)) /\ i # 1 /\ i # LastStop(l)
  BY <1>1 DEF InnerStops, ConnectingStop, IsTerminal
<1>3. LastStop(l) \in Nat /\ i \in 1..LastStop(l) /\ i > 1 /\ i < LastStop(l)
  BY <1>2, LineFacts
<1> QED
  BY <1>1, <1>2, <1>3, TurnsOfStop

(* What the three ways to add switching arcs add. *)
LEMMA AddedTurns ==
  ASSUME lines \in LineMaps, TwoStops, NEW B,
         \/ B = UNION {AllTurns(l) : l \in DOMAIN lines} /\ ~preprocess
         \/ B = UNION {TerminalTurns(l) : l \in DOMAIN lines} /\ type = "SEGMENT"
         \/ B = UNION {StationProblemTurns(l) : l \in DOMAIN lines} /\ type = "STATION"
  PROVE  /\ \A a \in B : IsTurn(a)
         /\ preprocess => (\A a \in B : IsPlannedTurn(a)) /\ TurnFacts(B)
<1>1. CASE B = UNION {AllTurns(l) : l \in DOMAIN lines} /\ ~preprocess
  BY <1>1, TurnsOfStop DEF AllTurns
<1>2. CASE B = UNION {TerminalTurns(l) : l \in DOMAIN lines} /\ type = "SEGMENT"
  <2>1. \A a \in B : IsPlannedTurn(a)
    BY <1>2, TerminalTurnFacts DEF TerminalTurns, IsPlannedTurn
  <2>2. TurnFacts(B)
    <3> SUFFICES ASSUME NEW n \in AllNodes, Arriving(n), ~Departing(n)
                 PROVE  Change(n, Twin(n), switch_cost) \in B
      BY DEF TurnFacts
    <3> QED
      BY <1>2, TerminalTurnFacts DEF TerminalTurns
  <2> QED
    BY <2>1, <2>2 DEF IsPlannedTurn
<1>3. CASE B = UNION {StationProblemTurns(l) : l \in DOMAIN lines} /\ type = "STATION"
  <2>1. ASSUME NEW a \in B PROVE IsPlannedTurn(a)
    <3>1. PICK l \in DOMAIN lines : a \in StationProblemTurns(l)
      BY <1>3
    <3>2. CASE a \in InnerTurns(l)
      BY <3>2, InnerTurnFacts DEF IsPlannedTurn
    <3>3. CASE a \notin InnerTurns(l)
      <4>1. PICK i \in Stops(l) : /\ IsTerminal(l, i) /\ ~ConnectingStop(l, i)
                                 /\ a = TurnAtTerminal(l, i)
        BY <3>1, <3>3 DEF StationProblemTurns
      <4> QED
        BY <4>1, TerminalTurnFacts DEF IsPlannedTurn, ConnectingStop
    <3> QED
      BY <3>2, <3>3
  <2>2. TurnFacts(B)
    <3> SUFFICES ASSUME NEW n \in AllNodes, Arriving(n), ~Departing(n),
                        ~IsConnecting(StationOfNode(n))
                 PROVE  Change(n, Twin(n), switch_cost) \in B
      BY <1>3 DEF TurnFacts
    <3>1. PICK l \in DOMAIN lines : \E i \in Stops(l) :
             /\ IsTerminal(l, i) /\ TurnAtTerminal(l, i) = Change(n, Twin(n), switch_cost)
             /\ StationOfNode(n) = StationAt(l, i)
      BY TerminalTurnFacts
    <3>2. Change(n, Twin(n), switch_cost) \in StationProblemTurns(l)
      BY <3>1 DEF StationProblemTurns, ConnectingStop
    <3> QED
      BY <1>3, <3>2
  <2> QED
    BY <2>1, <2>2 DEF IsPlannedTurn
<1> QED
  BY <1>1, <1>2, <1>3

(* What addAllConnectionArcs adds, when only turns are connections yet. *)
LEMMA AddedChanges ==
  ASSUME lines \in LineMaps, RideFacts(arcs), NEW B,
         B = UNION {ConnectionArcs(s) : s \in StationNames}
  PROVE  (\A a \in B : IsChange(a)) /\ ChangeFacts(B)
<1>1. \A u, v \in AllNodes : CanChange(u, v) <=> Arriving(u) /\ Departing(v)
  BY DEF CanChange, InEdges, OutEdges, RideFacts
<1>2. \A s : NodesAt(s) = {n \in AllNodes : StationOfNode(n) = s}
  BY DEF NodesAt, AllNodes
<1>3. \A u, v, c : Change(u, v, c).from = u /\ Change(u, v, c).to = v
  BY DEF Change
<1>4. ASSUME NEW a \in B PROVE IsChange(a)
  <2>1. PICK s \in StationNames : a \in ConnectionArcs(s)
    OBVIOUS
  <2>2. PICK u \in NodesAt(s), v \in NodesAt(s) :
          u[1] # v[1] /\ CanChange(u, v) /\ a = Change(u, v, change_cost)
    BY <2>1 DEF ConnectionArcs
  <2> QED
    BY <1>1, <1>2, <1>3, <2>2 DEF IsChange, SameStation
<1>5. ASSUME NEW u \in AllNodes, NEW v \in AllNodes, SameStation(u, v), u[1] # v[1],
             Arriving(u), Departing(v)
      PROVE  Change(u, v, change_cost) \in B
  <2> DEFINE s == StationOfNode(u)
  <2>1. u \in NodesAt(s) /\ v \in NodesAt(s)
    BY <1>2, <1>5 DEF SameStation
  <2>2. s \in StationNames
    BY NodeParts DEF StationNames, StationOfNode, StationAt, Stops, ToSet
  <2> HIDE DEF s
  <2>3. <<u, v>> \in NodesAt(s) \X NodesAt(s) /\ <<u, v>>[1] = u /\ <<u, v>>[2] = v
    BY <2>1
  <2>4. Change(u, v, change_cost) \in ConnectionArcs(s)
    BY <1>1, <1>5, <2>3 DEF ConnectionArcs
  <2> QED
    BY <2>2, <2>4
<1> QED
  BY <1>4, <1>5 DEF ChangeFacts

-----------------------------------------------------------------------------
(* The inductive invariant: what the graph is before each part of the      *)
(* constructor, and that chains stay good whatever was removed.            *)

Stage ==
  /\ phase = "switching" =>
       nodes = AllNodes /\ RideFacts(arcs) /\ \A a \in arcs : ~a.connection
  /\ phase = "connections" =>
       /\ nodes = AllNodes /\ RideFacts(arcs) /\ \A a \in arcs : a.connection => IsTurn(a)
       /\ preprocess => TurnFacts(arcs) /\ \A a \in arcs : a.connection => IsPlannedTurn(a)
  /\ phase = "chains" => nodes = AllNodes /\ Shape
  /\ phase \in {"nodes", "switching", "connections", "chains"} => redundant_nodes = {}
  /\ phase # "removing" => chains = {}

GInv ==
  /\ TypeOK /\ TwoStops /\ type \in {"STATION", "SEGMENT"}
  /\ IsFiniteSet(nodes) /\ IsFiniteSet(arcs)
  /\ GoodChains(chains)
  /\ Stage

(* Arcs as they are added. *)
Fits(a) ==
  /\ a.from \in AllNodes /\ a.to \in AllNodes
  /\ a.name \in DOMAIN lines \cup {CHANGE_NAME}
  /\ a.dist \in Int
  /\ a.connection = (a.name = CHANGE_NAME)

LEMMA AddedArcsFit ==
  ASSUME lines \in LineMaps
  PROVE  /\ \A a \in Rides : Fits(a)
         /\ \A a : IsTurn(a) \/ IsChange(a) => Fits(a) /\ a.connection
<1>1. ASSUME NEW a \in Rides PROVE Fits(a)
  <2>1. /\ ~a.connection /\ a.from \in AllNodes /\ a = RideFrom(a.from)
        /\ a.to \in AllNodes /\ a.name = a.from[1] /\ a.dist \in Int
    BY RidesOfLines DEF RideFacts
  <2>2. a.connection = FALSE
    BY <2>1 DEF RideFrom, Travel
  <2>3. a.name \in DOMAIN lines /\ a.name # CHANGE_NAME
    BY <2>1, NodeParts, LineFacts
  <2> QED
    BY <2>1, <2>2, <2>3 DEF Fits
<1>2. ASSUME NEW a, IsTurn(a) \/ IsChange(a) PROVE Fits(a) /\ a.connection
  <2>1. PICK c \in {switch_cost, change_cost} : a = Change(a.from, a.to, c)
    BY <1>2 DEF IsTurn, IsChange
  <2>2. a.connection = TRUE /\ a.name = CHANGE_NAME /\ a.dist = c
    BY <2>1 DEF Change
  <2>3. c \in Int
    BY NumbersAssumption
  <2>4. a.from \in AllNodes /\ a.to \in AllNodes
    <3>1. \A n \in AllNodes : Twin(n) \in AllNodes
      BY NodeParts, WayAndBack DEF Twin, Way, Back
    <3> QED
      BY <1>2, <3>1 DEF IsTurn, IsChange
  <2> QED
    BY <2>2, <2>3, <2>4 DEF Fits
<1> QED
  BY <1>1, <1>2

LEMMA SameFacts ==
  ASSUME UNCHANGED <<lines, type>>
  PROVE  /\ RideFacts(arcs)' <=> RideFacts(arcs')
         /\ TurnFacts(arcs)' <=> TurnFacts(arcs')
         /\ ChangeFacts(arcs)' <=> ChangeFacts(arcs')
         /\ \A a : IsTurn(a)' <=> IsTurn(a)
         /\ \A a : IsPlannedTurn(a)' <=> IsPlannedTurn(a)
         /\ \A a : IsChange(a)' <=> IsChange(a)
         /\ \A a : IsHop(a)' <=> IsHop(a)
         /\ \A a : IsArc(a)' <=> /\ a.from \in nodes' /\ a.to \in nodes'
                                /\ a.name \in DOMAIN lines \cup {CHANGE_NAME}
                                /\ a.dist \in Int
                                /\ a.connection = (a.name = CHANGE_NAME)
<1>1. RideFacts(arcs)' <=> RideFacts(arcs')
  BY SameLines DEF RideFacts, NextStop, Way, Back
<1>2. TurnFacts(arcs)' <=> TurnFacts(arcs')
  BY SameLines DEF TurnFacts, Twin, Change
<1>3. ChangeFacts(arcs)' <=> ChangeFacts(arcs')
  BY SameLines DEF ChangeFacts, Change
<1>4. \A a : IsTurn(a)' <=> IsTurn(a)
  BY SameLines DEF IsTurn, Twin, Change
<1>5. \A a : IsPlannedTurn(a)' <=> IsPlannedTurn(a)
  BY <1>4, SameLines DEF IsPlannedTurn
<1>6. \A a : IsChange(a)' <=> IsChange(a)
  BY SameLines DEF IsChange, Change
<1>7. \A a : IsHop(a)' <=> IsHop(a)
  BY SameLines DEF IsHop, NextStop, Way, Back
<1>8. \A a : IsArc(a)' <=> /\ a.from \in nodes' /\ a.to \in nodes'
                          /\ a.name \in DOMAIN lines \cup {CHANGE_NAME}
                          /\ a.dist \in Int
                          /\ a.connection = (a.name = CHANGE_NAME)
  BY DEF IsArc
<1> QED
  BY <1>1, <1>2, <1>3, <1>4, <1>5, <1>6, <1>7, <1>8

(* More connections do no harm to what is known of the rides. *)
LEMMA MoreConnections ==
  ASSUME NEW A, RideFacts(A), NEW B, \A a \in B : a.connection
  PROVE  RideFacts(A \cup B)
BY DEF RideFacts

LEMMA InitGInv ==
  ASSUME Init, \A ls \in LineMaps : \A l \in DOMAIN ls : Len(ls[l].stations) > 1
  PROVE  GInv
<1>1. /\ lines \in LineMaps /\ phase = "nodes" /\ nodes = {} /\ arcs = {} /\ chains = {}
      /\ redundant_nodes = {} /\ station_nodes = [s \in {} |-> {}]
      /\ type \in {"STATION", "SEGMENT"}
  BY DEF Init
<1>2. TypeOK
  BY <1>1 DEF TypeOK, Phases
<1>3. TwoStops
  BY <1>1 DEF TwoStops, LastStop
<1>4. IsFiniteSet(nodes) /\ IsFiniteSet(arcs)
  BY <1>1, FS_EmptySet
<1>5. GoodChains(chains)
  BY <1>1 DEF GoodChains
<1>6. Stage
  BY <1>1 DEF Stage
<1> QED
  BY <1>1, <1>2, <1>3, <1>4, <1>5, <1>6 DEF GInv

LEMMA StepOfNodes ==
  ASSUME GInv, CreateNodesAndTravelArcs
  PROVE  GInv'
<1>1. /\ phase = "nodes" /\ phase' = "switching"
      /\ nodes' = UNION {LineNodes(l) : l \in DOMAIN lines}
      /\ arcs' = UNION {TravelArcs(l) : l \in DOMAIN lines}
      /\ station_nodes' = [s \in StationNames |-> NodesAt(s)]
      /\ UNCHANGED <<lines, type, preprocess, chains, redundant_nodes>>
  BY DEF CreateNodesAndTravelArcs, input
<1>2. /\ lines \in LineMaps /\ TwoStops /\ type \in {"STATION", "SEGMENT"}
      /\ chains = {} /\ redundant_nodes = {}
  BY <1>1 DEF GInv, TypeOK, Stage
<1>3. nodes' = AllNodes /\ AllNodes' = AllNodes /\ arcs' = Rides
  BY <1>1, SameLines DEF AllNodes, Rides
<1>4. TypeOK'
  <2>1. \A a \in arcs' : IsArc(a)'
    BY <1>1, <1>2, <1>3, AddedArcsFit, SameFacts DEF Fits
  <2>2. \A s \in DOMAIN station_nodes' : station_nodes'[s] \subseteq NodesAt(s)'
    BY <1>1, SameLines
  <2> QED
    BY <1>1, <1>2, <1>3, <2>1, <2>2 DEF TypeOK, Phases
<1>5. IsFiniteSet(nodes)' /\ IsFiniteSet(arcs)'
  BY <1>2, <1>3, FiniteGraph
<1>6. GoodChains(chains)'
  BY <1>1, <1>2 DEF GoodChains
<1>7. Stage'
  <2>1. RideFacts(arcs)' /\ \A a \in arcs' : ~a.connection
    BY <1>1, <1>2, <1>3, RidesOfLines, SameFacts
  <2> QED
    BY <1>1, <1>2, <1>3, <2>1 DEF Stage
<1>8. TwoStops'
  BY <1>1, <1>2, SameLines
<1> QED
  BY <1>1, <1>2, <1>4, <1>5, <1>6, <1>7, <1>8 DEF GInv

LEMMA StepOfTurns ==
  ASSUME GInv,
         AddAllSwitchingArcs \/ AddSwitchingArcsAtTerminals \/ AddStationProblemSwitchingArcs
  PROVE  GInv'
<1>1. PICK B :
        /\ \/ B = UNION {AllTurns(l) : l \in DOMAIN lines} /\ ~preprocess
           \/ B = UNION {TerminalTurns(l) : l \in DOMAIN lines} /\ type = "SEGMENT"
           \/ B = UNION {StationProblemTurns(l) : l \in DOMAIN lines} /\ type = "STATION"
        /\ arcs' = arcs \cup B
        /\ phase = "switching" /\ phase' = "connections"
        /\ UNCHANGED <<lines, type, preprocess, nodes, station_nodes, chains, redundant_nodes>>
  BY DEF AddAllSwitchingArcs, AddSwitchingArcsAtTerminals, AddStationProblemSwitchingArcs,
         AddSwitchingArcs, input
<1>2. /\ lines \in LineMaps /\ TwoStops /\ type \in {"STATION", "SEGMENT"}
      /\ chains = {} /\ redundant_nodes = {} /\ nodes = AllNodes
      /\ RideFacts(arcs) /\ \A a \in arcs : ~a.connection
  BY <1>1 DEF GInv, TypeOK, Stage
<1>3. /\ \A a \in B : IsTurn(a)
      /\ preprocess => (\A a \in B : IsPlannedTurn(a)) /\ TurnFacts(B)
  BY <1>1, <1>2, AddedTurns
<1>4. \A a \in B : Fits(a) /\ a.connection
  BY <1>2, <1>3, AddedArcsFit
<1>5. TypeOK'
  <2>1. \A a \in arcs : IsArc(a)
    BY DEF GInv, TypeOK
  <2>2. \A a \in arcs' : IsArc(a)'
    BY <1>1, <1>2, <1>4, <2>1, SameFacts DEF Fits, IsArc
  <2>3. \A s \in DOMAIN station_nodes' : station_nodes'[s] \subseteq NodesAt(s)'
    BY <1>1, SameLines DEF GInv, TypeOK
  <2>4. AllNodes' = AllNodes
    BY <1>1, SameLines
  <2> QED
    BY <1>1, <1>2, <2>2, <2>3, <2>4 DEF TypeOK, Phases
<1>6. IsFiniteSet(nodes)' /\ IsFiniteSet(arcs)'
  <2>1. B \subseteq {Change(p[1], p[2], switch_cost) : p \in AllNodes \X AllNodes}
    <3> SUFFICES ASSUME NEW a \in B
                 PROVE  \E p \in AllNodes \X AllNodes : a = Change(p[1], p[2], switch_cost)
      OBVIOUS
    <3>1. /\ a.from \in AllNodes /\ a.to \in AllNodes
          /\ a = Change(a.from, a.to, switch_cost)
      BY <1>3, <1>4 DEF IsTurn, Fits
    <3>2. <<a.from, a.to>> \in AllNodes \X AllNodes
      BY <3>1
    <3> QED
      BY <3>1, <3>2
  <2>2. IsFiniteSet(B)
    <3>1. IsFiniteSet({Change(p[1], p[2], switch_cost) : p \in AllNodes \X AllNodes})
      BY <1>2, FiniteGraph
    <3> QED
      BY <2>1, <3>1, FS_Subset
  <2>3. IsFiniteSet(nodes) /\ IsFiniteSet(arcs)
    BY DEF GInv
  <2> QED
    BY <1>1, <2>2, <2>3, FS_Union
<1>7. GoodChains(chains)'
  BY <1>1, <1>2 DEF GoodChains
<1>8. Stage'
  <2>1. RideFacts(arcs') /\ (\A a \in arcs' : a.connection => IsTurn(a))
    BY <1>1, <1>2, <1>3, <1>4, MoreConnections
  <2>2. preprocess => TurnFacts(arcs') /\ \A a \in arcs' : a.connection => IsPlannedTurn(a)
    BY <1>1, <1>2, <1>3 DEF TurnFacts
  <2>3. AllNodes' = AllNodes
    BY <1>1, SameLines
  <2>4. /\ RideFacts(arcs)' /\ \A a \in arcs' : a.connection => IsTurn(a)'
    BY <1>1, <2>1, SameFacts
  <2>5. preprocess' => TurnFacts(arcs)' /\ \A a \in arcs' : a.connection => IsPlannedTurn(a)'
    BY <1>1, <2>2, SameFacts
  <2> QED
    BY <1>1, <1>2, <2>3, <2>4, <2>5 DEF Stage
<1>9. TwoStops'
  BY <1>1, <1>2, SameLines
<1> QED
  BY <1>1, <1>2, <1>5, <1>6, <1>7, <1>8, <1>9 DEF GInv

LEMMA StepOfChanges ==
  ASSUME GInv, AddAllConnectionArcs
  PROVE  GInv'
<1>1. PICK B :
        /\ B = UNION {ConnectionArcs(s) : s \in StationNames}
        /\ arcs' = arcs \cup B
        /\ phase = "connections" /\ phase' = IF preprocess THEN "chains" ELSE "check"
        /\ UNCHANGED <<lines, type, preprocess, nodes, station_nodes, chains, redundant_nodes>>
  BY DEF AddAllConnectionArcs, input
<1>2. /\ lines \in LineMaps /\ TwoStops /\ type \in {"STATION", "SEGMENT"}
      /\ chains = {} /\ redundant_nodes = {} /\ nodes = AllNodes
      /\ RideFacts(arcs) /\ \A a \in arcs : a.connection => IsTurn(a)
      /\ preprocess => TurnFacts(arcs) /\ \A a \in arcs : a.connection => IsPlannedTurn(a)
  BY <1>1 DEF GInv, TypeOK, Stage
<1>3. (\A a \in B : IsChange(a)) /\ ChangeFacts(B)
  BY <1>1, <1>2, AddedChanges
<1>4. \A a \in B : Fits(a) /\ a.connection
  BY <1>2, <1>3, AddedArcsFit
<1>5. TypeOK'
  <2>1. \A a \in arcs : IsArc(a)
    BY DEF GInv, TypeOK
  <2>2. \A a \in arcs' : IsArc(a)'
    BY <1>1, <1>2, <1>4, <2>1, SameFacts DEF Fits, IsArc
  <2>3. \A s \in DOMAIN station_nodes' : station_nodes'[s] \subseteq NodesAt(s)'
    BY <1>1, SameLines DEF GInv, TypeOK
  <2>4. AllNodes' = AllNodes
    BY <1>1, SameLines
  <2> QED
    BY <1>1, <1>2, <2>2, <2>3, <2>4 DEF TypeOK, Phases
<1>6. IsFiniteSet(nodes)' /\ IsFiniteSet(arcs)'
  <2>1. B \subseteq {Change(p[1], p[2], change_cost) : p \in AllNodes \X AllNodes}
    <3> SUFFICES ASSUME NEW a \in B
                 PROVE  \E p \in AllNodes \X AllNodes : a = Change(p[1], p[2], change_cost)
      OBVIOUS
    <3>1. /\ a.from \in AllNodes /\ a.to \in AllNodes
          /\ a = Change(a.from, a.to, change_cost)
      BY <1>3 DEF IsChange
    <3>2. <<a.from, a.to>> \in AllNodes \X AllNodes
      BY <3>1
    <3> QED
      BY <3>1, <3>2
  <2>2. IsFiniteSet(B)
    <3>1. IsFiniteSet({Change(p[1], p[2], change_cost) : p \in AllNodes \X AllNodes})
      BY <1>2, FiniteGraph
    <3> QED
      BY <2>1, <3>1, FS_Subset
  <2>3. IsFiniteSet(nodes) /\ IsFiniteSet(arcs)
    BY DEF GInv
  <2> QED
    BY <1>1, <2>2, <2>3, FS_Union
<1>7. GoodChains(chains)'
  BY <1>1, <1>2 DEF GoodChains
<1>8. Stage'
  <2>1. AllNodes' = AllNodes
    BY <1>1, SameLines
  <2>2. phase' = "chains" => Shape'
    <3> SUFFICES ASSUME preprocess PROVE Shape'
      BY <1>1
    <3>1. RideFacts(arcs') /\ TurnFacts(arcs') /\ ChangeFacts(arcs')
      BY <1>1, <1>2, <1>3, <1>4, MoreConnections DEF TurnFacts, ChangeFacts
    <3>2. RideFacts(arcs)' /\ TurnFacts(arcs)' /\ ChangeFacts(arcs)'
      BY <1>1, <3>1, SameFacts
    <3>3. \A a \in arcs' : a.connection => IsPlannedTurn(a)' \/ IsChange(a)'
      BY <1>1, <1>2, <1>3, SameFacts
    <3> QED
      BY <3>2, <3>3 DEF Shape
  <2> QED
    BY <1>1, <1>2, <2>1, <2>2 DEF Stage
<1>9. TwoStops'
  BY <1>1, <1>2, SameLines
<1> QED
  BY <1>1, <1>2, <1>5, <1>6, <1>7, <1>8, <1>9 DEF GInv

LEMMA StepOfChains ==
  ASSUME GInv, ComputeDegree2Chains
  PROVE  GInv'
<1>1. /\ phase = "chains" /\ phase' = "removing" /\ chains' = Chains(ChainNodes)
      /\ UNCHANGED <<lines, type, preprocess, nodes, arcs, station_nodes, redundant_nodes>>
  BY DEF ComputeDegree2Chains, input
<1>2. /\ lines \in LineMaps /\ TwoStops /\ type \in {"STATION", "SEGMENT"}
      /\ nodes = AllNodes /\ Shape /\ redundant_nodes = {}
      /\ IsFiniteSet(nodes) /\ IsFiniteSet(arcs)
  BY <1>1 DEF GInv, TypeOK, Stage
<1>3. GoodChains(Chains(ChainNodes))
  <2>1. NodeFacts
    BY <1>2, NodesAreTwins
  <2>2. \A n \in ChainNodes :
          /\ n \in nodes /\ OneInOneOut(n)
          /\ \A a \in arcs : a.from = n \/ a.to = n => IsHop(a)
    BY <1>2, <2>1, InsideFacts
  <2> QED
    BY <1>2, <2>2, ComponentsOfChains
<1>4. GoodChains(chains)'
  <2> PICK Cs : Cs = Chains(ChainNodes)
    OBVIOUS
  <2>1. /\ \A n : OneInOneOut(n)' <=> OneInOneOut(n)
        /\ \A C : ArcsOf(C)' = ArcsOf(C)
    BY <1>1 DEF OneInOneOut, InEdges, OutEdges, ArcsOf
  <2> QED
    BY <1>1, <1>3, <2>1, SameFacts DEF GoodChains, Linked
<1>5. TypeOK'
  <2>1. \A a \in arcs' : IsArc(a)'
    BY <1>1, SameFacts DEF GInv, TypeOK, IsArc
  <2>2. \A s \in DOMAIN station_nodes' : station_nodes'[s] \subseteq NodesAt(s)'
    BY <1>1, SameLines DEF GInv, TypeOK
  <2>3. AllNodes' = AllNodes
    BY <1>1, SameLines
  <2>4. chains' \subseteq SUBSET nodes'
    BY <1>4 DEF GoodChains
  <2> QED
    BY <1>1, <1>2, <2>1, <2>2, <2>3, <2>4 DEF TypeOK, Phases
<1>6. Stage'
  BY <1>1 DEF Stage
<1>7. TwoStops' /\ IsFiniteSet(nodes)' /\ IsFiniteSet(arcs)'
  BY <1>1, <1>2, SameLines
<1> QED
  BY <1>1, <1>2, <1>4, <1>5, <1>6, <1>7 DEF GInv

LEMMA StepOfRemoval ==
  ASSUME GInv, RemoveChain
  PROVE  GInv'
<1>1. PICK C \in chains :
        /\ phase = "removing" /\ phase' = "removing" /\ chains' = chains \ {C}
        /\ \/ /\ arcs' = (arcs \ ArcsOf(C)) \cup {NewArc(C)}
              /\ nodes' = nodes \ C
              /\ redundant_nodes' = redundant_nodes \cup C
           \/ UNCHANGED <<arcs, nodes, redundant_nodes>>
        /\ UNCHANGED <<lines, type, preprocess, station_nodes>>
  BY DEF RemoveChain, input
<1>2. /\ lines \in LineMaps /\ TwoStops /\ type \in {"STATION", "SEGMENT"}
      /\ nodes \subseteq AllNodes /\ redundant_nodes \subseteq AllNodes \ nodes
      /\ IsFiniteSet(nodes) /\ IsFiniteSet(arcs) /\ GoodChains(chains)
      /\ \A a \in arcs : IsArc(a)
  BY DEF GInv, TypeOK
<1>3. AllNodes' = AllNodes /\ TwoStops' /\ Stage'
  BY <1>1, <1>2, SameLines DEF Stage
<1>4. \A s \in DOMAIN station_nodes' : station_nodes'[s] \subseteq NodesAt(s)'
  BY <1>1, SameLines DEF GInv, TypeOK
<1>5. CASE UNCHANGED <<arcs, nodes, redundant_nodes>>
  <2>1. /\ \A n : OneInOneOut(n)' <=> OneInOneOut(n)
        /\ \A D : ArcsOf(D)' = ArcsOf(D)
    BY <1>5 DEF OneInOneOut, InEdges, OutEdges, ArcsOf
  <2>2. GoodChains(chains)'
    BY <1>1, <1>2, <1>5, <2>1, SameFacts DEF GoodChains, Linked
  <2>3. \A a \in arcs' : IsArc(a)'
    BY <1>1, <1>2, <1>5, SameFacts DEF IsArc
  <2>4. chains' \subseteq SUBSET nodes'
    BY <2>2 DEF GoodChains
  <2>5. TypeOK'
    BY <1>1, <1>2, <1>3, <1>4, <1>5, <2>3, <2>4 DEF TypeOK, Phases
  <2> QED
    BY <1>1, <1>2, <1>3, <1>5, <2>2, <2>5 DEF GInv
<1>6. CASE /\ arcs' = (arcs \ ArcsOf(C)) \cup {NewArc(C)}
           /\ nodes' = nodes \ C
           /\ redundant_nodes' = redundant_nodes \cup C
  <2>1. GoodChains(chains)'
    BY <1>1, <1>2, <1>6, OthersUntouched
  <2>2. /\ FirstArc(C) \in ArcsOf(C) /\ FirstArc(C).from \notin C
        /\ LastArc(C) \in ArcsOf(C) /\ LastArc(C).to \notin C
        /\ C \subseteq nodes /\ IsHop(FirstArc(C))
    <3>1. /\ FirstArc(C) \in ArcsOf(C) /\ FirstArc(C).from \notin C
          /\ LastArc(C) \in ArcsOf(C) /\ LastArc(C).to \notin C
      BY <1>2, ChainEnds
    <3> QED
      BY <1>2, <3>1 DEF GoodChains
  <2>3. ArcsOf(C) \subseteq arcs
    BY DEF ArcsOf
  <2>4. RideAlong(C) \in Int
    <3>1. IsFiniteSet(ArcsOf(C)) /\ \A a \in ArcsOf(C) : a.dist \in Int
      BY <1>2, <2>3, FS_Subset DEF IsArc
    <3> QED
      BY <3>1, SumIsInt DEF RideAlong
  <2> PICK new : new = NewArc(C)
    OBVIOUS
  <2>5. /\ new.from = FirstArc(C).from /\ new.to = LastArc(C).to
        /\ new.name = FirstArc(C).name /\ new.dist = RideAlong(C) /\ new.connection = FALSE
    BY DEF NewArc, Travel
  <2>6. IsArc(new)'
    <3>1. new.from \in nodes \ C /\ new.to \in nodes \ C
      BY <1>2, <2>2, <2>3, <2>5 DEF IsArc
    <3>2. new.name \in DOMAIN lines /\ new.name # CHANGE_NAME
      BY <1>2, <2>2, <2>3, <2>5 DEF IsArc, IsHop
    <3>3. new.connection = (new.name = CHANGE_NAME)
      BY <2>5, <3>2
    <3> QED
      BY <1>1, <1>6, <2>4, <2>5, <3>1, <3>2, <3>3, SameFacts
  <2>7. \A a \in arcs' : IsArc(a)'
    <3>1. \A a \in arcs \ ArcsOf(C) : IsArc(a)'
      BY <1>1, <1>2, <1>6, SameFacts DEF IsArc, ArcsOf
    <3> QED
      BY <1>6, <2>6, <3>1
  <2>8. IsFiniteSet(nodes)' /\ IsFiniteSet(arcs)'
    <3>1. IsFiniteSet(nodes \ C) /\ IsFiniteSet(arcs \ ArcsOf(C))
      BY <1>2, FS_Difference
    <3>2. IsFiniteSet((arcs \ ArcsOf(C)) \cup {NewArc(C)})
      BY <3>1, FS_AddElement
    <3> QED
      BY <1>6, <3>1, <3>2
  <2>9. chains' \subseteq SUBSET nodes'
    BY <2>1 DEF GoodChains
  <2>10. nodes' \subseteq AllNodes /\ redundant_nodes' \subseteq AllNodes \ nodes'
    BY <1>2, <1>6, <2>2
  <2>11. TypeOK'
    BY <1>1, <1>2, <1>3, <1>4, <2>7, <2>9, <2>10 DEF TypeOK, Phases
  <2> QED
    BY <1>1, <1>2, <1>3, <2>1, <2>8, <2>11 DEF GInv
<1> QED
  BY <1>1, <1>5, <1>6

(* The remaining steps leave nodes, arcs and chains alone. *)
LEMMA OtherSteps ==
  ASSUME GInv, UNCHANGED <<lines, type, preprocess, nodes, arcs, chains, redundant_nodes>>,
         \/ UNCHANGED <<phase, station_nodes>>
         \/ phase' \in {"check", "built", "thrown"} /\ chains = {}
             /\ \A s \in DOMAIN station_nodes' : station_nodes'[s] \subseteq NodesAt(s)
  PROVE  GInv'
<1>1. /\ \A n : OneInOneOut(n)' <=> OneInOneOut(n)
      /\ \A C : ArcsOf(C)' = ArcsOf(C)
  BY DEF OneInOneOut, InEdges, OutEdges, ArcsOf
<1>2. GoodChains(chains)'
  BY <1>1, SameFacts DEF GoodChains, GInv, Linked
<1>3. \A a \in arcs' : IsArc(a)'
  BY SameFacts DEF IsArc, GInv, TypeOK
<1>4. \A s \in DOMAIN station_nodes' : station_nodes'[s] \subseteq NodesAt(s)'
  BY SameLines DEF GInv, TypeOK
<1>5. AllNodes' = AllNodes /\ TwoStops' = TwoStops
  BY SameLines
<1>6. TypeOK'
  BY <1>3, <1>4, <1>5 DEF GInv, TypeOK, Phases
<1>7. Stage'
  <2>1. CASE UNCHANGED phase
    <3>1. /\ RideFacts(arcs)' <=> RideFacts(arcs)
          /\ TurnFacts(arcs)' <=> TurnFacts(arcs)
          /\ ChangeFacts(arcs)' <=> ChangeFacts(arcs)
      <4>1. arcs' = arcs
        OBVIOUS
      <4>2. /\ RideFacts(arcs)' <=> RideFacts(arcs')
            /\ TurnFacts(arcs)' <=> TurnFacts(arcs')
            /\ ChangeFacts(arcs)' <=> ChangeFacts(arcs')
        BY SameFacts
      <4> QED
        BY <4>1, <4>2
    <3>2. Shape' <=> Shape
      BY <3>1, SameFacts DEF Shape
    <3>3. Stage
      BY DEF GInv
    <3> QED
      BY <1>5, <2>1, <3>1, <3>2, <3>3, SameFacts DEF Stage
  <2>2. CASE phase' \in {"check", "built", "thrown"} /\ chains = {}
    BY <2>2 DEF Stage
  <2> QED
    BY <2>1, <2>2
<1> QED
  BY <1>2, <1>5, <1>6, <1>7 DEF GInv

LEMMA NextGInv ==
  ASSUME GInv, [Next]_vars
  PROVE  GInv'
<1>1. CASE RemoveFromStations
  <2>1. /\ phase' = "check" /\ chains = {}
        /\ UNCHANGED <<lines, type, preprocess, nodes, arcs, chains, redundant_nodes>>
    BY <1>1 DEF RemoveFromStations, input
  <2>2. PICK left : /\ left = [s \in DOMAIN station_nodes |-> station_nodes[s] \ redundant_nodes]
                    /\ station_nodes' = [s \in {t \in DOMAIN left : left[t] # {}} |-> left[s]]
    BY <1>1 DEF RemoveFromStations
  <2>3. \A s \in DOMAIN station_nodes' : station_nodes'[s] \subseteq NodesAt(s)
    BY <2>2 DEF GInv, TypeOK
  <2> QED
    BY <2>1, <2>3, OtherSteps
<1>2. CASE CheckConnectivity
  <2>1. /\ phase = "check" /\ phase' \in {"built", "thrown"}
        /\ UNCHANGED <<lines, type, preprocess, nodes, arcs, chains, redundant_nodes, station_nodes>>
    BY <1>2 DEF CheckConnectivity, input
  <2>2. chains = {} /\ \A s \in DOMAIN station_nodes : station_nodes[s] \subseteq NodesAt(s)
    BY <2>1 DEF GInv, TypeOK, Stage
  <2> QED
    BY <2>1, <2>2, OtherSteps
<1>3. CASE UNCHANGED vars
  BY <1>3, OtherSteps DEF vars, input
<1> QED
  BY <1>1, <1>2, <1>3, StepOfNodes, StepOfTurns, StepOfChanges, StepOfChains, StepOfRemoval
     DEF Next

-----------------------------------------------------------------------------
(* Every line has two stops: with a single stop the assertion on degrees   *)
(* fails, and a chain may have no end.                                     *)
LinesHaveTwoStops == \A ls \in LineMaps : \A l \in DOMAIN ls : Len(ls[l].stations) > 1

LEMMA GraphInductive ==
  ASSUME LinesHaveTwoStops
  PROVE  Spec => []GInv
<1>1. Init => GInv
  BY InitGInv DEF LinesHaveTwoStops
<1>2. GInv /\ [Next]_vars => GInv'
  BY NextGInv
<1> QED
  BY <1>1, <1>2, PTL DEF Spec

(* The graph is well formed throughout the constructor: arcs join its      *)
(* nodes, also the one that replaces a chain, whose ends stay and whose    *)
(* name is that of a line; the chains that are still to be removed have    *)
(* all of their nodes, and a removed node is not taken out twice.          *)
THEOREM GraphTypes ==
  ASSUME LinesHaveTwoStops
  PROVE  Spec => []TypeOK
<1>1. GInv => TypeOK
  BY DEF GInv
<1> QED
  BY <1>1, GraphInductive, PTL

(* The assertion of computeDegree2Chains holds for every network: at a     *)
(* station where lines meet the changes give a node that a ride ends at a  *)
(* way on, and elsewhere the turns at the ends of lines do.                *)
THEOREM DegreesSuffice ==
  ASSUME LinesHaveTwoStops
  PROVE  Spec => []DegreeAssertion
<1>1. GInv => DegreeAssertion
  <2> SUFFICES ASSUME GInv, phase = "chains", NEW n \in nodes PROVE Degree(n) >= 2
    BY DEF DegreeAssertion
  <2>1. /\ lines \in LineMaps /\ TwoStops /\ type \in {"STATION", "SEGMENT"}
        /\ nodes = AllNodes /\ Shape /\ IsFiniteSet(arcs)
    BY DEF GInv, TypeOK, Stage
  <2>2. (\E a \in arcs : a.to = n) /\ (\E a \in arcs : a.from = n)
    BY <2>1, NodesAreTwins, BothWays
  <2> QED
    BY <2>1, <2>2, DegreeFacts
<1> QED
  BY <1>1, GraphInductive, PTL

(* The assertions on chains hold in whatever order the chains are removed: *)
(* no arc joins two chains, so that the arc that replaces one of them      *)
(* touches no other, and a chain without connections stays on its line.    *)
THEOREM ChainsAreRides ==
  ASSUME LinesHaveTwoStops
  PROVE  Spec => []ChainAssertions
<1>1. GInv => ChainAssertions
  <2> SUFFICES ASSUME GInv, NEW C \in chains
               PROVE  /\ \A n \in C : OneInOneOut(n)
                      /\ \A a, b \in ArcsOf(C) : ~a.connection /\ a.name = b.name
    BY DEF ChainAssertions, OneInOneOut
  <2>1. GoodChains(chains)
    BY DEF GInv
  <2>2. \A a \in ArcsOf(C) : /\ IsHop(a) /\ a.to[1] = a.from[1]
                             /\ a.from \in C \/ a.to \in C
    BY <2>1, NextOnLine DEF GoodChains, ArcsOf
  <2> QED
    BY <2>1, <2>2 DEF GoodChains, IsHop
<1> QED
  BY <1>1, GraphInductive, PTL

-----------------------------------------------------------------------------
(* No arc leads into a set of nodes that none leads out of. *)

(* Where one turns, either the line ends, or one can turn again behind. *)
PairedTurns(A) ==
  \A l \in DOMAIN lines : \A i \in Stops(l) :
    /\ TurnBack(l, i) \in A =>
         \/ i = LastStop(l) /\ (type = "SEGMENT" \/ ~ConnectingStop(l, i))
         \/ \E q \in 1..i : TurnAround(l, q) \in A
    /\ TurnAround(l, i) \in A =>
         \/ i = 1 /\ (type = "SEGMENT" \/ ~ConnectingStop(l, i))
         \/ \E q \in i..LastStop(l) : TurnBack(l, q) \in A

Complete(A) ==
  /\ RideFacts(A) /\ TurnFacts(A) /\ ChangeFacts(A) /\ PairedTurns(A)
  /\ \A a \in A : a.connection => IsTurn(a) \/ IsChange(a)

(* Who is on a line rides on to its end. *)
LEMMA RideOn ==
  ASSUME lines \in LineMaps, NEW A, RideFacts(A), NEW T, Closed(A, T),
         NEW l \in DOMAIN lines, NEW i \in Stops(l)
  PROVE  /\ Way(l, i) \in T => \A j \in i..LastStop(l) : Way(l, j) \in T
         /\ Back(l, i) \in T => \A j \in 1..i : Back(l, j) \in T
<1>1. LastStop(l) \in Nat /\ Stops(l) = 1..LastStop(l)
  BY LineFacts
<1>2. ASSUME NEW n \in AllNodes, Departing(n), n \in T PROVE NextStop(n) \in T
  <2>1. PICK a \in A : ~a.connection /\ a.from = n
    BY <1>2 DEF RideFacts
  <2>2. a.to = NextStop(n)
    BY <2>1 DEF RideFacts
  <2> QED
    BY <1>2, <2>1, <2>2 DEF Closed
<1>3. ASSUME Way(l, i) \in T PROVE \A j \in i..LastStop(l) : Way(l, j) \in T
  <2> DEFINE bad == {j \in Nat : j \in i..LastStop(l) /\ Way(l, j) \notin T}
  <2> SUFFICES ASSUME bad # {} PROVE FALSE
    BY <1>1
  <2>1. bad \in SUBSET Nat
    OBVIOUS
  <2> HIDE DEF bad
  <2>2. PICK j \in bad : \A m \in bad : j <= m
    BY <2>1, LeastNumber
  <2>3. j \in Nat /\ j \in i..LastStop(l) /\ Way(l, j) \notin T
    BY DEF bad
  <2>4. j - 1 \in i..LastStop(l) /\ j - 1 \in Nat /\ j - 1 \in Stops(l) /\ j - 1 < LastStop(l)
        /\ (j - 1) + 1 = j
    BY <1>1, <1>3, <2>3
  <2>5. Way(l, j - 1) \in T
    BY <2>2, <2>4 DEF bad
  <2>6. Way(l, j - 1) \in AllNodes /\ Departing(Way(l, j - 1))
    BY <2>4, WayAndBack DEF Departing, Way
  <2>7. NextStop(Way(l, j - 1)) = Way(l, j)
    BY <2>4 DEF NextStop, Way
  <2> QED
    BY <1>2, <2>3, <2>5, <2>6, <2>7
<1>4. ASSUME Back(l, i) \in T PROVE \A j \in 1..i : Back(l, j) \in T
  <2> DEFINE bad == {k \in Nat : k \in 0..(i - 1) /\ Back(l, i - k) \notin T}
  <2>0. SUFFICES ASSUME bad # {} PROVE FALSE
    <3> TAKE j \in 1..i
    <3>1. i - j \in Nat /\ i - j \in 0..(i - 1) /\ i - (i - j) = j
      BY <1>1
    <3>2. i - j \notin bad
      BY <2>0
    <3> QED
      BY <3>1, <3>2
  <2>1. bad \in SUBSET Nat
    OBVIOUS
  <2> HIDE DEF bad
  <2>2. PICK k \in bad : \A m \in bad : k <= m
    BY <2>0, <2>1, LeastNumber
  <2>3. k \in Nat /\ k \in 0..(i - 1) /\ Back(l, i - k) \notin T
    BY DEF bad
  <2>4. k # 0
    BY <1>1, <1>4, <2>3
  <2>5. /\ k - 1 \in 0..(i - 1) /\ k - 1 \in Nat /\ i - (k - 1) \in Stops(l)
        /\ i - (k - 1) > 1 /\ (i - (k - 1)) - 1 = i - k
    BY <1>1, <2>3, <2>4
  <2>6. Back(l, i - (k - 1)) \in T
    BY <2>2, <2>5 DEF bad
  <2>7. Back(l, i - (k - 1)) \in AllNodes /\ Departing(Back(l, i - (k - 1)))
    BY <2>5, WayAndBack DEF Departing, Back
  <2>8. NextStop(Back(l, i - (k - 1))) = Back(l, i - k)
    BY <2>5 DEF NextStop, Back
  <2> QED
    BY <1>2, <2>3, <2>6, <2>7, <2>8
<1> QED
  BY <1>3, <1>4

(* Where an arrival cannot turn, it is the only one. *)
LEMMA OnlyArrival ==
  ASSUME NodeFacts, NEW A, Complete(A), NEW T, Closed(A, T),
         NEW u \in AllNodes, u \in T, Arriving(u), ~Departing(u), Twin(u) \notin T,
         NEW x \in AllNodes, x \in T, Arriving(x), SameStation(u, x)
  PROVE  x = u
<1>1. /\ Twin(u) \in AllNodes /\ Departing(Twin(u)) /\ SameStation(x, Twin(u))
      /\ Twin(u)[1] = u[1]
  BY DEF NodeFacts, SameStation
<1>2. CASE x[1] # u[1]
  <2>1. Change(x, Twin(u), change_cost) \in A
    BY <1>1, <1>2 DEF Complete, ChangeFacts
  <2>2. Twin(u) \in T
    BY <2>1 DEF Closed, Change
  <2> QED
    BY <2>2
<1>3. CASE x[1] = u[1]
  BY <1>3 DEF NodeFacts
<1> QED
  BY <1>2, <1>3

(* A ride that goes on after the one that arrives at u. *)
Elsewhere(T, u) ==
  CHOOSE v \in AllNodes : SameStation(u, v) /\ u[1] # v[1] /\ Departing(v) /\ v \in T

GoesOn(T, u) ==
  IF Departing(u) THEN u ELSE IF Twin(u) \in T THEN Twin(u) ELSE Elsewhere(T, u)

LEMMA ElsewhereFacts ==
  ASSUME NodeFacts, type \in {"STATION", "SEGMENT"}, NEW A, Complete(A), NEW T, Closed(A, T),
         NEW u \in AllNodes, u \in T, Arriving(u), ~Departing(u), Twin(u) \notin T
  PROVE  /\ Elsewhere(T, u) \in AllNodes /\ SameStation(u, Elsewhere(T, u))
         /\ u[1] # Elsewhere(T, u)[1] /\ Departing(Elsewhere(T, u)) /\ Elsewhere(T, u) \in T
         /\ type = "STATION" /\ IsConnecting(StationOfNode(u))
<1>1. Change(u, Twin(u), switch_cost) \notin A
  BY DEF Closed, Change
<1>2. type = "STATION" /\ IsConnecting(StationOfNode(u))
  BY <1>1 DEF Complete, TurnFacts
<1>3. PICK m \in AllNodes : SameStation(u, m) /\ m[1] # u[1]
  BY <1>2 DEF NodeFacts
<1>4. \E v \in AllNodes : SameStation(u, v) /\ u[1] # v[1] /\ Departing(v)
  <2>1. Departing(m) \/ Departing(Twin(m))
    BY DEF NodeFacts
  <2>2. Twin(m) \in AllNodes /\ SameStation(u, Twin(m)) /\ Twin(m)[1] = m[1]
    BY <1>3 DEF NodeFacts, SameStation
  <2> QED
    BY <1>3, <2>1, <2>2
<1>5. \E v \in AllNodes : SameStation(u, v) /\ u[1] # v[1] /\ Departing(v) /\ v \in T
  <2>1. PICK v \in AllNodes : SameStation(u, v) /\ u[1] # v[1] /\ Departing(v)
    BY <1>4
  <2>2. Change(u, v, change_cost) \in A
    BY <2>1 DEF Complete, ChangeFacts
  <2>3. v \in T
    BY <2>2 DEF Closed, Change
  <2> QED
    BY <2>1, <2>3
<1> QED
  BY <1>2, <1>5 DEF Elsewhere

(* No two rides that arrive in T go on with the same one. *)
LEMMA GoesOnFacts ==
  ASSUME NodeFacts, type \in {"STATION", "SEGMENT"}, NEW A, Complete(A), NEW T, Closed(A, T),
         NEW u \in AllNodes, u \in T, Arriving(u)
  PROVE  /\ GoesOn(T, u) \in AllNodes /\ GoesOn(T, u) \in T /\ Departing(GoesOn(T, u))
         /\ SameStation(u, GoesOn(T, u))
         /\ \A x \in AllNodes : x \in T /\ Arriving(x) /\ GoesOn(T, x) = GoesOn(T, u) => x = u
<1>1. ASSUME NEW x \in AllNodes, x \in T, Arriving(x)
      PROVE  /\ GoesOn(T, x) \in AllNodes /\ GoesOn(T, x) \in T /\ Departing(GoesOn(T, x))
             /\ SameStation(x, GoesOn(T, x))
  <2>1. CASE Departing(x)
    BY <1>1, <2>1 DEF GoesOn, SameStation
  <2>2. CASE ~Departing(x) /\ Twin(x) \in T
    BY <1>1, <2>2 DEF GoesOn, NodeFacts, SameStation
  <2>3. CASE ~Departing(x) /\ Twin(x) \notin T
    BY <1>1, <2>3, ElsewhereFacts DEF GoesOn
  <2> QED
    BY <2>1, <2>2, <2>3
<1>2. ASSUME NEW x \in AllNodes, x \in T, Arriving(x), ~Departing(x), Twin(x) \notin T,
             NEW y \in AllNodes, y \in T, Arriving(y), GoesOn(T, x) = GoesOn(T, y)
      PROVE  x = y
  <2>1. SameStation(x, y)
    BY <1>1, <1>2 DEF SameStation
  <2> QED
    BY <1>2, <2>1, OnlyArrival
<1>3. ASSUME NEW x \in AllNodes, x \in T, Arriving(x), GoesOn(T, x) = GoesOn(T, u)
      PROVE  x = u
  <2>1. CASE ~Departing(x) /\ Twin(x) \notin T
    BY <1>2, <1>3, <2>1
  <2>2. CASE ~Departing(u) /\ Twin(u) \notin T
    BY <1>2, <1>3, <2>2
  <2>3. CASE (Departing(x) \/ Twin(x) \in T) /\ (Departing(u) \/ Twin(u) \in T)
    <3>1. GoesOn(T, x) = (IF Departing(x) THEN x ELSE Twin(x))
      BY <2>3 DEF GoesOn
    <3>2. GoesOn(T, u) = (IF Departing(u) THEN u ELSE Twin(u))
      BY <2>3 DEF GoesOn
    <3> QED
      BY <1>3, <3>1, <3>2 DEF NodeFacts
  <2> QED
    BY <2>1, <2>2, <2>3
<1> QED
  BY <1>1, <1>3

(* So every ride that departs in T is the next one of an arrival in T, and *)
(* every arrival in T comes from T.                                        *)
LEMMA AllGoOn ==
  ASSUME lines \in LineMaps, NodeFacts, type \in {"STATION", "SEGMENT"},
         NEW A, Complete(A), NEW T, Closed(A, T)
  PROVE  /\ \A v \in AllNodes : v \in T /\ Departing(v) =>
              \E u \in AllNodes : u \in T /\ Arriving(u) /\ GoesOn(T, u) = v
         /\ \A u \in AllNodes : u \in T /\ Arriving(u) =>
              \E v \in AllNodes : v \in T /\ Departing(v) /\ NextStop(v) = u
<1> DEFINE U == {n \in AllNodes : n \in T /\ Arriving(n)}
           V == {n \in AllNodes : n \in T /\ Departing(n)}
           f == [u \in U |-> GoesOn(T, u)]
           g == [v \in V |-> NextStop(v)]
<1>1. IsFiniteSet(U) /\ IsFiniteSet(V)
  BY FiniteGraph, FS_Subset
<1>2. f \in Injection(U, V)
  <2>1. \A u \in U : f[u] \in V
    BY GoesOnFacts
  <2>2. \A u, x \in U : f[u] = f[x] => u = x
    BY GoesOnFacts
  <2> HIDE DEF U, V
  <2> QED
    BY <2>1, <2>2 DEF Injection, IsInjective
<1>3. g \in Injection(V, U)
  <2>1. ASSUME NEW v \in V PROVE g[v] \in U
    <3>1. NextStop(v) \in AllNodes /\ Arriving(NextStop(v))
      BY RideOfNode
    <3>2. PICK a \in A : ~a.connection /\ a.from = v
      BY DEF Complete, RideFacts
    <3>3. a.to = NextStop(v)
      BY <3>2 DEF Complete, RideFacts
    <3> QED
      BY <3>1, <3>2, <3>3 DEF Closed
  <2>2. \A v, x \in V : g[v] = g[x] => v = x
    BY NextIsInjective
  <2> HIDE DEF U, V
  <2> QED
    BY <2>1, <2>2 DEF Injection, IsInjective
<1> HIDE DEF U, V, f, g
<1>4. Cardinality(U) <= Cardinality(V) /\ Cardinality(V) <= Cardinality(U)
  BY <1>1, <1>2, <1>3, FS_Injection
<1>5. Cardinality(U) = Cardinality(V)
  BY <1>1, <1>4, FS_CardinalityType
<1>6. f \in Surjection(U, V)
  BY <1>1, <1>2, <1>5, FS_Injection
<1>7. g \in Surjection(V, U)
  BY <1>1, <1>3, <1>5, FS_Injection
<1>8. \A v \in V : \E u \in U : f[u] = v
  BY <1>6 DEF Surjection
<1>9. \A u \in U : \E v \in V : g[v] = u
  BY <1>7 DEF Surjection
<1> QED
  BY <1>8, <1>9 DEF U, V, f, g

LEMMA TurnOfStop ==
  ASSUME lines \in LineMaps, NEW a, IsTurn(a)
  PROVE  \E l \in DOMAIN lines : \E i \in Stops(l) :
           a = TurnBack(l, i) \/ a = TurnAround(l, i)
<1>1. a.from \in AllNodes /\ a.to = Twin(a.from) /\ a = Change(a.from, a.to, switch_cost)
  BY DEF IsTurn
<1> DEFINE l == a.from[1]
           i == a.from[3]
<1>2. /\ l \in DOMAIN lines /\ i \in Stops(l)
      /\ (a.from = Way(l, i) /\ a.from[2] = "way") \/ (a.from = Back(l, i) /\ a.from[2] = "back")
  BY <1>1, NodeParts
<1> HIDE DEF l, i
<1>3. Twin(Way(l, i)) = Back(l, i) /\ Twin(Back(l, i)) = Way(l, i)
  BY DEF Twin, Way, Back
<1>4. a = TurnBack(l, i) \/ a = TurnAround(l, i)
  BY <1>1, <1>2, <1>3 DEF TurnBack, TurnAround
<1> QED
  BY <1>2, <1>4

(* A turn into T at the end of a line, where one always turns. *)
LEMMA EndTurnIntoT ==
  ASSUME lines \in LineMaps, NodeFacts, type \in {"STATION", "SEGMENT"},
         NEW A, Complete(A), NEW T, Closed(A, T),
         NEW u \in AllNodes, Arriving(u), ~Departing(u), Twin(u) \in T,
         type = "SEGMENT" \/ ~IsConnecting(StationOfNode(u))
  PROVE  u \in T
<1>1. /\ Twin(u) \in AllNodes /\ Departing(Twin(u)) /\ ~Arriving(Twin(u))
      /\ SameStation(Twin(u), u)
  BY DEF NodeFacts
<1>2. PICK w \in AllNodes : w \in T /\ Arriving(w) /\ GoesOn(T, w) = Twin(u)
  BY <1>1, AllGoOn
<1>3. w # Twin(u)
  BY <1>1, <1>2
<1>4. CASE ~Departing(w) /\ Twin(w) \in T
  BY <1>2, <1>4 DEF GoesOn, NodeFacts
<1>5. CASE ~Departing(w) /\ Twin(w) \notin T
  <2>1. type = "STATION" /\ IsConnecting(StationOfNode(w)) /\ SameStation(w, Twin(u))
    BY <1>2, <1>5, ElsewhereFacts, GoesOnFacts
  <2> QED
    BY <1>1, <2>1 DEF SameStation
<1> QED
  BY <1>2, <1>3, <1>4, <1>5 DEF GoesOn

LEMMA TurnIntoT ==
  ASSUME lines \in LineMaps, TwoStops, NodeFacts, type \in {"STATION", "SEGMENT"},
         NEW A, Complete(A), NEW T, Closed(A, T),
         NEW a \in A, IsTurn(a), a.to \in T
  PROVE  a.from \in T
<1>1. PICK l \in DOMAIN lines : \E i \in Stops(l) : a = TurnBack(l, i) \/ a = TurnAround(l, i)
  BY TurnOfStop
<1>2. PICK i \in Stops(l) : a = TurnBack(l, i) \/ a = TurnAround(l, i)
  BY <1>1
<1>3. LastStop(l) \in Nat /\ LastStop(l) > 1 /\ Stops(l) = 1..LastStop(l)
  BY LineFacts DEF TwoStops
<1>4. /\ TurnBack(l, i).from = Way(l, i) /\ TurnBack(l, i).to = Back(l, i)
      /\ TurnAround(l, i).from = Back(l, i) /\ TurnAround(l, i).to = Way(l, i)
      /\ Twin(Way(l, i)) = Back(l, i) /\ Twin(Back(l, i)) = Way(l, i)
      /\ Way(l, i) \in AllNodes /\ Back(l, i) \in AllNodes
  BY WayAndBack DEF TurnBack, TurnAround, Change, Twin, Way, Back
<1>5. RideFacts(A) /\ PairedTurns(A)
  BY DEF Complete
<1>6. CASE a = TurnBack(l, i)
  <2>1. CASE i = LastStop(l) /\ (type = "SEGMENT" \/ ~ConnectingStop(l, i))
    <3>1. /\ Arriving(Way(l, i)) /\ ~Departing(Way(l, i))
          /\ StationOfNode(Way(l, i)) = StationAt(l, i)
      BY <1>3, <2>1, TurnsOfStop
    <3> QED
      BY <1>4, <1>6, <2>1, <3>1, EndTurnIntoT DEF ConnectingStop
  <2>2. CASE \E q \in 1..i : TurnAround(l, q) \in A
    <3>1. PICK q \in 1..i : TurnAround(l, q) \in A
      BY <2>2
    <3>2. q \in Stops(l) /\ i \in q..LastStop(l)
      BY <1>3
    <3>3. Back(l, q) \in T
      BY <1>4, <1>5, <1>6, RideOn
    <3>4. Way(l, q) \in T
      BY <3>1, <3>3 DEF Closed, TurnAround, Change
    <3>5. Way(l, i) \in T
      BY <1>5, <3>2, <3>4, RideOn
    <3> QED
      BY <1>4, <1>6, <3>5
  <2> QED
    BY <1>5, <1>6, <2>1, <2>2 DEF PairedTurns
<1>7. CASE a = TurnAround(l, i)
  <2>1. CASE i = 1 /\ (type = "SEGMENT" \/ ~ConnectingStop(l, i))
    <3>1. /\ Arriving(Back(l, i)) /\ ~Departing(Back(l, i))
          /\ StationOfNode(Back(l, i)) = StationAt(l, i)
      BY <1>3, <2>1, TurnsOfStop
    <3> QED
      BY <1>4, <1>7, <2>1, <3>1, EndTurnIntoT DEF ConnectingStop
  <2>2. CASE \E q \in i..LastStop(l) : TurnBack(l, q) \in A
    <3>1. PICK q \in i..LastStop(l) : TurnBack(l, q) \in A
      BY <2>2
    <3>2. q \in Stops(l) /\ i \in 1..q
      BY <1>3
    <3>3. Way(l, q) \in T
      BY <1>4, <1>5, <1>7, RideOn
    <3>4. Back(l, q) \in T
      BY <3>1, <3>3 DEF Closed, TurnBack, Change
    <3>5. Back(l, i) \in T
      BY <1>5, <3>2, <3>4, RideOn
    <3> QED
      BY <1>4, <1>7, <3>5
  <2> QED
    BY <1>5, <1>7, <2>1, <2>2 DEF PairedTurns
<1> QED
  BY <1>2, <1>6, <1>7

(* A ride of another line arrives in T where the change arrives: it takes  *)
(* one on into every line that the change comes from.                      *)
LEMMA ChangeFromArrival ==
  ASSUME lines \in LineMaps, NodeFacts, type \in {"STATION", "SEGMENT"},
         NEW A, Complete(A), NEW T, Closed(A, T),
         NEW u \in AllNodes, Arriving(u),
         NEW x \in AllNodes, x \in T, Arriving(x), SameStation(u, x), x[1] # u[1],
         Departing(x) \/ Twin(x) \in T
  PROVE  u \in T
<1>1. \A w \in AllNodes : SameStation(x, w) /\ w[1] # x[1] /\ Departing(w) => w \in T
  BY DEF Complete, ChangeFacts, Closed, Change
<1>2. CASE Departing(u)
  BY <1>1, <1>2 DEF SameStation
<1>3. CASE ~Departing(u)
  <2>1. /\ Twin(u) \in AllNodes /\ Departing(Twin(u)) /\ ~Arriving(Twin(u))
        /\ SameStation(x, Twin(u)) /\ Twin(u)[1] = u[1]
    BY <1>3 DEF NodeFacts, SameStation
  <2>2. Twin(u) \in T
    BY <1>1, <2>1
  <2>3. PICK w \in AllNodes : w \in T /\ Arriving(w) /\ GoesOn(T, w) = Twin(u)
    BY <2>1, <2>2, AllGoOn
  <2>4. SameStation(w, x)
    BY <2>1, <2>3, GoesOnFacts DEF SameStation
  <2>5. ~(~Departing(w) /\ Twin(w) \notin T)
    <3>1. SUFFICES ASSUME ~Departing(w), Twin(w) \notin T PROVE FALSE
      OBVIOUS
    <3>2. x = w
      BY <2>3, <2>4, <3>1, OnlyArrival
    <3> QED
      BY <3>1, <3>2
  <2> QED
    BY <2>1, <2>3, <2>5 DEF GoesOn, NodeFacts
<1> QED
  BY <1>2, <1>3

LEMMA ChangeIntoT ==
  ASSUME lines \in LineMaps, NodeFacts, type \in {"STATION", "SEGMENT"},
         NEW A, Complete(A), NEW T, Closed(A, T),
         NEW a \in A, IsChange(a), a.to \in T
  PROVE  a.from \in T
<1> DEFINE u == a.from
           v == a.to
<1>1. /\ u \in AllNodes /\ v \in AllNodes /\ SameStation(u, v) /\ u[1] # v[1]
      /\ Arriving(u) /\ Departing(v)
  BY DEF IsChange
<1>2. PICK x \in AllNodes : x \in T /\ Arriving(x) /\ GoesOn(T, x) = v
  BY <1>1, AllGoOn
<1>3. SameStation(x, v) /\ SameStation(u, x)
  BY <1>1, <1>2, GoesOnFacts DEF SameStation
<1> HIDE DEF u, v
<1>4. CASE Departing(x) \/ Twin(x) \in T
  <2>1. x[1] = v[1]
    BY <1>2, <1>4 DEF GoesOn, NodeFacts
  <2> QED
    BY <1>1, <1>2, <1>3, <1>4, <2>1, ChangeFromArrival DEF u
<1>5. CASE ~Departing(x) /\ Twin(x) \notin T
  <2> SUFFICES ASSUME u \notin T PROVE FALSE
    BY DEF u
  <2>1. u # x /\ u # Twin(x)
    BY <1>1, <1>2, <1>5 DEF NodeFacts
  <2>2. u[1] # x[1]
    BY <1>1, <1>3, <2>1 DEF NodeFacts, SameStation
  <2>3. \A w \in AllNodes : SameStation(x, w) /\ w[1] # x[1] /\ Departing(w) => w \in T
    BY <1>2 DEF Complete, ChangeFacts, Closed, Change
  <2>4. /\ Twin(u) \in AllNodes /\ Twin(u)[1] = u[1] /\ SameStation(x, Twin(u))
        /\ SameStation(x, u) /\ Departing(Twin(u)) /\ Arriving(Twin(u)) = Departing(u)
    BY <1>1, <1>3 DEF NodeFacts, SameStation
  <2>5. ~Departing(u) /\ Twin(u) \in T
    BY <1>1, <2>2, <2>3, <2>4
  <2>6. PICK y \in AllNodes : y \in T /\ Arriving(y) /\ GoesOn(T, y) = Twin(u)
    BY <2>4, <2>5, AllGoOn
  <2>7. SameStation(x, y)
    <3>1. SameStation(y, Twin(u))
      BY <2>6, GoesOnFacts
    <3> QED
      BY <2>4, <3>1 DEF SameStation
  <2>8. y = x
    BY <1>2, <1>5, <2>6, <2>7, OnlyArrival
  <2> QED
    BY <1>1, <1>2, <2>4, <2>6, <2>8
<1> QED
  BY <1>4, <1>5

(* Whatever no arc leads out of, none leads into either. *)
Returning(A) == \A T : Closed(A, T) => \A a \in A : a.to \in T => a.from \in T

LEMMA CompleteReturns ==
  ASSUME lines \in LineMaps, TwoStops, type \in {"STATION", "SEGMENT"}, NEW A, Complete(A)
  PROVE  Returning(A)
<1> SUFFICES ASSUME NEW T, Closed(A, T), NEW a \in A, a.to \in T PROVE a.from \in T
  BY DEF Returning
<1>1. NodeFacts
  BY NodesAreTwins
<1>2. CASE ~a.connection
  <2>1. a.from \in AllNodes /\ a.to \in AllNodes /\ Arriving(a.to) /\ a.to = NextStop(a.from)
    BY <1>2 DEF Complete, RideFacts
  <2>2. PICK v \in AllNodes : v \in T /\ NextStop(v) = a.to
    BY <1>1, <2>1, AllGoOn
  <2> QED
    BY <2>1, <2>2, NextIsInjective
<1>3. CASE IsTurn(a)
  BY <1>1, <1>3, TurnIntoT
<1>4. CASE IsChange(a)
  BY <1>1, <1>4, ChangeIntoT
<1> QED
  BY <1>2, <1>3, <1>4 DEF Complete

-----------------------------------------------------------------------------
(* A chain lies in one direction of a line, between its first arc and its  *)
(* last one.                                                               *)

SameCourse(n, m) == n[1] = m[1] /\ n[2] = m[2]

LEMMA PlaceInjective ==
  ASSUME lines \in LineMaps, NEW n \in AllNodes, NEW m \in AllNodes,
         SameCourse(n, m), Place(n) = Place(m)
  PROVE  n = m
<1>1. /\ n[1] \in DOMAIN lines /\ n[3] \in Stops(n[1])
      /\ (n = Way(n[1], n[3]) /\ n[2] = "way") \/ (n = Back(n[1], n[3]) /\ n[2] = "back")
  BY NodeParts
<1>2. /\ m[3] \in Stops(m[1])
      /\ (m = Way(m[1], m[3]) /\ m[2] = "way") \/ (m = Back(m[1], m[3]) /\ m[2] = "back")
  BY NodeParts
<1>3. LastStop(n[1]) \in Nat /\ n[3] \in Int /\ m[3] \in Int /\ n[1] = m[1] /\ n[2] = m[2]
  BY <1>1, <1>2, LineFacts DEF SameCourse
<1>4. n[3] = m[3]
  BY <1>3 DEF Place
<1> QED
  BY <1>1, <1>2, <1>3, <1>4

LEMMA HopCourse ==
  ASSUME lines \in LineMaps, NEW a, IsHop(a)
  PROVE  SameCourse(a.from, a.to)
<1>1. a.from \in AllNodes /\ a.to = NextStop(a.from)
  BY DEF IsHop
<1>2. a.from[2] \in {"way", "back"}
  BY <1>1, NodeParts
<1> QED
  BY <1>1, <1>2 DEF SameCourse, NextStop, Way, Back

(* At a node of a chain there is one arc in and one arc out. *)
LEMMA OneArcEach ==
  ASSUME NEW n, OneInOneOut(n), IsFiniteSet(arcs)
  PROVE  /\ \A a, b \in arcs : a.to = n /\ b.to = n => a = b
         /\ \A a, b \in arcs : a.from = n /\ b.from = n => a = b
         /\ (\E a \in arcs : a.to = n) /\ (\E a \in arcs : a.from = n)
<1>1. InEdges(n) \subseteq arcs /\ OutEdges(n) \subseteq arcs
  BY DEF InEdges, OutEdges
<1>2. IsFiniteSet(InEdges(n)) /\ IsFiniteSet(OutEdges(n))
  BY <1>1, FS_Subset
<1>3. PICK x : InEdges(n) = {x}
  BY <1>2, FS_Singleton DEF OneInOneOut
<1>4. PICK y : OutEdges(n) = {y}
  BY <1>2, FS_Singleton DEF OneInOneOut
<1> QED
  BY <1>3, <1>4 DEF InEdges, OutEdges

LEMMA ChainCourse ==
  ASSUME lines \in LineMaps, nodes \subseteq AllNodes, IsFiniteSet(arcs),
         NEW Cs, GoodChains(Cs), NEW C \in Cs
  PROVE  /\ \A n, m \in C : SameCourse(n, m)
         /\ \A a \in ArcsOf(C) : a.to \notin C => \A n \in C : Place(n) <= Place(a.from)
         /\ \A a \in ArcsOf(C) : a.from \notin C => \A n \in C : Place(a.to) <= Place(n)
<1>1. /\ C \subseteq AllNodes /\ (\A n \in C : OneInOneOut(n)) /\ Linked(C)
      /\ \A a \in ArcsOf(C) : IsHop(a)
      /\ \A n, m \in C : n[1] = m[1]
  BY DEF GoodChains
<1>2. ASSUME NEW a \in arcs, a.from \in C, a.to \in C
      PROVE  /\ SameCourse(a.from, a.to) /\ Place(a.to) = Place(a.from) + 1
             /\ Place(a.from) \in Nat
  <2>1. IsHop(a)
    BY <1>1, <1>2 DEF ArcsOf
  <2> QED
    BY <1>1, <1>2, <2>1, HopCourse, PlaceFacts
<1>3. ASSUME NEW m \in C PROVE \A n \in C : SameCourse(n, m)
  <2> DEFINE S == {n \in C : SameCourse(n, m)}
  <2>1. m \in S
    BY DEF SameCourse
  <2>2. \A a \in arcs : a.from \in C /\ a.to \in C => (a.from \in S <=> a.to \in S)
    BY <1>2 DEF SameCourse
  <2>3. S = C
    <3> HIDE DEF S
    <3>1. S \in SUBSET C
      BY DEF S
    <3> QED
      BY <1>1, <2>1, <2>2, <3>1 DEF Linked
  <2> QED
    BY <2>3
<1>4. \A n \in C : Place(n) \in Nat
  BY <1>1, PlaceFacts
<1>5. ASSUME NEW b \in ArcsOf(C), b.to \notin C PROVE \A n \in C : Place(n) <= Place(b.from)
  <2> DEFINE x == b.from
             S == {n \in C : Place(n) <= Place(x)}
  <2>1. x \in C /\ b \in arcs
    BY <1>5 DEF ArcsOf
  <2>2. ASSUME NEW a \in arcs, a.from \in C, a.to \in C PROVE a.from \in S <=> a.to \in S
    <3>1. Place(a.to) = Place(a.from) + 1 /\ Place(a.from) \in Nat /\ Place(x) \in Nat
      BY <1>2, <1>4, <2>1, <2>2
    <3>2. Place(a.from) # Place(x)
      <4>1. SUFFICES ASSUME Place(a.from) = Place(x) PROVE FALSE
        OBVIOUS
      <4>2. SameCourse(a.from, x) /\ a.from \in AllNodes /\ x \in AllNodes
        BY <1>1, <1>3, <2>1, <2>2
      <4> HIDE DEF x
      <4>3. a.from = x
        BY <4>1, <4>2, PlaceInjective
      <4>4. a = b
        BY <1>1, <2>1, <2>2, <4>3, OneArcEach DEF x
      <4> QED
        BY <1>5, <2>2, <4>4
    <3> QED
      BY <2>2, <3>1, <3>2
  <2>3. x \in S
    BY <1>4, <2>1
  <2>4. S = C
    <3> HIDE DEF S
    <3>1. S \in SUBSET C
      BY DEF S
    <3> QED
      BY <1>1, <2>2, <2>3, <3>1 DEF Linked
  <2> QED
    BY <2>4
<1>6. ASSUME NEW b \in ArcsOf(C), b.from \notin C PROVE \A n \in C : Place(b.to) <= Place(n)
  <2> DEFINE x == b.to
             S == {n \in C : Place(x) <= Place(n)}
  <2>1. x \in C /\ b \in arcs
    BY <1>6 DEF ArcsOf
  <2>2. ASSUME NEW a \in arcs, a.from \in C, a.to \in C PROVE a.from \in S <=> a.to \in S
    <3>1. Place(a.to) = Place(a.from) + 1 /\ Place(a.from) \in Nat /\ Place(x) \in Nat
      BY <1>2, <1>4, <2>1, <2>2
    <3>2. Place(a.to) # Place(x)
      <4>1. SUFFICES ASSUME Place(a.to) = Place(x) PROVE FALSE
        OBVIOUS
      <4>2. SameCourse(a.to, x) /\ a.to \in AllNodes /\ x \in AllNodes
        BY <1>1, <1>3, <2>1, <2>2
      <4> HIDE DEF x
      <4>3. a.to = x
        BY <4>1, <4>2, PlaceInjective
      <4>4. a = b
        BY <1>1, <2>1, <2>2, <4>3, OneArcEach DEF x
      <4> QED
        BY <1>6, <2>2, <4>4
    <3> QED
      BY <2>2, <3>1, <3>2
  <2>3. x \in S
    BY <1>4, <2>1
  <2>4. S = C
    <3> HIDE DEF S
    <3>1. S \in SUBSET C
      BY DEF S
    <3> QED
      BY <1>1, <2>2, <2>3, <3>1 DEF Linked
  <2> QED
    BY <2>4
<1> QED
  BY <1>3, <1>5, <1>6

(* So one arc leads into a chain, and one leads out of it. *)
LEMMA OneWayThrough ==
  ASSUME lines \in LineMaps, nodes \subseteq AllNodes, IsFiniteSet(arcs),
         NEW Cs, GoodChains(Cs), NEW C \in Cs
  PROVE  /\ \A a \in ArcsOf(C) : a.from \notin C => a = FirstArc(C)
         /\ \A a \in ArcsOf(C) : a.to \notin C => a = LastArc(C)
<1>1. /\ FirstArc(C) \in ArcsOf(C) /\ FirstArc(C).from \notin C /\ FirstArc(C).to \in C
      /\ LastArc(C) \in ArcsOf(C) /\ LastArc(C).to \notin C /\ LastArc(C).from \in C
  BY ChainEnds
<1>2. C \subseteq AllNodes /\ (\A n \in C : OneInOneOut(n))
  BY DEF GoodChains
<1>3. \A n \in C : Place(n) \in Nat
  BY <1>2, PlaceFacts
<1>4. \A a, b \in ArcsOf(C) : a.from \notin C /\ b.from \notin C => a = b
  <2> SUFFICES ASSUME NEW a \in ArcsOf(C), NEW b \in ArcsOf(C), a.from \notin C, b.from \notin C
               PROVE  a = b
    OBVIOUS
  <2>1. a \in arcs /\ b \in arcs /\ a.to \in C /\ b.to \in C
    BY DEF ArcsOf
  <2>2. Place(a.to) <= Place(b.to) /\ Place(b.to) <= Place(a.to) /\ SameCourse(a.to, b.to)
    BY <2>1, ChainCourse
  <2>3. Place(a.to) = Place(b.to)
    BY <1>3, <2>1, <2>2
  <2>4. a.to = b.to
    BY <1>2, <2>1, <2>2, <2>3, PlaceInjective
  <2> QED
    BY <1>2, <2>1, <2>4, OneArcEach
<1>5. \A a, b \in ArcsOf(C) : a.to \notin C /\ b.to \notin C => a = b
  <2> SUFFICES ASSUME NEW a \in ArcsOf(C), NEW b \in ArcsOf(C), a.to \notin C, b.to \notin C
               PROVE  a = b
    OBVIOUS
  <2>1. a \in arcs /\ b \in arcs /\ a.from \in C /\ b.from \in C
    BY DEF ArcsOf
  <2>2. Place(a.from) <= Place(b.from) /\ Place(b.from) <= Place(a.from) /\ SameCourse(a.from, b.from)
    BY <2>1, ChainCourse
  <2>3. Place(a.from) = Place(b.from)
    BY <1>3, <2>1, <2>2
  <2>4. a.from = b.from
    BY <1>2, <2>1, <2>2, <2>3, PlaceInjective
  <2> QED
    BY <1>2, <2>1, <2>4, OneArcEach
<1> QED
  BY <1>1, <1>4, <1>5

(* The arc that replaces a chain leads where the chain led. *)
LEMMA RemovalReturns ==
  ASSUME lines \in LineMaps, nodes \subseteq AllNodes, IsFiniteSet(arcs),
         GoodChains(chains), NEW C \in chains, Returning(arcs)
  PROVE  Returning((arcs \ ArcsOf(C)) \cup {NewArc(C)})
<1> DEFINE u == FirstArc(C).from
           w == LastArc(C).to
           new == NewArc(C)
           kept == arcs \ ArcsOf(C)
<1>1. new.from = u /\ new.to = w
  BY DEF NewArc, Travel
<1>2. /\ u \notin C /\ w \notin C /\ FirstArc(C) \in arcs /\ LastArc(C) \in arcs
      /\ FirstArc(C).to \in C /\ LastArc(C).from \in C
  BY ChainEnds DEF ArcsOf
<1>3. /\ \A a \in arcs : a.from \in C /\ a.to \notin C => a.to = w
      /\ \A a \in arcs : a.from \notin C /\ a.to \in C => a.from = u
  BY OneWayThrough DEF ArcsOf
<1>4. \A a \in arcs : a \in kept <=> a.from \notin C /\ a.to \notin C
  BY DEF ArcsOf
<1>5. LastArc(C).to = w /\ kept \subseteq arcs
  OBVIOUS
<1> HIDE DEF u, w, new, kept
<1> SUFFICES ASSUME NEW T, Closed(kept \cup {new}, T),
                    NEW a \in kept \cup {new}, a.to \in T
             PROVE  a.from \in T
  BY DEF Returning, new, kept
<1>6. CASE u \in T
  <2>1. w \in T
    BY <1>1, <1>6 DEF Closed
  <2>2. Closed(arcs, T \cup C)
    BY <1>3, <1>4, <2>1 DEF Closed
  <2>3. \A b \in arcs : b.to \in T \cup C => b.from \in T \cup C
    BY <2>2 DEF Returning
  <2> QED
    BY <1>1, <1>4, <1>5, <1>6, <2>3
<1>7. CASE u \notin T
  <2>1. Closed(arcs, T \ C)
    BY <1>3, <1>4, <1>7 DEF Closed
  <2>2. \A b \in arcs : b.to \in T \ C => b.from \in T \ C
    BY <2>1 DEF Returning
  <2>3. w \notin T
    BY <1>2, <1>5, <2>2
  <2> QED
    BY <1>1, <1>4, <1>5, <2>2, <2>3
<1> QED
  BY <1>6, <1>7

-----------------------------------------------------------------------------
(* The turns that each way to add switching arcs adds come in pairs.       *)

LEMMA AllTurnsArePaired ==
  ASSUME lines \in LineMaps, NEW B, B = UNION {AllTurns(l) : l \in DOMAIN lines}
  PROVE  TurnFacts(B) /\ PairedTurns(B)
<1>1. \A l \in DOMAIN lines : \A i \in Stops(l) : TurnBack(l, i) \in B /\ TurnAround(l, i) \in B
  BY DEF AllTurns
<1>2. ASSUME NEW n \in AllNodes PROVE Change(n, Twin(n), switch_cost) \in B
  <2> DEFINE l == n[1]
             i == n[3]
  <2>1. /\ l \in DOMAIN lines /\ i \in Stops(l)
        /\ (n = Way(l, i) /\ n[2] = "way") \/ (n = Back(l, i) /\ n[2] = "back")
    BY NodeParts
  <2> HIDE DEF l, i
  <2>2. Twin(Way(l, i)) = Back(l, i) /\ Twin(Back(l, i)) = Way(l, i)
    BY DEF Twin, Way, Back
  <2> QED
    BY <1>1, <2>1, <2>2 DEF TurnBack, TurnAround
<1>3. \A l \in DOMAIN lines : \A i \in Stops(l) : i \in 1..i /\ i \in i..LastStop(l)
  BY LineFacts
<1> HIDE DEF TurnFacts
<1>4. PairedTurns(B)
  BY <1>1, <1>3 DEF PairedTurns
<1> QED
  BY <1>2, <1>4 DEF TurnFacts

(* A tag tells a turn from the other one, and from those of other stops. *)
LEMMA TurnsDiffer ==
  ASSUME NEW l, NEW i, NEW m, NEW j
  PROVE  /\ TurnBack(l, i) # TurnAround(m, j)
         /\ TurnBack(l, i) = TurnBack(m, j) => l = m /\ i = j
         /\ TurnAround(l, i) = TurnAround(m, j) => l = m /\ i = j
<1>1. /\ TurnBack(l, i).from = <<l, "way", i>> /\ TurnAround(m, j).from = <<m, "back", j>>
      /\ TurnBack(m, j).from = <<m, "way", j>> /\ TurnAround(l, i).from = <<l, "back", i>>
  BY DEF TurnBack, TurnAround, Change, Way, Back
<1> QED
  BY <1>1

LEMMA EndTurnsArePaired ==
  ASSUME lines \in LineMaps, TwoStops, type = "SEGMENT",
         NEW B, B = UNION {TerminalTurns(l) : l \in DOMAIN lines}
  PROVE  PairedTurns(B)
<1>1. ASSUME NEW l \in DOMAIN lines, NEW i \in Stops(l)
      PROVE  /\ TurnBack(l, i) \in B => i = LastStop(l)
             /\ TurnAround(l, i) \in B => i = 1
  <2>1. ASSUME NEW a \in B, a = TurnBack(l, i) \/ a = TurnAround(l, i)
        PROVE  IsTerminal(l, i) /\ a = TurnAtTerminal(l, i)
    <3>1. PICK m \in DOMAIN lines : a \in TerminalTurns(m)
      OBVIOUS
    <3>2. PICK j \in Stops(m) : IsTerminal(m, j) /\ a = TurnAtTerminal(m, j)
      BY <3>1 DEF TerminalTurns
    <3>3. l = m /\ i = j
      BY <2>1, <3>2, TurnsDiffer DEF TurnAtTerminal
    <3> QED
      BY <3>2, <3>3
  <2>2. TurnBack(l, i) # TurnAround(l, i)
    BY TurnsDiffer
  <2> QED
    BY <2>1, <2>2 DEF TurnAtTerminal, IsTerminal
<1> QED
  BY <1>1 DEF PairedTurns

(* Between two stations with changes, one turns at both ends. *)
LEMMA InnerTurnsArePaired ==
  ASSUME lines \in LineMaps, NEW l \in DOMAIN lines, NEW i \in InnerStops(l)
  PROVE  /\ \E q \in 1..i : TurnAround(l, q) \in InnerTurns(l)
         /\ \E q \in i..LastStop(l) : TurnBack(l, q) \in InnerTurns(l)
<1> DEFINE n == LastStop(l)
           conn(j) == ConnectingStop(l, j)
<1>1. n \in Nat /\ Stops(l) = 1..n
  BY LineFacts
<1>2. i \in 1..n /\ ~conn(i) /\ (\E j \in 1..(i - 1) : conn(j)) /\ (\E j \in (i + 1)..n : conn(j))
  BY <1>1 DEF InnerStops, HasPrecedingConnecting, HasFollowingConnecting
<1>3. \A q \in 1..n :
        q \in InnerStops(l) <=> /\ ~conn(q) /\ q # 1 /\ q # n
                               /\ (\E j \in 1..(q - 1) : conn(j)) /\ (\E j \in (q + 1)..n : conn(j))
  BY <1>1 DEF InnerStops, HasPrecedingConnecting, HasFollowingConnecting, IsTerminal
<1> HIDE DEF n, conn
<1>4. \E q \in 1..i : q \in InnerStops(l) /\ conn(q - 1)
  <2> DEFINE D == {d \in Nat : d \in 1..(i - 1) /\ conn(i - d)}
  <2>1. D # {}
    <3>1. PICK j \in 1..(i - 1) : conn(j)
      BY <1>2
    <3>2. i - j \in 1..(i - 1) /\ i - j \in Nat /\ i - (i - j) = j
      BY <1>1, <1>2
    <3> QED
      BY <3>1, <3>2
  <2>2. D \in SUBSET Nat
    OBVIOUS
  <2>3. PICK d \in D : \A e \in D : d <= e
    <3> HIDE DEF D
    <3> QED
      BY <2>1, <2>2, LeastNumber
  <2>4. d \in Nat /\ d \in 1..(i - 1) /\ conn(i - d)
    OBVIOUS
  <2> DEFINE q == (i - d) + 1
  <2>5. q \in 1..i /\ q \in 1..n /\ q - 1 = i - d /\ q # 1 /\ i - d \in 1..(q - 1)
    BY <1>1, <1>2, <2>4
  <2>6. ~conn(q)
    <3>1. CASE d = 1
      BY <1>2, <3>1
    <3>2. CASE d # 1
      <4>1. d - 1 \in 1..(i - 1) /\ d - 1 \in Nat /\ i - (d - 1) = q /\ ~(d <= d - 1)
        BY <1>1, <1>2, <2>4, <3>2
      <4>2. d - 1 \notin D
        <5> HIDE DEF D
        <5> QED
          BY <2>3, <4>1
      <4> QED
        BY <4>1, <4>2
    <3> QED
      BY <3>1, <3>2
  <2>7. \E j \in (q + 1)..n : conn(j)
    <3>1. PICK j \in (i + 1)..n : conn(j)
      BY <1>2
    <3>2. j \in (q + 1)..n
      BY <1>1, <1>2, <2>5, <3>1
    <3> QED
      BY <3>1, <3>2
  <2>8. q # n
    BY <1>1, <2>5, <2>7
  <2> QED
    BY <1>3, <2>4, <2>5, <2>6, <2>7, <2>8
<1>5. \E q \in i..n : q \in InnerStops(l) /\ conn(q + 1)
  <2> DEFINE D == {d \in Nat : d \in 1..(n - i) /\ conn(i + d)}
  <2>1. D # {}
    <3>1. PICK j \in (i + 1)..n : conn(j)
      BY <1>2
    <3>2. j - i \in 1..(n - i) /\ j - i \in Nat /\ i + (j - i) = j
      BY <1>1, <1>2
    <3> QED
      BY <3>1, <3>2
  <2>2. D \in SUBSET Nat
    OBVIOUS
  <2>3. PICK d \in D : \A e \in D : d <= e
    <3> HIDE DEF D
    <3> QED
      BY <2>1, <2>2, LeastNumber
  <2>4. d \in Nat /\ d \in 1..(n - i) /\ conn(i + d)
    OBVIOUS
  <2> DEFINE q == (i + d) - 1
  <2>5. q \in i..n /\ q \in 1..n /\ q + 1 = i + d /\ q # n /\ i + d \in (q + 1)..n
    BY <1>1, <1>2, <2>4
  <2>6. ~conn(q)
    <3>1. CASE d = 1
      BY <1>2, <3>1
    <3>2. CASE d # 1
      <4>1. d - 1 \in 1..(n - i) /\ d - 1 \in Nat /\ i + (d - 1) = q /\ ~(d <= d - 1)
        BY <1>1, <1>2, <2>4, <3>2
      <4>2. d - 1 \notin D
        <5> HIDE DEF D
        <5> QED
          BY <2>3, <4>1
      <4> QED
        BY <4>1, <4>2
    <3> QED
      BY <3>1, <3>2
  <2>7. \E j \in 1..(q - 1) : conn(j)
    <3>1. PICK j \in 1..(i - 1) : conn(j)
      BY <1>2
    <3>2. j \in 1..(q - 1)
      BY <1>1, <1>2, <2>5, <3>1
    <3> QED
      BY <3>1, <3>2
  <2>8. q # 1
    BY <1>1, <2>5, <2>7
  <2> QED
    BY <1>3, <2>4, <2>5, <2>6, <2>7, <2>8
<1>6. \A q \in 1..n :
        /\ q \in InnerStops(l) /\ conn(q - 1) => TurnAround(l, q) \in InnerTurns(l)
        /\ q \in InnerStops(l) /\ conn(q + 1) => TurnBack(l, q) \in InnerTurns(l)
  BY DEF InnerTurns, conn
<1>7. \A q \in 1..i : q \in 1..n
  BY <1>1, <1>2
<1>8. \A q \in i..n : q \in 1..n
  BY <1>1, <1>2
<1> QED
  BY <1>4, <1>5, <1>6, <1>7, <1>8 DEF n

LEMMA StationTurnsArePaired ==
  ASSUME lines \in LineMaps, TwoStops,
         NEW B, B = UNION {StationProblemTurns(l) : l \in DOMAIN lines}
  PROVE  PairedTurns(B)
<1>1. ASSUME NEW l \in DOMAIN lines, NEW i \in Stops(l), NEW a \in B,
             a = TurnBack(l, i) \/ a = TurnAround(l, i)
      PROVE  \/ i \in InnerStops(l)
             \/ IsTerminal(l, i) /\ ~ConnectingStop(l, i) /\ a = TurnAtTerminal(l, i)
  <2>1. PICK m \in DOMAIN lines : a \in StationProblemTurns(m)
    OBVIOUS
  <2>2. CASE a \in InnerTurns(m)
    <3>1. PICK j \in InnerStops(m) : a = TurnBack(m, j) \/ a = TurnAround(m, j)
      BY <2>2 DEF InnerTurns
    <3> QED
      BY <1>1, <3>1, TurnsDiffer
  <2>3. CASE a \notin InnerTurns(m)
    <3>1. PICK j \in Stops(m) : IsTerminal(m, j) /\ ~ConnectingStop(m, j) /\ a = TurnAtTerminal(m, j)
      BY <2>1, <2>3 DEF StationProblemTurns
    <3>2. l = m /\ i = j
      BY <1>1, <3>1, TurnsDiffer DEF TurnAtTerminal
    <3> QED
      BY <3>1, <3>2
  <2> QED
    BY <2>2, <2>3
<1>2. \A l \in DOMAIN lines : InnerTurns(l) \subseteq B
  BY DEF StationProblemTurns
<1>3. \A l, i : TurnBack(l, i) # TurnAround(l, i)
  BY TurnsDiffer
<1>4. ASSUME NEW l \in DOMAIN lines, NEW i \in Stops(l), TurnBack(l, i) \in B
      PROVE  \/ i = LastStop(l) /\ ~ConnectingStop(l, i)
             \/ \E q \in 1..i : TurnAround(l, q) \in B
  BY <1>1, <1>2, <1>3, <1>4, InnerTurnsArePaired DEF TurnAtTerminal, IsTerminal
<1>5. ASSUME NEW l \in DOMAIN lines, NEW i \in Stops(l), TurnAround(l, i) \in B
      PROVE  \/ i = 1 /\ ~ConnectingStop(l, i)
             \/ \E q \in i..LastStop(l) : TurnBack(l, q) \in B
  BY <1>1, <1>2, <1>3, <1>5, InnerTurnsArePaired DEF TurnAtTerminal, IsTerminal
<1> QED
  BY <1>4, <1>5 DEF PairedTurns

LEMMA AddedTurnsArePaired ==
  ASSUME lines \in LineMaps, TwoStops, NEW B,
         \/ B = UNION {AllTurns(l) : l \in DOMAIN lines} /\ ~preprocess
         \/ B = UNION {TerminalTurns(l) : l \in DOMAIN lines} /\ type = "SEGMENT" /\ preprocess
         \/ B = UNION {StationProblemTurns(l) : l \in DOMAIN lines} /\ type = "STATION" /\ preprocess
  PROVE  (\A a \in B : IsTurn(a)) /\ TurnFacts(B) /\ PairedTurns(B)
BY AddedTurns, AllTurnsArePaired, EndTurnsArePaired, StationTurnsArePaired

-----------------------------------------------------------------------------
(* Returns is kept by every step. *)

Returns ==
  /\ phase = "connections" => TurnFacts(arcs) /\ PairedTurns(arcs)
  /\ phase \notin {"nodes", "switching", "connections"} => Returning(arcs)
  /\ phase = "built" => IsConnected

LEMMA SamePairs ==
  ASSUME UNCHANGED <<lines, type>>
  PROVE  PairedTurns(arcs)' <=> PairedTurns(arcs')
<1>1. \A l, i : ConnectingStop(l, i)' = ConnectingStop(l, i)
  BY DEF ConnectingStop, IsConnecting, LinesAt, StationAt
<1> QED
  BY <1>1 DEF PairedTurns, Stops, LastStop, TurnBack, TurnAround, Change, Way, Back

LEMMA SameConnection ==
  ASSUME UNCHANGED <<nodes, arcs>>
  PROVE  IsConnected' <=> IsConnected
<1>1. \A n : Reach(Undirected(arcs), {n})' = Reach(Undirected(arcs), {n})
  BY DEF Reach, Grown, Undirected, Reversed
<1> QED
  BY <1>1 DEF IsConnected

LEMMA NextReturns ==
  ASSUME GInv, Returns, [Next]_vars
  PROVE  Returns'
<1>1. /\ lines \in LineMaps /\ TwoStops /\ type \in {"STATION", "SEGMENT"}
      /\ nodes \subseteq AllNodes /\ IsFiniteSet(arcs) /\ GoodChains(chains)
  BY DEF GInv, TypeOK
<1>2. CASE AddAllSwitchingArcs \/ AddSwitchingArcsAtTerminals \/ AddStationProblemSwitchingArcs
  <2>1. PICK B :
          /\ \/ B = UNION {AllTurns(l) : l \in DOMAIN lines} /\ ~preprocess
             \/ B = UNION {TerminalTurns(l) : l \in DOMAIN lines} /\ type = "SEGMENT" /\ preprocess
             \/ B = UNION {StationProblemTurns(l) : l \in DOMAIN lines} /\ type = "STATION" /\ preprocess
          /\ arcs' = arcs \cup B
          /\ phase = "switching" /\ phase' = "connections"
          /\ UNCHANGED <<lines, type>>
    BY <1>2 DEF AddAllSwitchingArcs, AddSwitchingArcsAtTerminals, AddStationProblemSwitchingArcs,
                AddSwitchingArcs, input
  <2>2. TurnFacts(B) /\ PairedTurns(B)
    BY <1>1, <2>1, AddedTurnsArePaired
  <2>3. \A a \in arcs : ~a.connection
    BY <2>1 DEF GInv, Stage
  <2>4. TurnFacts(arcs')
    BY <2>1, <2>2 DEF TurnFacts
  <2>5. PairedTurns(arcs')
    <3>1. \A l, i : TurnBack(l, i).connection /\ TurnAround(l, i).connection
      BY DEF TurnBack, TurnAround, Change
    <3>2. \A l, i : /\ TurnBack(l, i) \in arcs' <=> TurnBack(l, i) \in B
                    /\ TurnAround(l, i) \in arcs' <=> TurnAround(l, i) \in B
      BY <2>1, <2>3, <3>1
    <3> QED
      BY <2>2, <3>2 DEF PairedTurns
  <2>6. TurnFacts(arcs)' /\ PairedTurns(arcs)'
    BY <2>1, <2>4, <2>5, SameFacts, SamePairs
  <2> QED
    BY <2>1, <2>6 DEF Returns
<1>3. CASE AddAllConnectionArcs
  <2>1. PICK B :
          /\ B = UNION {ConnectionArcs(s) : s \in StationNames}
          /\ arcs' = arcs \cup B
          /\ phase = "connections" /\ phase' \in {"chains", "check"}
          /\ UNCHANGED <<lines, type>>
    BY <1>3 DEF AddAllConnectionArcs, input
  <2>2. /\ RideFacts(arcs) /\ TurnFacts(arcs) /\ PairedTurns(arcs)
        /\ \A a \in arcs : a.connection => IsTurn(a)
    BY <2>1 DEF GInv, Stage, Returns
  <2>3. (\A a \in B : IsChange(a)) /\ ChangeFacts(B)
    BY <1>1, <2>1, <2>2, AddedChanges
  <2>4. \A a \in B : a.connection
    BY <1>1, <2>3, AddedArcsFit
  <2>5. RideFacts(arcs') /\ TurnFacts(arcs') /\ ChangeFacts(arcs')
    BY <2>1, <2>2, <2>3, <2>4, MoreConnections DEF TurnFacts, ChangeFacts
  <2>6. PairedTurns(arcs')
    <3>1. \A l, i : /\ TurnBack(l, i).from[1] = TurnBack(l, i).to[1]
                    /\ TurnAround(l, i).from[1] = TurnAround(l, i).to[1]
      BY DEF TurnBack, TurnAround, Change, Way, Back
    <3>2. \A l, i : /\ TurnBack(l, i) \in arcs' <=> TurnBack(l, i) \in arcs
                    /\ TurnAround(l, i) \in arcs' <=> TurnAround(l, i) \in arcs
      BY <2>1, <2>3, <3>1 DEF IsChange
    <3> QED
      BY <2>2, <3>2 DEF PairedTurns
  <2>7. Complete(arcs')
    BY <2>1, <2>2, <2>3, <2>5, <2>6 DEF Complete
  <2>8. Returning(arcs')
    <3> PICK A : A = arcs'
      OBVIOUS
    <3>1. Returning(A)
      BY <1>1, <2>7, CompleteReturns
    <3> QED
      BY <3>1
  <2> QED
    BY <2>1, <2>8 DEF Returns, Returning, Closed
<1>4. CASE RemoveChain
  <2>1. PICK C \in chains :
          /\ phase = "removing" /\ phase' = "removing"
          /\ arcs' = (arcs \ ArcsOf(C)) \cup {NewArc(C)} \/ arcs' = arcs
    BY <1>4 DEF RemoveChain
  <2>2. Returning(arcs)
    BY <2>1 DEF Returns
  <2>3. Returning(arcs')
    BY <1>1, <2>1, <2>2, RemovalReturns
  <2> QED
    BY <2>1, <2>3 DEF Returns, Returning, Closed
<1>5. CASE CreateNodesAndTravelArcs
  BY <1>5 DEF CreateNodesAndTravelArcs, Returns
<1>6. CASE ComputeDegree2Chains
  BY <1>6 DEF ComputeDegree2Chains, Returns, Returning, Closed
<1>7. CASE RemoveFromStations
  BY <1>7 DEF RemoveFromStations, Returns, Returning, Closed
<1>8. CASE CheckConnectivity
  <2>1. /\ phase = "check"
        /\ (phase' = "built" /\ IsConnected) \/ phase' = "thrown"
        /\ UNCHANGED <<nodes, arcs>>
    BY <1>8 DEF CheckConnectivity
  <2>2. Returning(arcs)'
    BY <2>1 DEF Returns, Returning, Closed
  <2>3. IsConnected' <=> IsConnected
    BY <2>1, SameConnection
  <2> QED
    BY <2>1, <2>2, <2>3 DEF Returns
<1>9. CASE UNCHANGED vars
  <2>1. UNCHANGED <<lines, type, phase, nodes, arcs>>
    BY <1>9 DEF vars, input
  <2>2. /\ TurnFacts(arcs)' <=> TurnFacts(arcs)
        /\ PairedTurns(arcs)' <=> PairedTurns(arcs)
        /\ Returning(arcs)' <=> Returning(arcs)
        /\ IsConnected' <=> IsConnected
    <3>1. /\ TurnFacts(arcs)' <=> TurnFacts(arcs')
          /\ PairedTurns(arcs)' <=> PairedTurns(arcs')
      BY <2>1, SameFacts, SamePairs
    <3>2. IsConnected' <=> IsConnected
      BY <2>1, SameConnection
    <3> QED
      BY <2>1, <3>1, <3>2 DEF Returning, Closed
  <2> QED
    BY <2>1, <2>2 DEF Returns
<1> QED
  BY <1>2, <1>3, <1>4, <1>5, <1>6, <1>7, <1>8, <1>9 DEF Next

-----------------------------------------------------------------------------
(* The same times give the same sum, in whatever order they are added up.  *)

LEMMA AnyTerm ==
  ASSUME NEW S, IsFiniteSet(S), \A a \in S : a.dist \in Int, NEW h, IsSum(S, h)
  PROVE  \A s \in SUBSET S : \A x \in s : h[s] = x.dist + h[s \ {x}]
<1> DEFINE bad == {n \in Nat : \E s \in SUBSET S : Cardinality(s) = n
                                /\ \E x \in s : h[s] # x.dist + h[s \ {x}]}
<1>1. \A s \in SUBSET S : IsFiniteSet(s) /\ Cardinality(s) \in Nat
  BY FS_Subset, FS_CardinalityType
<1>2. bad = {}
  <2> SUFFICES ASSUME bad # {} PROVE FALSE
    OBVIOUS
  <2>1. bad \in SUBSET Nat
    OBVIOUS
  <2> HIDE DEF bad
  <2>2. PICK n \in bad : \A m \in bad : n <= m
    BY <2>1, LeastNumber
  <2>3. PICK s \in SUBSET S : Cardinality(s) = n /\ \E x \in s : h[s] # x.dist + h[s \ {x}]
    BY <2>2 DEF bad
  <2>4. PICK x \in s : h[s] # x.dist + h[s \ {x}]
    BY <2>3
  <2> PICK y : y = AnyOf(s)
    OBVIOUS
  <2>5. /\ y \in s /\ s \ {y} \in SUBSET S /\ s \ {x} \in SUBSET S /\ s # {}
        /\ Cardinality(s) \in Nat /\ n - 1 \in Nat
        /\ Cardinality(s \ {y}) = n - 1 /\ Cardinality(s \ {x}) = n - 1
    <3>1. s # {}
      BY <2>4
    <3>2. IsFiniteSet(s) /\ Cardinality(s \ {x}) = Cardinality(s) - 1
      BY <1>1, <2>4, FS_RemoveElement
    <3>3. /\ AnyOf(s) \in s /\ s \ {AnyOf(s)} \in SUBSET S
          /\ Cardinality(s) \in Nat /\ Cardinality(s) > 0
          /\ Cardinality(s \ {AnyOf(s)}) = Cardinality(s) - 1
      BY <3>1, OneLess
    <3> QED
      BY <2>3, <3>1, <3>2, <3>3
  <2>6. h[s] = y.dist + h[s \ {y}]
    BY <2>5 DEF IsSum, Sum
  <2>7. x # y
    BY <2>4, <2>6
  <2>8. n - 1 \notin bad
    BY <2>1, <2>2, <2>5
  <2>9. \A t \in SUBSET S : Cardinality(t) = n - 1 => \A z \in t : h[t] = z.dist + h[t \ {z}]
    BY <2>5, <2>8 DEF bad
  <2>10. h[s \ {y}] = x.dist + h[(s \ {y}) \ {x}]
    BY <2>4, <2>5, <2>7, <2>9
  <2>11. h[s \ {x}] = y.dist + h[(s \ {x}) \ {y}]
    BY <2>5, <2>7, <2>9
  <2>12. (s \ {y}) \ {x} = (s \ {x}) \ {y}
    OBVIOUS
  <2> PICK r : r = (s \ {x}) \ {y}
    OBVIOUS
  <2>13. r \in SUBSET S /\ h[r] \in Int /\ x.dist \in Int /\ y.dist \in Int
    BY <2>4, <2>5 DEF IsSum
  <2>14. h[s] = y.dist + (x.dist + h[r]) /\ h[s \ {x}] = y.dist + h[r]
    BY <2>6, <2>10, <2>11, <2>12
  <2> QED
    BY <2>4, <2>13, <2>14
<1> QED
  BY <1>1, <1>2

LEMMA SameSum ==
  ASSUME NEW S, IsFiniteSet(S), \A a \in S : a.dist \in Int,
         NEW T, IsFiniteSet(T), NEW f \in [S -> T],
         \A a \in S : f[a].dist = a.dist,
         \A a, b \in S : f[a] = f[b] => a = b,
         \A b \in T : \E a \in S : f[a] = b
  PROVE  MapThenSumSet(LAMBDA a : a.dist, S) = MapThenSumSet(LAMBDA a : a.dist, T)
<1>1. \A b \in T : b.dist \in Int
  OBVIOUS
<1>2. PICK h : IsSum(S, h) /\ MapThenSumSet(LAMBDA a : a.dist, S) = h[S]
  BY SumByTerms
<1>3. PICK g : IsSum(T, g) /\ MapThenSumSet(LAMBDA a : a.dist, T) = g[T]
  BY <1>1, SumByTerms
<1> DEFINE Im(s) == {f[a] : a \in s}
           bad == {n \in Nat : \E s \in SUBSET S : Cardinality(s) = n /\ h[s] # g[Im(s)]}
<1>4. \A s \in SUBSET S : Im(s) \in SUBSET T
  OBVIOUS
<1>5. bad = {}
  <2> SUFFICES ASSUME bad # {} PROVE FALSE
    OBVIOUS
  <2>1. bad \in SUBSET Nat
    OBVIOUS
  <2> HIDE DEF bad
  <2>2. PICK n \in bad : \A m \in bad : n <= m
    BY <2>1, LeastNumber
  <2>3. PICK s \in SUBSET S : Cardinality(s) = n /\ h[s] # g[Im(s)]
    BY <2>2 DEF bad
  <2>4. s # {}
    <3>1. h[{}] = 0 /\ g[{}] = 0
      BY <1>2, <1>3 DEF IsSum, Sum
    <3>2. s = {} => Im(s) = {}
      OBVIOUS
    <3> QED
      BY <2>3, <3>1, <3>2
  <2> PICK x : x = AnyOf(s)
    OBVIOUS
  <2>5. x \in s /\ s \ {x} \in SUBSET S /\ n - 1 \in Nat /\ Cardinality(s \ {x}) = n - 1
    <3>1. /\ AnyOf(s) \in s /\ s \ {AnyOf(s)} \in SUBSET S
          /\ Cardinality(s) \in Nat /\ Cardinality(s) > 0
          /\ Cardinality(s \ {AnyOf(s)}) = Cardinality(s) - 1
      BY <2>4, OneLess
    <3> QED
      BY <2>3, <3>1
  <2>6. n - 1 \notin bad
    BY <2>1, <2>2, <2>5
  <2>7. h[s \ {x}] = g[Im(s \ {x})]
    BY <2>5, <2>6 DEF bad
  <2>8. h[s] = x.dist + h[s \ {x}]
    BY <1>2, <2>5, AnyTerm
  <2>9. f[x] \in Im(s) /\ Im(s) \in SUBSET T
    BY <1>4, <2>5
  <2>10. g[Im(s)] = f[x].dist + g[Im(s) \ {f[x]}]
    <3> HIDE DEF Im
    <3> QED
      BY <1>1, <1>3, <2>9, AnyTerm
  <2>11. Im(s) \ {f[x]} = Im(s \ {x})
    BY <2>5
  <2>12. f[x].dist = x.dist
    BY <2>5
  <2> HIDE DEF Im
  <2> QED
    BY <2>3, <2>7, <2>8, <2>10, <2>11, <2>12
<1>6. h[S] = g[Im(S)]
  <2>1. S \in SUBSET S /\ Cardinality(S) \in Nat
    BY FS_CardinalityType
  <2> HIDE DEF Im
  <2> QED
    BY <1>5, <2>1
<1>7. Im(S) = T
  OBVIOUS
<1> QED
  BY <1>2, <1>3, <1>6, <1>7

-----------------------------------------------------------------------------
(* The other direction.                                                    *)

TwinArc(a) == [a EXCEPT !.from = Twin(a.to), !.to = Twin(a.from)]
TwinSet(C) == {Twin(n) : n \in C}

(* An arc is one of a ride or a connection, and nothing else. *)
IsProper(a) == a = Travel(a.name, a.from, a.to, a.dist) \/ a = Change(a.from, a.to, a.dist)

LEMMA ReversedArc ==
  ASSUME NEW a, IsProper(a)
  PROVE  Reversed(a).from = a.to /\ Reversed(a).to = a.from
BY DEF IsProper, Reversed, Travel, Change

LEMMA TwinRecord ==
  ASSUME NEW a, IsProper(a)
  PROVE  /\ TwinArc(a).from = Twin(a.to) /\ TwinArc(a).to = Twin(a.from)
         /\ TwinArc(a).name = a.name /\ TwinArc(a).dist = a.dist
         /\ TwinArc(a).connection = a.connection /\ IsProper(TwinArc(a))
         /\ \A l, u, v, t : a = Travel(l, u, v, t) => TwinArc(a) = Travel(l, Twin(v), Twin(u), t)
         /\ \A u, v, t : a = Change(u, v, t) => TwinArc(a) = Change(Twin(v), Twin(u), t)
<1>1. ASSUME NEW l, NEW u, NEW v, NEW t, a = Travel(l, u, v, t)
      PROVE  /\ TwinArc(a) = Travel(l, Twin(v), Twin(u), t)
             /\ a.from = u /\ a.to = v /\ a.name = l /\ a.dist = t /\ a.connection = FALSE
  <2>1. a = [from |-> u, to |-> v, name |-> l, dist |-> t, connection |-> FALSE]
    BY <1>1 DEF Travel
  <2>2. a.from = u /\ a.to = v /\ a.name = l /\ a.dist = t /\ a.connection = FALSE
    BY <2>1
  <2>3. TwinArc(a) = [[[from |-> u, to |-> v, name |-> l, dist |-> t, connection |-> FALSE]
                         EXCEPT !.from = Twin(v)] EXCEPT !.to = Twin(u)]
    BY <2>1, <2>2 DEF TwinArc
  <2>4. TwinArc(a) = [from |-> Twin(v), to |-> Twin(u), name |-> l, dist |-> t, connection |-> FALSE]
    BY <2>3
  <2> QED
    BY <2>2, <2>4 DEF Travel
<1>2. ASSUME NEW u, NEW v, NEW t, a = Change(u, v, t)
      PROVE  /\ TwinArc(a) = Change(Twin(v), Twin(u), t)
             /\ a.from = u /\ a.to = v /\ a.name = CHANGE_NAME /\ a.dist = t /\ a.connection = TRUE
  <2>1. a = [from |-> u, to |-> v, name |-> CHANGE_NAME, dist |-> t, connection |-> TRUE]
    BY <1>2 DEF Change
  <2>2. a.from = u /\ a.to = v /\ a.name = CHANGE_NAME /\ a.dist = t /\ a.connection = TRUE
    BY <2>1
  <2>3. TwinArc(a) = [[[from |-> u, to |-> v, name |-> CHANGE_NAME, dist |-> t, connection |-> TRUE]
                         EXCEPT !.from = Twin(v)] EXCEPT !.to = Twin(u)]
    BY <2>1, <2>2 DEF TwinArc
  <2>4. TwinArc(a) = [from |-> Twin(v), to |-> Twin(u), name |-> CHANGE_NAME, dist |-> t, connection |-> TRUE]
    BY <2>3
  <2> QED
    BY <2>2, <2>4 DEF Change
<1>3. CASE a = Travel(a.name, a.from, a.to, a.dist)
  <2> PICK b : b = TwinArc(a)
    OBVIOUS
  <2>1. b = Travel(a.name, Twin(a.to), Twin(a.from), a.dist) /\ a.connection = FALSE
    BY <1>1, <1>3
  <2>2. /\ b.from = Twin(a.to) /\ b.to = Twin(a.from) /\ b.name = a.name /\ b.dist = a.dist
        /\ b.connection = FALSE
    BY <2>1 DEF Travel
  <2>4. b.connection = a.connection
    BY <2>1, <2>2, Zenon
  <2>3. IsProper(b)
    BY <2>1, <2>2 DEF IsProper
  <2> QED
    BY <1>1, <1>2, <2>2, <2>3, <2>4
<1>4. CASE a = Change(a.from, a.to, a.dist)
  <2> PICK b : b = TwinArc(a)
    OBVIOUS
  <2>1. /\ b = Change(Twin(a.to), Twin(a.from), a.dist) /\ a.connection = TRUE
        /\ a.name = CHANGE_NAME
    BY <1>2, <1>4
  <2>2. /\ b.from = Twin(a.to) /\ b.to = Twin(a.from) /\ b.name = a.name /\ b.dist = a.dist
        /\ b.connection = TRUE
    BY <2>1 DEF Change
  <2>4. b.connection = a.connection
    BY <2>1, <2>2, Zenon
  <2>3. IsProper(b)
    BY <2>1, <2>2 DEF IsProper
  <2> QED
    BY <1>1, <1>2, <2>2, <2>3, <2>4
<1> QED
  BY <1>3, <1>4 DEF IsProper

LEMMA TwinTwice ==
  ASSUME NodeFacts, NEW a, IsProper(a), a.from \in AllNodes, a.to \in AllNodes
  PROVE  TwinArc(TwinArc(a)) = a
<1>1. Twin(Twin(a.from)) = a.from /\ Twin(Twin(a.to)) = a.to
  BY DEF NodeFacts
<1>2. CASE a = Travel(a.name, a.from, a.to, a.dist)
  <2>1. TwinArc(a) = Travel(a.name, Twin(a.to), Twin(a.from), a.dist) /\ IsProper(TwinArc(a))
    BY <1>2, TwinRecord
  <2>2. TwinArc(TwinArc(a)) = Travel(a.name, Twin(Twin(a.from)), Twin(Twin(a.to)), a.dist)
    BY <2>1, TwinRecord
  <2> QED
    BY <1>1, <1>2, <2>2
<1>3. CASE a = Change(a.from, a.to, a.dist)
  <2>1. TwinArc(a) = Change(Twin(a.to), Twin(a.from), a.dist) /\ IsProper(TwinArc(a))
    BY <1>3, TwinRecord
  <2>2. TwinArc(TwinArc(a)) = Change(Twin(Twin(a.from)), Twin(Twin(a.to)), a.dist)
    BY <2>1, TwinRecord
  <2> QED
    BY <1>1, <1>3, <2>2
<1> QED
  BY <1>2, <1>3 DEF IsProper

LEMMA TwinHop ==
  ASSUME lines \in LineMaps, NEW a, IsHop(a)
  PROVE  IsProper(a) /\ IsHop(TwinArc(a))
<1> DEFINE n == a.from
           l == n[1]
           i == n[3]
<1>1. /\ ~a.connection /\ n \in AllNodes /\ a = RideFrom(n) /\ a.to = NextStop(n)
      /\ a.to \in AllNodes /\ a.name = l
  BY DEF IsHop
<1>2. /\ l \in DOMAIN lines /\ i \in Stops(l)
      /\ (n = Way(l, i) /\ n[2] = "way") \/ (n = Back(l, i) /\ n[2] = "back")
  BY <1>1, NodeParts
<1>3. i \in Int
  BY <1>2, LineFacts
<1>4. /\ \A j : Twin(Way(l, j)) = Back(l, j) /\ Twin(Back(l, j)) = Way(l, j)
      /\ \A m \in AllNodes : Twin(m) \in AllNodes
  <2>1. \A m \in AllNodes : Twin(m) \in AllNodes
    BY NodeParts, WayAndBack DEF Twin, Way, Back
  <2> QED
    BY <2>1 DEF Twin, Way, Back
<1>5. CASE n = Way(l, i) /\ n[2] = "way"
  <2>1. a = Travel(l, Way(l, i), Way(l, i + 1), RideTime(l, i, i + 1)) /\ a.to = Way(l, i + 1)
    BY <1>1, <1>5 DEF RideFrom, NextStop
  <2>2. IsProper(a)
    BY <2>1 DEF IsProper, Travel
  <2>3. TwinArc(a) = Travel(l, Back(l, i + 1), Back(l, i), RideTime(l, i, i + 1))
    BY <1>4, <2>1, <2>2, TwinRecord
  <2>4. (i + 1) - 1 = i
    BY <1>3
  <2>5. RideFrom(Back(l, i + 1)) = Travel(l, Back(l, i + 1), Back(l, (i + 1) - 1), RideTime(l, (i + 1) - 1, i + 1))
    BY DEF RideFrom, Back
  <2>6. NextStop(Back(l, i + 1)) = Back(l, (i + 1) - 1)
    BY DEF NextStop, Back
  <2>7. Back(l, i + 1) \in AllNodes /\ Back(l, i) \in AllNodes
    BY <1>1, <1>4, <1>5, <2>1
  <2>8. /\ TwinArc(a).from = Back(l, i + 1) /\ TwinArc(a).to = Back(l, i)
        /\ TwinArc(a).name = l /\ ~TwinArc(a).connection /\ Back(l, i + 1)[1] = l
    BY <2>3 DEF Travel, Back
  <2>9. TwinArc(a) = RideFrom(Back(l, i + 1)) /\ NextStop(Back(l, i + 1)) = Back(l, i)
    BY <2>3, <2>4, <2>5, <2>6
  <2> QED
    BY <2>2, <2>7, <2>8, <2>9 DEF IsHop
<1>6. CASE n = Back(l, i) /\ n[2] = "back"
  <2>1. a = Travel(l, Back(l, i), Back(l, i - 1), RideTime(l, i - 1, i)) /\ a.to = Back(l, i - 1)
    BY <1>1, <1>6 DEF RideFrom, NextStop
  <2>2. IsProper(a)
    BY <2>1 DEF IsProper, Travel
  <2>3. TwinArc(a) = Travel(l, Way(l, i - 1), Way(l, i), RideTime(l, i - 1, i))
    BY <1>4, <2>1, <2>2, TwinRecord
  <2>4. (i - 1) + 1 = i
    BY <1>3
  <2>5. RideFrom(Way(l, i - 1)) = Travel(l, Way(l, i - 1), Way(l, (i - 1) + 1), RideTime(l, i - 1, (i - 1) + 1))
    BY DEF RideFrom, Way
  <2>6. NextStop(Way(l, i - 1)) = Way(l, (i - 1) + 1)
    BY DEF NextStop, Way
  <2>7. Way(l, i - 1) \in AllNodes /\ Way(l, i) \in AllNodes
    BY <1>1, <1>4, <1>6, <2>1
  <2>8. /\ TwinArc(a).from = Way(l, i - 1) /\ TwinArc(a).to = Way(l, i)
        /\ TwinArc(a).name = l /\ ~TwinArc(a).connection /\ Way(l, i - 1)[1] = l
    BY <2>3 DEF Travel, Way
  <2>9. TwinArc(a) = RideFrom(Way(l, i - 1)) /\ NextStop(Way(l, i - 1)) = Way(l, i)
    BY <2>3, <2>4, <2>5, <2>6
  <2> QED
    BY <2>2, <2>7, <2>8, <2>9 DEF IsHop
<1> QED
  BY <1>2, <1>5, <1>6

(* The arc that replaces a chain is longer than a hop, and so is its twin. *)
LEMMA NoHop ==
  ASSUME lines \in LineMaps, TwoStops, nodes \subseteq AllNodes, IsFiniteSet(arcs),
         NEW Cs, GoodChains(Cs), NEW C \in Cs
  PROVE  /\ IsProper(NewArc(C)) /\ NewArc(C).from \in AllNodes /\ NewArc(C).to \in AllNodes
         /\ ~IsHop(NewArc(C)) /\ ~IsHop(TwinArc(NewArc(C)))
<1>1. NodeFacts
  BY NodesAreTwins
<1>2. /\ FirstArc(C) \in ArcsOf(C) /\ FirstArc(C).from \notin C /\ FirstArc(C).to \in C
      /\ LastArc(C) \in ArcsOf(C) /\ LastArc(C).to \notin C
  BY ChainEnds
<1>3. IsHop(FirstArc(C)) /\ IsHop(LastArc(C))
  BY <1>2 DEF GoodChains
<1> PICK new : new = NewArc(C)
  OBVIOUS
<1>4. /\ new.from = FirstArc(C).from /\ new.to = LastArc(C).to /\ IsProper(new)
      /\ new.from \in AllNodes /\ new.to \in AllNodes
  BY <1>3 DEF NewArc, Travel, IsProper, IsHop
<1>5. ~IsHop(new)
  BY <1>2, <1>3, <1>4 DEF IsHop
<1>6. ~IsHop(TwinArc(new))
  BY <1>1, <1>4, <1>5, TwinHop, TwinTwice
<1> QED
  BY <1>4, <1>5, <1>6

-----------------------------------------------------------------------------
(* While chains are removed, a chain or an arc whose twin is missing       *)
(* belongs to a chain that is still to be removed.                         *)

HalfLeft == {C \in chains : TwinSet(C) \notin chains}

Paired ==
  /\ \A C \in HalfLeft : TwinArc(NewArc(C)) \in arcs /\ TwinSet(C) \cap nodes = {}
  /\ \A a \in arcs : \/ TwinArc(a) \in arcs
                     \/ \E C \in HalfLeft : a \in ArcsOf(C) \/ a = TwinArc(NewArc(C))
  /\ \A n \in nodes : Twin(n) \in nodes \/ \E C \in HalfLeft : n \in C

(* The ways to reach a chain, as the lemmas on chains need them. *)
ChainGraph ==
  /\ lines \in LineMaps /\ TwoStops /\ nodes \subseteq AllNodes
  /\ IsFiniteSet(nodes) /\ IsFiniteSet(arcs) /\ GoodChains(chains)
  /\ \A a \in arcs : IsArc(a) /\ IsProper(a)

LEMMA ArcsApart ==
  ASSUME ChainGraph, NEW C \in chains, NEW D \in chains,
         NEW a, a \in ArcsOf(C), a \in ArcsOf(D)
  PROVE  C = D
BY DEF ChainGraph, GoodChains, ArcsOf

LEMMA TwinSetFacts ==
  ASSUME ChainGraph, NEW C \in chains
  PROVE  /\ \A n \in C : n \in AllNodes /\ Twin(n) \in TwinSet(C) /\ n \notin TwinSet(C)
         /\ \A n \in AllNodes : Twin(n) \in TwinSet(C) <=> n \in C
         /\ \A n \in AllNodes : n \in TwinSet(C) <=> Twin(n) \in C
         /\ TwinSet(C) # C /\ TwinSet(TwinSet(C)) = C
<1>1. NodeFacts
  BY NodesAreTwins DEF ChainGraph
<1>2. C \subseteq AllNodes /\ C # {}
  BY DEF ChainGraph, GoodChains
<1>3. \A n, m \in C : SameCourse(n, m)
  BY ChainCourse DEF ChainGraph
<1>4. \A n \in AllNodes : Twin(n)[2] # n[2]
  <2> SUFFICES ASSUME NEW n \in AllNodes PROVE Twin(n)[2] # n[2]
    OBVIOUS
  <2>1. n[2] \in {"way", "back"}
    BY NodeParts
  <2> QED
    BY <2>1 DEF Twin
<1>5. \A n \in AllNodes : Twin(n) \in AllNodes /\ Twin(Twin(n)) = n
  BY <1>1 DEF NodeFacts
<1>6. \A n \in AllNodes : Twin(n) \in TwinSet(C) <=> n \in C
  BY <1>2, <1>5 DEF TwinSet
<1>7. \A n \in AllNodes : n \in TwinSet(C) <=> Twin(n) \in C
  BY <1>2, <1>5 DEF TwinSet
<1>8. \A n \in C : n \notin TwinSet(C)
  BY <1>2, <1>3, <1>4, <1>7 DEF SameCourse
<1>9. TwinSet(TwinSet(C)) = C
  BY <1>2, <1>5 DEF TwinSet
<1> QED
  BY <1>2, <1>6, <1>7, <1>8, <1>9

(* Two chains in the directions of a line are replaced by twins. *)
LEMMA TwinChains ==
  ASSUME ChainGraph, Paired, NEW C \in chains, TwinSet(C) \in chains
  PROVE  /\ \A a \in ArcsOf(C) : TwinArc(a) \in ArcsOf(TwinSet(C))
         /\ NewArc(C) = TwinArc(NewArc(TwinSet(C)))
<1>1. NodeFacts
  BY NodesAreTwins DEF ChainGraph
<1>2. ASSUME NEW E \in chains, TwinSet(E) \in chains, NEW a \in ArcsOf(E)
      PROVE  TwinArc(a) \in ArcsOf(TwinSet(E))
  <2>1. a \in arcs /\ IsHop(a) /\ a.from \in AllNodes /\ a.to \in AllNodes
    BY DEF ChainGraph, GoodChains, ArcsOf, IsHop
  <2>2. TwinArc(a) \in arcs
    <3>1. SUFFICES ASSUME NEW F \in HalfLeft, a \in ArcsOf(F) \/ a = TwinArc(NewArc(F))
                   PROVE  FALSE
      BY <2>1 DEF Paired
    <3>2. F \in chains /\ TwinSet(F) \notin chains
      BY DEF HalfLeft
    <3>3. a # TwinArc(NewArc(F))
      BY <2>1, <3>2, NoHop DEF ChainGraph
    <3>4. F = E
      BY <3>1, <3>2, <3>3, ArcsApart
    <3> QED
      BY <1>2, <3>2, <3>4
  <2>3. TwinArc(a).from = Twin(a.to) /\ TwinArc(a).to = Twin(a.from)
    BY <2>1, TwinRecord DEF ChainGraph
  <2>4. a.from \in E \/ a.to \in E
    BY DEF ArcsOf
  <2>5. TwinArc(a).from \in TwinSet(E) \/ TwinArc(a).to \in TwinSet(E)
    BY <2>3, <2>4, TwinSetFacts
  <2> QED
    BY <2>2, <2>5 DEF ArcsOf
<1> PICK D : D = TwinSet(C)
  OBVIOUS
<1>3. D \in chains /\ TwinSet(D) = C
  BY TwinSetFacts
<1>4. /\ \A a \in ArcsOf(C) : TwinArc(a) \in ArcsOf(D)
      /\ \A a \in ArcsOf(D) : TwinArc(a) \in ArcsOf(C)
  BY <1>2, <1>3
<1>5. \A a \in ArcsOf(C) \cup ArcsOf(D) :
        /\ a \in arcs /\ IsProper(a) /\ a.from \in AllNodes /\ a.to \in AllNodes /\ a.dist \in Int
        /\ TwinArc(TwinArc(a)) = a
        /\ TwinArc(a).from = Twin(a.to) /\ TwinArc(a).to = Twin(a.from)
        /\ TwinArc(a).name = a.name /\ TwinArc(a).dist = a.dist
  <2> SUFFICES ASSUME NEW a \in ArcsOf(C) \cup ArcsOf(D)
               PROVE  /\ a \in arcs /\ IsProper(a) /\ a.from \in AllNodes /\ a.to \in AllNodes
                      /\ a.dist \in Int /\ TwinArc(TwinArc(a)) = a
                      /\ TwinArc(a).from = Twin(a.to) /\ TwinArc(a).to = Twin(a.from)
                      /\ TwinArc(a).name = a.name /\ TwinArc(a).dist = a.dist
    OBVIOUS
  <2>1. a \in arcs
    BY DEF ArcsOf
  <2>2. IsProper(a) /\ a.from \in AllNodes /\ a.to \in AllNodes /\ a.dist \in Int
    BY <2>1 DEF ChainGraph, IsArc
  <2> QED
    BY <1>1, <2>1, <2>2, TwinRecord, TwinTwice
<1>6. /\ FirstArc(C) \in ArcsOf(C) /\ FirstArc(C).from \notin C
      /\ LastArc(C) \in ArcsOf(C) /\ LastArc(C).to \notin C
  BY ChainEnds DEF ChainGraph
<1>7. FirstArc(D) = TwinArc(LastArc(C)) /\ LastArc(D) = TwinArc(FirstArc(C))
  <2>1. TwinArc(LastArc(C)).from \notin D /\ TwinArc(FirstArc(C)).to \notin D
    BY <1>5, <1>6, TwinSetFacts
  <2>2. TwinArc(LastArc(C)) \in ArcsOf(D) /\ TwinArc(FirstArc(C)) \in ArcsOf(D)
    BY <1>4, <1>6
  <2> QED
    BY <1>3, <2>1, <2>2, OneWayThrough DEF ChainGraph
<1>8. FirstArc(C).name = LastArc(C).name
  <2>1. \A a \in ArcsOf(C) : /\ IsHop(a) /\ a.to[1] = a.from[1]
                             /\ a.from \in C \/ a.to \in C
    BY NextOnLine DEF ChainGraph, GoodChains, ArcsOf
  <2> QED
    BY <1>6, <2>1 DEF ChainGraph, GoodChains, IsHop
<1>9. RideAlong(C) = RideAlong(D)
  <2> PICK S, T : S = ArcsOf(C) /\ T = ArcsOf(D)
    OBVIOUS
  <2> DEFINE f == [a \in S |-> TwinArc(a)]
  <2>1. IsFiniteSet(S) /\ IsFiniteSet(T)
    <3>1. S \subseteq arcs /\ T \subseteq arcs
      BY DEF ArcsOf
    <3> QED
      BY <3>1, FS_Subset DEF ChainGraph
  <2>2. f \in [S -> T] /\ \A a \in S : f[a].dist = a.dist
    BY <1>4, <1>5
  <2>3. \A a, b \in S : f[a] = f[b] => a = b
    BY <1>5
  <2>4. \A b \in T : \E a \in S : f[a] = b
    BY <1>4, <1>5
  <2>5. \A a \in S : a.dist \in Int
    BY <1>5
  <2> HIDE DEF f
  <2>6. MapThenSumSet(LAMBDA a : a.dist, S) = MapThenSumSet(LAMBDA a : a.dist, T)
    BY <2>1, <2>2, <2>3, <2>4, <2>5, SameSum
  <2> QED
    BY <2>6 DEF RideAlong
<1>10. NewArc(D) = Travel(LastArc(C).name, Twin(LastArc(C).to), Twin(FirstArc(C).from), RideAlong(C))
  BY <1>5, <1>6, <1>7, <1>9 DEF NewArc
<1>11. /\ Twin(Twin(LastArc(C).to)) = LastArc(C).to /\ Twin(Twin(FirstArc(C).from)) = FirstArc(C).from
  BY <1>1, <1>5, <1>6 DEF NodeFacts
<1>12. IsProper(NewArc(D))
  BY <1>3, NoHop DEF ChainGraph
<1>13. TwinArc(NewArc(D)) = Travel(LastArc(C).name, Twin(Twin(FirstArc(C).from)), Twin(Twin(LastArc(C).to)), RideAlong(C))
  BY <1>10, <1>12, TwinRecord
<1>14. NewArc(C) = TwinArc(NewArc(D))
  BY <1>8, <1>11, <1>13 DEF NewArc
<1> QED
  BY <1>4, <1>14

LEMMA OthersKept ==
  ASSUME ChainGraph, NEW C \in chains,
         arcs' = (arcs \ ArcsOf(C)) \cup {NewArc(C)}
  PROVE  \A E \in chains \ {C} :
           /\ ArcsOf(E)' = ArcsOf(E) /\ FirstArc(E)' = FirstArc(E) /\ LastArc(E)' = LastArc(E)
           /\ NewArc(E)' = NewArc(E)
<1> SUFFICES ASSUME NEW E \in chains \ {C}
             PROVE  /\ ArcsOf(E)' = ArcsOf(E) /\ FirstArc(E)' = FirstArc(E)
                    /\ LastArc(E)' = LastArc(E) /\ NewArc(E)' = NewArc(E)
  OBVIOUS
<1>1. NewArc(C).from = FirstArc(C).from /\ NewArc(C).to = LastArc(C).to
  BY DEF NewArc, Travel
<1>2. FirstArc(C) \in arcs /\ FirstArc(C).to \in C /\ LastArc(C) \in arcs /\ LastArc(C).from \in C
  BY ChainEnds DEF ChainGraph, ArcsOf
<1>3. NewArc(C).from \notin E /\ NewArc(C).to \notin E
  BY <1>1, <1>2 DEF ChainGraph, GoodChains
<1>4. \A a \in ArcsOf(C) : a \notin ArcsOf(E)
  BY ArcsApart
<1>5. ArcsOf(E)' = ArcsOf(E)
  BY <1>3, <1>4 DEF ArcsOf
<1>6. FirstArc(E)' = FirstArc(E) /\ LastArc(E)' = LastArc(E)
  BY <1>5 DEF FirstArc, LastArc
<1>7. RideAlong(E)' = RideAlong(E)
  BY <1>5 DEF RideAlong, MapThenSumSet, MapThenFoldSet
<1> QED
  BY <1>5, <1>6, <1>7 DEF NewArc

LEMMA StepOfPairs ==
  ASSUME ChainGraph, Paired, NEW C \in chains, UNCHANGED lines, nodes' = nodes \ C,
         arcs' = (arcs \ ArcsOf(C)) \cup {NewArc(C)}, chains' = chains \ {C}
  PROVE  Paired'
<1> DEFINE Rest == chains \ {C}
<1> PICK D, new : D = TwinSet(C) /\ new = NewArc(C)
  OBVIOUS
<1>1. \A E \in Rest : ArcsOf(E)' = ArcsOf(E) /\ NewArc(E)' = NewArc(E)
  BY OthersKept
<1>2. \A E \in chains : \A a \in ArcsOf(E) : IsHop(a)
  BY DEF ChainGraph, GoodChains
<1>3. \A E \in chains : /\ TwinArc(NewArc(E)) \notin ArcsOf(C)
                       /\ TwinSet(E) # E /\ TwinSet(TwinSet(E)) = E
                       /\ IsProper(NewArc(E)) /\ TwinArc(TwinArc(NewArc(E))) = NewArc(E)
  <2> SUFFICES ASSUME NEW E \in chains
               PROVE  /\ TwinArc(NewArc(E)) \notin ArcsOf(C)
                      /\ TwinSet(E) # E /\ TwinSet(TwinSet(E)) = E
                      /\ IsProper(NewArc(E)) /\ TwinArc(TwinArc(NewArc(E))) = NewArc(E)
    OBVIOUS
  <2>1. /\ ~IsHop(TwinArc(NewArc(E))) /\ IsProper(NewArc(E))
        /\ NewArc(E).from \in AllNodes /\ NewArc(E).to \in AllNodes
    BY NoHop DEF ChainGraph
  <2>2. NodeFacts
    BY NodesAreTwins DEF ChainGraph
  <2> QED
    BY <1>2, <2>1, <2>2, TwinSetFacts, TwinTwice
<1>4. \A a \in arcs : IsProper(a) /\ a.from \in nodes /\ a.to \in nodes /\ TwinArc(TwinArc(a)) = a
                      /\ TwinArc(a).from = Twin(a.to) /\ TwinArc(a).to = Twin(a.from)
  <2> SUFFICES ASSUME NEW a \in arcs
               PROVE  IsProper(a) /\ a.from \in nodes /\ a.to \in nodes /\ TwinArc(TwinArc(a)) = a
                      /\ TwinArc(a).from = Twin(a.to) /\ TwinArc(a).to = Twin(a.from)
    OBVIOUS
  <2>1. NodeFacts
    BY NodesAreTwins DEF ChainGraph
  <2>2. IsProper(a) /\ a.from \in nodes /\ a.to \in nodes /\ a.from \in AllNodes /\ a.to \in AllNodes
    BY DEF ChainGraph, IsArc
  <2> QED
    BY <2>1, <2>2, TwinTwice, TwinRecord
<1>5. HalfLeft' = {E \in Rest : TwinSet(E) \notin Rest}
  BY DEF HalfLeft, TwinSet, Twin
<1>6. /\ \A n \in AllNodes : Twin(n) \in AllNodes /\ Twin(Twin(n)) = n
      /\ \A n \in AllNodes : (Twin(n) \in D <=> n \in C) /\ (n \in D <=> Twin(n) \in C)
      /\ \A n \in C : n \in AllNodes /\ n \notin D
      /\ nodes \subseteq AllNodes
  <2>1. NodeFacts
    BY NodesAreTwins DEF ChainGraph
  <2> QED
    BY <2>1, TwinSetFacts DEF NodeFacts, ChainGraph
<1>7. \A E \in Rest : E \cap C = {}
  BY DEF ChainGraph, GoodChains
<1>8. \A a \in ArcsOf(C) : a.from \in C \/ a.to \in C
  BY DEF ArcsOf
<1>9. SUFFICES
        /\ \A E \in HalfLeft' : TwinArc(NewArc(E)) \in arcs' /\ TwinSet(E) \cap nodes' = {}
        /\ \A a \in arcs' : \/ TwinArc(a) \in arcs'
                            \/ \E E \in HalfLeft' : a \in ArcsOf(E) \/ a = TwinArc(NewArc(E))
        /\ \A n \in nodes' : Twin(n) \in nodes' \/ \E E \in HalfLeft' : n \in E
  <2>1. HalfLeft' \subseteq Rest
    BY <1>5
  <2>2. \A E \in HalfLeft' : ArcsOf(E)' = ArcsOf(E) /\ NewArc(E)' = NewArc(E)
    BY <1>1, <2>1
  <2>3. \A a : TwinArc(a)' = TwinArc(a)
    BY DEF TwinArc, Twin
  <2> QED
    BY <2>2, <2>3 DEF Paired, TwinSet, Twin
<1> HIDE DEF Rest
<1>10. CASE D \in chains
  <2>1. D # C /\ TwinSet(D) = C /\ D \in Rest
    BY <1>3, <1>10 DEF Rest
  <2>2. new = TwinArc(NewArc(D)) /\ \A a \in ArcsOf(C) : TwinArc(a) \in ArcsOf(D)
    BY <1>10, TwinChains
  <2>3. HalfLeft' = HalfLeft \cup {D}
    <3>1. \A E \in Rest : TwinSet(E) = C => E = D
      BY <1>3 DEF Rest
    <3>2. C \notin HalfLeft
      BY <1>10 DEF HalfLeft
    <3> QED
      BY <1>5, <2>1, <3>1, <3>2 DEF HalfLeft, Rest
  <2>4. ASSUME NEW E \in HalfLeft'
        PROVE  TwinArc(NewArc(E)) \in arcs' /\ TwinSet(E) \cap nodes' = {}
    <3>1. CASE E = D
      <4>1. TwinArc(NewArc(E)) \in arcs'
        BY <2>2, <3>1
      <4>2. TwinSet(E) \cap nodes' = {}
        BY <2>1, <3>1
      <4> QED
        BY <4>1, <4>2
    <3>2. CASE E \in HalfLeft
      BY <1>3, <3>2 DEF Paired, HalfLeft
    <3> QED
      BY <2>3, <3>1, <3>2
  <2>5. ASSUME NEW a \in arcs'
        PROVE  \/ TwinArc(a) \in arcs'
               \/ \E E \in HalfLeft' : a \in ArcsOf(E) \/ a = TwinArc(NewArc(E))
    <3>1. CASE a = new
      BY <2>2, <2>3, <3>1
    <3>2. CASE a \in arcs /\ TwinArc(a) \in ArcsOf(C)
      <4>1. a \in ArcsOf(D)
        BY <1>4, <2>2, <3>2
      <4> QED
        BY <2>3, <4>1
    <3>3. CASE a \in arcs /\ TwinArc(a) \notin ArcsOf(C)
      BY <2>3, <3>3 DEF Paired
    <3> QED
      BY <3>1, <3>2, <3>3
  <2>6. ASSUME NEW n \in nodes'
        PROVE  Twin(n) \in nodes' \/ \E E \in HalfLeft' : n \in E
    <3>1. CASE Twin(n) \in C
      BY <1>6, <2>3, <3>1
    <3>2. CASE Twin(n) \notin C
      BY <2>3, <3>2 DEF Paired
    <3> QED
      BY <3>1, <3>2
  <2> QED
    BY <2>4, <2>5, <2>6
<1>11. CASE D \notin chains
  <2>1. C \in HalfLeft
    BY <1>11 DEF HalfLeft
  <2>2. HalfLeft' = HalfLeft \ {C}
    <3>1. \A E \in Rest : TwinSet(E) # C
      BY <1>3, <1>11 DEF Rest
    <3> QED
      BY <1>5, <3>1 DEF HalfLeft, Rest
  <2>3. TwinArc(new) \in arcs' /\ D \cap nodes = {}
    BY <1>3, <2>1 DEF Paired
  <2>4. ASSUME NEW E \in HalfLeft'
        PROVE  TwinArc(NewArc(E)) \in arcs' /\ TwinSet(E) \cap nodes' = {}
    BY <1>3, <2>2 DEF Paired, HalfLeft
  <2>5. ASSUME NEW a \in arcs'
        PROVE  \/ TwinArc(a) \in arcs'
               \/ \E E \in HalfLeft' : a \in ArcsOf(E) \/ a = TwinArc(NewArc(E))
    <3>1. CASE a = new
      BY <2>3, <3>1
    <3>2. CASE a \in arcs /\ a \notin ArcsOf(C)
      <4>1. TwinArc(a) \notin ArcsOf(C)
        BY <1>4, <1>6, <1>8, <2>3, <3>2
      <4>2. CASE TwinArc(a) \in arcs
        BY <4>1, <4>2
      <4>3. CASE \E E \in HalfLeft : a \in ArcsOf(E) \/ a = TwinArc(NewArc(E))
        <5>1. PICK E \in HalfLeft : a \in ArcsOf(E) \/ a = TwinArc(NewArc(E))
          BY <4>3
        <5>2. CASE E # C
          BY <2>2, <5>1, <5>2
        <5>3. CASE E = C
          <6>1. a = TwinArc(new)
            BY <3>2, <5>1, <5>3
          <6>2. TwinArc(a) = new
            BY <1>3, <6>1
          <6> QED
            BY <6>2
        <5> QED
          BY <5>2, <5>3
      <4> QED
        BY <3>2, <4>2, <4>3 DEF Paired
    <3> QED
      BY <3>1, <3>2
  <2>6. ASSUME NEW n \in nodes'
        PROVE  Twin(n) \in nodes' \/ \E E \in HalfLeft' : n \in E
    <3>1. Twin(n) \notin C
      BY <1>6, <2>3
    <3> QED
      BY <2>2, <3>1 DEF Paired
  <2> QED
    BY <2>4, <2>5, <2>6
<1> QED
  BY <1>10, <1>11

(* All arcs have twins when the connections are added. *)
LEMMA TwinsOfAll ==
  ASSUME lines \in LineMaps, NodeFacts, NEW A, RideFacts(A), ChangeFacts(A),
         \A a \in A : a.connection => IsTurn(a) \/ IsChange(a), NEW a \in A
  PROVE  IsProper(a) /\ TwinArc(a) \in A
<1>1. CASE ~a.connection
  <2>1. IsHop(a) /\ Arriving(a.to)
    BY <1>1 DEF RideFacts, IsHop
  <2>2. IsProper(a) /\ IsHop(TwinArc(a))
    BY <2>1, TwinHop
  <2>3. TwinArc(a).from = Twin(a.to) /\ Twin(a.to) \in AllNodes /\ Departing(Twin(a.to))
    BY <2>1, <2>2, TwinRecord DEF NodeFacts, IsHop
  <2>4. PICK b \in A : ~b.connection /\ b.from = Twin(a.to)
    BY <2>3 DEF RideFacts
  <2>5. b = RideFrom(Twin(a.to)) /\ TwinArc(a) = RideFrom(Twin(a.to))
    BY <2>2, <2>3, <2>4 DEF RideFacts, IsHop
  <2> QED
    BY <2>2, <2>5
<1>2. CASE IsTurn(a)
  <2>1. a = Change(a.from, Twin(a.from), switch_cost) /\ Twin(Twin(a.from)) = a.from
    BY <1>2 DEF IsTurn, NodeFacts
  <2>2. IsProper(a)
    BY <2>1 DEF IsProper, Change
  <2>3. TwinArc(a) = Change(Twin(Twin(a.from)), Twin(a.from), switch_cost)
    BY <2>1, <2>2, TwinRecord
  <2> QED
    BY <2>1, <2>2, <2>3
<1>3. CASE IsChange(a)
  <2> PICK u, v : u = a.from /\ v = a.to
    OBVIOUS
  <2>1. /\ u \in AllNodes /\ v \in AllNodes /\ SameStation(u, v) /\ u[1] # v[1]
        /\ Arriving(u) /\ Departing(v) /\ a = Change(u, v, change_cost)
    BY <1>3 DEF IsChange
  <2>2. IsProper(a)
    BY <2>1 DEF IsProper, Change
  <2>3. TwinArc(a) = Change(Twin(v), Twin(u), change_cost)
    BY <2>1, <2>2, TwinRecord
  <2>4. /\ Twin(v) \in AllNodes /\ Twin(u) \in AllNodes /\ SameStation(Twin(v), Twin(u))
        /\ Twin(v)[1] # Twin(u)[1] /\ Arriving(Twin(v)) /\ Departing(Twin(u))
    BY <2>1 DEF NodeFacts, SameStation
  <2> QED
    BY <2>2, <2>3, <2>4 DEF ChangeFacts
<1> QED
  BY <1>1, <1>2, <1>3

LEMMA TwinsOfInside ==
  ASSUME NodeFacts, Shape, type \in {"STATION", "SEGMENT"}, IsFiniteSet(arcs), nodes = AllNodes,
         \A a \in arcs : IsProper(a) /\ IsArc(a) /\ TwinArc(a) \in arcs,
         NEW n \in ChainNodes
  PROVE  Twin(n) \in ChainNodes
<1> DEFINE low == {m \in nodes : Degree(m) <= 2}
           kept == {a \in arcs : a.connection /\ a.from \in low /\ a.to \in low}
<1>1. n \in low /\ \A a \in kept : n # a.from /\ n # a.to
  BY DEF ChainNodes
<1>2. \A m \in nodes : m \in low <=> Single(m)
  BY BothWays, DegreeFacts
<1>3. \A a \in arcs : /\ TwinArc(a) \in arcs /\ TwinArc(TwinArc(a)) = a
                      /\ TwinArc(a).from = Twin(a.to) /\ TwinArc(a).to = Twin(a.from)
                      /\ TwinArc(a).connection = a.connection
                      /\ a.from \in nodes /\ a.to \in nodes
  BY TwinRecord, TwinTwice DEF IsArc
<1>4. \A m \in nodes : Twin(m) \in nodes /\ Twin(Twin(m)) = m
  BY DEF NodeFacts
<1>5. ASSUME NEW m \in nodes, Single(m) PROVE Single(Twin(m))
  <2>1. ASSUME NEW a \in arcs, NEW b \in arcs, a.to = Twin(m), b.to = Twin(m) PROVE a = b
    <3>1. TwinArc(a) = TwinArc(b)
      BY <1>3, <1>4, <1>5, <2>1 DEF Single, OutEdges
    <3> QED
      BY <1>3, <3>1
  <2>2. ASSUME NEW a \in arcs, NEW b \in arcs, a.from = Twin(m), b.from = Twin(m) PROVE a = b
    <3>1. TwinArc(a) = TwinArc(b)
      BY <1>3, <1>4, <1>5, <2>2 DEF Single, InEdges
    <3> QED
      BY <1>3, <3>1
  <2> QED
    BY <2>1, <2>2 DEF Single, InEdges, OutEdges
<1>6. \A m \in low : Twin(m) \in low
  BY <1>2, <1>4, <1>5
<1>7. \A a \in kept : TwinArc(a) \in kept
  BY <1>3, <1>6
<1>8. \A a \in kept : Twin(n) # a.from /\ Twin(n) # a.to
  BY <1>1, <1>3, <1>4, <1>7
<1> QED
  BY <1>1, <1>6, <1>8 DEF ChainNodes

LEMMA TwinsOfChains ==
  ASSUME NodeFacts, IsFiniteSet(nodes), nodes \subseteq AllNodes,
         \A a \in arcs : IsProper(a) /\ TwinArc(a) \in arcs,
         NEW inside \in SUBSET nodes, \A n \in inside : Twin(n) \in inside,
         NEW C \in Chains(inside)
  PROVE  TwinSet(C) \in Chains(inside)
<1> DEFINE E == {a \in arcs : a.from \in inside /\ a.to \in inside}
           R(n) == Reach(Undirected(E), {n})
<1>1. Chains(inside) = {R(n) : n \in inside}
  BY DEF Chains
<1>2. \A a \in arcs : Reversed(a).from = a.to /\ Reversed(a).to = a.from
  BY ReversedArc
<1>3. ASSUME NEW n \in inside
      PROVE  /\ n \in R(n) /\ R(n) \subseteq inside
             /\ \A a \in E : a.from \in R(n) <=> a.to \in R(n)
             /\ \A T : n \in T /\ (\A a \in E : a.from \in T <=> a.to \in T) => R(n) \subseteq T
  <2> PICK Q : Q = R(n)
    OBVIOUS
  <2>1. \A a \in E : /\ a.from \in inside /\ a.to \in inside
                     /\ Reversed(a).from = a.to /\ Reversed(a).to = a.from
    BY <1>2
  <2> HIDE DEF E
  <2>2. Q = Reach(Undirected(E), {n})
    OBVIOUS
  <2>3. /\ n \in Q /\ Q \subseteq inside
        /\ \A a \in E : a.from \in Q <=> a.to \in Q
        /\ \A T : n \in T /\ (\A a \in E : a.from \in T <=> a.to \in T) => Q \subseteq T
    BY <2>1, <2>2, ComponentFacts
  <2> QED
    BY <2>3
<1>4. \A n \in inside : Twin(n) \in inside /\ Twin(Twin(n)) = n
  BY DEF NodeFacts
<1>5. \A a \in E : /\ TwinArc(a) \in E /\ a.from \in inside /\ a.to \in inside
                   /\ TwinArc(a).from = Twin(a.to) /\ TwinArc(a).to = Twin(a.from)
  BY <1>4, TwinRecord
<1> HIDE DEF E, R
<1>6. ASSUME NEW n \in inside PROVE R(Twin(n)) \subseteq TwinSet(R(n))
  <2>1. \A m \in inside : m \in TwinSet(R(n)) <=> Twin(m) \in R(n)
    BY <1>3, <1>4 DEF TwinSet
  <2>2. \A a \in E : a.from \in TwinSet(R(n)) <=> a.to \in TwinSet(R(n))
    BY <1>3, <1>5, <2>1
  <2>3. Twin(n) \in TwinSet(R(n))
    BY <1>3 DEF TwinSet
  <2> QED
    BY <1>3, <1>4, <2>2, <2>3
<1>7. ASSUME NEW n \in inside PROVE TwinSet(R(n)) = R(Twin(n))
  <2>1. Twin(n) \in inside /\ Twin(Twin(n)) = n
    BY <1>4
  <2>2. R(n) \subseteq TwinSet(R(Twin(n)))
    BY <1>6, <2>1
  <2>3. \A m \in R(n) : Twin(m) \in R(Twin(n))
    BY <1>3, <1>4, <2>1, <2>2 DEF TwinSet
  <2>4. TwinSet(R(n)) \subseteq R(Twin(n))
    BY <2>3 DEF TwinSet
  <2> QED
    BY <1>6, <2>4
<1> QED
  BY <1>1, <1>4, <1>7

-----------------------------------------------------------------------------
(* In the station problem, every chain may be removed.                     *)

(* A station with changes has been passed on the way to n. *)
Preceded(n) ==
  \E m \in AllNodes : SameCourse(m, n) /\ Place(m) < Place(n) /\ IsConnecting(StationOfNode(m))

(* One turns just before a station with changes, after another one. *)
TurnPlan(A) ==
  \A n \in AllNodes : Arriving(n) /\ Departing(n) =>
    (Change(n, Twin(n), switch_cost) \in A <=>
       /\ ~IsConnecting(StationOfNode(n)) /\ IsConnecting(StationOfNode(NextStop(n)))
       /\ Preceded(n))

LEMMA InnerTurnsOfWay ==
  ASSUME lines \in LineMaps, NEW l \in DOMAIN lines, NEW i \in Stops(l), i > 1, i < LastStop(l)
  PROVE  TurnBack(l, i) \in InnerTurns(l) <=>
           /\ ~ConnectingStop(l, i) /\ ConnectingStop(l, i + 1) /\ HasPrecedingConnecting(l, i)
<1>1. LastStop(l) \in Nat /\ i \in 1..LastStop(l) /\ i + 1 \in (i + 1)..LastStop(l)
  BY LineFacts
<1>2. ConnectingStop(l, i + 1) => HasFollowingConnecting(l, i)
  BY <1>1 DEF HasFollowingConnecting
<1>3. ~IsTerminal(l, i)
  BY <1>1 DEF IsTerminal
<1>4. ASSUME TurnBack(l, i) \in InnerTurns(l) PROVE i \in InnerStops(l) /\ ConnectingStop(l, i + 1)
  <2>1. PICK j \in InnerStops(l) :
          \/ TurnBack(l, i) = TurnBack(l, j) /\ ConnectingStop(l, j + 1)
          \/ TurnBack(l, i) = TurnAround(l, j)
    BY <1>4 DEF InnerTurns
  <2> QED
    BY <2>1, TurnsDiffer
<1>5. i \in InnerStops(l) /\ ConnectingStop(l, i + 1) => TurnBack(l, i) \in InnerTurns(l)
  BY DEF InnerTurns
<1> QED
  BY <1>2, <1>3, <1>4, <1>5 DEF InnerStops

LEMMA InnerTurnsOfBack ==
  ASSUME lines \in LineMaps, NEW l \in DOMAIN lines, NEW i \in Stops(l), i > 1, i < LastStop(l)
  PROVE  TurnAround(l, i) \in InnerTurns(l) <=>
           /\ ~ConnectingStop(l, i) /\ ConnectingStop(l, i - 1) /\ HasFollowingConnecting(l, i)
<1>1. LastStop(l) \in Nat /\ i \in 1..LastStop(l) /\ i - 1 \in 1..(i - 1)
  BY LineFacts
<1>2. ConnectingStop(l, i - 1) => HasPrecedingConnecting(l, i)
  BY <1>1 DEF HasPrecedingConnecting
<1>3. ~IsTerminal(l, i)
  BY <1>1 DEF IsTerminal
<1>4. ASSUME TurnAround(l, i) \in InnerTurns(l) PROVE i \in InnerStops(l) /\ ConnectingStop(l, i - 1)
  <2>1. PICK j \in InnerStops(l) :
          \/ TurnAround(l, i) = TurnAround(l, j) /\ ConnectingStop(l, j - 1)
          \/ TurnAround(l, i) = TurnBack(l, j)
    BY <1>4 DEF InnerTurns
  <2> QED
    BY <2>1, TurnsDiffer
<1>5. i \in InnerStops(l) /\ ConnectingStop(l, i - 1) => TurnAround(l, i) \in InnerTurns(l)
  BY DEF InnerTurns
<1> QED
  BY <1>2, <1>3, <1>4, <1>5 DEF InnerStops

LEMMA PrecededStops ==
  ASSUME lines \in LineMaps, NEW l \in DOMAIN lines, NEW i \in Stops(l)
  PROVE  /\ Preceded(Way(l, i)) <=> HasPrecedingConnecting(l, i)
         /\ Preceded(Back(l, i)) <=> HasFollowingConnecting(l, i)
<1>1. LastStop(l) \in Nat /\ Stops(l) = 1..LastStop(l) /\ i \in 1..LastStop(l)
  BY LineFacts
<1>2. \A j \in Stops(l) :
        /\ Way(l, j) \in AllNodes /\ Back(l, j) \in AllNodes
        /\ SameCourse(Way(l, j), Way(l, i)) /\ SameCourse(Back(l, j), Back(l, i))
        /\ Place(Way(l, j)) = j /\ Place(Back(l, j)) = LastStop(l) - j
        /\ StationOfNode(Way(l, j)) = StationAt(l, j) /\ StationOfNode(Back(l, j)) = StationAt(l, j)
  BY WayAndBack DEF SameCourse, Place, StationOfNode, Way, Back
<1>3. \A m \in AllNodes :
        /\ SameCourse(m, Way(l, i)) => m[3] \in Stops(l) /\ m = Way(l, m[3])
        /\ SameCourse(m, Back(l, i)) => m[3] \in Stops(l) /\ m = Back(l, m[3])
  <2> SUFFICES ASSUME NEW m \in AllNodes
               PROVE  /\ SameCourse(m, Way(l, i)) => m[3] \in Stops(l) /\ m = Way(l, m[3])
                      /\ SameCourse(m, Back(l, i)) => m[3] \in Stops(l) /\ m = Back(l, m[3])
    OBVIOUS
  <2>1. /\ m[1] \in DOMAIN lines /\ m[3] \in Stops(m[1])
        /\ (m = Way(m[1], m[3]) /\ m[2] = "way") \/ (m = Back(m[1], m[3]) /\ m[2] = "back")
    BY NodeParts
  <2> QED
    BY <2>1 DEF SameCourse, Way, Back
<1>4. \A j \in Stops(l) :
        /\ Place(Way(l, j)) < Place(Way(l, i)) <=> j \in 1..(i - 1)
        /\ Place(Back(l, j)) < Place(Back(l, i)) <=> j \in (i + 1)..LastStop(l)
  BY <1>1, <1>2
<1>5. Preceded(Way(l, i)) <=> HasPrecedingConnecting(l, i)
  <2>1. ASSUME Preceded(Way(l, i)) PROVE HasPrecedingConnecting(l, i)
    <3>1. PICK m \in AllNodes : /\ SameCourse(m, Way(l, i)) /\ Place(m) < Place(Way(l, i))
                                /\ IsConnecting(StationOfNode(m))
      BY <2>1 DEF Preceded
    <3> PICK j : j = m[3]
      OBVIOUS
    <3>2. j \in Stops(l) /\ m = Way(l, j)
      BY <1>3, <3>1
    <3>3. j \in 1..(i - 1) /\ IsConnecting(StationAt(l, j))
      BY <1>2, <1>4, <3>1, <3>2
    <3> QED
      BY <3>3 DEF HasPrecedingConnecting, ConnectingStop
  <2>2. ASSUME HasPrecedingConnecting(l, i) PROVE Preceded(Way(l, i))
    <3>1. PICK j \in 1..(i - 1) : IsConnecting(StationAt(l, j))
      BY <2>2 DEF HasPrecedingConnecting, ConnectingStop
    <3>2. j \in Stops(l)
      BY <1>1
    <3>3. /\ Way(l, j) \in AllNodes /\ SameCourse(Way(l, j), Way(l, i))
          /\ Place(Way(l, j)) < Place(Way(l, i)) /\ IsConnecting(StationOfNode(Way(l, j)))
      BY <1>2, <1>4, <3>1, <3>2
    <3> QED
      BY <3>3 DEF Preceded
  <2> QED
    BY <2>1, <2>2
<1>6. Preceded(Back(l, i)) <=> HasFollowingConnecting(l, i)
  <2>1. ASSUME Preceded(Back(l, i)) PROVE HasFollowingConnecting(l, i)
    <3>1. PICK m \in AllNodes : /\ SameCourse(m, Back(l, i)) /\ Place(m) < Place(Back(l, i))
                                /\ IsConnecting(StationOfNode(m))
      BY <2>1 DEF Preceded
    <3> PICK j : j = m[3]
      OBVIOUS
    <3>2. j \in Stops(l) /\ m = Back(l, j)
      BY <1>3, <3>1
    <3>3. j \in (i + 1)..LastStop(l) /\ IsConnecting(StationAt(l, j))
      BY <1>2, <1>4, <3>1, <3>2
    <3> QED
      BY <3>3 DEF HasFollowingConnecting, ConnectingStop
  <2>2. ASSUME HasFollowingConnecting(l, i) PROVE Preceded(Back(l, i))
    <3>1. PICK j \in (i + 1)..LastStop(l) : IsConnecting(StationAt(l, j))
      BY <2>2 DEF HasFollowingConnecting, ConnectingStop
    <3>2. j \in Stops(l)
      BY <1>1
    <3>3. /\ Back(l, j) \in AllNodes /\ SameCourse(Back(l, j), Back(l, i))
          /\ Place(Back(l, j)) < Place(Back(l, i)) /\ IsConnecting(StationOfNode(Back(l, j)))
      BY <1>2, <1>4, <3>1, <3>2
    <3> QED
      BY <3>3 DEF Preceded
  <2> QED
    BY <2>1, <2>2
<1> QED
  BY <1>5, <1>6

LEMMA AddedTurnPlan ==
  ASSUME lines \in LineMaps, TwoStops,
         NEW B, B = UNION {StationProblemTurns(l) : l \in DOMAIN lines}
  PROVE  TurnPlan(B)
<1> SUFFICES ASSUME NEW n \in AllNodes, Arriving(n), Departing(n)
             PROVE  Change(n, Twin(n), switch_cost) \in B <=>
                      /\ ~IsConnecting(StationOfNode(n))
                      /\ IsConnecting(StationOfNode(NextStop(n))) /\ Preceded(n)
  BY DEF TurnPlan
<1> PICK l, i : l = n[1] /\ i = n[3]
  OBVIOUS
<1>1. /\ l \in DOMAIN lines /\ i \in Stops(l)
      /\ (n = Way(l, i) /\ n[2] = "way") \/ (n = Back(l, i) /\ n[2] = "back")
  BY NodeParts
<1>2. LastStop(l) \in Nat /\ i \in 1..LastStop(l) /\ i > 1 /\ i < LastStop(l)
  <2>1. LastStop(l) \in Nat /\ i \in 1..LastStop(l)
    BY <1>1, LineFacts
  <2> QED
    BY <1>1, <2>1, TurnsOfStop
<1>3. Twin(Way(l, i)) = Back(l, i) /\ Twin(Back(l, i)) = Way(l, i)
  BY DEF Twin, Way, Back
<1>4. /\ NextStop(Way(l, i)) = Way(l, i + 1) /\ NextStop(Back(l, i)) = Back(l, i - 1)
      /\ \A j : /\ StationOfNode(Way(l, j)) = StationAt(l, j)
                /\ StationOfNode(Back(l, j)) = StationAt(l, j)
  BY DEF NextStop, StationOfNode, Way, Back
<1>5. ASSUME NEW a, a = TurnBack(l, i) \/ a = TurnAround(l, i)
      PROVE  a \in B <=> a \in InnerTurns(l)
  <2>1. ASSUME a \in B PROVE a \in InnerTurns(l)
    <3>1. PICK m \in DOMAIN lines : a \in StationProblemTurns(m)
      BY <2>1
    <3>2. CASE a \in InnerTurns(m)
      <4>1. PICK j \in InnerStops(m) : a = TurnBack(m, j) \/ a = TurnAround(m, j)
        BY <3>2 DEF InnerTurns
      <4> QED
        BY <1>5, <3>2, <4>1, TurnsDiffer
    <3>3. CASE a \notin InnerTurns(m)
      <4>1. PICK j \in Stops(m) : IsTerminal(m, j) /\ a = TurnAtTerminal(m, j)
        BY <3>1, <3>3 DEF StationProblemTurns
      <4>2. l = m /\ i = j
        BY <1>5, <4>1, TurnsDiffer DEF TurnAtTerminal
      <4> QED
        BY <1>2, <4>1, <4>2 DEF IsTerminal
    <3> QED
      BY <3>2, <3>3
  <2>2. a \in InnerTurns(l) => a \in B
    BY <1>1 DEF StationProblemTurns
  <2> QED
    BY <2>1, <2>2
<1>6. CASE n = Way(l, i)
  <2>1. Change(n, Twin(n), switch_cost) = TurnBack(l, i)
    BY <1>3, <1>6 DEF TurnBack
  <2>2. TurnBack(l, i) \in B <=>
          /\ ~ConnectingStop(l, i) /\ ConnectingStop(l, i + 1) /\ HasPrecedingConnecting(l, i)
    BY <1>1, <1>2, <1>5, InnerTurnsOfWay
  <2> QED
    BY <1>1, <1>4, <1>6, <2>1, <2>2, PrecededStops DEF ConnectingStop
<1>7. CASE n = Back(l, i)
  <2>1. Change(n, Twin(n), switch_cost) = TurnAround(l, i)
    BY <1>3, <1>7 DEF TurnAround
  <2>2. TurnAround(l, i) \in B <=>
          /\ ~ConnectingStop(l, i) /\ ConnectingStop(l, i - 1) /\ HasFollowingConnecting(l, i)
    BY <1>1, <1>2, <1>5, InnerTurnsOfBack
  <2> QED
    BY <1>1, <1>4, <1>7, <2>1, <2>2, PrecededStops DEF ConnectingStop
<1> QED
  BY <1>1, <1>6, <1>7

LEMMA AtMostOne ==
  ASSUME NEW S, IsFiniteSet(S), \A a, b \in S : a = b
  PROVE  Cardinality(S) <= 1
<1>1. CASE S = {}
  BY <1>1, FS_EmptySet
<1>2. CASE S # {}
  <2>1. PICK x \in S : TRUE
    BY <1>2
  <2>2. S = {x}
    BY <2>1
  <2> QED
    BY <2>2, FS_Singleton
<1> QED
  BY <1>1, <1>2

(* Where there are just two rides, one passes a station without changes. *)
LEMMA ChainNodeFacts ==
  ASSUME NodeFacts, Shape, IsFiniteSet(arcs), NEW n \in AllNodes, OneInOneOut(n),
         \A a \in arcs : a.from = n \/ a.to = n => IsHop(a)
  PROVE  /\ Arriving(n) /\ Departing(n) /\ ~IsConnecting(StationOfNode(n))
         /\ \A c : Change(n, Twin(n), c) \notin arcs /\ Change(Twin(n), n, c) \notin arcs
<1>1. \A u, v, c : /\ Change(u, v, c).connection
                   /\ Change(u, v, c).from = u /\ Change(u, v, c).to = v
  BY DEF Change
<1>2. Arriving(n) /\ Departing(n)
  <2>1. (\E a \in arcs : a.to = n) /\ (\E a \in arcs : a.from = n)
    BY OneArcEach
  <2> QED
    BY <2>1 DEF Shape, RideFacts, IsHop
<1>3. \A v, c : Change(n, v, c) \notin arcs /\ Change(v, n, c) \notin arcs
  BY <1>1 DEF IsHop
<1>4. ~IsConnecting(StationOfNode(n))
  <2>1. SUFFICES ASSUME IsConnecting(StationOfNode(n)) PROVE FALSE
    OBVIOUS
  <2>2. PICK m \in AllNodes : SameStation(n, m) /\ m[1] # n[1]
    BY <2>1 DEF NodeFacts
  <2>3. \E v \in AllNodes : SameStation(n, v) /\ n[1] # v[1] /\ Departing(v)
    <3>1. Departing(m) \/ Departing(Twin(m))
      BY DEF NodeFacts
    <3>2. Twin(m) \in AllNodes /\ SameStation(n, Twin(m)) /\ Twin(m)[1] = m[1]
      BY <2>2 DEF NodeFacts, SameStation
    <3> QED
      BY <2>2, <3>1, <3>2
  <2> QED
    BY <1>2, <1>3, <2>3 DEF Shape, ChangeFacts
<1> QED
  BY <1>2, <1>3, <1>4

(* A turn between two stops: the stop before it has changes. *)
LEMMA TurnAfterChange ==
  ASSUME lines \in LineMaps, TwoStops, NodeFacts, TurnPlan(arcs),
         NEW b \in arcs, IsPlannedTurn(b), NEW x \in AllNodes, Departing(x), NextStop(x) = b.to,
         Arriving(b.to)
  PROVE  IsConnecting(StationOfNode(x))
<1> PICK w : w = b.to
  OBVIOUS
<1>1. b.from \in AllNodes /\ Arriving(b.from) /\ b = Change(b.from, Twin(b.from), switch_cost)
      /\ w = Twin(b.from) /\ b.from = Twin(w) /\ w \in AllNodes /\ Departing(b.from)
  BY DEF IsPlannedTurn, IsTurn, NodeFacts
<1>2. IsConnecting(StationOfNode(NextStop(b.from)))
  BY <1>1 DEF TurnPlan
<1>3. IsHop(RideFrom(x)) /\ RideFrom(x).from = x /\ RideFrom(x).to = w
  BY RideOfNode DEF IsHop
<1>4. NextStop(Twin(w)) = Twin(x)
  <2>1. IsProper(RideFrom(x)) /\ IsHop(TwinArc(RideFrom(x)))
    BY <1>3, TwinHop
  <2>2. TwinArc(RideFrom(x)).from = Twin(w) /\ TwinArc(RideFrom(x)).to = Twin(x)
    BY <1>3, <2>1, TwinRecord
  <2> QED
    BY <2>1, <2>2 DEF IsHop
<1>5. StationOfNode(Twin(x)) = StationOfNode(x)
  BY DEF NodeFacts, SameStation
<1> QED
  BY <1>1, <1>2, <1>4, <1>5

LEMMA ChainsAreForced ==
  ASSUME ChainGraph, NodeFacts, Shape, TurnPlan(arcs), NEW Cs, GoodChains(Cs), NEW C \in Cs
  PROVE  IsForced(C)
<1> PICK u, w, q, p : /\ u = FirstArc(C).from /\ w = LastArc(C).to
                      /\ q = FirstArc(C).to /\ p = LastArc(C).from
  OBVIOUS
<1>1. /\ FirstArc(C) \in ArcsOf(C) /\ q \in C /\ u \notin C
      /\ LastArc(C) \in ArcsOf(C) /\ p \in C /\ w \notin C
  BY ChainEnds DEF ChainGraph
<1>2. /\ IsHop(FirstArc(C)) /\ IsHop(LastArc(C)) /\ FirstArc(C) \in arcs /\ LastArc(C) \in arcs
      /\ lines \in LineMaps /\ TwoStops /\ IsFiniteSet(arcs)
  BY <1>1 DEF GoodChains, ChainGraph, ArcsOf
<1>3. /\ u \in AllNodes /\ w \in AllNodes /\ q = NextStop(u) /\ w = NextStop(p)
      /\ Departing(u) /\ Arriving(w) /\ Departing(p)
  BY <1>2 DEF IsHop, Shape, RideFacts
<1>4. /\ p \in AllNodes /\ Arriving(p) /\ ~IsConnecting(StationOfNode(p))
      /\ Change(p, Twin(p), switch_cost) \notin arcs
  <2>1. p \in AllNodes /\ OneInOneOut(p) /\ \A a \in arcs : a.from = p \/ a.to = p => IsHop(a)
    BY <1>1 DEF GoodChains, ChainGraph, ArcsOf
  <2> QED
    BY <1>2, <2>1, ChainNodeFacts
<1>5. SameCourse(u, p) /\ Place(u) < Place(p)
  <2>1. SameCourse(u, q) /\ Place(q) = Place(u) + 1
    BY <1>2, HopCourse, PlaceFacts
  <2>2. SameCourse(q, p) /\ Place(q) <= Place(p)
    BY <1>1, ChainCourse DEF ChainGraph
  <2>3. Place(u) \in Nat /\ Place(q) \in Nat /\ Place(p) \in Nat
    <3>1. q \in AllNodes
      BY <1>1 DEF GoodChains, ChainGraph
    <3> QED
      BY <1>2, <1>3, <1>4, <3>1, PlaceFacts
  <2> QED
    BY <2>1, <2>2, <2>3 DEF SameCourse
<1>6. \A n : IsFiniteSet(InEdges(n))
  <2>1. \A n : InEdges(n) \subseteq arcs
    BY DEF InEdges
  <2> QED
    BY <1>2, <2>1, FS_Subset
<1>7. CASE \A b \in InEdges(w) : ~b.connection
  <2>1. \A a, b \in InEdges(w) : a = b
    BY <1>7, RidesAreSingle
  <2> QED
    BY <1>6, <2>1, AtMostOne DEF IsForced
<1>8. CASE \E b \in InEdges(w) : b.connection
  <2>1. PICK b \in arcs : b.to = w /\ b.connection
    BY <1>8 DEF InEdges
  <2>2. ~IsPlannedTurn(b)
    BY <1>2, <1>3, <1>4, <2>1, TurnAfterChange
  <2>3. IsConnecting(StationOfNode(w))
    BY <2>1, <2>2, ChangeMeets DEF Shape
  <2>4. ~Preceded(p)
    BY <1>3, <1>4, <2>3 DEF TurnPlan
  <2>5. ASSUME NEW a \in arcs, a.to = u, a.connection
        PROVE  ~Arriving(u) /\ a = Change(Twin(u), u, switch_cost)
    <3>1. ~IsChange(a)
      <4>1. SUFFICES ASSUME IsChange(a) PROVE FALSE
        OBVIOUS
      <4>2. IsConnecting(StationOfNode(u))
        BY <2>5, <4>1, ChangeMeets
      <4> QED
        BY <1>3, <1>5, <2>4, <4>2 DEF Preceded
    <3>2. IsPlannedTurn(a)
      BY <2>5, <3>1 DEF Shape
    <3>3. a = Change(Twin(u), u, switch_cost)
      BY <2>5, <3>2 DEF IsPlannedTurn, IsTurn, NodeFacts
    <3>4. ~Arriving(u)
      <4>1. SUFFICES ASSUME Arriving(u) PROVE FALSE
        OBVIOUS
      <4>2. PICK x \in AllNodes : Departing(x) /\ NextStop(x) = u
        BY <1>2, <1>3, <4>1, PreviousNode
      <4>3. IsConnecting(StationOfNode(x))
        BY <1>2, <2>5, <3>2, <4>1, <4>2, TurnAfterChange
      <4>4. SameCourse(x, u) /\ Place(u) = Place(x) + 1 /\ Place(x) \in Nat
        <5>1. IsHop(RideFrom(x)) /\ RideFrom(x).from = x /\ RideFrom(x).to = u
          BY <1>2, <4>2, RideOfNode DEF IsHop
        <5> QED
          BY <1>2, <4>2, <5>1, HopCourse, PlaceFacts
      <4>5. SameCourse(x, p) /\ Place(x) < Place(p)
        <5>1. Place(p) \in Nat
          BY <1>2, <1>4, PlaceFacts
        <5> QED
          BY <1>5, <4>4, <5>1 DEF SameCourse
      <4> QED
        BY <2>4, <4>2, <4>3, <4>5 DEF Preceded
    <3> QED
      BY <3>3, <3>4
  <2>6. \A a, b1 \in InEdges(u) : a = b1
    <3>1. CASE Arriving(u)
      <4>1. \A a \in InEdges(u) : ~a.connection
        BY <2>5, <3>1 DEF InEdges
      <4> QED
        BY <4>1, RidesAreSingle
    <3>2. CASE ~Arriving(u)
      <4>1. \A a \in InEdges(u) : a.connection
        BY <3>2 DEF InEdges, Shape, RideFacts
      <4> QED
        BY <2>5, <4>1 DEF InEdges
    <3> QED
      BY <3>1, <3>2
  <2> QED
    BY <1>6, <2>6, AtMostOne DEF IsForced
<1> QED
  BY <1>7, <1>8

(* The nodes around other chains get no more arcs. *)
LEMMA StaysForced ==
  ASSUME ChainGraph, NEW C \in chains, NEW E \in chains \ {C}, IsForced(E),
         arcs' = (arcs \ ArcsOf(C)) \cup {NewArc(C)}
  PROVE  IsForced(E)'
<1>1. FirstArc(E)' = FirstArc(E) /\ LastArc(E)' = LastArc(E)
  BY OthersKept
<1>2. /\ LastArc(C) \in ArcsOf(C) /\ NewArc(C).to = LastArc(C).to
  BY ChainEnds DEF ChainGraph, NewArc, Travel
<1>3. ASSUME NEW n PROVE Cardinality(InEdges(n)') <= Cardinality(InEdges(n))
  <2> PICK S, T, new, last : /\ S = InEdges(n) /\ T = InEdges(n)' /\ new = NewArc(C)
                             /\ last = LastArc(C)
    OBVIOUS
  <2>1. S \subseteq arcs /\ IsFiniteSet(arcs)
    BY DEF InEdges, ChainGraph
  <2>2. IsFiniteSet(S) /\ Cardinality(S) \in Nat
    BY <2>1, FS_Subset, FS_CardinalityType
  <2>3. CASE n # last.to
    <3>1. T \subseteq S
      BY <1>2, <2>3 DEF InEdges
    <3> QED
      BY <2>2, <3>1, FS_Subset
  <2>4. CASE n = last.to
    <3> DEFINE R == S \ {last}
    <3>1. last \in S /\ T \subseteq R \cup {new}
      BY <1>2, <2>4 DEF InEdges, ArcsOf
    <3>2. IsFiniteSet(R) /\ Cardinality(R) = Cardinality(S) - 1
      BY <2>2, <3>1, FS_RemoveElement
    <3> HIDE DEF R
    <3>3. IsFiniteSet(R \cup {new}) /\ Cardinality(R \cup {new}) <= Cardinality(R) + 1
      BY <2>2, <3>2, FS_AddElement
    <3>4. Cardinality(T) <= Cardinality(R \cup {new})
      BY <3>1, <3>3, FS_Subset
    <3>5. Cardinality(T) \in Nat /\ Cardinality(R \cup {new}) \in Nat
      <4>1. IsFiniteSet(T)
        BY <3>1, <3>3, FS_Subset
      <4> QED
        BY <3>3, <4>1, FS_CardinalityType
    <3> QED
      BY <2>2, <3>2, <3>3, <3>4, <3>5
  <2> QED
    BY <2>3, <2>4
<1>4. \A n : Cardinality(InEdges(n)') \in Nat /\ Cardinality(InEdges(n)) \in Nat
  <2> TAKE n
  <2>1. InEdges(n) \subseteq arcs /\ InEdges(n)' \subseteq arcs'
    BY DEF InEdges
  <2>2. IsFiniteSet(arcs) /\ IsFiniteSet(arcs')
    <3>1. IsFiniteSet(arcs) /\ IsFiniteSet(arcs \ ArcsOf(C))
      BY FS_Difference DEF ChainGraph
    <3> QED
      BY <3>1, FS_AddElement
  <2> QED
    BY <2>1, <2>2, FS_Subset, FS_CardinalityType
<1> PICK x, y : x = FirstArc(E).from /\ y = LastArc(E).to
  OBVIOUS
<1>5. Cardinality(InEdges(x)) <= 1 \/ Cardinality(InEdges(y)) <= 1
  BY DEF IsForced
<1>6. Cardinality(InEdges(x)') <= 1 \/ Cardinality(InEdges(y)') <= 1
  BY <1>3, <1>4, <1>5
<1>7. FirstArc(E)'.from = x /\ LastArc(E)'.to = y
  BY <1>1
<1>8. IsForced(E)' <=> (\/ Cardinality(InEdges(x)') <= 1
                       \/ Cardinality(InEdges(y)') <= 1)
  <2>1. IsForced(E)' <=> (\/ Cardinality(InEdges(FirstArc(E).from)') <= 1
                         \/ Cardinality(InEdges(LastArc(E).to)') <= 1)
    BY <1>1 DEF IsForced, InEdges
  <2> QED
    BY <1>7, <2>1 DEF InEdges
<1> QED
  BY <1>6, <1>8

-----------------------------------------------------------------------------
(* The graph is its own twin: the invariant and its steps.                 *)

Proper == \A a \in arcs : IsProper(a)

LEMMA NextProper ==
  ASSUME GInv, Proper, [Next]_vars
  PROVE  Proper'
<1>1. SUFFICES \A a \in arcs' : IsProper(a)
  BY DEF Proper, IsProper, Travel, Change
<1>2. /\ lines \in LineMaps /\ TwoStops /\ nodes \subseteq AllNodes /\ IsFiniteSet(arcs)
      /\ GoodChains(chains)
  BY DEF GInv, TypeOK
<1>3. \A a \in arcs : IsProper(a)
  BY DEF Proper
<1>4. \A a : IsTurn(a) \/ IsChange(a) => IsProper(a)
  BY DEF IsTurn, IsChange, IsProper, Change
<1>5. CASE CreateNodesAndTravelArcs
  <2>1. RideFacts(arcs') /\ \A a \in arcs' : ~a.connection
    BY <1>2, <1>5, RidesOfLines DEF CreateNodesAndTravelArcs, Rides
  <2>2. \A a \in arcs' : IsHop(a)
    BY <2>1 DEF RideFacts, IsHop
  <2> QED
    BY <1>2, <2>2, TwinHop
<1>6. CASE AddAllSwitchingArcs \/ AddSwitchingArcsAtTerminals \/ AddStationProblemSwitchingArcs
  <2>1. PICK B :
          /\ \/ B = UNION {AllTurns(l) : l \in DOMAIN lines} /\ ~preprocess
             \/ B = UNION {TerminalTurns(l) : l \in DOMAIN lines} /\ type = "SEGMENT"
             \/ B = UNION {StationProblemTurns(l) : l \in DOMAIN lines} /\ type = "STATION"
          /\ arcs' = arcs \cup B
    BY <1>6 DEF AddAllSwitchingArcs, AddSwitchingArcsAtTerminals, AddStationProblemSwitchingArcs,
                AddSwitchingArcs
  <2>2. \A a \in B : IsTurn(a)
    BY <1>2, <2>1, AddedTurns
  <2> QED
    BY <1>3, <1>4, <2>1, <2>2
<1>7. CASE AddAllConnectionArcs
  <2>1. PICK B : B = UNION {ConnectionArcs(s) : s \in StationNames} /\ arcs' = arcs \cup B
    BY <1>7 DEF AddAllConnectionArcs
  <2>2. RideFacts(arcs)
    BY <1>7 DEF AddAllConnectionArcs, GInv, Stage
  <2>3. \A a \in B : IsChange(a)
    BY <1>2, <2>1, <2>2, AddedChanges
  <2> QED
    BY <1>3, <1>4, <2>1, <2>3
<1>8. CASE RemoveChain
  <2>1. PICK C \in chains : arcs' = (arcs \ ArcsOf(C)) \cup {NewArc(C)} \/ arcs' = arcs
    BY <1>8 DEF RemoveChain
  <2>2. IsProper(NewArc(C))
    BY <1>2, NoHop
  <2> QED
    BY <1>3, <2>1, <2>2
<1>9. CASE UNCHANGED arcs
  BY <1>3, <1>9
<1> QED
  BY <1>5, <1>6, <1>7, <1>8, <1>9
     DEF Next, ComputeDegree2Chains, RemoveFromStations, CheckConnectivity, vars

(* Where the station problem turns: no step after the turns were added     *)
(* changes a thing about it.                                               *)
Planned ==
  /\ preprocess /\ type = "STATION" /\ phase \notin {"nodes", "switching"} =>
       /\ TurnPlan(arcs)
       /\ \A a \in arcs : a.connection => IsPlannedTurn(a) \/ IsChange(a)
  /\ phase = "chains" => preprocess

LEMMA SamePlan ==
  ASSUME UNCHANGED lines
  PROVE  TurnPlan(arcs)' <=> TurnPlan(arcs')
<1>1. \A n : Place(n)' = Place(n)
  BY DEF Place, LastStop
<1>2. \A n : Preceded(n)' <=> Preceded(n)
  BY <1>1, SameLines DEF Preceded, SameCourse
<1>3. \A n : IsConnecting(StationOfNode(NextStop(n)))' <=> IsConnecting(StationOfNode(NextStop(n)))
  BY SameLines DEF NextStop, Way, Back
<1> QED
  BY <1>2, <1>3, SameLines DEF TurnPlan, Change, Twin

LEMMA NextPlanned ==
  ASSUME GInv, Planned, [Next]_vars
  PROVE  Planned'
<1>1. lines \in LineMaps /\ TwoStops
  BY DEF GInv, TypeOK
<1>2. CASE AddAllSwitchingArcs \/ AddSwitchingArcsAtTerminals \/ AddStationProblemSwitchingArcs
  <2>1. PICK B :
          /\ \/ B = UNION {AllTurns(l) : l \in DOMAIN lines} /\ ~preprocess
             \/ B = UNION {TerminalTurns(l) : l \in DOMAIN lines} /\ type = "SEGMENT"
             \/ B = UNION {StationProblemTurns(l) : l \in DOMAIN lines} /\ type = "STATION"
          /\ arcs' = arcs \cup B
          /\ phase = "switching" /\ phase' = "connections" /\ UNCHANGED <<lines, type, preprocess>>
    BY <1>2 DEF AddAllSwitchingArcs, AddSwitchingArcsAtTerminals, AddStationProblemSwitchingArcs,
                AddSwitchingArcs, input
  <2>2. SUFFICES ASSUME preprocess, type = "STATION"
                 PROVE  TurnPlan(arcs') /\ \A a \in arcs' : a.connection => IsPlannedTurn(a)
    BY <2>1, SamePlan, SameFacts DEF Planned
  <2>3. TurnPlan(B) /\ \A a \in B : IsPlannedTurn(a)
    BY <1>1, <2>1, <2>2, AddedTurnPlan, AddedTurns
  <2>4. \A a \in arcs : ~a.connection
    BY <2>1 DEF GInv, Stage
  <2>5. \A u, v, c : Change(u, v, c).connection
    BY DEF Change
  <2>6. \A u, v, c : Change(u, v, c) \in arcs' <=> Change(u, v, c) \in B
    BY <2>1, <2>4, <2>5
  <2>7. \A a \in arcs' : a.connection => IsPlannedTurn(a)
    BY <2>1, <2>3, <2>4
  <2> QED
    BY <2>3, <2>6, <2>7 DEF TurnPlan
<1>3. CASE AddAllConnectionArcs
  <2>1. PICK B :
          /\ B = UNION {ConnectionArcs(s) : s \in StationNames}
          /\ arcs' = arcs \cup B
          /\ phase = "connections" /\ phase' = IF preprocess THEN "chains" ELSE "check"
          /\ UNCHANGED <<lines, type, preprocess>>
    BY <1>3 DEF AddAllConnectionArcs, input
  <2>2. SUFFICES ASSUME preprocess, type = "STATION"
                 PROVE  /\ TurnPlan(arcs')
                        /\ \A a \in arcs' : a.connection => IsPlannedTurn(a) \/ IsChange(a)
    BY <2>1, SamePlan, SameFacts DEF Planned
  <2>3. /\ TurnPlan(arcs) /\ RideFacts(arcs)
        /\ \A a \in arcs : a.connection => IsPlannedTurn(a) \/ IsChange(a)
    BY <2>1, <2>2 DEF Planned, GInv, Stage
  <2>4. \A a \in B : IsChange(a)
    BY <1>1, <2>1, <2>3, AddedChanges
  <2>5. \A n, c : Change(n, Twin(n), c).from[1] = Change(n, Twin(n), c).to[1]
    BY DEF Change, Twin
  <2>6. \A n, c : Change(n, Twin(n), c) \in arcs' <=> Change(n, Twin(n), c) \in arcs
    BY <2>1, <2>4, <2>5 DEF IsChange
  <2> QED
    BY <2>1, <2>3, <2>4, <2>6 DEF TurnPlan
<1>4. CASE RemoveChain
  <2>1. PICK C \in chains :
          /\ phase = "removing" /\ phase' = "removing" /\ UNCHANGED <<lines, type, preprocess>>
          /\ arcs' = (arcs \ ArcsOf(C)) \cup {NewArc(C)} \/ arcs' = arcs
    BY <1>4 DEF RemoveChain, input
  <2>2. \A a \in ArcsOf(C) \cup {NewArc(C)} : ~a.connection
    BY DEF GInv, GoodChains, IsHop, NewArc, Travel
  <2>3. \A a : a.connection => (a \in arcs' <=> a \in arcs)
    BY <2>1, <2>2
  <2>4. \A u, v, c : Change(u, v, c).connection
    BY DEF Change
  <2>5. SUFFICES ASSUME preprocess, type = "STATION"
                 PROVE  /\ TurnPlan(arcs')
                        /\ \A a \in arcs' : a.connection => IsPlannedTurn(a) \/ IsChange(a)
    BY <2>1, SamePlan, SameFacts DEF Planned
  <2> QED
    BY <2>1, <2>3, <2>4, <2>5 DEF Planned, TurnPlan
<1>5. CASE \/ UNCHANGED vars
           \/ ComputeDegree2Chains \/ RemoveFromStations \/ CheckConnectivity
  <2>1. /\ UNCHANGED <<lines, type, preprocess, arcs>>
        /\ \/ phase' = phase
           \/ (phase' # "chains" /\ phase \in {"chains", "removing", "check"})
    <3>1. CASE UNCHANGED vars
      BY <3>1 DEF vars, input
    <3>2. CASE ComputeDegree2Chains \/ RemoveFromStations \/ CheckConnectivity
      BY <3>2 DEF ComputeDegree2Chains, RemoveFromStations, CheckConnectivity, input
    <3> QED
      BY <1>5, <3>1, <3>2
  <2>2. /\ TurnPlan(arcs)' <=> TurnPlan(arcs)
        /\ \A a : (IsPlannedTurn(a)' <=> IsPlannedTurn(a)) /\ (IsChange(a)' <=> IsChange(a))
    BY <2>1, SamePlan, SameFacts
  <2> QED
    BY <2>1, <2>2 DEF Planned
<1>6. CASE CreateNodesAndTravelArcs
  BY <1>6 DEF CreateNodesAndTravelArcs, Planned
<1> QED
  BY <1>2, <1>3, <1>4, <1>5, <1>6 DEF Next

(* From the computation of chains on: twins, and no chain is kept. *)
Twinned ==
  phase \in {"chains", "removing", "check", "built", "thrown"} =>
    /\ Paired
    /\ type = "STATION" => \A C \in chains : IsForced(C)

LEMMA SameTwins ==
  ASSUME UNCHANGED <<nodes, arcs, chains>>
  PROVE  /\ Paired' <=> Paired
         /\ \A C : IsForced(C)' <=> IsForced(C)
<1>1. \A C : ArcsOf(C)' = ArcsOf(C)
  BY DEF ArcsOf
<1>2. \A C : RideAlong(C)' = RideAlong(C)
  BY <1>1 DEF RideAlong, MapThenSumSet, MapThenFoldSet
<1>3. \A C : FirstArc(C)' = FirstArc(C) /\ LastArc(C)' = LastArc(C)
  BY <1>1 DEF FirstArc, LastArc
<1>4. \A C : NewArc(C)' = NewArc(C)
  BY <1>2, <1>3 DEF NewArc, Travel
<1>5. Paired' <=> Paired
  BY <1>1, <1>4 DEF Paired, HalfLeft, TwinArc, TwinSet, Twin
<1>6. \A C : IsForced(C)' <=> IsForced(C)
  BY <1>3 DEF IsForced, InEdges
<1> QED
  BY <1>5, <1>6

(* Without chains, having twins is what it says. *)
LEMMA PairedAlone ==
  ASSUME chains = {}
  PROVE  Paired <=> /\ \A a \in arcs : TwinArc(a) \in arcs
                    /\ \A n \in nodes : Twin(n) \in nodes
<1>1. HalfLeft = {}
  BY DEF HalfLeft
<1> QED
  BY <1>1 DEF Paired

LEMMA ConnectionsAreTwins ==
  ASSUME GInv, AddAllConnectionArcs
  PROVE  Twinned'
<1>1. PICK B :
        /\ B = UNION {ConnectionArcs(s) : s \in StationNames}
        /\ arcs' = arcs \cup B
        /\ phase = "connections" /\ UNCHANGED <<lines, type, nodes, chains>>
  BY DEF AddAllConnectionArcs, input
<1>2. /\ lines \in LineMaps /\ chains = {} /\ nodes = AllNodes /\ RideFacts(arcs)
      /\ \A a \in arcs : a.connection => IsTurn(a)
  BY <1>1 DEF GInv, TypeOK, Stage
<1>3. (\A a \in B : IsChange(a)) /\ ChangeFacts(B)
  BY <1>1, <1>2, AddedChanges
<1>4. NodeFacts
  BY <1>1, <1>2, NodesAreTwins DEF GInv
<1> PICK A : A = arcs'
  OBVIOUS
<1>5. /\ RideFacts(A) /\ ChangeFacts(A)
      /\ \A a \in A : a.connection => IsTurn(a) \/ IsChange(a)
  <2>1. \A a \in B : a.connection
    BY <1>2, <1>3, AddedArcsFit
  <2> QED
    BY <1>1, <1>2, <1>3, <2>1, MoreConnections DEF ChangeFacts
<1>6. \A a \in A : TwinArc(a) \in A
  BY <1>2, <1>4, <1>5, TwinsOfAll
<1>7. \A n \in nodes : Twin(n) \in nodes
  BY <1>2, <1>4 DEF NodeFacts
<1>8. Paired'
  <2>1. chains' = {} /\ nodes' = nodes
    BY <1>1, <1>2
  <2>2. HalfLeft' = {}
    BY <2>1 DEF HalfLeft
  <2> QED
    BY <1>6, <1>7, <2>1, <2>2 DEF Paired, TwinArc, Twin
<1> QED
  BY <1>1, <1>2, <1>8 DEF Twinned

LEMMA ChainsAreTwins ==
  ASSUME GInv, Proper, Planned, Twinned, ComputeDegree2Chains
  PROVE  Twinned'
<1>1. /\ phase = "chains" /\ chains' = Chains(ChainNodes)
      /\ UNCHANGED <<lines, type, preprocess, nodes, arcs>>
  BY DEF ComputeDegree2Chains, input
<1>2. /\ lines \in LineMaps /\ TwoStops /\ type \in {"STATION", "SEGMENT"}
      /\ nodes = AllNodes /\ Shape /\ chains = {} /\ NodeFacts
      /\ IsFiniteSet(nodes) /\ IsFiniteSet(arcs)
      /\ \A a \in arcs : IsArc(a) /\ IsProper(a)
  BY <1>1, NodesAreTwins DEF GInv, TypeOK, Stage, Proper
<1>3. /\ \A a \in arcs : TwinArc(a) \in arcs
      /\ \A n \in nodes : Twin(n) \in nodes
  BY <1>1, <1>2, PairedAlone DEF Twinned
<1> PICK inside, Cs : inside = ChainNodes /\ Cs = Chains(inside)
  OBVIOUS
<1>4. inside \in SUBSET nodes /\ \A n \in inside : Twin(n) \in inside
  <2>1. \A n \in ChainNodes : n \in nodes
    BY DEF ChainNodes
  <2>2. \A n \in ChainNodes : Twin(n) \in ChainNodes
    BY <1>2, <1>3, TwinsOfInside
  <2> QED
    BY <2>1, <2>2
<1>5. \A C \in Cs : TwinSet(C) \in Cs
  BY <1>2, <1>3, <1>4, TwinsOfChains
<1>6. chains' = Cs /\ HalfLeft' = {}
  BY <1>1, <1>5 DEF HalfLeft, TwinSet, Twin
<1>7. Paired'
  BY <1>1, <1>3, <1>6 DEF Paired, TwinArc, Twin
<1>8. ASSUME type = "STATION", NEW C \in Cs PROVE IsForced(C)'
  <2>1. TurnPlan(arcs)
    BY <1>1, <1>8 DEF Planned
  <2>2. GoodChains(Cs)
    <3>1. \A n \in inside : /\ n \in nodes /\ OneInOneOut(n)
                            /\ \A a \in arcs : a.from = n \/ a.to = n => IsHop(a)
      BY <1>2, InsideFacts
    <3> QED
      BY <1>2, <3>1, ComponentsOfChains
  <2>3. ChainGraph
    BY <1>2 DEF ChainGraph, GInv
  <2>4. IsForced(C)
    BY <1>2, <2>1, <2>2, <2>3, ChainsAreForced
  <2>5. FirstArc(C)' = FirstArc(C) /\ LastArc(C)' = LastArc(C)
    BY <1>1 DEF FirstArc, LastArc, ArcsOf
  <2> QED
    BY <1>1, <2>4, <2>5 DEF IsForced, InEdges
<1> QED
  BY <1>1, <1>6, <1>7, <1>8 DEF Twinned

LEMMA RemovalKeepsTwins ==
  ASSUME GInv, Proper, Twinned, RemoveChain
  PROVE  Twinned'
<1>1. PICK C \in chains :
        /\ phase = "removing" /\ chains' = chains \ {C}
        /\ IF Removable(C)
           THEN arcs' = (arcs \ ArcsOf(C)) \cup {NewArc(C)} /\ nodes' = nodes \ C
           ELSE UNCHANGED <<arcs, nodes>>
        /\ UNCHANGED <<lines, type>>
  BY DEF RemoveChain, input
<1>2. ChainGraph
  BY DEF GInv, TypeOK, Proper, ChainGraph
<1>3. Paired /\ (type = "STATION" => \A E \in chains : IsForced(E))
  BY <1>1 DEF Twinned
<1>4. arcs' = (arcs \ ArcsOf(C)) \cup {NewArc(C)} /\ nodes' = nodes \ C
  BY <1>1, <1>3 DEF Removable
<1>5. Paired'
  BY <1>1, <1>2, <1>3, <1>4, StepOfPairs
<1>6. type = "STATION" => \A E \in chains \ {C} : IsForced(E)'
  BY <1>2, <1>3, <1>4, StaysForced
<1> QED
  BY <1>1, <1>5, <1>6 DEF Twinned

LEMMA NextTwinned ==
  ASSUME GInv, Proper, Planned, Twinned, [Next]_vars
  PROVE  Twinned'
<1>1. CASE RemoveFromStations \/ CheckConnectivity \/ UNCHANGED vars
  <2>1. /\ UNCHANGED <<type, nodes, arcs, chains>>
        /\ phase' = phase \/ phase \in {"removing", "check"}
    BY <1>1 DEF RemoveFromStations, CheckConnectivity, vars, input
  <2>2. (Paired' <=> Paired) /\ \A C : IsForced(C)' <=> IsForced(C)
    BY <2>1, SameTwins
  <2> QED
    BY <2>1, <2>2 DEF Twinned
<1>2. CASE phase' \in {"switching", "connections"}
  BY <1>2 DEF Twinned
<1>3. CASE \/ CreateNodesAndTravelArcs
           \/ AddAllSwitchingArcs \/ AddSwitchingArcsAtTerminals \/ AddStationProblemSwitchingArcs
  BY <1>2, <1>3 DEF CreateNodesAndTravelArcs, AddAllSwitchingArcs, AddSwitchingArcsAtTerminals,
                    AddStationProblemSwitchingArcs, AddSwitchingArcs
<1> QED
  BY <1>1, <1>3, ConnectionsAreTwins, ChainsAreTwins, RemovalKeepsTwins DEF Next

GraphInv == GInv /\ Proper /\ Planned /\ Twinned /\ Returns

LEMMA TwinInductive ==
  ASSUME LinesHaveTwoStops
  PROVE  Spec => []GraphInv
<1>1. Init => Proper /\ Planned /\ Twinned /\ Returns
  BY DEF Init, Proper, Planned, Twinned, Returns
<1>2. GInv /\ Proper /\ Planned /\ Twinned /\ Returns /\ [Next]_vars
        => Proper' /\ Planned' /\ Twinned' /\ Returns'
  BY NextProper, NextPlanned, NextTwinned, NextReturns
<1> QED
  BY <1>1, <1>2, GraphInductive, PTL DEF Spec, GraphInv

(* Where every set that is closed is closed backwards, all nodes of a      *)
(* connected graph can be reached from each of them.                       *)
LEMMA ReturningReaches ==
  ASSUME IsFiniteSet(nodes), \A a \in arcs : IsArc(a) /\ IsProper(a), Returning(arcs), IsConnected,
         NEW n \in nodes
  PROVE  Reach(arcs, {n}) = nodes
<1> DEFINE links == Undirected(arcs)
           T == Reach(arcs, {n})
<1>1. PICK m \in nodes : Reach(links, {m}) = nodes
  BY DEF IsConnected
<1>2. n \in T /\ T \subseteq nodes /\ Closed(arcs, T)
  BY ReachFacts DEF IsArc
<1> HIDE DEF T
<1>3. \A a \in arcs : a.from \in T <=> a.to \in T
  BY <1>2 DEF Returning, Closed
<1>4. \A a \in arcs : Reversed(a).from = a.to /\ Reversed(a).to = a.from
  BY ReversedArc
<1>5. \A S : (\A a \in arcs : a.from \in S <=> a.to \in S) => Closed(links, S)
  BY <1>4 DEF Closed, Undirected
<1>6. \A a \in links : a.to \in nodes
  BY <1>4 DEF Undirected, IsArc
<1> HIDE DEF links
<1>7. /\ m \in Reach(links, {m})
      /\ \A S : m \in S /\ Closed(links, S) => Reach(links, {m}) \subseteq S
  BY <1>6, ReachFacts
<1>8. m \in T
  <2>1. SUFFICES ASSUME m \notin T PROVE FALSE
    OBVIOUS
  <2>2. Closed(links, nodes \ T)
    <3>1. \A a \in arcs : a.from \in nodes \ T <=> a.to \in nodes \ T
      BY <1>3 DEF IsArc
    <3> QED
      BY <1>5, <3>1
  <2>3. nodes \subseteq nodes \ T
    BY <1>1, <1>7, <2>1, <2>2
  <2> QED
    BY <1>2, <2>3
<1>9. nodes \subseteq T
  BY <1>1, <1>3, <1>5, <1>7, <1>8
<1> QED
  BY <1>2, <1>9 DEF T

(* Reversing all lines gives the same graph, for every network: turns and  *)
(* changes are added in both directions, a chain lies on one direction of  *)
(* a line and its twin is a chain too, and in whatever order they are      *)
(* removed, none is kept by the test of the station problem.               *)
THEOREM GraphIsItsTwin ==
  ASSUME LinesHaveTwoStops
  PROVE  Spec => []TwinOfItself
<1>1. GraphInv => TwinOfItself
  <2> SUFFICES ASSUME GraphInv, phase = "built"
               PROVE  /\ {Twin(n) : n \in nodes} = nodes
                      /\ {TwinArc(a) : a \in arcs} = arcs
    BY DEF TwinOfItself, TwinArc
  <2>1. /\ lines \in LineMaps /\ TwoStops /\ nodes \subseteq AllNodes /\ chains = {} /\ Paired
        /\ \A a \in arcs : IsArc(a) /\ IsProper(a)
    BY DEF GraphInv, GInv, TypeOK, Stage, Proper, Twinned
  <2>2. NodeFacts
    BY <2>1, NodesAreTwins
  <2>3. /\ \A a \in arcs : TwinArc(a) \in arcs
        /\ \A n \in nodes : Twin(n) \in nodes
    BY <2>1, PairedAlone
  <2>4. \A n \in nodes : Twin(Twin(n)) = n
    BY <2>1, <2>2 DEF NodeFacts
  <2>5. \A a \in arcs : TwinArc(TwinArc(a)) = a
    BY <2>1, <2>2, TwinTwice DEF IsArc
  <2> QED
    BY <2>3, <2>4, <2>5
<1> QED
  BY <1>1, TwinInductive, PTL

(* The connectivity check of the constructor ignores directions, and that  *)
(* is enough for every network: a graph that passes it has a way from      *)
(* every node to every other one, also after chains were replaced by arcs. *)
THEOREM GraphIsStronglyConnected ==
  ASSUME LinesHaveTwoStops
  PROVE  Spec => []StronglyConnected
<1>1. GraphInv => StronglyConnected
  <2> SUFFICES ASSUME GraphInv, phase = "built", NEW n \in nodes
               PROVE  Reach(arcs, {n}) = nodes
    BY DEF StronglyConnected
  <2> QED
    BY ReturningReaches DEF GraphInv, GInv, TypeOK, Proper, Returns
<1> QED
  BY <1>1, TwinInductive, PTL

-----------------------------------------------------------------------------
(* All connection arcs: where a tour may turn, and where it may change.    *)

(* A tour may turn at n, as it comes before a change that lies ahead. *)
TurnsAt(n) == IsConnecting(StationOfNode(NextStop(n))) /\ Preceded(n)

MayTurn(n) ==
  \/ ~preprocess
  \/ type = "SEGMENT" /\ ~Departing(n)
  \/ /\ type = "STATION" /\ ~IsConnecting(StationOfNode(n))
     /\ Departing(n) => Arriving(n) /\ TurnsAt(n)

Connections ==
  phase \notin {"nodes", "switching"} =>
    /\ \A a \in arcs : a.connection =>
         \/ IsTurn(a) /\ MayTurn(a.from)
         \/ IsChange(a) /\ phase # "connections"
    /\ \A n \in AllNodes : MayTurn(n) => Change(n, Twin(n), switch_cost) \in arcs
    /\ phase # "connections" => ChangeFacts(arcs)

LEMMA TurnsAreAllowed ==
  ASSUME lines \in LineMaps, TwoStops, NEW B,
         \/ B = UNION {AllTurns(l) : l \in DOMAIN lines} /\ ~preprocess
         \/ B = UNION {TerminalTurns(l) : l \in DOMAIN lines} /\ type = "SEGMENT" /\ preprocess
         \/ B = UNION {StationProblemTurns(l) : l \in DOMAIN lines} /\ type = "STATION" /\ preprocess
  PROVE  /\ \A a \in B : IsTurn(a) /\ MayTurn(a.from)
         /\ \A n \in AllNodes : MayTurn(n) => Change(n, Twin(n), switch_cost) \in B
<1>1. NodeFacts /\ \A a \in B : IsTurn(a)
  BY NodesAreTwins, AddedTurns
<1>2. CASE B = UNION {AllTurns(l) : l \in DOMAIN lines} /\ ~preprocess
  <2>1. ASSUME NEW n \in AllNodes PROVE Change(n, Twin(n), switch_cost) \in B
    <3> PICK l, i : l = n[1] /\ i = n[3]
      OBVIOUS
    <3>1. /\ l \in DOMAIN lines /\ i \in Stops(l)
          /\ (n = Way(l, i) /\ n[2] = "way") \/ (n = Back(l, i) /\ n[2] = "back")
      BY NodeParts
    <3>2. \/ Change(n, Twin(n), switch_cost) = TurnBack(l, i)
          \/ Change(n, Twin(n), switch_cost) = TurnAround(l, i)
      BY <3>1 DEF TurnBack, TurnAround, Twin, Way, Back
    <3>3. TurnBack(l, i) \in B /\ TurnAround(l, i) \in B
      BY <1>2, <3>1 DEF AllTurns
    <3> QED
      BY <3>2, <3>3
  <2> QED
    BY <1>1, <1>2, <2>1 DEF MayTurn
<1>3. CASE B = UNION {TerminalTurns(l) : l \in DOMAIN lines} /\ type = "SEGMENT" /\ preprocess
  <2>1. ASSUME NEW a \in B PROVE MayTurn(a.from)
    <3>1. PICK l \in DOMAIN lines : \E i \in Stops(l) : IsTerminal(l, i) /\ a = TurnAtTerminal(l, i)
      BY <1>3, <2>1 DEF TerminalTurns
    <3>2. ~Departing(a.from)
      BY <3>1, TerminalTurnFacts
    <3> QED
      BY <1>3, <3>2 DEF MayTurn
  <2>2. ASSUME NEW n \in AllNodes, MayTurn(n) PROVE Change(n, Twin(n), switch_cost) \in B
    <3>1. Arriving(n) /\ ~Departing(n)
      BY <1>1, <1>3, <2>2 DEF MayTurn, NodeFacts
    <3>2. PICK l \in DOMAIN lines : \E i \in Stops(l) :
            IsTerminal(l, i) /\ TurnAtTerminal(l, i) = Change(n, Twin(n), switch_cost)
      BY <3>1, TerminalTurnFacts
    <3>3. Change(n, Twin(n), switch_cost) \in TerminalTurns(l)
      BY <3>2 DEF TerminalTurns
    <3> QED
      BY <1>3, <3>3
  <2> QED
    BY <1>1, <2>1, <2>2
<1>4. CASE B = UNION {StationProblemTurns(l) : l \in DOMAIN lines} /\ type = "STATION" /\ preprocess
  <2>1. TurnPlan(B) /\ TurnFacts(B) /\ \A a \in B : IsPlannedTurn(a)
    BY <1>4, AddedTurnPlan, AddedTurns
  <2>2. ASSUME NEW a \in B PROVE MayTurn(a.from)
    <3>1. /\ a.from \in AllNodes /\ a = Change(a.from, Twin(a.from), switch_cost)
          /\ Arriving(a.from) /\ ~IsConnecting(StationOfNode(a.from))
      BY <1>4, <2>1 DEF IsPlannedTurn, IsTurn
    <3>2. Departing(a.from) => TurnsAt(a.from)
      BY <2>1, <3>1 DEF TurnPlan, TurnsAt
    <3> QED
      BY <1>4, <3>1, <3>2 DEF MayTurn
  <2>3. ASSUME NEW n \in AllNodes, MayTurn(n) PROVE Change(n, Twin(n), switch_cost) \in B
    <3>1. ~IsConnecting(StationOfNode(n)) /\ (Departing(n) => Arriving(n) /\ TurnsAt(n))
      BY <1>4, <2>3 DEF MayTurn
    <3>2. CASE Departing(n)
      BY <2>1, <3>1, <3>2 DEF TurnPlan, TurnsAt
    <3>3. CASE ~Departing(n)
      BY <1>1, <2>1, <3>1, <3>3 DEF TurnFacts, NodeFacts
    <3> QED
      BY <3>2, <3>3
  <2> QED
    BY <1>1, <2>2, <2>3
<1> QED
  BY <1>2, <1>3, <1>4

LEMMA SameDecisions ==
  ASSUME UNCHANGED <<lines, type, preprocess>>
  PROVE  \A n : /\ MayTurn(n)' <=> MayTurn(n)
                /\ TurnsAt(n)' <=> TurnsAt(n)
                /\ StationOfNode(n)' = StationOfNode(n) /\ Place(n)' = Place(n)
<1>1. \A n : Place(n)' = Place(n)
  BY DEF Place, LastStop
<1>2. \A n : Preceded(n)' <=> Preceded(n)
  BY <1>1, SameLines DEF Preceded, SameCourse
<1>3. \A n : IsConnecting(StationOfNode(NextStop(n)))' <=> IsConnecting(StationOfNode(NextStop(n)))
  BY SameLines DEF NextStop, Way, Back
<1>4. \A n : TurnsAt(n)' <=> TurnsAt(n)
  BY <1>2, <1>3 DEF TurnsAt
<1> QED
  BY <1>1, <1>4, SameLines DEF MayTurn, StationOfNode, StationAt

LEMMA NextConnections ==
  ASSUME GInv, Connections, [Next]_vars
  PROVE  Connections'
<1>1. lines \in LineMaps /\ TwoStops /\ type \in {"STATION", "SEGMENT"}
  BY DEF GInv, TypeOK
<1>2. UNCHANGED <<lines, type, preprocess>>
  BY DEF Next, vars, input, CreateNodesAndTravelArcs, AddAllSwitchingArcs,
         AddSwitchingArcsAtTerminals, AddStationProblemSwitchingArcs, AddSwitchingArcs,
         AddAllConnectionArcs, ComputeDegree2Chains, RemoveChain, RemoveFromStations,
         CheckConnectivity
<1>3. SUFFICES ASSUME phase' \notin {"nodes", "switching"}
               PROVE  /\ \A a \in arcs' : a.connection =>
                           \/ IsTurn(a) /\ MayTurn(a.from)
                           \/ IsChange(a) /\ phase' # "connections"
                      /\ \A n \in AllNodes : MayTurn(n) => Change(n, Twin(n), switch_cost) \in arcs'
                      /\ phase' # "connections" => ChangeFacts(arcs')
  BY <1>2, SameLines, SameFacts, SameDecisions DEF Connections, Change, Twin
<1>4. CASE AddAllSwitchingArcs \/ AddSwitchingArcsAtTerminals \/ AddStationProblemSwitchingArcs
  <2>1. PICK B :
          /\ \/ B = UNION {AllTurns(l) : l \in DOMAIN lines} /\ ~preprocess
             \/ B = UNION {TerminalTurns(l) : l \in DOMAIN lines} /\ type = "SEGMENT" /\ preprocess
             \/ B = UNION {StationProblemTurns(l) : l \in DOMAIN lines}
                  /\ type = "STATION" /\ preprocess
          /\ arcs' = arcs \cup B
          /\ phase = "switching" /\ phase' = "connections"
    BY <1>4 DEF AddAllSwitchingArcs, AddSwitchingArcsAtTerminals, AddStationProblemSwitchingArcs,
                AddSwitchingArcs
  <2>2. \A a \in arcs : ~a.connection
    BY <2>1 DEF GInv, Stage
  <2>3. /\ \A a \in B : IsTurn(a) /\ MayTurn(a.from)
        /\ \A n \in AllNodes : MayTurn(n) => Change(n, Twin(n), switch_cost) \in B
    BY <1>1, <2>1, TurnsAreAllowed
  <2> QED
    BY <2>1, <2>2, <2>3
<1>5. CASE AddAllConnectionArcs
  <2>1. PICK B : /\ B = UNION {ConnectionArcs(s) : s \in StationNames} /\ arcs' = arcs \cup B
                 /\ phase = "connections" /\ phase' # "connections"
    BY <1>5 DEF AddAllConnectionArcs
  <2>2. RideFacts(arcs)
    BY <2>1 DEF GInv, Stage
  <2>3. (\A a \in B : IsChange(a)) /\ ChangeFacts(B)
    BY <1>1, <2>1, <2>2, AddedChanges
  <2> QED
    BY <2>1, <2>3 DEF Connections, ChangeFacts
<1>6. CASE RemoveChain
  <2>1. PICK C \in chains :
          /\ phase = "removing" /\ phase' = "removing"
          /\ arcs' = (arcs \ ArcsOf(C)) \cup {NewArc(C)} \/ arcs' = arcs
    BY <1>6 DEF RemoveChain
  <2>2. \A a \in ArcsOf(C) \cup {NewArc(C)} : ~a.connection
    BY DEF GInv, GoodChains, IsHop, NewArc, Travel
  <2>3. \A a : a.connection => (a \in arcs' <=> a \in arcs)
    BY <2>1, <2>2
  <2>4. \A u, v, c : Change(u, v, c).connection
    BY DEF Change
  <2> QED
    BY <2>1, <2>3, <2>4 DEF Connections, ChangeFacts
<1>7. CASE \/ UNCHANGED vars
           \/ ComputeDegree2Chains \/ RemoveFromStations \/ CheckConnectivity
  <2>1. /\ UNCHANGED arcs
        /\ \/ phase' = phase
           \/ (phase' # "connections" /\ phase \in {"chains", "removing", "check"})
    <3>1. CASE UNCHANGED vars
      BY <3>1 DEF vars
    <3>2. CASE ComputeDegree2Chains \/ RemoveFromStations \/ CheckConnectivity
      BY <3>2 DEF ComputeDegree2Chains, RemoveFromStations, CheckConnectivity
    <3> QED
      BY <1>7, <3>1, <3>2
  <2> QED
    BY <1>3, <2>1 DEF Connections
<1>8. CASE CreateNodesAndTravelArcs
  BY <1>3, <1>8 DEF CreateNodesAndTravelArcs
<1> QED
  BY <1>4, <1>5, <1>6, <1>7, <1>8 DEF Next

-----------------------------------------------------------------------------
(* Which nodes are left in the station problem, and that whoever visits    *)
(* the stop behind a removed one has come past it.                         *)

LEMMA StopAfter ==
  ASSUME lines \in LineMaps, NEW n \in AllNodes, Departing(n)
  PROVE  /\ NextStop(n) \in AllNodes /\ Arriving(NextStop(n)) /\ SameCourse(n, NextStop(n))
         /\ Place(NextStop(n)) = Place(n) + 1
         /\ NextStop(Twin(NextStop(n))) = Twin(n)
<1>1. /\ IsHop(RideFrom(n)) /\ RideFrom(n).from = n /\ RideFrom(n).to = NextStop(n)
      /\ NextStop(n) \in AllNodes /\ Arriving(NextStop(n))
  BY RideOfNode DEF IsHop
<1>2. SameCourse(n, NextStop(n)) /\ Place(NextStop(n)) = Place(n) + 1
  BY <1>1, HopCourse, PlaceFacts
<1>3. NextStop(Twin(NextStop(n))) = Twin(n)
  <2>1. IsProper(RideFrom(n)) /\ IsHop(TwinArc(RideFrom(n)))
    BY <1>1, TwinHop
  <2>2. TwinArc(RideFrom(n)).from = Twin(NextStop(n)) /\ TwinArc(RideFrom(n)).to = Twin(n)
    BY <1>1, <2>1, TwinRecord
  <2> QED
    BY <2>1, <2>2 DEF IsHop
<1> QED
  BY <1>1, <1>2, <1>3

LEMMA StopBefore ==
  ASSUME lines \in LineMaps, NodeFacts, NEW n \in AllNodes, Arriving(n)
  PROVE  \E p \in AllNodes :
           /\ Departing(p) /\ NextStop(p) = n /\ SameCourse(p, n) /\ Place(n) = Place(p) + 1
           /\ StationOfNode(NextStop(Twin(n))) = StationOfNode(p)
<1>1. PICK p \in AllNodes : Departing(p) /\ NextStop(p) = n
  BY PreviousNode
<1>2. SameCourse(p, n) /\ Place(n) = Place(p) + 1 /\ NextStop(Twin(n)) = Twin(p)
  BY <1>1, StopAfter
<1>3. StationOfNode(Twin(p)) = StationOfNode(p)
  BY DEF NodeFacts, SameStation
<1> QED
  BY <1>1, <1>2, <1>3

LEMMA InnerOfCourse ==
  ASSUME lines \in LineMaps, NEW n \in AllNodes, NEW m \in AllNodes,
         SameCourse(n, m), Place(n) < Place(m)
  PROVE  Departing(n) /\ Arriving(m)
<1> PICK l, i, j : l = n[1] /\ i = n[3] /\ j = m[3]
  OBVIOUS
<1>1. l \in DOMAIN lines /\ m[1] = l /\ m[2] = n[2] /\ i \in Stops(l) /\ j \in Stops(l)
      /\ n[2] \in {"way", "back"}
  BY NodeParts DEF SameCourse
<1>2. LastStop(l) \in Nat /\ i \in 1..LastStop(l) /\ j \in 1..LastStop(l)
  BY <1>1, LineFacts
<1> QED
  BY <1>1, <1>2 DEF Place, Departing, Arriving

LEMMA CourseEnd ==
  ASSUME lines \in LineMaps, NEW n \in AllNodes
  PROVE  \E e \in AllNodes : SameCourse(n, e) /\ ~Departing(e)
<1> PICK l : l = n[1]
  OBVIOUS
<1>1. l \in DOMAIN lines /\ n[2] \in {"way", "back"}
  BY NodeParts
<1>2. LastStop(l) \in Nat /\ 1 \in Stops(l) /\ LastStop(l) \in Stops(l)
  BY <1>1, LineFacts
<1>3. CASE n[2] = "way"
  <2>1. Way(l, LastStop(l)) \in AllNodes
    BY <1>1, <1>2, WayAndBack
  <2>2. SameCourse(n, Way(l, LastStop(l))) /\ ~Departing(Way(l, LastStop(l)))
    BY <1>2, <1>3 DEF SameCourse, Departing, Way
  <2> QED
    BY <2>1, <2>2
<1>4. CASE n[2] = "back"
  <2>1. Back(l, 1) \in AllNodes
    BY <1>1, <1>2, WayAndBack
  <2>2. SameCourse(n, Back(l, 1)) /\ ~Departing(Back(l, 1))
    BY <1>4 DEF SameCourse, Departing, Back
  <2> QED
    BY <2>1, <2>2
<1> QED
  BY <1>1, <1>3, <1>4

(* Nothing can be decided at n: neither to change nor to turn. *)
Undecided(n) ==
  /\ preprocess /\ Arriving(n) /\ Departing(n) /\ ~IsConnecting(StationOfNode(n))
  /\ type = "STATION" => ~TurnsAt(n) /\ ~TurnsAt(Twin(n))

(* Only nodes without a decision go, and all of them do. *)
Remaining ==
  /\ phase # "nodes" => \A n \in AllNodes \ nodes : Undecided(n)
  /\ phase \in {"removing", "check", "built", "thrown"} =>
       \A n \in nodes : Undecided(n) <=> \E C \in chains : n \in C

RunsAhead(a) == a.name = a.from[1] /\ SameCourse(a.from, a.to) /\ Place(a.from) < Place(a.to)

Forward == \A a \in arcs : ~a.connection => RunsAhead(a)

(* The nodes of a graph are listed at their stations. *)
Listed ==
  phase # "nodes" =>
    \A n \in nodes : /\ StationOfNode(n) \in DOMAIN station_nodes
                     /\ n \in station_nodes[StationOfNode(n)]

(* All arcs that come in at x are rides past the removed stop m. *)
LEMMA ComesPast ==
  ASSUME lines \in LineMaps, NodeFacts, TurnPlan(arcs), Forward,
         \A a \in arcs : a.from \in nodes /\ a.from \in AllNodes,
         \A a \in arcs : a.connection => IsPlannedTurn(a) \/ IsChange(a),
         \A n \in nodes : ~Undecided(n), preprocess,
         NEW m \in AllNodes, m \notin nodes, NEW x \in AllNodes,
         SameCourse(m, x), Place(m) < Place(x),
         \A k \in AllNodes : SameCourse(m, k) /\ Place(m) <= Place(k) /\ Place(k) <= Place(x)
                              => ~IsConnecting(StationOfNode(k)),
         NEW a \in arcs, a.to = x
  PROVE  a \in Passing(StationOfNode(m))
<1>1. \A n \in AllNodes : Place(n) \in Nat
  BY PlaceFacts
<1>2. ASSUME NEW k \in AllNodes, SameCourse(m, k), Place(m) < Place(k), Place(k) <= Place(x)
      PROVE  Arriving(k) /\ ~IsConnecting(StationOfNode(k)) /\ ~TurnsAt(Twin(k))
  <2>1. Arriving(k) /\ ~IsConnecting(StationOfNode(k))
    BY <1>1, <1>2, InnerOfCourse
  <2>2. PICK p \in AllNodes : /\ SameCourse(p, k) /\ Place(k) = Place(p) + 1
                              /\ StationOfNode(NextStop(Twin(k))) = StationOfNode(p)
    BY <2>1, StopBefore
  <2>3. SameCourse(m, p) /\ Place(m) <= Place(p) /\ Place(p) <= Place(x)
    BY <1>1, <1>2, <2>2 DEF SameCourse
  <2> QED
    BY <2>1, <2>2, <2>3 DEF TurnsAt
<1>3. ~a.connection
  <2>1. SUFFICES ASSUME a.connection PROVE FALSE
    OBVIOUS
  <2>2. Arriving(x) /\ ~IsConnecting(StationOfNode(x)) /\ ~TurnsAt(Twin(x))
    BY <1>1, <1>2
  <2>3. IsPlannedTurn(a)
    BY <2>1, <2>2, ChangeMeets
  <2>4. /\ a.from = Twin(x) /\ a = Change(Twin(x), Twin(Twin(x)), switch_cost)
        /\ Arriving(Twin(x)) /\ Departing(Twin(x)) /\ Twin(x) \in AllNodes
    BY <2>2, <2>3 DEF IsPlannedTurn, IsTurn, NodeFacts
  <2> QED
    BY <2>2, <2>4 DEF TurnPlan, TurnsAt
<1> PICK f : f = a.from
  OBVIOUS
<1>4. /\ f \in AllNodes /\ f \in nodes /\ SameCourse(f, x) /\ Place(f) < Place(x) /\ a.name = f[1]
  BY <1>3 DEF Forward, RunsAhead
<1>5. SameCourse(m, f) /\ Place(m) \in Nat /\ Place(f) \in Nat /\ Place(x) \in Nat
  BY <1>1, <1>4 DEF SameCourse
<1>6. Place(f) # Place(m)
  BY <1>4, <1>5, PlaceInjective
<1>7. ~(Place(m) < Place(f))
  <2>1. SUFFICES ASSUME Place(m) < Place(f) PROVE Undecided(f)
    BY <1>4
  <2>2. Arriving(f) /\ ~IsConnecting(StationOfNode(f)) /\ ~TurnsAt(Twin(f))
    BY <1>2, <1>4, <1>5, <2>1
  <2>3. Departing(f)
    BY <1>4, InnerOfCourse
  <2>4. ~IsConnecting(StationOfNode(NextStop(f)))
    <3>1. /\ NextStop(f) \in AllNodes /\ SameCourse(f, NextStop(f))
          /\ Place(NextStop(f)) = Place(f) + 1
      BY <1>4, <2>3, StopAfter
    <3>2. /\ SameCourse(m, NextStop(f)) /\ Place(m) <= Place(NextStop(f))
          /\ Place(NextStop(f)) <= Place(x)
      BY <1>4, <1>5, <2>1, <3>1 DEF SameCourse
    <3> QED
      BY <3>1, <3>2
  <2> QED
    BY <2>2, <2>3, <2>4 DEF Undecided, TurnsAt
<1>8. Place(f) < Place(m)
  BY <1>5, <1>6, <1>7
<1> PICK l, i, j, k : l = m[1] /\ i = f[3] /\ j = m[3] /\ k = x[3]
  OBVIOUS
<1>9. /\ l \in DOMAIN lines /\ f[1] = l /\ x[1] = l /\ f[2] = m[2] /\ x[2] = m[2]
      /\ i \in Stops(l) /\ j \in Stops(l) /\ k \in Stops(l) /\ m[2] \in {"way", "back"}
  BY <1>4, <1>5, NodeParts DEF SameCourse
<1>10. LastStop(l) \in Nat /\ i \in Nat /\ j \in Nat /\ k \in Nat
  BY <1>9, LineFacts
<1>11. (i < j /\ j < k) \/ (k < j /\ j < i)
  BY <1>4, <1>8, <1>9, <1>10 DEF Place
<1> QED
  BY <1>3, <1>4, <1>9, <1>11 DEF Passing, StationOfNode

LEMMA TwinBehind ==
  ASSUME lines \in LineMaps, NEW n \in AllNodes, NEW k \in AllNodes,
         SameCourse(Twin(n), k), Place(Twin(n)) < Place(k)
  PROVE  SameCourse(Twin(k), n) /\ Place(Twin(k)) < Place(n)
<1> PICK l, i, j : l = n[1] /\ i = n[3] /\ j = k[3]
  OBVIOUS
<1>1. l \in DOMAIN lines /\ k[1] = l /\ i \in Stops(l) /\ j \in Stops(l)
      /\ n[2] \in {"way", "back"} /\ k[2] = Twin(n)[2]
  BY NodeParts DEF SameCourse, Twin
<1>2. LastStop(l) \in Nat /\ i \in Nat /\ j \in Nat
  BY <1>1, LineFacts
<1> QED
  BY <1>1, <1>2 DEF Place, Twin, SameCourse

(* Behind a removed stop there is one that a tour has to come to. *)
LEMMA StopBehind ==
  ASSUME lines \in LineMaps, NodeFacts, type = "STATION", NEW m \in AllNodes, Undecided(m),
         \/ Preceded(m)
         \/ \A k \in AllNodes : SameCourse(m, k) /\ Place(m) < Place(k)
                                 => ~IsConnecting(StationOfNode(k))
  PROVE  \E x \in AllNodes :
           /\ SameCourse(m, x) /\ Place(m) < Place(x)
           /\ \A k \in AllNodes : SameCourse(m, k) /\ Place(m) <= Place(k) /\ Place(k) <= Place(x)
                                   => ~IsConnecting(StationOfNode(k))
           /\ ~Undecided(x) /\ ~Undecided(Twin(x))
<1> DEFINE Ahead(k) == SameCourse(m, k) /\ Place(m) < Place(k) /\ IsConnecting(StationOfNode(k))
<1>1. \A n \in AllNodes : Place(n) \in Nat
  BY PlaceFacts
<1>2. Departing(m) /\ ~IsConnecting(StationOfNode(m)) /\ ~TurnsAt(m)
  BY DEF Undecided
<1>3. \A k \in AllNodes : SameCourse(m, k) /\ Place(m) = Place(k) => k = m
  BY PlaceInjective
<1>4. \A n \in AllNodes : /\ Twin(n) \in AllNodes /\ Twin(Twin(n)) = n
                          /\ Arriving(Twin(n)) <=> Departing(n)
  BY DEF NodeFacts
<1>5. CASE \E k \in AllNodes : Ahead(k)
  <2> DEFINE places == {Place(k) : k \in {n \in AllNodes : Ahead(n)}}
  <2>1. places \in SUBSET Nat /\ places # {}
    BY <1>1, <1>5
  <2>2. PICK p \in places : \A q \in places : p <= q
    <3> HIDE DEF places
    <3> QED
      BY <2>1, LeastNumber
  <2>3. PICK c \in AllNodes : Ahead(c) /\ \A k \in AllNodes : Ahead(k) => Place(c) <= Place(k)
    BY <2>2
  <2>4. Arriving(c)
    BY <2>3, InnerOfCourse
  <2>5. PICK x \in AllNodes : NextStop(x) = c /\ SameCourse(x, c) /\ Place(c) = Place(x) + 1
    BY <2>4, StopBefore
  <2>6. SameCourse(m, x) /\ Place(m) <= Place(x)
    BY <1>1, <2>3, <2>5 DEF SameCourse
  <2>7. Preceded(m)
    BY <1>5
  <2>8. Place(m) < Place(x)
    <3>1. x # m
      BY <1>2, <2>3, <2>5, <2>7 DEF TurnsAt
    <3> QED
      BY <1>1, <1>3, <2>6, <3>1
  <2>9. TurnsAt(x)
    <3>1. PICK k \in AllNodes : SameCourse(k, m) /\ Place(k) < Place(m)
                                /\ IsConnecting(StationOfNode(k))
      BY <2>7 DEF Preceded
    <3>2. SameCourse(k, x) /\ Place(k) < Place(x)
      BY <1>1, <2>6, <2>8, <3>1 DEF SameCourse
    <3> QED
      BY <2>3, <2>5, <3>1, <3>2 DEF TurnsAt, Preceded
  <2>10. ~Undecided(x) /\ ~Undecided(Twin(x))
    BY <1>4, <2>9 DEF Undecided
  <2>11. ASSUME NEW k \in AllNodes, SameCourse(m, k), Place(m) <= Place(k), Place(k) <= Place(x)
         PROVE  ~IsConnecting(StationOfNode(k))
    <3>1. CASE Place(k) = Place(m)
      BY <1>2, <1>3, <2>11, <3>1
    <3>2. CASE Place(m) < Place(k)
      BY <1>1, <2>3, <2>5, <2>11, <3>2
    <3> QED
      BY <1>1, <2>11, <3>1, <3>2
  <2> QED
    BY <2>6, <2>8, <2>10, <2>11
<1>6. CASE \A k \in AllNodes : ~Ahead(k)
  <2>1. PICK x \in AllNodes : SameCourse(m, x) /\ ~Departing(x)
    BY CourseEnd
  <2>2. Place(m) < Place(x)
    <3>1. ~(Place(x) < Place(m))
      BY <2>1, InnerOfCourse DEF SameCourse
    <3>2. Place(m) # Place(x)
      BY <1>2, <1>3, <2>1
    <3> QED
      BY <1>1, <3>1, <3>2
  <2>3. ~Undecided(x) /\ ~Undecided(Twin(x))
    BY <1>4, <2>1 DEF Undecided
  <2>4. ASSUME NEW k \in AllNodes, SameCourse(m, k), Place(m) <= Place(k)
        PROVE  ~IsConnecting(StationOfNode(k))
    <3>1. CASE Place(k) = Place(m)
      BY <1>2, <1>3, <2>4, <3>1
    <3>2. CASE Place(m) < Place(k)
      BY <1>6, <2>4, <3>2
    <3> QED
      BY <1>1, <2>4, <3>1, <3>2
  <2> QED
    BY <2>1, <2>2, <2>3, <2>4
<1> QED
  BY <1>5, <1>6

(* What no arc leads to, or leads away from, is not reached again. *)
LEMMA NoReturn ==
  ASSUME IsFiniteSet(nodes), \A a \in arcs : a.to \in nodes,
         NEW other \in SUBSET arcs, NEW n,
         (\A a \in other : a.to # n) \/ (\A a \in other : a.from # n)
  PROVE  n \notin Reach(other, {a.to : a \in OutEdges(n) \cap other})
<1> PICK S : S = {a.to : a \in OutEdges(n) \cap other}
  OBVIOUS
<1>1. S \in SUBSET nodes /\ \A a \in other : a.to \in nodes
  OBVIOUS
<1>2. \A T : S \subseteq T /\ Closed(other, T) => Reach(other, S) \subseteq T
  BY <1>1, ReachFacts
<1>3. CASE \A a \in other : a.to # n
  <2>1. S \subseteq nodes \ {n} /\ Closed(other, nodes \ {n})
    BY <1>1, <1>3 DEF Closed
  <2> QED
    BY <1>2, <2>1
<1>4. CASE \A a \in other : a.from # n
  <2>1. S \subseteq {} /\ Closed(other, {})
    BY <1>4 DEF Closed, OutEdges
  <2> QED
    BY <1>2, <2>1
<1> QED
  BY <1>3, <1>4

LEMMA PassingTwin ==
  ASSUME NEW s, NEW a \in arcs, IsProper(a), TwinArc(a) \in Passing(s)
  PROVE  a \in Passing(s)
<1>1. /\ TwinArc(a).from = Twin(a.to) /\ TwinArc(a).to = Twin(a.from)
      /\ TwinArc(a).name = a.name /\ TwinArc(a).connection = a.connection
  BY TwinRecord
<1>2. \A n : Twin(n)[3] = n[3]
  BY DEF Twin
<1>3. ~TwinArc(a).connection
  BY DEF Passing
<1>4. ~a.connection
  BY <1>1, <1>3, Zenon
<1> QED
  BY <1>1, <1>2, <1>4 DEF Passing

LEMMA RemovedAreVisited ==
  ASSUME GraphInv, Remaining, Forward, Listed, phase = "built", type = "STATION",
         NEW s \in StationNames \ DOMAIN station_nodes
  PROVE  \E t \in DOMAIN station_nodes : \E other \in {arcs \ Passing(s)} :
           \A n \in station_nodes[t] :
             n \notin Reach(other, {a.to : a \in OutEdges(n) \cap other})
<1>1. /\ lines \in LineMaps /\ TwoStops /\ nodes \subseteq AllNodes /\ chains = {} /\ IsFiniteSet(nodes)
      /\ \A a \in arcs : IsArc(a) /\ IsProper(a)
      /\ \A t \in DOMAIN station_nodes : station_nodes[t] \subseteq NodesAt(t)
  BY DEF GraphInv, GInv, TypeOK, Stage, Proper
<1>2. NodeFacts
  BY <1>1, NodesAreTwins
<1>3. \A a \in arcs : TwinArc(a) \in arcs
  BY <1>1, PairedAlone DEF GraphInv, Twinned
<1>4. /\ \A n \in AllNodes \ nodes : Undecided(n)
      /\ \A n \in nodes : ~Undecided(n)
  BY <1>1 DEF Remaining
<1>5. \A n \in nodes : StationOfNode(n) \in DOMAIN station_nodes
  BY DEF Listed
<1>6. PICK m0 \in AllNodes : StationOfNode(m0) = s
  <2>1. PICK l \in DOMAIN lines : \E i \in Stops(l) : s = StationAt(l, i)
    BY DEF StationNames, StationAt, Stops, ToSet
  <2> PICK i \in Stops(l) : s = StationAt(l, i)
    BY <2>1
  <2>2. Way(l, i) \in AllNodes /\ StationOfNode(Way(l, i)) = s
    BY WayAndBack DEF StationOfNode, Way
  <2> QED
    BY <2>2
<1>7. /\ Twin(m0) \in AllNodes /\ StationOfNode(Twin(m0)) = s
      /\ m0 \notin nodes /\ Twin(m0) \notin nodes /\ Undecided(m0) /\ Undecided(Twin(m0))
  BY <1>2, <1>4, <1>5, <1>6 DEF NodeFacts, SameStation
<1>8. PICK m \in AllNodes :
        /\ StationOfNode(m) = s /\ m \notin nodes /\ Undecided(m)
        /\ \/ Preceded(m)
           \/ \A k \in AllNodes : SameCourse(m, k) /\ Place(m) < Place(k)
                                   => ~IsConnecting(StationOfNode(k))
  <2>1. CASE Preceded(m0)
    BY <1>6, <1>7, <2>1
  <2>2. CASE ~Preceded(m0)
    <3>1. ASSUME NEW k \in AllNodes, SameCourse(Twin(m0), k), Place(Twin(m0)) < Place(k)
          PROVE  ~IsConnecting(StationOfNode(k))
      <4>1. SameCourse(Twin(k), m0) /\ Place(Twin(k)) < Place(m0)
        BY <1>1, <3>1, TwinBehind
      <4>2. Twin(k) \in AllNodes /\ StationOfNode(Twin(k)) = StationOfNode(k)
        BY <1>2 DEF NodeFacts, SameStation
      <4> QED
        BY <2>2, <4>1, <4>2 DEF Preceded
    <3> QED
      BY <1>7, <3>1
  <2> QED
    BY <2>1, <2>2
<1>9. PICK x \in AllNodes :
        /\ SameCourse(m, x) /\ Place(m) < Place(x)
        /\ \A k \in AllNodes : SameCourse(m, k) /\ Place(m) <= Place(k) /\ Place(k) <= Place(x)
                                => ~IsConnecting(StationOfNode(k))
        /\ ~Undecided(x) /\ ~Undecided(Twin(x))
  BY <1>1, <1>2, <1>8, StopBehind
<1>10. /\ Twin(x) \in AllNodes /\ Twin(Twin(x)) = x /\ x \in nodes /\ Twin(x) \in nodes
  BY <1>2, <1>4, <1>9 DEF NodeFacts
<1>11. \A a \in arcs : a.to = x => a \in Passing(s)
  <2>1. preprocess
    BY <1>8 DEF Undecided
  <2>2. TurnPlan(arcs) /\ \A a \in arcs : a.connection => IsPlannedTurn(a) \/ IsChange(a)
    BY <2>1 DEF GraphInv, Planned
  <2>3. \A a \in arcs : a.from \in nodes /\ a.from \in AllNodes
    BY <1>1 DEF IsArc
  <2> QED
    BY <1>1, <1>2, <1>4, <1>8, <1>9, <2>1, <2>2, <2>3, ComesPast
<1>12. \A a \in arcs : a.from = Twin(x) => a \in Passing(s)
  <2> SUFFICES ASSUME NEW a \in arcs, a.from = Twin(x) PROVE a \in Passing(s)
    OBVIOUS
  <2>1. TwinArc(a) \in arcs /\ TwinArc(a).to = x
    BY <1>1, <1>3, <1>10, TwinRecord
  <2> QED
    BY <1>1, <1>11, <2>1, PassingTwin
<1> PICK t, other : t = StationOfNode(x) /\ other = arcs \ Passing(s)
  OBVIOUS
<1>13. t \in DOMAIN station_nodes
  BY <1>5, <1>10
<1>14. ASSUME NEW n \in station_nodes[t] PROVE n = x \/ n = Twin(x)
  <2>1. n \in AllNodes /\ StationOfNode(n) = t
    BY <1>1, <1>13 DEF NodesAt, AllNodes
  <2>2. ~IsConnecting(t)
    <3>1. Place(m) \in Nat /\ Place(x) \in Nat
      BY <1>1, PlaceFacts
    <3> QED
      BY <1>9, <3>1
  <2>3. n[1] = x[1]
    BY <1>2, <2>1, <2>2 DEF NodeFacts, SameStation
  <2> QED
    BY <1>2, <2>1, <2>3 DEF NodeFacts, SameStation
<1>15. ASSUME NEW n \in station_nodes[t]
       PROVE  n \notin Reach(other, {a.to : a \in OutEdges(n) \cap other})
  <2>1. (\A a \in other : a.to # n) \/ (\A a \in other : a.from # n)
    BY <1>11, <1>12, <1>14
  <2>2. other \in SUBSET arcs /\ \A a \in arcs : a.to \in nodes
    BY <1>1 DEF IsArc
  <2> QED
    BY <1>1, <2>1, <2>2, NoReturn
<1> QED
  BY <1>13, <1>15

LEMMA SameUndecided ==
  ASSUME UNCHANGED <<lines, type, preprocess>>
  PROVE  \A n : /\ Undecided(n)' <=> Undecided(n)
                /\ StationOfNode(n)' = StationOfNode(n) /\ Place(n)' = Place(n)
<1>1. \A n : TurnsAt(Twin(n))' <=> TurnsAt(Twin(n))
  BY SameDecisions DEF Twin
<1> QED
  BY <1>1, SameDecisions, SameLines DEF Undecided

LEMMA NextForward ==
  ASSUME GInv, Forward, [Next]_vars
  PROVE  Forward'
<1>1. /\ lines \in LineMaps /\ TwoStops /\ nodes \subseteq AllNodes /\ IsFiniteSet(arcs)
      /\ GoodChains(chains) /\ \A a \in arcs : IsArc(a)
  BY DEF GInv, TypeOK
<1>2. UNCHANGED lines
  BY DEF Next, vars, input, CreateNodesAndTravelArcs, AddAllSwitchingArcs,
         AddSwitchingArcsAtTerminals, AddStationProblemSwitchingArcs, AddSwitchingArcs,
         AddAllConnectionArcs, ComputeDegree2Chains, RemoveChain, RemoveFromStations,
         CheckConnectivity
<1>3. SUFFICES \A a \in arcs' : ~a.connection => RunsAhead(a)
  BY <1>2 DEF Forward, RunsAhead, SameCourse, Place, LastStop
<1>4. ASSUME NEW a, IsHop(a) PROVE RunsAhead(a)
  <2>1. /\ a.name = a.from[1] /\ SameCourse(a.from, a.to) /\ Place(a.to) = Place(a.from) + 1
        /\ Place(a.from) \in Nat
    BY <1>1, <1>4, HopCourse, PlaceFacts DEF IsHop
  <2> QED
    BY <2>1 DEF RunsAhead
<1>5. CASE CreateNodesAndTravelArcs
  <2>1. arcs' = Rides
    BY <1>5 DEF CreateNodesAndTravelArcs, Rides
  <2>2. \A a \in Rides : IsHop(a)
    BY <1>1, RidesOfLines DEF RideFacts, IsHop
  <2> QED
    BY <1>4, <2>1, <2>2
<1>6. CASE AddAllSwitchingArcs \/ AddSwitchingArcsAtTerminals \/ AddStationProblemSwitchingArcs
  <2>1. PICK B :
          /\ \/ B = UNION {AllTurns(l) : l \in DOMAIN lines} /\ ~preprocess
             \/ B = UNION {TerminalTurns(l) : l \in DOMAIN lines} /\ type = "SEGMENT"
             \/ B = UNION {StationProblemTurns(l) : l \in DOMAIN lines} /\ type = "STATION"
          /\ arcs' = arcs \cup B
    BY <1>6 DEF AddAllSwitchingArcs, AddSwitchingArcsAtTerminals, AddStationProblemSwitchingArcs,
                AddSwitchingArcs
  <2>2. \A a \in B : a.connection
    BY <1>1, <2>1, AddedTurns, AddedArcsFit
  <2> QED
    BY <2>1, <2>2 DEF Forward
<1>7. CASE AddAllConnectionArcs
  <2>1. PICK B : B = UNION {ConnectionArcs(s) : s \in StationNames} /\ arcs' = arcs \cup B
    BY <1>7 DEF AddAllConnectionArcs
  <2>2. RideFacts(arcs)
    BY <1>7 DEF AddAllConnectionArcs, GInv, Stage
  <2>3. \A a \in B : a.connection
    BY <1>1, <2>1, <2>2, AddedChanges, AddedArcsFit
  <2> QED
    BY <2>1, <2>3 DEF Forward
<1>8. CASE RemoveChain
  <2>1. PICK C \in chains : arcs' = (arcs \ ArcsOf(C)) \cup {NewArc(C)} \/ arcs' = arcs
    BY <1>8 DEF RemoveChain
  <2> PICK first, last : first = FirstArc(C) /\ last = LastArc(C)
    OBVIOUS
  <2>2. /\ first \in ArcsOf(C) /\ first.from \notin C /\ first.to \in C
        /\ last \in ArcsOf(C) /\ last.to \notin C /\ last.from \in C
    BY <1>1, ChainEnds
  <2>3. IsHop(first) /\ IsHop(last)
    BY <1>1, <2>2 DEF GoodChains
  <2>4. RunsAhead(first) /\ RunsAhead(last)
    BY <1>4, <2>3
  <2>5. SameCourse(first.to, last.from) /\ Place(first.to) <= Place(last.from)
    BY <1>1, <2>2, ChainCourse
  <2>6. /\ Place(first.from) \in Nat /\ Place(first.to) \in Nat
        /\ Place(last.from) \in Nat /\ Place(last.to) \in Nat
    BY <1>1, <2>3, PlaceFacts DEF IsHop
  <2>7. SameCourse(first.from, last.to) /\ Place(first.from) < Place(last.to)
    BY <2>4, <2>5, <2>6 DEF RunsAhead, SameCourse
  <2> PICK new : new = NewArc(C)
    OBVIOUS
  <2>8. new.from = first.from /\ new.to = last.to /\ new.name = first.name
    BY DEF NewArc, Travel
  <2>9. RunsAhead(new)
    BY <2>4, <2>7, <2>8 DEF RunsAhead
  <2> QED
    BY <2>1, <2>9 DEF Forward
<1>9. CASE UNCHANGED arcs
  BY <1>9 DEF Forward
<1> QED
  BY <1>5, <1>6, <1>7, <1>8, <1>9
     DEF Next, ComputeDegree2Chains, RemoveFromStations, CheckConnectivity, vars

LEMMA NextListed ==
  ASSUME GInv, Listed, [Next]_vars
  PROVE  Listed'
<1>1. CASE CreateNodesAndTravelArcs
  <2>1. /\ UNCHANGED lines /\ nodes' = AllNodes
        /\ station_nodes' = [s \in StationNames |-> NodesAt(s)]
    BY <1>1 DEF CreateNodesAndTravelArcs, input, AllNodes
  <2>2. ASSUME NEW n \in AllNodes
        PROVE  StationOfNode(n) \in StationNames /\ n \in NodesAt(StationOfNode(n))
    <3>1. StationOfNode(n) \in StationNames
      BY NodeParts DEF StationNames, StationOfNode, StationAt, Stops, ToSet
    <3> QED
      BY <3>1 DEF NodesAt, AllNodes
  <2>3. \A n : StationOfNode(n)' = StationOfNode(n)
    BY <2>1 DEF StationOfNode, StationAt
  <2> QED
    BY <2>1, <2>2, <2>3 DEF Listed
<1>2. CASE RemoveFromStations
  <2>1. PICK left : /\ left = [s \in DOMAIN station_nodes |-> station_nodes[s] \ redundant_nodes]
                    /\ station_nodes' = [s \in {t \in DOMAIN left : left[t] # {}} |-> left[s]]
    BY <1>2 DEF RemoveFromStations
  <2>2. UNCHANGED <<lines, nodes>> /\ phase = "removing"
    BY <1>2 DEF RemoveFromStations, input
  <2>3. \A n \in nodes : n \notin redundant_nodes
    BY DEF GInv, TypeOK
  <2>4. ASSUME NEW n \in nodes
        PROVE  /\ StationOfNode(n) \in DOMAIN station_nodes'
               /\ n \in station_nodes'[StationOfNode(n)]
    <3> PICK s : s = StationOfNode(n)
      OBVIOUS
    <3>1. s \in DOMAIN left /\ left[s] = station_nodes[s] \ redundant_nodes /\ n \in left[s]
      BY <2>1, <2>2, <2>3 DEF Listed
    <3> QED
      BY <2>1, <3>1
  <2>5. \A n : StationOfNode(n)' = StationOfNode(n)
    BY <2>2 DEF StationOfNode, StationAt
  <2> QED
    BY <2>2, <2>4, <2>5 DEF Listed
<1>3. CASE /\ UNCHANGED <<lines, station_nodes>> /\ nodes' \subseteq nodes
           /\ phase # "nodes" \/ phase' = phase
  <2>1. \A n : StationOfNode(n)' = StationOfNode(n)
    BY <1>3 DEF StationOfNode, StationAt
  <2> QED
    BY <1>3, <2>1 DEF Listed
<1>4. CASE \/ AddAllSwitchingArcs \/ AddSwitchingArcsAtTerminals \/ AddStationProblemSwitchingArcs
           \/ AddAllConnectionArcs \/ ComputeDegree2Chains \/ RemoveChain \/ CheckConnectivity
           \/ UNCHANGED vars
  <2>1. UNCHANGED <<lines, station_nodes>>
    BY <1>4 DEF AddAllSwitchingArcs, AddSwitchingArcsAtTerminals, AddStationProblemSwitchingArcs,
                AddSwitchingArcs, AddAllConnectionArcs, ComputeDegree2Chains, RemoveChain,
                CheckConnectivity, vars, input
  <2>2. nodes' \subseteq nodes /\ (phase # "nodes" \/ phase' = phase)
    BY <1>4 DEF AddAllSwitchingArcs, AddSwitchingArcsAtTerminals, AddStationProblemSwitchingArcs,
                AddSwitchingArcs, AddAllConnectionArcs, ComputeDegree2Chains, RemoveChain,
                CheckConnectivity, vars
  <2> QED
    BY <1>3, <2>1, <2>2
<1> QED
  BY <1>1, <1>2, <1>4 DEF Next

(* The chains that are computed are made of the nodes without a decision. *)
LEMMA ChainNodesAreUndecided ==
  ASSUME ChainGraph, NodeFacts, Shape, type \in {"STATION", "SEGMENT"}, preprocess,
         \A a \in arcs : IsPlannedTurn(a) => MayTurn(a.from),
         \A u \in AllNodes : MayTurn(u) => Change(u, Twin(u), switch_cost) \in arcs,
         nodes = AllNodes, NEW n \in AllNodes
  PROVE  n \in ChainNodes <=> Undecided(n)
<1>1. lines \in LineMaps /\ TwoStops /\ IsFiniteSet(arcs)
  BY DEF ChainGraph
<1>2. /\ Twin(n) \in AllNodes /\ Twin(Twin(n)) = n
      /\ Arriving(Twin(n)) <=> Departing(n)
      /\ Departing(Twin(n)) <=> Arriving(n)
      /\ StationOfNode(Twin(n)) = StationOfNode(n)
  BY DEF NodeFacts, SameStation
<1>3. ASSUME n \in ChainNodes PROVE Undecided(n)
  <2>1. OneInOneOut(n) /\ \A a \in arcs : a.from = n \/ a.to = n => IsHop(a)
    BY <1>1, <1>3, InsideFacts
  <2>2. /\ Arriving(n) /\ Departing(n) /\ ~IsConnecting(StationOfNode(n))
        /\ Change(n, Twin(n), switch_cost) \notin arcs
        /\ Change(Twin(n), n, switch_cost) \notin arcs
    BY <1>1, <2>1, ChainNodeFacts
  <2>3. type = "STATION" => ~TurnsAt(n) /\ ~TurnsAt(Twin(n))
    BY <1>2, <2>2 DEF MayTurn
  <2> QED
    BY <2>2, <2>3 DEF Undecided
<1>4. ASSUME Undecided(n) PROVE n \in ChainNodes
  <2>1. /\ Arriving(n) /\ Departing(n) /\ ~IsConnecting(StationOfNode(n))
        /\ type = "STATION" => ~TurnsAt(n) /\ ~TurnsAt(Twin(n))
    BY <1>4 DEF Undecided
  <2>2. ASSUME NEW a \in arcs, a.from = n \/ a.to = n PROVE ~a.connection
    <3>1. SUFFICES ASSUME a.connection PROVE FALSE
      OBVIOUS
    <3>2. IsPlannedTurn(a)
      BY <2>1, <2>2, <3>1, ChangeMeets DEF Shape
    <3>3. a.from \in AllNodes /\ a = Change(a.from, Twin(a.from), switch_cost)
          /\ (a.from = n \/ a.from = Twin(n))
      BY <2>2, <3>2 DEF IsPlannedTurn, IsTurn, NodeFacts
    <3>4. Arriving(a.from) /\ Departing(a.from)
      BY <1>2, <2>1, <3>3
    <3>5. MayTurn(a.from)
      BY <3>2
    <3> QED
      BY <2>1, <3>3, <3>4, <3>5 DEF MayTurn
  <2>3. Single(n)
    <3>1. (\A a \in InEdges(n) : ~a.connection) /\ (\A a \in OutEdges(n) : ~a.connection)
      BY <2>2 DEF InEdges, OutEdges
    <3> QED
      BY <3>1, RidesAreSingle DEF Single
  <2>4. Degree(n) <= 2
    <3>1. (\E a \in arcs : a.to = n) /\ (\E a \in arcs : a.from = n)
      BY BothWays
    <3> QED
      BY <1>1, <2>3, <3>1, DegreeFacts
  <2> QED
    BY <2>2, <2>4 DEF ChainNodes
<1> QED
  BY <1>3, <1>4

LEMMA ChainsTakeAll ==
  ASSUME GInv, Proper, Planned, Connections, phase = "chains"
  PROVE  \A n \in nodes : Undecided(n) <=> \E C \in Chains(ChainNodes) : n \in C
<1>1. /\ lines \in LineMaps /\ TwoStops /\ nodes = AllNodes /\ Shape /\ chains = {} /\ NodeFacts
      /\ IsFiniteSet(nodes) /\ \A a \in arcs : IsArc(a) /\ IsProper(a)
  BY NodesAreTwins DEF GInv, TypeOK, Stage, Proper
<1>2. ChainGraph
  BY <1>1 DEF ChainGraph, GInv
<1>3. /\ preprocess /\ type \in {"STATION", "SEGMENT"}
      /\ \A u \in AllNodes : MayTurn(u) => Change(u, Twin(u), switch_cost) \in arcs
      /\ \A a \in arcs : IsPlannedTurn(a) => MayTurn(a.from)
  <2>1. ASSUME NEW a \in arcs, IsPlannedTurn(a) PROVE a.connection /\ ~IsChange(a)
    BY <1>1, <2>1 DEF IsPlannedTurn, IsTurn, IsChange, Change, NodeFacts
  <2> QED
    BY <2>1 DEF Planned, Connections, GInv
<1> PICK inside : inside = ChainNodes
  OBVIOUS
<1>4. inside \in SUBSET nodes /\ \A n \in AllNodes : n \in inside <=> Undecided(n)
  <2>1. \A n \in AllNodes : n \in ChainNodes <=> Undecided(n)
    BY <1>1, <1>2, <1>3, ChainNodesAreUndecided
  <2> QED
    BY <2>1 DEF ChainNodes
<1> DEFINE E == {a \in arcs : a.from \in inside /\ a.to \in inside}
           R(n) == Reach(Undirected(E), {n})
<1>5. Chains(inside) = {R(n) : n \in inside}
  BY DEF Chains
<1>6. \A a \in E : /\ a.from \in inside /\ a.to \in inside
                   /\ Reversed(a).from = a.to /\ Reversed(a).to = a.from
  BY <1>1, ReversedArc
<1>7. ASSUME NEW n \in inside PROVE n \in R(n) /\ R(n) \subseteq inside
  <2> PICK Q : Q = R(n)
    OBVIOUS
  <2>1. \A a \in E : /\ a.from \in inside /\ a.to \in inside
                     /\ Reversed(a).from = a.to /\ Reversed(a).to = a.from
    BY <1>6
  <2> HIDE DEF E
  <2>2. Q = Reach(Undirected(E), {n})
    OBVIOUS
  <2>3. inside \in SUBSET nodes /\ IsFiniteSet(nodes)
    BY <1>1, <1>4
  <2>4. /\ n \in Q /\ Q \subseteq inside
        /\ \A a \in E : a.from \in Q <=> a.to \in Q
        /\ \A T : n \in T /\ (\A a \in E : a.from \in T <=> a.to \in T) => Q \subseteq T
    BY <2>1, <2>2, <2>3, ComponentFacts
  <2> QED
    BY <2>4
<1> QED
  BY <1>1, <1>4, <1>5, <1>7

LEMMA NextRemaining ==
  ASSUME GInv, Proper, Planned, Twinned, Connections, Remaining, [Next]_vars
  PROVE  Remaining'
<1>1. CASE CreateNodesAndTravelArcs
  <2>1. nodes' = AllNodes /\ UNCHANGED <<lines, type, preprocess>> /\ phase' = "switching"
    BY <1>1 DEF CreateNodesAndTravelArcs, AllNodes, input
  <2> QED
    BY <2>1, SameLines DEF Remaining
<1>2. CASE AddAllSwitchingArcs \/ AddSwitchingArcsAtTerminals \/ AddStationProblemSwitchingArcs
  <2>1. /\ UNCHANGED <<lines, type, preprocess, nodes>>
        /\ phase = "switching" /\ phase' = "connections"
    BY <1>2 DEF AddAllSwitchingArcs, AddSwitchingArcsAtTerminals, AddStationProblemSwitchingArcs,
                AddSwitchingArcs, input
  <2> QED
    BY <2>1, SameLines, SameUndecided DEF Remaining
<1>3. CASE AddAllConnectionArcs
  <2>1. /\ UNCHANGED <<lines, type, preprocess, nodes>>
        /\ phase = "connections" /\ phase' = IF preprocess THEN "chains" ELSE "check"
    BY <1>3 DEF AddAllConnectionArcs, input
  <2>2. ~preprocess => \A n : ~Undecided(n)
    BY DEF Undecided
  <2>3. chains' = {}
    BY <1>3 DEF AddAllConnectionArcs, GInv, Stage
  <2> QED
    BY <2>1, <2>2, <2>3, SameLines, SameUndecided DEF Remaining
<1>4. CASE ComputeDegree2Chains
  <2>1. /\ UNCHANGED <<lines, type, preprocess, nodes>>
        /\ phase = "chains" /\ phase' = "removing" /\ chains' = Chains(ChainNodes)
    BY <1>4 DEF ComputeDegree2Chains, input
  <2>2. \A n \in nodes : Undecided(n) <=> \E C \in Chains(ChainNodes) : n \in C
    BY <2>1, ChainsTakeAll
  <2> QED
    BY <2>1, <2>2, SameLines, SameUndecided DEF Remaining
<1>5. CASE RemoveChain
  <2>1. PICK C \in chains :
          /\ UNCHANGED <<lines, type, preprocess>> /\ phase = "removing" /\ phase' = "removing"
          /\ chains' = chains \ {C}
          /\ Removable(C) => nodes' = nodes \ C
    BY <1>5 DEF RemoveChain, input
  <2>2. nodes' = nodes \ C
    BY <2>1 DEF Removable, Twinned
  <2>3. \A D \in chains : D \subseteq nodes /\ (D \cap C # {} => D = C)
    BY DEF GInv, GoodChains
  <2> QED
    BY <2>1, <2>2, <2>3, SameLines, SameUndecided DEF Remaining
<1>6. CASE RemoveFromStations \/ CheckConnectivity \/ UNCHANGED vars
  <2>1. /\ UNCHANGED <<lines, type, preprocess, nodes, chains>>
        /\ phase' = phase \/ phase \in {"removing", "check"}
    BY <1>6 DEF RemoveFromStations, CheckConnectivity, vars, input
  <2> QED
    BY <2>1, SameLines, SameUndecided DEF Remaining
<1> QED
  BY <1>1, <1>2, <1>3, <1>4, <1>5, <1>6 DEF Next

(* Preprocessing loses no station, for every network: a station that left  *)
(* the map of the station problem lies, on its line, between the change or *)
(* the end that a tour comes from and a stop that is left, and to visit    *)
(* that stop the tour rides through the station.                           *)
THEOREM StationsLeftStandForAll ==
  ASSUME LinesHaveTwoStops
  PROVE  Spec => []RemovedStationsAreVisited
<1> DEFINE Inv == Remaining /\ Forward /\ Listed /\ Connections
<1>1. Init => Inv
  BY DEF Init, Remaining, Forward, Listed, Connections
<1>2. GraphInv /\ Inv /\ [Next]_vars => Inv'
  BY NextRemaining, NextForward, NextListed, NextConnections DEF GraphInv
<1>3. GraphInv /\ Inv => RemovedStationsAreVisited
  BY RemovedAreVisited DEF RemovedStationsAreVisited
<1> QED
  BY <1>1, <1>2, <1>3, TwinInductive, PTL DEF Spec

-----------------------------------------------------------------------------
(* What a ride of the graph says after chains were removed: it leads to    *)
(* the next stop that is left, and takes the time between the two.         *)

(* No ride of a line is longer than an int can say, in either direction of *)
(* time: times may fall and may be greater than any int.                   *)
FitsInt(t) == -(UintRange - UintRange \div 2) <= t /\ t < UintRange \div 2

RidesFit == \A ls \in LineMaps : \A l \in DOMAIN ls :
              \A i, j \in DOMAIN ls[l].stations : FitsInt(ls[l].times[j] - ls[l].times[i])

AllFit == \A l \in DOMAIN lines : \A i, j \in Stops(l) :
            FitsInt(lines[l].times[j] - lines[l].times[i])

(* The time on a line that passes in the direction of the ride. *)
Clock(n) == IF n[2] = "way" THEN lines[n[1]].times[n[3]] ELSE -lines[n[1]].times[n[3]]

TimeBetween(u, v) ==
  IF u[2] = "way" THEN RideTime(u[1], u[3], v[3]) ELSE RideTime(u[1], v[3], u[3])

LEMMA DifferenceAsInt ==
  ASSUME NEW t \in Int, FitsInt(t)
  PROVE  AsInt(t % UintRange) = t
<1>1. UintRange \in Nat \ {0}
  BY NumbersAssumption
<1>2. CASE 0 <= t
  <2>1. t % UintRange = t
    BY <1>1, <1>2 DEF FitsInt
  <2> QED
    BY <1>2, <2>1 DEF AsInt, FitsInt
<1>3. CASE t < 0
  <2>1. t % UintRange = t + UintRange
    BY <1>1, <1>3 DEF FitsInt
  <2>2. t + UintRange >= UintRange \div 2
    BY <1>1 DEF FitsInt
  <2> QED
    BY <1>1, <2>1, <2>2 DEF AsInt
<1> QED
  BY <1>2, <1>3

LEMMA TimesOfLine ==
  ASSUME lines \in LineMaps, NEW l \in DOMAIN lines, NEW i \in Stops(l)
  PROVE  lines[l].times[i] \in Nat
BY LineMapsAssumption DEF Stops

LEMMA RideTimeIsDifference ==
  ASSUME lines \in LineMaps, AllFit, NEW l \in DOMAIN lines, NEW i \in Stops(l), NEW j \in Stops(l)
  PROVE  RideTime(l, i, j) = lines[l].times[j] - lines[l].times[i]
<1> PICK t : t = lines[l].times[j] - lines[l].times[i]
  OBVIOUS
<1>1. t \in Int /\ FitsInt(t)
  BY TimesOfLine DEF AllFit
<1>2. AsInt(t % UintRange) = t
  BY <1>1, DifferenceAsInt
<1> QED
  BY <1>2 DEF RideTime

LEMMA ClockFacts ==
  ASSUME lines \in LineMaps, AllFit, NEW n \in AllNodes, NEW m \in AllNodes, SameCourse(n, m)
  PROVE  /\ Clock(n) \in Int /\ Clock(m) \in Int
         /\ TimeBetween(n, m) = Clock(m) - Clock(n)
<1> PICK l, i, j : l = n[1] /\ i = n[3] /\ j = m[3]
  OBVIOUS
<1>1. /\ l \in DOMAIN lines /\ m[1] = l /\ m[2] = n[2] /\ i \in Stops(l) /\ j \in Stops(l)
      /\ n[2] \in {"way", "back"}
  BY NodeParts DEF SameCourse
<1>2. /\ lines[l].times[i] \in Nat /\ lines[l].times[j] \in Nat
      /\ RideTime(l, i, j) = lines[l].times[j] - lines[l].times[i]
      /\ RideTime(l, j, i) = lines[l].times[i] - lines[l].times[j]
  BY <1>1, TimesOfLine, RideTimeIsDifference
<1> QED
  BY <1>1, <1>2 DEF Clock, TimeBetween

LEMMA HopTime ==
  ASSUME lines \in LineMaps, AllFit, NEW a, IsHop(a)
  PROVE  a.dist \in Int /\ a.dist = Clock(a.to) - Clock(a.from)
<1>1. a.from \in AllNodes /\ a.to \in AllNodes /\ a = RideFrom(a.from) /\ a.to = NextStop(a.from)
  BY DEF IsHop
<1>2. SameCourse(a.from, a.to)
  BY HopCourse
<1>3. a.dist = TimeBetween(a.from, a.to)
  <2> PICK l, i, d : l = a.from[1] /\ i = a.from[3] /\ d = a.from[2]
    OBVIOUS
  <2>1. CASE d = "way"
    <3>1. a.to[3] = i + 1 /\ RideFrom(a.from).dist = RideTime(l, i, i + 1)
      BY <1>1, <2>1 DEF NextStop, RideFrom, Travel, Way
    <3> QED
      BY <1>1, <2>1, <3>1 DEF TimeBetween
  <2>2. CASE d # "way"
    <3>1. a.to[3] = i - 1 /\ RideFrom(a.from).dist = RideTime(l, i - 1, i)
      BY <1>1, <2>2 DEF NextStop, RideFrom, Travel, Back
    <3> QED
      BY <1>1, <2>2, <3>1 DEF TimeBetween
  <2> QED
    BY <2>1, <2>2
<1> QED
  BY <1>1, <1>2, <1>3, ClockFacts

(* A chain has all stops of its course between its two ends. *)
LEMMA ChainSpan ==
  ASSUME lines \in LineMaps, nodes \subseteq AllNodes, IsFiniteSet(arcs),
         NEW Cs, GoodChains(Cs), NEW C \in Cs
  PROVE  /\ SameCourse(FirstArc(C).from, LastArc(C).to)
         /\ FirstArc(C).from \in AllNodes /\ LastArc(C).to \in AllNodes
         /\ \A k \in AllNodes :
              SameCourse(FirstArc(C).from, k)
                /\ Place(FirstArc(C).from) < Place(k) /\ Place(k) < Place(LastArc(C).to)
              => k \in C
<1> PICK first, last : first = FirstArc(C) /\ last = LastArc(C)
  OBVIOUS
<1>1. /\ first \in ArcsOf(C) /\ first.from \notin C /\ first.to \in C
      /\ last \in ArcsOf(C) /\ last.to \notin C /\ last.from \in C
  BY ChainEnds
<1>2. \A a \in ArcsOf(C) : IsHop(a)
  BY DEF GoodChains
<1>3. \A a \in ArcsOf(C) : /\ SameCourse(a.from, a.to) /\ Place(a.to) = Place(a.from) + 1
                           /\ a.from \in AllNodes /\ a.to \in AllNodes
                           /\ Place(a.from) \in Nat /\ Place(a.to) \in Nat
  BY <1>2, HopCourse, PlaceFacts DEF IsHop
<1>4. \A n, m \in C : SameCourse(n, m)
  BY ChainCourse
<1>5. SameCourse(first.from, last.to)
  <2>1. SameCourse(first.to, last.from)
    BY <1>1, <1>4
  <2> QED
    BY <1>1, <1>3, <2>1 DEF SameCourse
<1>6. ASSUME NEW k \in AllNodes, SameCourse(first.from, k),
             Place(first.from) < Place(k), Place(k) < Place(last.to)
      PROVE  k \in C
  <2>1. SUFFICES ASSUME k \notin C PROVE FALSE
    OBVIOUS
  <2>2. Place(k) \in Nat
    BY PlaceFacts
  <2>3. \A n \in C : n \in AllNodes /\ SameCourse(n, k) /\ Place(n) \in Nat /\ Place(n) # Place(k)
    <3>1. TAKE n \in C
    <3>2. n \in AllNodes /\ Place(n) \in Nat
      BY PlaceFacts DEF GoodChains
    <3>3. SameCourse(n, k)
      BY <1>1, <1>3, <1>4, <1>6 DEF SameCourse
    <3> QED
      BY <2>1, <3>2, <3>3, PlaceInjective
  <2> DEFINE S == {n \in C : Place(n) < Place(k)}
  <2>4. first.to \in S
    <3>1. Place(first.to) <= Place(k)
      BY <1>1, <1>3, <1>6, <2>2
    <3> QED
      BY <1>1, <2>2, <2>3, <3>1
  <2>5. \A a \in arcs : a.from \in C /\ a.to \in C => (a.from \in S <=> a.to \in S)
    <3>1. TAKE a \in arcs
    <3>2. HAVE a.from \in C /\ a.to \in C
    <3>3. a \in ArcsOf(C)
      BY <3>2 DEF ArcsOf
    <3>4. Place(a.to) = Place(a.from) + 1 /\ Place(a.from) \in Nat /\ Place(a.to) # Place(k)
      BY <1>3, <2>3, <3>2, <3>3
    <3> QED
      BY <2>2, <3>2, <3>4
  <2>6. S = C
    <3>1. S \in SUBSET C /\ S # {}
      BY <2>4
    <3> HIDE DEF S
    <3> QED
      BY <2>5, <3>1 DEF GoodChains, Linked
  <2>7. Place(last.from) < Place(k)
    BY <1>1, <2>6
  <2> QED
    BY <1>1, <1>3, <1>6, <2>2, <2>7
<1> QED
  BY <1>1, <1>3, <1>5, <1>6

AddsUp(S, h) ==
  h[{}] = 0 /\ \A s \in SUBSET S : \A x \in s : h[s] = x.dist + h[s \ {x}]

LEMMA SumTermByTerm ==
  ASSUME NEW S, IsFiniteSet(S), \A a \in S : a.dist \in Int
  PROVE  \E h : MapThenSumSet(LAMBDA a : a.dist, S) = h[S] /\ AddsUp(S, h)
<1>1. PICK h : IsSum(S, h) /\ MapThenSumSet(LAMBDA a : a.dist, S) = h[S]
  BY SumByTerms
<1>2. IsSum(S, h)
  BY <1>1
<1>3. \A s \in SUBSET S : \A x \in s : h[s] = x.dist + h[s \ {x}]
  <2>1. TAKE s \in SUBSET S
  <2>2. TAKE x \in s
  <2> QED
    BY <1>2, AnyTerm
<1>4. h[{}] = 0
  BY <1>2 DEF IsSum, Sum
<1>5. AddsUp(S, h)
  BY <1>3, <1>4 DEF AddsUp
<1> QED
  BY <1>1, <1>5

(* The rides of a chain add up to the time between its ends. *)
LEMMA ChainTime ==
  ASSUME lines \in LineMaps, AllFit, nodes \subseteq AllNodes, IsFiniteSet(arcs),
         NEW Cs, GoodChains(Cs), NEW C \in Cs
  PROVE  RideAlong(C) = TimeBetween(FirstArc(C).from, LastArc(C).to)
<1> PICK first, last, R : first = FirstArc(C) /\ last = LastArc(C) /\ R = ArcsOf(C)
  OBVIOUS
<1>1. /\ first \in R /\ first.from \notin C /\ first.to \in C
      /\ last \in R /\ last.to \notin C /\ last.from \in C
  BY ChainEnds
<1>2. \A a \in R : IsHop(a) /\ (a.from \notin C => a = first)
  BY OneWayThrough DEF GoodChains
<1>3. \A a \in R : /\ SameCourse(a.from, a.to) /\ Place(a.to) = Place(a.from) + 1
                   /\ a.from \in AllNodes /\ a.to \in AllNodes
                   /\ Place(a.from) \in Nat /\ Place(a.to) \in Nat
                   /\ a.dist \in Int /\ a.dist = Clock(a.to) - Clock(a.from)
                   /\ Clock(a.to) \in Int /\ Clock(a.from) \in Int
  <2>1. TAKE a \in R
  <2>2. /\ IsHop(a) /\ SameCourse(a.from, a.to) /\ a.from \in AllNodes /\ a.to \in AllNodes
    BY <1>2, HopCourse DEF IsHop
  <2>3. Clock(a.to) \in Int /\ Clock(a.from) \in Int
    BY <2>2, ClockFacts
  <2> QED
    BY <2>2, <2>3, HopTime, PlaceFacts
<1>4. \A n, m \in C : SameCourse(n, m)
  BY ChainCourse
<1>5. \A n \in C : Place(first.to) <= Place(n) /\ Place(n) <= Place(last.from) /\ Place(n) \in Nat
  <2>1. \A n \in C : n \in AllNodes
    BY DEF GoodChains
  <2> QED
    BY <1>1, <2>1, ChainCourse, PlaceFacts
<1>6. IsFiniteSet(R)
  BY FS_Subset DEF ArcsOf
<1>7. \A a \in R : a.dist \in Int
  BY <1>3
<1>8. PICK h : MapThenSumSet(LAMBDA a : a.dist, R) = h[R] /\ AddsUp(R, h)
  BY <1>6, <1>7, SumTermByTerm
<1>9. h[{}] = 0 /\ \A s \in SUBSET R : \A x \in s : h[s] = x.dist + h[s \ {x}]
  BY <1>8 DEF AddsUp
<1> DEFINE Upto(a) == {b \in R : Place(b.from) <= Place(a.from)}
           bad == {a \in R : h[Upto(a)] # Clock(a.to) - Clock(first.from)}
           places == {Place(a.from) : a \in bad}
<1>10. bad = {}
  <2>1. SUFFICES ASSUME bad # {} PROVE FALSE
    OBVIOUS
  <2>2. places \in SUBSET Nat /\ places # {}
    BY <1>3, <2>1
  <2>3. PICK p \in places : \A q \in places : p <= q
    <3> HIDE DEF places
    <3> QED
      BY <2>2, LeastNumber
  <2>4. PICK a \in bad : \A b \in bad : Place(a.from) <= Place(b.from)
    BY <2>3
  <2>5. a \in R /\ Upto(a) \in SUBSET R /\ a \in Upto(a)
    BY <1>3, <2>4
  <2>6. h[Upto(a)] = a.dist + h[Upto(a) \ {a}]
    <3> HIDE DEF Upto
    <3> QED
      BY <1>9, <2>5
  <2>7. CASE a.from \notin C
    <3>1. a = first
      BY <1>2, <2>5, <2>7
    <3>2. Upto(a) \ {a} = {}
      <4>1. SUFFICES ASSUME NEW b \in R, b # first, Place(b.from) <= Place(first.from) PROVE FALSE
        BY <3>1
      <4>2. b.from \in C
        BY <1>2, <4>1
      <4> QED
        BY <1>1, <1>3, <1>5, <4>1, <4>2
    <3>3. h[Upto(a)] = first.dist
      <4>1. h[Upto(a)] = first.dist + 0
        <5> HIDE DEF Upto
        <5> QED
          BY <1>9, <2>6, <3>1, <3>2
      <4>2. first.dist \in Int
        BY <1>1, <1>3
      <4> QED
        BY <4>1, <4>2
    <3> QED
      BY <1>1, <1>3, <2>4, <3>1, <3>3
  <2>8. CASE a.from \in C
    <3>1. OneInOneOut(a.from)
      BY <2>8 DEF GoodChains
    <3>2. PICK b \in arcs : b.to = a.from
      BY <3>1, OneArcEach
    <3>3. b \in R /\ Place(a.from) = Place(b.from) + 1
      <4>1. b \in R
        BY <2>8, <3>2 DEF ArcsOf
      <4> QED
        BY <1>3, <3>2, <4>1
    <3>4. h[Upto(b)] = Clock(b.to) - Clock(first.from)
      <4>1. b \notin bad
        <5> HIDE DEF bad
        <5> QED
          BY <1>3, <2>4, <2>5, <3>3
      <4> QED
        BY <3>3, <4>1
    <3>5. Upto(a) \ {a} = Upto(b)
      <4>1. ASSUME NEW c \in R, Place(c.from) = Place(a.from) PROVE c = a
        <5>1. c.from \in C
          <6>1. Place(first.from) < Place(a.from)
            BY <1>1, <1>3, <1>5, <2>8
          <6> QED
            BY <1>2, <1>3, <2>5, <4>1, <6>1
        <5>2. c.from = a.from
          BY <1>3, <1>4, <2>5, <2>8, <4>1, <5>1, PlaceInjective
        <5> QED
          BY <2>5, <3>1, <4>1, <5>2, OneArcEach DEF ArcsOf
      <4>2. ASSUME NEW c \in R
            PROVE  (Place(c.from) <= Place(a.from) /\ c # a) <=> Place(c.from) <= Place(b.from)
        <5>1. /\ Place(a.from) \in Nat /\ Place(b.from) \in Nat /\ Place(c.from) \in Nat
              /\ Place(a.from) = Place(b.from) + 1
          BY <1>3, <2>5, <3>3
        <5>2. CASE Place(c.from) = Place(a.from)
          BY <4>1, <5>1, <5>2
        <5>3. CASE Place(c.from) # Place(a.from)
          BY <5>1, <5>3
        <5> QED
          BY <5>2, <5>3
      <4> QED
        BY <4>2
    <3>6. h[Upto(a)] = a.dist + (Clock(b.to) - Clock(first.from))
      BY <2>6, <3>4, <3>5
    <3> QED
      BY <1>1, <1>3, <2>4, <2>5, <3>2, <3>6
  <2> QED
    BY <2>7, <2>8
<1>11. h[Upto(last)] = Clock(last.to) - Clock(first.from)
  BY <1>1, <1>10
<1>12. Upto(last) = R
  <2>1. ASSUME NEW a \in R PROVE Place(a.from) <= Place(last.from)
    <3>1. CASE a.from \in C
      BY <1>5, <3>1
    <3>2. CASE a.from \notin C
      BY <1>1, <1>2, <1>3, <1>5, <3>2
    <3> QED
      BY <3>1, <3>2
  <2> QED
    BY <2>1
<1>13. SameCourse(first.from, last.to) /\ first.from \in AllNodes /\ last.to \in AllNodes
  BY ChainSpan
<1>14. TimeBetween(first.from, last.to) = Clock(last.to) - Clock(first.from)
  BY <1>13, ClockFacts
<1>15. RideAlong(C) = h[R]
  BY <1>8 DEF RideAlong
<1> QED
  BY <1>11, <1>12, <1>14, <1>15

-----------------------------------------------------------------------------
(* Every stop that is left rides to the next one that is left. *)
Spanning ==
  phase # "nodes" =>
    /\ \A a \in arcs : ~a.connection =>
         /\ a = Travel(a.from[1], a.from, a.to, TimeBetween(a.from, a.to))
         /\ \A n \in nodes : SameCourse(a.from, n)
              => Place(n) <= Place(a.from) \/ Place(a.to) <= Place(n)
    /\ \A n \in nodes : Departing(n) => \E a \in arcs : ~a.connection /\ a.from = n

LEMMA HopSpans ==
  ASSUME lines \in LineMaps, AllFit, NEW a, IsHop(a)
  PROVE  /\ a = Travel(a.from[1], a.from, a.to, TimeBetween(a.from, a.to))
         /\ \A n \in AllNodes : SameCourse(a.from, n)
              => Place(n) <= Place(a.from) \/ Place(a.to) <= Place(n)
<1>1. /\ a.from \in AllNodes /\ a.to \in AllNodes /\ SameCourse(a.from, a.to)
      /\ Place(a.from) \in Nat /\ Place(a.to) = Place(a.from) + 1
      /\ a.name = a.from[1] /\ ~a.connection /\ IsProper(a)
  BY HopCourse, PlaceFacts, TwinHop DEF IsHop
<1>2. a.dist = TimeBetween(a.from, a.to)
  BY <1>1, HopTime, ClockFacts
<1>3. a = Travel(a.name, a.from, a.to, a.dist)
  BY <1>1 DEF IsProper, Change
<1>4. \A n \in AllNodes : Place(n) \in Nat
  BY PlaceFacts
<1>5. \A n \in AllNodes : Place(n) <= Place(a.from) \/ Place(a.to) <= Place(n)
  BY <1>1, <1>4
<1> QED
  BY <1>1, <1>2, <1>3, <1>5

LEMMA RemovalSpans ==
  ASSUME lines \in LineMaps, AllFit, nodes \subseteq AllNodes, IsFiniteSet(arcs),
         GoodChains(chains), NEW C \in chains, Spanning, phase # "nodes",
         NEW A, A = (arcs \ ArcsOf(C)) \cup {NewArc(C)}
  PROVE  /\ \A a \in A : ~a.connection =>
              /\ a = Travel(a.from[1], a.from, a.to, TimeBetween(a.from, a.to))
              /\ \A n \in nodes \ C : SameCourse(a.from, n)
                   => Place(n) <= Place(a.from) \/ Place(a.to) <= Place(n)
         /\ \A n \in nodes \ C : Departing(n) => \E a \in A : ~a.connection /\ a.from = n
<1> PICK first, last, new : first = FirstArc(C) /\ last = LastArc(C) /\ new = NewArc(C)
  OBVIOUS
<1>1. /\ first \in ArcsOf(C) /\ first.from \notin C /\ first.to \in C
      /\ last \in ArcsOf(C) /\ last.to \notin C /\ last.from \in C
  BY ChainEnds
<1>2. first.name = first.from[1]
  BY <1>1 DEF GoodChains, IsHop
<1>3. /\ new.from = first.from /\ new.to = last.to /\ ~new.connection
      /\ new = Travel(first.from[1], first.from, last.to, TimeBetween(first.from, last.to))
  <2>1. RideAlong(C) = TimeBetween(first.from, last.to)
    BY ChainTime
  <2>2. new = Travel(first.from[1], first.from, last.to, TimeBetween(first.from, last.to))
    BY <1>2, <2>1 DEF NewArc
  <2> QED
    BY <2>2 DEF Travel
<1>4. ASSUME NEW n \in nodes \ C, SameCourse(new.from, n)
      PROVE  Place(n) <= Place(new.from) \/ Place(new.to) <= Place(n)
  <2>1. /\ n \in AllNodes /\ Place(n) \in Nat
        /\ Place(first.from) \in Nat /\ Place(last.to) \in Nat
    BY ChainSpan, PlaceFacts
  <2>2. ~(Place(first.from) < Place(n) /\ Place(n) < Place(last.to))
    BY <1>3, <1>4, <2>1, ChainSpan
  <2> QED
    BY <1>3, <2>1, <2>2
<1>5. ASSUME NEW n \in nodes \ C, Departing(n)
      PROVE  \E a \in A : ~a.connection /\ a.from = n
  <2>1. PICK a \in arcs : ~a.connection /\ a.from = n
    BY <1>5 DEF Spanning
  <2>2. CASE a \in ArcsOf(C)
    <3>1. a = first
      BY <1>5, <2>1, <2>2, OneWayThrough
    <3> QED
      BY <1>3, <2>1, <3>1
  <2>3. CASE a \notin ArcsOf(C)
    BY <2>1, <2>3
  <2> QED
    BY <2>2, <2>3
<1>6. ASSUME NEW a \in A, ~a.connection
      PROVE  /\ a = Travel(a.from[1], a.from, a.to, TimeBetween(a.from, a.to))
             /\ \A n \in nodes \ C : SameCourse(a.from, n)
                  => Place(n) <= Place(a.from) \/ Place(a.to) <= Place(n)
  <2>1. CASE a = new
    BY <1>3, <1>4, <2>1
  <2>2. CASE a \in arcs
    BY <1>6, <2>2 DEF Spanning
  <2> QED
    BY <2>1, <2>2
<1> QED
  BY <1>5, <1>6

LEMMA SameClocks ==
  ASSUME UNCHANGED lines
  PROVE  /\ \A u, v : TimeBetween(u, v)' = TimeBetween(u, v)
         /\ \A n : Place(n)' = Place(n) /\ (Departing(n)' <=> Departing(n))
         /\ \A n, m : SameCourse(n, m)' <=> SameCourse(n, m)
BY SameLines DEF TimeBetween, RideTime, Place, LastStop, SameCourse

LEMMA NextSpanning ==
  ASSUME GInv, AllFit, Spanning, [Next]_vars
  PROVE  Spanning'
<1>1. /\ lines \in LineMaps /\ TwoStops /\ nodes \subseteq AllNodes /\ IsFiniteSet(arcs)
      /\ GoodChains(chains) /\ \A a \in arcs : IsArc(a)
  BY DEF GInv, TypeOK
<1>2. UNCHANGED lines
  BY DEF Next, vars, input, CreateNodesAndTravelArcs, AddAllSwitchingArcs,
         AddSwitchingArcsAtTerminals, AddStationProblemSwitchingArcs, AddSwitchingArcs,
         AddAllConnectionArcs, ComputeDegree2Chains, RemoveChain, RemoveFromStations,
         CheckConnectivity
<1>3. SUFFICES ASSUME phase' # "nodes"
               PROVE
    /\ \A a \in arcs' : ~a.connection =>
         /\ a = Travel(a.from[1], a.from, a.to, TimeBetween(a.from, a.to))
         /\ \A n \in nodes' : SameCourse(a.from, n)
              => Place(n) <= Place(a.from) \/ Place(a.to) <= Place(n)
    /\ \A n \in nodes' : Departing(n) => \E a \in arcs' : ~a.connection /\ a.from = n
  BY <1>2, SameClocks DEF Spanning, Travel
<1>4. CASE CreateNodesAndTravelArcs
  <2>1. arcs' = Rides /\ nodes' = AllNodes
    BY <1>4 DEF CreateNodesAndTravelArcs, Rides, AllNodes
  <2>2. RideFacts(Rides) /\ \A a \in Rides : ~a.connection
    BY <1>1, RidesOfLines
  <2>3. \A a \in Rides : IsHop(a)
    BY <2>2 DEF RideFacts, IsHop
  <2>4. \A a \in Rides :
          /\ a = Travel(a.from[1], a.from, a.to, TimeBetween(a.from, a.to))
          /\ \A n \in AllNodes : SameCourse(a.from, n)
               => Place(n) <= Place(a.from) \/ Place(a.to) <= Place(n)
    BY <1>1, <2>3, HopSpans
  <2>5. \A n \in AllNodes : Departing(n) => \E a \in Rides : ~a.connection /\ a.from = n
    BY <2>2 DEF RideFacts
  <2> QED
    BY <2>1, <2>4, <2>5
<1>5. CASE \/ AddAllSwitchingArcs \/ AddSwitchingArcsAtTerminals \/ AddStationProblemSwitchingArcs
           \/ AddAllConnectionArcs
  <2>1. PICK B : arcs' = arcs \cup B /\ \A a \in B : a.connection
    <3>1. CASE AddAllConnectionArcs
      <4>1. PICK B : B = UNION {ConnectionArcs(s) : s \in StationNames} /\ arcs' = arcs \cup B
        BY <3>1 DEF AddAllConnectionArcs
      <4>2. RideFacts(arcs)
        BY <3>1 DEF AddAllConnectionArcs, GInv, Stage
      <4>3. \A a \in B : a.connection
        BY <1>1, <4>1, <4>2, AddedChanges, AddedArcsFit
      <4> QED
        BY <4>1, <4>3
    <3>2. CASE \/ AddAllSwitchingArcs \/ AddSwitchingArcsAtTerminals
               \/ AddStationProblemSwitchingArcs
      <4>1. PICK B :
              /\ \/ B = UNION {AllTurns(l) : l \in DOMAIN lines} /\ ~preprocess
                 \/ B = UNION {TerminalTurns(l) : l \in DOMAIN lines} /\ type = "SEGMENT"
                 \/ B = UNION {StationProblemTurns(l) : l \in DOMAIN lines} /\ type = "STATION"
              /\ arcs' = arcs \cup B
        BY <3>2 DEF AddAllSwitchingArcs, AddSwitchingArcsAtTerminals,
                    AddStationProblemSwitchingArcs, AddSwitchingArcs
      <4>2. \A a \in B : a.connection
        BY <1>1, <4>1, AddedTurns, AddedArcsFit
      <4> QED
        BY <4>1, <4>2
    <3> QED
      BY <1>5, <3>1, <3>2
  <2>2. nodes' = nodes /\ phase # "nodes"
    BY <1>5 DEF AddAllSwitchingArcs, AddSwitchingArcsAtTerminals, AddStationProblemSwitchingArcs,
                AddSwitchingArcs, AddAllConnectionArcs
  <2> QED
    BY <2>1, <2>2 DEF Spanning
<1>6. CASE RemoveChain
  <2>1. PICK C \in chains :
          /\ phase = "removing"
          /\ \/ arcs' = (arcs \ ArcsOf(C)) \cup {NewArc(C)} /\ nodes' = nodes \ C
             \/ arcs' = arcs /\ nodes' = nodes
    BY <1>6 DEF RemoveChain
  <2>2. CASE arcs' = (arcs \ ArcsOf(C)) \cup {NewArc(C)} /\ nodes' = nodes \ C
    <3> PICK A : A = arcs'
      OBVIOUS
    <3>1. A = (arcs \ ArcsOf(C)) \cup {NewArc(C)} /\ phase # "nodes"
      BY <2>1, <2>2
    <3>2. /\ \A a \in A : ~a.connection =>
              /\ a = Travel(a.from[1], a.from, a.to, TimeBetween(a.from, a.to))
              /\ \A n \in nodes \ C : SameCourse(a.from, n)
                   => Place(n) <= Place(a.from) \/ Place(a.to) <= Place(n)
          /\ \A n \in nodes \ C : Departing(n) => \E a \in A : ~a.connection /\ a.from = n
      BY <1>1, <3>1, RemovalSpans
    <3> QED
      BY <2>2, <3>2
  <2>3. CASE arcs' = arcs /\ nodes' = nodes
    BY <2>1, <2>3 DEF Spanning
  <2> QED
    BY <2>1, <2>2, <2>3
<1>7. CASE ComputeDegree2Chains \/ RemoveFromStations \/ CheckConnectivity \/ UNCHANGED vars
  <2>1. UNCHANGED <<nodes, arcs>> /\ phase # "nodes"
    BY <1>3, <1>7 DEF ComputeDegree2Chains, RemoveFromStations, CheckConnectivity, vars
  <2> QED
    BY <2>1 DEF Spanning
<1> QED
  BY <1>4, <1>5, <1>6, <1>7 DEF Next

-----------------------------------------------------------------------------
(* The map of stations: all nodes of a station, or the station is not in it. *)

LEMMA StationStaysWhole ==
  ASSUME lines \in LineMaps, NodeFacts, NEW n \in AllNodes, NEW m \in AllNodes,
         SameStation(n, m), Undecided(n)
  PROVE  Undecided(m)
<1>1. m = n \/ m = Twin(n)
  <2>1. m[1] = n[1]
    BY DEF Undecided, NodeFacts
  <2> QED
    BY <2>1 DEF NodeFacts
<1>2. CASE m = Twin(n)
  <2>1. /\ Arriving(m) /\ Departing(m) /\ Twin(m) = n /\ StationOfNode(m) = StationOfNode(n)
    BY <1>2 DEF NodeFacts, Undecided, SameStation
  <2> QED
    BY <1>2, <2>1 DEF Undecided
<1> QED
  BY <1>1, <1>2

StationsOf(N) == [s \in {StationOfNode(n) : n \in N} |-> NodesAt(s)]

Listing ==
  /\ phase \in {"switching", "connections", "chains", "removing"} =>
       station_nodes = StationsOf(AllNodes) /\ redundant_nodes = AllNodes \ nodes
  /\ phase \in {"check", "built", "thrown"} => station_nodes = StationsOf(nodes)

LEMMA NamesOfNodes ==
  ASSUME lines \in LineMaps
  PROVE  StationsOf(AllNodes) = [s \in StationNames |-> NodesAt(s)]
<1>1. ASSUME NEW n \in AllNodes PROVE StationOfNode(n) \in StationNames
  BY NodeParts DEF StationNames, StationOfNode, StationAt, Stops, ToSet
<1>2. ASSUME NEW s \in StationNames PROVE \E n \in AllNodes : StationOfNode(n) = s
  <2>1. PICK l \in DOMAIN lines : \E i \in Stops(l) : s = StationAt(l, i)
    BY <1>2 DEF StationNames, StationAt, Stops, ToSet
  <2>2. PICK i \in Stops(l) : s = StationAt(l, i)
    BY <2>1
  <2>3. Way(l, i) \in AllNodes /\ StationOfNode(Way(l, i)) = s
    BY <2>2, WayAndBack DEF StationOfNode, Way
  <2> QED
    BY <2>3
<1>3. {StationOfNode(n) : n \in AllNodes} = StationNames
  BY <1>1, <1>2
<1> QED
  BY <1>3 DEF StationsOf

LEMMA SameListing ==
  ASSUME UNCHANGED lines
  PROVE  /\ \A N : StationsOf(N)' = StationsOf(N)
         /\ StationsOf(nodes)' = StationsOf(nodes')
<1>1. \A n : StationOfNode(n)' = StationOfNode(n)
  BY DEF StationOfNode, StationAt
<1> QED
  BY <1>1, SameLines DEF StationsOf

(* What RemoveFromStations leaves. *)
LEMMA WholeStationsGo ==
  ASSUME lines \in LineMaps, NodeFacts, nodes \subseteq AllNodes,
         \A n \in AllNodes \ nodes : Undecided(n), \A n \in nodes : ~Undecided(n),
         NEW left, left = [s \in StationNames |-> NodesAt(s) \ (AllNodes \ nodes)]
  PROVE  [s \in {t \in DOMAIN left : left[t] # {}} |-> left[s]] = StationsOf(nodes)
<1>1. \A s : \A n : n \in NodesAt(s) <=> n \in AllNodes /\ StationOfNode(n) = s
  BY DEF NodesAt, AllNodes
<1>2. ASSUME NEW s \in StationNames, left[s] # {}
      PROVE  left[s] = NodesAt(s) /\ \E n \in nodes : StationOfNode(n) = s
  <2>1. PICK n \in nodes : n \in AllNodes /\ StationOfNode(n) = s
    BY <1>1, <1>2
  <2>2. ASSUME NEW m \in NodesAt(s) PROVE m \in nodes
    <3>1. m \in AllNodes /\ SameStation(m, n)
      BY <1>1, <2>1, <2>2 DEF SameStation
    <3> QED
      BY <2>1, <3>1, StationStaysWhole
  <2> QED
    BY <1>2, <2>1, <2>2
<1>3. ASSUME NEW n \in nodes
      PROVE  /\ StationOfNode(n) \in StationNames /\ left[StationOfNode(n)] # {}
  <2>1. n \in AllNodes /\ StationOfNode(n) \in StationNames
    BY NodeParts DEF StationNames, StationOfNode, StationAt, Stops, ToSet
  <2>2. n \in NodesAt(StationOfNode(n))
    BY <1>1, <2>1
  <2> QED
    BY <2>1, <2>2
<1> DEFINE D == {t \in DOMAIN left : left[t] # {}}
<1>4. DOMAIN left = StationNames
  OBVIOUS
<1>5. D = {StationOfNode(n) : n \in nodes}
  BY <1>2, <1>3, <1>4
<1>6. \A s \in D : left[s] = NodesAt(s)
  BY <1>2, <1>4
<1> HIDE DEF D
<1>7. [s \in D |-> left[s]] = [s \in D |-> NodesAt(s)]
  BY <1>6
<1> QED
  BY <1>5, <1>7 DEF StationsOf, D

LEMMA NextListing ==
  ASSUME GInv, Remaining, Listing, [Next]_vars
  PROVE  Listing'
<1>1. lines \in LineMaps /\ TwoStops /\ nodes \subseteq AllNodes /\ NodeFacts
  BY NodesAreTwins DEF GInv, TypeOK
<1>2. UNCHANGED lines
  BY DEF Next, vars, input, CreateNodesAndTravelArcs, AddAllSwitchingArcs,
         AddSwitchingArcsAtTerminals, AddStationProblemSwitchingArcs, AddSwitchingArcs,
         AddAllConnectionArcs, ComputeDegree2Chains, RemoveChain, RemoveFromStations,
         CheckConnectivity
<1>3. SUFFICES /\ phase' \in {"switching", "connections", "chains", "removing"} =>
                    station_nodes' = StationsOf(AllNodes) /\ redundant_nodes' = AllNodes \ nodes'
               /\ phase' \in {"check", "built", "thrown"} => station_nodes' = StationsOf(nodes')
  BY <1>2, SameLines, SameListing DEF Listing
<1>4. CASE CreateNodesAndTravelArcs
  <2>1. /\ nodes' = AllNodes /\ phase' = "switching" /\ UNCHANGED redundant_nodes
        /\ station_nodes' = [s \in StationNames |-> NodesAt(s)] /\ phase = "nodes"
    BY <1>4 DEF CreateNodesAndTravelArcs, AllNodes
  <2>2. redundant_nodes = {}
    BY <2>1 DEF GInv, Stage
  <2> QED
    BY <1>1, <2>1, <2>2, NamesOfNodes
<1>5. CASE AddAllSwitchingArcs \/ AddSwitchingArcsAtTerminals \/ AddStationProblemSwitchingArcs
  <2>1. /\ UNCHANGED <<nodes, station_nodes, redundant_nodes>>
        /\ phase = "switching" /\ phase' = "connections"
    BY <1>5 DEF AddAllSwitchingArcs, AddSwitchingArcsAtTerminals, AddStationProblemSwitchingArcs,
                AddSwitchingArcs
  <2> QED
    BY <2>1 DEF Listing
<1>6. CASE AddAllConnectionArcs
  <2>1. /\ UNCHANGED <<nodes, station_nodes, redundant_nodes>>
        /\ phase = "connections" /\ phase' \in {"chains", "check"}
    BY <1>6 DEF AddAllConnectionArcs
  <2>2. nodes = AllNodes
    BY <2>1 DEF GInv, Stage
  <2> QED
    BY <2>1, <2>2 DEF Listing
<1>7. CASE ComputeDegree2Chains
  <2>1. /\ UNCHANGED <<nodes, station_nodes, redundant_nodes>>
        /\ phase = "chains" /\ phase' = "removing"
    BY <1>7 DEF ComputeDegree2Chains
  <2> QED
    BY <2>1 DEF Listing
<1>8. CASE RemoveChain
  <2>1. PICK C \in chains :
          /\ UNCHANGED station_nodes /\ phase = "removing" /\ phase' = "removing"
          /\ \/ nodes' = nodes \ C /\ redundant_nodes' = redundant_nodes \cup C
             \/ UNCHANGED <<nodes, redundant_nodes>>
    BY <1>8 DEF RemoveChain
  <2>2. C \subseteq AllNodes
    BY <1>1 DEF GInv, GoodChains
  <2> QED
    BY <2>1, <2>2 DEF Listing
<1>9. CASE RemoveFromStations
  <2>1. PICK left : /\ left = [s \in DOMAIN station_nodes |-> station_nodes[s] \ redundant_nodes]
                    /\ station_nodes' = [s \in {t \in DOMAIN left : left[t] # {}} |-> left[s]]
    BY <1>9 DEF RemoveFromStations
  <2>2. UNCHANGED nodes /\ phase = "removing" /\ phase' = "check" /\ chains = {}
    BY <1>9 DEF RemoveFromStations
  <2>3. station_nodes = [s \in StationNames |-> NodesAt(s)] /\ redundant_nodes = AllNodes \ nodes
    BY <1>1, <2>2, NamesOfNodes DEF Listing
  <2>4. left = [s \in StationNames |-> NodesAt(s) \ (AllNodes \ nodes)]
    BY <2>1, <2>3
  <2>5. (\A n \in AllNodes \ nodes : Undecided(n)) /\ \A n \in nodes : ~Undecided(n)
    BY <2>2 DEF Remaining
  <2>6. station_nodes' = StationsOf(nodes)
    BY <1>1, <2>1, <2>4, <2>5, WholeStationsGo
  <2> QED
    BY <2>2, <2>6
<1>10. CASE CheckConnectivity \/ UNCHANGED vars
  <2>1. /\ UNCHANGED <<nodes, station_nodes, redundant_nodes>>
        /\ phase' = phase \/ (phase = "check" /\ phase' \in {"built", "thrown"})
    BY <1>10 DEF CheckConnectivity, vars
  <2> QED
    BY <2>1 DEF Listing
<1> QED
  BY <1>4, <1>5, <1>6, <1>7, <1>8, <1>9, <1>10 DEF Next

-----------------------------------------------------------------------------
(* The graph as module TransportGraph states it. *)

(* What module TransportGraph says of lines is what module Lines says.      *)
LEMMA SamePromise ==
  /\ Promise!StationNames = StationNames
  /\ \A s : Promise!LinesAt(s) = LinesAt(s)
  /\ \A s : Promise!IsConnecting(s) <=> IsConnecting(s)
  /\ \A s : Promise!NodesAt(s) = NodesAt(s)
  /\ \A n : Promise!StationOfNode(n) = StationOfNode(n)
  /\ \A l : /\ Promise!Stops(l) = Stops(l) /\ Promise!LastStop(l) = LastStop(l)
            /\ Promise!LineNodes(l) = LineNodes(l)
  /\ \A l, i : /\ Promise!StationAt(l, i) = StationAt(l, i)
               /\ (Promise!IsTerminal(l, i) <=> IsTerminal(l, i))
               /\ (Promise!ConnectingStop(l, i) <=> ConnectingStop(l, i))
               /\ (Promise!HasPrecedingConnecting(l, i) <=> HasPrecedingConnecting(l, i))
               /\ (Promise!HasFollowingConnecting(l, i) <=> HasFollowingConnecting(l, i))
               /\ Promise!Way(l, i) = Way(l, i) /\ Promise!Back(l, i) = Back(l, i)
  /\ \A l, i, j : Promise!RideTime(l, i, j) = RideTime(l, i, j)
  /\ \A l, u, v, t : Promise!Travel(l, u, v, t) = Travel(l, u, v, t)
  /\ \A u, v, c : Promise!Change(u, v, c) = Change(u, v, c)
<1>1. /\ \A l : Promise!Stops(l) = Stops(l) /\ Promise!LastStop(l) = LastStop(l)
      /\ \A l, i : Promise!StationAt(l, i) = StationAt(l, i)
      /\ \A s : Promise!LinesAt(s) = LinesAt(s)
      /\ Promise!StationNames = StationNames
  BY DEF Promise!Stops, Stops, Promise!LastStop, LastStop, Promise!StationAt, StationAt,
         Promise!LinesAt, LinesAt, Promise!StationNames, StationNames, Promise!ToSet, ToSet
<1>2. \A s : Promise!IsConnecting(s) <=> IsConnecting(s)
  BY <1>1 DEF Promise!IsConnecting, IsConnecting, Promise!Cardinality, Cardinality
<1>3. \A l, i : Promise!ConnectingStop(l, i) <=> ConnectingStop(l, i)
  BY <1>1, <1>2 DEF Promise!ConnectingStop, ConnectingStop
<1>4. \A l, i : /\ (Promise!IsTerminal(l, i) <=> IsTerminal(l, i))
                /\ (Promise!HasPrecedingConnecting(l, i) <=> HasPrecedingConnecting(l, i))
                /\ (Promise!HasFollowingConnecting(l, i) <=> HasFollowingConnecting(l, i))
  BY <1>1, <1>3 DEF Promise!IsTerminal, IsTerminal, Promise!HasPrecedingConnecting,
     HasPrecedingConnecting, Promise!HasFollowingConnecting, HasFollowingConnecting
<1>5. /\ \A l, i : Promise!Way(l, i) = Way(l, i) /\ Promise!Back(l, i) = Back(l, i)
      /\ \A l : Promise!LineNodes(l) = LineNodes(l)
      /\ \A n : Promise!StationOfNode(n) = StationOfNode(n)
  BY <1>1 DEF Promise!Way, Way, Promise!Back, Back, Promise!LineNodes, LineNodes,
     Promise!Directions, Directions, Promise!StationOfNode, StationOfNode
<1>6. \A s : Promise!NodesAt(s) = NodesAt(s)
  BY <1>5 DEF Promise!NodesAt, NodesAt
<1>7. /\ \A l, i, j : Promise!RideTime(l, i, j) = RideTime(l, i, j)
      /\ \A l, u, v, t : Promise!Travel(l, u, v, t) = Travel(l, u, v, t)
      /\ \A u, v, c : Promise!Change(u, v, c) = Change(u, v, c)
  BY DEF Promise!RideTime, RideTime, Promise!AsInt, AsInt, Promise!Travel, Travel,
     Promise!Change, Change, Promise!CHANGE_NAME, CHANGE_NAME
<1> QED
  BY <1>1, <1>2, <1>3, <1>4, <1>5, <1>6, <1>7

LEMMA PromisedTurns ==
  ASSUME lines \in LineMaps, type \in {"STATION", "SEGMENT"}, TwoStops,
         NEW l \in DOMAIN lines, NEW i \in Stops(l)
  PROVE  /\ Promise!CanTurnBack(l, i) <=> MayTurn(Way(l, i))
         /\ Promise!CanTurnAround(l, i) <=> MayTurn(Back(l, i))
<1>1. /\ LastStop(l) \in Nat /\ LastStop(l) > 1 /\ Stops(l) = 1..LastStop(l) /\ i \in 1..LastStop(l)
  BY LineFacts DEF TwoStops
<1>2. /\ StationOfNode(Way(l, i)) = StationAt(l, i) /\ StationOfNode(Back(l, i)) = StationAt(l, i)
      /\ (Arriving(Way(l, i)) <=> (i > 1)) /\ (Departing(Way(l, i)) <=> (i < LastStop(l)))
      /\ (Arriving(Back(l, i)) <=> (i < LastStop(l))) /\ (Departing(Back(l, i)) <=> (i > 1))
  BY TurnsOfStop
<1>3. CASE ~preprocess
  BY <1>3 DEF MayTurn, Promise!CanTurnBack, Promise!CanTurnAround
<1>4. CASE preprocess /\ type = "SEGMENT"
  BY SamePromise, <1>1, <1>2, <1>4 DEF MayTurn, Promise!CanTurnBack, Promise!CanTurnAround
<1>5. CASE preprocess /\ type = "STATION"
  <2>1. /\ Preceded(Way(l, i)) <=> HasPrecedingConnecting(l, i)
        /\ Preceded(Back(l, i)) <=> HasFollowingConnecting(l, i)
    BY PrecededStops
  <2>2. StationOfNode(NextStop(Way(l, i))) = StationAt(l, i + 1)
    BY DEF StationOfNode, NextStop, Way
  <2>3. StationOfNode(NextStop(Back(l, i))) = StationAt(l, i - 1)
    BY DEF StationOfNode, NextStop, Back
  <2>4. MayTurn(Way(l, i)) <=>
          /\ ~ConnectingStop(l, i)
          /\ i < LastStop(l) => i > 1 /\ ConnectingStop(l, i + 1) /\ HasPrecedingConnecting(l, i)
    BY <1>2, <1>5, <2>1, <2>2 DEF MayTurn, TurnsAt, ConnectingStop
  <2>5. MayTurn(Back(l, i)) <=>
          /\ ~ConnectingStop(l, i)
          /\ i > 1 => i < LastStop(l) /\ ConnectingStop(l, i - 1) /\ HasFollowingConnecting(l, i)
    BY <1>2, <1>5, <2>1, <2>3 DEF MayTurn, TurnsAt, ConnectingStop
  <2>6. /\ i < LastStop(l) /\ ConnectingStop(l, i + 1) => HasFollowingConnecting(l, i)
        /\ i > 1 /\ ConnectingStop(l, i - 1) => HasPrecedingConnecting(l, i)
    BY <1>1 DEF HasFollowingConnecting, HasPrecedingConnecting
  <2>7. /\ i < LastStop(l) => i + 1 \in Stops(l)
        /\ i > 1 => i - 1 \in Stops(l)
        /\ IsTerminal(l, i) <=> i = 1 \/ i = LastStop(l)
    BY <1>1 DEF IsTerminal
  <2>8. Promise!CanTurnBack(l, i) <=>
          \/ i = LastStop(l) /\ ~ConnectingStop(l, i)
          \/ Promise!InnerStop(l, i) /\ i + 1 \in Stops(l) /\ ConnectingStop(l, i + 1)
    BY SamePromise, <1>5 DEF Promise!CanTurnBack, Promise!TurnsBeforeChange
  <2>9. Promise!CanTurnAround(l, i) <=>
          \/ i = 1 /\ ~ConnectingStop(l, i)
          \/ Promise!InnerStop(l, i) /\ i - 1 \in Stops(l) /\ ConnectingStop(l, i - 1)
    BY SamePromise, <1>5 DEF Promise!CanTurnAround, Promise!TurnsBeforeChange
  <2>10. Promise!InnerStop(l, i) <=>
           /\ ~ConnectingStop(l, i) /\ ~IsTerminal(l, i)
           /\ HasPrecedingConnecting(l, i) /\ HasFollowingConnecting(l, i)
    BY SamePromise DEF Promise!InnerStop
  <2>11. Promise!CanTurnBack(l, i) <=> MayTurn(Way(l, i))
    BY <1>1, <2>4, <2>6, <2>7, <2>8, <2>10
  <2>12. Promise!CanTurnAround(l, i) <=> MayTurn(Back(l, i))
    BY <1>1, <2>5, <2>6, <2>7, <2>9, <2>10
  <2> QED
    BY <2>11, <2>12
<1> QED
  BY <1>3, <1>4, <1>5

LEMMA PromisedStops ==
  ASSUME lines \in LineMaps, type \in {"STATION", "SEGMENT"}, TwoStops, NEW n \in AllNodes
  PROVE  Promise!Stays(n[1], n[3]) <=> ~Undecided(n)
<1> PICK l, i : l = n[1] /\ i = n[3]
  OBVIOUS
<1>1. /\ l \in DOMAIN lines /\ i \in Stops(l)
      /\ (n = Way(l, i) /\ n[2] = "way") \/ (n = Back(l, i) /\ n[2] = "back")
  BY NodeParts
<1>2. /\ LastStop(l) \in Nat /\ LastStop(l) > 1 /\ i \in 1..LastStop(l)
      /\ IsTerminal(l, i) <=> i = 1 \/ i = LastStop(l)
  BY <1>1, LineFacts DEF TwoStops, IsTerminal
<1>3. Promise!Stays(l, i) <=>
        ~preprocess \/ ConnectingStop(l, i) \/ IsTerminal(l, i)
          \/ MayTurn(Way(l, i)) \/ MayTurn(Back(l, i))
  BY SamePromise, <1>1, PromisedTurns DEF Promise!Stays
<1>4. /\ StationOfNode(n) = StationAt(l, i) /\ (Arriving(n) /\ Departing(n) <=> ~IsTerminal(l, i))
      /\ Arriving(Way(l, i)) /\ Departing(Way(l, i)) <=> ~IsTerminal(l, i)
      /\ Arriving(Back(l, i)) /\ Departing(Back(l, i)) <=> ~IsTerminal(l, i)
      /\ StationOfNode(Way(l, i)) = StationAt(l, i) /\ StationOfNode(Back(l, i)) = StationAt(l, i)
  BY <1>1, <1>2, TurnsOfStop
<1>5. (n = Way(l, i) /\ Twin(n) = Back(l, i)) \/ (n = Back(l, i) /\ Twin(n) = Way(l, i))
  BY <1>1 DEF Twin, Way, Back
<1>6. ASSUME preprocess, ~ConnectingStop(l, i), ~IsTerminal(l, i)
      PROVE  MayTurn(Way(l, i)) \/ MayTurn(Back(l, i)) <=>
               type = "STATION" /\ (TurnsAt(n) \/ TurnsAt(Twin(n)))
  BY <1>4, <1>5, <1>6 DEF MayTurn, ConnectingStop
<1> QED
  BY <1>3, <1>4, <1>6 DEF Undecided, ConnectingStop

LEMMA PromisedNodes ==
  ASSUME lines \in LineMaps, type \in {"STATION", "SEGMENT"}, TwoStops
  PROVE  Promise!GraphNodes = {n \in AllNodes : ~Undecided(n)}
<1>1. \A n \in AllNodes : n[3] \in Stops(n[1])
  BY NodeParts
<1> QED
  BY SamePromise, <1>1, PromisedStops DEF Promise!GraphNodes, Promise!Kept, AllNodes

LEMMA TurnArcs ==
  ASSUME lines \in LineMaps, type \in {"STATION", "SEGMENT"}, TwoStops, NEW a
  PROVE  IsTurn(a) /\ MayTurn(a.from) <=> a \in UNION {Promise!Turns(l) : l \in DOMAIN lines}
<1>1. ASSUME NEW l \in DOMAIN lines
      PROVE  a \in Promise!Turns(l) <=>
               \E i \in Stops(l) : \/ a = TurnBack(l, i) /\ MayTurn(Way(l, i))
                                   \/ a = TurnAround(l, i) /\ MayTurn(Back(l, i))
  BY SamePromise, PromisedTurns DEF Promise!Turns, TurnBack, TurnAround
<1>2. ASSUME IsTurn(a), MayTurn(a.from)
      PROVE  \E l \in DOMAIN lines : a \in Promise!Turns(l)
  <2>1. PICK l \in DOMAIN lines : \E i \in Stops(l) : a = TurnBack(l, i) \/ a = TurnAround(l, i)
    BY <1>2, TurnOfStop
  <2>2. PICK i \in Stops(l) : a = TurnBack(l, i) \/ a = TurnAround(l, i)
    BY <2>1
  <2> QED
    BY <1>1, <1>2, <2>2, TurnsOfStop
<1>3. ASSUME NEW l \in DOMAIN lines, a \in Promise!Turns(l)
      PROVE  IsTurn(a) /\ MayTurn(a.from)
  <2>1. PICK i \in Stops(l) : \/ a = TurnBack(l, i) /\ MayTurn(Way(l, i))
                              \/ a = TurnAround(l, i) /\ MayTurn(Back(l, i))
    BY <1>1, <1>3
  <2> QED
    BY <2>1, TurnsOfStop
<1> QED
  BY <1>2, <1>3

LEMMA ChangeArcs ==
  ASSUME lines \in LineMaps, type \in {"STATION", "SEGMENT"}, TwoStops, NEW a
  PROVE  IsChange(a) <=> a \in Promise!Changes
<1>1. ASSUME NEW n \in AllNodes
      PROVE  (Promise!Arrives(n) <=> Arriving(n)) /\ (Promise!Departs(n) <=> Departing(n))
  <2> PICK l, j : l = n[1] /\ j = n[3]
    OBVIOUS
  <2>1. l \in DOMAIN lines /\ j \in Stops(l) /\ LastStop(l) \in Nat /\ Stops(l) = 1..LastStop(l)
    BY NodeParts, LineFacts
  <2>2. /\ (\E i \in Stops(l) : i < j) <=> j > 1
        /\ (\E i \in Stops(l) : j < i) <=> j < LastStop(l)
    BY <2>1
  <2> QED
    BY SamePromise, <2>2 DEF Promise!Arrives, Promise!Departs, Arriving, Departing
<1>2. NodeFacts /\ Promise!GraphNodes = {n \in AllNodes : ~Undecided(n)}
  BY NodesAreTwins, PromisedNodes
<1>3. ASSUME IsChange(a) PROVE a \in Promise!Changes
  <2>1. /\ a.from \in AllNodes /\ a.to \in AllNodes
        /\ IsConnecting(StationOfNode(a.from)) /\ IsConnecting(StationOfNode(a.to))
    BY <1>2, <1>3, ChangeMeets DEF IsChange
  <2>2. a.from \in Promise!GraphNodes /\ a.to \in Promise!GraphNodes
    BY <1>2, <2>1 DEF Undecided
  <2>3. /\ a.from[1] # a.to[1] /\ StationOfNode(a.from) = StationOfNode(a.to)
        /\ Promise!Arrives(a.from) /\ Promise!Departs(a.to)
        /\ a = Change(a.from, a.to, change_cost)
    BY <1>1, <1>3 DEF IsChange, SameStation
  <2> PICK p : p = <<a.from, a.to>>
    OBVIOUS
  <2>4. /\ p \in Promise!GraphNodes \X Promise!GraphNodes
        /\ p[1][1] # p[2][1] /\ StationOfNode(p[1]) = StationOfNode(p[2])
        /\ Promise!Arrives(p[1]) /\ Promise!Departs(p[2])
        /\ a = Change(p[1], p[2], change_cost)
    BY <2>2, <2>3
  <2> QED
    BY SamePromise, <2>4 DEF Promise!Changes
<1>4. ASSUME a \in Promise!Changes PROVE IsChange(a)
  <2>1. PICK u \in Promise!GraphNodes : \E v \in Promise!GraphNodes :
          /\ u[1] # v[1] /\ StationOfNode(u) = StationOfNode(v)
          /\ Promise!Arrives(u) /\ Promise!Departs(v) /\ a = Change(u, v, change_cost)
    BY SamePromise, <1>4 DEF Promise!Changes
  <2>2. PICK v \in Promise!GraphNodes :
          /\ u[1] # v[1] /\ StationOfNode(u) = StationOfNode(v)
          /\ Promise!Arrives(u) /\ Promise!Departs(v) /\ a = Change(u, v, change_cost)
    BY <2>1
  <2>3. u \in AllNodes /\ v \in AllNodes /\ a.from = u /\ a.to = v
    BY <1>2, <2>2 DEF Change
  <2> QED
    BY <1>1, <2>2, <2>3 DEF IsChange, SameStation
<1> QED
  BY <1>3, <1>4

LEMMA KeptNodes ==
  ASSUME lines \in LineMaps, nodes = Promise!GraphNodes, NEW l \in DOMAIN lines
  PROVE  /\ Promise!Kept(l) \subseteq Stops(l)
         /\ \A i \in Stops(l) : /\ (i \in Promise!Kept(l) <=> Way(l, i) \in nodes)
                                /\ (i \in Promise!Kept(l) <=> Back(l, i) \in nodes)
<1>1. Promise!Kept(l) \subseteq Stops(l)
  BY SamePromise DEF Promise!Kept
<1>2. nodes = {n \in AllNodes : n[3] \in Promise!Kept(n[1])}
  BY SamePromise DEF Promise!GraphNodes, AllNodes
<1>3. \A i \in Stops(l) : /\ Way(l, i) \in AllNodes /\ Back(l, i) \in AllNodes
                          /\ Way(l, i)[1] = l /\ Back(l, i)[1] = l
                          /\ Way(l, i)[3] = i /\ Back(l, i)[3] = i
  BY WayAndBack DEF Way, Back
<1> QED
  BY <1>1, <1>2, <1>3

(* A ride to the next stop that is left. *)
IsRide(a) ==
  /\ a.from \in nodes /\ a.to \in nodes
  /\ SameCourse(a.from, a.to) /\ Place(a.from) < Place(a.to)
  /\ \A n \in nodes : SameCourse(a.from, n) => Place(n) <= Place(a.from) \/ Place(a.to) <= Place(n)
  /\ a = Travel(a.from[1], a.from, a.to, TimeBetween(a.from, a.to))

LEMMA RidesLeft ==
  ASSUME lines \in LineMaps, nodes \subseteq AllNodes, Spanning, Forward, phase # "nodes",
         \A a \in arcs : a.from \in nodes /\ a.to \in nodes, NEW a
  PROVE  a \in arcs /\ ~a.connection <=> IsRide(a)
<1>1. ASSUME a \in arcs, ~a.connection PROVE IsRide(a)
  BY <1>1 DEF Spanning, Forward, RunsAhead, IsRide
<1>2. ASSUME IsRide(a) PROVE a \in arcs /\ ~a.connection
  <2>1. /\ a.from \in AllNodes /\ a.to \in AllNodes /\ a.from \in nodes /\ a.to \in nodes
        /\ SameCourse(a.from, a.to) /\ Place(a.from) < Place(a.to)
        /\ a = Travel(a.from[1], a.from, a.to, TimeBetween(a.from, a.to))
    BY <1>2 DEF IsRide
  <2>2. Departing(a.from)
    <3>1. /\ LastStop(a.from[1]) \in Nat
          /\ a.from[3] \in 1..LastStop(a.from[1]) /\ a.to[3] \in 1..LastStop(a.to[1])
      BY <2>1, NodeParts, LineFacts
    <3> QED
      BY <2>1, <3>1 DEF Departing, Place, SameCourse
  <2>3. PICK b \in arcs : ~b.connection /\ b.from = a.from
    BY <2>1, <2>2 DEF Spanning
  <2>4. IsRide(b)
    BY <2>3 DEF Spanning, Forward, RunsAhead, IsRide
  <2>5. /\ b.to \in AllNodes /\ b.to \in nodes /\ SameCourse(a.from, b.to)
        /\ Place(a.from) < Place(b.to)
        /\ Place(a.to) <= Place(a.from) \/ Place(b.to) <= Place(a.to)
    BY <2>1, <2>3, <2>4 DEF IsRide
  <2>6. /\ Place(a.from) \in Nat /\ Place(a.to) \in Nat /\ Place(b.to) \in Nat
        /\ Place(b.to) <= Place(a.to)
    BY <2>1, <2>5, PlaceFacts
  <2>7. Place(a.to) <= Place(b.to)
    BY <1>2, <2>5, <2>6 DEF IsRide
  <2>8. SameCourse(a.to, b.to) /\ Place(a.to) = Place(b.to)
    BY <2>1, <2>5, <2>6, <2>7 DEF SameCourse
  <2>9. a.to = b.to
    BY <2>1, <2>5, <2>8, PlaceInjective
  <2>10. b = Travel(b.from[1], b.from, b.to, TimeBetween(b.from, b.to))
    BY <2>4 DEF IsRide
  <2>11. a = b
    BY <2>1, <2>3, <2>9, <2>10
  <2> QED
    BY <2>3, <2>11
<1> QED
  BY <1>1, <1>2

LEMMA RidesPromised ==
  ASSUME lines \in LineMaps, nodes = Promise!GraphNodes, nodes \subseteq AllNodes, NEW a
  PROVE  IsRide(a) <=> a \in UNION {Promise!Rides(l) : l \in DOMAIN lines}
<1>1. ASSUME NEW l \in DOMAIN lines
      PROVE  a \in Promise!Rides(l) <=>
               \E i \in Promise!Kept(l) : \E j \in Promise!Kept(l) :
                 /\ Promise!NextKept(l, i, j)
                 /\ \/ a = Travel(l, Way(l, i), Way(l, j), RideTime(l, i, j))
                    \/ a = Travel(l, Back(l, j), Back(l, i), RideTime(l, i, j))
  <2> DEFINE hops == {p \in Promise!Kept(l) \X Promise!Kept(l) : Promise!NextKept(l, p[1], p[2])}
  <2>1. a \in Promise!Rides(l) <=>
          \E p \in hops : \/ a = Travel(l, Way(l, p[1]), Way(l, p[2]), RideTime(l, p[1], p[2]))
                          \/ a = Travel(l, Back(l, p[2]), Back(l, p[1]), RideTime(l, p[1], p[2]))
    BY SamePromise DEF Promise!Rides
  <2>2. \A p : p \in hops <=> /\ p \in Promise!Kept(l) \X Promise!Kept(l)
                              /\ Promise!NextKept(l, p[1], p[2])
    OBVIOUS
  <2> HIDE DEF hops
  <2>3. ASSUME a \in Promise!Rides(l)
        PROVE  \E i \in Promise!Kept(l) : \E j \in Promise!Kept(l) :
                 /\ Promise!NextKept(l, i, j)
                 /\ \/ a = Travel(l, Way(l, i), Way(l, j), RideTime(l, i, j))
                    \/ a = Travel(l, Back(l, j), Back(l, i), RideTime(l, i, j))
    <3>1. PICK p \in hops : \/ a = Travel(l, Way(l, p[1]), Way(l, p[2]), RideTime(l, p[1], p[2]))
                            \/ a = Travel(l, Back(l, p[2]), Back(l, p[1]), RideTime(l, p[1], p[2]))
      BY <2>1, <2>3
    <3> QED
      BY <2>2, <3>1
  <2>4. ASSUME NEW i \in Promise!Kept(l), NEW j \in Promise!Kept(l),
               Promise!NextKept(l, i, j),
               \/ a = Travel(l, Way(l, i), Way(l, j), RideTime(l, i, j))
               \/ a = Travel(l, Back(l, j), Back(l, i), RideTime(l, i, j))
        PROVE  a \in Promise!Rides(l)
    <3> PICK p : p = <<i, j>>
      OBVIOUS
    <3>1. p \in Promise!Kept(l) \X Promise!Kept(l) /\ p[1] = i /\ p[2] = j
      OBVIOUS
    <3>2. p \in hops
      BY <2>2, <2>4, <3>1
    <3> QED
      BY <2>1, <2>4, <3>1, <3>2
  <2> QED
    BY <2>3, <2>4
<1>2. ASSUME IsRide(a) PROVE \E l \in DOMAIN lines : a \in Promise!Rides(l)
  <2> PICK l, i, j : l = a.from[1] /\ i = a.from[3] /\ j = a.to[3]
    OBVIOUS
  <2>1. /\ a.from \in nodes /\ a.to \in nodes /\ a.from \in AllNodes /\ a.to \in AllNodes
        /\ a.to[1] = l /\ a.to[2] = a.from[2] /\ Place(a.from) < Place(a.to)
        /\ a = Travel(l, a.from, a.to, TimeBetween(a.from, a.to))
    BY <1>2 DEF IsRide, SameCourse
  <2>2. /\ l \in DOMAIN lines /\ i \in Stops(l) /\ j \in Stops(l)
        /\ Stops(l) = 1..LastStop(l) /\ LastStop(l) \in Nat
        /\ (a.from = Way(l, i) /\ a.from[2] = "way") \/ (a.from = Back(l, i) /\ a.from[2] = "back")
        /\ (a.to = Way(l, j) /\ a.to[2] = "way") \/ (a.to = Back(l, j) /\ a.to[2] = "back")
    BY <2>1, NodeParts, LineFacts
  <2>3. /\ Promise!Kept(l) \subseteq Stops(l)
        /\ \A k \in Stops(l) : /\ (k \in Promise!Kept(l) <=> Way(l, k) \in nodes)
                               /\ (k \in Promise!Kept(l) <=> Back(l, k) \in nodes)
    BY <2>2, KeptNodes
  <2>4. i \in Promise!Kept(l) /\ j \in Promise!Kept(l)
    BY <2>1, <2>2, <2>3
  <2>5. CASE a.from[2] = "way"
    <3>1. a.from = Way(l, i) /\ a.to = Way(l, j) /\ i < j
      BY <2>1, <2>2, <2>5 DEF Place
    <3>2. ASSUME NEW k \in Promise!Kept(l) PROVE k <= i \/ j <= k
      <4>1. Way(l, k) \in nodes /\ SameCourse(a.from, Way(l, k)) /\ Place(Way(l, k)) = k
        BY <2>3, <3>1, <3>2 DEF SameCourse, Place, Way
      <4>2. Place(a.from) = i /\ Place(a.to) = j
        BY <2>1, <2>5 DEF Place
      <4> QED
        BY <1>2, <4>1, <4>2 DEF IsRide
    <3>3. a = Travel(l, Way(l, i), Way(l, j), RideTime(l, i, j))
      BY <2>1, <2>5, <3>1 DEF TimeBetween
    <3>4. Promise!NextKept(l, i, j)
      BY <3>1, <3>2 DEF Promise!NextKept
    <3>5. a \in Promise!Rides(l)
      BY <1>1, <2>2, <2>4, <3>3, <3>4
    <3> QED
      BY <2>2, <3>5
  <2>6. CASE a.from[2] = "back"
    <3>1. a.from = Back(l, i) /\ a.to = Back(l, j) /\ j < i
          /\ Place(a.from) = LastStop(l) - i /\ Place(a.to) = LastStop(l) - j
      BY <2>1, <2>2, <2>6 DEF Place
    <3>2. ASSUME NEW k \in Promise!Kept(l) PROVE k <= j \/ i <= k
      <4>1. Back(l, k) \in nodes /\ SameCourse(a.from, Back(l, k))
            /\ Place(Back(l, k)) = LastStop(l) - k /\ k \in 1..LastStop(l)
        BY <2>2, <2>3, <3>1, <3>2 DEF SameCourse, Place, Back
      <4>2. Place(Back(l, k)) <= Place(a.from) \/ Place(a.to) <= Place(Back(l, k))
        BY <1>2, <4>1 DEF IsRide
      <4>3. i \in Int /\ j \in Int /\ k \in Int /\ LastStop(l) \in Int
        BY <2>2, <4>1
      <4>4. LastStop(l) - k <= LastStop(l) - i \/ LastStop(l) - j <= LastStop(l) - k
        BY <3>1, <4>1, <4>2
      <4> QED
        BY <4>3, <4>4
    <3>3. a = Travel(l, Back(l, i), Back(l, j), RideTime(l, j, i))
      BY <2>1, <2>6, <3>1 DEF TimeBetween
    <3>4. Promise!NextKept(l, j, i)
      BY <3>1, <3>2 DEF Promise!NextKept
    <3> QED
      BY <1>1, <2>2, <2>4, <3>3, <3>4
  <2> QED
    BY <2>2, <2>5, <2>6
<1>3. ASSUME NEW l \in DOMAIN lines, a \in Promise!Rides(l) PROVE IsRide(a)
  <2>1. PICK i \in Promise!Kept(l) : \E j \in Promise!Kept(l) :
                 /\ Promise!NextKept(l, i, j)
                 /\ \/ a = Travel(l, Way(l, i), Way(l, j), RideTime(l, i, j))
                    \/ a = Travel(l, Back(l, j), Back(l, i), RideTime(l, i, j))
    BY <1>1, <1>3
  <2>2. PICK j \in Promise!Kept(l) :
                 /\ Promise!NextKept(l, i, j)
                 /\ \/ a = Travel(l, Way(l, i), Way(l, j), RideTime(l, i, j))
                    \/ a = Travel(l, Back(l, j), Back(l, i), RideTime(l, i, j))
    BY <2>1
  <2>0. i < j /\ \A k \in Promise!Kept(l) : k <= i \/ j <= k
    BY <2>2 DEF Promise!NextKept
  <2>3. /\ Promise!Kept(l) \subseteq Stops(l)
        /\ \A k \in Stops(l) : /\ (k \in Promise!Kept(l) <=> Way(l, k) \in nodes)
                               /\ (k \in Promise!Kept(l) <=> Back(l, k) \in nodes)
        /\ Stops(l) = 1..LastStop(l) /\ LastStop(l) \in Nat
    BY KeptNodes, LineFacts
  <2>4. i \in 1..LastStop(l) /\ j \in 1..LastStop(l)
    BY <2>3
  <2>5. ASSUME NEW n \in nodes, n[1] = l
        PROVE  /\ n[3] \in Promise!Kept(l) /\ n[3] \in 1..LastStop(l)
               /\ Place(n) = IF n[2] = "way" THEN n[3] ELSE LastStop(l) - n[3]
    <3>1. n[3] \in Stops(l) /\ (n = Way(l, n[3]) \/ n = Back(l, n[3]))
      BY <2>5, NodeParts
    <3> QED
      BY <2>3, <2>5, <3>1 DEF Place
  <2>6. CASE a = Travel(l, Way(l, i), Way(l, j), RideTime(l, i, j))
    <3>1. /\ a.from = Way(l, i) /\ a.to = Way(l, j)
          /\ Way(l, i)[1] = l /\ Way(l, i)[2] = "way" /\ Way(l, i)[3] = i
          /\ Way(l, j)[1] = l /\ Way(l, j)[2] = "way" /\ Way(l, j)[3] = j
      BY <2>6 DEF Travel, Way
    <3>2. a.from \in nodes /\ a.to \in nodes
      BY <2>3, <3>1
    <3>3. SameCourse(a.from, a.to) /\ Place(a.from) = i /\ Place(a.to) = j
      BY <3>1 DEF SameCourse, Place
    <3>4. TimeBetween(a.from, a.to) = RideTime(l, i, j)
      BY <3>1 DEF TimeBetween
    <3>5. ASSUME NEW n \in nodes, SameCourse(a.from, n)
          PROVE  Place(n) <= Place(a.from) \/ Place(a.to) <= Place(n)
      <4>1. n[1] = l /\ n[2] = "way"
        BY <3>1, <3>5 DEF SameCourse
      <4> QED
        BY <2>0, <2>5, <3>3, <4>1
    <3>6. a = Travel(a.from[1], a.from, a.to, TimeBetween(a.from, a.to))
      BY <2>6, <3>1, <3>4
    <3> QED
      BY <2>0, <3>2, <3>3, <3>5, <3>6 DEF IsRide
  <2>7. CASE a = Travel(l, Back(l, j), Back(l, i), RideTime(l, i, j))
    <3>1. /\ a.from = Back(l, j) /\ a.to = Back(l, i)
          /\ Back(l, i)[1] = l /\ Back(l, i)[2] = "back" /\ Back(l, i)[3] = i
          /\ Back(l, j)[1] = l /\ Back(l, j)[2] = "back" /\ Back(l, j)[3] = j
      BY <2>7 DEF Travel, Back
    <3>2. a.from \in nodes /\ a.to \in nodes
      BY <2>3, <3>1
    <3>3. /\ SameCourse(a.from, a.to)
          /\ Place(a.from) = LastStop(l) - j /\ Place(a.to) = LastStop(l) - i
      BY <3>1 DEF SameCourse, Place
    <3>4. TimeBetween(a.from, a.to) = RideTime(l, i, j)
      BY <3>1 DEF TimeBetween
    <3>5. ASSUME NEW n \in nodes, SameCourse(a.from, n)
          PROVE  Place(n) <= Place(a.from) \/ Place(a.to) <= Place(n)
      <4>1. n[1] = l /\ n[2] = "back"
        BY <3>1, <3>5 DEF SameCourse
      <4>2. /\ n[3] \in Promise!Kept(l) /\ n[3] \in 1..LastStop(l)
            /\ Place(n) = LastStop(l) - n[3]
        BY <2>5, <4>1
      <4>3. n[3] <= i \/ j <= n[3]
        BY <2>0, <4>2
      <4> QED
        BY <2>3, <2>4, <3>3, <4>2, <4>3
    <3>6. a = Travel(a.from[1], a.from, a.to, TimeBetween(a.from, a.to))
      BY <2>7, <3>1, <3>4
    <3>7. Place(a.from) < Place(a.to)
      BY <2>0, <2>3, <2>4, <3>3
    <3> QED
      BY <3>2, <3>3, <3>5, <3>6, <3>7 DEF IsRide
  <2> QED
    BY <2>2, <2>6, <2>7
<1> QED
  BY <1>2, <1>3

(* When all chains are gone the graph is the one that is promised. *)
LEMMA PromisedGraph ==
  ASSUME GInv, Remaining, Forward, Connections, Spanning, Listing,
         phase = "check", chains = {}
  PROVE  /\ nodes = Promise!GraphNodes /\ arcs = Promise!GraphArcs
         /\ station_nodes = Promise!GraphStations
<1>1. /\ lines \in LineMaps /\ TwoStops /\ type \in {"STATION", "SEGMENT"} /\ nodes \subseteq AllNodes
      /\ \A a \in arcs : a.from \in nodes /\ a.to \in nodes
  BY DEF GInv, TypeOK, IsArc
<1>2. nodes = Promise!GraphNodes
  <2>1. nodes = {n \in AllNodes : ~Undecided(n)}
    BY <1>1 DEF Remaining
  <2> QED
    BY <1>1, <2>1, PromisedNodes
<1>3. \A a : a \in arcs /\ ~a.connection <=> a \in UNION {Promise!Rides(l) : l \in DOMAIN lines}
  BY <1>1, <1>2, RidesLeft, RidesPromised
<1>4. ASSUME NEW a
      PROVE  a \in arcs /\ a.connection <=> (IsTurn(a) /\ MayTurn(a.from)) \/ IsChange(a)
  <2>1. ASSUME IsTurn(a), MayTurn(a.from) PROVE a \in arcs /\ a.connection
    BY <2>1 DEF Connections, IsTurn, Change
  <2>2. ASSUME IsChange(a) PROVE a \in arcs /\ a.connection
    BY <2>2 DEF Connections, ChangeFacts, IsChange, Change
  <2> QED
    BY <2>1, <2>2 DEF Connections
<1>5. \A a : a \in arcs /\ a.connection <=>
               a \in UNION {Promise!Turns(l) : l \in DOMAIN lines} \/ a \in Promise!Changes
  BY <1>1, <1>4, TurnArcs, ChangeArcs
<1>6. \A a : a \in Promise!GraphArcs <=>
               \/ a \in UNION {Promise!Rides(l) : l \in DOMAIN lines}
               \/ a \in UNION {Promise!Turns(l) : l \in DOMAIN lines} \/ a \in Promise!Changes
  <2> DEFINE onLine == {Promise!Rides(l) \cup Promise!Turns(l) : l \in DOMAIN lines}
  <2>1. Promise!GraphArcs = Promise!Changes \cup UNION onLine
    BY DEF Promise!GraphArcs
  <2>2. \A a : a \in UNION onLine <=>
               \E l \in DOMAIN lines : a \in Promise!Rides(l) \/ a \in Promise!Turns(l)
    OBVIOUS
  <2> HIDE DEF onLine
  <2>3. ASSUME NEW a
        PROVE  a \in Promise!GraphArcs <=>
               \/ \E l \in DOMAIN lines : a \in Promise!Rides(l) \/ a \in Promise!Turns(l)
               \/ a \in Promise!Changes
    <3>1. a \in Promise!GraphArcs <=> a \in UNION onLine \/ a \in Promise!Changes
      BY <2>1
    <3>2. a \in UNION onLine <=>
            \E l \in DOMAIN lines : a \in Promise!Rides(l) \/ a \in Promise!Turns(l)
      BY <2>2, Zenon
    <3> QED
      BY <3>1, <3>2, Zenon
  <2> QED
    BY <2>3
<1>7. \A a \in arcs : a.connection \in BOOLEAN
  BY DEF GInv, TypeOK, IsArc
<1>8. arcs = Promise!GraphArcs
  <2>1. \A a : a \in arcs <=> a \in Promise!GraphArcs
    BY <1>3, <1>5, <1>6
  <2> QED
    BY <2>1
<1>9. station_nodes = Promise!GraphStations
  <2>1. station_nodes = StationsOf(nodes)
    BY DEF Listing
  <2> QED
    BY <1>2, <2>1, SamePromise DEF StationsOf, Promise!GraphStations
<1> QED
  BY <1>2, <1>8, <1>9

-----------------------------------------------------------------------------
(* The nodes of a graph hang together as the courses of the lines do. *)

Course(n) == <<n[1], n[2]>>

LEMMA TurnCourses ==
  ASSUME NEW l, NEW a \in Promise!Turns(l)
  PROVE  \/ Course(a.from) = <<l, "way">> /\ Course(a.to) = <<l, "back">>
         \/ Course(a.from) = <<l, "back">> /\ Course(a.to) = <<l, "way">>
<1>1. PICK i \in Stops(l) : \/ a = Change(Way(l, i), Back(l, i), switch_cost)
                            \/ a = Change(Back(l, i), Way(l, i), switch_cost)
  BY SamePromise DEF Promise!Turns
<1> QED
  BY <1>1 DEF Change, Way, Back, Course

LEMMA JoinedCourses ==
  /\ \A l \in DOMAIN lines : Promise!Turns(l) # {} => <<<<l, "way">>, <<l, "back">>>> \in Promise!Joined
  /\ \A a \in Promise!Changes : <<Course(a.from), Course(a.to)>> \in Promise!Joined
  /\ \A p \in Promise!Joined :
       \/ \E l \in DOMAIN lines : Promise!Turns(l) # {} /\ p = <<<<l, "way">>, <<l, "back">>>>
       \/ \E a \in Promise!Changes : p = <<Course(a.from), Course(a.to)>>
BY DEF Promise!Joined, Course

LEMMA JoinsOfArcs ==
  ASSUME lines \in LineMaps, type \in {"STATION", "SEGMENT"}, TwoStops,
         NEW a, (IsTurn(a) /\ MayTurn(a.from)) \/ IsChange(a),
         NEW part, \A p \in Promise!Joined : p[1] \in part <=> p[2] \in part
  PROVE  Course(a.from) \in part <=> Course(a.to) \in part
<1>1. CASE IsTurn(a) /\ MayTurn(a.from)
  <2>1. PICK l \in DOMAIN lines : a \in Promise!Turns(l)
    BY <1>1, TurnArcs
  <2>2. <<<<l, "way">>, <<l, "back">>>> \in Promise!Joined
    BY <2>1, JoinedCourses
  <2>3. <<l, "way">> \in part <=> <<l, "back">> \in part
    BY <2>2
  <2> QED
    BY <2>1, <2>3, TurnCourses
<1>2. CASE IsChange(a)
  <2>1. <<Course(a.from), Course(a.to)>> \in Promise!Joined
    BY <1>2, ChangeArcs, JoinedCourses
  <2> QED
    BY <2>1
<1> QED
  BY <1>1, <1>2

LEMMA ArcsOfJoins ==
  ASSUME NEW T \in SUBSET nodes, NEW part, part = {Course(n) : n \in T},
         \A a \in arcs : a.from \in nodes /\ a.to \in nodes /\ (a.from \in T <=> a.to \in T),
         \A n, m \in nodes : Course(n) = Course(m) => (n \in T <=> m \in T),
         \A l \in DOMAIN lines : Promise!Turns(l) \subseteq arcs, Promise!Changes \subseteq arcs,
         NEW p \in Promise!Joined
  PROVE  p[1] \in part <=> p[2] \in part
<1>1. \A n \in nodes : Course(n) \in part <=> n \in T
  BY DEF Course
<1>2. \A a \in arcs : Course(a.from) \in part <=> Course(a.to) \in part
  BY <1>1
<1>3. ASSUME NEW l \in DOMAIN lines, Promise!Turns(l) # {}, p = <<<<l, "way">>, <<l, "back">>>>
      PROVE  p[1] \in part <=> p[2] \in part
  <2>1. PICK a : a \in Promise!Turns(l)
    BY <1>3
  <2>2. a \in arcs
    BY <2>1
  <2> QED
    BY <1>2, <1>3, <2>1, <2>2, TurnCourses
<1>4. ASSUME NEW a \in Promise!Changes, p = <<Course(a.from), Course(a.to)>>
      PROVE  p[1] \in part <=> p[2] \in part
  BY <1>2, <1>4
<1> QED
  BY <1>3, <1>4, JoinedCourses

(* The last node of a course. *)
End(n) == IF n[2] = "way" THEN Way(n[1], LastStop(n[1])) ELSE Back(n[1], 1)

LEMMA EndOfCourse ==
  ASSUME lines \in LineMaps, TwoStops, NEW n \in AllNodes
  PROVE  /\ ~Departing(n) => n = End(n)
         /\ \A m : SameCourse(n, m) => End(m) = End(n)
<1>1. /\ n[1] \in DOMAIN lines /\ n[3] \in 1..LastStop(n[1]) /\ LastStop(n[1]) \in Nat
      /\ (n = Way(n[1], n[3]) /\ n[2] = "way") \/ (n = Back(n[1], n[3]) /\ n[2] = "back")
  BY NodeParts, LineFacts
<1>2. ~Departing(n) => n[3] = IF n[2] = "way" THEN LastStop(n[1]) ELSE 1
  BY <1>1 DEF Departing
<1> QED
  BY <1>1, <1>2 DEF End, SameCourse

(* Rides hold a course together. *)
LEMMA CourseHolds ==
  ASSUME lines \in LineMaps, TwoStops, nodes \subseteq AllNodes, Spanning, Forward, phase # "nodes",
         NEW T \in SUBSET nodes,
         \A a \in arcs : a.from \in nodes /\ a.to \in nodes /\ (a.from \in T <=> a.to \in T)
  PROVE  \A n, m \in nodes : Course(n) = Course(m) => (n \in T <=> m \in T)
<1> DEFINE left(n) == LastStop(n[1]) - Place(n)
           bad == {n \in nodes : ~(n \in T <=> End(n) \in T)}
           numbers == {left(n) : n \in bad}
<1>1. bad = {}
  <2>1. SUFFICES ASSUME bad # {} PROVE FALSE
    OBVIOUS
  <2>2. numbers \in SUBSET Nat /\ numbers # {}
    BY <2>1, PlaceFacts
  <2>3. PICK k \in numbers : \A x \in numbers : k <= x
    <3> HIDE DEF numbers
    <3> QED
      BY <2>2, LeastNumber
  <2>4. PICK n \in bad : k = left(n)
    OBVIOUS
  <2>5. n \in nodes /\ n \in AllNodes /\ ~(n \in T <=> End(n) \in T)
    OBVIOUS
  <2>6. Departing(n)
    BY <2>5, EndOfCourse
  <2>7. PICK a \in arcs : ~a.connection /\ a.from = n
    BY <2>5, <2>6 DEF Spanning
  <2>8. /\ SameCourse(n, a.to) /\ Place(n) < Place(a.to) /\ a.to \in nodes /\ a.to \in AllNodes
        /\ n \in T <=> a.to \in T
    BY <2>7 DEF Forward, RunsAhead
  <2>9. End(a.to) = End(n) /\ a.to[1] = n[1]
    BY <2>5, <2>8, EndOfCourse DEF SameCourse
  <2>10. a.to \in bad
    BY <2>5, <2>8, <2>9
  <2>11. left(a.to) \in numbers
    BY <2>10
  <2>12. left(n) <= left(a.to)
    BY <2>3, <2>4, <2>11
  <2>13. Place(n) \in Nat /\ Place(a.to) \in Nat /\ LastStop(n[1]) \in Nat
    BY <2>5, <2>8, PlaceFacts, NodeParts, LineFacts
  <2> QED
    BY <2>8, <2>9, <2>12, <2>13
<1>2. ASSUME NEW n \in nodes, NEW m \in nodes, Course(n) = Course(m)
      PROVE  n \in T <=> m \in T
  <2>1. SameCourse(n, m)
    BY <1>2 DEF Course, SameCourse
  <2>2. End(m) = End(n)
    BY <2>1, EndOfCourse
  <2> QED
    BY <1>1, <2>2
<1> QED
  BY <1>2

(* The first node of a course is in the graph. *)
LEMMA CourseHasNode ==
  ASSUME lines \in LineMaps, Remaining, phase # "nodes", NEW c \in Promise!Courses
  PROVE  \E n \in nodes : Course(n) = c
<1>1. PICK l \in DOMAIN lines : c = <<l, "way">> \/ c = <<l, "back">>
  BY DEF Promise!Courses, Promise!Directions
<1>2. /\ LastStop(l) \in Nat /\ LastStop(l) > 0 /\ Stops(l) = 1..LastStop(l)
  BY LineFacts
<1> PICK n : n = IF c = <<l, "way">> THEN Way(l, 1) ELSE Back(l, LastStop(l))
  OBVIOUS
<1>3. n \in AllNodes /\ Course(n) = c /\ ~Arriving(n)
  <2>1. 1 \in Stops(l) /\ LastStop(l) \in Stops(l)
    BY <1>2
  <2>2. CASE c = <<l, "way">>
    <3>1. n = Way(l, 1)
      BY <2>2
    <3> QED
      BY <2>1, <2>2, <3>1, WayAndBack DEF Course, Way, Arriving
  <2>3. CASE c # <<l, "way">>
    <3>1. n = Back(l, LastStop(l)) /\ c = <<l, "back">>
      BY <1>1, <2>3
    <3> QED
      BY <1>2, <2>1, <3>1, WayAndBack DEF Course, Back, Arriving
  <2> QED
    BY <2>2, <2>3
<1>4. n \in nodes
  BY <1>3 DEF Remaining, Undecided
<1> QED
  BY <1>3, <1>4

LEMMA ComponentOfGraph ==
  ASSUME IsFiniteSet(nodes),
         \A a \in arcs : /\ a.from \in nodes /\ a.to \in nodes
                         /\ Reversed(a).from = a.to /\ Reversed(a).to = a.from,
         NEW start \in nodes, NEW R, R = Reach(Undirected(arcs), {start})
  PROVE  /\ start \in R /\ R \subseteq nodes
         /\ \A a \in arcs : a.from \in R <=> a.to \in R
         /\ \A T : start \in T /\ (\A a \in arcs : a.from \in T <=> a.to \in T) => R \subseteq T
<1> DEFINE links == Undirected(arcs)
<1>1. \A T : Closed(links, T) <=> \A a \in arcs : a.from \in T <=> a.to \in T
  BY DEF Closed, Undirected
<1>2. {start} \in SUBSET nodes /\ \A a \in links : a.to \in nodes
  BY DEF Undirected
<1> HIDE DEF links
<1>3. R = Reach(links, {start})
  BY DEF links
<1>4. /\ {start} \subseteq R /\ R \subseteq nodes /\ Closed(links, R)
      /\ \A T : {start} \subseteq T /\ Closed(links, T) => R \subseteq T
  BY <1>2, <1>3, ReachFacts
<1>5. \A a \in arcs : a.from \in R <=> a.to \in R
  <2> HIDE DEF Closed
  <2> QED
    BY ONLY <1>1, <1>4
<1> QED
  BY <1>1, <1>4, <1>5

LEMMA PromisedConnection ==
  ASSUME GInv, Proper, Remaining, Forward, Connections, Spanning, Listing,
         phase = "check", chains = {}
  PROVE  IsConnected <=> Promise!CoursesConnected
<1>1. /\ lines \in LineMaps /\ TwoStops /\ type \in {"STATION", "SEGMENT"}
      /\ nodes \subseteq AllNodes /\ IsFiniteSet(nodes)
      /\ \A a \in arcs : a.from \in nodes /\ a.to \in nodes
  BY DEF GInv, TypeOK, IsArc
<1>2. \A a \in arcs : Reversed(a).from = a.to /\ Reversed(a).to = a.from
  BY ReversedArc DEF Proper
<1>3. \A a \in arcs : a.connection => (IsTurn(a) /\ MayTurn(a.from)) \/ IsChange(a)
  BY DEF Connections
<1>4. /\ \A l \in DOMAIN lines : Promise!Turns(l) \subseteq arcs
      /\ Promise!Changes \subseteq arcs
  <2>1. arcs = Promise!GraphArcs
    BY PromisedGraph
  <2> QED
    BY <2>1 DEF Promise!GraphArcs
<1>5. \A n \in nodes : Course(n) \in Promise!Courses
  BY <1>1, NodeParts DEF Course, Promise!Courses, Promise!Directions
<1>6. Promise!CoursesConnected <=>
        \A part \in SUBSET Promise!Courses :
          (\A p \in Promise!Joined : p[1] \in part <=> p[2] \in part)
            => part = {} \/ part = Promise!Courses
  BY DEF Promise!CoursesConnected
<1>7. IsConnected <=> nodes = {} \/ \E n \in nodes : Reach(Undirected(arcs), {n}) = nodes
  BY DEF IsConnected
<1>8. ASSUME IsConnected, NEW part \in SUBSET Promise!Courses,
             \A p \in Promise!Joined : p[1] \in part <=> p[2] \in part
      PROVE  part = {} \/ part = Promise!Courses
  <2>1. SUFFICES ASSUME NEW c \in part, NEW d \in Promise!Courses \ part PROVE FALSE
    OBVIOUS
  <2>2. PICK u \in nodes : Course(u) = c
    BY <1>1, CourseHasNode
  <2>3. PICK v \in nodes : Course(v) = d
    BY <1>1, CourseHasNode
  <2>4. PICK n \in nodes : Reach(Undirected(arcs), {n}) = nodes
    BY <1>7, <1>8, <2>2
  <2> DEFINE T == {m \in nodes : Course(m) \in part <=> Course(n) \in part}
  <2>5. ASSUME NEW a \in arcs PROVE Course(a.from) \in part <=> Course(a.to) \in part
    <3>1. CASE a.connection
      BY <1>1, <1>3, <1>8, <3>1, JoinsOfArcs
    <3>2. CASE ~a.connection
      BY <3>2 DEF Forward, RunsAhead, SameCourse, Course
    <3> QED
      BY <3>1, <3>2
  <2>6. n \in T /\ \A a \in arcs : a.from \in T <=> a.to \in T
    BY <1>1, <2>5
  <2> PICK R : R = Reach(Undirected(arcs), {n})
    OBVIOUS
  <2>7. \A S : n \in S /\ (\A a \in arcs : a.from \in S <=> a.to \in S) => R \subseteq S
    BY <1>1, <1>2, ComponentOfGraph
  <2> HIDE DEF T
  <2>8. nodes \subseteq T
    BY <2>4, <2>6, <2>7
  <2>9. u \in T /\ v \in T
    BY <2>8
  <2> QED
    BY <2>2, <2>3, <2>9 DEF T
<1>9. ASSUME Promise!CoursesConnected PROVE IsConnected
  <2>1. CASE nodes = {}
    BY <1>7, <2>1
  <2>2. CASE nodes # {}
    <3>1. PICK n \in nodes : TRUE
      BY <2>2
    <3> PICK R : R = Reach(Undirected(arcs), {n})
      OBVIOUS
    <3>2. /\ n \in R /\ R \subseteq nodes
          /\ \A a \in arcs : a.from \in R <=> a.to \in R
      BY <1>1, <1>2, ComponentOfGraph
    <3>3. \A k, m \in nodes : Course(k) = Course(m) => (k \in R <=> m \in R)
      BY <1>1, <3>2, CourseHolds
    <3> PICK part : part = {Course(m) : m \in R}
      OBVIOUS
    <3>4. part \in SUBSET Promise!Courses /\ part # {}
      BY <1>5, <3>2
    <3>5. \A p \in Promise!Joined : p[1] \in part <=> p[2] \in part
      BY <1>1, <1>4, <3>2, <3>3, ArcsOfJoins
    <3>6. part = Promise!Courses
      BY <1>6, <1>9, <3>4, <3>5
    <3>7. ASSUME NEW m \in nodes PROVE m \in R
      <4>1. Course(m) \in part
        BY <1>5, <3>6
      <4>2. PICK k \in R : Course(k) = Course(m)
        BY <4>1
      <4> QED
        BY <3>2, <3>3, <4>2
    <3>8. R = nodes
      BY <3>2, <3>7
    <3> QED
      BY <1>7, <3>8
  <2> QED
    BY <2>1, <2>2
<1> QED
  BY <1>6, <1>8, <1>9

-----------------------------------------------------------------------------
(* The constructor as module TransportGraph states it. *)

ExactInv ==
  /\ GraphInv /\ AllFit
  /\ Remaining /\ Forward /\ Listed /\ Connections /\ Spanning /\ Listing

LEMMA PromiseStep ==
  ASSUME ExactInv, [Next]_vars
  PROVE  [Promise!Deliver \/ Promise!Refuse]_(Promise!graphVars)
<1> DEFINE status == IF phase \in {"built", "thrown"} THEN phase ELSE "building"
           graph == IF phase = "built" THEN <<nodes, arcs, station_nodes>> ELSE <<>>
<1>1. CASE CheckConnectivity
  <2>1. /\ phase = "check" /\ chains = {}
        /\ UNCHANGED <<lines, type, preprocess, nodes, arcs, station_nodes>>
    BY <1>1 DEF CheckConnectivity, input, ExactInv, GraphInv, GInv, Stage
  <2>2. /\ nodes = Promise!GraphNodes /\ arcs = Promise!GraphArcs
        /\ station_nodes = Promise!GraphStations
    BY <2>1, PromisedGraph DEF ExactInv, GraphInv
  <2>3. IsConnected <=> Promise!CoursesConnected
    BY <2>1, PromisedConnection DEF ExactInv, GraphInv
  <2>4. status = "building" /\ graph = <<>>
    BY <2>1
  <2>5. CASE IsConnected /\ phase' = "built"
    <3>1. status' = "built" /\ graph' = <<Promise!GraphNodes, Promise!GraphArcs, Promise!GraphStations>>
      BY <2>1, <2>2, <2>5
    <3>2. Promise!Deliver
      BY <2>1, <2>3, <2>4, <2>5, <3>1 DEF Promise!Deliver
    <3> QED
      BY <3>2
  <2>6. CASE ~IsConnected /\ phase' = "thrown"
    <3>1. status' = "thrown" /\ graph' = graph
      BY <2>4, <2>6
    <3>2. Promise!Refuse
      BY <2>1, <2>3, <2>4, <2>6, <3>1 DEF Promise!Refuse
    <3> QED
      BY <3>2
  <2> QED
    BY <1>1, <2>5, <2>6 DEF CheckConnectivity
<1>2. CASE UNCHANGED vars
  BY <1>2 DEF vars, input, Promise!graphVars
<1>3. CASE Next /\ ~CheckConnectivity
  <2>1. /\ phase \notin {"built", "thrown"} /\ phase' \notin {"built", "thrown"}
        /\ UNCHANGED <<lines, type, preprocess>>
    BY <1>3 DEF Next, CreateNodesAndTravelArcs, AddAllSwitchingArcs, AddSwitchingArcsAtTerminals,
       AddStationProblemSwitchingArcs, AddSwitchingArcs, AddAllConnectionArcs,
       ComputeDegree2Chains, RemoveChain, RemoveFromStations, input
  <2>2. status = "building" /\ status' = "building" /\ graph = <<>> /\ graph' = <<>>
    BY <2>1
  <2>3. UNCHANGED Promise!graphVars
    BY <2>1, <2>2 DEF Promise!graphVars
  <2> QED
    BY <2>3
<1> QED
  BY <1>1, <1>2, <1>3

(* For every network whose rides fit into an int, and in whatever order    *)
(* chains are removed: the constructor delivers the graph that module      *)
(* TransportGraph states as a whole, with its stations, or throws when the *)
(* directions of the lines do not hang together, and does nothing else.    *)
THEOREM GraphImplements ==
  ASSUME LinesHaveTwoStops, RidesFit
  PROVE  Spec => Promise!GraphInit /\ [][Promise!Deliver \/ Promise!Refuse]_(Promise!graphVars)
<1> DEFINE Inv == AllFit /\ Remaining /\ Forward /\ Listed /\ Connections /\ Spanning /\ Listing
<1>1. Init => Inv
  <2>1. Init => AllFit
    BY DEF Init, RidesFit, AllFit, Stops
  <2> QED
    BY <2>1 DEF Init, Remaining, Forward, Listed, Connections, Spanning, Listing
<1>2. GraphInv /\ Inv /\ [Next]_vars => Inv'
  <2> SUFFICES ASSUME GraphInv, Inv, [Next]_vars PROVE Inv'
    OBVIOUS
  <2>1. UNCHANGED lines
    BY DEF Next, CreateNodesAndTravelArcs, AddAllSwitchingArcs, AddSwitchingArcsAtTerminals,
       AddStationProblemSwitchingArcs, AddSwitchingArcs, AddAllConnectionArcs,
       ComputeDegree2Chains, RemoveChain, RemoveFromStations, CheckConnectivity, input, vars
  <2>2. AllFit'
    BY <2>1 DEF AllFit, Stops
  <2> QED
    BY <2>2, NextRemaining, NextForward, NextListed, NextConnections, NextSpanning, NextListing
    DEF GraphInv
<1>3. GraphInv /\ Inv /\ [Next]_vars => [Promise!Deliver \/ Promise!Refuse]_(Promise!graphVars)
  BY PromiseStep DEF ExactInv
<1>4. Init => Promise!GraphInit
  BY DEF Init, Promise!GraphInit, Promise!NoGraph
<1> QED
  BY <1>1, <1>2, <1>3, <1>4, TwinInductive, PTL DEF Spec
=============================================================================
