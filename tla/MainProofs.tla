----------------------------- MODULE MainProofs -----------------------------
(***************************************************************************)
(* Proofs about the program as a whole, for all files.                     *)
(***************************************************************************)
EXTENDS Main, SequenceLemmas

-----------------------------------------------------------------------------
(* The lines that are read. *)

SectionSet == UNION {ToSet(f.sections) : f \in Files}

LineItems == UNION {ToSet(c.items) : c \in {d \in SectionSet : d.tag = "lines"}}

(* A line passes a station once, and there are finitely many lines. *)
LinesAreSimple ==
  /\ IsFiniteSet(DOMAIN lines)
  /\ \A l \in DOMAIN lines : \A i, j \in Stops(l) : StationAt(l, i) = StationAt(l, j) => i = j

LEMMA SectionsOfFiles ==
  ASSUME files \in Seq(Files)
  PROVE  Reader!Sections \in Seq(SectionSet)
<1> DEFINE all == [k \in DOMAIN files |-> files[k].sections]
<1>1. all \in Seq(Seq(SectionSet))
  <2>1. \A k \in 1..Len(files) : files[k].sections \in Seq(SectionSet)
    <3> SUFFICES ASSUME NEW k \in 1..Len(files) PROVE files[k].sections \in Seq(SectionSet)
      OBVIOUS
    <3>1. files[k] \in Files
      OBVIOUS
    <3>2. files[k].sections \in Seq(ToSet(files[k].sections))
      BY <3>1, FilesAssumption
    <3>3. ToSet(files[k].sections) \subseteq SectionSet
      BY <3>1 DEF SectionSet
    <3> QED
      BY <3>2, <3>3
  <2> QED
    BY <2>1
<1>2. FlattenSeq(all) \in Seq(SectionSet)
  BY <1>1, FlattenFacts
<1>3. FlattenSeq(all) = Reader!FlattenSeq(all)
  BY DEF FlattenSeq, Reader!FlattenSeq
<1> QED
  BY <1>2, <1>3 DEF Reader!Sections

LEMMA ItemsOfLines ==
  ASSUME files \in Seq(Files)
  PROVE  /\ Reader!Defined \in Seq(LineItems)
<1> DEFINE sections == Reader!Sections
           At(k) == [i \in DOMAIN sections[k].items |-> [at |-> k, item |-> sections[k].items[i]]]
           parts == [k \in DOMAIN sections |->
                       IF sections[k].tag # "lines" THEN <<>> ELSE At(k)]
           Entry == [at : Nat, item : LineItems]
<1>1. sections \in Seq(SectionSet)
  BY SectionsOfFiles
<1>2. ASSUME NEW k \in DOMAIN sections PROVE parts[k] \in Seq(Entry)
  <2>1. CASE sections[k].tag # "lines"
    BY <2>1
  <2>2. CASE sections[k].tag = "lines"
    <3>1. sections[k] \in SectionSet /\ k \in Nat
      BY <1>1
    <3> DEFINE items == sections[k].items
    <3>2. items \in Seq(ToSet(items))
      BY <3>1, FilesAssumption DEF SectionSet
    <3>3. ToSet(items) \subseteq LineItems
      BY <2>2, <3>1 DEF LineItems
    <3>4. parts[k] = [i \in DOMAIN items |-> [at |-> k, item |-> items[i]]]
      BY <2>2
    <3> HIDE DEF items, parts, sections
    <3>5. DOMAIN items = 1..Len(items) /\ Len(items) \in Nat
          /\ \A i \in 1..Len(items) : items[i] \in LineItems
      BY <3>2, <3>3
    <3>6. \A i \in 1..Len(items) : [at |-> k, item |-> items[i]] \in Entry
      BY <3>1, <3>5
    <3> HIDE DEF Entry
    <3> QED
      BY <3>4, <3>5, <3>6
  <2> QED
    BY <2>1, <2>2
<1>3. parts \in Seq(Seq(Entry))
  <2> HIDE DEF sections, Entry, At
  <2>1. DOMAIN sections = 1..Len(sections) /\ Len(sections) \in Nat
    BY <1>1
  <2>2. DOMAIN parts = 1..Len(sections)
    BY <2>1
  <2> QED
    BY <1>2, <2>1, <2>2
<1>4. Reader!Items("lines") \in Seq(Entry)
  <2>1. FlattenSeq(parts) \in Seq(Entry)
    BY <1>3, FlattenFacts
  <2>2. FlattenSeq(parts) = Reader!FlattenSeq(parts)
    BY DEF FlattenSeq, Reader!FlattenSeq
  <2> QED
    BY <2>1, <2>2 DEF Reader!Items
<1> DEFINE s == Reader!Items("lines")
<1>5. Reader!Defined = [i \in DOMAIN s |-> s[i].item]
  BY DEF Reader!Defined
<1>6. s \in Seq(Entry)
  BY <1>4
<1> HIDE DEF s
<1>7. \A e \in Entry : e.item \in LineItems
  OBVIOUS
<1> HIDE DEF Entry
<1>8. DOMAIN s = 1..Len(s) /\ Len(s) \in Nat /\ \A i \in 1..Len(s) : s[i].item \in LineItems
  BY <1>6, <1>7
<1> QED
  BY <1>5, <1>8

LEMMA NetworkLines ==
  ASSUME files \in Seq(Files), NEW net, net = Reader!Network
  PROVE  /\ IsFiniteSet(DOMAIN net.lines)
         /\ \A l \in DOMAIN net.lines : \A st \in {net.lines[l].stations} :
              \A i, j \in DOMAIN st : st[i] = st[j] => i = j
<1> DEFINE defined == Reader!Defined
           names == Reader!LineNames
           Found(l) == CHOOSE d \in Reader!ToSet(defined) : d.name = l
<1>1. defined \in Seq(LineItems)
  BY ItemsOfLines
<1>2. net.lines = [l \in names |-> Reader!Read(Found(l))]
  BY DEF Reader!Network
<1>3. names = {defined[i].name : i \in DOMAIN defined}
  BY DEF Reader!LineNames
<1>4. Reader!ToSet(defined) = {defined[i] : i \in DOMAIN defined}
  BY DEF Reader!ToSet
<1> HIDE DEF defined, names
<1>5. DOMAIN defined = 1..Len(defined) /\ Len(defined) \in Nat
      /\ \A i \in 1..Len(defined) : defined[i] \in LineItems
  BY <1>1
<1>6. IsFiniteSet(names)
  <2>1. IsFiniteSet(1..Len(defined))
    BY <1>5, FS_Interval
  <2> DEFINE name == [i \in 1..Len(defined) |-> defined[i].name]
  <2>2. names = {name[i] : i \in 1..Len(defined)}
    BY <1>3, <1>5
  <2> HIDE DEF name
  <2> QED
    BY <2>1, <2>2, FiniteImage
<1>7. ASSUME NEW l \in names, NEW i, NEW j, NEW st, st = net.lines[l].stations,
             i \in DOMAIN st, j \in DOMAIN st, st[i] = st[j]
      PROVE  i = j
  <2>1. \E d \in Reader!ToSet(defined) : d.name = l
    BY <1>3, <1>4, <1>7
  <2>2. Found(l) \in Reader!ToSet(defined)
    BY <2>1
  <2>3. Found(l) \in LineItems
    BY <1>4, <1>5, <2>2
  <2> DEFINE d == Found(l)
  <2>4. st = [k \in DOMAIN d.stops |-> d.stops[k].station]
    BY <1>2, <1>7 DEF Reader!Read
  <2> HIDE DEF d
  <2>5. d.stops[i].station = d.stops[j].station /\ i \in DOMAIN d.stops /\ j \in DOMAIN d.stops
    BY <1>7, <2>4
  <2>6. PICK f \in Files : \E c \in ToSet(f.sections) : c.tag = "lines" /\ d \in ToSet(c.items)
    BY <2>3 DEF LineItems, SectionSet, d
  <2> QED
    BY <2>5, <2>6, FilesAssumption
<1>8. DOMAIN net.lines = names
  BY <1>2
<1> QED
  BY <1>6, <1>7, <1>8

-----------------------------------------------------------------------------
(* The graph builder has the same lines. *)
LEMMA SameLines ==
  /\ \A l : Builder!Stops(l) = Stops(l) /\ Builder!LastStop(l) = LastStop(l)
  /\ \A l, i : Builder!StationAt(l, i) = StationAt(l, i)
  /\ \A n : Builder!StationOfNode(n) = StationOfNode(n)
  /\ \A l, i, j : Builder!RideTime(l, i, j) = RideTime(l, i, j)
  /\ \A s : Builder!LinesAt(s) = LinesAt(s)
  /\ \A l, i : Builder!ConnectingStop(l, i) <=> ConnectingStop(l, i)
BY DEF Builder!Stops, Stops, Builder!LastStop, LastStop, Builder!StationAt, StationAt,
       Builder!StationOfNode, StationOfNode, Builder!RideTime, RideTime, Builder!AsInt, AsInt,
       Builder!LinesAt, LinesAt, Builder!ToSet, ToSet, Builder!ConnectingStop, ConnectingStop,
       Builder!IsConnecting, IsConnecting, Builder!Cardinality, Cardinality

(* A station that two lines pass is one to change at. *)
LEMMA TwoLinesConnect ==
  ASSUME LinesAreSimple, NEW s, NEW l \in LinesAt(s), NEW k \in LinesAt(s), l # k
  PROVE  IsConnecting(s)
<1>1. IsFiniteSet(LinesAt(s))
  <2>1. LinesAt(s) \subseteq DOMAIN lines
    BY DEF LinesAt
  <2> QED
    BY <2>1, FS_Subset DEF LinesAreSimple
<1>2. Cardinality({k} \cup {l}) = 2
  <2>1. Cardinality({k}) = 1 /\ IsFiniteSet({k})
    BY FS_Singleton
  <2>2. Cardinality({k} \cup {l}) = Cardinality({k}) + 1
    BY <2>1, FS_AddElement
  <2> QED
    BY <2>1, <2>2
<1>3. {k} \cup {l} \subseteq LinesAt(s)
  OBVIOUS
<1>4. Cardinality({k} \cup {l}) <= Cardinality(LinesAt(s))
  BY <1>1, <1>3, FS_Subset
<1>5. Cardinality(LinesAt(s)) \in Nat
  BY <1>1, FS_CardinalityType
<1> QED
  BY <1>2, <1>4, <1>5 DEF IsConnecting

(* The nodes of a station stay in the graph together. *)
LEMMA StationsAreWhole ==
  ASSUME LinesAreSimple,
         NEW n \in Builder!GraphNodes, NEW m \in Builder!NodesAt(StationOfNode(n))
  PROVE  m \in Builder!GraphNodes
<1> DEFINE s == StationOfNode(n)
<1>1. PICK l \in DOMAIN lines : n \in Builder!LineNodes(l) /\ n[3] \in Builder!Kept(n[1])
  BY DEF Builder!GraphNodes
<1>2. PICK k \in DOMAIN lines : m \in Builder!LineNodes(k) /\ Builder!StationOfNode(m) = s
  BY DEF Builder!NodesAt
<1>3. PICK d \in Directions, i \in Stops(l) : n = <<l, d, i>>
  BY <1>1 DEF Builder!LineNodes, Builder!Directions, Builder!Stops, Directions, Stops
<1>4. PICK e \in Directions, j \in Stops(k) : m = <<k, e, j>>
  BY <1>2 DEF Builder!LineNodes, Builder!Directions, Builder!Stops, Directions, Stops
<1>5. StationAt(l, i) = s /\ StationAt(k, j) = s
  BY <1>2, <1>3, <1>4 DEF StationOfNode, StationAt, Builder!StationOfNode, Builder!StationAt
<1>6. j \in Builder!Kept(k)
  <2>1. CASE k = l
    <3>1. i = j
      BY <1>3, <1>4, <1>5, <2>1 DEF LinesAreSimple
    <3> QED
      BY <1>1, <1>3, <2>1, <3>1
  <2>2. CASE k # l
    <3>1. k \in LinesAt(s) /\ l \in LinesAt(s)
      BY <1>3, <1>4, <1>5 DEF LinesAt, ToSet, StationAt, Stops
    <3>2. Builder!ConnectingStop(k, j)
      BY <1>5, <2>2, <3>1, SameLines, TwoLinesConnect DEF ConnectingStop
    <3> QED
      BY <1>4, <3>2 DEF Builder!Kept, Builder!Stays, Builder!Stops, Stops
  <2> QED
    BY <2>1, <2>2
<1>7. m[1] = k /\ m[3] = j
  BY <1>4
<1> QED
  BY <1>2, <1>6, <1>7 DEF Builder!GraphNodes

LEMMA MapOfStations ==
  ASSUME LinesAreSimple, NEW map, map = Builder!GraphStations
  PROVE  /\ \A s, t \in DOMAIN map : s # t => map[s] \cap map[t] = {}
         /\ Builder!GraphNodes = UNION {map[s] : s \in DOMAIN map}
<1>1. map = [s \in {Builder!StationOfNode(n) : n \in Builder!GraphNodes} |-> Builder!NodesAt(s)]
  BY DEF Builder!GraphStations
<1>2. \A n : Builder!StationOfNode(n) = StationOfNode(n)
  BY DEF Builder!StationOfNode, StationOfNode, Builder!StationAt, StationAt
<1>3. \A s : \A n \in Builder!NodesAt(s) : Builder!StationOfNode(n) = s
  BY DEF Builder!NodesAt
<1>4. \A n \in Builder!GraphNodes : n \in Builder!NodesAt(Builder!StationOfNode(n))
  BY DEF Builder!NodesAt, Builder!GraphNodes
<1>5. \A n \in Builder!GraphNodes : \A m \in Builder!NodesAt(Builder!StationOfNode(n)) :
        m \in Builder!GraphNodes
  BY <1>2, StationsAreWhole
<1> HIDE DEF LinesAreSimple
<1> QED
  BY <1>1, <1>3, <1>4, <1>5

-----------------------------------------------------------------------------
(* The files come from the disk, the lines from the files, and the solver   *)
(* is given the map of stations as the graph builder left it.               *)
MInv ==
  /\ files \in Seq(Files)
  /\ LinesAreSimple
  /\ StationMapFits

LEMMA InitMInv == Init => MInv
<1> SUFFICES ASSUME Init PROVE MInv
  OBVIOUS
<1>1. files = <<>> /\ lines = <<>> /\ pc = "start"
  BY DEF Init, Reader!FileInit
<1>2. LinesAreSimple
  <2>1. DOMAIN lines = {}
    BY <1>1
  <2> QED
    BY <2>1, FS_EmptySet DEF LinesAreSimple
<1> QED
  BY <1>1, <1>2 DEF MInv, StationMapFits

LEMMA NextMInv == MInv /\ [Next]_vars => MInv'
<1> SUFFICES ASSUME MInv, [Next]_vars PROVE MInv'
  OBVIOUS
<1>0. files \in Seq(Files) /\ LinesAreSimple /\ StationMapFits
  BY DEF MInv
<1>1. ASSUME UNCHANGED lines PROVE LinesAreSimple'
  BY <1>0, <1>1 DEF LinesAreSimple, Stops, StationAt
<1>2. ASSUME UNCHANGED graph, pc \in {"preparing", "solving"} PROVE StationMapFits'
  BY <1>0, <1>2 DEF StationMapFits, Disjoint, AllAssigned, Nodes, Stations
<1>3. ASSUME pc' \notin {"preparing", "solving"} PROVE StationMapFits'
  BY <1>3 DEF StationMapFits
<1>4. CASE OpenFile
  <2>1. UNCHANGED lines /\ pc' = "reading" /\ files' \in Seq(Files)
    BY <1>0, <1>4 DEF OpenFile, Reader!Ask, builder
  <2> QED
    BY <1>1, <1>3, <2>1 DEF MInv
<1>5. CASE ReadFile
  <2>1. lines' = Reader!Network.lines /\ pc' = "building" /\ UNCHANGED files
    BY <1>5 DEF ReadFile, LinesRead, Reader!Deliver
  <2>2. LinesAreSimple'
    BY <1>0, <2>1, NetworkLines DEF LinesAreSimple, Stops, StationAt
  <2> QED
    BY <1>0, <1>3, <2>1, <2>2 DEF MInv
<1>6. CASE BuildGraph
  <2>1. /\ graph' = <<Builder!GraphNodes, Builder!GraphArcs, Builder!GraphStations>>
        /\ UNCHANGED <<lines, files>>
    BY <1>6 DEF BuildGraph, Builder!Deliver, reader
  <2>2. StationMapFits'
    BY <1>0, <2>1, MapOfStations DEF StationMapFits, Disjoint, AllAssigned, Nodes, Stations
  <2> QED
    BY <1>0, <1>1, <2>1, <2>2 DEF MInv
<1>7. CASE ReadingFails \/ BuildingFails \/ CreatingSolverFails \/ SolvingFails \/ Solve \/ PrintTour
  <2>1. UNCHANGED <<lines, files>> /\ pc' \in {"exit 0", "exit 1", "terminated", "printing"}
    BY <1>7 DEF ReadingFails, BuildingFails, CreatingSolverFails, SolvingFails, Solve,
                PrintTour, Output!Tell, reader, builder, Reader!Refuse, Builder!Refuse
  <2> QED
    BY <1>0, <1>1, <1>3, <2>1 DEF MInv
<1>8. CASE CreateSolver \/ CallSolve
  <2>1. UNCHANGED <<lines, files, graph>> /\ pc \in {"preparing", "solving"}
    BY <1>8 DEF CreateSolver, CallSolve, reader, builder
  <2> QED
    BY <1>0, <1>1, <1>2, <2>1 DEF MInv
<1>9. CASE StartIsMissing \/ PrintAgain
  <2>1. UNCHANGED <<lines, files>> /\ pc' = "printing"
    BY <1>9 DEF StartIsMissing, PrintAgain, Output!Refuse, reader, builder
  <2> QED
    BY <1>0, <1>1, <1>3, <2>1 DEF MInv
<1>10. CASE UNCHANGED vars
  <2>1. UNCHANGED <<lines, files, graph, pc>>
    BY <1>10 DEF vars, reader, builder
  <2> QED
    BY <1>0, <1>1, <1>2, <1>3, <2>1 DEF MInv
<1> QED
  BY <1>4, <1>5, <1>6, <1>7, <1>8, <1>9, <1>10 DEF Next

(* The constructor of the solver never refuses the graph builder's map of   *)
(* stations for nodes that are in two stations or in none: whatever is      *)
(* read, a station keeps all of its nodes or loses them all when chains are *)
(* removed, because no line passes it twice.                                *)
THEOREM MapOfStationsFits == Spec => []StationMapFits
<1>1. MInv => StationMapFits
  BY DEF MInv
<1> QED
  BY <1>1, InitMInv, NextMInv, PTL DEF Spec

-----------------------------------------------------------------------------
(* Closed walks.                                                           *)

(* A closed walk along arcs, and the stations it comes to. *)
IsWalk(t, n) == /\ \A q \in 1..(n - 1) : t[q].to = t[q + 1].from
                /\ t[n].to = t[1].from

IsClosedWalk(t, arcs) == t \in Seq(arcs) \ {<<>>} /\ IsWalk(t, Len(t))

Visits(t, all) == \A s \in all : \E q \in DOMAIN t : StationOfNode(t[q].to) = s

(* A closed walk can be told from each of its arcs on. *)
Rotates(u, t, n, p) ==
  /\ \A i \in 1..(n - p + 1) : u[i] = t[i + p - 1]
  /\ \A i \in (n - p + 2)..n : u[i] = t[i + p - 1 - n]

(* Beginning a walk elsewhere on it moves its steps, and drops none.        *)
LEMMA RotationFacts ==
  ASSUME NEW S, NEW t \in Seq(S), NEW p \in 1..Len(t), NEW u,
         u = SubSeq(t, p, Len(t)) \o SubSeq(t, 1, p - 1)
  PROVE  u \in Seq(S) /\ Len(u) = Len(t) /\ Rotates(u, t, Len(t), p)
<1> DEFINE n == Len(t)
           f == SubSeq(t, p, n)
           g == SubSeq(t, 1, p - 1)
<1>1. n \in Nat /\ \A i \in 1..n : t[i] \in S
  OBVIOUS
<1>2. p \in Nat /\ 1 <= p /\ p <= n
  BY <1>1
<1>3. /\ f \in Seq(S) /\ Len(f) = n - p + 1
      /\ \A i \in 1..(n - p + 1) : f[i] = t[p + i - 1]
  BY <1>1, <1>2, SubSeqProperties
<1>4. g \in Seq(S) /\ Len(g) = p - 1 /\ \A i \in 1..(p - 1) : g[i] = t[i]
  <2>1. \A i \in 1..(p - 1) : t[i] \in S
    BY <1>1, <1>2
  <2>2. /\ g \in Seq(S) /\ Len(g) = IF 1 <= p - 1 THEN p - 1 - 1 + 1 ELSE 0
        /\ \A i \in 1..(p - 1 - 1 + 1) : g[i] = t[1 + i - 1]
    <3>1. 1 \in Int /\ p - 1 \in Int
      BY <1>2
    <3> QED
      BY <2>1, <3>1, SubSeqProperties
  <2>3. p - 1 - 1 + 1 = p - 1 /\ \A i \in 1..(p - 1) : 1 + i - 1 = i
    BY <1>2
  <2> QED
    BY <1>2, <2>2, <2>3
<1>5. u = f \o g
  OBVIOUS
<1> HIDE DEF f, g, n
<1>6. /\ u \in Seq(S) /\ Len(u) = Len(f) + Len(g)
      /\ \A i \in 1..Len(f) : u[i] = f[i]
      /\ \A i \in 1..Len(g) : u[i + Len(f)] = g[i]
  <2>1. f \in Seq(S) /\ g \in Seq(S)
    BY ONLY <1>3, <1>4
  <2> QED
    BY ONLY <1>5, <2>1, ConcatFacts
<1>7. Len(u) = n
  BY ONLY <1>1, <1>2, <1>3, <1>4, <1>6
<1>8. Rotates(u, t, n, p)
  <2> SUFFICES ASSUME NEW i \in Int
               PROVE  /\ i \in 1..(n - p + 1) => u[i] = t[i + p - 1]
                      /\ i \in (n - p + 2)..n => u[i] = t[i + p - 1 - n]
    <3>1. /\ \A i \in 1..(n - p + 1) : i \in Int
          /\ \A i \in (n - p + 2)..n : i \in Int
      BY ONLY <1>1, <1>2
    <3> QED
      BY <3>1 DEF Rotates, n
  <2>1. i \in 1..(n - p + 1) => u[i] = t[i + p - 1]
    <3>1. p + i - 1 = i + p - 1
      BY ONLY <1>1, <1>2, i \in Int
    <3> QED
      BY ONLY <1>3, <1>6, <3>1
  <2>2. i \in (n - p + 2)..n => u[i] = t[i + p - 1 - n]
    <3> DEFINE j == i + p - 1 - n
    <3>1. i \in (n - p + 2)..n => j \in 1..(p - 1) /\ j + (n - p + 1) = i
      BY ONLY <1>1, <1>2, i \in Int
    <3> HIDE DEF j
    <3>2. i \in (n - p + 2)..n => u[i] = t[j]
      BY ONLY <1>3, <1>4, <1>6, <3>1
    <3> QED
      BY <3>2 DEF j
  <2> QED
    BY <2>1, <2>2
<1> QED
  BY <1>6, <1>7, <1>8 DEF n

(* A closed walk begun elsewhere is one still.                              *)
LEMMA RotatedWalk ==
  ASSUME NEW n \in Nat, NEW p \in 1..n, NEW t, NEW u, IsWalk(t, n), Rotates(u, t, n, p)
  PROVE  /\ IsWalk(u, n)
         /\ \A q \in 1..n : \E k \in 1..n : u[k] = t[q]
<1>1. ASSUME NEW i \in 1..(n - 1) PROVE u[i].to = u[i + 1].from
  <2>1. CASE i < n - p + 1
    <3>1. i \in 1..(n - p + 1) /\ i + 1 \in 1..(n - p + 1)
          /\ i + p - 1 \in 1..(n - 1) /\ (i + 1) + p - 1 = (i + p - 1) + 1
      BY <2>1
    <3> QED
      BY <3>1 DEF IsWalk, Rotates
  <2>2. CASE i = n - p + 1
    <3>1. /\ i \in 1..(n - p + 1) /\ i + 1 \in (n - p + 2)..n
          /\ i + p - 1 = n /\ (i + 1) + p - 1 - n = 1
      BY <2>2
    <3>2. u[i] = t[i + p - 1] /\ u[i + 1] = t[(i + 1) + p - 1 - n]
      BY <3>1 DEF Rotates
    <3> QED
      BY <3>1, <3>2 DEF IsWalk
  <2>3. CASE i > n - p + 1
    <3>1. /\ i \in (n - p + 2)..n /\ i + 1 \in (n - p + 2)..n
          /\ i + p - 1 - n \in 1..(n - 1) /\ (i + 1) + p - 1 - n = (i + p - 1 - n) + 1
      BY <2>3
    <3> QED
      BY <3>1 DEF IsWalk, Rotates
  <2> QED
    BY <2>1, <2>2, <2>3
<1>2. u[n].to = u[1].from
  <2>1. u[1] = t[p]
    <3>1. 1 \in 1..(n - p + 1) /\ 1 + p - 1 = p
      OBVIOUS
    <3>2. u[1] = t[1 + p - 1]
      BY <3>1 DEF Rotates
    <3> QED
      BY <3>1, <3>2
  <2>2. CASE p = 1
    <3>1. n \in 1..(n - p + 1) /\ n + p - 1 = n
      BY <2>2
    <3>2. u[n] = t[n + p - 1]
      BY <3>1 DEF Rotates
    <3> QED
      BY <2>1, <2>2, <3>1, <3>2 DEF IsWalk
  <2>3. CASE p # 1
    <3>1. n \in (n - p + 2)..n /\ n + p - 1 - n = p - 1 /\ p - 1 \in 1..(n - 1)
          /\ (p - 1) + 1 = p
      BY <2>3
    <3>2. u[n] = t[n + p - 1 - n]
      BY <3>1 DEF Rotates
    <3>3. t[p - 1].to = t[(p - 1) + 1].from
      BY <3>1 DEF IsWalk
    <3> QED
      BY <2>1, <3>1, <3>2, <3>3
  <2> QED
    BY <2>2, <2>3
<1>3. ASSUME NEW q \in 1..n PROVE \E k \in 1..n : u[k] = t[q]
  <2>1. CASE q < p
    <3> DEFINE k == q + n - p + 1
    <3>1. k \in (n - p + 2)..n /\ k + p - 1 - n = q /\ k \in 1..n
      BY <2>1
    <3> HIDE DEF k
    <3>2. u[k] = t[k + p - 1 - n]
      BY <3>1 DEF Rotates
    <3> QED
      BY <3>1, <3>2
  <2>2. CASE ~(q < p)
    <3> DEFINE k == q - p + 1
    <3>1. k \in 1..(n - p + 1) /\ k + p - 1 = q /\ k \in 1..n
      BY <2>2
    <3> HIDE DEF k
    <3>2. u[k] = t[k + p - 1]
      BY <3>1 DEF Rotates
    <3> QED
      BY <3>1, <3>2
  <2> QED
    BY <2>1, <2>2
<1> QED
  BY <1>1, <1>2, <1>3 DEF IsWalk

(* It is made of the same arcs, and passes the same stations.               *)
LEMMA TurnedWalk ==
  ASSUME NEW arcs, NEW all, NEW t, IsClosedWalk(t, arcs), Visits(t, all),
         NEW p \in DOMAIN t, NEW u, u = SubSeq(t, p, Len(t)) \o SubSeq(t, 1, p - 1)
  PROVE  IsClosedWalk(u, arcs) /\ Visits(u, all)
<1> DEFINE n == Len(t)
<1>1. t \in Seq(arcs) /\ t # <<>> /\ IsWalk(t, n)
  BY DEF IsClosedWalk
<1>2. n \in Nat /\ n > 0 /\ DOMAIN t = 1..n
  BY <1>1
<1>3. u \in Seq(arcs) /\ Len(u) = n /\ Rotates(u, t, n, p)
  BY <1>1, <1>2, RotationFacts
<1> HIDE DEF n
<1>4. DOMAIN u = 1..n /\ u # <<>>
  BY <1>2, <1>3
<1>5. IsWalk(u, n) /\ \A q \in 1..n : \E k \in 1..n : u[k] = t[q]
  <2>1. n \in Nat /\ p \in 1..n /\ IsWalk(t, n) /\ Rotates(u, t, n, p)
    BY <1>1, <1>2, <1>3
  <2> QED
    BY ONLY <2>1, RotatedWalk
<1>6. Visits(u, all)
  BY <1>2, <1>4, <1>5 DEF Visits
<1> QED
  BY <1>3, <1>4, <1>5, <1>6 DEF IsClosedWalk

-----------------------------------------------------------------------------
(* The tours that are looked for.                                          *)

(* What the solver lists are closed walks in the graph that come to every  *)
(* station of it, begun at any of their arcs.                              *)
LEMMA ToursVisit ==
  ASSUME NEW arcs, NEW all, NEW s, NEW u \in ShortestTours(arcs, all, s)
  PROVE  IsClosedWalk(u, arcs) /\ Visits(u, all)
<1>1. PICK t : IsTour(t, arcs, all) /\ \E p \in DOMAIN t : u = Turned(t, p)
  BY DEF ShortestTours
<1>2. IsClosedWalk(t, arcs)
  BY <1>1 DEF IsTour, IsClosedWalk, IsWalk
<1>3. Visits(t, all)
  BY <1>1 DEF IsTour, Visits
<1>4. PICK p \in DOMAIN t : u = SubSeq(t, p, Len(t)) \o SubSeq(t, 1, p - 1)
  BY <1>1 DEF Turned
<1> QED
  BY <1>2, <1>3, <1>4, TurnedWalk

-----------------------------------------------------------------------------
(* What is passed on from part to part. *)

IsTourOfGraph(t) == graph # <<>> /\ t \in Seq(Arcs) \ {<<>>}

(* A tour exists from the graph on, a table in the end only. *)
PassedOn ==
  /\ pc \in Ends \cup {"start", "reading", "building", "preparing", "solving", "printing"}
  /\ network # <<>> => lines = network.lines
  /\ pc \in {"start", "reading", "building", "exit 1"} => graph = <<>>
  /\ pc \in {"preparing", "solving", "printing", "exit 0"} => graph # <<>>
  /\ graph = <<>> => tours = {} /\ tour = <<>>
  /\ \A u \in tours : IsTourOfGraph(u.tour)
  /\ tour # <<>> => IsTourOfGraph(tour)
  /\ pc \in {"printing", "exit 0"} => tour # <<>>
  /\ pc = "exit 0" <=> table # <<>>

(* A tour that is not empty gives a table that is not empty. *)
LEMMA SomethingIsTold ==
  ASSUME NEW S, tour \in Seq(S) \ {<<>>}, NEW t \in Output!Told
  PROVE  Output!Table(t) # <<>>
<1>1. t \in Seq(S) /\ Len(t) \in Nat /\ Len(t) > 0
  <2>1. CASE t = tour
    BY <2>1
  <2>2. CASE t # tour
    <3>1. PICK p \in DOMAIN tour : t = Output!Rotation(p)
      BY <2>2 DEF Output!Told
    <3>2. p \in 1..Len(tour) /\ Len(tour) \in Nat
      BY <3>1
    <3> DEFINE f == SubSeq(tour, p, Len(tour))
               g == SubSeq(tour, 1, p - 1)
    <3>3. f \in Seq(S) /\ Len(f) = Len(tour) - p + 1
      BY <3>2, SubSeqProperties
    <3>4. g \in Seq(S) /\ Len(g) = p - 1
      BY <3>2, SubSeqProperties
    <3>5. t = f \o g
      BY <3>1 DEF Output!Rotation
    <3> HIDE DEF f, g
    <3>6. t \in Seq(S) /\ Len(t) = Len(tour)
      BY <3>2, <3>3, <3>4, <3>5
    <3> QED
      BY <3>2, <3>6
  <2> QED
    BY <2>1, <2>2
<1> DEFINE last == Output!LastArcs(t)
           n == Output!Cardinality(last)
<1>2. last \subseteq 1..Len(t) /\ Len(t) \in last
  BY <1>1 DEF Output!LastArcs, Output!EndsRun
<1> HIDE DEF last
<1>3. n = Cardinality(last)
  BY DEF Output!Cardinality, Cardinality
<1>4. IsFiniteSet(last)
  <2>1. IsFiniteSet(1..Len(t))
    BY <1>1, FS_Interval
  <2> QED
    BY <1>2, <2>1, FS_Subset
<1>5. n \in Nat /\ n # 0
  BY <1>2, <1>3, <1>4, FS_CardinalityType, FS_EmptySet
<1> HIDE DEF n
<1>6. DOMAIN Output!Table(t) = 1..n
  BY DEF Output!Table, n, last
<1>7. 1 \in DOMAIN Output!Table(t)
  BY <1>5, <1>6
<1>8. DOMAIN <<>> = {}
  OBVIOUS
<1> QED
  BY <1>7, <1>8

(* At the start nothing has been passed on.                                 *)
LEMMA InitPassedOn == Init => PassedOn
BY DEF Init, PassedOn, Ends, Reader!FileInit, Reader!NoNetwork, Builder!GraphInit, Builder!NoGraph,
       Solver!TourInit, Output!TableInit

(* Only the steps that build the graph, list tours, choose one or print it  *)
(* say anything new.                                                        *)
LEMMA ElsePassedOn ==
  ASSUME PassedOn, UNCHANGED <<network, lines, graph, tours, tour, table>>,
         pc' \in {"start", "reading", "building", "exit 1"} => graph = <<>>,
         pc' \in {"preparing", "solving", "printing"} => graph # <<>>,
         pc' = "printing" => tour # <<>>, pc' = "exit 0" <=> pc = "exit 0",
         pc' \in Ends \cup {"start", "reading", "building", "preparing", "solving", "printing"}
  PROVE  PassedOn'
BY DEF PassedOn, IsTourOfGraph, Arcs, Ends

(* A part is given what the part before it has promised.                    *)
LEMMA StepPassesOn ==
  ASSUME PassedOn, [Next]_vars
  PROVE  PassedOn'
<1>1. CASE OpenFile \/ ReadingFails
  <2>1. /\ UNCHANGED <<lines, graph, tours, tour, table>>
        /\ network' \in {network, <<>>}
        /\ pc \in {"start", "reading"} /\ pc' \in {"reading", "exit 1"}
    BY <1>1 DEF OpenFile, ReadingFails, Reader!Ask, Reader!Refuse, Reader!NoNetwork,
                builder, solver, output
  <2> QED
    BY <2>1 DEF PassedOn, IsTourOfGraph, Arcs, Ends
<1>2. CASE ReadFile
  <2>1. /\ UNCHANGED <<graph, tours, tour, table>> /\ lines' = network'.lines
        /\ pc = "reading" /\ pc' = "building"
    BY <1>2 DEF ReadFile, LinesRead, solver, output
  <2> QED
    BY <2>1 DEF PassedOn, IsTourOfGraph, Arcs, Ends
<1>3. CASE BuildGraph
  <2>1. /\ UNCHANGED <<network, lines, tours, tour, table>> /\ graph' # <<>>
        /\ pc = "building" /\ pc' = "preparing"
    BY <1>3 DEF BuildGraph, Builder!Deliver, reader, solver, output
  <2>2. tours = {} /\ tour = <<>>
    BY <2>1 DEF PassedOn
  <2> QED
    BY <2>1, <2>2 DEF PassedOn, IsTourOfGraph, Arcs, Ends
<1>4. CASE BuildingFails \/ CreatingSolverFails \/ CallSolve \/ SolvingFails
  <2>1. /\ UNCHANGED <<network, lines, graph, tours, tour, table>>
        /\ \/ pc' = "terminated" /\ pc # "exit 0"
           \/ pc' = pc
    BY <1>4 DEF BuildingFails, CreatingSolverFails, CallSolve, SolvingFails, Builder!Refuse,
                Solver!Ask, Solver!ReportInfeasible, Solver!ReportError,
                reader, builder, solver, output
  <2> QED
    BY <2>1, ElsePassedOn DEF PassedOn, Ends
<1>5. CASE CreateSolver
  <2>1. /\ UNCHANGED <<network, lines, graph, tour, table>>
        /\ pc = "preparing" /\ pc' = "solving"
        /\ \A u \in tours' : \E t \in ShortestTours(Arcs, DOMAIN Stations, UniqueStation) :
             u = Solution(t)
    BY <1>5 DEF CreateSolver, reader, builder, output
  <2>2. graph # <<>>
    BY <2>1 DEF PassedOn
  <2>3. \A t : Solution(t).tour = t
    BY DEF Solution
  <2>4. \A u \in tours' : u.tour \in Seq(Arcs) \ {<<>>}
    BY <2>1, <2>3, ToursVisit DEF IsClosedWalk
  <2> QED
    BY <2>1, <2>2, <2>4 DEF PassedOn, IsTourOfGraph, Arcs, Ends
<1>6. CASE Solve
  <2>1. /\ UNCHANGED <<network, lines, graph, tours, table>>
        /\ pc = "solving" /\ pc' = "printing"
        /\ tour' = answer'.tour /\ answer' \in tours
    BY <1>6 DEF Solve, Solver!AnswerTour, Solver!Optimal, reader, builder
  <2>2. IsTourOfGraph(tour')
    BY <2>1 DEF PassedOn
  <2>3. tour' # <<>> /\ graph # <<>>
    BY <2>2 DEF IsTourOfGraph
  <2> QED
    BY <2>1, <2>2, <2>3 DEF PassedOn, IsTourOfGraph, Arcs, Ends
<1>7. CASE PrintTour
  <2>1. /\ UNCHANGED <<network, lines, graph, tours, tour>>
        /\ pc = "printing" /\ pc' = "exit 0"
        /\ \E t \in Output!Told : table' = Output!Table(t)
    BY <1>7 DEF PrintTour, Output!Tell, reader, solver
  <2>2. tour \in Seq(Arcs) \ {<<>>}
    BY <2>1 DEF PassedOn, IsTourOfGraph
  <2>3. table' # <<>>
    BY <2>1, <2>2, SomethingIsTold
  <2> QED
    BY <2>1, <2>3 DEF PassedOn, IsTourOfGraph, Arcs, Ends
<1>8. CASE StartIsMissing \/ PrintAgain \/ UNCHANGED vars
  <2>1. UNCHANGED <<network, lines, graph, tours, tour, table>> /\ pc' = pc
    BY <1>8 DEF StartIsMissing, PrintAgain, Output!Refuse, vars, reader, builder, solver, output
  <2> QED
    BY <2>1, ElsePassedOn DEF PassedOn
<1> QED
  BY <1>1, <1>2, <1>3, <1>4, <1>5, <1>6, <1>7, <1>8 DEF Next

(* Each part has what the part before it delivered: the graph is there      *)
(* just when it has been built, the tour that is printed is one of its      *)
(* arcs, and a program that ends well has printed a table with rows.        *)
THEOREM PartsAreConnected == Spec => []TypeOK
<1>1. PassedOn => TypeOK
  <2> SUFFICES ASSUME PassedOn PROVE TypeOK
    OBVIOUS
  <2>1. ToSet(tour) \subseteq (IF graph = <<>> THEN {} ELSE Arcs)
    <3>1. CASE tour = <<>>
      BY <3>1 DEF ToSet
    <3>2. CASE tour # <<>>
      <4>1. graph # <<>> /\ tour \in Seq(Arcs)
        BY <3>2 DEF PassedOn, IsTourOfGraph
      <4>2. \A p \in DOMAIN tour : tour[p] \in Arcs
        BY <4>1
      <4> QED
        BY <4>1, <4>2 DEF ToSet
    <3> QED
      BY <3>1, <3>2
  <2>2. pc \in {"preparing", "solving", "printing", "exit 0"} <=> graph # <<>> /\ pc # "terminated"
    BY DEF PassedOn, Ends
  <2> QED
    BY <2>1, <2>2 DEF PassedOn, TypeOK
<1> QED
  BY <1>1, InitPassedOn, StepPassesOn, PTL DEF Spec

-----------------------------------------------------------------------------
(* The arcs of the graph.                                                   *)

(* Lines have names of their own and go from stop to stop.                  *)
LinesFit ==
  /\ CHANGE_NAME \notin DOMAIN lines
  /\ \A l \in DOMAIN lines : LastStop(l) \in Nat /\ Stops(l) = 1..LastStop(l)

(* A ride is from one stop that is kept to the next. *)
IsRide(a, l, i, j) ==
  /\ i \in Builder!Kept(l) /\ j \in Builder!Kept(l) /\ Builder!NextKept(l, i, j)
  /\ a.name = l
  /\ \/ a.from = Way(l, i) /\ a.to = Way(l, j)
     \/ a.from = Back(l, j) /\ a.to = Back(l, i)

(* All other arcs stay at a station. *)
IsTurn(a, l, i) ==
  /\ i \in Stops(l)
  /\ \/ a.from = Way(l, i) /\ a.to = Back(l, i) /\ Builder!CanTurnBack(l, i)
     \/ a.from = Back(l, i) /\ a.to = Way(l, i) /\ Builder!CanTurnAround(l, i)

IsChange(a) ==
  /\ a.from \in Builder!GraphNodes /\ a.to \in Builder!GraphNodes
  /\ a.from[1] # a.to[1] /\ StationOfNode(a.from) = StationOfNode(a.to)

(* An arc of the graph is a ride, or a change or turn at one station.       *)
LEMMA ArcKinds ==
  ASSUME LinesFit, NEW a \in Builder!GraphArcs
  PROVE  \/ \E l \in DOMAIN lines : \E i, j \in Stops(l) :
              IsRide(a, l, i, j) /\ i < j
         \/ /\ a.name = CHANGE_NAME /\ StationOfNode(a.from) = StationOfNode(a.to)
            /\ IsChange(a) \/ \E l \in DOMAIN lines : \E i \in Stops(l) : IsTurn(a, l, i)
<1>1. CASE a \in Builder!Changes
  <2>1. PICK p \in Builder!GraphNodes \X Builder!GraphNodes :
          /\ p[1][1] # p[2][1] /\ Builder!StationOfNode(p[1]) = Builder!StationOfNode(p[2])
          /\ a = Builder!Change(p[1], p[2], CHANGING_TIME)
    BY <1>1 DEF Builder!Changes
  <2>2. a.from = p[1] /\ a.to = p[2] /\ a.name = Builder!CHANGE_NAME
    BY <2>1 DEF Builder!Change
  <2>3. IsChange(a) /\ a.name = CHANGE_NAME
    BY SameLines, <2>1, <2>2 DEF IsChange, Builder!CHANGE_NAME, CHANGE_NAME
  <2> QED
    BY <2>2, <2>3 DEF IsChange
<1>2. ASSUME NEW l \in DOMAIN lines, a \in Builder!Rides(l)
      PROVE  \E i, j \in Stops(l) : IsRide(a, l, i, j) /\ i < j
  <2>1. PICK p \in Builder!Kept(l) \X Builder!Kept(l) :
          /\ Builder!NextKept(l, p[1], p[2])
          /\ \/ a = Builder!Travel(l, Builder!Way(l, p[1]), Builder!Way(l, p[2]),
                                   Builder!RideTime(l, p[1], p[2]))
             \/ a = Builder!Travel(l, Builder!Back(l, p[2]), Builder!Back(l, p[1]),
                                   Builder!RideTime(l, p[1], p[2]))
    BY <1>2 DEF Builder!Rides
  <2>2. IsRide(a, l, p[1], p[2])
    BY SameLines, <2>1 DEF IsRide, Builder!Travel, Builder!Way, Builder!Back, Way, Back
  <2>3. p[1] \in Stops(l) /\ p[2] \in Stops(l) /\ p[1] < p[2]
    BY SameLines, <2>1 DEF Builder!Kept, Builder!NextKept
  <2> QED
    BY <2>2, <2>3
<1>3. ASSUME NEW l \in DOMAIN lines, a \in Builder!Turns(l)
      PROVE  /\ a.name = CHANGE_NAME /\ StationOfNode(a.from) = StationOfNode(a.to)
             /\ \E i \in Stops(l) : IsTurn(a, l, i)
  <2>1. PICK i \in Stops(l) :
          \/ /\ Builder!CanTurnBack(l, i)
             /\ a = Builder!Change(Builder!Way(l, i), Builder!Back(l, i), SWITCHING_TIME)
          \/ /\ Builder!CanTurnAround(l, i)
             /\ a = Builder!Change(Builder!Back(l, i), Builder!Way(l, i), SWITCHING_TIME)
    BY <1>3, SameLines DEF Builder!Turns
  <2>2. IsTurn(a, l, i) /\ a.name = CHANGE_NAME
    BY <2>1 DEF IsTurn, Builder!Change, Builder!Way, Builder!Back, Way, Back,
                Builder!CHANGE_NAME, CHANGE_NAME
  <2>3. StationOfNode(Way(l, i)) = StationOfNode(Back(l, i))
    BY DEF StationOfNode, Way, Back
  <2> QED
    BY <2>2, <2>3 DEF IsTurn
<1> QED
  BY <1>1, <1>2, <1>3 DEF Builder!GraphArcs

-----------------------------------------------------------------------------
(* Stops that have been left out.                                           *)

(* Next to a stop that is left out there is one that can only be left, or   *)
(* only be come to, past it.                                                *)
IsForced(l, x, i) ==
  \/ x < i /\ ~Builder!CanTurnBack(l, x) /\ \A k \in Builder!Kept(l) : k <= x \/ i < k
  \/ i < x /\ ~Builder!CanTurnAround(l, x) /\ \A k \in Builder!Kept(l) : k < i \/ x <= k

(* Which stops are left, by what lies on both sides of them.                *)
LEMMA KeptStops ==
  ASSUME LinesFit, preprocess = TRUE, type = "STATION", NEW l \in DOMAIN lines
  PROVE  \A i \in Stops(l) :
           LET con(k) == ConnectingStop(l, k)
               inner == /\ ~con(i) /\ i # 1 /\ i # LastStop(l)
                        /\ \E j \in Stops(l) : j < i /\ con(j)
                        /\ \E j \in Stops(l) : i < j /\ con(j)
               before == inner /\ con(i + 1)
               after == inner /\ con(i - 1)
           IN  /\ Builder!CanTurnBack(l, i) <=> (i = LastStop(l) /\ ~con(i)) \/ before
               /\ Builder!CanTurnAround(l, i) <=> (i = 1 /\ ~con(i)) \/ after
               /\ i \in Builder!Kept(l) <=>
                    con(i) \/ i = 1 \/ i = LastStop(l) \/ before \/ after
<1> TAKE i \in Stops(l)
<1> DEFINE con(k) == ConnectingStop(l, k)
           inner == /\ ~con(i) /\ i # 1 /\ i # LastStop(l)
                    /\ \E j \in Stops(l) : j < i /\ con(j)
                    /\ \E j \in Stops(l) : i < j /\ con(j)
           before == inner /\ con(i + 1)
           after == inner /\ con(i - 1)
<1>1. LastStop(l) \in Nat /\ Stops(l) = 1..LastStop(l) /\ i \in 1..LastStop(l)
  BY DEF LinesFit
<1>2. Builder!HasPrecedingConnecting(l, i) <=> \E j \in Stops(l) : j < i /\ con(j)
  BY <1>1, SameLines DEF Builder!HasPrecedingConnecting
<1>3. Builder!HasFollowingConnecting(l, i) <=> \E j \in Stops(l) : i < j /\ con(j)
  BY <1>1, SameLines DEF Builder!HasFollowingConnecting
<1>4. Builder!InnerStop(l, i) <=> inner
  BY <1>2, <1>3, SameLines DEF Builder!InnerStop, Builder!IsTerminal
<1>5. inner => i + 1 \in Stops(l) /\ i - 1 \in Stops(l)
  BY <1>1
<1>6. /\ Builder!TurnsBeforeChange(l, i, i + 1) <=> before
      /\ Builder!TurnsBeforeChange(l, i, i - 1) <=> after
  BY <1>4, <1>5, SameLines DEF Builder!TurnsBeforeChange
<1> HIDE DEF inner, before, after
<1>7. Builder!CanTurnBack(l, i) <=> (i = LastStop(l) /\ ~con(i)) \/ before
  BY <1>6, SameLines DEF Builder!CanTurnBack
<1>8. Builder!CanTurnAround(l, i) <=> (i = 1 /\ ~con(i)) \/ after
  BY <1>6, SameLines DEF Builder!CanTurnAround
<1>9. i \in Builder!Kept(l) <=> con(i) \/ i = 1 \/ i = LastStop(l) \/ before \/ after
  BY <1>1, <1>7, <1>8, SameLines DEF Builder!Kept, Builder!Stays, Builder!IsTerminal
<1> QED
  BY <1>7, <1>8, <1>9 DEF inner, before, after

(* Beside every stop that was left out there is one that forces a ride past *)
(* it.                                                                      *)
LEMMA ForcedStops ==
  ASSUME LinesFit, preprocess = TRUE, type = "STATION",
         NEW l \in DOMAIN lines, NEW i \in Stops(l), i \notin Builder!Kept(l)
  PROVE  \E x \in Builder!Kept(l) : ~ConnectingStop(l, x) /\ IsForced(l, x, i)
<1> DEFINE n == LastStop(l)
           con(k) == ConnectingStop(l, k)
           left(k) == \E j \in 1..n : j < k /\ con(j)
           right(k) == \E j \in 1..n : k < j /\ con(j)
           inner(k) == ~con(k) /\ k # 1 /\ k # n /\ left(k) /\ right(k)
<1>1. n \in Nat /\ Stops(l) = 1..n /\ i \in 1..n
  BY DEF LinesFit
<1>2. \A k \in 1..n :
        /\ Builder!CanTurnBack(l, k) <=> (k = n /\ ~con(k)) \/ (inner(k) /\ con(k + 1))
        /\ Builder!CanTurnAround(l, k) <=> (k = 1 /\ ~con(k)) \/ (inner(k) /\ con(k - 1))
        /\ k \in Builder!Kept(l) <=>
             con(k) \/ k = 1 \/ k = n \/ (inner(k) /\ con(k + 1)) \/ (inner(k) /\ con(k - 1))
  BY <1>1, KeptStops
<1>3. Builder!Kept(l) \subseteq 1..n
  BY <1>1, SameLines DEF Builder!Kept
<1> HIDE DEF n, con
<1>4. ~con(i) /\ i # 1 /\ i # n /\ ~(inner(i) /\ con(i + 1)) /\ ~(inner(i) /\ con(i - 1))
  BY <1>1, <1>2
<1>5. CASE ~left(i)
  <2>1. 1 \in 1..n /\ 1 < i /\ 1 # n /\ ~con(1)
    BY <1>1, <1>4, <1>5
  <2>2. 1 \in Builder!Kept(l) /\ ~Builder!CanTurnBack(l, 1)
    BY <1>2, <2>1
  <2>3. ASSUME NEW k \in Builder!Kept(l) PROVE k <= 1 \/ i < k
    <3> SUFFICES ASSUME k > 1, k <= i PROVE FALSE
      BY <1>1, <1>3
    <3>1. k \in 1..n /\ k # 1 /\ k # n
      BY <1>1, <1>3, <1>4
    <3>2. ~con(k) /\ ~left(k)
      BY <1>1, <1>4, <1>5, <3>1
    <3> QED
      BY <1>2, <3>1, <3>2
  <2> QED
    BY <2>1, <2>2, <2>3 DEF IsForced, con
<1>6. CASE ~right(i)
  <2>1. n \in 1..n /\ i < n /\ 1 # n /\ ~con(n)
    BY <1>1, <1>4, <1>6
  <2>2. n \in Builder!Kept(l) /\ ~Builder!CanTurnAround(l, n)
    BY <1>2, <2>1
  <2>3. ASSUME NEW k \in Builder!Kept(l) PROVE k < i \/ n <= k
    <3> SUFFICES ASSUME k >= i, k < n PROVE FALSE
      BY <1>1, <1>3
    <3>1. k \in 1..n /\ k # 1 /\ k # n
      BY <1>1, <1>3, <1>4
    <3>2. ~con(k) /\ ~right(k)
      BY <1>1, <1>4, <1>6, <3>1
    <3> QED
      BY <1>2, <3>1, <3>2
  <2> QED
    BY <2>1, <2>2, <2>3 DEF IsForced, con
<1>7. CASE left(i) /\ right(i)
  <2>1. \E c \in 1..n : c < i /\ con(c) /\ \A k \in 1..n : c < k /\ k < i => ~con(k)
    <3> DEFINE gaps == {m \in Nat : \E j \in 1..n : j < i /\ con(j) /\ m = i - j}
    <3>1. gaps \in SUBSET Nat /\ gaps # {}
      <4>1. PICK j \in 1..n : j < i /\ con(j)
        BY <1>7
      <4>2. i - j \in Nat
        BY <1>1, <4>1
      <4> QED
        BY <4>1, <4>2
    <3>2. PICK m \in gaps : \A k \in gaps : m <= k
      BY <3>1, LeastNumber
    <3>3. PICK c \in 1..n : c < i /\ con(c) /\ m = i - c
      BY <3>2
    <3>4. ASSUME NEW k \in 1..n, c < k, k < i PROVE ~con(k)
      <4>1. i - k \in Nat /\ i - k < m
        BY <1>1, <3>3, <3>4
      <4>2. i - k \notin gaps
        BY <1>1, <3>2, <3>3, <4>1
      <4> QED
        BY <3>4, <4>1, <4>2
    <3> QED
      BY <3>3, <3>4
  <2>2. PICK c \in 1..n : c < i /\ con(c) /\ \A k \in 1..n : c < k /\ k < i => ~con(k)
    BY <2>1
  <2> DEFINE x == c + 1
  <2>3. inner(i)
    BY <1>4, <1>7
  <2>4. x \in 1..n /\ x < i /\ x # 1 /\ x # n /\ x - 1 = c
    <3>1. x # i
      <4> SUFFICES ASSUME x = i PROVE FALSE
        OBVIOUS
      <4>1. i - 1 = c
        BY <2>2
      <4> QED
        BY <1>4, <2>2, <2>3, <4>1
    <3> QED
      BY <1>1, <2>2, <3>1
  <2>5. c < x
    OBVIOUS
  <2> HIDE DEF x
  <2>6. ~con(x)
    BY <2>2, <2>4, <2>5
  <2>7. left(x) /\ right(x)
    <3>1. PICK j \in 1..n : i < j /\ con(j)
      BY <1>7
    <3>2. x < j
      BY <1>1, <2>4, <3>1
    <3> QED
      BY <2>2, <2>5, <3>1, <3>2
  <2>8. x \in Builder!Kept(l)
    BY <1>2, <2>2, <2>4, <2>6, <2>7
  <2>9. \A k \in 1..n : x <= k /\ k <= i => ~con(k)
    BY <1>1, <1>4, <2>2, <2>4
  <2>10. ~Builder!CanTurnBack(l, x)
    <3>1. x + 1 \in 1..n /\ x <= x + 1 /\ x + 1 <= i
      BY <1>1, <2>4
    <3>2. ~con(x + 1)
      BY <2>9, <3>1
    <3> QED
      BY <1>2, <2>4, <3>2
  <2>11. ASSUME NEW k \in Builder!Kept(l) PROVE k <= x \/ i < k
    <3> SUFFICES ASSUME k > x, k <= i PROVE FALSE
      BY <1>1, <1>3, <2>4
    <3>1. k \in 1..n /\ k # 1 /\ k # n /\ k # i
      BY <1>1, <1>3, <1>4, <2>4
    <3>2. k + 1 \in 1..n /\ k - 1 \in 1..n /\ x <= k /\ x <= k + 1 /\ k + 1 <= i /\ x <= k - 1 /\ k - 1 <= i
      BY <1>1, <2>4, <3>1
    <3>3. ~con(k) /\ ~con(k + 1) /\ ~con(k - 1)
      BY <2>9, <3>1, <3>2
    <3> QED
      BY <1>2, <3>1, <3>3
  <2> QED
    BY <2>4, <2>6, <2>8, <2>10, <2>11 DEF IsForced, con
<1> QED
  BY <1>5, <1>6, <1>7

IsNode(v) == \E l \in DOMAIN lines : \E i \in Stops(l) : v \in {Way(l, i), Back(l, i)}

(* The two nodes of a stop are told from each other and from all others.    *)
LEMMA NodeFacts ==
  /\ \A l, m, i, j : Way(l, i) # Back(m, j)
  /\ \A l, m, i, j : Way(l, i) = Way(m, j) => l = m /\ i = j
  /\ \A l, m, i, j : Back(l, i) = Back(m, j) => l = m /\ i = j
  /\ \A l, i : StationOfNode(Way(l, i)) = StationAt(l, i) /\ Way(l, i)[1] = l
  /\ \A l, i : StationOfNode(Back(l, i)) = StationAt(l, i) /\ Back(l, i)[1] = l
BY DEF Way, Back, StationOfNode

(* The nodes of the graph are nodes of stops.                               *)
LEMMA GraphNodesAreNodes ==
  ASSUME NEW v \in Builder!GraphNodes
  PROVE  IsNode(v)
<1>1. PICK l \in DOMAIN lines : v \in Builder!LineNodes(l)
  BY DEF Builder!GraphNodes
<1>2. PICK d \in {"way", "back"}, i \in Stops(l) : v = <<l, d, i>>
  BY <1>1, SameLines DEF Builder!LineNodes, Builder!Directions
<1>3. v \in {Way(l, i), Back(l, i)}
  BY <1>2 DEF Way, Back
<1> QED
  BY <1>3 DEF IsNode

(* Arcs lie between nodes of stops.                                         *)
LEMMA ArcNodes ==
  ASSUME LinesFit, NEW a \in Builder!GraphArcs
  PROVE  IsNode(a.from) /\ IsNode(a.to)
<1>1. CASE \E l \in DOMAIN lines : \E i, j \in Stops(l) : IsRide(a, l, i, j)
  BY <1>1 DEF IsRide, IsNode
<1>2. CASE \E l \in DOMAIN lines : \E i \in Stops(l) : IsTurn(a, l, i)
  BY <1>2 DEF IsTurn, IsNode
<1>3. CASE IsChange(a)
  BY <1>3, GraphNodesAreNodes DEF IsChange
<1> QED
  BY <1>1, <1>2, <1>3, ArcKinds

(* At a station of one line only, there are the two nodes of its stop. *)
LEMMA OneLineOnly ==
  ASSUME LinesAreSimple, NEW l \in DOMAIN lines, NEW x \in Stops(l), ~ConnectingStop(l, x),
         NEW v, IsNode(v), StationOfNode(v) = StationAt(l, x)
  PROVE  v \in {Way(l, x), Back(l, x)}
<1>0. PICK m \in DOMAIN lines : \E y \in Stops(m) : v \in {Way(m, y), Back(m, y)}
  BY DEF IsNode
<1>1. PICK y \in Stops(m) : v \in {Way(m, y), Back(m, y)}
  BY <1>0
<1>2. StationAt(m, y) = StationAt(l, x)
  BY <1>1, NodeFacts
<1>3. m \in LinesAt(StationAt(l, x)) /\ l \in LinesAt(StationAt(l, x))
  BY <1>2 DEF LinesAt, ToSet, StationAt, Stops
<1>4. m = l
  BY <1>3, TwoLinesConnect DEF ConnectingStop
<1>5. y = x
  BY <1>2, <1>4 DEF LinesAreSimple
<1> QED
  BY <1>1, <1>4, <1>5

(* Who may not turn at a stop of one line only rides on.                    *)
LEMMA MustRide ==
  ASSUME LinesAreSimple, LinesFit, NEW l \in DOMAIN lines, NEW x \in Stops(l),
         ~ConnectingStop(l, x), NEW c \in Builder!GraphArcs
  PROVE  /\ ~Builder!CanTurnBack(l, x) /\ (c.to = Back(l, x) \/ c.from = Way(l, x)) =>
              \E k \in Stops(l) : IsRide(c, l, x, k) /\ x < k
         /\ ~Builder!CanTurnAround(l, x) /\ (c.to = Way(l, x) \/ c.from = Back(l, x)) =>
              \E k \in Stops(l) : IsRide(c, l, k, x) /\ k < x
<1>1. ASSUME NEW m \in DOMAIN lines, NEW i \in Stops(m), NEW j \in Stops(m), IsRide(c, m, i, j), i < j
      PROVE  /\ c.to = Back(l, x) \/ c.from = Way(l, x) => m = l /\ i = x
             /\ c.to = Way(l, x) \/ c.from = Back(l, x) => m = l /\ j = x
  BY <1>1, NodeFacts DEF IsRide
<1>2. ASSUME NEW m \in DOMAIN lines, NEW i \in Stops(m), IsTurn(c, m, i)
      PROVE  /\ c.to = Back(l, x) \/ c.from = Way(l, x) => Builder!CanTurnBack(l, x)
             /\ c.to = Way(l, x) \/ c.from = Back(l, x) => Builder!CanTurnAround(l, x)
  BY <1>2, NodeFacts DEF IsTurn
<1>3. ASSUME IsChange(c), c.to \in {Way(l, x), Back(l, x)} \/ c.from \in {Way(l, x), Back(l, x)}
      PROVE  FALSE
  <2>1. IsNode(c.from) /\ IsNode(c.to)
    BY ArcNodes
  <2>2. StationOfNode(c.from) = StationAt(l, x) /\ StationOfNode(c.to) = StationAt(l, x)
    BY <1>3, NodeFacts DEF IsChange
  <2>3. c.from \in {Way(l, x), Back(l, x)} /\ c.to \in {Way(l, x), Back(l, x)}
    BY <2>1, <2>2, OneLineOnly
  <2>4. c.from[1] = l /\ c.to[1] = l
    BY <2>3, NodeFacts
  <2> QED
    BY <1>3, <2>4 DEF IsChange
<1>4. CASE \E m \in DOMAIN lines : \E i, j \in Stops(m) : IsRide(c, m, i, j) /\ i < j
  <2>0. PICK m \in DOMAIN lines : \E i, j \in Stops(m) : IsRide(c, m, i, j) /\ i < j
    BY <1>4
  <2>1. PICK i \in Stops(m), j \in Stops(m) : IsRide(c, m, i, j) /\ i < j
    BY <2>0
  <2>2. /\ c.to = Back(l, x) \/ c.from = Way(l, x) => m = l /\ i = x
        /\ c.to = Way(l, x) \/ c.from = Back(l, x) => m = l /\ j = x
    BY <1>1, <2>1
  <2> QED
    BY <2>1, <2>2
<1>5. CASE \E m \in DOMAIN lines : \E i \in Stops(m) : IsTurn(c, m, i)
  BY <1>2, <1>5
<1>6. CASE IsChange(c)
  BY <1>3, <1>6
<1> QED
  BY <1>4, <1>5, <1>6, ArcKinds

(* A walk that comes to a forced stop rides past the one that is left out. *)
LEMMA ForcedRide ==
  ASSUME LinesAreSimple, LinesFit, NEW l \in DOMAIN lines, NEW i \in Stops(l),
         NEW x \in Builder!Kept(l), ~ConnectingStop(l, x), IsForced(l, x, i),
         NEW a \in Builder!GraphArcs, NEW b \in Builder!GraphArcs, a.to = b.from,
         StationOfNode(a.to) = StationAt(l, x)
  PROVE  \E c \in {a, b} : \E j, k \in Stops(l) : IsRide(c, l, j, k) /\ j < i /\ i < k
<1>1. x \in Stops(l) /\ \A k \in Stops(l) : k \in Int
  BY SameLines DEF Builder!Kept, LinesFit
<1>2. a.to \in {Way(l, x), Back(l, x)}
  BY <1>1, ArcNodes, OneLineOnly
<1>3. CASE x < i /\ ~Builder!CanTurnBack(l, x) /\ \A k \in Builder!Kept(l) : k <= x \/ i < k
  <2>1. PICK c \in {a, b} : c.to = Back(l, x) \/ c.from = Way(l, x)
    BY <1>2
  <2>2. PICK k \in Stops(l) : IsRide(c, l, x, k) /\ x < k
    BY <1>1, <1>3, <2>1, MustRide
  <2>3. k \in Builder!Kept(l)
    BY <2>2 DEF IsRide
  <2>4. i < k
    BY <1>1, <1>3, <2>2, <2>3
  <2> QED
    BY <1>1, <1>3, <2>2, <2>4
<1>4. CASE i < x /\ ~Builder!CanTurnAround(l, x) /\ \A k \in Builder!Kept(l) : k < i \/ x <= k
  <2>1. PICK c \in {a, b} : c.to = Way(l, x) \/ c.from = Back(l, x)
    BY <1>2
  <2>2. PICK k \in Stops(l) : IsRide(c, l, k, x) /\ k < x
    BY <1>1, <1>4, <2>1, MustRide
  <2>3. k \in Builder!Kept(l)
    BY <2>2 DEF IsRide
  <2>4. k < i
    BY <1>1, <1>4, <2>2, <2>3
  <2> QED
    BY <1>1, <1>4, <2>2, <2>4
<1> QED
  BY <1>3, <1>4 DEF IsForced

(* The station of a stop that is left is one the solver is given.           *)
LEMMA KeptStationsStand ==
  ASSUME NEW l \in DOMAIN lines, NEW x \in Builder!Kept(l)
  PROVE  StationAt(l, x) \in DOMAIN Builder!GraphStations
<1>1. Way(l, x) \in Builder!GraphNodes
  <2>1. Way(l, x) \in Builder!LineNodes(l) /\ Way(l, x)[3] = x /\ Way(l, x)[1] = l
    BY SameLines DEF Builder!LineNodes, Builder!Directions, Way, Builder!Kept
  <2> QED
    BY <2>1 DEF Builder!GraphNodes
<1>2. Builder!StationOfNode(Way(l, x)) = StationAt(l, x)
  BY SameLines, NodeFacts
<1> QED
  BY <1>1, <1>2 DEF Builder!GraphStations

(* A tour rides past every stop that is left out. *)
LEMMA LeftOutIsPassed ==
  ASSUME LinesAreSimple, LinesFit, preprocess = TRUE, type = "STATION",
         NEW t, IsClosedWalk(t, Builder!GraphArcs), Visits(t, DOMAIN Builder!GraphStations),
         NEW l \in DOMAIN lines, NEW i \in Stops(l), i \notin Builder!Kept(l)
  PROVE  \E q \in DOMAIN t : \E j, k \in Stops(l) : IsRide(t[q], l, j, k) /\ j < i /\ i < k
<1>1. PICK x \in Builder!Kept(l) : ~ConnectingStop(l, x) /\ IsForced(l, x, i)
  BY ForcedStops
<1>2. StationAt(l, x) \in DOMAIN Builder!GraphStations
  BY KeptStationsStand
<1>3. PICK q \in DOMAIN t : StationOfNode(t[q].to) = StationAt(l, x)
  BY <1>2 DEF Visits
<1> DEFINE n == Len(t)
<1>4. t \in Seq(Builder!GraphArcs) /\ t # <<>> /\ IsWalk(t, n)
  BY DEF IsClosedWalk
<1>5. n \in Nat /\ n > 0 /\ DOMAIN t = 1..n /\ \A p \in 1..n : t[p] \in Builder!GraphArcs
  BY <1>4
<1> HIDE DEF n
<1>6. PICK r \in 1..n : t[q].to = t[r].from
  <2>1. CASE q = n
    BY <1>4, <1>5, <2>1 DEF IsWalk
  <2>2. CASE q # n
    <3>1. q \in 1..(n - 1) /\ q + 1 \in 1..n
      BY <1>5, <2>2
    <3> QED
      BY <1>4, <3>1 DEF IsWalk
  <2> QED
    BY <2>1, <2>2
<1>7. t[q] \in Builder!GraphArcs /\ t[r] \in Builder!GraphArcs
  BY <1>5
<1>8. \E c \in {t[q], t[r]} : \E j, k \in Stops(l) : IsRide(c, l, j, k) /\ j < i /\ i < k
  BY <1>1, <1>3, <1>6, <1>7, ForcedRide
<1> QED
  BY <1>5, <1>8

-----------------------------------------------------------------------------
(* Rides of one run.                                                        *)

(* A ride, or some of them: w lies ahead of v on the line l. *)
Onward(l, v, w) ==
  \E i, j \in Stops(l) : /\ i <= j
                         /\ \/ v = Way(l, i) /\ w = Way(l, j)
                            \/ v = Back(l, j) /\ w = Back(l, i)

(* Riding on and on is riding on.                                           *)
LEMMA OnwardOn ==
  ASSUME LinesFit, NEW l \in DOMAIN lines, NEW v, NEW w, Onward(l, v, w)
  PROVE  /\ Onward(l, v, v) /\ Onward(l, w, w)
         /\ \A z : Onward(l, w, z) => Onward(l, v, z)
<1>1. \A i \in Stops(l) : i \in Int
  BY DEF LinesFit
<1>2. PICK i \in Stops(l), j \in Stops(l) :
        i <= j /\ ((v = Way(l, i) /\ w = Way(l, j)) \/ (v = Back(l, j) /\ w = Back(l, i)))
  BY DEF Onward
<1>3. Onward(l, v, v) /\ Onward(l, w, w)
  BY <1>1, <1>2 DEF Onward
<1>4. ASSUME NEW z, Onward(l, w, z) PROVE Onward(l, v, z)
  <2>1. PICK a \in Stops(l), b \in Stops(l) :
          a <= b /\ ((w = Way(l, a) /\ z = Way(l, b)) \/ (w = Back(l, b) /\ z = Back(l, a)))
    BY <1>4 DEF Onward
  <2>2. CASE v = Way(l, i) /\ w = Way(l, j)
    <3>1. a = j /\ z = Way(l, b) /\ i <= b
      BY <1>1, <1>2, <2>1, <2>2, NodeFacts
    <3> QED
      BY <2>2, <3>1 DEF Onward
  <2>3. CASE v = Back(l, j) /\ w = Back(l, i)
    <3>1. b = i /\ z = Back(l, a) /\ a <= j
      BY <1>1, <1>2, <2>1, <2>3, NodeFacts
    <3> QED
      BY <2>3, <3>1 DEF Onward
  <2> QED
    BY <1>2, <2>2, <2>3
<1> QED
  BY <1>3, <1>4

(* So is a sequence of rides of one line, each from where the last one ended. *)
LEMMA RidesOnward ==
  ASSUME LinesFit, NEW l \in DOMAIN lines, NEW f \in Int, NEW q \in Int, NEW t,
         \A k \in f..q : Onward(l, t[k].from, t[k].to),
         \A k \in f..(q - 1) : t[k].to = t[k + 1].from
  PROVE  \A k \in f..q : Onward(l, t[f].from, t[k].to)
<1> DEFINE bad == {d \in Nat : f + d \in f..q /\ ~Onward(l, t[f].from, t[f + d].to)}
<1>1. bad = {}
  <2> SUFFICES ASSUME bad # {} PROVE FALSE
    OBVIOUS
  <2>1. bad \in SUBSET Nat
    OBVIOUS
  <2> HIDE DEF bad
  <2>2. PICK d \in bad : \A e \in bad : d <= e
    BY <2>1, LeastNumber
  <2>3. d \in Nat /\ f + d \in f..q /\ ~Onward(l, t[f].from, t[f + d].to)
    BY DEF bad
  <2>4. d # 0
    <3> SUFFICES ASSUME d = 0 PROVE FALSE
      OBVIOUS
    <3>1. f + d = f /\ f \in f..q
      BY <2>3
    <3> QED
      BY <2>3, <3>1
  <2> DEFINE k == f + (d - 1)
  <2>5. d - 1 \in Nat /\ d - 1 \notin bad /\ k \in f..q /\ k \in f..(q - 1) /\ k + 1 = f + d
    BY <2>2, <2>3, <2>4
  <2>6. Onward(l, t[f].from, t[k].to)
    BY <2>5 DEF bad
  <2> HIDE DEF k
  <2>7. Onward(l, t[k].to, t[f + d].to)
    <3>1. t[k].to = t[k + 1].from /\ Onward(l, t[k + 1].from, t[k + 1].to)
      BY <2>3, <2>5
    <3> QED
      BY <2>5, <3>1
  <2>8. Onward(l, t[f].from, t[f + d].to)
    BY <2>6, <2>7, OnwardOn
  <2> QED
    BY <2>3, <2>8
<1>2. ASSUME NEW k \in f..q PROVE Onward(l, t[f].from, t[k].to)
  <2>1. k - f \in Nat /\ f + (k - f) = k
    OBVIOUS
  <2>2. k - f \notin bad
    BY <1>1
  <2> QED
    BY <2>1, <2>2
<1> QED
  BY <1>2

(* From the first to the last arc of a run of rides, one comes past all of  *)
(* its arcs.                                                                *)
LEMMA RunOnward ==
  ASSUME LinesFit, NEW l \in DOMAIN lines, NEW f \in Int, NEW q \in Int, NEW t,
         \A k \in f..q : Onward(l, t[k].from, t[k].to),
         \A k \in f..(q - 1) : t[k].to = t[k + 1].from,
         NEW p \in f..q
  PROVE  Onward(l, t[f].from, t[p].from) /\ Onward(l, t[p].to, t[q].to)
<1>1. Onward(l, t[f].from, t[p].from)
  <2>1. CASE p = f
    BY <2>1, OnwardOn
  <2>2. CASE p # f
    <3> DEFINE k == p - 1
    <3>1. k \in f..q /\ k \in f..(q - 1) /\ k + 1 = p
      BY <2>2
    <3> HIDE DEF k
    <3>2. Onward(l, t[f].from, t[k].to) /\ t[k].to = t[p].from
      BY <3>1, RidesOnward
    <3> QED
      BY <3>2
  <2> QED
    BY <2>1, <2>2
<1>2. Onward(l, t[p].to, t[q].to)
  <2>1. CASE p = q
    BY <2>1, OnwardOn
  <2>2. CASE p # q
    <3> DEFINE k == p + 1
    <3>1. k \in Int /\ k \in f..q /\ q \in k..q /\ p \in f..(q - 1)
          /\ (\A m \in k..q : m \in f..q) /\ (\A m \in k..(q - 1) : m \in f..(q - 1))
      BY <2>2
    <3>2. t[p].to = t[k].from
      BY <3>1
    <3> HIDE DEF k
    <3>3. /\ \A m \in k..q : Onward(l, t[m].from, t[m].to)
          /\ \A m \in k..(q - 1) : t[m].to = t[m + 1].from
      BY <3>1
    <3>4. \A m \in k..q : Onward(l, t[k].from, t[m].to)
      BY <3>1, <3>3, RidesOnward
    <3> QED
      BY <3>1, <3>2, <3>4
  <2> QED
    BY <2>1, <2>2
<1> QED
  BY <1>1, <1>2

-----------------------------------------------------------------------------
(* Rows of the table.                                                       *)

LEMMA FirstFacts ==
  ASSUME NEW t, NEW n \in Nat, Len(t) = n, NEW q \in 1..n, NEW f, f = Output!FirstOfRun(t, q)
  PROVE  /\ f \in 1..q /\ (f = 1 \/ Output!EndsRun(t, f - 1))
         /\ \A k \in f..(q - 1) : ~Output!EndsRun(t, k)
<1> DEFINE Begins(p) == p = 1 \/ Output!EndsRun(t, p - 1)
           Is(p) == Begins(p) /\ \A k \in p..(q - 1) : ~Output!EndsRun(t, k)
           gaps == {d \in Nat : d <= q - 1 /\ Begins(q - d)}
<1>1. q - 1 \in gaps /\ gaps \in SUBSET Nat
  OBVIOUS
<1>2. PICK d \in gaps : \A e \in gaps : d <= e
  BY <1>1, LeastNumber
<1> DEFINE p == q - d
<1>3. p \in 1..q /\ Begins(p)
  BY <1>2
<1>4. ASSUME NEW k \in p..(q - 1) PROVE ~Output!EndsRun(t, k)
  <2> DEFINE e == q - (k + 1)
  <2>1. e \in Nat /\ e < d /\ e <= q - 1 /\ q - e = k + 1 /\ (k + 1) - 1 = k
    BY <1>2, <1>3
  <2> HIDE DEF e
  <2>2. ~Begins(q - e)
    <3>1. e \notin gaps
      <4> SUFFICES ASSUME e \in gaps PROVE FALSE
        OBVIOUS
      <4>1. d <= e /\ d \in Nat
        BY <1>2
      <4> QED
        BY <2>1, <4>1
    <3> QED
      BY <2>1, <3>1
  <2> QED
    BY <2>1, <2>2
<1> HIDE DEF p
<1>5. \E x \in 1..q : Is(x)
  BY <1>3, <1>4
<1>6. f = CHOOSE x \in 1..q : Is(x)
  BY DEF Output!FirstOfRun
<1> HIDE DEF Is
<1>7. f \in 1..q /\ Is(f)
  BY <1>5, <1>6
<1> QED
  BY <1>7 DEF Is

(* The arcs of a run have one name.                                         *)
LEMMA SameNames ==
  ASSUME NEW t, NEW f \in Int, NEW q \in Int, \A k \in f..(q - 1) : t[k + 1].name = t[k].name
  PROVE  \A k \in f..q : t[k].name = t[f].name
<1> DEFINE bad == {d \in Nat : f + d \in f..q /\ t[f + d].name # t[f].name}
<1>1. bad = {}
  <2> SUFFICES ASSUME bad # {} PROVE FALSE
    OBVIOUS
  <2>1. bad \in SUBSET Nat
    OBVIOUS
  <2> HIDE DEF bad
  <2>2. PICK d \in bad : \A e \in bad : d <= e
    BY <2>1, LeastNumber
  <2>3. d \in Nat /\ f + d \in f..q /\ t[f + d].name # t[f].name
    BY DEF bad
  <2>4. d # 0
    <3> SUFFICES ASSUME d = 0 PROVE FALSE
      OBVIOUS
    <3>1. f + d = f
      BY <2>3
    <3> QED
      BY <2>3, <3>1
  <2> DEFINE k == f + (d - 1)
  <2>5. d - 1 \in Nat /\ d - 1 \notin bad /\ k \in f..q /\ k \in f..(q - 1) /\ k + 1 = f + d
    BY <2>2, <2>3, <2>4
  <2>6. t[k].name = t[f].name
    BY <2>5 DEF bad
  <2> HIDE DEF k
  <2> QED
    BY <2>3, <2>5, <2>6
<1>2. ASSUME NEW k \in f..q PROVE t[k].name = t[f].name
  <2>1. k - f \in Nat /\ f + (k - f) = k
    OBVIOUS
  <2>2. k - f \notin bad
    BY <1>1
  <2> QED
    BY <2>1, <2>2
<1> QED
  BY <1>2

(* Every arc but a change is in a run that the table has a row for.         *)
LEMMA RunOfRide ==
  ASSUME compact = TRUE, NEW t, NEW n \in Nat, Len(t) = n, DOMAIN t = 1..n, NEW p \in 1..n,
         t[p].name # CHANGE_NAME
  PROVE  \E q \in Output!LastArcs(t) : \E f \in 1..p :
           /\ q \in p..n /\ f = Output!FirstOfRun(t, q)
           /\ \A k \in f..q : t[k].name = t[p].name
<1> DEFINE ends == {m \in Nat : m \in p..n /\ Output!EndsRun(t, m)}
<1>1. n \in ends /\ ends \in SUBSET Nat
  BY DEF Output!EndsRun
<1>2. PICK q \in ends : \A m \in ends : q <= m
  BY <1>1, LeastNumber
<1>3. q \in p..n /\ q \in 1..n /\ q \in Int /\ Output!EndsRun(t, q)
  BY <1>2
<1>4. \A k \in p..(q - 1) : ~Output!EndsRun(t, k)
  <2> SUFFICES ASSUME NEW k \in p..(q - 1), Output!EndsRun(t, k) PROVE FALSE
    OBVIOUS
  <2>1. k \in Nat /\ k \in p..n /\ k < q
    BY <1>3
  <2>2. k \in ends
    BY <2>1
  <2> HIDE DEF ends
  <2>3. q <= k
    BY <1>2, <2>2
  <2> QED
    BY <1>3, <2>1, <2>3
<1> HIDE DEF ends
<1> DEFINE f == Output!FirstOfRun(t, q)
<1>5. /\ f \in 1..q /\ (f = 1 \/ Output!EndsRun(t, f - 1))
      /\ \A k \in f..(q - 1) : ~Output!EndsRun(t, k)
  BY <1>3, FirstFacts
<1> HIDE DEF f
<1>6. f \in 1..p
  <2> SUFFICES ASSUME f > p PROVE FALSE
    BY <1>3, <1>5
  <2>1. f # 1 /\ f - 1 \in p..(q - 1)
    BY <1>3, <1>5
  <2> QED
    BY <1>4, <1>5, <2>1
<1>7. \A k \in 1..n : ~Output!EndsRun(t, k) => t[k + 1].name = t[k].name
  BY DEF Output!EndsRun
<1>8. \A k \in f..(q - 1) : t[k + 1].name = t[k].name
  <2>1. \A k \in f..(q - 1) : k \in 1..n
    BY <1>3, <1>5
  <2> QED
    BY <1>5, <1>7, <2>1
<1>9. \A k \in f..q : t[k].name = t[f].name
  <2>1. f \in Int /\ q \in Int
    BY <1>3, <1>5
  <2> QED
    BY <1>8, <2>1, SameNames
<1>10. t[p].name = t[f].name
  BY <1>3, <1>6, <1>9
<1>11. q \in Output!LastArcs(t)
  <2>1. t[q].name = t[p].name
    BY <1>3, <1>5, <1>9, <1>10
  <2>2. t[q].name # Output!CHANGE_NAME
    BY <2>1 DEF Output!CHANGE_NAME, CHANGE_NAME
  <2> QED
    BY <1>3, <2>2 DEF Output!LastArcs
<1> QED
  BY <1>3, <1>6, <1>9, <1>10, <1>11 DEF f

(* The table has one row for each of the last arcs.                         *)
LEMMA NthFacts ==
  ASSUME NEW n \in Nat, NEW S \in SUBSET (1..n)
  PROVE  /\ \A k \in 1..Output!Cardinality(S) : Output!Nth(S, k) \in S
         /\ \A q \in S : \E k \in 1..Output!Cardinality(S) : Output!Nth(S, k) = q
<1> DEFINE upto(q) == {p \in S : p <= q}
           count(q) == Cardinality(upto(q))
<1>0. \A p \in S : p \in Int /\ 1 <= p /\ p <= n
  OBVIOUS
<1>1. Output!Cardinality(S) = Cardinality(S)
      /\ \A k : Output!Nth(S, k) = CHOOSE q \in S : count(q) = k
  BY DEF Output!Cardinality, Cardinality, Output!Nth
<1>2. IsFiniteSet(S) /\ Cardinality(S) \in Nat
  <2>1. IsFiniteSet(1..n)
    BY FS_Interval
  <2> QED
    BY <2>1, FS_Subset, FS_CardinalityType
<1>3. ASSUME NEW q \in Int
      PROVE  IsFiniteSet(upto(q)) /\ count(q) \in Nat /\ count(q) <= Cardinality(S)
  BY <1>2, FS_Subset, FS_CardinalityType
<1>4. ASSUME NEW p \in S, NEW q \in S, p < q PROVE count(p) < count(q)
  <2>1. q \in Int /\ p \in Int
    OBVIOUS
  <2>2. upto(p) \subseteq upto(q) /\ upto(p) # upto(q)
    <3>1. q \in upto(q) /\ q \notin upto(p)
      BY <1>4, <2>1
    <3>2. upto(p) \subseteq upto(q)
      <4> SUFFICES ASSUME NEW z \in S, z <= p PROVE z <= q
        OBVIOUS
      <4>1. z \in Int
        BY <1>0
      <4> QED
        BY <1>4, <2>1, <4>1
    <3> QED
      BY <3>1, <3>2
  <2>3. IsFiniteSet(upto(p)) /\ IsFiniteSet(upto(q)) /\ count(p) \in Nat /\ count(q) \in Nat
    BY <1>3, <2>1
  <2> HIDE DEF upto
  <2>4. Cardinality(upto(p)) <= Cardinality(upto(q))
        /\ (Cardinality(upto(p)) = Cardinality(upto(q)) => upto(p) = upto(q))
    BY <2>2, <2>3, FS_Subset
  <2> QED
    BY <2>2, <2>3, <2>4
<1>5. ASSUME NEW q \in S PROVE count(q) \in 1..Cardinality(S)
  <2>1. q \in upto(q) /\ q \in Int
    OBVIOUS
  <2>2. count(q) # 0
    BY <1>3, <2>1, FS_EmptySet
  <2> HIDE DEF upto
  <2> QED
    BY <1>2, <1>3, <2>1, <2>2
<1>6. ASSUME NEW k \in 1..Cardinality(S) PROVE \E q \in S : count(q) = k
  <2> DEFINE enough == {m \in Nat : count(m) >= k}
  <2>1. n \in enough
    <3>1. upto(n) = S
      BY <1>0
    <3> QED
      BY <1>2, <3>1
  <2>2. enough \in SUBSET Nat
    OBVIOUS
  <2>3. PICK m \in enough : \A e \in enough : m <= e
    BY <2>1, <2>2, LeastNumber
  <2>4. m \in Nat /\ count(m) >= k /\ k \in Nat /\ k > 0
    BY <1>2, <2>3
  <2>5. m # 0
    <3> SUFFICES ASSUME m = 0 PROVE FALSE
      OBVIOUS
    <3>1. upto(0) = {}
      <4>1. \A p \in S : ~(p <= 0)
        BY <1>0
      <4> QED
        BY <4>1
    <3>2. Cardinality(upto(0)) = 0
      BY <3>1, FS_EmptySet
    <3> HIDE DEF upto
    <3> QED
      BY <2>4, <3>2
  <2> DEFINE b == m - 1
  <2>6. b \in Nat /\ b < m /\ \A p \in Int : p <= m <=> p <= b \/ p = m
    BY <2>4, <2>5
  <2> HIDE DEF b
  <2>7. ~(count(b) >= k)
    <3> SUFFICES ASSUME count(b) >= k PROVE FALSE
      OBVIOUS
    <3>1. b \in enough
      BY <2>6
    <3> QED
      BY <2>3, <2>4, <2>6, <3>1
  <2>8. \A p \in S : p <= m <=> p <= b \/ p = m
    BY <1>0, <2>6
  <2>9. m \in S
    <3> SUFFICES ASSUME m \notin S PROVE FALSE
      OBVIOUS
    <3>1. upto(m) = upto(b)
      BY <2>8
    <3> QED
      BY <2>4, <2>7, <3>1
  <2>10. count(m) <= count(b) + 1
    <3>1. upto(m) = upto(b) \cup {m} /\ m \notin upto(b)
      <4>1. ~(m <= b)
        BY <2>4, <2>6
      <4>2. \A p : p \in upto(m) <=> p \in upto(b) \/ p = m
        BY <2>8, <2>9
      <4> QED
        BY <4>1, <4>2
    <3>2. IsFiniteSet(upto(b))
      BY <1>3, <2>6
    <3> HIDE DEF upto
    <3>3. Cardinality(upto(b) \cup {m}) = Cardinality(upto(b)) + 1
      BY ONLY <3>1, <3>2, FS_AddElement
    <3>4. Cardinality(upto(b)) \in Nat
      BY <3>2, FS_CardinalityType
    <3> QED
      BY <3>1, <3>3, <3>4
  <2>11. count(m) = k
    <3>1. count(m) \in Nat /\ count(b) \in Nat
      BY <1>3, <2>4, <2>6
    <3> HIDE DEF upto
    <3> QED
      BY <2>4, <2>7, <2>10, <3>1
  <2> QED
    BY <2>9, <2>11
<1>7. ASSUME NEW p \in S, NEW q \in S, count(p) = count(q) PROVE p = q
  <2>1. p \in Int /\ q \in Int /\ count(p) \in Nat /\ count(q) \in Nat
    BY <1>3
  <2>2. ~(p < q) /\ ~(q < p)
    BY <1>4, <1>7, <2>1
  <2> QED
    BY <2>1, <2>2
<1> HIDE DEF count
<1>8. \A k \in 1..Cardinality(S) : Output!Nth(S, k) \in S
  BY <1>1, <1>6
<1>9. ASSUME NEW q \in S PROVE Output!Nth(S, count(q)) = q
  <2>1. Output!Nth(S, count(q)) = CHOOSE p \in S : count(p) = count(q)
    BY <1>1
  <2> QED
    BY <1>7, <2>1
<1> QED
  BY <1>1, <1>5, <1>8, <1>9

(* The rows, in terms of the lines. *)
LEMMA RowFacts ==
  ASSUME NEW t, NEW n \in Nat, Len(t) = n, DOMAIN t = 1..n
  PROVE  /\ \A q \in Output!LastArcs(t) : q \in 1..n
         /\ \A q \in Output!LastArcs(t) : \E k \in DOMAIN Output!Table(t) :
              Output!Table(t)[k] = Output!Row(t, q)
         /\ \A k \in DOMAIN Output!Table(t) : \E q \in Output!LastArcs(t) :
              Output!Table(t)[k] = Output!Row(t, q)
         /\ \A q, f : f = Output!FirstOfRun(t, q) =>
              /\ Output!Row(t, q)[1] = StationOfNode(t[f].from)
              /\ Output!Row(t, q)[2] = t[q].name
              /\ Output!Row(t, q)[3] = StationOfNode(t[q].to)
<1> DEFINE last == Output!LastArcs(t)
<1>1. last \in SUBSET (1..n)
  BY DEF Output!LastArcs
<1>2. Output!Table(t) = [k \in 1..Output!Cardinality(last) |-> Output!Row(t, Output!Nth(last, k))]
  BY DEF Output!Table
<1>3. \A v : Output!StationOfNode(v) = StationOfNode(v)
  BY DEF Output!StationOfNode, StationOfNode, Output!StationAt, StationAt
<1>4. \A q, f : f = Output!FirstOfRun(t, q) =>
         /\ Output!Row(t, q)[1] = StationOfNode(t[f].from)
         /\ Output!Row(t, q)[2] = t[q].name
         /\ Output!Row(t, q)[3] = StationOfNode(t[q].to)
  BY <1>3 DEF Output!Row
<1> HIDE DEF last
<1>5. /\ \A k \in 1..Output!Cardinality(last) : Output!Nth(last, k) \in last
      /\ \A q \in last : \E k \in 1..Output!Cardinality(last) : Output!Nth(last, k) = q
  BY <1>1, NthFacts
<1> QED
  BY <1>1, <1>2, <1>4, <1>5 DEF last

(* Who follows the row of a ride passes all stops of the ride. *)
LEMMA RowPasses ==
  ASSUME LinesFit, compact = TRUE, NEW t, IsClosedWalk(t, Builder!GraphArcs), NEW p \in DOMAIN t,
         NEW l \in DOMAIN lines, NEW i \in Stops(l), NEW j \in Stops(l), IsRide(t[p], l, i, j)
  PROVE  \E k \in DOMAIN Output!Table(t) : \A m \in Stops(l) :
           i <= m /\ m <= j => StationAt(l, m) \in Passed(Output!Table(t)[k])
<1> DEFINE n == Len(t)
<1>1. t \in Seq(Builder!GraphArcs) /\ t # <<>> /\ IsWalk(t, n)
  BY DEF IsClosedWalk
<1>2. n \in Nat /\ DOMAIN t = 1..n /\ \A k \in 1..n : t[k] \in Builder!GraphArcs
  BY <1>1
<1>0. Len(t) = n
  OBVIOUS
<1> HIDE DEF n
<1>3. t[p].name = l /\ l # CHANGE_NAME
  BY DEF IsRide, LinesFit
<1>4. PICK q \in Output!LastArcs(t), f \in 1..p :
        /\ q \in p..n /\ f = Output!FirstOfRun(t, q)
        /\ \A k \in f..q : t[k].name = l
  BY <1>0, <1>2, <1>3, RunOfRide
<1>5. f \in Int /\ q \in Int /\ p \in f..q /\ \A k \in f..q : k \in 1..n
  BY <1>2, <1>4
<1>6. ASSUME NEW k \in f..q PROVE Onward(l, t[k].from, t[k].to)
  <2>1. t[k] \in Builder!GraphArcs /\ t[k].name = l
    BY <1>2, <1>4, <1>5
  <2>2. PICK m \in DOMAIN lines : \E x, y \in Stops(m) : IsRide(t[k], m, x, y) /\ x < y
    BY <1>3, <2>1, ArcKinds
  <2>3. m = l
    BY <2>1, <2>2 DEF IsRide
  <2>4. \A x \in Stops(l) : x \in Int
    BY DEF LinesFit
  <2> QED
    BY <2>2, <2>3, <2>4 DEF IsRide, Onward
<1>7. \A k \in f..(q - 1) : t[k].to = t[k + 1].from
  <2>1. \A k \in f..(q - 1) : k \in 1..(n - 1)
    BY <1>2, <1>4
  <2> QED
    BY <1>1, <2>1 DEF IsWalk
<1>8. Onward(l, t[f].from, t[p].from) /\ Onward(l, t[p].to, t[q].to)
  BY <1>5, <1>6, <1>7, RunOnward
<1>9. \A x \in Stops(l) : x \in Int
  BY DEF LinesFit
<1>10. \E a, b \in Stops(l) :
         /\ {StationOfNode(t[f].from), StationOfNode(t[q].to)} = {StationAt(l, a), StationAt(l, b)}
         /\ a <= i /\ j <= b
  <2>1. PICK a \in Stops(l), c \in Stops(l) :
          a <= c /\ ((t[f].from = Way(l, a) /\ t[p].from = Way(l, c))
                       \/ (t[f].from = Back(l, c) /\ t[p].from = Back(l, a)))
    BY <1>8 DEF Onward
  <2>2. PICK d \in Stops(l), b \in Stops(l) :
          d <= b /\ ((t[p].to = Way(l, d) /\ t[q].to = Way(l, b))
                       \/ (t[p].to = Back(l, b) /\ t[q].to = Back(l, d)))
    BY <1>8 DEF Onward
  <2>3. CASE t[p].from = Way(l, i) /\ t[p].to = Way(l, j)
    <3>1. t[f].from = Way(l, a) /\ c = i /\ t[q].to = Way(l, b) /\ d = j
      BY <2>1, <2>2, <2>3, NodeFacts
    <3>2. StationOfNode(t[f].from) = StationAt(l, a) /\ StationOfNode(t[q].to) = StationAt(l, b)
      BY <3>1, NodeFacts
    <3> QED
      BY <2>1, <2>2, <3>1, <3>2
  <2>4. CASE t[p].from = Back(l, j) /\ t[p].to = Back(l, i)
    <3>1. t[f].from = Back(l, c) /\ a = j /\ t[q].to = Back(l, d) /\ b = i
      BY <2>1, <2>2, <2>4, NodeFacts
    <3>2. StationOfNode(t[f].from) = StationAt(l, c) /\ StationOfNode(t[q].to) = StationAt(l, d)
      BY <3>1, NodeFacts
    <3> QED
      BY <2>1, <2>2, <3>1, <3>2
  <2> QED
    BY <2>3, <2>4 DEF IsRide
<1>11. PICK a \in Stops(l), b \in Stops(l) :
         /\ {StationOfNode(t[f].from), StationOfNode(t[q].to)} = {StationAt(l, a), StationAt(l, b)}
         /\ a <= i /\ j <= b
  BY <1>10
<1>12. PICK k \in DOMAIN Output!Table(t) : Output!Table(t)[k] = Output!Row(t, q)
  BY <1>0, <1>2, RowFacts
<1> DEFINE row == Output!Table(t)[k]
<1>13. row[1] = StationOfNode(t[f].from) /\ row[2] = t[q].name /\ row[3] = StationOfNode(t[q].to)
  BY <1>0, <1>2, <1>4, <1>12, RowFacts
<1>14. row[2] = l
  BY <1>4, <1>5, <1>13
<1> HIDE DEF row
<1>15. ASSUME NEW m \in Stops(l), i <= m, m <= j PROVE StationAt(l, m) \in Passed(row)
  <2>1. a <= m /\ m <= b
    BY <1>9, <1>11, <1>15
  <2>2. {StationAt(l, a), StationAt(l, b)} = {row[1], row[3]}
    BY <1>11, <1>13
  <2> QED
    BY <1>3, <1>14, <2>1, <2>2 DEF Passed
<1> QED
  BY <1>15 DEF row

(* A row says nothing but stations of the network. *)
LEMMA RowsTellStations ==
  ASSUME LinesFit, NEW t, IsClosedWalk(t, Builder!GraphArcs), NEW k \in DOMAIN Output!Table(t)
  PROVE  Passed(Output!Table(t)[k]) \subseteq StationNames
<1> DEFINE n == Len(t)
           row == Output!Table(t)[k]
<1>1. t \in Seq(Builder!GraphArcs) /\ t # <<>>
  BY DEF IsClosedWalk
<1>2. n \in Nat /\ DOMAIN t = 1..n /\ \A q \in 1..n : t[q] \in Builder!GraphArcs
  BY <1>1
<1>0. Len(t) = n
  OBVIOUS
<1> HIDE DEF n
<1>3. PICK q \in Output!LastArcs(t) : row = Output!Row(t, q)
  BY <1>0, <1>2, RowFacts
<1>4. q \in 1..n
  BY <1>0, <1>2, RowFacts
<1> DEFINE f == Output!FirstOfRun(t, q)
<1>5. f \in 1..q
  BY <1>0, <1>2, <1>4, FirstFacts
<1>6. row[1] = StationOfNode(t[f].from) /\ row[2] = t[q].name /\ row[3] = StationOfNode(t[q].to)
  BY <1>0, <1>2, <1>3, RowFacts
<1> HIDE DEF f, row
<1>7. f \in 1..n
  BY <1>2, <1>4, <1>5
<1>8. \A v : IsNode(v) => StationOfNode(v) \in StationNames
  BY NodeFacts DEF IsNode, StationNames, ToSet, StationAt, Stops
<1>9. row[1] \in StationNames /\ row[3] \in StationNames
  <2>1. IsNode(t[f].from) /\ IsNode(t[q].to)
    BY <1>2, <1>4, <1>7, ArcNodes
  <2> QED
    BY <1>6, <1>8, <2>1
<1>10. row[2] # CHANGE_NAME => row[2] \in DOMAIN lines
  <2>1. t[q] \in Builder!GraphArcs
    BY <1>2, <1>4
  <2> QED
    BY <1>6, <2>1, ArcKinds DEF IsRide
<1>11. \A l \in DOMAIN lines : \A i \in Stops(l) : StationAt(l, i) \in StationNames
  BY DEF StationNames, ToSet, StationAt, Stops
<1> QED
  BY <1>9, <1>10, <1>11 DEF Passed, row

(* A station that is still in the graph is where a ride begins or ends, or  *)
(* the tour ends there.                                                     *)
LEMMA KeptIsTold ==
  ASSUME LinesFit, compact = TRUE, NEW t, IsClosedWalk(t, Builder!GraphArcs),
         NEW z, NEW q \in DOMAIN t, StationOfNode(t[q].to) = z
  PROVE  \E k \in DOMAIN Output!Table(t) : z \in Passed(Output!Table(t)[k])
<1> DEFINE n == Len(t)
           Touches(a) == StationOfNode(a.from) = z \/ StationOfNode(a.to) = z
<1>1. t \in Seq(Builder!GraphArcs) /\ t # <<>> /\ IsWalk(t, n)
  BY DEF IsClosedWalk
<1>2. n \in Nat /\ n > 0 /\ DOMAIN t = 1..n /\ \A p \in 1..n : t[p] \in Builder!GraphArcs
  BY <1>1
<1>0. Len(t) = n
  OBVIOUS
<1> HIDE DEF n
<1>3. CASE \E p \in 1..n : \E l \in DOMAIN lines : \E i, j \in Stops(l) :
             IsRide(t[p], l, i, j) /\ i < j /\ Touches(t[p])
  <2>1. PICK p \in 1..n, l \in DOMAIN lines : \E i, j \in Stops(l) :
          IsRide(t[p], l, i, j) /\ i < j /\ Touches(t[p])
    BY <1>3
  <2>2. PICK i \in Stops(l), j \in Stops(l) : IsRide(t[p], l, i, j) /\ i < j /\ Touches(t[p])
    BY <2>1
  <2>3. PICK k \in DOMAIN Output!Table(t) : \A m \in Stops(l) :
           i <= m /\ m <= j => StationAt(l, m) \in Passed(Output!Table(t)[k])
    BY <1>2, <2>2, RowPasses
  <2>4. i <= i /\ i <= j /\ j <= j
    BY <2>2 DEF LinesFit
  <2>5. StationAt(l, i) = z \/ StationAt(l, j) = z
    BY <2>2, NodeFacts DEF IsRide
  <2> QED
    BY <2>3, <2>4, <2>5
<1>4. CASE ~\E p \in 1..n : \E l \in DOMAIN lines : \E i, j \in Stops(l) :
             IsRide(t[p], l, i, j) /\ i < j /\ Touches(t[p])
  <2>1. ASSUME NEW p \in 1..n, Touches(t[p])
        PROVE  /\ StationOfNode(t[p].from) = z /\ StationOfNode(t[p].to) = z
               /\ t[p].name = CHANGE_NAME
    <3>1. t[p] \in Builder!GraphArcs
      BY <1>2
    <3> QED
      BY <1>4, <2>1, <3>1, ArcKinds
  <2> DEFINE away == {m \in Nat : m \in q..n /\ StationOfNode(t[m].to) # z}
  <2>2. away = {}
    <3> SUFFICES ASSUME away # {} PROVE FALSE
      OBVIOUS
    <3>1. away \in SUBSET Nat
      OBVIOUS
    <3>2. PICK m \in away : \A e \in away : m <= e
      BY <3>1, LeastNumber
    <3>3. m \in Nat /\ m \in q..n /\ StationOfNode(t[m].to) # z /\ q \in 1..n
      BY <1>2, <3>2
    <3>4. m # q
      BY <3>3
    <3> DEFINE b == m - 1
    <3>5. b \in Nat /\ b \in q..n /\ b < m /\ b + 1 = m /\ b \in 1..(n - 1) /\ m \in 1..n
      BY <1>2, <3>3, <3>4
    <3> HIDE DEF b
    <3>6. StationOfNode(t[b].to) = z
      <4> SUFFICES ASSUME StationOfNode(t[b].to) # z PROVE FALSE
        OBVIOUS
      <4>1. b \in away
        BY <3>5
      <4> QED
        BY <3>2, <3>3, <3>5, <4>1
    <3>7. t[b].to = t[m].from
      BY <1>1, <3>5 DEF IsWalk
    <3> QED
      BY <2>1, <3>3, <3>5, <3>6, <3>7
  <2>3. n \in 1..n /\ StationOfNode(t[n].to) = z
    <3>1. n \in q..n /\ n \in 1..n
      BY <1>2
    <3> QED
      BY <1>2, <2>2, <3>1
  <2>4. t[n].name = CHANGE_NAME
    BY <2>1, <2>3
  <2>5. n \in Output!LastArcs(t)
    BY <1>2, <1>0, <2>3 DEF Output!LastArcs, Output!EndsRun
  <2>6. PICK k \in DOMAIN Output!Table(t) : Output!Table(t)[k] = Output!Row(t, n)
    BY <1>0, <1>2, <2>5, RowFacts
  <2>7. Output!Table(t)[k][2] = CHANGE_NAME /\ Output!Table(t)[k][3] = z
    BY <1>0, <1>2, <2>3, <2>4, <2>6, RowFacts
  <2>8. z \in Passed(Output!Table(t)[k])
    BY <2>7 DEF Passed
  <2> QED
    BY <2>8
<1> QED
  BY <1>3, <1>4

(* Who follows the table of a tour passes every station. *)
LEMMA TableVisitsAll ==
  ASSUME LinesAreSimple, LinesFit, preprocess = TRUE, type = "STATION", compact = TRUE,
         NEW t, IsClosedWalk(t, Builder!GraphArcs), Visits(t, DOMAIN Builder!GraphStations)
  PROVE  UNION {Passed(Output!Table(t)[k]) : k \in DOMAIN Output!Table(t)} = StationNames
<1>1. ASSUME NEW k \in DOMAIN Output!Table(t) PROVE Passed(Output!Table(t)[k]) \subseteq StationNames
  BY RowsTellStations
<1>2. ASSUME NEW z \in StationNames
      PROVE  \E k \in DOMAIN Output!Table(t) : z \in Passed(Output!Table(t)[k])
  <2>1. PICK l \in DOMAIN lines : \E i \in Stops(l) : StationAt(l, i) = z
    BY DEF StationNames, ToSet, StationAt, Stops
  <2>2. PICK i \in Stops(l) : StationAt(l, i) = z
    BY <2>1
  <2>3. CASE i \in Builder!Kept(l)
    <3>1. z \in DOMAIN Builder!GraphStations
      BY <2>2, <2>3, KeptStationsStand
    <3>2. PICK q \in DOMAIN t : StationOfNode(t[q].to) = z
      BY <3>1 DEF Visits
    <3> QED
      BY <3>2, KeptIsTold
  <2>4. CASE i \notin Builder!Kept(l)
    <3>1. PICK q \in DOMAIN t : \E j, k \in Stops(l) : IsRide(t[q], l, j, k) /\ j < i /\ i < k
      BY <2>4, LeftOutIsPassed
    <3>2. PICK j \in Stops(l), k \in Stops(l) : IsRide(t[q], l, j, k) /\ j < i /\ i < k
      BY <3>1
    <3>3. PICK r \in DOMAIN Output!Table(t) : \A m \in Stops(l) :
           j <= m /\ m <= k => StationAt(l, m) \in Passed(Output!Table(t)[r])
      BY <3>2, RowPasses
    <3>4. j <= i /\ i <= k
      BY <3>2 DEF LinesFit
    <3> QED
      BY <2>2, <3>3, <3>4
  <2> QED
    BY <2>3, <2>4
<1> QED
  BY <1>1, <1>2

-----------------------------------------------------------------------------
(* Lines that have been read.                                               *)

(* They have names of their own and go from stop to stop. *)
LEMMA LinesReadFit ==
  ASSUME files \in Seq(Files), Reader!Acceptable, NEW net, net = Reader!Network
  PROVE  /\ CHANGE_NAME \notin DOMAIN net.lines
         /\ \A l \in DOMAIN net.lines : \A st \in {net.lines[l].stations} :
              Len(st) \in Nat /\ DOMAIN st = 1..Len(st)
<1> DEFINE defined == Reader!Defined
           names == Reader!LineNames
           Found(l) == CHOOSE d \in Reader!ToSet(defined) : d.name = l
<1>1. defined \in Seq(LineItems)
  BY ItemsOfLines
<1>2. net.lines = [l \in names |-> Reader!Read(Found(l))]
  BY DEF Reader!Network
<1>3. names = {defined[i].name : i \in DOMAIN defined}
  BY DEF Reader!LineNames
<1>4. Reader!ToSet(defined) = {defined[i] : i \in DOMAIN defined}
  BY DEF Reader!ToSet
<1>5. CHANGE_NAME \notin names
  BY DEF Reader!Acceptable, Reader!NamesAreFree
<1> HIDE DEF defined, names
<1>6. DOMAIN defined = 1..Len(defined) /\ Len(defined) \in Nat
      /\ \A i \in 1..Len(defined) : defined[i] \in LineItems
  BY <1>1
<1>7. ASSUME NEW l \in names, NEW st, st = net.lines[l].stations
      PROVE  Len(st) \in Nat /\ DOMAIN st = 1..Len(st)
  <2>1. \E d \in Reader!ToSet(defined) : d.name = l
    BY <1>3, <1>4
  <2>2. Found(l) \in LineItems
    BY <1>4, <1>6, <2>1
  <2> DEFINE d == Found(l)
             stops == d.stops
  <2>3. st = [k \in DOMAIN stops |-> stops[k].station]
    BY <1>2, <1>7 DEF Reader!Read
  <2> HIDE DEF d
  <2>4. PICK f \in Files : \E c \in ToSet(f.sections) : c.tag = "lines" /\ d \in ToSet(c.items)
    BY <2>2 DEF LineItems, SectionSet, d
  <2>5. stops \in Seq(ToSet(stops))
    BY <2>4, FilesAssumption
  <2> HIDE DEF stops
  <2>6. Len(stops) \in Nat /\ DOMAIN stops = 1..Len(stops)
    BY <2>5
  <2>7. st = [k \in 1..Len(stops) |-> stops[k].station]
    BY <2>3, <2>6
  <2> QED
    BY <2>6, <2>7
<1>8. DOMAIN net.lines = names
  BY <1>2
<1> QED
  BY <1>5, <1>7, <1>8

-----------------------------------------------------------------------------
(* What is known of the tour on its way from the graph to the table.        *)

IsWholeTour(t) == IsClosedWalk(t, Builder!GraphArcs) /\ Visits(t, DOMAIN Builder!GraphStations)

TourIsWhole ==
  /\ compact = TRUE /\ preprocess = TRUE /\ type = "STATION"
  /\ LinesFit
  /\ graph # <<>> => graph = <<Builder!GraphNodes, Builder!GraphArcs, Builder!GraphStations>>
  /\ \A u \in tours : IsWholeTour(u.tour)
  /\ tour # <<>> => IsWholeTour(tour)
  /\ PrintedTourVisitsAll

(* The graph of the builder stands while the lines and the options do.      *)
LEMMA BuilderStands ==
  ASSUME UNCHANGED <<lines, type, preprocess>>
  PROVE  /\ UNCHANGED Builder!GraphNodes
         /\ UNCHANGED Builder!GraphArcs
         /\ UNCHANGED Builder!GraphStations
         /\ UNCHANGED StationNames
         /\ \A row : Passed(row)' = Passed(row)
         /\ \A n : StationOfNode(n)' = StationOfNode(n)
         /\ LinesFit <=> LinesFit'
<1>1. \A n : StationOfNode(n)' = StationOfNode(n)
  BY DEF StationOfNode, StationAt
<1>2. UNCHANGED StationNames
  BY DEF StationNames
<1>3. \A row : Passed(row)' = Passed(row)
  BY DEF Passed, StationAt, Stops
<1>4. LinesFit <=> LinesFit'
  BY DEF LinesFit, LastStop, Stops, RideTime
<1>5. /\ \A l : Builder!Stops(l)' = Builder!Stops(l) /\ Builder!LastStop(l)' = Builder!LastStop(l)
      /\ \A l, i : Builder!StationAt(l, i)' = Builder!StationAt(l, i)
      /\ \A l, i, j : Builder!RideTime(l, i, j)' = Builder!RideTime(l, i, j)
      /\ \A s : Builder!LinesAt(s)' = Builder!LinesAt(s)
  BY DEF Builder!Stops, Builder!LastStop, Builder!StationAt, Builder!RideTime, Builder!LinesAt
<1>6. \A l, i : Builder!ConnectingStop(l, i)' <=> Builder!ConnectingStop(l, i)
  BY <1>5 DEF Builder!ConnectingStop, Builder!IsConnecting
<1>7. \A l, i : /\ Builder!HasPrecedingConnecting(l, i)' <=> Builder!HasPrecedingConnecting(l, i)
                /\ Builder!HasFollowingConnecting(l, i)' <=> Builder!HasFollowingConnecting(l, i)
  BY <1>5, <1>6 DEF Builder!HasPrecedingConnecting, Builder!HasFollowingConnecting
<1>8. \A l, i : Builder!InnerStop(l, i)' <=> Builder!InnerStop(l, i)
  BY <1>5, <1>6, <1>7 DEF Builder!InnerStop, Builder!IsTerminal
<1>9. \A l, i, j : Builder!TurnsBeforeChange(l, i, j)' <=> Builder!TurnsBeforeChange(l, i, j)
  BY <1>5, <1>6, <1>8 DEF Builder!TurnsBeforeChange
<1>10. \A l, i : /\ Builder!CanTurnBack(l, i)' = Builder!CanTurnBack(l, i)
                 /\ Builder!CanTurnAround(l, i)' = Builder!CanTurnAround(l, i)
  BY <1>5, <1>6, <1>9 DEF Builder!CanTurnBack, Builder!CanTurnAround
<1>11. \A l : Builder!Kept(l)' = Builder!Kept(l)
  BY <1>5, <1>6, <1>10 DEF Builder!Kept, Builder!Stays, Builder!IsTerminal
<1>12. \A l : Builder!LineNodes(l)' = Builder!LineNodes(l)
  BY <1>5 DEF Builder!LineNodes
<1>13. UNCHANGED Builder!GraphNodes
  BY <1>11, <1>12 DEF Builder!GraphNodes
<1>14. \A n : Builder!StationOfNode(n)' = Builder!StationOfNode(n)
  BY <1>5 DEF Builder!StationOfNode
<1>15. UNCHANGED Builder!GraphStations
  BY <1>12, <1>13, <1>14 DEF Builder!GraphStations, Builder!NodesAt
<1>16. UNCHANGED Builder!Changes
  BY <1>5, <1>13, <1>14 DEF Builder!Changes, Builder!Arrives, Builder!Departs
<1>17. \A l : Builder!Turns(l)' = Builder!Turns(l)
  BY <1>5, <1>10 DEF Builder!Turns
<1>18. \A l, i, j : Builder!NextKept(l, i, j)' <=> Builder!NextKept(l, i, j)
  BY <1>11 DEF Builder!NextKept
<1>19. \A l : Builder!Rides(l)' = Builder!Rides(l)
  BY <1>5, <1>11, <1>18 DEF Builder!Rides
<1>20. UNCHANGED Builder!GraphArcs
  BY <1>16, <1>17, <1>19 DEF Builder!GraphArcs
<1> QED
  BY <1>1, <1>2, <1>3, <1>4, <1>13, <1>15, <1>20

(* So does what a whole tour is.                                            *)
LEMMA WholeToursStand ==
  ASSUME UNCHANGED <<lines, type, preprocess>>
  PROVE  \A t : IsWholeTour(t)' <=> IsWholeTour(t)
<1>1. \A t, all : Visits(t, all)' <=> Visits(t, all)
  BY BuilderStands DEF Visits
<1>2. \A t, arcs : IsClosedWalk(t, arcs)' <=> IsClosedWalk(t, arcs)
  BY DEF IsClosedWalk, IsWalk
<1> QED
  BY <1>1, <1>2, BuilderStands DEF IsWholeTour

(* A step that changes nothing of this, but tours for whole tours. *)
LEMMA ElseWhole ==
  ASSUME TourIsWhole, UNCHANGED <<lines, type, preprocess, compact>>,
         graph' # <<>> =>
           graph' = <<Builder!GraphNodes, Builder!GraphArcs, Builder!GraphStations>>,
         \A u \in tours' : IsWholeTour(u.tour), tour' # <<>> => IsWholeTour(tour'),
         pc' = "exit 0" => pc = "exit 0" /\ UNCHANGED table
  PROVE  TourIsWhole'
<1>1. (compact = TRUE /\ preprocess = TRUE /\ type = "STATION" /\ LinesFit)'
  BY BuilderStands DEF TourIsWhole
<1>2. (graph # <<>> => graph = <<Builder!GraphNodes, Builder!GraphArcs, Builder!GraphStations>>)'
  BY BuilderStands
<1>3. (\A u \in tours : IsWholeTour(u.tour))' /\ (tour # <<>> => IsWholeTour(tour))'
  BY WholeToursStand
<1>4. PrintedTourVisitsAll'
  <2>1. \A row : Passed(row)' = Passed(row)
    BY BuilderStands
  <2>2. UNCHANGED StationNames
    BY BuilderStands
  <2> QED
    BY <2>1, <2>2 DEF TourIsWhole, PrintedTourVisitsAll
<1> QED
  BY <1>1, <1>2, <1>3, <1>4 DEF TourIsWhole

(* At the start there is no tour.                                           *)
LEMMA InitWhole == Init => TourIsWhole
<1> SUFFICES ASSUME Init PROVE TourIsWhole
  OBVIOUS
<1>1. /\ lines = <<>> /\ type = "STATION" /\ preprocess = TRUE /\ compact = TRUE /\ graph = <<>>
      /\ tours = {} /\ tour = <<>> /\ pc = "start"
  BY DEF Init, Builder!GraphInit, Builder!NoGraph
<1>2. DOMAIN lines = {}
  BY <1>1
<1> QED
  BY <1>1, <1>2 DEF TourIsWhole, LinesFit, PrintedTourVisitsAll

(* No step makes the tour or the table lose a station.                      *)
LEMMA StepWhole ==
  ASSUME MInv, PassedOn, TourIsWhole, [Next]_vars
  PROVE  TourIsWhole'
<1>0. /\ \A u \in tours : IsWholeTour(u.tour)
      /\ tour # <<>> => IsWholeTour(tour)
      /\ graph # <<>> => graph = <<Builder!GraphNodes, Builder!GraphArcs, Builder!GraphStations>>
      /\ LinesFit /\ LinesAreSimple /\ preprocess = TRUE /\ type = "STATION" /\ compact = TRUE
  BY DEF TourIsWhole, MInv
<1>1. CASE ReadFile
  <2>1. /\ lines' = Reader!Network.lines /\ Reader!Acceptable
        /\ UNCHANGED <<type, preprocess, compact, graph, tours, tour>>
        /\ pc = "reading" /\ pc' = "building"
    BY <1>1 DEF ReadFile, LinesRead, Reader!Deliver, solver, output
  <2>2. files \in Seq(Files)
    BY DEF MInv
  <2>3. graph = <<>> /\ tours = {} /\ tour = <<>>
    BY <2>1 DEF PassedOn
  <2>4. LinesFit'
    <3>1. /\ CHANGE_NAME \notin DOMAIN lines'
          /\ \A l \in DOMAIN lines' : \A st \in {lines'[l].stations} :
               Len(st) \in Nat /\ DOMAIN st = 1..Len(st)
      BY <2>1, <2>2, LinesReadFit
    <3> QED
      BY <3>1 DEF LinesFit, Stops, LastStop
  <2> QED
    BY <1>0, <2>1, <2>3, <2>4 DEF TourIsWhole, PrintedTourVisitsAll
<1>2. CASE BuildGraph
  <2>1. /\ graph' = <<Builder!GraphNodes, Builder!GraphArcs, Builder!GraphStations>>
        /\ UNCHANGED <<lines, type, preprocess, compact, tours, tour>> /\ pc' = "preparing"
    BY <1>2 DEF BuildGraph, Builder!Deliver, solver, output
  <2> QED
    BY <1>0, <2>1, ElseWhole
<1>3. CASE CreateSolver
  <2>1. /\ UNCHANGED <<lines, type, preprocess, compact, graph, tour>>
        /\ pc = "preparing" /\ pc' = "solving"
        /\ \A u \in tours' : \E t \in ShortestTours(Arcs, DOMAIN Stations, UniqueStation) :
             u = Solution(t)
    BY <1>3 DEF CreateSolver, builder, output
  <2>2. graph # <<>>
    BY <2>1 DEF PassedOn
  <2>3. Arcs = Builder!GraphArcs /\ Stations = Builder!GraphStations
    BY <1>0, <2>2 DEF Arcs, Stations
  <2>4. ASSUME NEW u \in tours' PROVE IsWholeTour(u.tour)
    <3>1. PICK t \in ShortestTours(Arcs, DOMAIN Stations, UniqueStation) : u = Solution(t)
      BY <2>1
    <3>2. IsClosedWalk(t, Arcs) /\ Visits(t, DOMAIN Stations)
      BY ToursVisit
    <3>3. u.tour = t
      BY <3>1 DEF Solution
    <3> QED
      BY <2>3, <3>2, <3>3 DEF IsWholeTour
  <2> QED
    BY <1>0, <2>1, <2>4, ElseWhole
<1>4. CASE Solve
  <2>1. /\ UNCHANGED <<lines, type, preprocess, compact, graph, tours>>
        /\ pc' = "printing" /\ tour' = answer'.tour /\ answer' \in tours
    BY <1>4 DEF Solve, Solver!AnswerTour, Solver!Optimal, builder
  <2>2. IsWholeTour(tour')
    BY <1>0, <2>1
  <2> QED
    BY <1>0, <2>1, <2>2, ElseWhole
<1>5. CASE PrintTour
  <2>1. /\ UNCHANGED <<lines, type, preprocess, compact, graph, tours, tour>> /\ pc = "printing"
    BY <1>5 DEF PrintTour, Output!Tell, solver
  <2>2. PICK t \in Output!Told : table' = Output!Table(t)
    BY <1>5 DEF PrintTour, Output!Tell
  <2>3. tour # <<>>
    BY <2>1 DEF PassedOn
  <2>4. IsWholeTour(tour)
    BY <1>0, <2>3
  <2>5. IsWholeTour(t)
    <3>1. CASE t = tour
      BY <2>4, <3>1
    <3>2. CASE t # tour
      <4>1. PICK p \in DOMAIN tour : t = SubSeq(tour, p, Len(tour)) \o SubSeq(tour, 1, p - 1)
        BY <3>2 DEF Output!Told, Output!Rotation
      <4> QED
        BY <2>4, <4>1, TurnedWalk DEF IsWholeTour
    <3> QED
      BY <3>1, <3>2
  <2>6. UNION {Passed(table'[k]) : k \in DOMAIN table'} = StationNames
    BY <1>0, <2>2, <2>5, TableVisitsAll DEF IsWholeTour
  <2>7. PrintedTourVisitsAll'
    <3>1. \A row : Passed(row)' = Passed(row)
      BY <2>1, BuilderStands
    <3>2. UNCHANGED StationNames
      BY <2>1, BuilderStands
    <3> QED
      BY <2>6, <3>1, <3>2 DEF PrintedTourVisitsAll
  <2>8. (/\ compact = TRUE /\ preprocess = TRUE /\ type = "STATION" /\ LinesFit
         /\ graph # <<>> => graph = <<Builder!GraphNodes, Builder!GraphArcs, Builder!GraphStations>>)'
    BY <1>0, <2>1, BuilderStands
  <2>9. (\A u \in tours : IsWholeTour(u.tour))' /\ (tour # <<>> => IsWholeTour(tour))'
    BY <1>0, <2>1, WholeToursStand
  <2> QED
    BY <2>7, <2>8, <2>9 DEF TourIsWhole
<1>6. CASE OpenFile \/ ReadingFails \/ BuildingFails \/ CreatingSolverFails \/ CallSolve
             \/ SolvingFails \/ StartIsMissing \/ PrintAgain \/ UNCHANGED vars
  <2>1. /\ UNCHANGED <<lines, type, preprocess, compact, graph, tours, tour>>
        /\ pc' = "exit 0" => pc = "exit 0" /\ UNCHANGED table
    BY <1>6 DEF OpenFile, ReadingFails, BuildingFails, CreatingSolverFails, CallSolve,
                SolvingFails, StartIsMissing, PrintAgain, Builder!Refuse, Output!Refuse,
                Solver!Ask, Solver!ReportInfeasible, Solver!ReportError,
                vars, reader, builder, solver, output
  <2> QED
    BY <1>0, <2>1, ElseWhole
<1> QED
  BY <1>1, <1>2, <1>3, <1>4, <1>5, <1>6 DEF Next

(* Who follows the printed table comes through every station of the file,   *)
(* the ones included that were left out of the graph before the solver saw  *)
(* it.                                                                      *)
THEOREM PrintedToursAreWhole == Spec => []PrintedTourVisitsAll
<1> DEFINE IInv == MInv /\ PassedOn /\ TourIsWhole
<1>1. Init => IInv
  BY InitMInv, InitPassedOn, InitWhole
<1>2. IInv /\ [Next]_vars => IInv'
  BY NextMInv, StepPassesOn, StepWhole
<1>3. IInv => PrintedTourVisitsAll
  BY DEF TourIsWhole
<1> QED
  BY <1>1, <1>2, <1>3, PTL DEF Spec
=============================================================================
