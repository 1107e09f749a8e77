-------------------------- MODULE NetworkTheorems --------------------------
(***************************************************************************)
(* Facts about selections of arcs that the proofs of the components share. *)
(* The main one is flow conservation: a balanced selection leaves a set of *)
(* nodes on as many arcs as it enters it, hence a closed walk that has     *)
(* nodes on both sides crosses in both directions.                         *)
(***************************************************************************)
EXTENDS Network, FiniteSetTheorems, TLAPS

(* Every selection, and every set of nodes, is finite. *)
LEMMA SelectionsAreFinite ==
  /\ \A x \in SUBSET Arc : IsFiniteSet(x)
  /\ \A W \in SUBSET Node : IsFiniteSet(W)
BY NetworkAssumption, FS_Subset

(* The size of a union of two disjoint sets. *)
LEMMA DisjointUnion ==
  ASSUME NEW S, NEW T, IsFiniteSet(S), IsFiniteSet(T), S \cap T = {}
  PROVE  Cardinality(S \cup T) = Cardinality(S) + Cardinality(T)
<1>1. Cardinality(S \cap T) = 0
  BY FS_EmptySet
<1>2. Cardinality(S) \in Nat /\ Cardinality(T) \in Nat
  BY FS_CardinalityType
<1>3. Cardinality(S \cup T)
        = Cardinality(S) + Cardinality(T) - Cardinality(S \cap T)
  BY FS_Union
<1> QED
  BY <1>1, <1>2, <1>3

(* A nonempty collection of subsets of a finite set has a smallest one. *)
LEMMA MinimalSubset ==
  ASSUME NEW S, IsFiniteSet(S), NEW T \in SUBSET SUBSET S, T # {}
  PROVE  \E U \in T : \A V \in T : V \subseteq U => V = U
<1>1. IsWellFoundedOn(StrictSubsetOrdering(S), FiniteSubsetsOf(S))
  BY FS_StrictSubsetOrderingWellFounded
<1>2. T \subseteq FiniteSubsetsOf(S)
  BY FS_FiniteSubsetsOfFinite
<1>3. PICK U \in T : \A V \in T : <<V, U>> \notin StrictSubsetOrdering(S)
  BY <1>1, <1>2, WFMin
<1>4. ASSUME NEW V \in T, V \subseteq U, V # U PROVE FALSE
  <2>1. <<V, U>> \in (SUBSET S) \X (SUBSET S)
    OBVIOUS
  <2>2. <<V, U>> \in StrictSubsetOrdering(S)
    BY <1>4, <2>1 DEF StrictSubsetOrdering
  <2> QED
    BY <1>3, <2>2
<1> QED
  BY <1>4

(* What moving the node n into V changes in the number of crossing arcs. *)
LEMMA AddNode ==
  ASSUME NEW x \in SUBSET Arc, NEW V \in SUBSET Node, NEW n \in Node \ V,
         Cardinality(InArcs(x, n)) = Cardinality(OutArcs(x, n)),
         Cardinality(Leaving(x, V)) = Cardinality(Entering(x, V))
  PROVE  Cardinality(Leaving(x, V \cup {n})) = Cardinality(Entering(x, V \cup {n}))
<1> DEFINE W == V \cup {n}
           toN == {a \in x : Source[a] \in V /\ Target[a] = n}
           fromN == {a \in x : Source[a] = n /\ Target[a] \in V}
           outN == {a \in x : Source[a] = n /\ Target[a] \notin W}
           inN == {a \in x : Source[a] \notin W /\ Target[a] = n}
           loops == {a \in x : Source[a] = n /\ Target[a] = n}
<1>1. /\ IsFiniteSet(toN) /\ IsFiniteSet(fromN) /\ IsFiniteSet(outN)
      /\ IsFiniteSet(inN) /\ IsFiniteSet(loops)
      /\ IsFiniteSet(Leaving(x, W)) /\ IsFiniteSet(Leaving(x, V))
      /\ IsFiniteSet(Entering(x, W)) /\ IsFiniteSet(Entering(x, V))
  <2>1. /\ toN \in SUBSET Arc /\ fromN \in SUBSET Arc /\ outN \in SUBSET Arc
        /\ inN \in SUBSET Arc /\ loops \in SUBSET Arc
        /\ Leaving(x, W) \in SUBSET Arc /\ Leaving(x, V) \in SUBSET Arc
        /\ Entering(x, W) \in SUBSET Arc /\ Entering(x, V) \in SUBSET Arc
    BY DEF Leaving, Entering
  <2> QED
    BY <2>1, SelectionsAreFinite
<1>2. /\ Cardinality(toN) \in Nat /\ Cardinality(fromN) \in Nat
      /\ Cardinality(outN) \in Nat /\ Cardinality(inN) \in Nat
      /\ Cardinality(loops) \in Nat
      /\ Cardinality(Leaving(x, W)) \in Nat /\ Cardinality(Leaving(x, V)) \in Nat
      /\ Cardinality(Entering(x, W)) \in Nat /\ Cardinality(Entering(x, V)) \in Nat
  BY <1>1, FS_CardinalityType
<1>3. Cardinality(Leaving(x, W)) + Cardinality(toN)
        = Cardinality(Leaving(x, V)) + Cardinality(outN)
  <2>1. Leaving(x, W) \cup toN = Leaving(x, V) \cup outN
    BY DEF Leaving
  <2>2. Leaving(x, W) \cap toN = {} /\ Leaving(x, V) \cap outN = {}
    BY DEF Leaving
  <2> HIDE DEF W, toN, outN
  <2>3. Cardinality(Leaving(x, W) \cup toN) = Cardinality(Leaving(x, W)) + Cardinality(toN)
    BY <1>1, <2>2, DisjointUnion
  <2>4. Cardinality(Leaving(x, V) \cup outN) = Cardinality(Leaving(x, V)) + Cardinality(outN)
    BY <1>1, <2>2, DisjointUnion
  <2> QED
    BY <2>1, <2>3, <2>4
<1>4. Cardinality(Entering(x, W)) + Cardinality(fromN)
        = Cardinality(Entering(x, V)) + Cardinality(inN)
  <2>1. Entering(x, W) \cup fromN = Entering(x, V) \cup inN
    BY DEF Entering
  <2>2. Entering(x, W) \cap fromN = {} /\ Entering(x, V) \cap inN = {}
    BY DEF Entering
  <2> HIDE DEF W, fromN, inN
  <2>3. Cardinality(Entering(x, W) \cup fromN) = Cardinality(Entering(x, W)) + Cardinality(fromN)
    BY <1>1, <2>2, DisjointUnion
  <2>4. Cardinality(Entering(x, V) \cup inN) = Cardinality(Entering(x, V)) + Cardinality(inN)
    BY <1>1, <2>2, DisjointUnion
  <2> QED
    BY <2>1, <2>3, <2>4
<1>5. Cardinality(OutArcs(x, n))
        = Cardinality(fromN) + Cardinality(outN) + Cardinality(loops)
  <2>1. OutArcs(x, n) = (fromN \cup outN) \cup loops
    BY DEF OutArcs, ArcsFrom
  <2>2. fromN \cap outN = {} /\ (fromN \cup outN) \cap loops = {}
    OBVIOUS
  <2> HIDE DEF fromN, outN, loops
  <2>3. /\ IsFiniteSet(fromN \cup outN)
        /\ Cardinality(fromN \cup outN) = Cardinality(fromN) + Cardinality(outN)
    BY <1>1, <2>2, DisjointUnion, FS_Union
  <2> QED
    BY <1>1, <2>1, <2>2, <2>3, DisjointUnion
<1>6. Cardinality(InArcs(x, n))
        = Cardinality(toN) + Cardinality(inN) + Cardinality(loops)
  <2>1. InArcs(x, n) = (toN \cup inN) \cup loops
    BY DEF InArcs, ArcsTo
  <2>2. toN \cap inN = {} /\ (toN \cup inN) \cap loops = {}
    OBVIOUS
  <2> HIDE DEF toN, inN, loops
  <2>3. /\ IsFiniteSet(toN \cup inN)
        /\ Cardinality(toN \cup inN) = Cardinality(toN) + Cardinality(inN)
    BY <1>1, <2>2, DisjointUnion, FS_Union
  <2> QED
    BY <1>1, <2>1, <2>2, <2>3, DisjointUnion
<1> HIDE DEF W, toN, fromN, outN, inN, loops
<1>7. Cardinality(Leaving(x, W)) = Cardinality(Entering(x, W))
  BY <1>2, <1>3, <1>4, <1>5, <1>6
<1> QED
  BY <1>7 DEF W

(* Across the border of any set of nodes, as many arcs of a balanced       *)
(* selection leave as enter.                                               *)
THEOREM FlowBalance ==
  ASSUME NEW x \in SUBSET Arc, Balanced(x), NEW W \in SUBSET Node
  PROVE  Cardinality(Leaving(x, W)) = Cardinality(Entering(x, W))
<1> DEFINE Bad == {V \in SUBSET Node :
                     Cardinality(Leaving(x, V)) # Cardinality(Entering(x, V))}
<1>1. ASSUME Bad # {} PROVE FALSE
  <2>1. PICK U \in Bad : \A V \in Bad : V \subseteq U => V = U
    <3>1. IsFiniteSet(Node)
      BY NetworkAssumption
    <3>2. Bad \in SUBSET SUBSET Node
      OBVIOUS
    <3> HIDE DEF Bad
    <3> QED
      BY <1>1, <3>1, <3>2, MinimalSubset
  <2>2. U # {}
    BY DEF Leaving, Entering
  <2>3. PICK n \in U : TRUE
    BY <2>2
  <2>4. /\ U \ {n} \in SUBSET Node /\ n \in Node \ (U \ {n})
        /\ (U \ {n}) \cup {n} = U
    BY <2>3
  <2>5. Cardinality(Leaving(x, U \ {n})) = Cardinality(Entering(x, U \ {n}))
    BY <2>1, <2>3, <2>4
  <2>6. Cardinality(InArcs(x, n)) = Cardinality(OutArcs(x, n))
    BY <2>4 DEF Balanced
  <2>7. Cardinality(Leaving(x, U)) = Cardinality(Entering(x, U))
    <3> HIDE DEF Bad
    <3> DEFINE V == U \ {n}
    <3>1. V \in SUBSET Node /\ n \in Node \ V /\ V \cup {n} = U
      BY <2>4
    <3> HIDE DEF V
    <3>2. Cardinality(Leaving(x, V)) = Cardinality(Entering(x, V))
      BY <2>5 DEF V
    <3> QED
      BY <2>6, <3>1, <3>2, AddNode
  <2> QED
    BY <2>7
<1> QED
  BY <1>1

(* A balanced selection that leaves a set of nodes enters it as well. *)
LEMMA LeavesIffEnters ==
  ASSUME NEW x \in SUBSET Arc, Balanced(x), NEW W \in SUBSET Node
  PROVE  Leaving(x, W) = {} <=> Entering(x, W) = {}
<1>1. Cardinality(Leaving(x, W)) = Cardinality(Entering(x, W))
  BY FlowBalance
<1>2. Leaving(x, W) \in SUBSET Arc /\ Entering(x, W) \in SUBSET Arc
  BY DEF Leaving, Entering
<1>3. IsFiniteSet(Leaving(x, W)) /\ IsFiniteSet(Entering(x, W))
  BY <1>2, SelectionsAreFinite
<1> QED
  BY <1>1, <1>3, FS_EmptySet

(* A closed walk with nodes on both sides of a border crosses it both ways. *)
THEOREM WalksCross ==
  ASSUME NEW x \in ClosedWalks, NEW W \in SUBSET Node,
         NodesOf(x) \cap W # {}, NodesOf(x) \ W # {}
  PROVE  Leaving(x, W) # {} /\ Entering(x, W) # {}
<1>1. x \in SUBSET Arc /\ Balanced(x) /\ Connected(x)
  BY DEF ClosedWalks, Circulation
<1>2. ASSUME Leaving(x, W) = {}, Entering(x, W) = {} PROVE FALSE
  <2> DEFINE V == NodesOf(x) \cap W
  <2>1. IsClosed(x, V)
    <3> SUFFICES ASSUME NEW a \in x PROVE Source[a] \in V <=> Target[a] \in V
      BY DEF IsClosed
    <3>1. Source[a] \in NodesOf(x) /\ Target[a] \in NodesOf(x)
      BY DEF NodesOf
    <3>2. Source[a] \in W <=> Target[a] \in W
      BY <1>2 DEF Leaving, Entering
    <3> QED
      BY <3>1, <3>2
  <2>2. V \in SUBSET NodesOf(x) /\ V # {} /\ V # NodesOf(x)
    OBVIOUS
  <2> QED
    BY <1>1, <2>1, <2>2 DEF Connected
<1> QED
  BY <1>1, <1>2, LeavesIffEnters

-----------------------------------------------------------------------------
(* Components. *)

(* The parts of a closed set that another closed set cuts it into. *)
LEMMA ClosedParts ==
  ASSUME NEW x, NEW V, NEW W, IsClosed(x, V), IsClosed(x, W)
  PROVE  IsClosed(x, V \cap W) /\ IsClosed(x, V \ W)
BY DEF IsClosed

(* No arc of a selection leaves the set of all its nodes. *)
LEMMA AllNodesClosed ==
  ASSUME NEW x
  PROVE  IsClosed(x, NodesOf(x))
BY DEF IsClosed, NodesOf

(* The nodes of a selection are nodes of the network. *)
LEMMA NodesOfSelection ==
  ASSUME NEW x \in SUBSET Arc
  PROVE  NodesOf(x) \in SUBSET Node
BY NetworkAssumption DEF NodesOf

(* Every node of a selection is in one of its components. *)
THEOREM ComponentsCover ==
  ASSUME NEW x \in SUBSET Arc, NEW n \in NodesOf(x)
  PROVE  \E C \in Components(x) : n \in C
<1> DEFINE T == {W \in SUBSET NodesOf(x) : n \in W /\ IsClosed(x, W)}
<1>1. PICK U \in T : \A V \in T : V \subseteq U => V = U
  <2>1. IsFiniteSet(NodesOf(x))
    BY NodesOfSelection, SelectionsAreFinite
  <2>2. T \in SUBSET SUBSET NodesOf(x) /\ NodesOf(x) \in T
    BY AllNodesClosed
  <2> HIDE DEF T
  <2> QED
    BY <2>1, <2>2, MinimalSubset
<1>2. ASSUME NEW W \in SUBSET U, W # {}, IsClosed(x, W) PROVE W = U
  <2>1. CASE n \in W
    BY <1>1, <1>2, <2>1
  <2>2. CASE n \notin W
    <3>1. IsClosed(x, U \ W)
      BY <1>1, <1>2, ClosedParts
    <3>2. U \ W \in T
      BY <1>1, <2>2, <3>1
    <3>3. U \ W = U
      BY <1>1, <3>2
    <3> QED
      BY <1>2, <3>3
  <2> QED
    BY <2>1, <2>2
<1>3. U \in Components(x)
  BY <1>1, <1>2 DEF Components
<1> QED
  BY <1>1, <1>3

(* A closed set that contains a node contains the node's whole component. *)
LEMMA ComponentInClosed ==
  ASSUME NEW x, NEW n, NEW W \in SUBSET NodesOf(x), IsClosed(x, W), n \in W
  PROVE  ComponentOf(x, n) \subseteq W
<1>1. ASSUME NEW C \in Components(x), n \in C PROVE C \subseteq W
  <2>1. IsClosed(x, C) /\ \A V \in SUBSET C : V # {} /\ IsClosed(x, V) => V = C
    BY DEF Components
  <2>2. IsClosed(x, C \cap W)
    BY <2>1, ClosedParts
  <2>3. C \cap W = C
    BY <1>1, <2>1, <2>2
  <2> QED
    BY <2>3
<1> QED
  BY <1>1 DEF ComponentOf

(* A selection all of whose arcs start in one component is connected. *)
THEOREM OneComponentConnected ==
  ASSUME NEW x \in SUBSET Arc, NEW n \in NodesOf(x),
         \A a \in x : Source[a] \in ComponentOf(x, n)
  PROVE  Connected(x)
<1>1. ASSUME NEW W \in SUBSET NodesOf(x), IsClosed(x, W), n \in W
      PROVE  W = NodesOf(x)
  <2>1. ComponentOf(x, n) \subseteq W
    BY <1>1, ComponentInClosed
  <2>2. \A a \in x : Source[a] \in W /\ Target[a] \in W
    BY <1>1, <2>1 DEF IsClosed
  <2> QED
    BY <2>2 DEF NodesOf
<1>2. ASSUME NEW W \in SUBSET NodesOf(x), IsClosed(x, W), n \notin W
      PROVE  W = {}
  <2>1. IsClosed(x, NodesOf(x) \ W)
    BY <1>2, AllNodesClosed, ClosedParts
  <2>2. NodesOf(x) \ W = NodesOf(x)
    BY <1>1, <1>2, <2>1
  <2> QED
    BY <2>2
<1> QED
  BY <1>1, <1>2 DEF Connected
=============================================================================
