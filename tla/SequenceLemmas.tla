--------------------------- MODULE SequenceLemmas ---------------------------
(***************************************************************************)
(* Lemmas about sequences that the proofs about the Euler search and about *)
(* the printed table need: taking elements off, replacing, inserting and   *)
(* removing them.                                                          *)
(***************************************************************************)
EXTENDS Integers, Sequences, SequencesExt, FiniteSets, SequenceTheorems,
        FiniteSetTheorems, WellFoundedInduction, TLAPS


(* A sequence with its last element taken off. *)
LEMMA FrontFacts ==
  ASSUME NEW S, NEW s \in Seq(S), s # <<>>
  PROVE  /\ Front(s) \in Seq(S)
         /\ Len(Front(s)) = Len(s) - 1
         /\ \A i \in 1..(Len(s) - 1) : Front(s)[i] = s[i]
<1>1. Len(s) \in Nat /\ Len(s) > 0 /\ \A i \in 1..Len(s) : s[i] \in S
  OBVIOUS
<1> DEFINE n == Len(s) - 1
<1>2. n \in Nat /\ Front(s) = SubSeq(s, 1, n) /\ \A i \in 1..n : s[i] \in S
  BY <1>1 DEF Front
<1> HIDE DEF n
<1>3. /\ SubSeq(s, 1, n) \in Seq(S)
      /\ Len(SubSeq(s, 1, n)) = IF 1 <= n THEN n - 1 + 1 ELSE 0
      /\ \A i \in 1..(n - 1 + 1) : SubSeq(s, 1, n)[i] = s[1 + i - 1]
  <2>1. 1 \in Int /\ n \in Int
    BY <1>2
  <2> QED
    BY <1>2, <2>1, SubSeqProperties
<1>4. n - 1 + 1 = n /\ \A i \in 1..n : 1 + i - 1 = i
  BY <1>2
<1>5. Len(SubSeq(s, 1, n)) = n
  BY <1>2, <1>3
<1> QED
  BY <1>2, <1>3, <1>4, <1>5 DEF n

(* The elements of a concatenation. *)
LEMMA ConcatFacts ==
  ASSUME NEW S, NEW f \in Seq(S), NEW g \in Seq(S), NEW t, t = f \o g
  PROVE  /\ t \in Seq(S) /\ Len(t) = Len(f) + Len(g)
         /\ \A i \in 1..Len(f) : t[i] = f[i]
         /\ \A i \in 1..Len(g) : t[i + Len(f)] = g[i]
<1>1. Len(f) \in Nat /\ Len(g) \in Nat
  OBVIOUS
<1>2. t \in Seq(S) /\ Len(t) = Len(f) + Len(g)
  BY ConcatProperties
<1>3. \A i \in 1..(Len(f) + Len(g)) :
        (f \o g)[i] = IF i <= Len(f) THEN f[i] ELSE g[i - Len(f)]
  BY ConcatProperties
<1>4. ASSUME NEW i \in 1..Len(f) PROVE t[i] = f[i]
  <2>1. i \in 1..(Len(f) + Len(g)) /\ i <= Len(f)
    BY <1>1
  <2> QED
    BY <1>3, <2>1
<1>5. ASSUME NEW i \in 1..Len(g) PROVE t[i + Len(f)] = g[i]
  <2> DEFINE m == i + Len(f)
  <2>1. m \in 1..(Len(f) + Len(g)) /\ ~(m <= Len(f)) /\ m - Len(f) = i
    BY <1>1
  <2> HIDE DEF m
  <2>2. t[m] = g[i]
    BY <1>3, <2>1
  <2> QED
    BY <2>2 DEF m
<1> QED
  BY <1>2, <1>4, <1>5

(* The sequence t is s with d and e in place of its last element. *)
TwoForLast(t, s, d, e) ==
  /\ Len(t) = Len(s) + 1
  /\ \A i \in 1..(Len(s) - 1) : t[i] = s[i]
  /\ t[Len(s)] = d /\ t[Len(s) + 1] = e

LEMMA FrontAndTwo ==
  ASSUME NEW S, NEW s \in Seq(S), s # <<>>, NEW d \in S, NEW e \in S,
         NEW t, t = Front(s) \o <<d, e>>
  PROVE  t \in Seq(S) /\ TwoForLast(t, s, d, e)
<1> DEFINE f == Front(s)
<1>1. f \in Seq(S) /\ Len(f) = Len(s) - 1 /\ \A i \in 1..(Len(s) - 1) : f[i] = s[i]
  BY FrontFacts
<1>2. Len(s) \in Nat /\ Len(s) > 0
  OBVIOUS
<1>3. t = f \o <<d, e>>
  OBVIOUS
<1> HIDE DEF f
<1> DEFINE g == <<d, e>>
<1>4. g \in Seq(S) /\ Len(g) = 2 /\ g[1] = d /\ g[2] = e
  OBVIOUS
<1>5. t = f \o g
  BY <1>3
<1> HIDE DEF g
<1>6. /\ t \in Seq(S) /\ Len(t) = Len(f) + Len(g)
      /\ \A i \in 1..Len(f) : t[i] = f[i]
      /\ \A i \in 1..Len(g) : t[i + Len(f)] = g[i]
  <2>1. f \in Seq(S) /\ g \in Seq(S)
    BY <1>1, <1>4
  <2> QED
    BY ONLY <1>5, <2>1, ConcatFacts
<1>7. t[1 + Len(f)] = d /\ t[2 + Len(f)] = e
  BY <1>4, <1>6
<1> QED
  BY <1>1, <1>2, <1>4, <1>6, <1>7 DEF TwoForLast

LEMMA AppendFacts ==
  ASSUME NEW S, NEW s \in Seq(S), NEW e \in S, NEW t, t = Append(s, e)
  PROVE  /\ t \in Seq(S)
         /\ Len(t) = Len(s) + 1
         /\ \A i \in 1..Len(s) : t[i] = s[i]
         /\ t[Len(s) + 1] = e
OBVIOUS

LEMMA AppendedSet ==
  ASSUME NEW S, NEW s \in Seq(S), NEW e \in S
  PROVE  ToSet(Append(s, e)) = ToSet(s) \cup {e}
<1>1. /\ DOMAIN s = 1..Len(s) /\ Len(s) \in Nat
      /\ DOMAIN Append(s, e) = 1..(Len(s) + 1)
      /\ \A i \in 1..Len(s) : Append(s, e)[i] = s[i]
      /\ Append(s, e)[Len(s) + 1] = e
  OBVIOUS
<1>2. \A i : i \in 1..(Len(s) + 1) <=> i \in 1..Len(s) \/ i = Len(s) + 1
  BY <1>1
<1> QED
  BY <1>1, <1>2 DEF ToSet

(* The sequence t is s with e at the place k. *)
Replaced(t, s, k, e) ==
  /\ Len(t) = Len(s)
  /\ \A i \in 1..Len(s) : i # k => t[i] = s[i]
  /\ t[k] = e

LEMMA ReplaceFacts ==
  ASSUME NEW S, NEW s \in Seq(S), NEW k \in 1..Len(s), NEW e \in S,
         NEW t, t = [s EXCEPT ![k] = e]
  PROVE  t \in Seq(S) /\ Replaced(t, s, k, e)
BY DEF Replaced

(* What the elements of a sequence are, and where an element stands. *)
LEMMA ToSetFacts ==
  ASSUME NEW S, NEW s \in Seq(S)
  PROVE  /\ ToSet(s) \subseteq S
         /\ \A e : e \in ToSet(s) <=> \E i \in 1..Len(s) : s[i] = e
BY DEF ToSet

(* The sequence t is s with c inserted before the place k. *)
Inserted(t, s, k, c) ==
  /\ Len(t) = Len(s) + Len(c)
  /\ \A j \in 1..(k - 1) : t[j] = s[j]
  /\ \A j \in k..(k + Len(c) - 1) : t[j] = c[j - k + 1]
  /\ \A j \in (k + Len(c))..Len(t) : t[j] = s[j - Len(c)]

(* Nothing is lost and nothing is doubled by an insertion. *)
LEMMA InsertedFacts ==
  ASSUME NEW S, NEW s \in Seq(S), NEW c \in Seq(S), NEW k \in 1..Len(s),
         NEW t \in Seq(S), Inserted(t, s, k, c)
  PROVE  /\ ToSet(t) = ToSet(s) \cup ToSet(c)
         /\ IsInjective(s) /\ IsInjective(c) /\ ToSet(s) \cap ToSet(c) = {}
              => IsInjective(t)
<1>1. /\ Len(s) \in Nat /\ Len(c) \in Nat /\ k \in Nat /\ k >= 1 /\ k <= Len(s)
      /\ Len(t) = Len(s) + Len(c)
      /\ DOMAIN s = 1..Len(s) /\ DOMAIN c = 1..Len(c) /\ DOMAIN t = 1..Len(t)
  BY DEF Inserted
<1>2. /\ \A j \in 1..(k - 1) : t[j] = s[j]
      /\ \A j \in k..(k + Len(c) - 1) : t[j] = c[j - k + 1]
      /\ \A j \in (k + Len(c))..Len(t) : t[j] = s[j - Len(c)]
  BY DEF Inserted
<1> DEFINE Within(j) == j \in k..(k + Len(c) - 1)
           at(j) == IF j < k THEN j ELSE j - Len(c)
           in(j) == j - k + 1
<1>3. ASSUME NEW j \in 1..Len(t), Within(j)
      PROVE  in(j) \in 1..Len(c) /\ t[j] = c[in(j)]
  BY <1>1, <1>2, <1>3
<1>4. ASSUME NEW j \in 1..Len(t), ~Within(j)
      PROVE  at(j) \in 1..Len(s) /\ t[j] = s[at(j)]
  <2>1. CASE j < k
    <3>1. j \in 1..(k - 1) /\ at(j) = j /\ j \in 1..Len(s)
      BY <1>1, <2>1
    <3> QED
      BY <1>2, <3>1
  <2>2. CASE ~(j < k)
    <3>1. j \in (k + Len(c))..Len(t) /\ at(j) = j - Len(c) /\ at(j) \in 1..Len(s)
      BY <1>1, <1>4, <2>2
    <3> QED
      BY <1>2, <3>1
  <2> QED
    BY <2>1, <2>2
<1>5. ToSet(t) = ToSet(s) \cup ToSet(c)
  <2>1. \A j \in 1..Len(t) : t[j] \in ToSet(s) \cup ToSet(c)
    BY <1>1, <1>3, <1>4 DEF ToSet
  <2>2. ASSUME NEW i \in 1..Len(s) PROVE \E j \in 1..Len(t) : t[j] = s[i]
    <3>1. CASE i < k
      <4>1. i \in 1..(k - 1) /\ i \in 1..Len(t)
        BY <1>1, <3>1
      <4> QED
        BY <1>2, <4>1
    <3>2. CASE ~(i < k)
      <4>1. i + Len(c) \in (k + Len(c))..Len(t) /\ (i + Len(c)) - Len(c) = i
            /\ i + Len(c) \in 1..Len(t)
        BY <1>1, <3>2
      <4> QED
        BY <1>2, <4>1
    <3> QED
      BY <3>1, <3>2
  <2>3. ASSUME NEW i \in 1..Len(c) PROVE \E j \in 1..Len(t) : t[j] = c[i]
    <3>1. i + k - 1 \in k..(k + Len(c) - 1) /\ (i + k - 1) - k + 1 = i
          /\ i + k - 1 \in 1..Len(t)
      BY <1>1
    <3> QED
      BY <1>2, <3>1
  <2>4. ToSet(t) \subseteq ToSet(s) \cup ToSet(c)
    <3>1. \A x \in ToSet(t) : \E j \in 1..Len(t) : x = t[j]
      BY <1>1 DEF ToSet
    <3> QED
      BY <2>1, <3>1
  <2>5. ToSet(s) \subseteq ToSet(t)
    BY <1>1, <2>2 DEF ToSet
  <2>6. ToSet(c) \subseteq ToSet(t)
    BY <1>1, <2>3 DEF ToSet
  <2> QED
    BY <2>4, <2>5, <2>6
<1>6. ASSUME IsInjective(s), IsInjective(c), ToSet(s) \cap ToSet(c) = {},
             NEW i \in 1..Len(t), NEW j \in 1..Len(t), t[i] = t[j]
      PROVE  i = j
  <2>1. CASE Within(i) /\ Within(j)
    <3>1. in(i) = in(j)
      BY <1>1, <1>3, <1>6, <2>1 DEF IsInjective
    <3> QED
      BY <1>1, <3>1
  <2>2. CASE ~Within(i) /\ ~Within(j)
    <3>1. at(i) = at(j)
      BY <1>1, <1>4, <1>6, <2>2 DEF IsInjective
    <3> QED
      BY <1>1, <2>2, <3>1
  <2>3. CASE Within(i) /\ ~Within(j)
    BY <1>1, <1>3, <1>4, <1>6, <2>3 DEF ToSet
  <2>4. CASE ~Within(i) /\ Within(j)
    BY <1>1, <1>3, <1>4, <1>6, <2>4 DEF ToSet
  <2> QED
    BY <2>1, <2>2, <2>3, <2>4
<1> QED
  BY <1>1, <1>5, <1>6 DEF IsInjective

(* A sequence with the element at the place k taken out. *)
Removed(t, s, k) ==
  /\ Len(t) = Len(s) - 1
  /\ \A j \in 1..(k - 1) : t[j] = s[j]
  /\ \A j \in k..(Len(s) - 1) : t[j] = s[j + 1]

LEMMA RemoveFacts ==
  ASSUME NEW S, NEW s \in Seq(S), NEW k \in 1..Len(s), NEW t, t = RemoveAt(s, k)
  PROVE  t \in Seq(S) /\ Removed(t, s, k)
<1> DEFINE p == SubSeq(s, 1, k - 1)
           q == SubSeq(s, k + 1, Len(s))
<1>1. t = p \o q
  BY DEF RemoveAt
<1>2. Len(s) \in Nat /\ k \in Nat /\ k >= 1 /\ k <= Len(s)
  OBVIOUS
<1>3. p \in Seq(S) /\ Len(p) = k - 1 /\ \A j \in 1..(k - 1) : p[j] = s[j]
  BY SubSeqProperties
<1>4. /\ q \in Seq(S) /\ Len(q) = Len(s) - k
      /\ \A j \in 1..(Len(s) - k) : q[j] = s[k + j]
  BY SubSeqProperties
<1> HIDE DEF p, q
<1>5. /\ t \in Seq(S) /\ Len(t) = Len(p) + Len(q)
      /\ \A j \in 1..Len(p) : t[j] = p[j]
      /\ \A j \in 1..Len(q) : t[j + Len(p)] = q[j]
  <2>1. p \in Seq(S) /\ q \in Seq(S)
    BY <1>3, <1>4
  <2> QED
    BY ONLY <1>1, <2>1, ConcatFacts
<1>6. ASSUME NEW j \in k..(Len(s) - 1) PROVE t[j] = s[j + 1]
  <2> DEFINE m == j - (k - 1)
  <2>1. m \in 1..Len(q) /\ m + Len(p) = j /\ k + m = j + 1 /\ m \in 1..(Len(s) - k)
    BY <1>2, <1>3, <1>4
  <2> HIDE DEF m
  <2> QED
    BY <1>4, <1>5, <2>1
<1>7. Len(t) = Len(s) - 1
  <2>1. Len(p) = k - 1 /\ Len(q) = Len(s) - k /\ Len(t) = Len(p) + Len(q)
    BY <1>3, <1>4, <1>5
  <2> QED
    BY ONLY <1>2, <2>1
<1>8. \A j \in 1..(k - 1) : t[j] = s[j]
  BY <1>3, <1>5
<1> QED
  BY <1>5, <1>6, <1>7, <1>8 DEF Removed

(* A set of natural numbers has a least one. *)
LEMMA LeastNumber ==
  ASSUME NEW T \in SUBSET Nat, T # {}
  PROVE  \E n \in T : \A m \in T : n <= m
<1>1. PICK n \in T : \A m \in T : <<m, n>> \notin OpToRel(<, Nat)
  BY NatLessThanWellFounded, WFMin
<1>2. \A m \in T : <<m, n>> \in Nat \X Nat
  OBVIOUS
<1>3. \A m \in T : ~(m < n)
  BY <1>1, <1>2 DEF OpToRel
<1> QED
  BY <1>3

(* Sequences of a sequence, one after the other.                           *)
LEMMA FlattenedPart ==
  ASSUME NEW S, NEW seqs \in Seq(Seq(S)), NEW n \in 1..Len(seqs)
  PROVE  \E f : /\ f = [i \in 1..n |-> IF i = 1 THEN seqs[i] ELSE f[i - 1] \o seqs[i]]
                /\ \A i \in 1..n : f[i] \in Seq(S)
<1> DEFINE Exists(k) ==
      \E f : /\ f = [i \in 1..k |-> IF i = 1 THEN seqs[i] ELSE f[i - 1] \o seqs[i]]
             /\ \A i \in 1..k : f[i] \in Seq(S)
<1> SUFFICES Exists(n)
  OBVIOUS
<1> HIDE DEF Exists
<1> DEFINE bad == {k \in Nat : k \in 1..Len(seqs) /\ ~Exists(k)}
<1> SUFFICES ASSUME bad # {} PROVE FALSE
  OBVIOUS
<1>1. bad \in SUBSET Nat
  OBVIOUS
<1> HIDE DEF bad
<1>2. PICK k \in bad : \A m \in bad : k <= m
  BY <1>1, LeastNumber
<1>3. k \in 1..Len(seqs) /\ ~Exists(k) /\ seqs[k] \in Seq(S)
  <2>1. k \in 1..Len(seqs) /\ ~Exists(k)
    BY DEF bad
  <2> QED
    BY <2>1
<1>4. CASE k = 1
  <2> DEFINE f == [i \in 1..1 |-> seqs[1]]
  <2>1. \A i \in 1..1 : i = 1
    OBVIOUS
  <2>2. f = [i \in 1..1 |-> IF i = 1 THEN seqs[i] ELSE f[i - 1] \o seqs[i]]
    BY <2>1
  <2>3. \A i \in 1..1 : f[i] \in Seq(S)
    BY <1>3, <1>4
  <2> HIDE DEF f
  <2> QED
    BY <1>3, <1>4, <2>2, <2>3 DEF Exists
<1>5. CASE k # 1
  <2>1. k - 1 \in 1..Len(seqs) /\ k - 1 \notin bad
    BY <1>2, <1>3, <1>5
  <2>2. Exists(k - 1)
    BY <2>1 DEF bad
  <2>3. PICK f : /\ f = [i \in 1..(k - 1) |-> IF i = 1 THEN seqs[i] ELSE f[i - 1] \o seqs[i]]
                 /\ \A i \in 1..(k - 1) : f[i] \in Seq(S)
    BY <2>2 DEF Exists
  <2>4. /\ f[1] = seqs[1]
        /\ \A i \in 2..(k - 1) : f[i] = f[i - 1] \o seqs[i]
    <3>1. 1 \in 1..(k - 1)
      BY <2>1
    <3>2. f[1] = seqs[1]
      <4>1. f[1] = IF 1 = 1 THEN seqs[1] ELSE f[1 - 1] \o seqs[1]
        BY <2>3, <3>1
      <4> QED
        BY <4>1
    <3>3. ASSUME NEW i \in 2..(k - 1) PROVE f[i] = f[i - 1] \o seqs[i]
      <4>1. i \in 1..(k - 1) /\ i # 1
        BY <2>1
      <4> QED
        BY <2>3, <4>1
    <3> QED
      BY <3>2, <3>3
  <2> DEFINE last == f[k - 1] \o seqs[k]
             g == [i \in 1..k |-> IF i = k THEN last ELSE f[i]]
  <2>5. last \in Seq(S)
    <3>1. f[k - 1] \in Seq(S)
      <4>1. k - 1 \in 1..(k - 1)
        BY <1>3, <2>1
      <4>2. \A i \in 1..(k - 1) : f[i] \in Seq(S)
        BY <2>3
      <4> QED
        BY <4>1, <4>2
    <3> QED
      BY <1>3, <3>1, ConcatProperties
  <2>6. ASSUME NEW i \in 1..k
        PROVE  g[i] = IF i = 1 THEN seqs[i] ELSE g[i - 1] \o seqs[i]
    <3>1. CASE i = k
      <4>1. k - 1 \in 1..k /\ k - 1 # k
        BY <1>3, <2>1
      <4> QED
        BY <1>5, <3>1, <4>1
    <3>2. CASE i # k /\ i = 1
      BY <2>4, <3>2
    <3>3. CASE i # k /\ i # 1
      <4>1. i \in 2..(k - 1) /\ i - 1 \in 1..k /\ i - 1 # k
        BY <1>3, <3>3
      <4> QED
        BY <2>4, <3>3, <4>1
    <3> QED
      BY <3>1, <3>2, <3>3
  <2>7. \A i \in 1..k : g[i] \in Seq(S)
    <3>1. \A i \in 1..k : i # k => i \in 1..(k - 1)
      BY <1>3
    <3> QED
      BY <2>3, <2>5, <3>1
  <2>8. g = [i \in 1..k |-> IF i = 1 THEN seqs[i] ELSE g[i - 1] \o seqs[i]]
    BY <2>6
  <2> HIDE DEF g
  <2> QED
    BY <1>3, <2>7, <2>8 DEF Exists
<1> QED
  BY <1>4, <1>5

LEMMA FlattenFacts ==
  ASSUME NEW S, NEW seqs \in Seq(Seq(S))
  PROVE  FlattenSeq(seqs) \in Seq(S)
<1> DEFINE n == Len(seqs)
           Is(f) == f = [i \in 1..n |-> IF i = 1 THEN seqs[i] ELSE f[i - 1] \o seqs[i]]
           flatten == CHOOSE f : Is(f)
<1>1. CASE n = 0
  <2>1. FlattenSeq(seqs) = seqs /\ seqs = <<>>
    BY <1>1 DEF FlattenSeq
  <2> QED
    BY <2>1
<1>2. CASE n # 0
  <2>1. n \in 1..n
    BY <1>2
  <2>2. PICK f : Is(f) /\ \A i \in 1..n : f[i] \in Seq(S)
    BY <2>1, FlattenedPart
  <2>3. Is(flatten)
    <3> HIDE DEF Is
    <3> QED
      BY <2>2
  <2>4. FlattenSeq(seqs) = flatten[n]
    BY <1>2 DEF FlattenSeq
  <2>5. flatten[n] \in Seq(S)
    <3> HIDE DEF flatten
    <3> DEFINE bad == {k \in Nat : k \in 1..n /\ flatten[k] \notin Seq(S)}
    <3> SUFFICES ASSUME bad # {} PROVE FALSE
      BY <2>1
    <3>1. bad \in SUBSET Nat
      OBVIOUS
    <3> HIDE DEF bad
    <3>2. PICK k \in bad : \A m \in bad : k <= m
      BY <3>1, LeastNumber
    <3>3. k \in 1..n /\ flatten[k] \notin Seq(S) /\ seqs[k] \in Seq(S)
      BY DEF bad
    <3> HIDE DEF flatten, n
    <3>4. flatten[k] = IF k = 1 THEN seqs[k] ELSE flatten[k - 1] \o seqs[k]
      BY <2>3, <3>3
    <3>5. k # 1
      BY <3>3, <3>4
    <3>6. n \in Nat
      BY DEF n
    <3>7. k - 1 \in 1..n /\ k - 1 \notin bad
      BY <3>2, <3>3, <3>5, <3>6
    <3>8. flatten[k - 1] \in Seq(S)
      BY <3>7 DEF bad
    <3> QED
      BY <3>3, <3>4, <3>5, <3>8, ConcatProperties
  <2> QED
    BY <2>4, <2>5
<1> QED
  BY <1>1, <1>2

(* The function that flattens, up to its n-th step. *)
IsFlattened(f, seqs, n) ==
  f = [i \in 1..n |-> IF i = 1 THEN seqs[i] ELSE f[i - 1] \o seqs[i]]

LEMMA FlattenedOnce ==
  ASSUME NEW seqs, NEW n \in Nat, NEW f, IsFlattened(f, seqs, n), NEW g, IsFlattened(g, seqs, n)
  PROVE  f = g
<1>1. /\ DOMAIN f = 1..n /\ DOMAIN g = 1..n
      /\ \A i \in 1..n : f[i] = IF i = 1 THEN seqs[i] ELSE f[i - 1] \o seqs[i]
      /\ \A i \in 1..n : g[i] = IF i = 1 THEN seqs[i] ELSE g[i - 1] \o seqs[i]
      /\ f = [i \in 1..n |-> f[i]] /\ g = [i \in 1..n |-> g[i]]
  BY DEF IsFlattened
<1> DEFINE bad == {k \in Nat : k \in 1..n /\ f[k] # g[k]}
<1>2. CASE bad = {}
  <2>1. \A i \in 1..n : f[i] = g[i]
    BY <1>2
  <2> QED
    BY <1>1, <2>1
<1>3. CASE bad # {}
  <2>1. bad \in SUBSET Nat
    OBVIOUS
  <2> HIDE DEF bad
  <2>2. PICK k \in bad : \A m \in bad : k <= m
    BY <1>3, <2>1, LeastNumber
  <2>3. k \in 1..n /\ f[k] # g[k]
    BY DEF bad
  <2>4. k # 1
    BY <1>1, <2>3
  <2>5. k - 1 \in 1..n /\ k - 1 \notin bad
    BY <2>2, <2>3, <2>4
  <2>6. f[k - 1] = g[k - 1]
    BY <2>5 DEF bad
  <2> QED
    BY <1>1, <2>3, <2>4, <2>6
<1> QED
  BY <1>2, <1>3

(* One sequence more. *)
LEMMA FlattenAppended ==
  ASSUME NEW S, NEW seqs \in Seq(Seq(S)), NEW s \in Seq(S)
  PROVE  FlattenSeq(Append(seqs, s)) = FlattenSeq(seqs) \o s
<1> DEFINE n == Len(seqs)
           more == Append(seqs, s)
<1>1. /\ more \in Seq(Seq(S)) /\ Len(more) = n + 1 /\ n \in Nat
      /\ more[n + 1] = s /\ \A i \in 1..n : more[i] = seqs[i]
  OBVIOUS
<1> HIDE DEF more
<1>2. n + 1 \in 1..Len(more)
  BY <1>1
<1>3. PICK f : IsFlattened(f, more, n + 1) /\ \A i \in 1..(n + 1) : f[i] \in Seq(S)
  BY <1>1, <1>2, FlattenedPart DEF IsFlattened
<1>4. FlattenSeq(more) = f[n + 1]
  <2> DEFINE flatten == CHOOSE g : IsFlattened(g, more, n + 1)
  <2>1. FlattenSeq(more) = flatten[n + 1]
    BY <1>1 DEF FlattenSeq, IsFlattened
  <2>2. IsFlattened(flatten, more, n + 1)
    BY <1>3
  <2> HIDE DEF flatten
  <2>3. flatten = f
    BY <1>1, <1>3, <2>2, FlattenedOnce
  <2> QED
    BY <2>1, <2>3
<1>5. \A i \in 1..(n + 1) : f[i] = IF i = 1 THEN more[i] ELSE f[i - 1] \o more[i]
  BY <1>3 DEF IsFlattened
<1>6. CASE n = 0
  <2>1. FlattenSeq(seqs) = <<>>
    <3>1. seqs = <<>>
      BY <1>6
    <3> QED
      BY <3>1 DEF FlattenSeq
  <2>2. f[1] = s
    BY <1>1, <1>5, <1>6
  <2> QED
    BY <1>4, <1>6, <2>1, <2>2 DEF more
<1>7. CASE n # 0
  <2> DEFINE g == [i \in 1..n |-> f[i]]
             flatten == CHOOSE h : IsFlattened(h, seqs, n)
  <2>1. IsFlattened(g, seqs, n)
    <3>1. ASSUME NEW i \in 1..n PROVE g[i] = IF i = 1 THEN seqs[i] ELSE g[i - 1] \o seqs[i]
      <4>1. i \in 1..(n + 1) /\ (i # 1 => i - 1 \in 1..n)
        BY <1>1
      <4> QED
        BY <1>1, <1>5, <4>1
    <3>2. g = [i \in 1..n |-> IF i = 1 THEN seqs[i] ELSE g[i - 1] \o seqs[i]]
      BY <3>1
    <3> QED
      BY <3>2 DEF IsFlattened
  <2> HIDE DEF g
  <2>2. FlattenSeq(seqs) = flatten[n]
    BY <1>1, <1>7 DEF FlattenSeq, IsFlattened
  <2>3. IsFlattened(flatten, seqs, n)
    BY <2>1
  <2> HIDE DEF flatten
  <2>4. flatten = g
    BY <1>1, <2>1, <2>3, FlattenedOnce
  <2>5. g[n] = f[n]
    BY <1>1, <1>7 DEF g
  <2>6. f[n + 1] = f[n] \o s
    <3>1. PICK m : m = n + 1
      OBVIOUS
    <3>2. m \in 1..(n + 1) /\ m # 1 /\ m - 1 = n
      BY <1>1, <1>7, <3>1
    <3>3. f[m] = f[m - 1] \o more[m]
      BY <1>5, <3>2
    <3>4. f[m] = f[n] \o s
      BY ONLY <1>1, <3>1, <3>2, <3>3
    <3> QED
      BY <3>1, <3>4
  <2> QED
    BY <1>4, <2>2, <2>4, <2>5, <2>6 DEF more
<1> QED
  BY <1>6, <1>7

(* The places in a sequence of sequences. *)
Places(seqs) == {p \in Nat \X Nat : p[1] \in DOMAIN seqs /\ p[2] \in DOMAIN seqs[p[1]]}

(* Flattening puts each place at an index of its own. *)
ArePlaces(place, flat, seqs) ==
  /\ \A j \in DOMAIN flat : place[j] \in Places(seqs) /\ flat[j] = seqs[place[j][1]][place[j][2]]
  /\ \A i, j \in DOMAIN flat : place[i] = place[j] => i = j
  /\ \A p \in Places(seqs) : \E j \in DOMAIN flat : place[j] = p

LEMMA PlacesOfOneMore ==
  ASSUME NEW S, NEW seqs \in Seq(Seq(S)), NEW s \in Seq(S), NEW flat \in Seq(S),
         NEW place, ArePlaces(place, flat, seqs)
  PROVE  \E wider : ArePlaces(wider, flat \o s, Append(seqs, s))
<1> DEFINE n == Len(seqs)
           more == Append(seqs, s)
           long == flat \o s
<1>1. /\ Len(more) = n + 1 /\ n \in Nat /\ DOMAIN more = 1..(n + 1) /\ DOMAIN seqs = 1..n
      /\ more[n + 1] = s /\ \A i \in 1..n : more[i] = seqs[i]
  OBVIOUS
<1>2. /\ long \in Seq(S) /\ Len(long) = Len(flat) + Len(s)
      /\ \A i \in 1..Len(flat) : long[i] = flat[i]
      /\ \A i \in 1..Len(s) : long[i + Len(flat)] = s[i]
  BY ConcatFacts
<1>3. /\ DOMAIN long = 1..Len(long) /\ DOMAIN flat = 1..Len(flat) /\ DOMAIN s = 1..Len(s)
      /\ Len(flat) \in Nat /\ Len(s) \in Nat
  BY <1>2
<1> HIDE DEF more, long, n
<1> DEFINE wider == [j \in 1..Len(long) |-> IF j <= Len(flat) THEN place[j] ELSE <<n + 1, j - Len(flat)>>]
<1>4. \A p : p \in Places(more) <=>
        p \in Places(seqs) \/ \E i \in 1..Len(s) : p = <<n + 1, i>>
  <2>1. ASSUME NEW p \in Places(more) PROVE p \in Places(seqs) \/ \E i \in 1..Len(s) : p = <<n + 1, i>>
    <3>1. p \in Nat \X Nat /\ p[1] \in 1..(n + 1) /\ p[2] \in DOMAIN more[p[1]]
      BY <1>1 DEF Places
    <3>2. CASE p[1] = n + 1
      BY <1>1, <1>3, <3>1, <3>2
    <3>3. CASE p[1] # n + 1
      <4>1. p[1] \in 1..n
        BY <1>1, <3>1, <3>3
      <4> QED
        BY <1>1, <3>1, <4>1 DEF Places
    <3> QED
      BY <3>2, <3>3
  <2>2. ASSUME NEW p \in Places(seqs) PROVE p \in Places(more)
    BY <1>1 DEF Places
  <2>3. ASSUME NEW i \in 1..Len(s) PROVE <<n + 1, i>> \in Places(more)
    <3>1. <<n + 1, i>> \in Nat \X Nat
      BY <1>1, <1>3
    <3> QED
      BY <1>1, <1>3, <3>1 DEF Places
  <2> QED
    BY <2>1, <2>2, <2>3
<1>5. \A p \in Places(seqs) : p[1] \in 1..n
  BY <1>1 DEF Places
<1>6. ASSUME NEW j \in 1..Len(long)
      PROVE  wider[j] \in Places(more) /\ long[j] = more[wider[j][1]][wider[j][2]]
  <2>1. CASE j <= Len(flat)
    <3>1. j \in 1..Len(flat) /\ wider[j] = place[j]
      BY <1>3, <2>1
    <3>2. place[j] \in Places(seqs) /\ flat[j] = seqs[place[j][1]][place[j][2]]
      BY <1>3, <3>1 DEF ArePlaces
    <3> HIDE DEF wider
    <3> QED
      BY <1>1, <1>2, <1>4, <1>5, <3>1, <3>2
  <2>2. CASE ~(j <= Len(flat))
    <3>1. j - Len(flat) \in 1..Len(s) /\ wider[j] = <<n + 1, j - Len(flat)>>
      BY <1>2, <1>3, <2>2
    <3>2. long[j - Len(flat) + Len(flat)] = s[j - Len(flat)]
      BY <1>2, <3>1
    <3>3. j - Len(flat) + Len(flat) = j
      BY <1>2, <1>3
    <3> HIDE DEF wider
    <3>4. wider[j][1] = n + 1 /\ wider[j][2] = j - Len(flat)
      BY <3>1
    <3> QED
      BY <1>1, <1>4, <3>1, <3>2, <3>3, <3>4
  <2> QED
    BY <2>1, <2>2
<1>7. ASSUME NEW i \in 1..Len(long), NEW j \in 1..Len(long), wider[i] = wider[j] PROVE i = j
  <2>1. ASSUME NEW k \in 1..Len(long)
        PROVE  IF k <= Len(flat) THEN /\ k \in 1..Len(flat) /\ wider[k] = place[k]
                                      /\ place[k] \in Places(seqs) /\ wider[k][1] \in 1..n
               ELSE wider[k][1] = n + 1 /\ wider[k][2] = k - Len(flat)
    <3>1. CASE k <= Len(flat)
      <4>1. k \in 1..Len(flat) /\ wider[k] = place[k]
        BY <1>3, <3>1
      <4>2. place[k] \in Places(seqs)
        BY <1>3, <4>1 DEF ArePlaces
      <4> HIDE DEF wider
      <4> QED
        BY <1>5, <3>1, <4>1, <4>2
    <3>2. CASE ~(k <= Len(flat))
      BY <3>2
    <3> QED
      BY <3>1, <3>2
  <2> HIDE DEF wider
  <2>2. CASE i <= Len(flat) /\ j <= Len(flat)
    BY <1>3, <1>7, <2>1, <2>2 DEF ArePlaces
  <2>3. CASE i <= Len(flat) /\ ~(j <= Len(flat))
    BY <1>1, <1>7, <2>1, <2>3
  <2>4. CASE ~(i <= Len(flat)) /\ j <= Len(flat)
    BY <1>1, <1>7, <2>1, <2>4
  <2>5. CASE ~(i <= Len(flat)) /\ ~(j <= Len(flat))
    <3>1. i - Len(flat) = j - Len(flat)
      BY <1>7, <2>1, <2>5
    <3> QED
      BY <1>2, <1>3, <3>1
  <2> QED
    BY <2>2, <2>3, <2>4, <2>5
<1>8. ASSUME NEW p \in Places(more) PROVE \E j \in 1..Len(long) : wider[j] = p
  <2>1. CASE p \in Places(seqs)
    <3>1. PICK j \in 1..Len(flat) : place[j] = p
      BY <1>3, <2>1 DEF ArePlaces
    <3>2. j \in 1..Len(long) /\ j <= Len(flat)
      BY <1>2, <1>3
    <3> QED
      BY <3>1, <3>2
  <2>2. CASE \E i \in 1..Len(s) : p = <<n + 1, i>>
    <3>1. PICK i \in 1..Len(s) : p = <<n + 1, i>>
      BY <2>2
    <3>2. i + Len(flat) \in 1..Len(long) /\ ~(i + Len(flat) <= Len(flat)) /\ i + Len(flat) - Len(flat) = i
      BY <1>2, <1>3
    <3>3. wider[i + Len(flat)] = <<n + 1, i>>
      BY <3>2
    <3> QED
      BY <3>1, <3>2, <3>3
  <2> QED
    BY <1>4, <2>1, <2>2
<1> HIDE DEF wider
<1>9. ArePlaces(wider, long, more)
  BY <1>3, <1>6, <1>7, <1>8 DEF ArePlaces
<1> QED
  BY <1>9 DEF more, long

LEMMA FlattenPlaces ==
  ASSUME NEW S, NEW seqs \in Seq(Seq(S))
  PROVE  \E place : ArePlaces(place, FlattenSeq(seqs), seqs)
<1> DEFINE part(k) == SubSeq(seqs, 1, k)
           Good(k) == \E place : ArePlaces(place, FlattenSeq(part(k)), part(k))
           bad == {k \in Nat : k <= Len(seqs) /\ ~Good(k)}
<1>1. part(Len(seqs)) = seqs /\ Len(seqs) \in Nat
  OBVIOUS
<1>2. CASE bad = {}
  <2>1. Good(Len(seqs))
    <3> HIDE DEF Good
    <3> QED
      BY <1>1, <1>2
  <2> HIDE DEF part
  <2> QED
    BY <1>1, <2>1
<1>3. CASE bad # {}
  <2>1. bad \in SUBSET Nat
    OBVIOUS
  <2> HIDE DEF bad
  <2>2. PICK k \in bad : \A m \in bad : k <= m
    BY <1>3, <2>1, LeastNumber
  <2>3. k \in Nat /\ k <= Len(seqs) /\ ~Good(k)
    BY DEF bad
  <2>4. CASE k = 0
    <3>1. part(0) = <<>>
      OBVIOUS
    <3> DEFINE none == part(0)
    <3>2. FlattenSeq(none) = <<>>
      BY <3>1 DEF FlattenSeq
    <3>3. DOMAIN none = {} /\ Places(none) = {}
      BY <3>1 DEF Places
    <3>4. DOMAIN FlattenSeq(none) = {}
      BY <3>2
    <3>5. ArePlaces(<<>>, FlattenSeq(none), none)
      <4> HIDE DEF none
      <4> QED
        BY <3>3, <3>4 DEF ArePlaces
    <3> QED
      BY <2>3, <2>4, <3>5
  <2>5. CASE k # 0
    <3>1. k - 1 \in Nat /\ k - 1 \notin bad /\ k - 1 <= Len(seqs)
      BY <1>1, <2>2, <2>3, <2>5
    <3>2. Good(k - 1)
      <4> HIDE DEF Good
      <4> QED
        BY <3>1 DEF bad
    <3>3. part(k - 1) \in Seq(Seq(S)) /\ seqs[k] \in Seq(S)
      BY <2>3, <2>5, <3>1
    <3>4. part(k) = Append(part(k - 1), seqs[k])
      BY <2>3, <2>5, <3>1
    <3> HIDE DEF part
    <3>5. FlattenSeq(part(k)) = FlattenSeq(part(k - 1)) \o seqs[k]
      BY <3>3, <3>4, FlattenAppended
    <3>6. FlattenSeq(part(k - 1)) \in Seq(S)
      BY <3>3, FlattenFacts
    <3>7. PICK place : ArePlaces(place, FlattenSeq(part(k - 1)), part(k - 1))
      BY <3>2
    <3>8. \E wider : ArePlaces(wider, FlattenSeq(part(k - 1)) \o seqs[k], Append(part(k - 1), seqs[k]))
      BY <3>3, <3>6, <3>7, PlacesOfOneMore
    <3> QED
      BY <2>3, <3>4, <3>5, <3>8
  <2> QED
    BY <2>4, <2>5
<1> QED
  BY <1>2, <1>3

(* What a function takes from a finite set is finite.                      *)
LEMMA FiniteImage ==
  ASSUME NEW S, IsFiniteSet(S), NEW f
  PROVE  IsFiniteSet({f[x] : x \in S})
<1> DEFINE T == {f[x] : x \in S}
           g == [x \in S |-> f[x]]
<1>1. g \in Surjection(S, T)
  BY DEF Surjection
<1> HIDE DEF g, T
<1>2. IsFiniteSet(T)
  BY <1>1, FS_Surjection
<1> QED
  BY <1>2 DEF T

(* As many values as arguments are taken just when no two are the same.    *)
LEMMA ImageSize ==
  ASSUME NEW n \in Nat, NEW f
  PROVE  Cardinality({f[i] : i \in 1..n}) = n <=> \A i, j \in 1..n : f[i] = f[j] => i = j
<1> DEFINE T == {f[i] : i \in 1..n}
           g == [i \in 1..n |-> f[i]]
<1>1. IsFiniteSet(1..n) /\ Cardinality(1..n) = n
  BY FS_Interval
<1>2. g \in Surjection(1..n, T)
  BY DEF Surjection
<1>3. g \in Injection(1..n, T) <=> \A i, j \in 1..n : f[i] = f[j] => i = j
  BY DEF Injection, IsInjective
<1> HIDE DEF g, T
<1>4. Cardinality(T) = Cardinality(1..n) <=> g \in Injection(1..n, T)
  BY <1>1, <1>2, FS_Surjection
<1> QED
  BY <1>1, <1>3, <1>4 DEF T
=============================================================================
