------------------------- MODULE ProbeRounds_proofs --------------------------
(***************************************************************************)
(* Proofs about ProbeRounds, for every number of Endpoints and surface     *)
(* kinds, every budget and any length of a request.                        *)
(***************************************************************************)
EXTENDS ProbeRounds, FiniteSetTheorems, SequenceTheorems, WellFoundedInduction, TLAPS

USE SlugsAssumption, KindsAssumption, BudgetAssumption, NoneAssumption

(***************************************************************************)
(* sorted(): a finite set of numbers has its sequence in order.            *)
(***************************************************************************)
LEMMA LeastExists ==
    ASSUME NEW S, S \subseteq Nat, S # {}
    PROVE  \E x \in S : \A y \in S : x <= y
<1>1. \E x \in S : \A y \in S : <<y, x>> \notin OpToRel(<, Nat)
  BY NatLessThanWellFounded, WFMin
<1>2. PICK x \in S : \A y \in S : <<y, x>> \notin OpToRel(<, Nat)
  BY <1>1
<1>3. \A y \in S : ~ (y < x)
  BY <1>2 DEF OpToRel
<1>4. \A y \in S : x <= y
  BY <1>3
<1> QED
  BY <1>4

InOrder(S, seq) ==
    /\ seq \in [1..Cardinality(S) -> S]
    /\ \A i, j \in 1..Cardinality(S) : i < j => seq[i] < seq[j]

LEMMA OrderExists ==
    ASSUME NEW S \in SUBSET Nat, IsFiniteSet(S)
    PROVE  \E seq : InOrder(S, seq)
<1> DEFINE unordered == {n \in Nat : \E T \in SUBSET Nat : /\ IsFiniteSet(T) /\ Cardinality(T) = n
                                                          /\ ~ \E seq : InOrder(T, seq)}
<1> SUFFICES ASSUME unordered # {}
             PROVE  FALSE
  BY FS_CardinalityType
<1>1. PICK n \in unordered : \A m \in unordered : n <= m
  BY LeastExists
<1>2. PICK T \in SUBSET Nat : /\ IsFiniteSet(T) /\ Cardinality(T) = n
                              /\ ~ \E seq : InOrder(T, seq)
  BY <1>1
<1>3. T # {}
  <2>1. ASSUME T = {}
        PROVE  FALSE
    <3>1. Cardinality(T) = 0
      BY <2>1, FS_EmptySet
    <3>2. InOrder(T, [i \in 1..0 |-> 0])
      BY <3>1 DEF InOrder
    <3> QED
      BY <1>2, <3>2
  <2> QED
    BY <2>1
<1>4. PICK x \in T : \A y \in T : x <= y
  BY <1>3, LeastExists
<1> DEFINE U == T \ {x}
<1>5. IsFiniteSet(U) /\ Cardinality(U) = n - 1 /\ n \in Nat
  BY <1>1, <1>2, FS_RemoveElement
<1>6. n - 1 \in Nat
  BY <1>5, FS_CardinalityType
<1>7. PICK f : InOrder(U, f)
  BY <1>1, <1>5, <1>6
<1> DEFINE g == [i \in 1..n |-> IF i = 1 THEN x ELSE f[i - 1]]
<1>8. f \in [1..(n - 1) -> U] /\ \A i, j \in 1..(n - 1) : i < j => f[i] < f[j]
  BY <1>5, <1>7 DEF InOrder
<1>9. \A i \in 2..n : i - 1 \in 1..(n - 1) /\ g[i] = f[i - 1] /\ g[i] \in U
  BY <1>5, <1>8
<1>10. g \in [1..n -> T]
  <2> SUFFICES ASSUME NEW i \in 1..n
               PROVE  (IF i = 1 THEN x ELSE f[i - 1]) \in T
    OBVIOUS
  <2>1. CASE i = 1
    BY <2>1
  <2>2. CASE i # 1
    <3>1. i - 1 \in 1..(n - 1)
      BY <1>5, <2>2
    <3> QED
      BY <1>8, <2>2, <3>1
  <2> QED
    BY <2>1, <2>2
<1>11. \A i, j \in 1..n : i < j => g[i] < g[j]
  <2> SUFFICES ASSUME NEW i \in 1..n, NEW j \in 1..n, i < j
               PROVE  g[i] < g[j]
    OBVIOUS
  <2>0. j \in 2..n
    BY <1>5
  <2>1. g[j] = f[j - 1] /\ f[j - 1] \in U /\ j - 1 \in 1..(n - 1)
    BY <1>5, <1>9, <2>0
  <2>2. CASE i = 1
    <3>1. f[j - 1] # x /\ x <= f[j - 1] /\ f[j - 1] \in Nat /\ x \in Nat
      BY <1>2, <1>4, <2>1
    <3> QED
      BY <2>1, <2>2, <3>1, <1>5
  <2>3. CASE i # 1
    BY <1>5, <1>8, <1>9, <2>1, <2>3
  <2> QED
    BY <2>2, <2>3
<1>12. InOrder(T, g)
  BY <1>2, <1>10, <1>11 DEF InOrder
<1> QED
  BY <1>2, <1>12

LEMMA OrderedIs ==
    ASSUME NEW S \in SUBSET Nat, IsFiniteSet(S)
    PROVE  Ordered(S) \in [1..Cardinality(S) -> S]
<1>1. \E seq \in [1..Cardinality(S) -> S] :
        \A i, j \in 1..Cardinality(S) : i < j => seq[i] < seq[j]
  BY OrderExists DEF InOrder
<1> QED
  BY <1>1 DEF Ordered

(***************************************************************************)
(* FlattenSeq: the elements of the sequences, one after the other.         *)
(***************************************************************************)
\* Its recursion over the first n of them.
Flattened(seqs, n, f) ==
    f = [i \in 1..n |-> IF i = 1 THEN seqs[i] ELSE f[i - 1] \o seqs[i]]

LEMMA FlattenedExists ==
    ASSUME NEW seqs, NEW n \in Nat
    PROVE  \E f : Flattened(seqs, n, f)
<1> DEFINE without == {m \in Nat : ~ \E f : Flattened(seqs, m, f)}
<1> SUFFICES ASSUME without # {}
             PROVE  FALSE
  OBVIOUS
<1>1. PICK m \in without : \A l \in without : m <= l
  BY LeastExists
<1>2. m # 0
  <2>1. Flattened(seqs, 0, [i \in 1..0 |-> 0])
    BY DEF Flattened
  <2> QED
    BY <1>1, <2>1
<1>3. PICK f : Flattened(seqs, m - 1, f)
  BY <1>1, <1>2
<1> DEFINE g == [i \in 1..m |-> IF i = m THEN (IF i = 1 THEN seqs[i] ELSE f[i - 1] \o seqs[i])
                                          ELSE f[i]]
<1>4. \A i \in 1..(m - 1) : f[i] = IF i = 1 THEN seqs[i] ELSE f[i - 1] \o seqs[i]
  BY <1>3 DEF Flattened
<1>5. \A i \in 1..m : g[i] = IF i = 1 THEN seqs[i] ELSE g[i - 1] \o seqs[i]
  <2> SUFFICES ASSUME NEW i \in 1..m
               PROVE  g[i] = IF i = 1 THEN seqs[i] ELSE g[i - 1] \o seqs[i]
    OBVIOUS
  <2>1. i # 1 => i - 1 \in 1..m /\ g[i - 1] = f[i - 1]
    BY <1>1
  <2>2. CASE i = m
    BY <2>1, <2>2
  <2>3. CASE i # m
    <3>1. i \in 1..(m - 1) /\ g[i] = f[i]
      BY <1>1, <2>3
    <3> QED
      BY <1>4, <2>1, <3>1
  <2> QED
    BY <2>2, <2>3
<1>6. Flattened(seqs, m, g)
  BY <1>5 DEF Flattened
<1> QED
  BY <1>1, <1>6

Occurs(e, seq) == \E i \in 1..Len(seq) : seq[i] = e

LEMMA ConcatOccurs ==
    ASSUME NEW X, NEW s \in Seq(X), NEW t \in Seq(X), NEW e
    PROVE  Occurs(e, s \o t) <=> Occurs(e, s) \/ Occurs(e, t)
<1>1. /\ Len(s) \in Nat /\ Len(t) \in Nat /\ Len(s \o t) = Len(s) + Len(t)
      /\ \A i \in 1..Len(s) : (s \o t)[i] = s[i]
      /\ \A i \in 1..Len(t) : (s \o t)[Len(s) + i] = t[i]
  BY ConcatProperties, LenProperties
<1>2. ASSUME Occurs(e, s \o t)
      PROVE  Occurs(e, s) \/ Occurs(e, t)
  <2>1. PICK i \in 1..(Len(s) + Len(t)) : (s \o t)[i] = e
    BY <1>1, <1>2 DEF Occurs
  <2>2. CASE i <= Len(s)
    BY <1>1, <2>1, <2>2 DEF Occurs
  <2>3. CASE i > Len(s)
    <3>1. i - Len(s) \in 1..Len(t) /\ i = Len(s) + (i - Len(s))
      BY <1>1, <2>3
    <3> QED
      BY <1>1, <2>1, <3>1 DEF Occurs
  <2> QED
    BY <1>1, <2>2, <2>3
<1>3. ASSUME Occurs(e, s)
      PROVE  Occurs(e, s \o t)
  BY <1>1, <1>3 DEF Occurs
<1>4. ASSUME Occurs(e, t)
      PROVE  Occurs(e, s \o t)
  <2>1. PICK i \in 1..Len(t) : t[i] = e
    BY <1>4 DEF Occurs
  <2>2. Len(s) + i \in 1..(Len(s) + Len(t))
    BY <1>1
  <2> QED
    BY <1>1, <2>1, <2>2 DEF Occurs
<1> QED
  BY <1>2, <1>3, <1>4

LEMMA FlattenIs ==
    ASSUME NEW X, NEW seqs \in Seq(Seq(X))
    PROVE  /\ FlattenSeq(seqs) \in Seq(X)
           /\ \A e : Occurs(e, FlattenSeq(seqs)) <=> \E j \in 1..Len(seqs) : Occurs(e, seqs[j])
<1> DEFINE N == Len(seqs)
<1>1. N \in Nat /\ \A j \in 1..N : seqs[j] \in Seq(X)
  BY LenProperties, ElementOfSeq
<1>2. CASE N = 0
  <2>1. seqs = <<>>
    BY <1>2, EmptySeq
  <2>2. FlattenSeq(seqs) = <<>>
    BY <1>2, <2>1 DEF FlattenSeq
  <2>3. Len(<<>>) = 0 /\ <<>> \in Seq(X)
    BY EmptySeq
  <2> QED
    BY <1>2, <2>2, <2>3 DEF Occurs
<1>3. CASE N # 0
  <2> DEFINE f == CHOOSE f : Flattened(seqs, N, f)
  <2>1. FlattenSeq(seqs) = f[N]
    BY <1>3 DEF FlattenSeq, Flattened
  <2>2. Flattened(seqs, N, f)
    BY <1>1, FlattenedExists
  <2> HIDE DEF f
  <2>3. \A i \in 1..N : f[i] = IF i = 1 THEN seqs[i] ELSE f[i - 1] \o seqs[i]
    BY <2>2 DEF Flattened
  <2> DEFINE Good(i) == /\ f[i] \in Seq(X)
                        /\ \A e : Occurs(e, f[i]) <=> \E j \in 1..i : Occurs(e, seqs[j])
             wrong == {i \in 1..N : ~ Good(i)}
  <2>4. ASSUME wrong # {}
        PROVE  FALSE
    <3>0. wrong \subseteq Nat
      <4> HIDE DEF Good
      <4> QED
        BY <1>1
    <3>1. PICK i \in wrong : \A l \in wrong : i <= l
      <4> HIDE DEF wrong
      <4> QED
        BY <3>0, <2>4, LeastExists
    <3>2. CASE i = 1
      <4>1. f[1] = seqs[1] /\ 1 \in 1..N
        BY <1>1, <1>3, <2>3
      <4>2. 1..1 = {1}
        OBVIOUS
      <4>3. Good(1)
        BY <1>1, <4>1, <4>2
      <4> QED
        BY <3>1, <3>2, <4>3
    <3>3. CASE i # 1
      <4>1. i - 1 \in 1..N /\ Good(i - 1)
        <5>1. i - 1 \in 1..N /\ ~ (i <= i - 1)
          BY <1>1, <3>1, <3>3
        <5> HIDE DEF Good
        <5> QED
          BY <3>1, <5>1
      <4>2. f[i] = f[i - 1] \o seqs[i]
        BY <2>3, <3>1, <3>3
      <4>3. f[i] \in Seq(X)
        BY <1>1, <3>1, <4>1, <4>2, ConcatProperties
      <4>4. \A e : Occurs(e, f[i]) <=> Occurs(e, f[i - 1]) \/ Occurs(e, seqs[i])
        BY <1>1, <3>1, <4>1, <4>2, ConcatOccurs
      <4>5. 1..i = 1..(i - 1) \cup {i}
        BY <3>1, <3>3, <1>1
      <4>6. Good(i)
        BY <4>1, <4>3, <4>4, <4>5
      <4> QED
        BY <3>1, <4>6
    <3> QED
      BY <3>2, <3>3
  <2>5. N \in 1..N
    BY <1>1, <1>3
  <2>6. Good(N)
    <3> HIDE DEF Good
    <3> QED
      BY <2>4, <2>5
  <2> QED
    BY <2>1, <2>6
<1> QED
  BY <1>1, <1>2, <1>3

(***************************************************************************)
(* The plan.                                                               *)
(***************************************************************************)
LEMMA FunctionIsSeq ==
    ASSUME NEW S, NEW n \in Nat, NEW f \in [1..n -> S]
    PROVE  f \in Seq(S) /\ Len(f) = n
OBVIOUS

LEMMA HoldersAre ==
    ASSUME TypeOK, NEW k \in Kinds
    PROVE  /\ Holders(k) \in Seq(Slugs) /\ Len(Holders(k)) \in Nat
           /\ \A i \in 1..Len(Holders(k)) : Holders(k)[i] \in DOMAIN known /\ Holders(k)[i] \in Slugs
           /\ k \in HeldKinds <=> Len(Holders(k)) # 0
           /\ k \in HeldKinds <=> Holders(k) # <<>>
<1> DEFINE S == {s \in DOMAIN known : Serves(s, k)}
<1>1. S \subseteq Slugs /\ S \in SUBSET Nat
  BY DEF TypeOK
<1>2. IsFiniteSet(S) /\ Cardinality(S) \in Nat
  BY <1>1, FS_Subset, FS_CardinalityType
<1>3. Cardinality(S) = 0 <=> S = {}
  BY <1>2, FS_EmptySet
<1>4. Holders(k) \in [1..Cardinality(S) -> S]
  BY <1>1, <1>2, OrderedIs DEF Holders
<1>5. Holders(k) \in Seq(Slugs) /\ Len(Holders(k)) = Cardinality(S)
  <2>1. Holders(k) \in [1..Cardinality(S) -> Slugs]
    BY <1>1, <1>4
  <2> HIDE DEF S
  <2> QED
    BY <1>2, <2>1, FunctionIsSeq
<1>6. Holders(k) = <<>> <=> Len(Holders(k)) = 0
  BY <1>5, EmptySeq
<1>7. k \in HeldKinds <=> S # {}
  BY DEF HeldKinds
<1> QED
  BY <1>1, <1>2, <1>3, <1>4, <1>5, <1>6, <1>7

LEMMA KindsFinite == IsFiniteSet(Kinds)
<1>1. Len(KindOrder) \in Nat /\ DOMAIN KindOrder = 1..Len(KindOrder)
  BY LenProperties
<1>2. IsFiniteSet(1..Len(KindOrder))
  BY <1>1, FS_Interval
<1> DEFINE f == [i \in 1..Len(KindOrder) |-> KindOrder[i]]
<1>3. f \in Surjection(1..Len(KindOrder), Kinds)
  BY <1>1 DEF Surjection, Kinds
<1> QED
  BY <1>2, <1>3, FS_Surjection

\* Every kind that is held has one probe or more.
LEMMA ShareIs ==
    ASSUME TypeOK, HeldKinds # {}
    PROVE  PlanShare \in Nat \ {0}
<1>1. IsFiniteSet(HeldKinds)
  BY KindsFinite, FS_Subset DEF HeldKinds
<1>2. Cardinality(HeldKinds) \in Nat \ {0}
  BY <1>1, FS_CardinalityType, FS_EmptySet
<1>3. BUDGET - spent \in Int
  BY DEF TypeOK
<1>4. (BUDGET - spent) \div Cardinality(HeldKinds) \in Int
  BY <1>2, <1>3
<1> QED
  BY <1>4 DEF PlanShare, Share

LEMMA TakeIs ==
    ASSUME NEW slugs \in Seq(Slugs), Len(slugs) # 0, NEW share \in Nat \ {0}
    PROVE  Take(share, slugs) \in 1..Len(slugs) /\ Len(slugs) \in Nat \ {0}
BY LenProperties DEF Take

\* The place of the i-th pick after the cursor is one of the line's.
LEMMA PlaceIs ==
    ASSUME NEW n \in Nat \ {0}, NEW c \in Nat, NEW i \in 1..n
    PROVE  ((c + i - 1) % n) + 1 \in 1..n
<1>1. c + i - 1 \in Nat
  OBVIOUS
<1>2. (c + i - 1) % n \in 0..(n - 1)
  BY <1>1
<1> QED
  BY <1>2

PickedOf(e, k, slugs, cursor, share) ==
    \E i \in 1..Take(share, slugs) : e = <<k, slugs[((cursor + i - 1) % Len(slugs)) + 1]>>

LEMMA PicksOfAre ==
    ASSUME NEW k \in Kinds, NEW slugs \in Seq(Slugs), Len(slugs) # 0,
           NEW cursor \in Nat, NEW share \in Nat \ {0}
    PROVE  /\ PicksOf(k, slugs, cursor, share) \in Seq(Kinds \X Slugs)
           /\ \A e : Occurs(e, PicksOf(k, slugs, cursor, share)) <=>
                      PickedOf(e, k, slugs, cursor, share)
<1> DEFINE take == Take(share, slugs)
           pick(i) == <<k, slugs[((cursor + i - 1) % Len(slugs)) + 1]>>
<1>1. take \in 1..Len(slugs) /\ Len(slugs) \in Nat \ {0}
  BY TakeIs
<1>2. \A i \in 1..take : pick(i) \in Kinds \X Slugs
  <2> TAKE i \in 1..take
  <2>1. ((cursor + i - 1) % Len(slugs)) + 1 \in 1..Len(slugs)
    BY <1>1, PlaceIs
  <2> QED
    BY <2>1, ElementOfSeq
<1>3. PicksOf(k, slugs, cursor, share) = [i \in 1..take |-> pick(i)]
  BY DEF PicksOf
<1> HIDE DEF pick, take
<1>4. [i \in 1..take |-> pick(i)] \in Seq(Kinds \X Slugs) /\ Len([i \in 1..take |-> pick(i)]) = take
  BY <1>1, <1>2
<1>5. \A e : Occurs(e, [i \in 1..take |-> pick(i)]) <=> \E i \in 1..take : e = pick(i)
  BY <1>4 DEF Occurs
<1> QED
  BY <1>3, <1>4, <1>5 DEF pick, take, PickedOf

LEMMA PicksAre ==
    ASSUME TypeOK
    PROVE  /\ Picks \in Seq(Kinds \X Slugs)
           /\ \A e : Occurs(e, Picks) <=>
                      \E k \in HeldKinds : PickedOf(e, k, Holders(k), cursors[k], PlanShare)
<1> DEFINE seqs == [i \in 1..Len(KindOrder) |-> PicksOfNext(KindOrder[i])]
<1>1. \A k \in Kinds :
         /\ PicksOfNext(k) \in Seq(Kinds \X Slugs)
         /\ \A e : Occurs(e, PicksOfNext(k)) <=>
                     k \in HeldKinds /\ PickedOf(e, k, Holders(k), cursors[k], PlanShare)
  <2> TAKE k \in Kinds
  <2>1. CASE k \in HeldKinds
    <3>1. Holders(k) \in Seq(Slugs) /\ Len(Holders(k)) # 0
      BY <2>1, HoldersAre
    <3>2. PlanShare \in Nat \ {0}
      BY <2>1, ShareIs
    <3>3. cursors[k] \in Nat
      BY DEF TypeOK
    <3>4. PicksOfNext(k) = PicksOf(k, Holders(k), cursors[k], PlanShare)
      BY <2>1 DEF PicksOfNext
    <3>5. /\ PicksOf(k, Holders(k), cursors[k], PlanShare) \in Seq(Kinds \X Slugs)
          /\ \A e : Occurs(e, PicksOf(k, Holders(k), cursors[k], PlanShare)) <=>
                      PickedOf(e, k, Holders(k), cursors[k], PlanShare)
      BY <3>1, <3>2, <3>3, PicksOfAre
    <3> QED
      BY <2>1, <3>4, <3>5
  <2>2. CASE k \notin HeldKinds
    <3>1. PicksOfNext(k) = <<>> /\ Len(<<>>) = 0 /\ <<>> \in Seq(Kinds \X Slugs)
      BY <2>2, EmptySeq DEF PicksOfNext
    <3>2. \A e : ~ Occurs(e, <<>>)
      BY <3>1 DEF Occurs
    <3> QED
      BY <2>2, <3>1, <3>2
  <2> QED
    BY <2>1, <2>2
<1>2. Len(KindOrder) \in Nat /\ \A i \in 1..Len(KindOrder) : KindOrder[i] \in Kinds
  BY LenProperties DEF Kinds
<1>3. \A k \in Kinds : \E i \in 1..Len(KindOrder) : KindOrder[i] = k
  BY DEF Kinds
<1>4. /\ seqs \in Seq(Seq(Kinds \X Slugs)) /\ Len(seqs) = Len(KindOrder)
      /\ \A i \in 1..Len(KindOrder) : seqs[i] = PicksOfNext(KindOrder[i])
  BY <1>1, <1>2
<1>5. Picks = FlattenSeq(seqs)
  BY DEF Picks
<1> HIDE DEF seqs
<1>6. /\ Picks \in Seq(Kinds \X Slugs)
      /\ \A e : Occurs(e, Picks) <=> \E i \in 1..Len(seqs) : Occurs(e, seqs[i])
  BY <1>4, <1>5, FlattenIs
<1>7. \A e : Occurs(e, Picks) <=>
                \E k \in Kinds : k \in HeldKinds /\ PickedOf(e, k, Holders(k), cursors[k], PlanShare)
  BY <1>1, <1>2, <1>3, <1>4, <1>6
<1>8. HeldKinds \subseteq Kinds
  BY DEF HeldKinds
<1> QED
  BY <1>6, <1>7, <1>8

\* Every pick of a plan is of a record the round holds.
LEMMA PicksOfKnown ==
    ASSUME TypeOK, NEW i \in 1..Len(Picks)
    PROVE  Picks[i][2] \in DOMAIN known
<1>1. Occurs(Picks[i], Picks)
  BY DEF Occurs
<1>2. PICK k \in HeldKinds : PickedOf(Picks[i], k, Holders(k), cursors[k], PlanShare)
  BY <1>1, PicksAre
<1>3. PICK j \in 1..Take(PlanShare, Holders(k)) :
          Picks[i] = <<k, Holders(k)[((cursors[k] + j - 1) % Len(Holders(k))) + 1]>>
  BY <1>2 DEF PickedOf
<1>4. k \in Kinds /\ cursors[k] \in Nat
  BY DEF HeldKinds, TypeOK
<1>5. Holders(k) \in Seq(Slugs) /\ Len(Holders(k)) # 0
  BY <1>4, HoldersAre
<1>6. j \in 1..Len(Holders(k)) /\ Len(Holders(k)) \in Nat \ {0}
  <2>1. Len(Holders(k)) \in Nat \ {0}
    BY <1>5
  <2>2. Take(PlanShare, Holders(k)) \in 1..Len(Holders(k))
    BY <1>5, ShareIs, TakeIs
  <2>3. PICK t \in 1..Len(Holders(k)) : t = Take(PlanShare, Holders(k))
    BY <2>2
  <2>4. j \in 1..t
    BY <2>3
  <2> QED
    BY <2>1, <2>4
<1>7. ((cursors[k] + j - 1) % Len(Holders(k))) + 1 \in 1..Len(Holders(k))
  BY <1>4, <1>6, PlaceIs
<1>8. PICK place \in 1..Len(Holders(k)) : place = ((cursors[k] + j - 1) % Len(Holders(k))) + 1
  BY <1>7
<1>9. Picks[i] = <<k, Holders(k)[place]>>
  BY <1>3, <1>8, Zenon
<1>10. Holders(k)[place] \in DOMAIN known
  BY <1>4, HoldersAre
<1> QED
  BY <1>9, <1>10

LEMMA CursorsAre ==
    ASSUME TypeOK
    PROVE  Cursors \in [Kinds -> Nat]
<1> SUFFICES ASSUME NEW k \in Kinds
             PROVE  Cursors[k] \in Nat
  BY DEF Cursors
<1>1. cursors[k] \in Nat
  BY DEF TypeOK
<1>2. CASE k \in HeldKinds
  <2>1. Holders(k) \in Seq(Slugs) /\ Len(Holders(k)) # 0
    BY <1>2, HoldersAre
  <2>2. Take(PlanShare, Holders(k)) \in Nat /\ Len(Holders(k)) \in Nat \ {0}
    BY <1>2, <2>1, ShareIs, TakeIs
  <2>3. cursors[k] % Len(Holders(k)) \in Nat
    BY <1>1, <2>2
  <2> QED
    BY <1>2, <2>2, <2>3 DEF Cursors
<1> QED
  BY <1>1, <1>2 DEF Cursors

(***************************************************************************)
(* The rounds.                                                             *)
(***************************************************************************)
LEMMA SlotsAre ==
    ASSUME NEW n \in Nat, NEW d \in Slots(n)
    PROVE  d \in Nat
<1>1. PICK late \in 0..n : d = n - late + late * SLOW
  BY DEF Slots
<1>2. late * SLOW \in Nat /\ n - late \in Nat
  OBVIOUS
<1> QED
  BY <1>1, <1>2

\* A round that ends, and the pod's end, leave the next one nothing to do.
LEMMA NextRoundIs ==
    ASSUME NextRound
    PROVE  pc' = "fixed" /\ spent' \in Nat /\ visited' = {} /\ todo' = <<>>
BY DEF NextRound

LEMMA InitIInv == Init => IInv
<1> SUFFICES ASSUME Init PROVE IInv
  OBVIOUS
<1>1. DOMAIN known = {} /\ results = {}
  BY DEF Init
<1>2. todo = <<>> /\ <<>> \in Seq(Kinds \X Slugs) /\ Len(<<>>) = 0
  BY EmptySeq DEF Init
<1>3. cursors \in [Kinds -> Nat]
  BY DEF Init
<1>4. TypeOK
  BY <1>1, <1>2, <1>3 DEF Init, TypeOK
<1> QED
  BY <1>1, <1>2, <1>4 DEF Init, IInv, RowsOfKnownEndpoints

LEMMA ListedIs ==
    ASSUME IInv, pc = "list", NEW slugs \in SUBSET Slugs, Listed(slugs)
    PROVE  /\ DOMAIN known' = slugs
           /\ \A s \in slugs : known'[s] \in Records /\ known'[s].at <= clock
           /\ results' \subseteq Slugs \X Kinds
           /\ \A row \in results' : row[1] \in slugs
<1>1. TypeOK
  BY DEF IInv
<1>2. Unlisted \in Records
  BY DEF Unlisted, Records, Types
<1>3. \A s \in slugs : known'[s] \in Records /\ known'[s].at <= clock
  BY <1>1, <1>2 DEF Listed, TypeOK, Unlisted
<1>4. DOMAIN known' = slugs
  BY DEF Listed
<1>5. results' \subseteq results /\ \A row \in results' : row[1] \in slugs
  BY DEF Listed
<1> QED
  BY <1>1, <1>3, <1>4, <1>5 DEF TypeOK

\* A record read by now was read by any later clock.
LEMMA AgesHold ==
    ASSUME IInv, clock' \in Nat, clock' >= clock
    PROVE  \A s \in DOMAIN known : known[s] \in Records /\ known[s].at <= clock'
  BY DEF IInv, TypeOK, Records

LEMMA NextIInv == IInv /\ [Next]_vars => IInv'
<1> SUFFICES ASSUME IInv, [Next]_vars
             PROVE  IInv'
  OBVIOUS
<1> USE DEF IInv
<1>1. CASE FixedChecks
  <2>1. clock' \in Nat /\ clock' >= clock
    <3>1. PICK d \in Slots(3) : clock' = clock + d
      BY <1>1 DEF FixedChecks
    <3> QED
      BY <3>1, SlotsAre DEF TypeOK
  <2> QED
    BY <1>1, <2>1, AgesHold DEF FixedChecks, TypeOK, RowsOfKnownEndpoints
<1>2. CASE List
  <2>1. clock' \in Nat /\ clock' >= clock
    <3>1. clock' = clock \/ \E d \in Slots(1) : clock' = clock + d
      BY <1>2 DEF List
    <3> QED
      BY <3>1, SlotsAre DEF TypeOK
  <2>2. pc' = "refresh" /\ visited' = {} /\ todo' = <<>> /\ UNCHANGED <<cursors, finished>>
    BY <1>2 DEF List
  <2>3. spent' \in Nat
    BY <1>2 DEF List, TypeOK
  <2>4. CASE UNCHANGED <<known, results, listedAt>>
    BY <2>1, <2>2, <2>3, <2>4, AgesHold DEF TypeOK, RowsOfKnownEndpoints
  <2>5. ASSUME NEW slugs \in SUBSET Slugs, Listed(slugs)
        PROVE  IInv'
    <3>1. listedAt' \in 0..clock'
      BY <2>1, <2>5 DEF Listed
    <3>2. todo' \in Seq(Kinds \X Slugs) /\ Len(todo') = 0
      BY <2>2, EmptySeq
    <3>3. /\ DOMAIN known' = slugs
          /\ \A s \in slugs : known'[s] \in Records /\ known'[s].at <= clock
          /\ results' \subseteq Slugs \X Kinds /\ \A row \in results' : row[1] \in slugs
      BY <1>2, <2>5, ListedIs DEF List
    <3>4. cursors' \in [Kinds -> Nat] /\ finished' \in 0..clock'
      BY <2>1, <2>2 DEF TypeOK
    <3>6. \A s \in slugs : known'[s].at <= clock'
      BY <2>1, <3>3 DEF TypeOK, Records
    <3>5. TypeOK'
      BY <3>6, <2>1, <2>2, <2>3, <3>1, <3>2, <3>3, <3>4 DEF TypeOK
    <3> QED
      BY <2>2, <3>2, <3>3, <3>5 DEF RowsOfKnownEndpoints
  <2> QED
    BY <1>2, <2>4, <2>5 DEF List, EndpointSlugs
<1>3. CASE Refresh
  <2>1. PICK s \in Refreshes, requests \in 1..2 :
          /\ \E d \in Slots(requests) : clock' = clock + d
          /\ \E surfaces \in RecordSurfaces, type \in Types, at \in {known[s].at, clock'} :
               known' = [known EXCEPT ![s] = [surfaces |-> surfaces, type |-> type, at |-> at]]
          /\ visited' = visited \cup {s}
          /\ spent' = spent + requests
    BY <1>3 DEF Refresh
  <2>2. s \in DOMAIN known /\ known[s] \in Records
    BY DEF Refreshes, Oldest, TypeOK
  <2>3. clock' \in Nat /\ clock' >= clock
    <3>1. PICK d \in Slots(requests) : clock' = clock + d
      BY <2>1
    <3>2. requests \in Nat
      OBVIOUS
    <3>3. d \in Nat
      BY <3>2, SlotsAre
    <3> QED
      BY <3>1, <3>3 DEF TypeOK
  <2>4. PICK surfaces \in SUBSET Kinds, type \in Types, at \in Nat :
          /\ at <= clock'
          /\ known' = [known EXCEPT ![s] = [surfaces |-> surfaces, type |-> type, at |-> at]]
    <3>1. known[s].at \in Nat /\ known[s].at <= clock' /\ clock' \in Nat /\ clock' <= clock'
      BY <2>2, <2>3, AgesHold DEF Records
    <3> QED
      BY <2>1, <3>1 DEF RecordSurfaces
  <2>5. PICK rec \in Records : rec.at <= clock' /\ known' = [known EXCEPT ![s] = rec]
    <3>1. [surfaces |-> surfaces, type |-> type, at |-> at] \in Records
      BY <2>4 DEF Records
    <3> QED
      BY <2>4, <3>1
  <2>6. /\ DOMAIN known' = DOMAIN known
        /\ \A q \in DOMAIN known' : known'[q] \in Records /\ known'[q].at <= clock'
    <3>1. DOMAIN known' = DOMAIN known
      BY <2>5
    <3>2. ASSUME NEW q \in DOMAIN known
          PROVE  known'[q] \in Records /\ known'[q].at <= clock'
      <4>1. known[q] \in Records /\ known[q].at <= clock'
        BY <2>3, AgesHold
      <4> QED
        BY <2>5, <4>1
    <3> QED
      BY <3>1, <3>2
  <2>7. UNCHANGED <<pc, listedAt, cursors, results, todo, finished>> /\ pc = "refresh"
    BY <1>3 DEF Refresh
  <2>8. visited' \subseteq DOMAIN known' /\ spent' \in Nat
    <3>1. visited \subseteq DOMAIN known /\ spent \in Nat
      BY DEF TypeOK
    <3>2. visited' \subseteq DOMAIN known
      BY <2>1, <2>2, <3>1
    <3>3. spent' \in Nat
      BY <2>1, <3>1
    <3> QED
      BY <2>6, <3>2, <3>3
  <2> QED
    BY <2>3, <2>6, <2>7, <2>8 DEF TypeOK, RowsOfKnownEndpoints
<1>4. CASE Plan
  <2>1. /\ todo' = Picks /\ cursors' = Cursors /\ pc' = "probe"
        /\ UNCHANGED <<clock, spent, visited, known, listedAt, results, finished>>
    BY <1>4 DEF Plan
  <2>2. todo' \in Seq(Kinds \X Slugs) /\ cursors' \in [Kinds -> Nat]
    BY <2>1, PicksAre, CursorsAre
  <2>3. \A i \in 1..Len(todo') : todo'[i][2] \in DOMAIN known'
    BY <2>1, PicksOfKnown
  <2> QED
    BY <2>1, <2>2, <2>3 DEF TypeOK, RowsOfKnownEndpoints
<1>5. CASE Probe
  <2>1. /\ todo # <<>> /\ todo' = Tail(todo) /\ pc' = "probe"
        /\ results' = results \cup {<<Head(todo)[2], Head(todo)[1]>>}
        /\ UNCHANGED <<spent, visited, known, listedAt, cursors, finished>>
    BY <1>5 DEF Probe, Row
  <2>2. clock' \in Nat /\ clock' >= clock
    <3>1. clock' = clock \/ \E d \in Slots(1) : clock' = clock + d
      BY <1>5 DEF Probe
    <3> QED
      BY <3>1, SlotsAre DEF TypeOK
  <2>3. todo \in Seq(Kinds \X Slugs) /\ Len(todo) \in Nat \ {0}
    BY <2>1, EmptySeq DEF TypeOK
  <2>4. /\ Head(todo) = todo[1] /\ Head(todo) \in Kinds \X Slugs
        /\ todo' \in Seq(Kinds \X Slugs) /\ Len(todo') = Len(todo) - 1
        /\ \A i \in 1..Len(todo') : todo'[i] = todo[i + 1]
    BY <2>1, <2>3, HeadTailProperties
  <2>5. Head(todo)[2] \in DOMAIN known
    BY <2>3, <2>4 DEF RowsOfKnownEndpoints
  <2>6. ASSUME NEW i \in 1..Len(todo')
        PROVE  todo'[i][2] \in DOMAIN known
    <3>1. i + 1 \in 1..Len(todo) /\ todo'[i] = todo[i + 1]
      BY <2>3, <2>4
    <3>2. PICK j \in 1..Len(todo) : j = i + 1
      BY <3>1
    <3>3. todo[j][2] \in DOMAIN known
      BY DEF RowsOfKnownEndpoints
    <3> QED
      BY <3>1, <3>2, <3>3
  <2>7. results' \subseteq Slugs \X Kinds /\ \A row \in results' : row[1] \in DOMAIN known
    BY <2>1, <2>4, <2>5 DEF TypeOK, RowsOfKnownEndpoints
  <2> QED
    <3>1. \A s \in DOMAIN known' : known'[s] \in Records /\ known'[s].at <= clock'
      BY <2>1, <2>2, AgesHold
    <3>2. TypeOK'
      BY <2>1, <2>2, <2>4, <2>7, <3>1 DEF TypeOK
    <3> QED
      BY <2>1, <2>6, <2>7, <3>2 DEF RowsOfKnownEndpoints
<1>6. CASE EndRound
  <2>1. pc' = "fixed" /\ spent' \in Nat /\ visited' = {} /\ todo' = <<>>
    BY <1>6, NextRoundIs DEF EndRound
  <2>2. todo' \in Seq(Kinds \X Slugs) /\ Len(todo') = 0
    BY <2>1, EmptySeq
  <2> QED
    BY <1>6, <2>1, <2>2 DEF EndRound, TypeOK, RowsOfKnownEndpoints
<1>7. CASE Abort
  <2>1. pc' = "fixed" /\ spent' \in Nat /\ visited' = {} /\ todo' = <<>>
    BY <1>7, NextRoundIs DEF Abort
  <2>2. todo' \in Seq(Kinds \X Slugs) /\ Len(todo') = 0
    BY <2>1, EmptySeq
  <2>3. clock' \in Nat /\ clock' >= clock
    <3>1. BUDGET \div 6 \in Nat /\ clock' = clock + (BUDGET \div 6)
      BY <1>7 DEF Abort
    <3> QED
      BY <3>1 DEF TypeOK
  <2>4. UNCHANGED <<known, listedAt, cursors, results, finished>>
    BY <1>7 DEF Abort
  <2> QED
    BY <2>1, <2>2, <2>3, <2>4, AgesHold DEF TypeOK, RowsOfKnownEndpoints
<1>8. CASE Restart
  <2>1. pc' = "fixed" /\ spent' \in Nat /\ visited' = {} /\ todo' = <<>>
    BY <1>8, NextRoundIs DEF Restart
  <2>2. todo' \in Seq(Kinds \X Slugs) /\ Len(todo') = 0
    BY <2>1, EmptySeq
  <2>3. DOMAIN known' = {} /\ results' = {} /\ cursors' \in [Kinds -> Nat]
    BY <1>8 DEF Restart
  <2> QED
    BY <1>8, <2>1, <2>2, <2>3 DEF Restart, TypeOK, RowsOfKnownEndpoints
<1>9. CASE UNCHANGED vars
  BY <1>9 DEF vars, TypeOK, RowsOfKnownEndpoints
<1> QED
  BY <1>1, <1>2, <1>3, <1>4, <1>5, <1>6, <1>7, <1>8, <1>9 DEF Next

LEMMA Invariance == Spec => []IInv
<1>1. Init => IInv
  BY InitIInv
<1>2. IInv /\ [Next]_vars => IInv'
  BY NextIInv
<1> QED
  BY <1>1, <1>2, PTL DEF Spec

(***************************************************************************)
(* The cursor's arithmetic.                                                *)
(***************************************************************************)
LEMMA Multiple ==
    ASSUME NEW n \in Nat \ {0}, NEW d \in Int, n * d < n, -n < n * d
    PROVE  d = 0
<1>1. CASE d >= 1
  <2>1. d - 1 \in Nat /\ n * (d - 1) \in Nat
    BY <1>1
  <2>2. n * d = n * (d - 1) + n
    OBVIOUS
  <2> QED
    BY <2>1, <2>2
<1>2. CASE d <= -1
  <2>1. -1 - d \in Nat /\ n * (-1 - d) \in Nat
    BY <1>2
  <2>2. n * d = -n - n * (-1 - d)
    OBVIOUS
  <2> QED
    BY <2>1, <2>2
<1> QED
  BY <1>1, <1>2

LEMMA RemainderIs ==
    ASSUME NEW n \in Nat \ {0}, NEW q \in Int, NEW r \in 0..(n - 1), NEW x \in Int, x = n * q + r
    PROVE  x % n = r
<1> DEFINE p == x \div n
           m == x % n
<1>1. p \in Int /\ m \in 0..(n - 1) /\ x = n * p + m
  OBVIOUS
<1> HIDE DEF p, m
<1>2. n * (p - q) = r - m
  BY <1>1
<1>3. p - q = 0
  BY <1>1, <1>2, Multiple
<1>4. m = r
  BY <1>1, <1>3
<1> QED
  BY <1>4 DEF m

\* Steps on from a cursor: around the line, once at most.
LEMMA StepsOn ==
    ASSUME NEW n \in Nat \ {0}, NEW c \in Nat, NEW m \in 0..n
    PROVE  /\ c % n \in 0..(n - 1)
           /\ (c + m) % n = IF (c % n) + m < n THEN (c % n) + m ELSE (c % n) + m - n
           /\ ((c % n) + m) % n = IF (c % n) + m < n THEN (c % n) + m ELSE (c % n) + m - n
<1> DEFINE q == c \div n
           r == c % n
<1>1. q \in Int /\ r \in 0..(n - 1) /\ c = n * q + r
  OBVIOUS
<1>0. c % n = r
  OBVIOUS
<1> HIDE DEF q, r
<1>2. n * (q + 1) = n * q + n /\ n * q \in Int /\ n * 0 = 0 /\ n * 1 = n
  BY <1>1
<1>3. ASSUME r + m < n
      PROVE  /\ (c + m) % n = IF r + m < n THEN r + m ELSE r + m - n
             /\ (r + m) % n = IF r + m < n THEN r + m ELSE r + m - n
  <2> DEFINE rest == r + m
  <2>1. rest \in 0..(n - 1) /\ c + m \in Int
    BY <1>1, <1>3
  <2>2. c + m = n * q + rest /\ rest = n * 0 + rest
    BY <1>1, <1>2
  <2>3. rest % n = (r + m) % n
    OBVIOUS
  <2> HIDE DEF rest
  <2>4. (c + m) % n = rest
    BY <1>1, <2>1, <2>2, RemainderIs
  <2>5. rest % n = rest
    BY <2>1, <2>2, RemainderIs
  <2> QED
    BY <1>3, <2>3, <2>4, <2>5 DEF rest
<1>4. ASSUME ~ (r + m < n)
      PROVE  /\ (c + m) % n = IF r + m < n THEN r + m ELSE r + m - n
             /\ (r + m) % n = IF r + m < n THEN r + m ELSE r + m - n
  <2> DEFINE q1 == q + 1
             rest == r + m - n
             sum == r + m
             total == c + m
             one == 1
  <2>1. q1 \in Int /\ rest \in 0..(n - 1) /\ total \in Int /\ sum \in Int
    BY <1>1, <1>4
  <2>2. total = n * q1 + rest
    BY <1>1, <1>2
  <2>3. sum = n * one + rest /\ one \in Int
    BY <1>1, <1>2
  <2>4. sum % n = (r + m) % n /\ total % n = (c + m) % n
    OBVIOUS
  <2> HIDE DEF q1, rest, sum, one, total
  <2>5. total % n = rest
    BY <2>1, <2>2, RemainderIs
  <2>6. sum % n = rest
    BY <2>1, <2>3, RemainderIs
  <2> QED
    BY <1>4, <2>4, <2>5, <2>6, Zenon DEF rest
<1> QED
  BY <1>0, <1>1, <1>3, <1>4, Zenon

LEMMA BeforeIs ==
    ASSUME NEW n \in Nat \ {0}, NEW c \in Nat, NEW place \in 1..n
    PROVE  Before(place, c, n) \in 0..(n - 1)
<1>1. c % n \in 0..(n - 1)
  BY StepsOn
<1> QED
  BY <1>1 DEF Before

\* A plan that takes t holders and passes this place by brings the cursor t
\* places nearer to it.
LEMMA ComesNearer ==
    ASSUME NEW n \in Nat \ {0}, NEW c \in Nat, NEW t \in 1..n, NEW place \in 1..n,
           \A i \in 1..t : ((c + i - 1) % n) + 1 # place
    PROVE  Before(place, (c % n) + t, n) = Before(place, c, n) - t
<1> DEFINE start == c % n
           b == Before(place, c, n)
<1>1. start \in 0..(n - 1) /\ b \in 0..(n - 1)
  BY StepsOn, BeforeIs
<1>2. b = IF place > start THEN place - 1 - start ELSE n + place - 1 - start
  BY DEF Before
<1>0. c % n = start
  OBVIOUS
<1> HIDE DEF start, b
<1>3. (c + b) % n = IF start + b < n THEN start + b ELSE start + b - n
  <2>1. b \in 0..n
    BY <1>1
  <2>2. (c + b) % n = IF (c % n) + b < n THEN (c % n) + b ELSE (c % n) + b - n
    BY <2>1, StepsOn
  <2> QED
    BY <1>0, <2>2
<1>4. (start + t) % n = IF start + t < n THEN start + t ELSE start + t - n
  <2>1. t \in 0..n
    OBVIOUS
  <2>2. ((c % n) + t) % n = IF (c % n) + t < n THEN (c % n) + t ELSE (c % n) + t - n
    BY <2>1, StepsOn
  <2> QED
    BY <1>0, <2>2
<1>5. Before(place, start + t, n) = LET s == (start + t) % n
                                    IN IF place > s THEN place - 1 - s ELSE n + place - 1 - s
  BY DEF Before
<1>6. ((c + b) % n) + 1 = place
  BY <1>1, <1>2, <1>3
<1>7. b >= t
  <2> SUFFICES ASSUME b < t
               PROVE  FALSE
    BY <1>1
  <2>1. b + 1 \in 1..t /\ c + (b + 1) - 1 = c + b
    BY <1>1
  <2>2. ((c + (b + 1) - 1) % n) + 1 # place
    BY <2>1
  <2> QED
    BY <1>6, <2>1, <2>2
<1>8. Before(place, start + t, n) = b - t
  BY <1>1, <1>2, <1>4, <1>5, <1>7, SMTT(30)
<1> QED
  BY <1>8 DEF start, b

(***************************************************************************)
(* The turns.                                                              *)
(***************************************************************************)
LEMMA InitTurnsInv == InitTurns => TurnsInv
<1> SUFFICES ASSUME InitTurns PROVE TurnsInv
  OBVIOUS
<1>1. <<>> \in Seq(Slugs)
  BY EmptySeq
<1>2. TurnsOK
  BY <1>1 DEF InitTurns, TurnsOK
<1>3. pc = "fixed" /\ \A p \in Pairs : missed[p] = 0
  BY DEF InitTurns, Init
<1> QED
  BY <1>2, <1>3 DEF TurnsInv

\* What a plan does to the line of a kind that is held.
LEMMA PlanOfKind ==
    ASSUME IInv, SeePlan, NEW k \in HeldKinds
    PROVE  LET n == Len(Holders(k))
               t == Take(PlanShare, Holders(k))
           IN /\ k \in Kinds /\ held'[k] = Holders(k)
              /\ n \in Nat \ {0} /\ t \in 1..n /\ cursors[k] \in Nat
              /\ cursors'[k] = (cursors[k] % n) + t
              /\ \A i \in 1..t :
                    Occurs(<<k, Holders(k)[((cursors[k] + i - 1) % n) + 1]>>, todo')
<1> DEFINE n == Len(Holders(k))
           t == Take(PlanShare, Holders(k))
<1>1. TypeOK /\ k \in Kinds
  BY DEF IInv, HeldKinds
<1>2. Plan /\ held' = [l \in Kinds |-> Holders(l)]
  BY DEF SeePlan
<1>3. held'[k] = Holders(k)
  BY <1>1, <1>2
<1>4. Holders(k) \in Seq(Slugs) /\ n # 0
  BY <1>1, HoldersAre
<1>5. n \in Nat \ {0} /\ t \in 1..n
  BY <1>1, <1>4, ShareIs, TakeIs
<1>6. cursors[k] \in Nat
  BY <1>1 DEF TypeOK
<1>7. cursors'[k] = (cursors[k] % n) + t
  BY <1>1, <1>2 DEF Plan, Cursors
<1>8. ASSUME NEW i \in 1..t
      PROVE  Occurs(<<k, Holders(k)[((cursors[k] + i - 1) % n) + 1]>>, todo')
  <2> DEFINE e == <<k, Holders(k)[((cursors[k] + i - 1) % n) + 1]>>
  <2>1. PickedOf(e, k, Holders(k), cursors[k], PlanShare)
    BY DEF PickedOf
  <2> HIDE DEF e
  <2>2. Occurs(e, Picks)
    BY <1>1, <2>1, PicksAre
  <2>3. todo' = Picks
    BY <1>2 DEF Plan
  <2>4. Occurs(e, todo')
    BY <2>2, <2>3
  <2> QED
    BY <2>4 DEF e
<1> QED
  BY <1>1, <1>3, <1>5, <1>6, <1>7, <1>8

LEMMA SeePlanTurns ==
    ASSUME IInv, TurnsInv, SeePlan
    PROVE  TurnsInv'
<1>1. TypeOK /\ TurnsOK
  BY DEF IInv, TurnsInv
<1>2. held' = [k \in Kinds |-> Holders(k)] /\ heard' = {}
  BY DEF SeePlan
<1>3. TurnsOK'
  <2>1. held' \in [Kinds -> Seq(Slugs)]
    BY <1>1, <1>2, HoldersAre
  <2>2. missed' \in [Pairs -> Nat]
    BY <1>1 DEF SeePlan, TurnsOK
  <2> QED
    BY <1>2, <2>1, <2>2 DEF TurnsOK
<1>4. ASSUME NEW p \in Pairs, missed'[p] # 0
      PROVE  InLine(p)'
  <2> DEFINE k == p[1]
             n == Len(Holders(k))
             t == Take(PlanShare, Holders(k))
             c == cursors[k]
  <2>1. k \in Kinds /\ p = <<k, p[2]>> /\ missed[p] \in Nat
    BY <1>1 DEF Pairs, TurnsOK
  <2>2. /\ p \notin PickedNext /\ \E i \in 1..Len(held'[k]) : held'[k][i] = p[2]
        /\ missed'[p] = IF held'[k] = held[k] THEN missed[p] + 1 ELSE 1
    BY <1>4 DEF SeePlan
  <2>3. held'[k] = Holders(k)
    BY <1>2, <2>1
  <2>4. k \in HeldKinds
    <3>1. Len(Holders(k)) \in Nat /\ (k \in HeldKinds <=> Len(Holders(k)) # 0)
      BY <1>1, <2>1, HoldersAre
    <3> QED
      BY <2>2, <2>3, <3>1
  <2>5. /\ n \in Nat \ {0} /\ t \in 1..n /\ c \in Nat /\ cursors'[k] = (c % n) + t
        /\ \A i \in 1..t : Occurs(<<k, Holders(k)[((c + i - 1) % n) + 1]>>, todo')
    BY <2>4, PlanOfKind
  <2>6. ASSUME NEW place \in 1..n, Holders(k)[place] = p[2]
        PROVE  /\ Before(place, cursors'[k], n) = Before(place, c, n) - t
               /\ Before(place, c, n) \in 0..(n - 1)
    <3>1. ASSUME NEW i \in 1..t, ((c + i - 1) % n) + 1 = place
          PROVE  FALSE
      <4>1. Occurs(p, todo')
        <5>1. Occurs(<<k, Holders(k)[((c + i - 1) % n) + 1]>>, todo')
          BY <2>5, Zenon
        <5>2. Holders(k)[((c + i - 1) % n) + 1] = p[2]
          BY <2>6, <3>1, Zenon
        <5> QED
          BY <2>1, <5>1, <5>2, Zenon
      <4> QED
        BY <2>2, <4>1 DEF Occurs, PickedNext
    <3>2. Before(place, (c % n) + t, n) = Before(place, c, n) - t
      <4>1. \A i \in 1..t : ((c + i - 1) % n) + 1 # place
        BY <3>1, Zenon
      <4>2. n \in Nat \ {0} /\ t \in 1..n /\ c \in Nat
        BY <2>5, Zenon
      <4> HIDE DEF n, t, c
      <4> QED
        BY <2>6, <4>1, <4>2, ComesNearer, ZenonT(60)
    <3>3. Before(place, c, n) \in 0..(n - 1)
      <4> HIDE DEF n, t, c
      <4> QED
        BY <2>5, BeforeIs
    <3> QED
      BY <2>5, <3>2, <3>3
  <2>7. \E place \in 1..n : /\ Holders(k)[place] = p[2]
                            /\ missed'[p] + Before(place, cursors'[k], n) < n
    <3>1. CASE held'[k] = held[k] /\ missed[p] # 0
      <4>1. PICK place \in 1..n : Holders(k)[place] = p[2] /\ missed[p] + Before(place, c, n) < n
        BY <2>3, <3>1 DEF TurnsInv, InLine
      <4>2. /\ Before(place, cursors'[k], n) = Before(place, c, n) - t
            /\ Before(place, c, n) \in 0..(n - 1)
        BY <2>6, <4>1
      <4>3. missed'[p] = missed[p] + 1
        BY <2>2, <3>1
      <4> HIDE DEF n, t, c, k
      <4>4. missed'[p] + Before(place, cursors'[k], n) < n
        BY <2>1, <2>5, <4>1, <4>2, <4>3
      <4> QED
        BY <4>1, <4>4
    <3>2. CASE ~ (held'[k] = held[k] /\ missed[p] # 0)
      <4>1. PICK place \in 1..n : Holders(k)[place] = p[2]
        BY <2>2, <2>3
      <4>2. /\ Before(place, cursors'[k], n) = Before(place, c, n) - t
            /\ Before(place, c, n) \in 0..(n - 1)
        BY <2>6, <4>1
      <4>3. missed'[p] = 1
        BY <2>1, <2>2, <3>2
      <4> HIDE DEF n, t, c, k
      <4>4. missed'[p] + Before(place, cursors'[k], n) < n
        BY <2>5, <4>2, <4>3
      <4> QED
        BY <4>1, <4>4
    <3> QED
      BY <3>1, <3>2
  <2> QED
    BY <2>3, <2>7 DEF InLine
<1>5. ASSUME NEW k \in Kinds, held'[k] # <<>>
      PROVE  k \in Pending'
  <2>1. k \in HeldKinds
    BY <1>1, <1>2, <1>5, HoldersAre
  <2>2. 1 \in 1..Take(PlanShare, Holders(k))
    BY <2>1, PlanOfKind
  <2>3. PICK s : Occurs(<<k, s>>, todo')
    BY <2>1, <2>2, PlanOfKind
  <2> QED
    BY <2>3 DEF Occurs, Pending
<1> QED
  BY <1>3, <1>4, <1>5 DEF TurnsInv

LEMMA SeeProbeTurns ==
    ASSUME IInv, TurnsInv, SeeProbe
    PROVE  TurnsInv'
<1>1. /\ pc = "probe" /\ todo # <<>> /\ todo' = Tail(todo) /\ UNCHANGED <<cursors, held, missed>>
      /\ heard' = heard \cup {Head(todo)[1]}
  BY DEF SeeProbe, Probe
<1>2. todo \in Seq(Kinds \X Slugs) /\ Len(todo) \in Nat \ {0}
  BY <1>1, EmptySeq DEF IInv, TypeOK
<1>3. /\ Head(todo) = todo[1] /\ Head(todo) \in Kinds \X Slugs
      /\ Len(todo') = Len(todo) - 1
      /\ \A i \in 1..Len(todo') : todo'[i] = todo[i + 1]
  BY <1>1, <1>2, HeadTailProperties
<1>4. TurnsOK'
  BY <1>1, <1>3 DEF TurnsInv, TurnsOK
<1>5. \A p \in Pairs : missed'[p] = 0 \/ InLine(p)'
  BY <1>1 DEF TurnsInv, InLine
<1>6. ASSUME NEW k \in Pending
      PROVE  k \in heard' \cup Pending'
  <2>1. PICK i \in 1..Len(todo) : todo[i][1] = k
    BY DEF Pending
  <2>2. CASE i = 1
    BY <1>1, <1>3, <2>1, <2>2
  <2>3. CASE i # 1
    <3>1. PICK j \in 1..Len(todo') : i = j + 1
      <4>1. i - 1 \in 1..Len(todo') /\ i = (i - 1) + 1
        BY <1>2, <1>3, <2>3
      <4> QED
        BY <4>1
    <3>2. todo'[j] = todo[i]
      BY <1>3, <3>1
    <3> QED
      BY <2>1, <3>2 DEF Pending
  <2> QED
    BY <2>2, <2>3
<1> QED
  BY <1>1, <1>4, <1>5, <1>6 DEF TurnsInv

LEMMA NextTurnsInv ==
    ASSUME IInv, TurnsInv, [NextTurns]_<<vars, seen>>
    PROVE  TurnsInv'
<1>1. CASE SeeRestart
  <2>1. /\ held' = [k \in Kinds |-> <<>>] /\ heard' = {} /\ missed' = [p \in Pairs |-> 0]
        /\ pc' = "fixed"
    BY <1>1, NextRoundIs DEF SeeRestart, Restart
  <2>2. <<>> \in Seq(Slugs)
    BY EmptySeq
  <2> QED
    BY <2>1, <2>2 DEF TurnsInv, TurnsOK
<1>2. CASE SeeNothing
  <2>1. UNCHANGED <<cursors, held, heard, missed>> /\ pc' # "probe"
    BY <1>2, NextRoundIs DEF SeeNothing, seen, FixedChecks, List, Refresh, EndRound, Abort
  <2> QED
    BY <2>1 DEF TurnsInv, TurnsOK, InLine
<1>3. CASE UNCHANGED <<vars, seen>>
  <2>1. UNCHANGED <<pc, todo, cursors, held, heard, missed>>
    BY <1>3 DEF vars, seen
  <2>2. TurnsOK' /\ Pending' = Pending
    BY <2>1 DEF TurnsInv, TurnsOK, Pending
  <2>3. \A p \in Pairs : missed'[p] = 0 \/ InLine(p)'
    BY <2>1 DEF TurnsInv, InLine
  <2> QED
    BY <2>1, <2>2, <2>3 DEF TurnsInv
<1> QED
  BY <1>1, <1>2, <1>3, SeePlanTurns, SeeProbeTurns DEF NextTurns

\* The observers add no step to the rounds.
LEMMA TurnsAreRounds == SpecTurns => Spec
<1>1. InitTurns => Init
  BY DEF InitTurns
<1>2. [NextTurns]_<<vars, seen>> => [Next]_vars
  BY DEF NextTurns, SeePlan, SeeProbe, SeeRestart, SeeNothing, Next
<1> QED
  BY <1>1, <1>2, PTL DEF SpecTurns, Spec

LEMMA TurnsInvariance == SpecTurns => [](IInv /\ TurnsInv)
<1>1. InitTurns => TurnsInv
  BY InitTurnsInv
<1>2. IInv /\ TurnsInv /\ [NextTurns]_<<vars, seen>> => TurnsInv'
  BY NextTurnsInv
<1> QED
  BY <1>1, <1>2, TurnsAreRounds, Invariance, PTL DEF SpecTurns

-----------------------------------------------------------------------------
(***************************************************************************)
(* Prober.round keeps every record, row, cursor and time of its type.      *)
(***************************************************************************)
THEOREM TypeCorrect == Spec => []TypeOK
<1>1. IInv => TypeOK
  BY DEF IInv
<1> QED
  BY <1>1, Invariance, PTL

(***************************************************************************)
(* No row of Prober.results outlives its Endpoint, and the plan names      *)
(* only records the round holds.                                           *)
(***************************************************************************)
THEOREM RowsAreOfKnown == Spec => []RowsOfKnownEndpoints
<1>1. IInv => RowsOfKnownEndpoints
  BY DEF IInv
<1> QED
  BY <1>1, Invariance, PTL

(***************************************************************************)
(* plan() is fair by position: however small the budget and however the    *)
(* other kinds' holders come and go, no Endpoint is passed by as often as  *)
(* its kind has holders, while these do not change.                        *)
(***************************************************************************)
THEOREM TakeTurns == SpecTurns => []HoldersTakeTurns
<1>1. IInv /\ TurnsInv => HoldersTakeTurns
  <2> SUFFICES ASSUME IInv, TurnsInv, NEW p \in Pairs, missed[p] # 0
               PROVE  missed[p] < Len(held[p[1]])
    BY DEF HoldersTakeTurns
  <2> DEFINE line == held[p[1]]
  <2>1. line \in Seq(Slugs) /\ missed[p] \in Nat /\ cursors[p[1]] \in Nat
    BY DEF TurnsInv, TurnsOK, Pairs, IInv, TypeOK
  <2>2. PICK place \in 1..Len(line) : missed[p] + Before(place, cursors[p[1]], Len(line)) < Len(line)
    BY DEF TurnsInv, InLine
  <2>3. Len(line) \in Nat \ {0}
    BY <2>1, <2>2, LenProperties
  <2>4. Before(place, cursors[p[1]], Len(line)) \in 0..(Len(line) - 1)
    BY <2>1, <2>3, BeforeIs
  <2> QED
    BY <2>1, <2>2, <2>3, <2>4
<1> QED
  BY <1>1, TurnsInvariance, PTL

(***************************************************************************)
(* A finished round recorded something of every kind it found a holder     *)
(* of, also when the budget is smaller than the kinds (T-5184).            *)
(***************************************************************************)
THEOREM CoverKinds == SpecTurns => RoundsCoverKinds
<1>1. IInv /\ TurnsInv /\ EndRound => \A k \in Kinds : held[k] # <<>> => k \in heard
  <2> SUFFICES ASSUME IInv, TurnsInv, EndRound, NEW k \in Kinds, held[k] # <<>>
               PROVE  k \in heard
    OBVIOUS
  <2>1. pc = "probe" /\ todo = <<>> /\ Len(<<>>) = 0
    BY EmptySeq DEF EndRound
  <2>2. Pending = {}
    BY <2>1 DEF Pending
  <2> QED
    BY <2>1, <2>2 DEF TurnsInv
<1>2. IInv /\ TurnsInv /\ [NextTurns]_<<vars, seen>> =>
        [EndRound => \A k \in Kinds : held[k] # <<>> => k \in heard]_<<vars, seen>>
  BY <1>1
<1> QED
  BY <1>2, TurnsInvariance, PTL DEF SpecTurns, RoundsCoverKinds

=============================================================================
