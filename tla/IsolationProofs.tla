---------------------------- MODULE IsolationProofs ----------------------------
(***************************************************************************)
(* Proofs about the transactions statement by statement, for any set of    *)
(* them and any scenario, any lots, costs and amounts: that a redemption   *)
(* spends once, that a lot expires once, and that the tier is lowered only *)
(* by a reconciliation with a stale read.                                  *)
(***************************************************************************)
EXTENDS Isolation, FiniteSetTheorems, TLAPS

-----------------------------------------------------------------------------
(* Sums over finite sets, as in LedgerProofs.                              *)

(* The element CHOOSE takes first, and the functions that add up every     *)
(* part of A by taking it out.                                             *)
Chosen(s) == CHOOSE x \in s : TRUE

Adds(g, F, A) ==
    g = [s \in SUBSET A |-> IF s = {} THEN 0 ELSE F[Chosen(s)] + g[s \ {Chosen(s)}]]

(* The sum of F over A.                                                    *)
SumOver(F, A) == (CHOOSE g : Adds(g, F, A))[A]

LEMMA ChosenIn ==
    ASSUME NEW s, s # {}
    PROVE  Chosen(s) \in s
BY DEF Chosen

(* Induction over the subsets of a finite set: what holds of a set once it *)
(* holds of its proper parts holds of all.                                 *)
LEMMA SubsetInduction ==
    ASSUME NEW A, IsFiniteSet(A), NEW Good,
           \A s \in SUBSET A : (\A t \in SUBSET s : t # s => t \in Good) => s \in Good
    PROVE  \A s \in SUBSET A : s \in Good
<1> DEFINE Bad == (SUBSET A) \ Good
           R == StrictSubsetOrdering(A)
<1> SUFFICES ASSUME Bad # {}
             PROVE  FALSE
  OBVIOUS
<1>1. IsWellFoundedOn(R, SUBSET A)
  <2>1. FiniteSubsetsOf(A) = SUBSET A
    BY FS_FiniteSubsetsOfFinite
  <2>2. IsWellFoundedOn(StrictSubsetOrdering(A), FiniteSubsetsOf(A))
    BY FS_StrictSubsetOrderingWellFounded
  <2> QED  BY <2>1, <2>2, Zenon
<1>2. Bad \subseteq SUBSET A
  OBVIOUS
<1> HIDE DEF R
<1>3. PICK s \in Bad : \A t \in Bad : ~(<<t, s>> \in R)
  <2> HIDE DEF Bad
  <2> QED  BY <1>1, <1>2, WFMin
<1>4. \A t \in SUBSET s : t # s => t \in Good
  BY <1>3 DEF R, StrictSubsetOrdering
<1>5. s \in SUBSET A /\ s \notin Good
  BY <1>3
<1> HIDE DEF Bad
<1> QED  BY <1>4, <1>5

(* Two functions that add F up agree wherever both do.                     *)
LEMMA AddsOnce ==
    ASSUME NEW F, NEW A, IsFiniteSet(A), NEW B, NEW g, NEW h, Adds(g, F, A), Adds(h, F, B)
    PROVE  \A s \in SUBSET A : s \subseteq B => g[s] = h[s]
<1> DEFINE Good == {s \in SUBSET A : s \subseteq B => g[s] = h[s]}
<1>1. ASSUME NEW s \in SUBSET A, \A t \in SUBSET s : t # s => t \in Good
      PROVE  s \in Good
  <2> SUFFICES ASSUME s \subseteq B
               PROVE  g[s] = h[s]
    OBVIOUS
  <2>1. CASE s = {}
    BY <2>1 DEF Adds
  <2>2. CASE s # {}
    <3> DEFINE t == s \ {Chosen(s)}
    <3>1. t \in SUBSET s /\ t # s
      BY <2>2, ChosenIn
    <3>2. g[t] = h[t]
      BY <1>1, <3>1
    <3>3. g[s] = F[Chosen(s)] + g[t]
      BY <2>2 DEF Adds
    <3>4. h[s] = F[Chosen(s)] + h[t]
      BY <2>2 DEF Adds
    <3> QED  BY <3>2, <3>3, <3>4
  <2> QED  BY <2>1, <2>2
<1> HIDE DEF Good
<1>2. \A s \in SUBSET A : s \in Good
  BY <1>1, SubsetInduction
<1> QED  BY <1>2 DEF Good

(* Every finite set can be added up.                                       *)
LEMMA SumExists ==
    ASSUME NEW F, NEW A, IsFiniteSet(A)
    PROVE  \A s \in SUBSET A : \E g : Adds(g, F, s)
<1> DEFINE Good == {s \in SUBSET A : \E g : Adds(g, F, s)}
           The(s) == CHOOSE g : Adds(g, F, s)
<1>1. ASSUME NEW s \in SUBSET A, \A t \in SUBSET s : t # s => t \in Good
      PROVE  s \in Good
  <2> DEFINE h == [u \in SUBSET s |-> IF u = {} THEN 0
                                      ELSE F[Chosen(u)] + SumOver(F, u \ {Chosen(u)})]
  <2>1. ASSUME NEW t \in SUBSET s, t # s
        PROVE  Adds(The(t), F, t)
    BY <1>1, <2>1
  <2>2. ASSUME NEW t \in SUBSET s, t # s
        PROVE  h[t] = SumOver(F, t)
    <3>1. Adds(The(t), F, t) /\ SumOver(F, t) = The(t)[t]
      BY <2>1, <2>2 DEF SumOver
    <3> HIDE DEF The
    <3>2. CASE t = {}
      BY <3>1, <3>2 DEF Adds
    <3>3. CASE t # {}
      <4> DEFINE r == t \ {Chosen(t)}
      <4>1. r \in SUBSET t /\ r # s /\ r \in SUBSET s
        BY <2>2, <3>3, ChosenIn
      <4>2. Adds(The(r), F, r) /\ SumOver(F, r) = The(r)[r]
        BY <2>1, <4>1 DEF SumOver, The
      <4>3. IsFiniteSet(r)
        BY <4>1, FS_Subset
      <4>4. The(r)[r] = The(t)[r]
        <5> HIDE DEF r
        <5>1. \A q \in SUBSET r : q \subseteq t => The(r)[q] = The(t)[q]
          BY <3>1, <4>2, <4>3, AddsOnce
        <5> QED  BY <4>1, <5>1
      <4>5. The(t)[t] = F[Chosen(t)] + The(t)[r]
        BY <3>1, <3>3 DEF Adds
      <4>6. h[t] = F[Chosen(t)] + SumOver(F, r)
        BY <3>3
      <4> QED  BY <3>1, <4>2, <4>4, <4>5, <4>6
    <3> QED  BY <3>2, <3>3
  <2>3. ASSUME NEW u \in SUBSET s, u # {}
        PROVE  h[u \ {Chosen(u)}] = SumOver(F, u \ {Chosen(u)})
    <3>1. u \ {Chosen(u)} \in SUBSET s /\ u \ {Chosen(u)} # s
      BY <2>3, ChosenIn
    <3> HIDE DEF h
    <3> QED  BY <2>2, <3>1
  <2>4. h = [u \in SUBSET s |-> IF u = {} THEN 0
                                ELSE F[Chosen(u)] + h[u \ {Chosen(u)}]]
    BY <2>3
  <2>5. Adds(h, F, s)
    BY <2>4 DEF Adds
  <2> HIDE DEF h
  <2> QED  BY <2>5
<1> HIDE DEF Good
<1>2. \A s \in SUBSET A : s \in Good
  BY <1>1, SubsetInduction
<1> QED  BY <1>2 DEF Good

LEMMA SumOfNone ==
    ASSUME NEW F
    PROVE  SumOver(F, {}) = 0
<1>1. PICK g : Adds(g, F, {})
  BY FS_EmptySet, SumExists
<1>2. Adds(CHOOSE h : Adds(h, F, {}), F, {})
  BY <1>1
<1> QED  BY <1>2 DEF SumOver, Adds

(* A sum is its first element and the sum of the rest.                     *)
LEMMA SumUnfolds ==
    ASSUME NEW F, NEW A, IsFiniteSet(A), A # {}
    PROVE  SumOver(F, A) = F[Chosen(A)] + SumOver(F, A \ {Chosen(A)})
<1> DEFINE The(s) == CHOOSE g : Adds(g, F, s)
           r == A \ {Chosen(A)}
<1>1. \A s \in SUBSET A : Adds(The(s), F, s) /\ SumOver(F, s) = The(s)[s]
  <2> SUFFICES ASSUME NEW s \in SUBSET A
               PROVE  Adds(The(s), F, s) /\ SumOver(F, s) = The(s)[s]
    OBVIOUS
  <2>1. \E g : Adds(g, F, s)
    BY SumExists
  <2> QED  BY <2>1 DEF SumOver
<1> HIDE DEF The
<1>2. The(A)[A] = F[Chosen(A)] + The(A)[r]
  <2>1. Adds(The(A), F, A)
    BY <1>1
  <2> QED  BY <2>1 DEF Adds
<1>3. r \in SUBSET A /\ IsFiniteSet(r)
  BY FS_Subset
<1> HIDE DEF r
<1>4. \A q \in SUBSET r : q \subseteq A => The(r)[q] = The(A)[q]
  BY <1>1, <1>3, AddsOnce
<1>5. The(r)[r] = The(A)[r]
  BY <1>3, <1>4
<1> QED  BY <1>1, <1>2, <1>3, <1>5 DEF r

(* A sum of integers is an integer, and of naturals not negative.          *)
LEMMA SumType ==
    ASSUME NEW F, NEW A, IsFiniteSet(A), \A x \in A : F[x] \in Int
    PROVE  /\ SumOver(F, A) \in Int
           /\ (\A x \in A : F[x] >= 0) => SumOver(F, A) >= 0
<1> DEFINE Good == {s \in SUBSET A : /\ SumOver(F, s) \in Int
                                     /\ (\A x \in A : F[x] >= 0) => SumOver(F, s) >= 0}
<1>1. ASSUME NEW s \in SUBSET A, \A t \in SUBSET s : t # s => t \in Good
      PROVE  s \in Good
  <2>1. CASE s = {}
    BY <2>1, SumOfNone
  <2>2. CASE s # {}
    <3> DEFINE t == s \ {Chosen(s)}
    <3>1. t \in SUBSET s /\ t # s /\ Chosen(s) \in A /\ IsFiniteSet(s)
      BY <2>2, ChosenIn, FS_Subset
    <3>2. t \in Good
      BY <1>1, <3>1
    <3>3. SumOver(F, s) = F[Chosen(s)] + SumOver(F, t)
      BY <2>2, <3>1, SumUnfolds
    <3>4. F[Chosen(s)] \in Int
      BY <3>1
    <3> DEFINE n == F[Chosen(s)]
    <3> HIDE DEF t, n
    <3> QED  BY <3>1, <3>2, <3>3, <3>4 DEF n
  <2> QED  BY <2>1, <2>2
<1> HIDE DEF Good
<1>2. \A s \in SUBSET A : s \in Good
  BY <1>1, SubsetInduction
<1> QED  BY <1>2 DEF Good

(* Any element may be taken out first, not just the chosen one.            *)
LEMMA SumTakes ==
    ASSUME NEW F, NEW A, IsFiniteSet(A), \A x \in A : F[x] \in Int, NEW x \in A
    PROVE  SumOver(F, A) = F[x] + SumOver(F, A \ {x})
<1> DEFINE Good == {s \in SUBSET A : \A y \in s : SumOver(F, s) = F[y] + SumOver(F, s \ {y})}
<1>0. \A s \in SUBSET A : IsFiniteSet(s) /\ SumOver(F, s) \in Int
  BY FS_Subset, SumType
<1>1. ASSUME NEW s \in SUBSET A, \A t \in SUBSET s : t # s => t \in Good
      PROVE  s \in Good
  <2> SUFFICES ASSUME NEW y \in s
               PROVE  SumOver(F, s) = F[y] + SumOver(F, s \ {y})
    OBVIOUS
  <2> DEFINE c == Chosen(s)
             t == s \ {c}
             u == s \ {y}
             v == s \ {c, y}
  <2>1. c \in s /\ IsFiniteSet(s) /\ SumOver(F, s) = F[c] + SumOver(F, t)
    BY <1>0, ChosenIn, SumUnfolds
  <2>2. CASE c = y
    BY <2>1, <2>2
  <2>3. CASE c # y
    <3>1. t \in Good /\ u \in Good
      BY <1>1, <2>1
    <3>2. y \in t /\ c \in u /\ t \ {y} = v /\ u \ {c} = v
      BY <2>1, <2>3
    <3>3. SumOver(F, t) = F[y] + SumOver(F, v) /\ SumOver(F, u) = F[c] + SumOver(F, v)
      BY <3>1, <3>2
    <3>4. F[y] \in Int /\ F[c] \in Int /\ SumOver(F, v) \in Int
      BY <1>0, <2>1
    <3> HIDE DEF t, u, v, c
    <3> QED  BY <2>1, <3>3, <3>4 DEF u
  <2> QED  BY <2>2, <2>3
<1> HIDE DEF Good
<1>2. \A s \in SUBSET A : s \in Good
  BY <1>1, SubsetInduction
<1> QED  BY <1>2 DEF Good

(* Whatever adds F up is its sum.                                          *)
LEMMA SumIs ==
    ASSUME NEW F, NEW A, IsFiniteSet(A), NEW h, Adds(h, F, A)
    PROVE  h[A] = SumOver(F, A)
<1>1. Adds(CHOOSE g : Adds(g, F, A), F, A)
  OBVIOUS
<1>2. \A s \in SUBSET A : s \subseteq A => h[s] = (CHOOSE g : Adds(g, F, A))[s]
  BY <1>1, AddsOnce
<1> QED  BY <1>2 DEF SumOver

(* Only the values at the elements matter, and less adds up to less.       *)
LEMMA SumCompares ==
    ASSUME NEW F, NEW G, NEW A, IsFiniteSet(A)
    PROVE  /\ (\A x \in A : F[x] = G[x]) => SumOver(F, A) = SumOver(G, A)
           /\ (\A x \in A : F[x] \in Int /\ G[x] \in Int /\ F[x] <= G[x])
                => SumOver(F, A) <= SumOver(G, A)
<1> DEFINE Same(s) == \A x \in s : F[x] = G[x]
           Less(s) == \A x \in s : F[x] \in Int /\ G[x] \in Int /\ F[x] <= G[x]
           Good == {s \in SUBSET A : /\ Same(s) => SumOver(F, s) = SumOver(G, s)
                                     /\ Less(s) => SumOver(F, s) <= SumOver(G, s)}
<1>1. ASSUME NEW s \in SUBSET A, \A t \in SUBSET s : t # s => t \in Good
      PROVE  s \in Good
  <2>1. CASE s = {}
    BY <2>1, SumOfNone
  <2>2. CASE s # {}
    <3> DEFINE x == Chosen(s)
               t == s \ {x}
    <3>1. t \in SUBSET s /\ t # s /\ x \in s /\ IsFiniteSet(s) /\ IsFiniteSet(t)
      BY <2>2, ChosenIn, FS_Subset
    <3>2. t \in Good
      BY <1>1, <3>1
    <3>3. SumOver(F, s) = F[x] + SumOver(F, t) /\ SumOver(G, s) = G[x] + SumOver(G, t)
      BY <2>2, <3>1, SumUnfolds
    <3>4. Same(s) => Same(t) /\ F[x] = G[x]
      BY <3>1
    <3>5. Less(s) => Less(t) /\ F[x] \in Int /\ G[x] \in Int /\ F[x] <= G[x]
      BY <3>1
    <3>6. Less(t) => SumOver(F, t) \in Int /\ SumOver(G, t) \in Int
      BY <3>1, SumType
    <3> HIDE DEF x, t, Same, Less
    <3>7. Same(s) => SumOver(F, s) = SumOver(G, s)
      BY <3>2, <3>3, <3>4
    <3>8. Less(s) => SumOver(F, s) <= SumOver(G, s)
      BY <3>2, <3>3, <3>5, <3>6
    <3> QED  BY <3>7, <3>8
  <2> QED  BY <2>1, <2>2
<1> HIDE DEF Good
<1>2. \A s \in SUBSET A : s \in Good
  BY <1>1, SubsetInduction
<1> QED  BY <1>2 DEF Good

(* A part of a sum of naturals is no more than the whole.                  *)
LEMMA SumOfPart ==
    ASSUME NEW F, NEW A, IsFiniteSet(A), \A x \in A : F[x] \in Nat,
           NEW B, B \subseteq A
    PROVE  SumOver(F, B) <= SumOver(F, A)
<1> DEFINE Good == {s \in SUBSET A : SumOver(F, s \cap B) <= SumOver(F, s)}
<1>1. ASSUME NEW s \in SUBSET A, \A t \in SUBSET s : t # s => t \in Good
      PROVE  s \in Good
  <2>1. CASE s = {}
    <3>1. s \cap B = {}
      BY <2>1
    <3> QED  BY <2>1, <3>1, SumOfNone
  <2>2. CASE s # {}
    <3> DEFINE x == Chosen(s)
               t == s \ {x}
    <3>1. /\ t \in SUBSET s /\ t # s /\ x \in s
          /\ IsFiniteSet(s) /\ IsFiniteSet(t) /\ IsFiniteSet(s \cap B) /\ IsFiniteSet(t \cap B)
      BY <2>2, ChosenIn, FS_Subset
    <3>2. t \in Good
      BY <1>1, <3>1
    <3>3. SumOver(F, s) = F[x] + SumOver(F, t)
      BY <2>2, <3>1, SumUnfolds
    <3>4. F[x] \in Nat /\ SumOver(F, t) \in Int /\ SumOver(F, t \cap B) \in Int
      BY <3>1, SumType
    <3>5. CASE x \in B
      <4> DEFINE sB == s \cap B
      <4>1. x \in sB /\ IsFiniteSet(sB) /\ \A y \in sB : F[y] \in Int
        BY <3>1, <3>5
      <4>2. sB \ {x} = t \cap B
        OBVIOUS
      <4> HIDE DEF sB, t, x
      <4>3. SumOver(F, sB) = F[x] + SumOver(F, sB \ {x})
        BY <4>1, SumTakes
      <4>4. SumOver(F, sB) = F[x] + SumOver(F, t \cap B)
        BY <4>2, <4>3, Zenon
      <4>5. SumOver(F, t \cap B) <= SumOver(F, t)
        BY <3>2
      <4> QED  BY <3>3, <3>4, <4>4, <4>5 DEF sB
    <3>6. CASE x \notin B
      <4>1. s \cap B = t \cap B
        BY <3>6
      <4>2. SumOver(F, s \cap B) = SumOver(F, t \cap B)
        BY <4>1, Zenon
      <4>3. SumOver(F, t \cap B) <= SumOver(F, t)
        BY <3>2
      <4> HIDE DEF t, x
      <4> QED  BY <3>3, <3>4, <4>2, <4>3
    <3> QED  BY <3>5, <3>6
  <2> QED  BY <2>1, <2>2
<1> HIDE DEF Good
<1>2. \A s \in SUBSET A : s \in Good
  BY <1>1, SubsetInduction
<1>3. SumOver(F, A \cap B) <= SumOver(F, A)
  BY <1>2 DEF Good
<1>4. A \cap B = B
  OBVIOUS
<1> QED  BY <1>3, <1>4, Zenon

-----------------------------------------------------------------------------
(* The sums of the model.                                                  *)

PointsOf == [d \in Debit |-> d.points]

LEMMA SumOfIs ==
    ASSUME NEW S \in SUBSET Debit, IsFiniteSet(S)
    PROVE  SumOf(S) = SumOver(PointsOf, S)
<1> DEFINE Rec(g) == g = [s \in SUBSET S |-> IF s = {} THEN 0
                            ELSE (CHOOSE x \in s : TRUE).points + g[s \ {CHOOSE x \in s : TRUE}]]
           h == CHOOSE g : Rec(g)
<1>1. SumOf(S) = h[S]
  BY DEF SumOf, MapThenSumSet, MapThenFoldSet
<1>2. \A g : Adds(g, PointsOf, S) <=> Rec(g)
  <2> SUFFICES ASSUME NEW g
               PROVE  Adds(g, PointsOf, S) <=> Rec(g)
    OBVIOUS
  <2>1. \A s \in SUBSET S : s # {} => PointsOf[Chosen(s)] = (CHOOSE x \in s : TRUE).points
    BY ChosenIn DEF Chosen, PointsOf
  <2>2. [s \in SUBSET S |-> IF s = {} THEN 0 ELSE PointsOf[Chosen(s)] + g[s \ {Chosen(s)}]]
        = [s \in SUBSET S |-> IF s = {} THEN 0
                 ELSE (CHOOSE x \in s : TRUE).points + g[s \ {CHOOSE x \in s : TRUE}]]
    BY <2>1 DEF Chosen
  <2> QED  BY <2>2 DEF Adds
<1> HIDE DEF Rec
<1>3. PICK g : Adds(g, PointsOf, S)
  BY SumExists
<1>4. Adds(h, PointsOf, S)
  BY <1>2, <1>3
<1> HIDE DEF h
<1> QED  BY <1>1, <1>4, SumIs

LEMMA SumLotsIs ==
    ASSUME NEW f, NEW S, IsFiniteSet(S)
    PROVE  SumLots(f, S) = SumOver(f, S)
<1> DEFINE h == CHOOSE g : Adds(g, f, S)
<1>1. SumLots(f, S) = h[S]
  BY DEF SumLots, MapThenSumSet, MapThenFoldSet, Adds, Chosen
<1>2. Adds(h, f, S)
  BY SumExists
<1> HIDE DEF h
<1> QED  BY <1>1, <1>2, SumIs

(* The debits together, with one more.                                     *)
LEMMA SumOfType ==
    ASSUME NEW S \in SUBSET Debit, IsFiniteSet(S)
    PROVE  /\ SumOf(S) \in Int
           /\ \A d \in Debit \ S : SumOf(S \cup {d}) = SumOf(S) + d.points
<1>1. \A d \in Debit : PointsOf[d] = d.points /\ PointsOf[d] \in Int
  BY DEF PointsOf, Debit
<1>2. SumOf(S) \in Int
  BY <1>1, SumType, SumOfIs
<1>3. ASSUME NEW d \in Debit \ S
      PROVE  SumOf(S \cup {d}) = SumOf(S) + d.points
  <2> DEFINE T == S \cup {d}
  <2>1. /\ IsFiniteSet(T) /\ T \in SUBSET Debit /\ d \in T /\ T \ {d} = S
        /\ \A x \in T : PointsOf[x] \in Int
    BY <1>1, FS_AddElement
  <2> HIDE DEF T
  <2>2. SumOver(PointsOf, T) = PointsOf[d] + SumOver(PointsOf, S)
    <3>1. SumOver(PointsOf, T) = PointsOf[d] + SumOver(PointsOf, T \ {d})
      BY <2>1, SumTakes
    <3> QED  BY <2>1, <3>1, Zenon
  <2>3. SumOf(T) = SumOver(PointsOf, T) /\ SumOf(S) = SumOver(PointsOf, S)
    BY <2>1, SumOfIs
  <2>4. PointsOf[d] = d.points /\ d.points \in Int
    BY <1>1
  <2> QED  BY <1>2, <2>2, <2>3, <2>4 DEF T
<1> QED  BY <1>2, <1>3

LEMMA SumLotsType ==
    ASSUME NEW f, NEW S, IsFiniteSet(S), \A i \in S : f[i] \in Nat
    PROVE  SumLots(f, S) \in Nat
<1>1. \A i \in S : f[i] \in Int /\ f[i] >= 0
  OBVIOUS
<1>2. SumOver(f, S) \in Int /\ SumOver(f, S) >= 0
  BY <1>1, SumType
<1> QED  BY <1>2, SumLotsIs

LEMMA SumLotsCompares ==
    ASSUME NEW f, NEW g, NEW S, IsFiniteSet(S)
    PROVE  /\ (\A i \in S : f[i] = g[i]) => SumLots(f, S) = SumLots(g, S)
           /\ (\A i \in S : f[i] \in Int /\ g[i] \in Int /\ f[i] <= g[i])
                => SumLots(f, S) <= SumLots(g, S)
BY SumCompares, SumLotsIs

(* What is taken of a lot is no more than it holds.                        *)
LEMMA FifoTakeType ==
    ASSUME NEW f, NEW ids \in SUBSET Lot, \A i \in ids : f[i] \in Nat, NEW n \in Nat, NEW i
    PROVE  /\ FifoTake(f, ids, n, i) \in Nat
           /\ i \in ids => FifoTake(f, ids, n, i) <= f[i]
           /\ i \notin ids => FifoTake(f, ids, n, i) = 0
<1> DEFINE B == {j \in ids : j < i}
           u == n - SumLots(f, B)
<1>1. IsFiniteSet(B) /\ \A j \in B : f[j] \in Nat
  <2>1. IsFiniteSet(Lot) /\ B \subseteq Lot
    BY IsolationConstants
  <2> HIDE DEF B
  <2>2. IsFiniteSet(B)
    BY <2>1, FS_Subset
  <2> QED  BY <2>2 DEF B
<1> HIDE DEF B
<1>2. u \in Int
  BY <1>1, SumLotsType
<1>3. FifoTake(f, ids, n, i) = IF i \notin ids \/ u <= 0 THEN 0
                               ELSE IF u < f[i] THEN u ELSE f[i]
  BY DEF FifoTake, B
<1> HIDE DEF u
<1> QED  BY <1>2, <1>3

-----------------------------------------------------------------------------
(* The replay.                                                             *)

(* No two of these debits tie in the order of the replay.                  *)
Ranked(ds) == \A d, e \in ds : d # e => InOrder(d, e) \/ InOrder(e, d)

LEMMA InOrderTransitive ==
    ASSUME NEW d \in Debit, NEW e \in Debit, NEW c \in Debit, InOrder(d, e), InOrder(e, c)
    PROVE  InOrder(d, c)
<1>1. d.start \in Nat /\ e.start \in Nat /\ c.start \in Nat
  BY DEF Debit
<1>2. \A x \in Debit : x.lot # None => x.lot \in Nat
  BY IsolationConstants DEF Debit
<1> QED  BY <1>1, <1>2 DEF InOrder

LEMMA LatestIsLast ==
    ASSUME NEW A \in SUBSET Debit, IsFiniteSet(A), Ranked(A)
    PROVE  \A s \in SUBSET A : s # {} =>
               Latest(s) \in s /\ \A e \in s \ {Latest(s)} : InOrder(e, Latest(s))
<1> DEFINE Last(s, d) == \A e \in s \ {d} : InOrder(e, d)
           Good == {s \in SUBSET A : s # {} => \E d \in s : Last(s, d)}
<1>1. ASSUME NEW s \in SUBSET A, \A t \in SUBSET s : t # s => t \in Good
      PROVE  s \in Good
  <2> SUFFICES ASSUME s # {}
               PROVE  \E d \in s : Last(s, d)
    OBVIOUS
  <2>1. PICK x : x \in s
    OBVIOUS
  <2> DEFINE t == s \ {x}
  <2>2. t \in SUBSET s /\ t # s /\ t \in Good
    BY <1>1, <2>1
  <2>3. CASE t = {}
    BY <2>1, <2>3
  <2>4. CASE t # {}
    <3>1. PICK m \in t : Last(t, m)
      BY <2>2, <2>4
    <3>2. m \in Debit /\ x \in Debit /\ m # x /\ s \subseteq Debit
      BY <2>1, <3>1
    <3>3. CASE InOrder(x, m)
      BY <2>1, <3>1, <3>3
    <3>4. CASE InOrder(m, x)
      <4>1. \A e \in s \ {x} : InOrder(e, x)
        BY <3>1, <3>2, <3>4, InOrderTransitive
      <4> QED  BY <2>1, <4>1
    <3> QED  BY <2>1, <3>1, <3>2, <3>3, <3>4 DEF Ranked
  <2> QED  BY <2>3, <2>4
<1> HIDE DEF Good
<1>2. \A s \in SUBSET A : s \in Good
  BY <1>1, SubsetInduction
<1>3. ASSUME NEW s \in SUBSET A, s # {}
      PROVE  Latest(s) \in s /\ \A e \in s \ {Latest(s)} : InOrder(e, Latest(s))
  <2>1. \E d \in s : \A e \in s \ {d} : InOrder(e, d)
    BY <1>2, <1>3 DEF Good
  <2> QED  BY <2>1 DEF Latest
<1> QED  BY <1>3

(* The functions that replay every part of A, the latest last.             *)
Replays(g, f, A) ==
    g = [s \in SUBSET A |-> IF s = {} THEN f ELSE ReplayOne(g[s \ {Latest(s)}], Latest(s))]

LEMMA ReplaysOnce ==
    ASSUME NEW f, NEW A, IsFiniteSet(A), \A s \in SUBSET A : s # {} => Latest(s) \in s,
           NEW B, NEW g, NEW h, Replays(g, f, A), Replays(h, f, B)
    PROVE  \A s \in SUBSET A : s \subseteq B => g[s] = h[s]
<1> DEFINE Good == {s \in SUBSET A : s \subseteq B => g[s] = h[s]}
<1>1. ASSUME NEW s \in SUBSET A, \A t \in SUBSET s : t # s => t \in Good
      PROVE  s \in Good
  <2> SUFFICES ASSUME s \subseteq B
               PROVE  g[s] = h[s]
    OBVIOUS
  <2>1. CASE s = {}
    BY <2>1 DEF Replays
  <2>2. CASE s # {}
    <3> DEFINE t == s \ {Latest(s)}
    <3>1. t \in SUBSET s /\ t # s
      BY <2>2
    <3>2. g[t] = h[t]
      BY <1>1, <3>1
    <3>3. g[s] = ReplayOne(g[t], Latest(s))
      BY <2>2 DEF Replays
    <3>4. h[s] = ReplayOne(h[t], Latest(s))
      BY <2>2 DEF Replays
    <3> HIDE DEF t
    <3> QED  BY <3>2, <3>3, <3>4, Zenon
  <2> QED  BY <2>1, <2>2
<1> HIDE DEF Good
<1>2. \A s \in SUBSET A : s \in Good
  BY <1>1, SubsetInduction
<1> QED  BY <1>2 DEF Good

LEMMA ReplayExists ==
    ASSUME NEW f, NEW A, IsFiniteSet(A), \A s \in SUBSET A : s # {} => Latest(s) \in s
    PROVE  \A s \in SUBSET A : \E g : Replays(g, f, s)
<1> DEFINE Good == {s \in SUBSET A : \E g : Replays(g, f, s)}
           The(s) == CHOOSE g : Replays(g, f, s)
           At(s) == The(s)[s]
<1>1. ASSUME NEW s \in SUBSET A, \A t \in SUBSET s : t # s => t \in Good
      PROVE  s \in Good
  <2> DEFINE h == [u \in SUBSET s |-> IF u = {} THEN f
                                      ELSE ReplayOne(At(u \ {Latest(u)}), Latest(u))]
  <2>1. ASSUME NEW t \in SUBSET s, t # s
        PROVE  Replays(The(t), f, t)
    BY <1>1, <2>1
  <2> HIDE DEF The
  <2>2. ASSUME NEW t \in SUBSET s, t # s
        PROVE  h[t] = At(t)
    <3>1. Replays(The(t), f, t)
      BY <2>1, <2>2
    <3>2. CASE t = {}
      <4>1. The(t)[t] = f
        BY <3>1, <3>2 DEF Replays
      <4> QED  BY <3>2, <4>1
    <3>3. CASE t # {}
      <4> DEFINE r == t \ {Latest(t)}
      <4>1. r \in SUBSET t /\ r # s /\ r \in SUBSET s
        BY <2>2, <3>3
      <4>2. Replays(The(r), f, r)
        BY <2>1, <4>1
      <4>3. IsFiniteSet(r) /\ \A q \in SUBSET r : q # {} => Latest(q) \in q
        BY <4>1, FS_Subset
      <4>4. The(r)[r] = The(t)[r]
        <5> HIDE DEF r
        <5>1. \A q \in SUBSET r : q \subseteq t => The(r)[q] = The(t)[q]
          BY <3>1, <4>2, <4>3, ReplaysOnce
        <5> QED  BY <4>1, <5>1
      <4>5. The(t)[t] = ReplayOne(The(t)[r], Latest(t))
        BY <3>1, <3>3 DEF Replays
      <4>6. h[t] = ReplayOne(At(r), Latest(t))
        BY <3>3
      <4> HIDE DEF r, h
      <4> QED  BY <4>4, <4>5, <4>6
    <3> QED  BY <3>2, <3>3
  <2> HIDE DEF At
  <2>3. ASSUME NEW u \in SUBSET s, u # {}
        PROVE  h[u \ {Latest(u)}] = At(u \ {Latest(u)})
    <3>1. u \ {Latest(u)} \in SUBSET s /\ u \ {Latest(u)} # s
      BY <2>3
    <3> HIDE DEF h
    <3> QED  BY <2>2, <3>1
  <2>4. h = [u \in SUBSET s |-> IF u = {} THEN f
                                ELSE ReplayOne(h[u \ {Latest(u)}], Latest(u))]
    BY <2>3, Zenon
  <2>5. Replays(h, f, s)
    BY <2>4 DEF Replays
  <2> HIDE DEF h
  <2> QED  BY <2>5
<1> HIDE DEF Good
<1>2. \A s \in SUBSET A : s \in Good
  BY <1>1, SubsetInduction
<1> QED  BY <1>2 DEF Good

(* The lots at their first size, and as they may be found.                 *)
Whole(ids) == [i \in ids |-> Original[i]]
Parts(ids) == {f \in [ids -> Nat] : \A i \in ids : f[i] <= Original[i]}

LEMMA ReplayOneType ==
    ASSUME NEW ids \in SUBSET Lot, NEW f \in Parts(ids), NEW d \in Debit
    PROVE  ReplayOne(f, d) \in Parts(ids)
<1>1. /\ DOMAIN f = ids /\ f = [i \in ids |-> f[i]]
      /\ \A i \in ids : f[i] \in Nat /\ Original[i] \in Nat /\ f[i] <= Original[i]
      /\ d.points \in Nat
  BY IsolationConstants DEF Parts, Debit
<1>2. CASE d.type = "expire" /\ d.lot \in DOMAIN f
  <2> DEFINE n == IF f[d.lot] > d.points THEN f[d.lot] - d.points ELSE 0
  <2>1. n \in Nat /\ n <= f[d.lot] /\ ReplayOne(f, d) = [f EXCEPT ![d.lot] = n]
    BY <1>1, <1>2 DEF ReplayOne
  <2> HIDE DEF n
  <2> QED  BY <1>1, <1>2, <2>1 DEF Parts
<1>3. CASE ~(d.type = "expire" /\ d.lot \in DOMAIN f)
  <2> DEFINE B == {i \in DOMAIN f : f[i] > 0 /\ Live(i, d.at)}
             take == [i \in ids |-> FifoTake(f, B, d.points, i)]
  <2>1. ReplayOne(f, d) = [i \in ids |-> f[i] - take[i]]
    <3>1. ReplayOne(f, d) = Draw(f, B, d.points)
      BY <1>3, Zenon DEF ReplayOne
    <3>2. Draw(f, B, d.points) = [i \in ids |-> f[i] - FifoTake(f, B, d.points, i)]
      BY <1>1 DEF Draw
    <3>3. \A i \in ids : take[i] = FifoTake(f, B, d.points, i)
      OBVIOUS
    <3> HIDE DEF take, B
    <3> QED  BY <3>1, <3>2, <3>3
  <2>2. B \in SUBSET Lot /\ \A i \in B : f[i] \in Nat
    BY <1>1
  <2> HIDE DEF B
  <2>3. \A i \in ids : take[i] \in Nat /\ take[i] <= f[i]
    <3> SUFFICES ASSUME NEW i \in ids
                 PROVE  take[i] \in Nat /\ take[i] <= f[i]
      OBVIOUS
    <3>1. /\ FifoTake(f, B, d.points, i) \in Nat
          /\ i \in B => FifoTake(f, B, d.points, i) <= f[i]
          /\ i \notin B => FifoTake(f, B, d.points, i) = 0
      BY <1>1, <2>2, FifoTakeType
    <3> QED  BY <1>1, <3>1
  <2> HIDE DEF take
  <2> QED  BY <1>1, <2>1, <2>3 DEF Parts
<1> QED  BY <1>2, <1>3

(* Whatever is replayed, no lot comes out below nothing or above its size; *)
(* and what is replayed is nothing, or the latest after the others.        *)
LEMMA ReplayIs ==
    ASSUME NEW ids \in SUBSET Lot, NEW ds \in SUBSET Debit, IsFiniteSet(ds), Ranked(ds)
    PROVE  /\ Replay(ids, ds) \in Parts(ids)
           /\ ds = {} => Replay(ids, ds) = Whole(ids)
           /\ \A d : ds = {d} => Replay(ids, ds) = ReplayOne(Whole(ids), d)
<1> DEFINE h == CHOOSE g : Replays(g, Whole(ids), ds)
<1>1. Replay(ids, ds) = h[ds]
  BY DEF Replay, MapThenFoldSet, Replays, Whole
<1>2. \A s \in SUBSET ds : s # {} => Latest(s) \in s
  BY LatestIsLast
<1>3. Replays(h, Whole(ids), ds)
  BY <1>2, ReplayExists
<1> HIDE DEF h
<1>4. Whole(ids) \in Parts(ids)
  BY IsolationConstants DEF Whole, Parts
<1> DEFINE Good == {s \in SUBSET ds : h[s] \in Parts(ids)}
<1>5. ASSUME NEW s \in SUBSET ds, \A t \in SUBSET s : t # s => t \in Good
      PROVE  s \in Good
  <2>1. CASE s = {}
    BY <1>3, <1>4, <2>1 DEF Replays
  <2>2. CASE s # {}
    <3> DEFINE t == s \ {Latest(s)}
    <3>1. t \in SUBSET s /\ t # s /\ Latest(s) \in Debit
      BY <1>2, <2>2
    <3>2. h[t] \in Parts(ids)
      BY <1>5, <3>1
    <3>3. h[s] = ReplayOne(h[t], Latest(s))
      BY <1>3, <2>2 DEF Replays
    <3> HIDE DEF t
    <3> QED  BY <3>1, <3>2, <3>3, ReplayOneType
  <2> QED  BY <2>1, <2>2
<1> HIDE DEF Good
<1>6. \A s \in SUBSET ds : s \in Good
  BY <1>5, SubsetInduction
<1>7. ds = {} => h[ds] = Whole(ids)
  BY <1>3 DEF Replays
<1>8. ASSUME NEW d, ds = {d}
      PROVE  h[ds] = ReplayOne(Whole(ids), d)
  <2>1. Latest(ds) = d /\ ds \ {d} = {} /\ ds # {}
    BY <1>2, <1>8
  <2>2. h[ds] = ReplayOne(h[ds \ {Latest(ds)}], Latest(ds)) /\ h[{}] = Whole(ids)
    BY <1>3, <2>1 DEF Replays
  <2> QED  BY <2>1, <2>2
<1> QED  BY <1>1, <1>6, <1>7, <1>8 DEF Good

-----------------------------------------------------------------------------
(* Tiers.                                                                  *)

LEMMA DeriveTierIs ==
    ASSUME NEW s \in Nat
    PROVE  /\ DeriveTier(s) \in TierRank
           /\ Threshold[DeriveTier(s)] <= s
           /\ \A u \in TierRank : Threshold[u] <= s => u <= DeriveTier(s)
<1> DEFINE Fits(t) == Threshold[t] <= s /\ \A u \in TierRank : Threshold[u] <= s => u <= t
<1>1. /\ Threshold[0] = 0 /\ Threshold[1] = 30000
      /\ Threshold[2] = 75000 /\ Threshold[3] = 150000
  BY DEF Threshold, TierRank
<1>2. \E t \in TierRank : Fits(t)
  <2>1. CASE s < 30000  BY <1>1, <2>1, Fits(0) DEF TierRank
  <2>2. CASE 30000 <= s /\ s < 75000  BY <1>1, <2>2, Fits(1) DEF TierRank
  <2>3. CASE 75000 <= s /\ s < 150000  BY <1>1, <2>3, Fits(2) DEF TierRank
  <2>4. CASE 150000 <= s  BY <1>1, <2>4, Fits(3) DEF TierRank
  <2> HIDE DEF Fits
  <2> QED  BY <2>1, <2>2, <2>3, <2>4
<1> QED  BY <1>2 DEF DeriveTier

(* Who has spent more has no lower a tier.                                 *)
LEMMA DeriveTierMonotone ==
    ASSUME NEW s \in Nat, NEW u \in Nat, s <= u
    PROVE  DeriveTier(s) <= DeriveTier(u)
<1>1. Threshold[DeriveTier(s)] \in Int
  BY DeriveTierIs DEF Threshold, TierRank
<1> QED  BY <1>1, DeriveTierIs

-----------------------------------------------------------------------------
(* The inductive invariant: what holds of every transaction, whoever runs. *)

(* Each keeps a record of what it has read, whatever the values.           *)
Known(r) ==
    [asOf : {r.asOf}, at : {r.at}, start : {r.start}, amount : {r.amount},
     clawed : {r.clawed}, spend : {r.spend}, points : {r.points}, drift : {r.drift},
     seen : {r.seen}, target : {r.target}]

Shapes ==
    /\ DOMAIN lots \subseteq Lot
    /\ spend \in {Spent["before"], Spent["after"]} /\ tier \in TierRank
    /\ step \in [Txn -> Step]
    /\ local = [t \in Txn |-> local[t]] /\ \A t \in Txn : local[t] \in Known(local[t])
    /\ rowLock \in Txn \cup {None}
    /\ lotLock \in [Lot -> Txn \cup {None}]

(* Each is at a statement of its own kind.                                 *)
Staged(t) ==
    \/ step[t] \in {"absent", "idle", "ended"}
    \/ Kind[t] = "redeem" /\ step[t] \in {"asked", "lock", "check", "draw", "commit"}
    \/ Kind[t] = "earn" /\ step[t] \in {"lock", "commit"}
    \/ Kind[t] = "clawback" /\ step[t] \in {"read", "measure", "draw", "commit"}
    \/ Kind[t] = "expire" /\ step[t] \in {"read", "commit"}
    \/ Kind[t] = "adjust" /\ step[t] = "commit"
    \/ /\ Kind[t] = "reconcile"
       /\ step[t] \in {"load", "balance", "lots", "debits", "row", "write", "commit"}

(* A redemption holds the member's row while it checks and spends, ...     *)
HoldsRow(t) ==
    Kind[t] = "redeem" /\ step[t] \in {"check", "draw", "commit"} => rowLock = t

(* ... so no other spends after its check.                                 *)
MaySpend(t) ==
    Kind[t] = "redeem" /\ step[t] \in {"draw", "commit"} => \A d \in debits : d.type # "spend"

(* Who is about to draw on lots has locked them, and found points in them. *)
HoldsLots(t) ==
    Kind[t] \in {"redeem", "clawback", "expire"} /\ step[t] = "commit" =>
        \A i \in DOMAIN local[t].seen : i \in DOMAIN lots /\ lotLock[i] = t /\ lots[i] > 0

HoldsDrifted(t) ==
    Kind[t] = "reconcile" /\ step[t] = "commit" => \A i \in Drifted(t) \cap Lot : lotLock[i] = t

(* What a reconciliation has read of the spend is the spend or less.       *)
ReadSpend(t) ==
    Kind[t] = "reconcile" /\ step[t] \in {"balance", "lots", "debits", "row", "write", "commit"} =>
        local[t].spend \in {Spent["before"], Spent["after"]} /\ local[t].spend <= spend

Sound(t) ==
    /\ Staged(t) /\ HoldsRow(t) /\ MaySpend(t)
    /\ HoldsLots(t) /\ HoldsDrifted(t) /\ ReadSpend(t)

SpentOnce == \A d, e \in debits : d.type = "spend" /\ e.type = "spend" => d = e

(* No tier is more than the spend has earned.                              *)
TierEarned == tier <= DeriveTier(spend)

Inv == Shapes /\ (\A t \in Txn : Sound(t)) /\ SpentOnce /\ TierEarned

-----------------------------------------------------------------------------
(* What the steps have in common.                                          *)

LEMMA SpentTypes ==
    /\ Spent["before"] \in Nat /\ Spent["after"] \in Nat
    /\ Spent["before"] <= Spent["after"]
    /\ None \notin Txn
BY IsolationConstants

(* A transaction whose place and notes change alone.                       *)
LEMMA MovesAlone ==
    ASSUME Shapes, NEW t \in Txn, NEW s \in Step, NEW r, r \in Known(r),
           step' = [step EXCEPT ![t] = s], local' = [local EXCEPT ![t] = r]
    PROVE  /\ step' \in [Txn -> Step] /\ step'[t] = s /\ local'[t] = r
           /\ local' = [u \in Txn |-> local'[u]]
           /\ \A u \in Txn : local'[u] \in Known(local'[u])
           /\ \A u \in Txn \ {t} : step'[u] = step[u] /\ local'[u] = local[u]
<1>1. local = [u \in Txn |-> local[u]] /\ \A u \in Txn : local[u] \in Known(local[u])
  BY DEF Shapes
<1>2. /\ local' = [u \in Txn |-> local'[u]] /\ local'[t] = r
      /\ \A u \in Txn \ {t} : local'[u] = local[u]
  BY <1>1
<1>3. \A u \in Txn : local'[u] \in Known(local'[u])
  BY <1>1, <1>2
<1>4. /\ step' \in [Txn -> Step] /\ step'[t] = s
      /\ \A u \in Txn \ {t} : step'[u] = step[u]
  BY DEF Shapes
<1> QED  BY <1>2, <1>3, <1>4

(* The others stay sound if their locks are theirs still, the lots they    *)
(* hold are as they were, and who spent had the row.                       *)
LEMMA OthersStaySound ==
    ASSUME Inv, NEW t \in Txn,
           \A u \in Txn \ {t} : step'[u] = step[u] /\ local'[u] = local[u],
           \A u \in Txn \ {t} : rowLock = u => rowLock' = u,
           \A u \in Txn \ {t} : \A i \in Lot : lotLock[i] = u => lotLock'[i] = u,
           \A u \in Txn \ {t} : \A i \in DOMAIN lots : lotLock[i] = u =>
                i \in DOMAIN lots' /\ lots'[i] = lots[i],
           \A d \in debits' \ debits : d.type = "spend" => rowLock = t,
           spend \in Nat, spend' \in Nat, spend <= spend'
    PROVE  \A u \in Txn \ {t} : Sound(u)'
<1> SUFFICES ASSUME NEW u \in Txn \ {t}
             PROVE  Sound(u)'
  OBVIOUS
<1>1. Sound(u) /\ step'[u] = step[u] /\ local'[u] = local[u]
  BY DEF Inv
<1>2. Staged(u)' /\ HoldsRow(u)'
  BY <1>1 DEF Sound, Staged, HoldsRow
<1>3. MaySpend(u)'
  BY <1>1 DEF Sound, HoldsRow, MaySpend
<1>4. HoldsLots(u)'
  BY <1>1 DEF Inv, Shapes, Sound, HoldsLots
<1>5. HoldsDrifted(u)'
  BY <1>1 DEF Sound, HoldsDrifted, Drifted
<1>6. ReadSpend(u)'
  <2>1. Spent["before"] \in Nat /\ Spent["after"] \in Nat
    BY SpentTypes
  <2> QED  BY <1>1, <2>1 DEF Sound, ReadSpend
<1> QED  BY <1>2, <1>3, <1>4, <1>5, <1>6 DEF Sound

(* Locks a transaction may take: those that are nobody's or its own.       *)
LEMMA TakesRow ==
    ASSUME Inv, NEW t \in Txn, Free(t),
           step[t] = "lock" \/ (step[t] = "row" /\ local[t].drift)
    PROVE  rowLock \in {t, None}
BY DEF Free, Blockers

LEMMA TakesLots ==
    ASSUME Inv, NEW t \in Txn, Free(t), LockLots(t)
    PROVE  /\ lotLock' \in [Lot -> Txn \cup {None}]
           /\ \A i \in Wanted(t) \cap Lot : lotLock'[i] = t
           /\ \A u \in Txn \ {t} : \A i \in Lot : lotLock[i] = u => lotLock'[i] = u
<1>1. \A i \in Wanted(t) : lotLock[i] \in {t, None}
  BY DEF Free, Blockers
<1> QED  BY <1>1, SpentTypes DEF LockLots, Inv, Shapes

(* A statement that writes nothing yet: it is enough that the transaction  *)
(* itself stays sound.                                                     *)
LEMMA Statements ==
    ASSUME Inv, NEW t \in Txn, NEW s \in Step, NEW r, r \in Known(r),
           step' = [step EXCEPT ![t] = s], local' = [local EXCEPT ![t] = r],
           UNCHANGED tables,
           rowLock' = rowLock \/ (rowLock' = t /\ rowLock \in {t, None}),
           lotLock' \in [Lot -> Txn \cup {None}],
           \A u \in Txn \ {t} : \A i \in Lot : lotLock[i] = u => lotLock'[i] = u,
           Sound(t)'
    PROVE  Inv'
<1>1. UNCHANGED <<lots, debits, spend, tier>>
  BY DEF tables
<1>2. /\ step' \in [Txn -> Step] /\ local' = [u \in Txn |-> local'[u]]
      /\ \A u \in Txn : local'[u] \in Known(local'[u])
      /\ \A u \in Txn \ {t} : step'[u] = step[u] /\ local'[u] = local[u]
  BY MovesAlone DEF Inv
<1>3. /\ \A u \in Txn \ {t} : rowLock = u => rowLock' = u
      /\ rowLock' \in Txn \cup {None}
  BY SpentTypes DEF Inv, Shapes
<1>4. spend \in Nat /\ spend' \in Nat /\ spend <= spend'
  BY <1>1, SpentTypes DEF Inv, Shapes
<1>5. \A u \in Txn \ {t} : Sound(u)'
  BY <1>1, <1>2, <1>3, <1>4, OthersStaySound
<1>6. Shapes'
  BY <1>1, <1>2, <1>3 DEF Inv, Shapes
<1>7. SpentOnce' /\ TierEarned'
  BY <1>1 DEF Inv, SpentOnce, TierEarned
<1> QED  BY <1>5, <1>6, <1>7 DEF Inv

LEMMA BlankIsKnown == Blank \in Known(Blank)
BY DEF Blank, Known

(* A transaction that ends, or is to be tried again, lets go of its locks. *)
LEMMA Ends ==
    ASSUME Inv, NEW t \in Txn, NEW s \in {"idle", "ended"}, Goto(t, s), Release(t),
           local' = [local EXCEPT ![t] = Blank],
           DOMAIN lots' \subseteq Lot,
           \A i \in DOMAIN lots : lotLock[i] # t => i \in DOMAIN lots' /\ lots'[i] = lots[i],
           \A d \in debits' \ debits : d.type = "spend" => rowLock = t,
           spend' \in {Spent["before"], Spent["after"]}, spend <= spend', tier' \in TierRank,
           SpentOnce', TierEarned'
    PROVE  Inv'
<1>1. s \in Step /\ step' = [step EXCEPT ![t] = s]
  BY DEF Goto, Step
<1>2. /\ step' \in [Txn -> Step] /\ step'[t] = s
      /\ local' = [u \in Txn |-> local'[u]]
      /\ \A u \in Txn : local'[u] \in Known(local'[u])
      /\ \A u \in Txn \ {t} : step'[u] = step[u] /\ local'[u] = local[u]
  BY <1>1, BlankIsKnown, MovesAlone DEF Inv
<1>3. /\ rowLock' \in Txn \cup {None}
      /\ \A u \in Txn \ {t} : rowLock = u => rowLock' = u
      /\ lotLock' \in [Lot -> Txn \cup {None}]
      /\ \A u \in Txn \ {t} : \A i \in Lot : lotLock[i] = u => lotLock'[i] = u
  BY DEF Release, Inv, Shapes
<1>4. spend \in Nat /\ spend' \in Nat
  BY SpentTypes DEF Inv, Shapes
<1>5. \A u \in Txn \ {t} : Sound(u)'
  BY <1>2, <1>3, <1>4, OthersStaySound
<1>6. Sound(t)'
  BY <1>2 DEF Sound, Staged, HoldsRow, MaySpend, HoldsLots, HoldsDrifted, ReadSpend
<1>7. Shapes'
  BY <1>2, <1>3 DEF Shapes
<1> QED  BY <1>5, <1>6, <1>7 DEF Inv

(* One that ends without a trace in the tables.                            *)
LEMMA EndsEmpty ==
    ASSUME Inv, NEW t \in Txn, NEW s \in {"idle", "ended"}, Goto(t, s), Release(t),
           local' = [local EXCEPT ![t] = Blank], UNCHANGED tables
    PROVE  Inv'
<1>1. UNCHANGED <<lots, debits, spend, tier>>
  BY DEF tables
<1>2. spend \in Nat /\ spend <= spend'
  BY <1>1, SpentTypes DEF Inv, Shapes
<1>3. SpentOnce' /\ TierEarned'
  BY <1>1 DEF Inv, SpentOnce, TierEarned
<1> QED  BY <1>1, <1>2, <1>3, Ends DEF Inv, Shapes

LEMMA FinishEmpty ==
    ASSUME Inv, NEW t \in Txn, Finish(t), UNCHANGED tables
    PROVE  Inv'
BY EndsEmpty DEF Finish

LEMMA RollbackKeeps ==
    ASSUME Inv, NEW t \in Txn, Rollback(t), UNCHANGED tables
    PROVE  Inv'
BY EndsEmpty DEF Rollback

-----------------------------------------------------------------------------
(* Beginning, and the statements that only read or lock.                   *)

LEMMA InitInv == Init => Inv
<1> SUFFICES ASSUME Init
             PROVE  Inv
  OBVIOUS
<1>1. PICK running \in Scenario :
        step = [t \in Txn |-> IF t \in running THEN "idle" ELSE "absent"]
  BY DEF Init
<1>2. step \in [Txn -> Step] /\ \A t \in Txn : step[t] \in {"idle", "absent"}
  BY <1>1 DEF Step
<1>3. /\ local = [t \in Txn |-> local[t]]
      /\ \A t \in Txn : local[t] \in Known(local[t])
  BY BlankIsKnown DEF Init
<1>4. spend \in {Spent["before"], Spent["after"]} /\ spend \in Nat
  BY SpentTypes DEF Init
<1>5. tier \in TierRank /\ TierEarned
  BY SpentTypes, DeriveTierIs DEF Init, TierEarned, TierRank
<1>6. DOMAIN lots \subseteq Lot /\ rowLock = None /\ lotLock = [i \in Lot |-> None]
  BY DEF Init
<1>7. Shapes
  BY <1>2, <1>3, <1>4, <1>5, <1>6 DEF Shapes
<1>8. \A t \in Txn : Sound(t)
  BY <1>2 DEF Sound, Staged, HoldsRow, MaySpend, HoldsLots, HoldsDrifted, ReadSpend
<1>9. SpentOnce
  BY DEF Init, SpentOnce
<1> QED  BY <1>5, <1>7, <1>8, <1>9 DEF Inv

(* A statement that locks nothing.                                         *)
LEMMA Reads ==
    ASSUME Inv, NEW t \in Txn, NEW s \in Step, NEW r, r \in Known(r),
           Goto(t, s), local' = [local EXCEPT ![t] = r],
           UNCHANGED <<tables, rowLock, lotLock>>,
           Sound(t)'
    PROVE  Inv'
<1>1. /\ lotLock' \in [Lot -> Txn \cup {None}]
      /\ \A u \in Txn \ {t} : \A i \in Lot : lotLock[i] = u => lotLock'[i] = u
  BY DEF Inv, Shapes
<1>2. step' = [step EXCEPT ![t] = s]
  BY DEF Goto
<1> QED  BY <1>1, <1>2, Statements

(* A place in which a transaction need be sound in nothing but its place.  *)
LEMMA EarlyIsSound ==
    ASSUME NEW t \in Txn, Staged(t)',
           step'[t] \in {"idle", "asked", "lock", "read", "measure", "load", "ended"}
    PROVE  Sound(t)'
BY DEF Sound, Staged, HoldsRow, MaySpend, HoldsLots, HoldsDrifted, ReadSpend

LEMMA AskKeeps ==
    ASSUME Inv, NEW t \in Txn, Ask(t)
    PROVE  Inv'
<1> DEFINE r == [local[t] EXCEPT !.asOf = now]
<1>1. local[t] \in Known(local[t]) /\ Goto(t, "asked") /\ "asked" \in Step
  BY DEF Inv, Shapes, Ask, Step
<1>2. r \in Known(r) /\ local' = [local EXCEPT ![t] = r]
  BY <1>1 DEF Ask, Known
<1> HIDE DEF r
<1>3. step'[t] = "asked"
  BY <1>1, <1>2, MovesAlone DEF Goto, Inv
<1>4. Sound(t)'
  BY <1>3, EarlyIsSound DEF Ask, Staged
<1> QED  BY <1>1, <1>2, <1>4, Reads DEF Ask

LEMMA BeginKeeps ==
    ASSUME Inv, NEW t \in Txn, Begin(t)
    PROVE  Inv'
<1> DEFINE r == [local[t] EXCEPT !.asOf = IF Kind[t] = "redeem" THEN @ ELSE now,
                                 !.at = now, !.start = begun + 1]
           s == CASE Kind[t] \in {"redeem", "earn"} -> "lock"
                  [] Kind[t] \in {"clawback", "expire"} -> "read"
                  [] Kind[t] = "adjust" -> "commit"
                  [] OTHER -> "load"
<1>1. local[t] \in Known(local[t])
  BY DEF Inv, Shapes
<1>2. r \in Known(r)
  BY <1>1 DEF Known
<1>3. local' = [local EXCEPT ![t] = r] /\ Goto(t, s)
  BY DEF Begin
<1>4. \/ Kind[t] \in {"redeem", "earn"} /\ s = "lock"
      \/ Kind[t] \in {"clawback", "expire"} /\ s = "read"
      \/ Kind[t] = "adjust" /\ s = "commit"
      \/ Kind[t] = "reconcile" /\ s = "load"
  BY IsolationConstants
<1> HIDE DEF r, s
<1>5. s \in Step
  BY <1>4 DEF Step
<1>6. step'[t] = s
  BY <1>2, <1>3, <1>5, MovesAlone DEF Goto, Inv
<1>7. Sound(t)'
  BY <1>4, <1>6 DEF Sound, Staged, HoldsRow, MaySpend, HoldsLots, HoldsDrifted, ReadSpend
<1> QED  BY <1>2, <1>3, <1>5, <1>7, Reads DEF Begin

LEMMA LockCustomerKeeps ==
    ASSUME Inv, NEW t \in Txn, LockCustomer(t)
    PROVE  Inv'
<1> DEFINE s == IF Kind[t] = "redeem" THEN "check" ELSE "commit"
<1>1. /\ local[t] \in Known(local[t]) /\ local' = [local EXCEPT ![t] = local[t]]
      /\ s \in Step /\ step' = [step EXCEPT ![t] = s]
  BY DEF LockCustomer, Goto, Step, Inv, Shapes
<1>2. rowLock' = t /\ rowLock \in {t, None}
  BY TakesRow DEF LockCustomer, LockRow
<1>3. /\ lotLock' \in [Lot -> Txn \cup {None}]
      /\ \A u \in Txn \ {t} : \A i \in Lot : lotLock[i] = u => lotLock'[i] = u
  BY DEF LockCustomer, Inv, Shapes
<1>4. Kind[t] \in {"redeem", "earn"}
  BY DEF LockCustomer, Inv, Sound, Staged
<1>5. step'[t] = s
  BY <1>1, MovesAlone DEF Inv
<1>6. Sound(t)'
  BY <1>2, <1>4, <1>5
     DEF Sound, Staged, HoldsRow, MaySpend, HoldsLots, HoldsDrifted, ReadSpend
<1> QED  BY <1>1, <1>2, <1>3, <1>6, Statements DEF LockCustomer

(* The check: no spend is on the ledger, and none will be before this one. *)
LEMMA CheckRedeemKeeps ==
    ASSUME Inv, NEW t \in Txn, CheckRedeem(t)
    PROVE  Inv'
<1>1. Kind[t] = "redeem" /\ rowLock = t /\ UNCHANGED tables
  BY DEF CheckRedeem, Inv, Sound, Staged, HoldsRow
<1>2. CASE Finish(t)
  BY <1>1, <1>2, FinishEmpty
<1>3. CASE Rollback(t)
  BY <1>1, <1>3, RollbackKeeps
<1>4. CASE /\ ~\E d \in debits : d.type = "spend"
           /\ Goto(t, "draw")
           /\ local' = [local EXCEPT ![t].amount = Cost]
           /\ UNCHANGED <<attempts, rowLock, lotLock>>
  <2> DEFINE r == [local[t] EXCEPT !.amount = Cost]
  <2>1. local[t] \in Known(local[t]) /\ "draw" \in Step
    BY DEF Inv, Shapes, Step
  <2>2. r \in Known(r) /\ local' = [local EXCEPT ![t] = r]
    BY <1>4, <2>1 DEF Known
  <2> HIDE DEF r
  <2>3. step'[t] = "draw" /\ debits' = debits
    BY <1>1, <1>4, <2>1, <2>2, MovesAlone DEF Goto, Inv, tables
  <2>4. Sound(t)'
    BY <1>1, <1>4, <2>3
       DEF Sound, Staged, HoldsRow, MaySpend, HoldsLots, HoldsDrifted, ReadSpend
  <2> QED  BY <1>1, <1>4, <2>1, <2>2, <2>4, Reads
<1> QED  BY <1>2, <1>3, <1>4 DEF CheckRedeem

LEMMA ReadClawbackKeeps ==
    ASSUME Inv, NEW t \in Txn, ReadClawback(t)
    PROVE  Inv'
<1>1. Kind[t] = "clawback" /\ UNCHANGED tables
  BY DEF ReadClawback
<1>2. CASE Finish(t)
  BY <1>1, <1>2, FinishEmpty
<1>3. CASE /\ Goto(t, "measure")
           /\ local' = [local EXCEPT ![t].clawed = SumOf(Clawed),
                                     ![t].amount = IF Desired[t] < HeadRoom
                                                   THEN Desired[t] ELSE HeadRoom]
           /\ UNCHANGED <<attempts, rowLock, lotLock>>
  <2> DEFINE r == [local[t] EXCEPT !.clawed = SumOf(Clawed),
                                   !.amount = IF Desired[t] < HeadRoom
                                              THEN Desired[t] ELSE HeadRoom]
  <2>1. local[t] \in Known(local[t]) /\ "measure" \in Step
    BY DEF Inv, Shapes, Step
  <2>2. r \in Known(r) /\ local' = [local EXCEPT ![t] = r]
    BY <1>3, <2>1 DEF Known
  <2> HIDE DEF r
  <2>3. step'[t] = "measure"
    BY <1>3, <2>1, <2>2, MovesAlone DEF Goto, Inv
  <2>4. Sound(t)'
    BY <1>1, <2>3, EarlyIsSound DEF Staged
  <2> QED  BY <1>1, <1>3, <2>1, <2>2, <2>4, Reads
<1> QED  BY <1>2, <1>3 DEF ReadClawback

LEMMA MeasureKeeps ==
    ASSUME Inv, NEW t \in Txn, Measure(t)
    PROVE  Inv'
<1> DEFINE spendable == SumLots(lots, Consumable(now))
<1>1. Kind[t] = "clawback" /\ UNCHANGED tables
  BY DEF Measure, Inv, Sound, Staged
<1>2. CASE Finish(t)
  BY <1>1, <1>2, FinishEmpty
<1>3. CASE /\ Goto(t, "draw")
           /\ local' = [local EXCEPT ![t].amount = IF spendable < @ THEN spendable ELSE @]
           /\ UNCHANGED <<attempts, rowLock, lotLock>>
  <2> DEFINE r == [local[t] EXCEPT !.amount = IF spendable < @ THEN spendable ELSE @]
  <2>1. local[t] \in Known(local[t]) /\ "draw" \in Step
    BY DEF Inv, Shapes, Step
  <2>2. r \in Known(r) /\ local' = [local EXCEPT ![t] = r]
    BY <1>3, <2>1 DEF Known
  <2> HIDE DEF r
  <2>3. step'[t] = "draw"
    BY <1>3, <2>1, <2>2, MovesAlone DEF Goto, Inv
  <2>4. Sound(t)'
    BY <1>1, <2>3
       DEF Sound, Staged, HoldsRow, MaySpend, HoldsLots, HoldsDrifted, ReadSpend
  <2> QED  BY <1>1, <1>3, <2>1, <2>2, <2>4, Reads
<1> QED  BY <1>2, <1>3 DEF Measure

(* What is selected FOR UPDATE holds points, and is locked from then on.   *)
LEMMA SelectedAreHeld ==
    ASSUME Inv, NEW t \in Txn, Free(t), LockLots(t), UNCHANGED tables,
           Kind[t] \in {"redeem", "clawback", "expire"},
           \A i \in Wanted(t) : i \in DOMAIN lots /\ lots[i] > 0,
           Goto(t, "commit"), UNCHANGED rowLock,
           local' = [local EXCEPT ![t].seen = Restrict(lots, Wanted(t))],
           Kind[t] = "redeem" => rowLock = t /\ \A d \in debits : d.type # "spend"
    PROVE  Inv'
<1> DEFINE r == [local[t] EXCEPT !.seen = Restrict(lots, Wanted(t))]
<1>1. local[t] \in Known(local[t]) /\ "commit" \in Step
  BY DEF Inv, Shapes, Step
<1>2. /\ r \in Known(r) /\ local' = [local EXCEPT ![t] = r]
      /\ r.seen = Restrict(lots, Wanted(t))
  BY <1>1 DEF Known
<1> HIDE DEF r
<1>3. DOMAIN r.seen = Wanted(t)
  BY <1>2 DEF Restrict
<1>4. step' = [step EXCEPT ![t] = "commit"]
  BY DEF Goto
<1>5. step'[t] = "commit" /\ local'[t] = r
  BY <1>1, <1>2, <1>4, MovesAlone DEF Inv
<1>6. UNCHANGED <<lots, debits>>
  BY DEF tables
<1>7. /\ lotLock' \in [Lot -> Txn \cup {None}]
      /\ \A i \in Wanted(t) \cap Lot : lotLock'[i] = t
      /\ \A u \in Txn \ {t} : \A i \in Lot : lotLock[i] = u => lotLock'[i] = u
  BY TakesLots
<1>8. HoldsLots(t)'
  BY <1>3, <1>5, <1>6, <1>7 DEF HoldsLots, Inv, Shapes
<1>9. Staged(t)' /\ HoldsRow(t)' /\ MaySpend(t)' /\ HoldsDrifted(t)' /\ ReadSpend(t)'
  BY <1>5, <1>6 DEF Staged, HoldsRow, MaySpend, HoldsDrifted, ReadSpend
<1>10. Sound(t)'
  BY <1>8, <1>9 DEF Sound
<1> QED  BY <1>1, <1>2, <1>4, <1>7, <1>10, Statements

LEMMA SelectLotsKeeps ==
    ASSUME Inv, NEW t \in Txn, SelectLots(t)
    PROVE  Inv'
<1>1. /\ step[t] = "draw" /\ Kind[t] \in {"redeem", "clawback"}
      /\ Free(t) /\ UNCHANGED tables
      /\ Kind[t] = "redeem" => rowLock = t /\ \A d \in debits : d.type # "spend"
  BY DEF SelectLots, Inv, Sound, Staged, HoldsRow, MaySpend
<1>2. CASE Rollback(t)
  BY <1>1, <1>2, RollbackKeeps
<1>3. CASE /\ LockLots(t)
           /\ Goto(t, "commit")
           /\ local' = [local EXCEPT ![t].seen = Restrict(lots, Wanted(t))]
           /\ UNCHANGED <<attempts, rowLock>>
  <2>1. \A i \in Wanted(t) : i \in DOMAIN lots /\ lots[i] > 0
    BY <1>1 DEF Wanted, Consumable
  <2> QED  BY <1>1, <1>3, <2>1, SelectedAreHeld
<1> QED  BY <1>2, <1>3 DEF SelectLots

LEMMA SelectMaturedKeeps ==
    ASSUME Inv, NEW t \in Txn, SelectMatured(t)
    PROVE  Inv'
<1>1. step[t] = "read" /\ Kind[t] = "expire" /\ Free(t) /\ UNCHANGED tables
  BY DEF SelectMatured
<1>2. CASE Finish(t)
  BY <1>1, <1>2, FinishEmpty
<1>3. CASE /\ LockLots(t)
           /\ Goto(t, "commit")
           /\ local' = [local EXCEPT ![t].seen = Restrict(lots, Wanted(t))]
           /\ UNCHANGED <<attempts, rowLock>>
  <2>1. \A i \in Wanted(t) : i \in DOMAIN lots /\ lots[i] > 0
    BY <1>1 DEF Wanted
  <2> QED  BY <1>1, <1>3, <2>1, SelectedAreHeld
<1> QED  BY <1>2, <1>3 DEF SelectMatured

(* A reconciliation goes on, and keeps what it has read of the spend.      *)
LEMMA ReconcileReads ==
    ASSUME Inv, NEW t \in Txn, Kind[t] = "reconcile",
           NEW s \in {"balance", "lots", "debits", "row"}, Goto(t, s),
           NEW r, r \in Known(r), local' = [local EXCEPT ![t] = r],
           r.spend \in {Spent["before"], Spent["after"]}, r.spend <= spend,
           UNCHANGED <<tables, rowLock, lotLock>>
    PROVE  Inv'
<1>1. s \in Step
  BY DEF Step
<1>2. step'[t] = s /\ local'[t] = r
  BY <1>1, MovesAlone DEF Goto, Inv
<1>3. UNCHANGED spend
  BY DEF tables
<1>4. Sound(t)'
  BY <1>2, <1>3 DEF Sound, Staged, HoldsRow, MaySpend, HoldsLots, HoldsDrifted, ReadSpend
<1> QED  BY <1>1, <1>4, Reads

LEMMA LoadCustomerKeeps ==
    ASSUME Inv, NEW t \in Txn, LoadCustomer(t)
    PROVE  Inv'
<1> DEFINE r == [local[t] EXCEPT !.spend = spend, !.points = points,
                                 !.drift = DeriveTier(spend) # tier]
<1>1. Kind[t] = "reconcile" /\ local[t] \in Known(local[t])
  BY DEF LoadCustomer, Inv, Sound, Staged, Shapes
<1>2. r \in Known(r) /\ r.spend = spend /\ local' = [local EXCEPT ![t] = r]
  BY <1>1 DEF LoadCustomer, Known
<1> HIDE DEF r
<1>3. r.spend \in {Spent["before"], Spent["after"]} /\ r.spend <= spend
  BY <1>2, SpentTypes DEF Inv, Shapes
<1> QED  BY <1>1, <1>2, <1>3, ReconcileReads DEF LoadCustomer

LEMMA ComputeBalanceKeeps ==
    ASSUME Inv, NEW t \in Txn, ComputeBalance(t)
    PROVE  Inv'
<1> DEFINE r == [local[t] EXCEPT !.points = Balance,
                                 !.drift = @ \/ Balance # local[t].points]
<1>1. /\ Kind[t] = "reconcile" /\ local[t] \in Known(local[t])
      /\ local[t].spend \in {Spent["before"], Spent["after"]} /\ local[t].spend <= spend
  BY DEF ComputeBalance, Inv, Sound, Staged, Shapes, ReadSpend
<1>2. r \in Known(r) /\ r.spend = local[t].spend /\ local' = [local EXCEPT ![t] = r]
  BY <1>1 DEF ComputeBalance, Known
<1> HIDE DEF r
<1> QED  BY <1>1, <1>2, ReconcileReads DEF ComputeBalance

LEMMA LoadLotsKeeps ==
    ASSUME Inv, NEW t \in Txn, LoadLots(t)
    PROVE  Inv'
<1> DEFINE r == [local[t] EXCEPT !.seen = lots]
<1>1. /\ Kind[t] = "reconcile" /\ local[t] \in Known(local[t])
      /\ local[t].spend \in {Spent["before"], Spent["after"]} /\ local[t].spend <= spend
  BY DEF LoadLots, Inv, Sound, Staged, Shapes, ReadSpend
<1>2. r \in Known(r) /\ r.spend = local[t].spend /\ local' = [local EXCEPT ![t] = r]
  BY <1>1 DEF LoadLots, Known
<1> HIDE DEF r
<1> QED  BY <1>1, <1>2, ReconcileReads DEF LoadLots

LEMMA LoadDebitsKeeps ==
    ASSUME Inv, NEW t \in Txn, LoadDebits(t)
    PROVE  Inv'
<1> DEFINE v == Replay(DOMAIN local[t].seen, DebitsFound(t))
           r == [local[t] EXCEPT !.target = v]
<1>1. /\ Kind[t] = "reconcile" /\ local[t] \in Known(local[t])
      /\ local[t].spend \in {Spent["before"], Spent["after"]} /\ local[t].spend <= spend
      /\ local' = [local EXCEPT ![t].target = v]
  BY DEF LoadDebits, Inv, Sound, Staged, Shapes, ReadSpend
<1> HIDE DEF v
<1>2. r \in Known(r) /\ r.spend = local[t].spend /\ local' = [local EXCEPT ![t] = r]
  BY <1>1 DEF Known
<1> HIDE DEF r
<1> QED  BY <1>1, <1>2, ReconcileReads DEF LoadDebits

LEMMA UpdateRowKeeps ==
    ASSUME Inv, NEW t \in Txn, UpdateRow(t)
    PROVE  Inv'
<1>1. /\ Kind[t] = "reconcile" /\ local[t] \in Known(local[t])
      /\ local[t].spend \in {Spent["before"], Spent["after"]} /\ local[t].spend <= spend
      /\ local' = [local EXCEPT ![t] = local[t]]
  BY DEF UpdateRow, Inv, Sound, Staged, Shapes, ReadSpend
<1>2. "write" \in Step /\ step' = [step EXCEPT ![t] = "write"]
  BY DEF Step, UpdateRow, Goto
<1>3. step'[t] = "write" /\ local'[t] = local[t] /\ UNCHANGED spend
  BY <1>1, <1>2, MovesAlone DEF Inv, UpdateRow, tables
<1>4. rowLock' = rowLock \/ (rowLock' = t /\ rowLock \in {t, None})
  BY TakesRow DEF UpdateRow, LockRow
<1>5. /\ lotLock' \in [Lot -> Txn \cup {None}]
      /\ \A u \in Txn \ {t} : \A i \in Lot : lotLock[i] = u => lotLock'[i] = u
  BY DEF UpdateRow, Inv, Shapes
<1>6. Sound(t)'
  BY <1>1, <1>3 DEF Sound, Staged, HoldsRow, MaySpend, HoldsLots, HoldsDrifted, ReadSpend
<1> QED  BY <1>1, <1>2, <1>4, <1>5, <1>6, Statements DEF UpdateRow

LEMMA UpdateLotsKeeps ==
    ASSUME Inv, NEW t \in Txn, UpdateLots(t)
    PROVE  Inv'
<1>1. /\ step[t] = "write" /\ Kind[t] = "reconcile" /\ local[t] \in Known(local[t])
      /\ local[t].spend \in {Spent["before"], Spent["after"]} /\ local[t].spend <= spend
      /\ local' = [local EXCEPT ![t] = local[t]]
  BY DEF UpdateLots, Inv, Sound, Staged, Shapes, ReadSpend
<1>2. "commit" \in Step /\ step' = [step EXCEPT ![t] = "commit"]
  BY DEF Step, UpdateLots, Goto
<1>3. step'[t] = "commit" /\ local'[t] = local[t] /\ UNCHANGED spend
  BY <1>1, <1>2, MovesAlone DEF Inv, UpdateLots, tables
<1>4. /\ lotLock' \in [Lot -> Txn \cup {None}]
      /\ \A i \in Wanted(t) \cap Lot : lotLock'[i] = t
      /\ \A u \in Txn \ {t} : \A i \in Lot : lotLock[i] = u => lotLock'[i] = u
  BY TakesLots DEF UpdateLots
<1>5. Drifted(t)' = Wanted(t)
  BY <1>1, <1>3 DEF Drifted, Wanted
<1>6. HoldsDrifted(t)'
  BY <1>4, <1>5 DEF HoldsDrifted
<1>7. Sound(t)'
  BY <1>1, <1>3, <1>6 DEF Sound, Staged, HoldsRow, MaySpend, HoldsLots, ReadSpend
<1> QED  BY <1>1, <1>2, <1>4, <1>7, Statements DEF UpdateLots

-----------------------------------------------------------------------------
(* The commits.                                                            *)

LEMMA CommitDebitKeeps ==
    ASSUME Inv, NEW t \in Txn, CommitDebit(t)
    PROVE  Inv'
<1> DEFINE type == IF Kind[t] = "redeem" THEN "spend" ELSE "clawback"
           new == NewDebit(t, type, local[t].amount, None)
<1>1. /\ Kind[t] \in {"redeem", "clawback"} /\ Finish(t)
      /\ UNCHANGED <<spend, tier>> /\ debits' = debits \cup {new}
  BY DEF CommitDebit
<1>2. Goto(t, "ended") /\ Release(t) /\ local' = [local EXCEPT ![t] = Blank]
  BY <1>1 DEF Finish
<1>3. /\ \A i \in DOMAIN local[t].seen : lotLock[i] = t
      /\ Kind[t] = "redeem" => rowLock = t /\ \A d \in debits : d.type # "spend"
  BY <1>1 DEF CommitDebit, Inv, Sound, HoldsRow, MaySpend, HoldsLots
<1>4. DOMAIN lots' \subseteq Lot
  BY DEF CommitDebit, Inv, Shapes
<1>5. \A i \in DOMAIN lots : lotLock[i] # t => i \in DOMAIN lots' /\ lots'[i] = lots[i]
  BY <1>3 DEF CommitDebit
<1>6. new.type = type
  BY DEF NewDebit
<1> HIDE DEF new
<1>7. \A d \in debits' \ debits : d.type = "spend" => rowLock = t
  BY <1>1, <1>3, <1>6
<1>8. SpentOnce'
  BY <1>1, <1>3, <1>6 DEF Inv, SpentOnce
<1>9. spend \in Nat /\ spend <= spend' /\ TierEarned'
  BY <1>1, SpentTypes DEF Inv, Shapes, TierEarned
<1> QED  BY <1>1, <1>2, <1>4, <1>5, <1>7, <1>8, <1>9, Ends DEF Inv, Shapes

LEMMA CommitExpiryKeeps ==
    ASSUME Inv, NEW t \in Txn, CommitExpiry(t)
    PROVE  Inv'
<1> DEFINE seen == local[t].seen
           new == {NewDebit(t, "expire", seen[i], i) : i \in DOMAIN seen}
<1>1. /\ Kind[t] = "expire" /\ Finish(t)
      /\ UNCHANGED <<spend, tier>> /\ debits' = debits \cup new
  BY DEF CommitExpiry
<1>2. Goto(t, "ended") /\ Release(t) /\ local' = [local EXCEPT ![t] = Blank]
  BY <1>1 DEF Finish
<1>3. \A i \in DOMAIN seen : lotLock[i] = t
  BY <1>1 DEF CommitExpiry, Inv, Sound, HoldsLots
<1>4. DOMAIN lots' \subseteq Lot
  BY DEF CommitExpiry, Inv, Shapes
<1>5. \A i \in DOMAIN lots : lotLock[i] # t => i \in DOMAIN lots' /\ lots'[i] = lots[i]
  BY <1>3 DEF CommitExpiry
<1>6. \A d \in new : d.type = "expire"
  BY DEF NewDebit
<1> HIDE DEF new
<1>7. \A d \in debits' \ debits : d.type # "spend"
  BY <1>1, <1>6
<1>8. SpentOnce'
  BY <1>7 DEF Inv, SpentOnce
<1>9. spend \in Nat /\ spend <= spend' /\ TierEarned'
  BY <1>1, SpentTypes DEF Inv, Shapes, TierEarned
<1> QED  BY <1>1, <1>2, <1>4, <1>5, <1>7, <1>8, <1>9, Ends DEF Inv, Shapes

LEMMA CommitAdjustmentKeeps ==
    ASSUME Inv, NEW t \in Txn, CommitAdjustment(t)
    PROVE  Inv'
<1> DEFINE new == NewDebit(t, "adjust", Desired[t], None)
<1>1. /\ Finish(t) /\ UNCHANGED <<lots, spend, tier>> /\ debits' = debits \cup {new}
  BY DEF CommitAdjustment
<1>2. Goto(t, "ended") /\ Release(t) /\ local' = [local EXCEPT ![t] = Blank]
  BY <1>1 DEF Finish
<1>3. new.type = "adjust"
  BY DEF NewDebit
<1> HIDE DEF new
<1>4. \A d \in debits' \ debits : d.type # "spend"
  BY <1>1, <1>3
<1>5. SpentOnce'
  BY <1>4 DEF Inv, SpentOnce
<1>6. spend \in Nat /\ spend <= spend' /\ TierEarned'
  BY <1>1, SpentTypes DEF Inv, Shapes, TierEarned
<1> QED  BY <1>1, <1>2, <1>4, <1>5, <1>6, Ends DEF Inv, Shapes

LEMMA AdvanceTierIs ==
    ASSUME NEW r \in TierRank, NEW s \in Nat, r <= DeriveTier(s)
    PROVE  AdvanceTier(r, s) \in TierRank /\ r <= AdvanceTier(r, s)
           /\ AdvanceTier(r, s) <= DeriveTier(s)
BY DeriveTierIs DEF AdvanceTier, TierRank

(* An order raises the spend, and the tier as far as the spend goes.       *)
LEMMA CommitOrderKeeps ==
    ASSUME Inv, NEW t \in Txn, CommitOrder(t)
    PROVE  Inv' /\ tier <= tier'
<1>1. /\ Finish(t) /\ spend' = Spent["after"] /\ UNCHANGED debits
      /\ tier' = AdvanceTier(tier, Spent["after"])
  BY DEF CommitOrder
<1>2. Goto(t, "ended") /\ Release(t) /\ local' = [local EXCEPT ![t] = Blank]
  BY <1>1 DEF Finish
<1>3. /\ spend \in Nat /\ Spent["after"] \in Nat /\ spend <= Spent["after"]
      /\ tier \in TierRank /\ tier <= DeriveTier(spend)
  BY SpentTypes DEF Inv, Shapes, TierEarned
<1>4. tier <= DeriveTier(Spent["after"])
  <2>1. DeriveTier(spend) \in Int /\ DeriveTier(Spent["after"]) \in Int /\ tier \in Int
    BY <1>3, DeriveTierIs DEF TierRank
  <2> QED  BY <1>3, <2>1, DeriveTierMonotone
<1>5. tier' \in TierRank /\ TierEarned' /\ tier <= tier'
  BY <1>1, <1>3, <1>4, AdvanceTierIs DEF TierEarned
<1>6. DOMAIN lots' \subseteq Lot
  BY IsolationConstants DEF CommitOrder, Inv, Shapes
<1>7. \A i \in DOMAIN lots : i \in DOMAIN lots' /\ lots'[i] = lots[i]
  BY DEF CommitOrder
<1>8. SpentOnce'
  BY <1>1 DEF Inv, SpentOnce
<1> QED  BY <1>1, <1>2, <1>3, <1>5, <1>6, <1>7, <1>8, Ends

(* A reconciliation writes the tier of the spend it has read: no more than *)
(* the spend has earned, and less than it was only if the spend has moved. *)
LEMMA CommitReconcileKeeps ==
    ASSUME Inv, NEW t \in Txn, CommitReconcile(t)
    PROVE  /\ Inv'
           /\ tier' < tier => CommitsReconcile(t) /\ local[t].spend # spend
<1>1. /\ Kind[t] = "reconcile" /\ step[t] = "commit" /\ Finish(t)
      /\ UNCHANGED <<debits, spend>>
      /\ tier' \in {tier, DeriveTier(local[t].spend)}
  BY DEF CommitReconcile, RecomputedTier
<1>2. Goto(t, "ended") /\ Release(t) /\ local' = [local EXCEPT ![t] = Blank]
  BY <1>1 DEF Finish
<1>3. /\ local[t].spend \in {Spent["before"], Spent["after"]} /\ local[t].spend <= spend
      /\ \A i \in Drifted(t) \cap Lot : lotLock[i] = t
  BY <1>1 DEF Inv, Sound, ReadSpend, HoldsDrifted
<1>4. /\ spend \in Nat /\ local[t].spend \in Nat
      /\ tier \in TierRank /\ tier <= DeriveTier(spend)
  BY <1>3, SpentTypes DEF Inv, Shapes, TierEarned
<1>5. /\ DeriveTier(local[t].spend) \in TierRank
      /\ DeriveTier(local[t].spend) <= DeriveTier(spend)
  BY <1>3, <1>4, DeriveTierIs, DeriveTierMonotone
<1>6. tier' \in TierRank /\ TierEarned'
  BY <1>1, <1>4, <1>5 DEF TierEarned
<1>7. DOMAIN lots' \subseteq Lot
  BY DEF CommitReconcile, Inv, Shapes
<1>8. \A i \in DOMAIN lots : lotLock[i] # t => i \in DOMAIN lots' /\ lots'[i] = lots[i]
  BY <1>3 DEF CommitReconcile, Inv, Shapes
<1>9. SpentOnce'
  BY <1>1 DEF Inv, SpentOnce
<1>10. Inv'
  BY <1>1, <1>2, <1>4, <1>6, <1>7, <1>8, <1>9, Ends DEF Inv, Shapes
<1>11. step'[t] = "ended"
  BY <1>2 DEF Goto, Inv, Shapes
<1>12. tier' < tier => local[t].spend # spend
  <2> SUFFICES ASSUME tier' < tier, local[t].spend = spend
               PROVE  FALSE
    OBVIOUS
  <2>1. tier' \in {tier, DeriveTier(spend)}
    BY <1>1
  <2>2. tier \in Int /\ DeriveTier(spend) \in Int
    BY <1>4, <1>5 DEF TierRank
  <2> QED  BY <1>4, <2>1, <2>2
<1> QED  BY <1>1, <1>10, <1>11, <1>12 DEF CommitsReconcile

-----------------------------------------------------------------------------
(* Every step, and the theorems of every scenario.                         *)

LEMMA StatementKeeps ==
    ASSUME Inv, NEW t \in Txn, Statement(t)
    PROVE  Inv'
<1>1. CASE Ask(t) \/ Begin(t) \/ LockCustomer(t)
  BY <1>1, AskKeeps, BeginKeeps, LockCustomerKeeps
<1>2. CASE CheckRedeem(t) \/ ReadClawback(t) \/ Measure(t) \/ SelectLots(t) \/ SelectMatured(t)
  BY <1>2, CheckRedeemKeeps, ReadClawbackKeeps, MeasureKeeps, SelectLotsKeeps,
     SelectMaturedKeeps
<1>3. CASE LoadCustomer(t) \/ ComputeBalance(t) \/ LoadLots(t) \/ LoadDebits(t)
           \/ UpdateRow(t) \/ UpdateLots(t)
  BY <1>3, LoadCustomerKeeps, ComputeBalanceKeeps, LoadLotsKeeps, LoadDebitsKeeps,
     UpdateRowKeeps, UpdateLotsKeeps
<1>4. CASE CommitDebit(t) \/ CommitExpiry(t) \/ CommitAdjustment(t) \/ CommitOrder(t)
           \/ CommitReconcile(t)
  BY <1>4, CommitDebitKeeps, CommitExpiryKeeps, CommitAdjustmentKeeps, CommitOrderKeeps,
     CommitReconcileKeeps
<1> QED  BY <1>1, <1>2, <1>3, <1>4 DEF Statement

LEMMA StepInv == Inv /\ [Next]_vars => Inv'
<1> SUFFICES ASSUME Inv, [Next]_vars
             PROVE  Inv'
  OBVIOUS
<1>1. ASSUME NEW t \in Txn, Statement(t)
      PROVE  Inv'
  BY <1>1, StatementKeeps
<1>2. ASSUME NEW t \in Txn, LockTimeout(t) \/ DeadlockDetected(t) \/ ConnectionLost(t)
      PROVE  Inv'
  BY <1>2, RollbackKeeps DEF LockTimeout, DeadlockDetected, ConnectionLost
<1>3. CASE Tick \/ UNCHANGED vars
  <2>1. UNCHANGED <<lots, debits, spend, tier, step, local, rowLock, lotLock>>
    BY <1>3 DEF Tick, vars, tables
  <2>2. Shapes' /\ SpentOnce' /\ TierEarned'
    BY <2>1 DEF Inv, Shapes, SpentOnce, TierEarned
  <2>3. \A t \in Txn : Sound(t)'
    BY <2>1 DEF Inv, Sound, Staged, HoldsRow, MaySpend, HoldsLots, HoldsDrifted, Drifted,
                ReadSpend
  <2> QED  BY <2>2, <2>3 DEF Inv
<1> QED  BY <1>1, <1>2, <1>3 DEF Next

(* What a transaction relies on between its statements holds whatever the  *)
(* others commit meanwhile.                                                *)
THEOREM Invariance == Spec => []Inv
BY InitInv, StepInv, PTL DEF Spec

LEMMA OneIsOne ==
    ASSUME SpentOnce
    PROVE  OneSpend
<1> DEFINE spends == {d \in debits : d.type = "spend"}
<1>1. CASE spends = {}
  BY <1>1, FS_EmptySet DEF OneSpend
<1>2. CASE \E e : e \in spends
  <2>1. PICK e : e \in spends
    BY <1>2
  <2>2. spends = {e}
    BY <2>1 DEF SpentOnce
  <2>3. Cardinality({e}) = 1
    BY FS_Singleton
  <2> QED  BY <2>2, <2>3 DEF OneSpend
<1> QED  BY <1>1, <1>2

(* Requests that bring one key spend once, whatever else runs beside them, *)
(* times out, deadlocks or loses its connection: the row is locked from    *)
(* the look-up of the key to the commit.                                   *)
THEOREM SpendsOnce == Spec => []OneSpend
<1>1. Inv => OneSpend
  BY OneIsOne DEF Inv
<1> QED  BY <1>1, Invariance, PTL

(* Nothing lowers the tier but a reconciliation whose read of the spend is *)
(* stale when it writes.                                                   *)
THEOREM LowersTierOnlyWhenStale == Spec => TierLoweredOnlyByStaleReads
<1> DEFINE Excused == \E t \in Txn : CommitsReconcile(t) /\ local[t].spend # spend
<1>1. ASSUME Inv, [Next]_vars
      PROVE  [tier' < tier => Excused]_vars
  <2> SUFFICES ASSUME Next
               PROVE  tier' < tier => Excused
    BY <1>1
  <2>1. tier \in Int
    BY <1>1 DEF Inv, Shapes, TierRank
  <2>2. ASSUME NEW t \in Txn, CommitReconcile(t)
        PROVE  tier' < tier => Excused
    BY <1>1, <2>2, CommitReconcileKeeps
  <2>3. ASSUME NEW t \in Txn, CommitOrder(t)
        PROVE  ~(tier' < tier)
    <3>1. Inv' /\ tier <= tier'
      BY <1>1, <2>3, CommitOrderKeeps
    <3>2. tier' \in Int
      BY <3>1 DEF Inv, Shapes, TierRank
    <3> QED  BY <2>1, <3>1, <3>2
  <2>4. CASE tier' = tier
    BY <2>1, <2>4
  <2>5. \/ tier' = tier
        \/ \E t \in Txn : CommitReconcile(t) \/ CommitOrder(t)
    BY DEF Next, Statement, tables, Ask, Begin, LockCustomer, CheckRedeem, ReadClawback,
           Measure, SelectLots, CommitDebit, SelectMatured, CommitExpiry, CommitAdjustment,
           LoadCustomer, ComputeBalance, LoadLots, LoadDebits, UpdateRow, UpdateLots,
           LockTimeout, DeadlockDetected, ConnectionLost, Tick
  <2> QED  BY <2>2, <2>3, <2>4, <2>5
<1> QED  BY <1>1, Invariance, PTL DEF Spec, TierLoweredOnlyByStaleReads

-----------------------------------------------------------------------------
(* Expiry.  A lot that a scan has expired stays empty, unless something    *)
(* writes its remainder back: only a reconciliation does.                  *)

(* No lot that is empty is given points.                                   *)
NothingRefilled == \A i \in DOMAIN lots : lots[i] = 0 => lots'[i] = 0

(* The reconciliations that overtake no scan: what they find empty when    *)
(* they write they leave empty.                                            *)
NoneRefills == \A t \in Txn : CommitReconcile(t) => NothingRefilled

(* What an entry of a scan says is gone is gone for good.                  *)
Exhausted == \A d \in debits : d.type = "expire" => d.lot \in DOMAIN lots /\ lots[d.lot] = 0

Expiry == Exhausted /\ ExpiredOnce

(* What the entries say stays so if no lot that is empty is refilled, and  *)
(* a new entry is about a lot that was not empty and is.                   *)
LEMMA StaysExpired ==
    ASSUME Expiry, NothingRefilled, DOMAIN lots \subseteq DOMAIN lots',
           \A d \in debits' \ debits : d.type = "expire" =>
               /\ d.lot \in DOMAIN lots /\ lots[d.lot] > 0
               /\ d.lot \in DOMAIN lots' /\ lots'[d.lot] = 0,
           \A d, e \in debits' \ debits :
               d.type = "expire" /\ e.type = "expire" /\ d.lot = e.lot => d = e
    PROVE  Expiry'
<1>1. Exhausted'
  BY DEF Expiry, Exhausted, NothingRefilled
<1>2. ExpiredOnce'
  BY DEF Expiry, Exhausted, ExpiredOnce
<1> QED  BY <1>1, <1>2 DEF Expiry

LEMMA StepExpiry ==
    ASSUME Inv, Expiry, [Next]_vars, [NoneRefills]_vars
    PROVE  Expiry'
<1>1. ASSUME NEW t \in Txn, CommitDebit(t)
      PROVE  Expiry'
  <2> DEFINE new == NewDebit(t, IF Kind[t] = "redeem" THEN "spend" ELSE "clawback",
                             local[t].amount, None)
  <2>1. \A i \in DOMAIN local[t].seen : lots[i] > 0
    BY <1>1 DEF CommitDebit, Inv, Sound, HoldsLots
  <2>2. NothingRefilled /\ DOMAIN lots \subseteq DOMAIN lots'
    BY <1>1, <2>1 DEF CommitDebit, NothingRefilled
  <2>3. debits' = debits \cup {new} /\ new.type # "expire"
    BY <1>1 DEF CommitDebit, NewDebit
  <2> HIDE DEF new
  <2> QED  BY <2>2, <2>3, StaysExpired
<1>2. ASSUME NEW t \in Txn, CommitExpiry(t)
      PROVE  Expiry'
  <2> DEFINE seen == local[t].seen
             New(i) == NewDebit(t, "expire", seen[i], i)
  <2>1. \A i \in DOMAIN seen : i \in DOMAIN lots /\ lots[i] > 0
    BY <1>2 DEF CommitExpiry, Inv, Sound, HoldsLots
  <2>2. \A i \in DOMAIN lots :
           /\ i \in DOMAIN lots'
           /\ lots'[i] = IF i \in DOMAIN seen THEN 0 ELSE lots[i]
    BY <1>2 DEF CommitExpiry
  <2>3. NothingRefilled /\ DOMAIN lots \subseteq DOMAIN lots'
    BY <2>2 DEF NothingRefilled
  <2>4. /\ debits' = debits \cup {New(i) : i \in DOMAIN seen}
        /\ \A i \in DOMAIN seen : New(i).lot = i
    BY <1>2 DEF CommitExpiry, NewDebit
  <2> HIDE DEF New
  <2>5. \A d \in debits' \ debits : \E i \in DOMAIN seen : d = New(i) /\ d.lot = i
    BY <2>4
  <2> QED  BY <2>1, <2>2, <2>3, <2>5, StaysExpired
<1>3. ASSUME NEW t \in Txn, CommitAdjustment(t)
      PROVE  Expiry'
  <2> DEFINE new == NewDebit(t, "adjust", Desired[t], None)
  <2>1. lots' = lots /\ debits' = debits \cup {new} /\ new.type # "expire"
    BY <1>3 DEF CommitAdjustment, NewDebit
  <2> HIDE DEF new
  <2> QED  BY <2>1, StaysExpired DEF NothingRefilled
<1>4. ASSUME NEW t \in Txn, CommitOrder(t)
      PROVE  Expiry'
  <2>1. /\ debits' = debits
        /\ \A i \in DOMAIN lots : i \in DOMAIN lots' /\ lots'[i] = lots[i]
    BY <1>4 DEF CommitOrder
  <2> QED  BY <2>1, StaysExpired DEF NothingRefilled
<1>5. ASSUME NEW t \in Txn, CommitReconcile(t)
      PROVE  Expiry'
  <2>1. debits' = debits /\ DOMAIN lots' = DOMAIN lots
    BY <1>5 DEF CommitReconcile
  <2>2. CASE NoneRefills
    <3>1. NothingRefilled
      BY <1>5, <2>2 DEF NoneRefills
    <3> QED  BY <2>1, <3>1, StaysExpired
  <2>3. CASE UNCHANGED vars
    BY <2>3 DEF vars, tables, Expiry, Exhausted, ExpiredOnce
  <2> QED  BY <2>2, <2>3
<1>6. CASE UNCHANGED <<lots, debits>>
  BY <1>6, StaysExpired DEF NothingRefilled
<1>7. CASE UNCHANGED vars
  BY <1>6, <1>7 DEF vars, tables
<1>8. Next => \/ UNCHANGED <<lots, debits>>
              \/ \E t \in Txn : \/ CommitDebit(t) \/ CommitExpiry(t) \/ CommitAdjustment(t)
                                \/ CommitOrder(t) \/ CommitReconcile(t)
  BY DEF Next, Statement, tables, Ask, Begin, LockCustomer, CheckRedeem, ReadClawback,
         Measure, SelectLots, SelectMatured, LoadCustomer, ComputeBalance, LoadLots,
         LoadDebits, UpdateRow, UpdateLots, LockTimeout, DeadlockDetected, ConnectionLost,
         Tick
<1> QED  BY <1>1, <1>2, <1>3, <1>4, <1>5, <1>6, <1>7, <1>8

(* Whatever scans, spends, refunds, pays and reconciles at once, a lot is  *)
(* expired by one entry as long as no reconciliation gives points back to  *)
(* a lot that is empty when it writes: a scan locks what it expires and    *)
(* finds points in it, and nothing else fills an empty lot.  Without the   *)
(* condition the claim is false: one that read the lot before a scan and   *)
(* the debits after a refund drew on it does give points back.             *)
THEOREM ExpiresOnce == Spec /\ [][NoneRefills]_vars => []ExpiredOnce
<1>1. Init => Expiry
  BY DEF Init, Expiry, Exhausted, ExpiredOnce
<1>2. Inv /\ Expiry /\ [Next]_vars /\ [NoneRefills]_vars => Expiry'
  BY StepExpiry
<1>3. Expiry => ExpiredOnce
  BY DEF Expiry
<1> HIDE DEF Expiry, NoneRefills, ExpiredOnce, Inv
<1> QED  BY <1>1, <1>2, <1>3, Invariance, PTL DEF Spec
-----------------------------------------------------------------------------
(* Types.  What the tables hold rests on what each transaction has noted   *)
(* on its way to the commit, and on the debits having places of their own  *)
(* in the order of the replay.                                             *)

Rows ==
    /\ Lot \ {NewLot} \subseteq DOMAIN lots
    /\ \A i \in DOMAIN lots : lots[i] \in 0..Original[i]
    /\ debits \subseteq Debit /\ IsFiniteSet(debits)
    /\ points \in Int /\ now \in 0..1 /\ begun \in Nat /\ attempts \in [Txn -> Nat]

(* What t, at statement s, has in its notes r: an amount that is positive  *)
(* and, for a clawback, within the head-room it has read; the lots it has  *)
(* locked as they are; and remainders no larger than the lots were.        *)
Note(t, s, r) ==
    /\ r.asOf \in 0..now /\ r.at \in 0..now /\ r.start \in Nat /\ r.points \in Int
    /\ Kind[t] \in {"redeem", "clawback"} /\ s \in {"measure", "draw", "commit"} =>
           r.amount \in Nat \ {0}
    /\ Kind[t] = "clawback" /\ s \in {"measure", "draw", "commit"} =>
           r.clawed \in Int /\ r.amount <= Original[OrderLot] - r.clawed
    /\ Kind[t] \in {"redeem", "clawback", "expire"} /\ s = "commit" =>
           \A i \in DOMAIN r.seen : r.seen[i] = lots[i]
    /\ Kind[t] = "reconcile" /\ s \in {"debits", "row", "write", "commit"} =>
           DOMAIN r.seen \subseteq DOMAIN lots /\ Lot \ {NewLot} \subseteq DOMAIN r.seen
    /\ Kind[t] = "reconcile" /\ s \in {"row", "write", "commit"} =>
           r.target \in Parts(DOMAIN r.seen)

Running(s) == s \notin {"absent", "idle", "asked", "ended"}

(* What tells two debits apart in the replay.                              *)
ApartInReplay(d, e) ==
    d.start # e.start \/ (None \notin {d.lot, e.lot} /\ d.lot # e.lot)

Placed ==
    /\ \A t \in Txn : Running(step[t]) =>
           local[t].start <= begun /\ \A d \in debits : d.start # local[t].start
    /\ \A t, u \in Txn : Running(step[t]) /\ Running(step[u]) /\ t # u =>
           local[t].start # local[u].start
    /\ \A d \in debits : d.start <= begun
    /\ \A d, e \in debits : d # e => ApartInReplay(d, e)

Typed == Rows /\ (\A t \in Txn : Note(t, step[t], local[t])) /\ Placed

LEMMA LotTypes ==
    /\ \A i \in Lot : Original[i] \in Nat \ {0}
    /\ IsFiniteSet(Lot) /\ \A S \in SUBSET Lot : IsFiniteSet(S)
    /\ OrderLot \in Lot /\ NewLot \in Lot /\ None \notin Lot
    /\ \A i \in Lot \ {NewLot} : i < NewLot
    /\ Lot \subseteq Nat
BY IsolationConstants, FS_Subset

LEMMA DebitsRanked ==
    ASSUME Rows, Placed
    PROVE  Ranked(debits)
<1> SUFFICES ASSUME NEW d \in debits, NEW e \in debits, d # e
             PROVE  InOrder(d, e) \/ InOrder(e, d)
  BY DEF Ranked
<1>1. /\ d.start \in Nat /\ e.start \in Nat
      /\ d.lot \in Lot \cup {None} /\ e.lot \in Lot \cup {None}
  BY DEF Rows, Debit
<1>2. CASE d.start # e.start
  BY <1>1, <1>2 DEF InOrder
<1>3. CASE d.start = e.start /\ None \notin {d.lot, e.lot} /\ d.lot # e.lot
  <2>1. d.lot \in Nat /\ e.lot \in Nat
    BY <1>1, <1>3, LotTypes
  <2> QED  BY <1>3, <2>1 DEF InOrder
<1> QED  BY <1>2, <1>3 DEF Placed, ApartInReplay

(* The notes of the others stay true of lots that they have locked.        *)
LEMMA NoteCarries ==
    ASSUME Inv, NEW u \in Txn, Note(u, step[u], local[u]),
           step'[u] = step[u], local'[u] = local[u],
           now \in 0..1, now' \in 0..1, now <= now', DOMAIN lots \subseteq DOMAIN lots',
           \A i \in DOMAIN lots : lotLock[i] = u => lots'[i] = lots[i]
    PROVE  Note(u, step[u], local[u])'
<1>1. Kind[u] \in {"redeem", "clawback", "expire"} /\ step[u] = "commit" =>
         \A i \in DOMAIN local[u].seen : i \in DOMAIN lots /\ lotLock[i] = u
  BY DEF Inv, Sound, HoldsLots
<1> QED  BY <1>1 DEF Note

LEMMA PlaceCarries ==
    ASSUME Placed, NEW t \in Txn,
           \A u \in Txn \ {t} : step'[u] = step[u] /\ local'[u] = local[u],
           begun' = begun, debits' = debits,
           Running(step'[t]) => Running(step[t]) /\ local'[t].start = local[t].start
    PROVE  Placed'
<1> DEFINE Place(u) == local[u].start
<1>1. \A u \in Txn : Running(step'[u]) => Running(step[u]) /\ local'[u].start = local[u].start
  OBVIOUS
<1> HIDE DEF Running
<1> QED  BY <1>1 DEF Placed, ApartInReplay

(* A statement that leaves the tables alone.                               *)
LEMMA NotesWell ==
    ASSUME Inv, Typed, NEW t \in Txn, NEW s \in Step, NEW r, r \in Known(r),
           Goto(t, s), local' = [local EXCEPT ![t] = r],
           UNCHANGED <<tables, now, begun>>, attempts' \in [Txn -> Nat],
           Note(t, s, r),
           Running(s) => Running(step[t]) /\ r.start = local[t].start
    PROVE  Typed'
<1>1. step' = [step EXCEPT ![t] = s]
  BY DEF Goto
<1>2. /\ step'[t] = s /\ local'[t] = r
      /\ \A u \in Txn \ {t} : step'[u] = step[u] /\ local'[u] = local[u]
  BY <1>1, MovesAlone DEF Inv
<1>3. UNCHANGED <<lots, debits, points>>
  BY DEF tables
<1>4. Rows'
  BY <1>3 DEF Typed, Rows
<1>5. Placed'
  BY <1>2, <1>3, PlaceCarries DEF Typed
<1>6. Note(t, step[t], local[t])'
  BY <1>2, <1>3 DEF Note
<1>7. ASSUME NEW u \in Txn \ {t}
      PROVE  Note(u, step[u], local[u])'
  <2>1. now \in 0..1 /\ now' \in 0..1 /\ now <= now'
    BY DEF Typed, Rows
  <2> QED  BY <1>2, <1>3, <2>1, NoteCarries DEF Typed
<1> QED  BY <1>4, <1>5, <1>6, <1>7 DEF Typed

LEMMA BlankNotes ==
    ASSUME Rows, NEW t \in Txn, NEW s \in {"idle", "ended"}
    PROVE  Note(t, s, Blank) /\ ~Running(s) /\ s \in Step
BY DEF Rows, Note, Blank, Running, Step

(* One that ends without a trace in the tables.                            *)
LEMMA EndsTyped ==
    ASSUME Inv, Typed, NEW t \in Txn, Finish(t) \/ Rollback(t), UNCHANGED <<tables, now, begun>>
    PROVE  Typed'
<1>1. PICK s \in {"idle", "ended"} : Goto(t, s)
  BY DEF Finish, Rollback
<1>2. local' = [local EXCEPT ![t] = Blank] /\ attempts' \in [Txn -> Nat]
  BY DEF Finish, Rollback, Typed, Rows
<1>3. Note(t, s, Blank) /\ ~Running(s) /\ s \in Step
  BY BlankNotes DEF Typed
<1> QED  BY <1>1, <1>2, <1>3, BlankIsKnown, NotesWell

(* One that ends with a commit: of lots it has locked or brought, and of   *)
(* debits in its place.                                                    *)
LEMMA CommitsTyped ==
    ASSUME Inv, Typed, NEW t \in Txn, Finish(t), Running(step[t]), UNCHANGED <<now, begun>>,
           Lot \ {NewLot} \subseteq DOMAIN lots', DOMAIN lots \subseteq DOMAIN lots',
           \A i \in DOMAIN lots' : lots'[i] \in 0..Original[i],
           \A i \in DOMAIN lots : lotLock[i] # t => lots'[i] = lots[i],
           points' \in Int,
           NEW new \in SUBSET Debit, IsFiniteSet(new), debits' = debits \cup new,
           \A d \in new : d.start = local[t].start,
           \A d, e \in new : d # e => ApartInReplay(d, e)
    PROVE  Typed'
<1>1. /\ "ended" \in Step /\ step' = [step EXCEPT ![t] = "ended"]
      /\ local' = [local EXCEPT ![t] = Blank] /\ attempts' = attempts
  BY DEF Finish, Goto, Step
<1>2. /\ step'[t] = "ended" /\ local'[t] = Blank
      /\ \A u \in Txn \ {t} : step'[u] = step[u] /\ local'[u] = local[u]
  BY <1>1, BlankIsKnown, MovesAlone DEF Inv
<1>3. Rows'
  <2>1. IsFiniteSet(debits')
    BY FS_Union DEF Typed, Rows
  <2> QED  BY <1>1, <2>1 DEF Typed, Rows
<1>4. Placed'
  <2>1. /\ local[t].start <= begun /\ local[t].start \in Nat
        /\ \A d \in debits : d.start # local[t].start
        /\ \A u \in Txn \ {t} : Running(step[u]) => local[u].start # local[t].start
    BY DEF Typed, Placed, Note
  <2>2. \A u \in Txn : Running(step'[u]) =>
           u # t /\ step'[u] = step[u] /\ local'[u] = local[u]
    BY <1>2 DEF Running
  <2> HIDE DEF Running
  <2>3. \A u \in Txn : Running(step'[u]) =>
           local'[u].start <= begun' /\ \A d \in debits' : d.start # local'[u].start
    BY <2>1, <2>2 DEF Typed, Placed
  <2>4. \A u, w \in Txn : Running(step'[u]) /\ Running(step'[w]) /\ u # w =>
           local'[u].start # local'[w].start
    BY <2>2 DEF Typed, Placed
  <2>5. \A d \in debits' : d.start <= begun'
    BY <2>1 DEF Typed, Placed
  <2>6. ASSUME NEW d \in debits', NEW e \in debits', d # e
        PROVE  ApartInReplay(d, e)
    BY <2>1, <2>6 DEF Typed, Placed, ApartInReplay
  <2> QED  BY <2>3, <2>4, <2>5, <2>6 DEF Placed, ApartInReplay
<1>5. Note(t, step[t], local[t])'
  <2>1. now' \in 0..1
    BY DEF Typed, Rows
  <2> QED  BY <1>2, <2>1 DEF Note, Blank
<1>6. ASSUME NEW u \in Txn \ {t}
      PROVE  Note(u, step[u], local[u])'
  <2>1. now \in 0..1 /\ now' \in 0..1 /\ now <= now'
    BY DEF Typed, Rows
  <2>2. \A i \in DOMAIN lots : lotLock[i] = u => lots'[i] = lots[i]
    OBVIOUS
  <2> QED  BY <1>2, <2>1, <2>2, NoteCarries DEF Typed
<1> QED  BY <1>3, <1>4, <1>5, <1>6 DEF Typed

(* New lots and new debits are what they are called.                       *)
LEMMA NewDebitIs ==
    ASSUME Typed, NEW t \in Txn, NEW type \in {"spend", "clawback", "expire", "adjust"},
           NEW n \in Nat \ {0}, NEW lot \in Lot \cup {None}
    PROVE  /\ NewDebit(t, type, n, lot) \in Debit
           /\ NewDebit(t, type, n, lot).start = local[t].start
           /\ NewDebit(t, type, n, lot).type = type
           /\ NewDebit(t, type, n, lot).points = n
           /\ NewDebit(t, type, n, lot).lot = lot
           /\ NewDebit(t, type, n, lot).at = local[t].at
<1>1. local[t].at \in 0..1 /\ local[t].start \in Nat
  BY DEF Typed, Rows, Note
<1> QED  BY <1>1 DEF NewDebit, Debit

LEMMA RecordOf ==
    ASSUME Inv, NEW t \in Txn
    PROVE  local[t] \in Known(local[t]) /\ Staged(t)
BY DEF Inv, Shapes, Sound

LEMMA InitTyped == Init => Typed
<1> SUFFICES ASSUME Init
             PROVE  Typed
  OBVIOUS
<1>1. Shapes
  BY InitInv DEF Inv
<1>2. /\ lots = [i \in Lot \ {NewLot} |-> Original[i]] /\ debits = {} /\ now = 0 /\ begun = 0
      /\ attempts = [t \in Txn |-> 0] /\ points = SumLots(Original, Lot \ {NewLot})
      /\ \A t \in Txn : step[t] \in {"idle", "absent"} /\ local[t] = Blank
  BY DEF Init
<1>3. points \in Nat
  <2>1. /\ IsFiniteSet(Lot \ {NewLot})
        /\ \A i \in Lot \ {NewLot} : Original[i] \in Nat
    BY LotTypes
  <2> QED  BY <1>2, <2>1, SumLotsType
<1>4. Rows
  <2>1. DOMAIN lots = Lot \ {NewLot} /\ \A i \in DOMAIN lots : lots[i] = Original[i]
    BY <1>2
  <2>2. \A i \in Lot : Original[i] \in 0..Original[i]
    <3> SUFFICES ASSUME NEW i \in Lot
                 PROVE  Original[i] \in 0..Original[i]
      OBVIOUS
    <3>1. Original[i] \in Nat
      BY LotTypes
    <3> QED  BY <3>1
  <2>3. \A i \in DOMAIN lots : lots[i] \in 0..Original[i]
    BY <2>1, <2>2
  <2>4. debits \in SUBSET Debit /\ IsFiniteSet(debits) /\ attempts \in [Txn -> Nat]
    BY <1>2, FS_EmptySet
  <2> QED  BY <1>2, <1>3, <2>1, <2>3, <2>4 DEF Rows
<1>5. \A t \in Txn : Note(t, step[t], local[t])
  BY <1>2 DEF Note, Blank
<1>6. Placed
  BY <1>2 DEF Placed, Running
<1> QED  BY <1>4, <1>5, <1>6 DEF Typed

LEMMA AskTyped ==
    ASSUME Inv, Typed, NEW t \in Txn, Ask(t)
    PROVE  Typed'
<1> DEFINE r == [local[t] EXCEPT !.asOf = now]
<1>1. r \in Known(r) /\ local' = [local EXCEPT ![t] = r]
  BY RecordOf DEF Ask, Known
<1>2. /\ r.asOf = now /\ r.at = local[t].at /\ r.start = local[t].start
      /\ r.points = local[t].points
  BY RecordOf DEF Known
<1> HIDE DEF r
<1>3. Note(t, "asked", r)
  BY <1>2 DEF Typed, Rows, Note
<1>4. "asked" \in Step /\ ~Running("asked") /\ attempts \in [Txn -> Nat]
  BY DEF Step, Running, Typed, Rows
<1> QED  BY <1>1, <1>3, <1>4, NotesWell DEF Ask

(* BEGIN gives a transaction a place that nobody has.                      *)
LEMMA BeginTyped ==
    ASSUME Inv, Typed, NEW t \in Txn, Begin(t)
    PROVE  Typed'
<1> DEFINE r == [local[t] EXCEPT !.asOf = IF Kind[t] = "redeem" THEN @ ELSE now,
                                 !.at = now, !.start = begun + 1]
           s == CASE Kind[t] \in {"redeem", "earn"} -> "lock"
                  [] Kind[t] \in {"clawback", "expire"} -> "read"
                  [] Kind[t] = "adjust" -> "commit"
                  [] OTHER -> "load"
<1>1. r \in Known(r) /\ local' = [local EXCEPT ![t] = r] /\ Goto(t, s)
  BY RecordOf DEF Begin, Known
<1>2. \/ Kind[t] \in {"redeem", "earn"} /\ s = "lock"
      \/ Kind[t] \in {"clawback", "expire"} /\ s = "read"
      \/ Kind[t] = "adjust" /\ s = "commit"
      \/ Kind[t] = "reconcile" /\ s = "load"
  BY IsolationConstants
<1>3. /\ r.asOf \in {local[t].asOf, now} /\ r.at = now /\ r.start = begun + 1
      /\ r.points = local[t].points
  BY RecordOf DEF Known
<1> HIDE DEF r, s
<1>4. /\ s \in Step /\ begun \in Nat /\ begun' = begun + 1
      /\ UNCHANGED <<lots, debits, points, now, attempts>>
  BY <1>2 DEF Step, Typed, Rows, Begin, tables
<1>5. step' = [step EXCEPT ![t] = s]
  BY <1>1 DEF Goto
<1>6. /\ step'[t] = s /\ local'[t] = r
      /\ \A u \in Txn \ {t} : step'[u] = step[u] /\ local'[u] = local[u]
  BY <1>1, <1>4, <1>5, MovesAlone DEF Inv
<1>7. Rows'
  BY <1>4 DEF Typed, Rows
<1>8. Note(t, step[t], local[t])'
  <2>1. Note(t, s, r)
    BY <1>2, <1>3, <1>4 DEF Typed, Rows, Note
  <2> QED  BY <1>4, <1>6, <2>1 DEF Note
<1>9. ASSUME NEW u \in Txn \ {t}
      PROVE  Note(u, step[u], local[u])'
  <2>1. now \in 0..1 /\ now' \in 0..1 /\ now <= now'
    BY <1>4 DEF Typed, Rows
  <2> QED  BY <1>4, <1>6, <2>1, NoteCarries DEF Typed
<1>10. Placed'
  <2>1. \A u \in Txn \ {t} : Running(step[u]) => local[u].start \in Nat /\ local[u].start <= begun
    BY DEF Typed, Note, Placed
  <2>2. \A d \in debits : d.start \in Nat /\ d.start <= begun
    BY DEF Typed, Rows, Placed, Debit
  <2> HIDE DEF Running
  <2>3. \A u \in Txn : Running(step'[u]) =>
           local'[u].start <= begun' /\ \A d \in debits' : d.start # local'[u].start
    BY <1>3, <1>4, <1>6, <2>1, <2>2 DEF Typed, Placed
  <2>4. \A u, w \in Txn : Running(step'[u]) /\ Running(step'[w]) /\ u # w =>
           local'[u].start # local'[w].start
    BY <1>3, <1>4, <1>6, <2>1 DEF Typed, Placed
  <2>5. \A d \in debits' : d.start <= begun'
    BY <1>4, <2>2
  <2> QED  BY <1>4, <2>3, <2>4, <2>5 DEF Typed, Placed, ApartInReplay
<1> QED  BY <1>7, <1>8, <1>9, <1>10 DEF Typed

(* Statements that only take locks, and keep the notes as they are.        *)
LEMMA LocksTyped ==
    ASSUME Inv, Typed, NEW t \in Txn, NEW s \in Step, Goto(t, s), local' = local,
           UNCHANGED <<tables, now, begun, attempts>>,
           Running(step[t]), Note(t, s, local[t])
    PROVE  Typed'
<1>1. local' = [local EXCEPT ![t] = local[t]]
  BY DEF Inv, Shapes
<1>2. attempts' \in [Txn -> Nat]
  BY DEF Typed, Rows
<1> QED  BY <1>1, <1>2, RecordOf, NotesWell

LEMMA LockCustomerTyped ==
    ASSUME Inv, Typed, NEW t \in Txn, LockCustomer(t)
    PROVE  Typed'
<1> DEFINE s == IF Kind[t] = "redeem" THEN "check" ELSE "commit"
<1>1. Kind[t] \in {"redeem", "earn"} /\ Running(step[t])
  BY RecordOf DEF LockCustomer, Staged, Running
<1>2. s \in Step /\ Goto(t, s)
  BY DEF Step, LockCustomer
<1>3. Note(t, s, local[t])
  BY <1>1 DEF Typed, Note
<1> QED  BY <1>1, <1>2, <1>3, LocksTyped DEF LockCustomer

LEMMA UpdateRowTyped ==
    ASSUME Inv, Typed, NEW t \in Txn, UpdateRow(t)
    PROVE  Typed'
<1>1. Kind[t] = "reconcile" /\ Running(step[t]) /\ "write" \in Step /\ step[t] = "row"
  BY RecordOf DEF UpdateRow, Staged, Running, Step
<1>2. Note(t, "write", local[t])
  BY <1>1 DEF Typed, Note
<1> QED  BY <1>1, <1>2, LocksTyped DEF UpdateRow

LEMMA UpdateLotsTyped ==
    ASSUME Inv, Typed, NEW t \in Txn, UpdateLots(t)
    PROVE  Typed'
<1>1. Kind[t] = "reconcile" /\ Running(step[t]) /\ "commit" \in Step /\ step[t] = "write"
  BY RecordOf DEF UpdateLots, Staged, Running, Step
<1>2. Note(t, "commit", local[t])
  BY <1>1 DEF Typed, Note
<1> QED  BY <1>1, <1>2, LocksTyped DEF UpdateLots

LEMMA CheckRedeemTyped ==
    ASSUME Inv, Typed, NEW t \in Txn, CheckRedeem(t)
    PROVE  Typed'
<1>1. /\ Kind[t] = "redeem" /\ step[t] = "check" /\ Running(step[t]) /\ "draw" \in Step
      /\ UNCHANGED <<tables, now, begun>>
  BY RecordOf DEF CheckRedeem, Staged, Running, Step
<1>2. CASE Finish(t) \/ Rollback(t)
  BY <1>1, <1>2, EndsTyped
<1>3. CASE /\ Goto(t, "draw")
           /\ local' = [local EXCEPT ![t].amount = Cost]
           /\ UNCHANGED <<attempts, rowLock, lotLock>>
  <2> DEFINE r == [local[t] EXCEPT !.amount = Cost]
  <2>1. r \in Known(r) /\ local' = [local EXCEPT ![t] = r]
    BY <1>3, RecordOf DEF Known
  <2>2. /\ r.asOf = local[t].asOf /\ r.at = local[t].at /\ r.start = local[t].start
        /\ r.points = local[t].points /\ r.amount = Cost
    BY RecordOf DEF Known
  <2> HIDE DEF r
  <2>3. Note(t, "draw", r)
    BY <1>1, <2>2, IsolationConstants DEF Typed, Note
  <2>4. attempts' \in [Txn -> Nat]
    BY <1>3 DEF Typed, Rows
  <2> QED  BY <1>1, <1>3, <2>1, <2>2, <2>3, <2>4, NotesWell
<1> QED  BY <1>2, <1>3 DEF CheckRedeem

(* The head-room of the order, as it is read and before it is taken.       *)
LEMMA ClawedType ==
    ASSUME Typed
    PROVE  /\ Clawed \in SUBSET Debit /\ IsFiniteSet(Clawed)
           /\ SumOf(Clawed) \in Int /\ HeadRoom \in Int
<1>1. Clawed \in SUBSET Debit /\ IsFiniteSet(Clawed)
  BY FS_Subset DEF Typed, Rows, Clawed
<1>2. SumOf(Clawed) \in Int
  BY <1>1, SumOfType
<1> QED  BY <1>1, <1>2, LotTypes DEF HeadRoom

LEMMA ReadClawbackTyped ==
    ASSUME Inv, Typed, NEW t \in Txn, ReadClawback(t)
    PROVE  Typed'
<1>1. /\ Kind[t] = "clawback" /\ step[t] = "read" /\ Running(step[t]) /\ "measure" \in Step
      /\ UNCHANGED <<tables, now, begun>>
  BY DEF ReadClawback, Running, Step
<1>2. CASE Finish(t)
  BY <1>1, <1>2, EndsTyped
<1>3. CASE /\ ~(HeadRoom <= 0)
           /\ Goto(t, "measure")
           /\ local' = [local EXCEPT ![t].clawed = SumOf(Clawed),
                                     ![t].amount = IF Desired[t] < HeadRoom
                                                   THEN Desired[t] ELSE HeadRoom]
           /\ UNCHANGED <<attempts, rowLock, lotLock>>
  <2> DEFINE n == IF Desired[t] < HeadRoom THEN Desired[t] ELSE HeadRoom
             r == [local[t] EXCEPT !.clawed = SumOf(Clawed), !.amount = n]
  <2>1. local' = [local EXCEPT ![t].clawed = SumOf(Clawed), ![t].amount = n]
    BY <1>3
  <2>2. SumOf(Clawed) \in Int /\ HeadRoom \in Int /\ Desired[t] \in Nat \ {0}
    BY ClawedType, IsolationConstants
  <2>3. n \in Nat \ {0} /\ n <= HeadRoom
    BY <1>3, <2>2
  <2> HIDE DEF n
  <2>4. r \in Known(r) /\ local' = [local EXCEPT ![t] = r]
    BY <2>1, RecordOf DEF Known
  <2>5. /\ r.asOf = local[t].asOf /\ r.at = local[t].at /\ r.start = local[t].start
        /\ r.points = local[t].points /\ r.amount = n /\ r.clawed = SumOf(Clawed)
    BY RecordOf DEF Known
  <2> HIDE DEF r
  <2>6. Note(t, "measure", r)
    BY <1>1, <2>2, <2>3, <2>5 DEF Typed, Note, HeadRoom
  <2>7. attempts' \in [Txn -> Nat]
    BY <1>3 DEF Typed, Rows
  <2> QED  BY <1>1, <1>3, <2>4, <2>5, <2>6, <2>7, NotesWell
<1> QED  BY <1>2, <1>3 DEF ReadClawback

(* The points that may be drawn on at a time.                              *)
LEMMA ConsumableType ==
    ASSUME Inv, Rows, NEW time
    PROVE  /\ Consumable(time) \in SUBSET Lot /\ IsFiniteSet(Consumable(time))
           /\ SumLots(lots, Consumable(time)) \in Nat
<1>1. /\ Consumable(time) \in SUBSET Lot
      /\ \A i \in Consumable(time) : lots[i] \in 0..Original[i] /\ Original[i] \in Nat
  BY LotTypes DEF Inv, Shapes, Rows, Consumable
<1>2. \A i \in Consumable(time) : lots[i] \in Nat
  BY <1>1
<1> QED  BY <1>1, <1>2, LotTypes, SumLotsType

LEMMA MeasureTyped ==
    ASSUME Inv, Typed, NEW t \in Txn, Measure(t)
    PROVE  Typed'
<1> DEFINE spendable == SumLots(lots, Consumable(now))
<1>1. /\ Kind[t] = "clawback" /\ step[t] = "measure" /\ Running(step[t]) /\ "draw" \in Step
      /\ UNCHANGED <<tables, now, begun>>
  BY RecordOf DEF Measure, Staged, Running, Step
<1>2. spendable \in Nat
  BY ConsumableType DEF Typed
<1>3. CASE Finish(t)
  BY <1>1, <1>3, EndsTyped
<1>4. CASE /\ spendable # 0
           /\ Goto(t, "draw")
           /\ local' = [local EXCEPT ![t].amount = IF spendable < @ THEN spendable ELSE @]
           /\ UNCHANGED <<attempts, rowLock, lotLock>>
  <2> DEFINE n == IF spendable < local[t].amount THEN spendable ELSE local[t].amount
             r == [local[t] EXCEPT !.amount = n]
  <2> HIDE DEF spendable
  <2>1. /\ local[t].amount \in Nat \ {0} /\ local[t].clawed \in Int
        /\ local[t].amount <= Original[OrderLot] - local[t].clawed
        /\ Original[OrderLot] \in Nat
    BY <1>1, LotTypes DEF Typed, Note
  <2>2. n \in Nat \ {0} /\ n <= local[t].amount /\ n <= spendable
    BY <1>2, <1>4, <2>1
  <2>3. r \in Known(r) /\ local' = [local EXCEPT ![t] = r]
    BY <1>4, RecordOf DEF Known
  <2> HIDE DEF n
  <2>4. /\ r.asOf = local[t].asOf /\ r.at = local[t].at /\ r.start = local[t].start
        /\ r.points = local[t].points /\ r.amount = n /\ r.clawed = local[t].clawed
    BY RecordOf DEF Known
  <2> HIDE DEF r
  <2>5. n <= Original[OrderLot] - local[t].clawed
    BY <2>1, <2>2
  <2>6. Note(t, "draw", r)
    BY <1>1, <2>1, <2>2, <2>4, <2>5 DEF Typed, Note
  <2>7. attempts' \in [Txn -> Nat]
    BY <1>4 DEF Typed, Rows
  <2> QED  BY <1>1, <1>4, <2>3, <2>4, <2>6, <2>7, NotesWell
<1> QED  BY <1>3, <1>4 DEF Measure

LEMMA SelectedTyped ==
    ASSUME Inv, Typed, NEW t \in Txn, Running(step[t]), Kind[t] \in {"redeem", "clawback", "expire"},
           Kind[t] # "expire" => step[t] = "draw",
           \A i \in Wanted(t) : i \in DOMAIN lots, Goto(t, "commit"),
           local' = [local EXCEPT ![t].seen = Restrict(lots, Wanted(t))],
           UNCHANGED <<tables, now, begun, attempts>>
    PROVE  Typed'
<1> DEFINE f == Restrict(lots, Wanted(t))
           r == [local[t] EXCEPT !.seen = f]
<1>1. \A i \in DOMAIN f : f[i] = lots[i]
  BY DEF Restrict
<1> HIDE DEF f
<1>2. r \in Known(r) /\ local' = [local EXCEPT ![t] = r]
  BY RecordOf DEF Known, f
<1>3. /\ r.asOf = local[t].asOf /\ r.at = local[t].at /\ r.start = local[t].start
      /\ r.points = local[t].points /\ r.amount = local[t].amount
      /\ r.clawed = local[t].clawed /\ r.seen = f
  BY RecordOf DEF Known
<1> HIDE DEF r
<1>4. Note(t, "commit", r)
  BY <1>1, <1>3 DEF Typed, Note
<1>5. attempts' \in [Txn -> Nat] /\ "commit" \in Step
  BY DEF Typed, Rows, Step
<1> QED  BY <1>2, <1>3, <1>4, <1>5, NotesWell

LEMMA SelectLotsTyped ==
    ASSUME Inv, Typed, NEW t \in Txn, SelectLots(t)
    PROVE  Typed'
<1>1. /\ step[t] = "draw" /\ Kind[t] \in {"redeem", "clawback"} /\ Running(step[t])
      /\ UNCHANGED <<tables, now, begun>>
  BY RecordOf DEF SelectLots, Staged, Running
<1>2. \A i \in Wanted(t) : i \in DOMAIN lots
  BY <1>1 DEF Wanted, Consumable
<1> QED  BY <1>1, <1>2, EndsTyped, SelectedTyped DEF SelectLots

LEMMA SelectMaturedTyped ==
    ASSUME Inv, Typed, NEW t \in Txn, SelectMatured(t)
    PROVE  Typed'
<1>1. /\ step[t] = "read" /\ Kind[t] = "expire" /\ Running(step[t])
      /\ UNCHANGED <<tables, now, begun>>
  BY DEF SelectMatured, Running
<1>2. \A i \in Wanted(t) : i \in DOMAIN lots
  BY <1>1 DEF Wanted
<1> QED  BY <1>1, <1>2, EndsTyped, SelectedTyped DEF SelectMatured

(* A reconciliation reads on.                                              *)
LEMMA ReadsTyped ==
    ASSUME Inv, Typed, NEW t \in Txn, Running(step[t]), NEW s \in Step, Goto(t, s),
           NEW r, r \in Known(r), local' = [local EXCEPT ![t] = r],
           r.start = local[t].start, Note(t, s, r),
           UNCHANGED <<tables, now, begun, attempts>>
    PROVE  Typed'
<1>1. attempts' \in [Txn -> Nat]
  BY DEF Typed, Rows
<1> QED  BY <1>1, NotesWell

LEMMA LoadCustomerTyped ==
    ASSUME Inv, Typed, NEW t \in Txn, LoadCustomer(t)
    PROVE  Typed'
<1> DEFINE r == [local[t] EXCEPT !.spend = spend, !.points = points,
                                 !.drift = DeriveTier(spend) # tier]
<1>1. r \in Known(r) /\ local' = [local EXCEPT ![t] = r]
  BY RecordOf DEF LoadCustomer, Known
<1>2. /\ r.asOf = local[t].asOf /\ r.at = local[t].at /\ r.start = local[t].start
      /\ r.points = points
  BY RecordOf DEF Known
<1> HIDE DEF r
<1>3. Kind[t] = "reconcile" /\ Running(step[t]) /\ "balance" \in Step
  BY RecordOf DEF LoadCustomer, Staged, Running, Step
<1>4. Note(t, "balance", r)
  BY <1>2, <1>3 DEF Typed, Rows, Note
<1> QED  BY <1>1, <1>2, <1>3, <1>4, ReadsTyped DEF LoadCustomer

LEMMA BalanceType ==
    ASSUME Inv, Rows
    PROVE  Balance \in Int
<1>1. SumOf(debits) \in Int
  BY SumOfType DEF Rows
<1>2. DOMAIN lots \in SUBSET Lot /\ \A i \in DOMAIN lots : Original[i] \in Nat
  BY LotTypes DEF Inv, Shapes
<1>3. SumLots(Original, DOMAIN lots) \in Nat
  BY <1>2, LotTypes, SumLotsType
<1> QED  BY <1>1, <1>3 DEF Balance

LEMMA ComputeBalanceTyped ==
    ASSUME Inv, Typed, NEW t \in Txn, ComputeBalance(t)
    PROVE  Typed'
<1> DEFINE r == [local[t] EXCEPT !.points = Balance, !.drift = @ \/ Balance # local[t].points]
<1>1. r \in Known(r) /\ local' = [local EXCEPT ![t] = r]
  BY RecordOf DEF ComputeBalance, Known
<1>2. /\ r.asOf = local[t].asOf /\ r.at = local[t].at /\ r.start = local[t].start
      /\ r.points = Balance
  BY RecordOf DEF Known
<1> HIDE DEF r
<1>3. Kind[t] = "reconcile" /\ Running(step[t]) /\ "lots" \in Step
  BY RecordOf DEF ComputeBalance, Staged, Running, Step
<1>4. Note(t, "lots", r)
  BY <1>2, <1>3, BalanceType DEF Typed, Note
<1> QED  BY <1>1, <1>2, <1>3, <1>4, ReadsTyped DEF ComputeBalance

LEMMA LoadLotsTyped ==
    ASSUME Inv, Typed, NEW t \in Txn, LoadLots(t)
    PROVE  Typed'
<1> DEFINE r == [local[t] EXCEPT !.seen = lots]
<1>1. r \in Known(r) /\ local' = [local EXCEPT ![t] = r]
  BY RecordOf DEF LoadLots, Known
<1>2. /\ r.asOf = local[t].asOf /\ r.at = local[t].at /\ r.start = local[t].start
      /\ r.points = local[t].points /\ r.seen = lots
  BY RecordOf DEF Known
<1> HIDE DEF r
<1>3. Kind[t] = "reconcile" /\ Running(step[t]) /\ "debits" \in Step
  BY RecordOf DEF LoadLots, Staged, Running, Step
<1>4. Note(t, "debits", r)
  BY <1>2, <1>3 DEF Typed, Rows, Note
<1> QED  BY <1>1, <1>2, <1>3, <1>4, ReadsTyped DEF LoadLots

LEMMA LoadDebitsTyped ==
    ASSUME Inv, Typed, NEW t \in Txn, LoadDebits(t)
    PROVE  Typed'
<1> DEFINE ids == DOMAIN local[t].seen
           v == Replay(ids, debits)
           r == [local[t] EXCEPT !.target = v]
<1>1. Kind[t] = "reconcile" /\ step[t] = "debits" /\ Running(step[t]) /\ "row" \in Step
  BY RecordOf DEF LoadDebits, Staged, Running, Step
<1>2. ids \subseteq DOMAIN lots /\ Lot \ {NewLot} \subseteq ids
  BY <1>1 DEF Typed, Note
<1>3. v \in Parts(ids)
  <2>1. ids \in SUBSET Lot
    BY <1>2 DEF Inv, Shapes
  <2> HIDE DEF ids
  <2> QED  BY <2>1, ReplayIs, DebitsRanked DEF Typed, Rows
<1>4. local' = [local EXCEPT ![t].target = v]
  BY DEF LoadDebits, DebitsFound
<1> HIDE DEF v
<1>5. r \in Known(r) /\ local' = [local EXCEPT ![t] = r]
  BY <1>4, RecordOf DEF Known
<1>6. /\ r.asOf = local[t].asOf /\ r.at = local[t].at /\ r.start = local[t].start
      /\ r.points = local[t].points /\ r.seen = local[t].seen /\ r.target = v
  BY RecordOf DEF Known
<1> HIDE DEF r
<1>7. Note(t, "row", r)
  BY <1>1, <1>2, <1>3, <1>6 DEF Typed, Note
<1> QED  BY <1>1, <1>5, <1>6, <1>7, ReadsTyped DEF LoadDebits

(* The commits.                                                            *)
LEMMA CommitDebitTyped ==
    ASSUME Inv, Typed, NEW t \in Txn, CommitDebit(t)
    PROVE  Typed'
<1> DEFINE type == IF Kind[t] = "redeem" THEN "spend" ELSE "clawback"
           seen == local[t].seen
           ids == DOMAIN seen
           n == local[t].amount
           d == NewDebit(t, type, n, None)
           take == [i \in ids |-> FifoTake(seen, ids, n, i)]
<1>1. /\ step[t] = "commit" /\ Kind[t] \in {"redeem", "clawback"} /\ Running(step[t])
      /\ Finish(t) /\ UNCHANGED <<points, now, begun>> /\ debits' = debits \cup {d}
  BY DEF CommitDebit, Running
<1>2. /\ n \in Nat \ {0}
      /\ \A i \in ids : seen[i] = lots[i] /\ i \in DOMAIN lots /\ lotLock[i] = t
  BY <1>1 DEF Typed, Note, Inv, Sound, HoldsLots
<1>3. d \in Debit /\ d.start = local[t].start
  BY <1>2, NewDebitIs
<1>4. \A i \in DOMAIN lots : i \in Lot /\ lots[i] \in Nat /\ Original[i] \in Nat
         /\ lots[i] <= Original[i]
  BY LotTypes DEF Typed, Rows, Inv, Shapes
<1>5. lots' = [i \in DOMAIN lots |-> IF i \in ids THEN lots[i] - take[i] ELSE lots[i]]
  BY DEF CommitDebit
<1>6. \A i \in ids : take[i] \in Nat /\ take[i] <= lots[i]
  <2> SUFFICES ASSUME NEW i \in ids
               PROVE  take[i] \in Nat /\ take[i] <= lots[i]
    OBVIOUS
  <2>1. ids \in SUBSET Lot /\ (\A j \in ids : seen[j] \in Nat) /\ n \in Nat
    BY <1>2, <1>4
  <2>2. FifoTake(seen, ids, n, i) \in Nat /\ FifoTake(seen, ids, n, i) <= seen[i]
    BY <2>1, FifoTakeType
  <2> QED  BY <1>2, <2>2
<1> HIDE DEF take, d
<1>7. \A i \in DOMAIN lots' : lots'[i] \in 0..Original[i]
  <2> SUFFICES ASSUME NEW i \in DOMAIN lots
               PROVE  lots'[i] \in 0..Original[i]
    BY <1>5
  <2> QED  BY <1>4, <1>5, <1>6
<1>8. /\ DOMAIN lots' = DOMAIN lots /\ Lot \ {NewLot} \subseteq DOMAIN lots /\ points' \in Int
      /\ \A i \in DOMAIN lots : lotLock[i] # t => lots'[i] = lots[i]
  BY <1>1, <1>2, <1>5 DEF Typed, Rows
<1>9. {d} \in SUBSET Debit /\ IsFiniteSet({d})
  BY <1>3, FS_Singleton
<1>10. \A x \in {d} : x.start = local[t].start
  BY <1>3
<1> QED  BY <1>1, <1>7, <1>8, <1>9, <1>10, CommitsTyped

LEMMA CommitExpiryTyped ==
    ASSUME Inv, Typed, NEW t \in Txn, CommitExpiry(t)
    PROVE  Typed'
<1> DEFINE seen == local[t].seen
           ids == DOMAIN seen
           made == [i \in ids |-> NewDebit(t, "expire", seen[i], i)]
           new == {NewDebit(t, "expire", seen[i], i) : i \in ids}
<1>1. /\ step[t] = "commit" /\ Kind[t] = "expire" /\ Running(step[t])
      /\ Finish(t) /\ UNCHANGED <<points, now, begun>> /\ debits' = debits \cup new
      /\ lots' = [i \in DOMAIN lots |-> IF i \in ids THEN 0 ELSE lots[i]]
  BY DEF CommitExpiry, Running
<1>2. \A i \in ids : seen[i] = lots[i] /\ i \in DOMAIN lots /\ lotLock[i] = t /\ lots[i] > 0
  BY <1>1 DEF Typed, Note, Inv, Sound, HoldsLots
<1>3. \A i \in DOMAIN lots : i \in Lot /\ lots[i] \in Nat /\ Original[i] \in Nat
         /\ lots[i] <= Original[i]
  BY LotTypes DEF Typed, Rows, Inv, Shapes
<1>4. \A i \in ids : made[i] \in Debit /\ made[i].start = local[t].start /\ made[i].lot = i
                     /\ i # None
  <2> SUFFICES ASSUME NEW i \in ids
               PROVE  made[i] \in Debit /\ made[i].start = local[t].start /\ made[i].lot = i
                      /\ i # None
    OBVIOUS
  <2>1. seen[i] \in Nat \ {0} /\ i \in Lot \cup {None} /\ i # None
    BY <1>2, <1>3, LotTypes
  <2> QED  BY <2>1, NewDebitIs
<1>5. new = {made[i] : i \in ids}
  OBVIOUS
<1>6. IsFiniteSet(new)
  <2>1. IsFiniteSet(ids)
    BY <1>2, <1>3, LotTypes
  <2> HIDE DEF made, ids
  <2>2. made \in Surjection(ids, new)
    BY <1>5 DEF Surjection, made
  <2> QED  BY <2>1, <2>2, FS_Surjection
<1> HIDE DEF new, made
<1>7. \A i \in DOMAIN lots' : lots'[i] \in 0..Original[i]
  <2> SUFFICES ASSUME NEW i \in DOMAIN lots
               PROVE  lots'[i] \in 0..Original[i]
    BY <1>1
  <2> QED  BY <1>1, <1>3
<1>8. /\ DOMAIN lots' = DOMAIN lots /\ Lot \ {NewLot} \subseteq DOMAIN lots /\ points' \in Int
      /\ \A i \in DOMAIN lots : lotLock[i] # t => lots'[i] = lots[i]
  BY <1>1, <1>2 DEF Typed, Rows
<1>9. /\ new \in SUBSET Debit
      /\ \A d \in new : d.start = local[t].start
      /\ \A d, e \in new : d # e => ApartInReplay(d, e)
  BY <1>4, <1>5 DEF ApartInReplay
<1> QED  BY <1>1, <1>6, <1>7, <1>8, <1>9, CommitsTyped

LEMMA CommitAdjustmentTyped ==
    ASSUME Inv, Typed, NEW t \in Txn, CommitAdjustment(t)
    PROVE  Typed'
<1> DEFINE d == NewDebit(t, "adjust", Desired[t], None)
<1>1. /\ Running(step[t]) /\ Finish(t) /\ debits' = debits \cup {d}
      /\ UNCHANGED <<lots, points, now, begun>>
  BY DEF CommitAdjustment, Running
<1>2. d \in Debit /\ d.start = local[t].start
  <2>1. Desired[t] \in Nat \ {0}
    BY IsolationConstants
  <2> QED  BY <2>1, NewDebitIs
<1> HIDE DEF d
<1>3. {d} \in SUBSET Debit /\ IsFiniteSet({d}) /\ \A x \in {d} : x.start = local[t].start
  BY <1>2, FS_Singleton
<1> QED  BY <1>1, <1>3, CommitsTyped DEF Typed, Rows

(* Commits that bring no debit.                                            *)
LEMMA NoDebitTyped ==
    ASSUME Inv, Typed, NEW t \in Txn, Finish(t), Running(step[t]),
           UNCHANGED <<debits, now, begun>>,
           Lot \ {NewLot} \subseteq DOMAIN lots', DOMAIN lots \subseteq DOMAIN lots',
           \A i \in DOMAIN lots' : lots'[i] \in 0..Original[i],
           \A i \in DOMAIN lots : lotLock[i] # t => lots'[i] = lots[i],
           points' \in Int
    PROVE  Typed'
<1>1. {} \in SUBSET Debit /\ IsFiniteSet({}) /\ debits' = debits \cup {}
  BY FS_EmptySet
<1> QED  BY <1>1, CommitsTyped

LEMMA CommitOrderTyped ==
    ASSUME Inv, Typed, NEW t \in Txn, CommitOrder(t)
    PROVE  Typed'
<1>1. /\ Running(step[t]) /\ Finish(t) /\ UNCHANGED <<debits, points, now, begun>>
      /\ lots' = [i \in DOMAIN lots \cup {NewLot} |->
                    IF i \in DOMAIN lots THEN lots[i] ELSE Original[NewLot]]
  BY DEF CommitOrder, Running
<1>2. Original[NewLot] \in Nat
  BY LotTypes
<1>3. \A i \in DOMAIN lots' : lots'[i] \in 0..Original[i]
  <2> SUFFICES ASSUME NEW i \in DOMAIN lots \cup {NewLot}
               PROVE  lots'[i] \in 0..Original[i]
    BY <1>1
  <2>1. CASE i \in DOMAIN lots
    BY <1>1, <2>1 DEF Typed, Rows
  <2>2. CASE i \notin DOMAIN lots
    <3>1. i = NewLot /\ lots'[i] = Original[NewLot]
      BY <1>1, <2>2
    <3> QED  BY <1>2, <3>1
  <2> QED  BY <2>1, <2>2
<1> QED  BY <1>1, <1>3, NoDebitTyped DEF Typed, Rows

LEMMA CommitReconcileTyped ==
    ASSUME Inv, Typed, NEW t \in Txn, CommitReconcile(t)
    PROVE  Typed'
<1>1. /\ Kind[t] = "reconcile" /\ step[t] = "commit" /\ Running(step[t]) /\ Finish(t)
      /\ UNCHANGED <<debits, now, begun>> /\ points' \in {points, local[t].points}
      /\ lots' = [i \in DOMAIN lots |->
                    IF i \in Drifted(t) THEN local[t].target[i] ELSE lots[i]]
  BY DEF CommitReconcile, Running
<1>2. points' \in Int
  BY <1>1 DEF Typed, Rows, Note
<1>3. \A i \in Drifted(t) : local[t].target[i] \in Nat /\ local[t].target[i] <= Original[i]
                            /\ i \in DOMAIN lots
  BY <1>1 DEF Typed, Note, Drifted, Parts
<1>4. \A i \in DOMAIN lots' : lots'[i] \in 0..Original[i]
  <2> SUFFICES ASSUME NEW i \in DOMAIN lots
               PROVE  lots'[i] \in 0..Original[i]
    BY <1>1
  <2>1. Original[i] \in Nat /\ lots[i] \in 0..Original[i]
    BY LotTypes DEF Typed, Rows, Inv, Shapes
  <2> QED  BY <1>1, <1>3, <2>1
<1>5. \A i \in DOMAIN lots : lotLock[i] # t => lots'[i] = lots[i]
  BY <1>1 DEF Inv, Shapes, Sound, HoldsDrifted
<1> QED  BY <1>1, <1>2, <1>4, <1>5, NoDebitTyped DEF Typed, Rows

(* Every step.                                                             *)
LEMMA StatementTyped ==
    ASSUME Inv, Typed, NEW t \in Txn, Statement(t)
    PROVE  Typed'
<1>1. CASE Ask(t) \/ Begin(t) \/ LockCustomer(t)
  BY <1>1, AskTyped, BeginTyped, LockCustomerTyped
<1>2. CASE CheckRedeem(t) \/ ReadClawback(t) \/ Measure(t) \/ SelectLots(t) \/ SelectMatured(t)
  BY <1>2, CheckRedeemTyped, ReadClawbackTyped, MeasureTyped, SelectLotsTyped,
     SelectMaturedTyped
<1>3. CASE LoadCustomer(t) \/ ComputeBalance(t) \/ LoadLots(t) \/ LoadDebits(t)
           \/ UpdateRow(t) \/ UpdateLots(t)
  BY <1>3, LoadCustomerTyped, ComputeBalanceTyped, LoadLotsTyped, LoadDebitsTyped,
     UpdateRowTyped, UpdateLotsTyped
<1>4. CASE CommitDebit(t) \/ CommitExpiry(t) \/ CommitAdjustment(t) \/ CommitOrder(t)
           \/ CommitReconcile(t)
  BY <1>4, CommitDebitTyped, CommitExpiryTyped, CommitAdjustmentTyped, CommitOrderTyped,
     CommitReconcileTyped
<1> QED  BY <1>1, <1>2, <1>3, <1>4 DEF Statement

LEMMA StepTyped == Inv /\ Typed /\ [Next]_vars => Typed'
<1> SUFFICES ASSUME Inv, Typed, [Next]_vars
             PROVE  Typed'
  OBVIOUS
<1>1. ASSUME NEW t \in Txn, Statement(t)
      PROVE  Typed'
  BY <1>1, StatementTyped
<1>2. ASSUME NEW t \in Txn, LockTimeout(t) \/ DeadlockDetected(t) \/ ConnectionLost(t)
      PROVE  Typed'
  BY <1>2, EndsTyped DEF LockTimeout, DeadlockDetected, ConnectionLost
<1>3. CASE Tick \/ UNCHANGED vars
  <2>1. /\ UNCHANGED <<lots, debits, points, step, local, begun, attempts>>
        /\ now \in 0..1 /\ now' \in 0..1 /\ now <= now'
    BY <1>3 DEF Tick, vars, tables, Typed, Rows
  <2>2. Rows'
    BY <2>1 DEF Typed, Rows
  <2>3. Placed'
    BY <2>1 DEF Typed, Placed, ApartInReplay
  <2>4. \A u \in Txn : Note(u, step[u], local[u])'
    BY <2>1, NoteCarries DEF Typed
  <2> QED  BY <2>2, <2>3, <2>4 DEF Typed
<1> QED  BY <1>1, <1>2, <1>3 DEF Next

LEMMA TypedInvariance == Spec => [](Inv /\ Typed)
<1>1. Init => Inv /\ Typed
  BY InitInv, InitTyped
<1>2. (Inv /\ Typed) /\ [Next]_vars => (Inv /\ Typed)'
  BY StepInv, StepTyped
<1> QED  BY <1>1, <1>2, PTL DEF Spec

(* Types: above all, no lot is drawn below nothing or grows beyond what it *)
(* was, neither by a debit that read it before it was locked nor by what a *)
(* reconciliation writes back, and every debit is of a positive amount.    *)
THEOREM TypeCorrect == Spec => []TypeOK
<1>1. Inv /\ Typed => TypeOK
  <2> SUFFICES ASSUME Inv, Typed
               PROVE  TypeOK
    OBVIOUS
  <2>1. spend \in Nat
    BY SpentTypes DEF Inv, Shapes
  <2> QED  BY <2>1 DEF TypeOK, Inv, Shapes, Typed, Rows
<1> QED  BY <1>1, TypedInvariance, PTL

(* A scan's entry is for what the lot holds when it commits, and empties   *)
(* it (Property 9): nothing draws on the lot, and no reconciliation writes *)
(* it, between the select and the commit.                                  *)
ExpiresTheRemainder ==
    [][\A d \in debits' \ debits : d.type = "expire" =>
           d.lot \in DOMAIN lots /\ d.points = lots[d.lot] /\ lots'[d.lot] = 0]_vars

THEOREM ExpiresWhatRemains == Spec => ExpiresTheRemainder
<1> DEFINE Entire(d) == d.lot \in DOMAIN lots /\ d.points = lots[d.lot] /\ lots'[d.lot] = 0
           Exact == \A d \in debits' \ debits : d.type = "expire" => Entire(d)
<1>1. ASSUME Inv, Typed, NEW t \in Txn, CommitExpiry(t)
      PROVE  Exact
  <2> DEFINE seen == local[t].seen
             New(i) == NewDebit(t, "expire", seen[i], i)
  <2>1. \A i \in DOMAIN seen : i \in DOMAIN lots /\ seen[i] = lots[i]
    BY <1>1 DEF CommitExpiry, Inv, Sound, HoldsLots, Typed, Note
  <2>2. \A i \in DOMAIN seen : i \in DOMAIN lots => lots'[i] = 0
    BY <1>1 DEF CommitExpiry
  <2>3. /\ debits' = debits \cup {New(i) : i \in DOMAIN seen}
        /\ \A i \in DOMAIN seen : New(i).lot = i /\ New(i).points = seen[i]
    BY <1>1 DEF CommitExpiry, NewDebit
  <2> HIDE DEF New
  <2>4. ASSUME NEW d \in debits' \ debits
        PROVE  Entire(d)
    <3>1. PICK i \in DOMAIN seen : d = New(i)
      BY <2>3
    <3> QED  BY <2>1, <2>2, <2>3, <3>1
  <2> HIDE DEF Entire
  <2> QED  BY <2>4
<1>2. ASSUME NEW t \in Txn, CommitDebit(t) \/ CommitAdjustment(t)
      PROVE  Exact
  <2> DEFINE new == CASE CommitAdjustment(t) -> NewDebit(t, "adjust", Desired[t], None)
                      [] OTHER -> NewDebit(t, IF Kind[t] = "redeem" THEN "spend" ELSE "clawback",
                                           local[t].amount, None)
  <2>1. new.type # "expire"
    BY DEF NewDebit
  <2>2. debits' = debits \cup {new}
    BY <1>2 DEF CommitDebit, CommitAdjustment
  <2> HIDE DEF new
  <2> QED  BY <2>1, <2>2
<1>3. Next => \/ debits' = debits
              \/ \E t \in Txn : CommitDebit(t) \/ CommitExpiry(t) \/ CommitAdjustment(t)
  BY DEF Next, Statement, tables, Ask, Begin, LockCustomer, CheckRedeem, ReadClawback,
         Measure, SelectLots, SelectMatured, CommitOrder, LoadCustomer, ComputeBalance,
         LoadLots, LoadDebits, UpdateRow, UpdateLots, CommitReconcile, LockTimeout,
         DeadlockDetected, ConnectionLost, Tick
<1>4. debits' = debits => Exact
  OBVIOUS
<1> HIDE DEF Exact
<1>5. Inv /\ Typed /\ [Next]_vars => [Exact]_vars
  BY <1>1, <1>2, <1>3, <1>4
<1>6. Spec => [][Exact]_vars
  BY <1>5, TypedInvariance, PTL DEF Spec
<1> QED  BY <1>6 DEF ExpiresTheRemainder, Exact

-----------------------------------------------------------------------------
(* Clawbacks.                                                              *)

(* A clawback takes no more than the head-room that it has read: if no     *)
(* other has taken from the order since, what all have taken is within     *)
(* what the order earned.                                                  *)
LEMMA ClawsWithinWhatItRead ==
    ASSUME Inv, Typed, NEW t \in Txn, CommitDebit(t), Kind[t] = "clawback",
           local[t].clawed = SumOf(Clawed)
    PROVE  SumOf(Clawed') <= Original[OrderLot]
<1> DEFINE n == local[t].amount
           d == NewDebit(t, "clawback", n, None)
<1>1. /\ step[t] = "commit" /\ Running(step[t]) /\ debits' = debits \cup {d}
      /\ n \in Nat \ {0} /\ n <= Original[OrderLot] - local[t].clawed
  BY DEF CommitDebit, Running, Typed, Note
<1>2. d \in Debit /\ d.type = "clawback" /\ d.points = n /\ d.start = local[t].start
  BY <1>1, NewDebitIs
<1> HIDE DEF d
<1>3. d \notin debits
  BY <1>1, <1>2 DEF Typed, Placed
<1>4. Clawed' = Clawed \cup {d} /\ d \in Debit \ Clawed
  BY <1>1, <1>2, <1>3 DEF Clawed
<1>5. /\ Clawed \in SUBSET Debit /\ IsFiniteSet(Clawed) /\ SumOf(Clawed) \in Int
      /\ Original[OrderLot] \in Nat
  BY ClawedType, LotTypes
<1>6. SumOf(Clawed \cup {d}) = SumOf(Clawed) + d.points
  BY <1>4, <1>5, SumOfType
<1>7. SumOf(Clawed') = SumOf(Clawed) + n
  BY <1>2, <1>4, <1>6, Zenon
<1> QED  BY <1>1, <1>5, <1>7

(* Whatever is run, an order gives back more than it earned only where     *)
(* another clawback of it has committed since this one read what was left. *)
THEOREM ClawsBackWithinWhatItRead == Spec => ClawbackExceedsOnlyInRaces
<1> DEFINE Within(t) == Kind[t] = "clawback" /\ debits' # debits /\ step'[t] # step[t]
              => local[t].clawed # SumOf(Clawed) \/ SumOf(Clawed') <= Original[OrderLot]
<1>1. ASSUME Inv, Typed, [Next]_vars
      PROVE  [\A t \in Txn : Within(t)]_vars
  <2> SUFFICES ASSUME Next, NEW t \in Txn, Kind[t] = "clawback", debits' # debits,
                      step'[t] # step[t], local[t].clawed = SumOf(Clawed)
               PROVE  SumOf(Clawed') <= Original[OrderLot]
    BY <1>1
  <2>1. PICK u \in Txn : CommitDebit(u) \/ CommitExpiry(u) \/ CommitAdjustment(u)
    BY DEF Next, Statement, tables, Ask, Begin, LockCustomer, CheckRedeem, ReadClawback,
           Measure, SelectLots, SelectMatured, CommitOrder, LoadCustomer, ComputeBalance,
           LoadLots, LoadDebits, UpdateRow, UpdateLots, CommitReconcile, LockTimeout,
           DeadlockDetected, ConnectionLost, Tick
  <2>2. u = t
    <3>1. step' = [step EXCEPT ![u] = "ended"]
      BY <2>1 DEF CommitDebit, CommitExpiry, CommitAdjustment, Finish, Goto
    <3>2. step \in [Txn -> Step]
      BY <1>1 DEF Inv, Shapes
    <3> QED  BY <3>1, <3>2
  <2>3. CommitDebit(t)
    BY <2>1, <2>2 DEF CommitExpiry, CommitAdjustment
  <2> QED  BY <1>1, <2>3, ClawsWithinWhatItRead
<1> QED  BY <1>1, TypedInvariance, PTL DEF Spec, ClawbackExceedsOnlyInRaces

-----------------------------------------------------------------------------
(* One debit beside a reconciliation.  Before any lot has matured, and     *)
(* until a second entry is committed, every transaction has read the lots  *)
(* either whole or as the one debit left them.                             *)

(* What is left of lot i once d, and nothing else, has been drawn.         *)
After(d, i) == Original[i] - FifoTake(Original, Lot, d.points, i)

AtOriginal(f) == \A i \in DOMAIN f : f[i] = Original[i]

(* What a transaction has read where no entry has been committed: all of   *)
(* the lots, whole; and it asks for no more than they hold.                *)
ReadWhole(t, s, r) ==
    /\ Kind[t] \in {"redeem", "clawback"} /\ s = "commit" =>
           Lot \ {NewLot} \subseteq DOMAIN r.seen /\ r.amount <= SumLots(Original, DOMAIN r.seen)
    /\ Kind[t] = "reconcile" /\ s \in {"debits", "row", "write", "commit"} => AtOriginal(r.seen)
    /\ Kind[t] = "reconcile" /\ s \in {"row", "write", "commit"} => AtOriginal(r.target)

(* What a reconciliation is about to write where d alone has been: what d  *)
(* has left, or nothing.                                                   *)
ReadAround(d, t, s, r) ==
    Kind[t] = "reconcile" /\ s \in {"row", "write", "commit"} =>
        \/ \A i \in DOMAIN r.seen : r.target[i] = After(d, i)
        \/ \A i \in DOMAIN r.seen : r.target[i] = r.seen[i]

CalmNote(t, s, r) ==
    /\ ~(Kind[t] = "expire" /\ s = "commit")
    /\ debits = {} => ReadWhole(t, s, r)
    /\ \A d \in debits : debits = {d} => ReadAround(d, t, s, r)

(* d was drawn from lots that were whole, or it is an adjustment and the   *)
(* lots are whole still, unless they have been reconciled.                 *)
Drawn(d) ==
    /\ d.type \in {"spend", "clawback", "adjust"} /\ d.at = 0
    /\ \A i \in DOMAIN lots :
          lots[i] = After(d, i) \/ (d.type = "adjust" /\ lots[i] = Original[i])
    /\ d.type # "adjust" /\ NewLot \notin DOMAIN lots => d.points <= SumLots(Original, Lot \ {NewLot})

CalmLots ==
    /\ debits = {} => AtOriginal(lots)
    /\ \A d \in debits : debits = {d} => Drawn(d)

Calm == now = 0 => CalmLots /\ \A t \in Txn : CalmNote(t, step[t], local[t])

(* The lots before lot i are the same with and without the newest one.     *)
LEMMA TakesAlike ==
    ASSUME NEW ids \in SUBSET Lot, Lot \ {NewLot} \subseteq ids,
           NEW f, \A j \in ids : f[j] = Original[j], NEW n \in Nat, NEW i \in ids
    PROVE  FifoTake(f, ids, n, i) = FifoTake(Original, Lot, n, i)
<1> DEFINE A == {j \in ids : j < i}
           B == {j \in Lot : j < i}
<1>1. \A j \in Lot : j \in Nat /\ (j # NewLot => j < NewLot)
  BY LotTypes
<1>2. A = B
  BY <1>1
<1>3. IsFiniteSet(A) /\ \A j \in A : f[j] = Original[j]
  BY LotTypes
<1> HIDE DEF A
<1>4. SumLots(f, A) = SumLots(Original, B)
  BY <1>2, <1>3, SumLotsCompares
<1>5. /\ FifoTake(f, ids, n, i) = IF n - SumLots(f, A) <= 0 THEN 0
           ELSE IF n - SumLots(f, A) < f[i] THEN n - SumLots(f, A) ELSE f[i]
      /\ FifoTake(Original, Lot, n, i) = IF n - SumLots(Original, B) <= 0 THEN 0
           ELSE IF n - SumLots(Original, B) < Original[i] THEN n - SumLots(Original, B)
           ELSE Original[i]
  BY DEF FifoTake, A
<1> HIDE DEF B
<1> QED  BY <1>4, <1>5

(* What the others cover is not taken from the newest lot.                 *)
LEMMA NewestIsLast ==
    ASSUME NEW n \in Nat, n <= SumLots(Original, Lot \ {NewLot})
    PROVE  FifoTake(Original, Lot, n, NewLot) = 0
<1>1. \A j \in Lot : j < NewLot <=> j # NewLot
  <2>1. (\A j \in Lot : j \in Nat) /\ NewLot \in Nat /\ \A j \in Lot \ {NewLot} : j < NewLot
    BY LotTypes
  <2> QED  BY <2>1
<1>2. {j \in Lot : j < NewLot} = Lot \ {NewLot}
  BY <1>1
<1>3. SumLots(Original, Lot \ {NewLot}) \in Nat
  <2>1. IsFiniteSet(Lot \ {NewLot}) /\ \A i \in Lot \ {NewLot} : Original[i] \in Nat
    BY LotTypes
  <2> QED  BY <2>1, SumLotsType
<1>4. n - SumLots(Original, {j \in Lot : j < NewLot}) <= 0
  BY <1>2, <1>3
<1> QED  BY <1>4 DEF FifoTake

LEMMA AfterType ==
    ASSUME NEW d \in Debit, NEW i \in Lot
    PROVE  After(d, i) \in Int /\ After(d, i) <= Original[i]
<1>1. (\A j \in Lot : Original[j] \in Nat) /\ d.points \in Nat
  BY LotTypes DEF Debit
<1>2. FifoTake(Original, Lot, d.points, i) \in Nat
  BY <1>1, FifoTakeType
<1> QED  BY <1>1, <1>2 DEF After

(* Replaying one debit that is no expiry, from the time before any lot     *)
(* matured, leaves what that debit leaves.                                 *)
LEMMA ReplayOfOne ==
    ASSUME NEW ids \in SUBSET Lot, Lot \ {NewLot} \subseteq ids,
           NEW d \in Debit, d.type # "expire", d.at = 0
    PROVE  Replay(ids, {d}) = [i \in ids |-> After(d, i)]
<1> DEFINE f == Whole(ids)
<1>1. Replay(ids, {d}) = ReplayOne(f, d)
  <2>1. {d} \in SUBSET Debit /\ IsFiniteSet({d}) /\ Ranked({d})
    BY FS_Singleton DEF Ranked
  <2> HIDE DEF f
  <2> QED  BY <2>1, ReplayIs DEF f
<1>2. /\ DOMAIN f = ids /\ \A i \in ids : f[i] = Original[i] /\ f[i] > 0
      /\ {i \in DOMAIN f : f[i] > 0 /\ Live(i, d.at)} = ids
  <2>1. \A i \in ids : Original[i] > 0 /\ Live(i, d.at)
    <3> SUFFICES ASSUME NEW i \in ids
                 PROVE  Original[i] > 0 /\ Live(i, d.at)
      OBVIOUS
    <3>1. Original[i] \in Nat \ {0}
      BY LotTypes
    <3> QED  BY <3>1 DEF Live
  <2>2. DOMAIN f = ids /\ \A i \in ids : f[i] = Original[i]
    BY DEF Whole
  <2> HIDE DEF f
  <2> QED  BY <2>1, <2>2
<1> HIDE DEF f
<1>3. ReplayOne(f, d) = Draw(f, ids, d.points)
  BY <1>2 DEF ReplayOne
<1>4. \A i \in ids : FifoTake(f, ids, d.points, i) = FifoTake(Original, Lot, d.points, i)
  <2>1. d.points \in Nat
    BY DEF Debit
  <2> QED  BY <1>2, <2>1, TakesAlike
<1>5. Draw(f, ids, d.points) = [i \in ids |-> f[i] - FifoTake(f, ids, d.points, i)]
  BY <1>2 DEF Draw
<1> QED  BY <1>1, <1>2, <1>3, <1>4, <1>5 DEF After

-----------------------------------------------------------------------------
(* Calm is kept.                                                           *)

LEMMA InitCalm == Init => Calm
<1> SUFFICES ASSUME Init
             PROVE  Calm
  OBVIOUS
<1>1. /\ debits = {} /\ lots = [i \in Lot \ {NewLot} |-> Original[i]]
      /\ \A t \in Txn : step[t] \in {"idle", "absent"}
  BY DEF Init
<1> QED  BY <1>1 DEF Calm, CalmLots, CalmNote, AtOriginal, ReadWhole

(* Where the entries and the lots stay what they are, only the notes of    *)
(* the one that moves are at stake.                                        *)
LEMMA CalmMoves ==
    ASSUME Inv, Calm, NEW t \in Txn, NEW s \in Step, Goto(t, s),
           NEW r, r \in Known(r), local' = [local EXCEPT ![t] = r],
           UNCHANGED <<lots, debits, now>>,
           now = 0 => CalmNote(t, s, r)
    PROVE  Calm'
<1>1. step' = [step EXCEPT ![t] = s]
  BY DEF Goto
<1>2. /\ step'[t] = s /\ local'[t] = r
      /\ \A u \in Txn \ {t} : step'[u] = step[u] /\ local'[u] = local[u]
  BY <1>1, MovesAlone DEF Inv
<1> SUFFICES ASSUME now = 0
             PROVE  CalmLots' /\ \A u \in Txn : CalmNote(u, step[u], local[u])'
  BY DEF Calm
<1>3. CalmLots'
  BY DEF Calm, CalmLots, Drawn, After, AtOriginal
<1>4. CalmNote(t, step[t], local[t])'
  BY <1>2 DEF CalmNote, ReadAround, ReadWhole, After, AtOriginal
<1>5. \A u \in Txn \ {t} : CalmNote(u, step[u], local[u])'
  BY <1>2 DEF Calm, CalmNote, ReadAround, ReadWhole, After, AtOriginal
<1> QED  BY <1>3, <1>4, <1>5

(* Notes that are not yet, or not any more, of lots.                       *)
LEMMA EarlyIsCalm ==
    ASSUME NEW t \in Txn, NEW s, NEW r,
           \/ s \in {"idle", "asked", "ended", "lock", "check", "read", "measure", "draw",
                     "load", "balance", "lots"}
           \/ Kind[t] \in {"earn", "adjust"}
    PROVE  CalmNote(t, s, r)
BY DEF CalmNote, ReadWhole, ReadAround

LEMMA EndsCalm ==
    ASSUME Inv, Calm, NEW t \in Txn, Finish(t) \/ Rollback(t), UNCHANGED <<tables, now>>
    PROVE  Calm'
<1>1. PICK s \in {"idle", "ended"} : Goto(t, s)
  BY DEF Finish, Rollback
<1>2. local' = [local EXCEPT ![t] = Blank] /\ s \in Step /\ UNCHANGED <<lots, debits>>
  BY DEF Finish, Rollback, Step, tables
<1>3. CalmNote(t, s, Blank)
  BY EarlyIsCalm
<1> QED  BY <1>1, <1>2, <1>3, BlankIsKnown, CalmMoves

LEMMA EarlyCalm ==
    ASSUME Inv, Calm, NEW t \in Txn,
           Ask(t) \/ Begin(t) \/ LockCustomer(t) \/ LoadCustomer(t) \/ ComputeBalance(t)
    PROVE  Calm'
<1>1. UNCHANGED <<lots, debits, now>>
  BY DEF Ask, Begin, LockCustomer, LoadCustomer, ComputeBalance, tables
<1>2. PICK s \in Step :
        /\ Goto(t, s)
        /\ \/ s \in {"asked", "lock", "check", "read", "load", "balance", "lots"}
           \/ Kind[t] \in {"earn", "adjust"}
  <2>1. CASE Ask(t) \/ LoadCustomer(t) \/ ComputeBalance(t)
    BY <2>1 DEF Ask, LoadCustomer, ComputeBalance, Step
  <2>2. CASE LockCustomer(t)
    BY <2>2, RecordOf DEF LockCustomer, Staged, Step
  <2>3. CASE Begin(t)
    <3>1. Kind[t] \in {"redeem", "clawback", "expire", "earn", "adjust", "reconcile"}
      BY IsolationConstants
    <3> QED  BY <2>3, <3>1 DEF Begin, Step
  <2> QED  BY <2>1, <2>2, <2>3
<1>3. \E r : r \in Known(r) /\ local' = [local EXCEPT ![t] = r]
  <2>1. local = [u \in Txn |-> local[u]] /\ local[t] \in Known(local[t])
    BY DEF Inv, Shapes
  <2>2. CASE LockCustomer(t)
    BY <2>1, <2>2 DEF LockCustomer
  <2>3. CASE Ask(t)
    <3> DEFINE r == [local[t] EXCEPT !.asOf = now]
    <3>1. r \in Known(r) /\ local' = [local EXCEPT ![t] = r]
      BY <2>1, <2>3 DEF Ask, Known
    <3> QED  BY <3>1
  <2>4. CASE Begin(t)
    <3> DEFINE r == [local[t] EXCEPT !.asOf = IF Kind[t] = "redeem" THEN @ ELSE now,
                                     !.at = now, !.start = begun + 1]
    <3>1. r \in Known(r) /\ local' = [local EXCEPT ![t] = r]
      BY <2>1, <2>4 DEF Begin, Known
    <3> QED  BY <3>1
  <2>5. CASE LoadCustomer(t)
    <3> DEFINE r == [local[t] EXCEPT !.spend = spend, !.points = points,
                                     !.drift = DeriveTier(spend) # tier]
    <3>1. r \in Known(r) /\ local' = [local EXCEPT ![t] = r]
      BY <2>1, <2>5 DEF LoadCustomer, Known
    <3> QED  BY <3>1
  <2>6. CASE ComputeBalance(t)
    <3> DEFINE r == [local[t] EXCEPT !.points = Balance,
                                     !.drift = @ \/ Balance # local[t].points]
    <3>1. r \in Known(r) /\ local' = [local EXCEPT ![t] = r]
      BY <2>1, <2>6 DEF ComputeBalance, Known
    <3> QED  BY <3>1
  <2> QED  BY <2>2, <2>3, <2>4, <2>5, <2>6
<1> QED  BY <1>1, <1>2, <1>3, EarlyIsCalm, CalmMoves

(* Before any lot matures, every lot that holds points may be drawn on,    *)
(* and a scan finds nothing.                                               *)
LEMMA AllLive ==
    ASSUME Inv, Typed, now = 0, NEW t \in Txn
    PROVE  /\ step[t] = "draw" => Wanted(t) = {i \in DOMAIN lots : lots[i] > 0}
           /\ Kind[t] = "expire" /\ step[t] = "read" => Wanted(t) = {}
<1>1. local[t].asOf = 0
  BY DEF Typed, Note
<1>2. \A i : Live(i, 0)
  BY DEF Live
<1>3. step[t] = "draw" => Wanted(t) = Consumable(0)
  BY <1>1 DEF Wanted
<1>4. Kind[t] = "expire" /\ step[t] = "read" =>
         Wanted(t) = {i \in DOMAIN lots : lots[i] > 0 /\ ~Live(i, 0)}
  BY <1>1 DEF Wanted
<1> QED  BY <1>2, <1>3, <1>4 DEF Consumable

LEMMA CheckRedeemCalm ==
    ASSUME Inv, Calm, NEW t \in Txn, CheckRedeem(t)
    PROVE  Calm'
<1>1. CASE Finish(t) \/ Rollback(t)
  BY <1>1, EndsCalm DEF CheckRedeem
<1>2. CASE Goto(t, "draw") /\ local' = [local EXCEPT ![t].amount = Cost]
  <2> DEFINE r == [local[t] EXCEPT !.amount = Cost]
  <2>1. r \in Known(r) /\ local' = [local EXCEPT ![t] = r]
    BY <1>2, RecordOf DEF Known
  <2> HIDE DEF r
  <2>2. "draw" \in Step /\ UNCHANGED <<lots, debits, now>> /\ CalmNote(t, "draw", r)
    BY EarlyIsCalm DEF Step, CheckRedeem, tables
  <2> QED  BY <1>2, <2>1, <2>2, CalmMoves
<1> QED  BY <1>1, <1>2 DEF CheckRedeem

LEMMA ReadClawbackCalm ==
    ASSUME Inv, Calm, NEW t \in Txn, ReadClawback(t)
    PROVE  Calm'
<1> DEFINE n == IF Desired[t] < HeadRoom THEN Desired[t] ELSE HeadRoom
           c == SumOf(Clawed)
<1>1. CASE Finish(t)
  BY <1>1, EndsCalm DEF ReadClawback
<1>2. CASE Goto(t, "measure") /\ local' = [local EXCEPT ![t].clawed = c, ![t].amount = n]
  <2> HIDE DEF n, c
  <2> DEFINE r == [local[t] EXCEPT !.clawed = c, !.amount = n]
  <2>1. r \in Known(r) /\ local' = [local EXCEPT ![t] = r]
    BY <1>2, RecordOf DEF Known
  <2> HIDE DEF r
  <2>2. "measure" \in Step /\ UNCHANGED <<lots, debits, now>> /\ CalmNote(t, "measure", r)
    BY EarlyIsCalm DEF Step, ReadClawback, tables
  <2> QED  BY <1>2, <2>1, <2>2, CalmMoves
<1> QED  BY <1>1, <1>2 DEF ReadClawback

LEMMA MeasureCalm ==
    ASSUME Inv, Calm, NEW t \in Txn, Measure(t)
    PROVE  Calm'
<1> DEFINE spendable == SumLots(lots, Consumable(now))
           n == IF spendable < local[t].amount THEN spendable ELSE local[t].amount
<1>1. CASE Finish(t)
  BY <1>1, EndsCalm DEF Measure
<1>2. CASE Goto(t, "draw") /\ local' = [local EXCEPT ![t].amount = IF spendable < @ THEN spendable ELSE @]
  <2>0. local' = [local EXCEPT ![t].amount = n]
    BY <1>2
  <2> HIDE DEF n
  <2> DEFINE r == [local[t] EXCEPT !.amount = n]
  <2>1. r \in Known(r) /\ local' = [local EXCEPT ![t] = r]
    BY <2>0, RecordOf DEF Known
  <2> HIDE DEF r
  <2>2. "draw" \in Step /\ UNCHANGED <<lots, debits, now>> /\ CalmNote(t, "draw", r)
    BY EarlyIsCalm DEF Step, Measure, tables
  <2> QED  BY <1>2, <2>1, <2>2, CalmMoves
<1> QED  BY <1>1, <1>2 DEF Measure

(* While there is no debit, a draw finds every lot whole, and no fewer     *)
(* points than it asks for.                                                *)
LEMMA SelectLotsCalm ==
    ASSUME Inv, Typed, Calm, NEW t \in Txn, SelectLots(t)
    PROVE  Calm'
<1>1. step[t] = "draw" /\ Kind[t] \in {"redeem", "clawback"} /\ UNCHANGED <<tables, now>>
  BY RecordOf DEF SelectLots, Staged
<1>2. CASE Rollback(t)
  BY <1>1, <1>2, EndsCalm
<1>3. CASE /\ ~(SumLots(lots, Wanted(t)) < local[t].amount)
           /\ Goto(t, "commit")
           /\ local' = [local EXCEPT ![t].seen = Restrict(lots, Wanted(t))]
  <2> DEFINE W == Wanted(t)
             f == Restrict(lots, W)
             r == [local[t] EXCEPT !.seen = f]
  <2>1. DOMAIN f = W
    BY DEF Restrict
  <2> HIDE DEF f
  <2>2. r \in Known(r) /\ local' = [local EXCEPT ![t] = r]
    BY <1>3, RecordOf DEF Known, f
  <2>3. r.amount = local[t].amount /\ r.seen = f
    BY RecordOf DEF Known
  <2> HIDE DEF r
  <2>4. ASSUME now = 0, debits = {}
        PROVE  Lot \ {NewLot} \subseteq W /\ local[t].amount <= SumLots(Original, W)
    <3>1. W = {i \in DOMAIN lots : lots[i] > 0} /\ \A i \in DOMAIN lots : lots[i] = Original[i]
      BY <1>1, <2>4, AllLive DEF Calm, CalmLots, AtOriginal
    <3>2. /\ DOMAIN lots \subseteq Lot /\ Lot \ {NewLot} \subseteq DOMAIN lots
          /\ local[t].amount \in Nat
      BY <1>1 DEF Inv, Shapes, Typed, Rows, Note
    <3>3. \A i \in Lot : Original[i] \in Nat /\ Original[i] > 0
      <4> SUFFICES ASSUME NEW i \in Lot
                   PROVE  Original[i] \in Nat /\ Original[i] > 0
        OBVIOUS
      <4>1. Original[i] \in Nat \ {0}
        BY LotTypes
      <4> QED  BY <4>1
    <3>4. W = DOMAIN lots
      BY <3>1, <3>2, <3>3
    <3> HIDE DEF W
    <3>5. /\ IsFiniteSet(W) /\ (\A i \in W : lots[i] = Original[i])
          /\ \A i \in W : Original[i] \in Nat
      BY <3>1, <3>2, <3>3, <3>4, LotTypes
    <3>6. SumLots(lots, W) = SumLots(Original, W) /\ SumLots(Original, W) \in Nat
      BY <3>5, SumLotsCompares, SumLotsType
    <3>7. ~(SumLots(lots, W) < local[t].amount)
      BY <1>3 DEF W
    <3> QED  BY <3>2, <3>4, <3>6, <3>7
  <2>5. now = 0 => CalmNote(t, "commit", r)
    BY <1>1, <2>1, <2>3, <2>4 DEF CalmNote, ReadWhole, ReadAround
  <2>6. "commit" \in Step /\ UNCHANGED <<lots, debits>>
    BY <1>1 DEF Step, tables
  <2> QED  BY <1>1, <1>3, <2>2, <2>5, <2>6, CalmMoves
<1> QED  BY <1>2, <1>3 DEF SelectLots

LEMMA SelectMaturedCalm ==
    ASSUME Inv, Typed, Calm, NEW t \in Txn, SelectMatured(t)
    PROVE  Calm'
<1>1. CASE now = 0
  <2>1. Finish(t)
    BY <1>1, AllLive DEF SelectMatured
  <2> QED  BY <2>1, EndsCalm DEF SelectMatured
<1>2. CASE now # 0
  BY <1>2 DEF Calm, SelectMatured
<1> QED  BY <1>1, <1>2

LEMMA LoadLotsCalm ==
    ASSUME Inv, Calm, NEW t \in Txn, LoadLots(t)
    PROVE  Calm'
<1> DEFINE r == [local[t] EXCEPT !.seen = lots]
<1>1. r \in Known(r) /\ local' = [local EXCEPT ![t] = r]
  BY RecordOf DEF LoadLots, Known
<1>2. r.seen = lots
  BY RecordOf DEF Known
<1> HIDE DEF r
<1>3. Kind[t] = "reconcile" /\ "debits" \in Step /\ UNCHANGED <<lots, debits, now>>
  BY RecordOf DEF LoadLots, Staged, Step, tables
<1>4. now = 0 => CalmNote(t, "debits", r)
  BY <1>2, <1>3 DEF Calm, CalmLots, CalmNote, ReadWhole, ReadAround
<1> QED  BY <1>1, <1>3, <1>4, CalmMoves DEF LoadLots

(* The entries are read after the lots: if there is none, no lot that was  *)
(* read has been drawn on, and if there is one, it is replayed whether it  *)
(* drew on what was read or not.                                           *)
LEMMA LoadDebitsCalm ==
    ASSUME Inv, Typed, Calm, NEW t \in Txn, LoadDebits(t)
    PROVE  Calm'
<1> DEFINE ids == DOMAIN local[t].seen
           v == Replay(ids, debits)
           r == [local[t] EXCEPT !.target = v]
<1>1. /\ Kind[t] = "reconcile" /\ step[t] = "debits" /\ "row" \in Step
      /\ UNCHANGED <<lots, debits, now>>
  BY RecordOf DEF LoadDebits, Staged, Step, tables
<1>2. ids \in SUBSET Lot /\ Lot \ {NewLot} \subseteq ids
  BY <1>1 DEF Typed, Note, Inv, Shapes
<1>3. local' = [local EXCEPT ![t].target = v]
  BY DEF LoadDebits, DebitsFound
<1> HIDE DEF v
<1>4. r \in Known(r) /\ local' = [local EXCEPT ![t] = r]
  BY <1>3, RecordOf DEF Known
<1>5. r.seen = local[t].seen /\ r.target = v
  BY RecordOf DEF Known
<1> HIDE DEF r
<1>6. ASSUME debits = {}
      PROVE  AtOriginal(v)
  <2>1. v = Whole(ids)
    <3> HIDE DEF ids
    <3> QED  BY <1>2, <1>6, ReplayIs, DebitsRanked DEF v, Typed, Rows
  <2> QED  BY <2>1 DEF AtOriginal, Whole
<1>7. ASSUME now = 0, NEW d \in debits, debits = {d}
      PROVE  \A i \in ids : v[i] = After(d, i)
  <2>1. d \in Debit /\ d.type # "expire" /\ d.at = 0
    BY <1>7 DEF Calm, CalmLots, Drawn, Typed, Rows
  <2> HIDE DEF ids
  <2>2. v = [i \in ids |-> After(d, i)]
    BY <1>2, <1>7, <2>1, ReplayOfOne DEF v
  <2> QED  BY <2>2
<1>8. now = 0 => CalmNote(t, "row", r)
  BY <1>1, <1>5, <1>6, <1>7 DEF Calm, CalmNote, ReadWhole, ReadAround
<1> QED  BY <1>1, <1>4, <1>8, CalmMoves DEF LoadDebits

LEMMA LocksCalm ==
    ASSUME Inv, Calm, NEW t \in Txn, UpdateRow(t) \/ UpdateLots(t)
    PROVE  Calm'
<1>1. PICK s \in {"write", "commit"} : Goto(t, s)
  BY DEF UpdateRow, UpdateLots
<1>2. /\ Kind[t] = "reconcile" /\ step[t] \in {"row", "write"} /\ s \in Step
      /\ UNCHANGED <<lots, debits, now>>
  BY RecordOf DEF UpdateRow, UpdateLots, Staged, Step, tables
<1>3. local[t] \in Known(local[t]) /\ local' = [local EXCEPT ![t] = local[t]]
  BY DEF UpdateRow, UpdateLots, Inv, Shapes
<1>4. now = 0 => CalmNote(t, s, local[t])
  BY <1>2 DEF Calm, CalmNote, ReadWhole, ReadAround
<1> QED  BY <1>1, <1>2, <1>3, <1>4, CalmMoves

(* Commits.                                                                *)
LEMMA FinishMoves ==
    ASSUME Inv, NEW t \in Txn, Finish(t)
    PROVE  /\ step'[t] = "ended"
           /\ \A u \in Txn \ {t} : step'[u] = step[u] /\ local'[u] = local[u]
<1>1. /\ "ended" \in Step /\ step' = [step EXCEPT ![t] = "ended"]
      /\ local' = [local EXCEPT ![t] = Blank]
  BY DEF Finish, Goto, Step
<1> QED  BY <1>1, BlankIsKnown, MovesAlone DEF Inv

LEMMA NoDebitCalm ==
    ASSUME Inv, Calm, NEW t \in Txn, Finish(t), UNCHANGED <<debits, now>>,
           now = 0 => CalmLots'
    PROVE  Calm'
<1> SUFFICES ASSUME now = 0
             PROVE  \A u \in Txn : CalmNote(u, step[u], local[u])'
  BY DEF Calm
<1>1. CalmNote(t, step[t], local[t])'
  BY FinishMoves DEF CalmNote, ReadWhole, ReadAround
<1>2. \A u \in Txn \ {t} : CalmNote(u, step[u], local[u])'
  BY FinishMoves DEF Calm, CalmNote, ReadAround, ReadWhole, After, AtOriginal
<1> QED  BY <1>1, <1>2

(* The first debit: what the reconciliations under way have read and       *)
(* replayed is whole, so they write nothing.  A second one is the end of   *)
(* what is claimed.                                                        *)
LEMMA NewDebitCalm ==
    ASSUME Inv, Typed, Calm, NEW t \in Txn, Finish(t), Running(step[t]), UNCHANGED now,
           NEW d \in Debit, d.start = local[t].start, debits' = debits \cup {d},
           now = 0 /\ debits = {} => Drawn(d)'
    PROVE  Calm'
<1> SUFFICES ASSUME now = 0
             PROVE  CalmLots' /\ \A u \in Txn : CalmNote(u, step[u], local[u])'
  BY DEF Calm
<1>1. d \notin debits
  BY DEF Typed, Placed
<1>2. debits' # {} /\ \A e \in debits' : debits' = {e} => e = d /\ debits = {}
  BY <1>1
<1>3. CalmLots'
  BY <1>2 DEF CalmLots
<1>4. CalmNote(t, step[t], local[t])'
  BY <1>2, FinishMoves DEF CalmNote, ReadAround
<1>5. ASSUME NEW u \in Txn \ {t}
      PROVE  CalmNote(u, step[u], local[u])'
  <2>1. step'[u] = step[u] /\ local'[u] = local[u]
    BY FinishMoves
  <2>2. CalmNote(u, step[u], local[u]) /\ Note(u, step[u], local[u])
    BY DEF Calm, Typed
  <2>3. ASSUME debits = {}
        PROVE  ReadAround(d, u, step[u], local[u])'
    <3>1. ReadWhole(u, step[u], local[u])
      BY <2>2, <2>3 DEF CalmNote
    <3>2. Kind[u] = "reconcile" /\ step[u] \in {"row", "write", "commit"} =>
             \A i \in DOMAIN local[u].seen : local[u].target[i] = local[u].seen[i]
      BY <2>2, <3>1 DEF ReadWhole, AtOriginal, Note, Parts
    <3> QED  BY <2>1, <3>2 DEF ReadAround
  <2> QED  BY <1>2, <2>1, <2>2, <2>3 DEF CalmNote
<1> QED  BY <1>3, <1>4, <1>5

LEMMA CommitDebitCalm ==
    ASSUME Inv, Typed, Calm, NEW t \in Txn, CommitDebit(t)
    PROVE  Calm'
<1> DEFINE type == IF Kind[t] = "redeem" THEN "spend" ELSE "clawback"
           seen == local[t].seen
           ids == DOMAIN seen
           n == local[t].amount
           take == [i \in ids |-> FifoTake(seen, ids, n, i)]
<1>0. PICK d : d = NewDebit(t, type, n, None)
  OBVIOUS
<1>1. /\ step[t] = "commit" /\ Kind[t] \in {"redeem", "clawback"} /\ Running(step[t])
      /\ Finish(t) /\ UNCHANGED now /\ debits' = debits \cup {d}
      /\ lots' = [i \in DOMAIN lots |-> IF i \in ids THEN lots[i] - take[i] ELSE lots[i]]
  BY <1>0 DEF CommitDebit, Running
<1>2. n \in Nat \ {0} /\ \A i \in ids : seen[i] = lots[i] /\ i \in DOMAIN lots
  BY <1>1 DEF Typed, Note, Inv, Sound, HoldsLots
<1>3. d \in Debit /\ d.start = local[t].start /\ d.type = type /\ d.points = n /\ d.at = local[t].at
  BY <1>0, <1>2, NewDebitIs
<1>4. ASSUME now = 0, debits = {}
      PROVE  Drawn(d)'
  <2>1. /\ \A i \in DOMAIN lots : lots[i] = Original[i]
        /\ Lot \ {NewLot} \subseteq ids /\ n <= SumLots(Original, ids) /\ local[t].at = 0
    BY <1>1, <1>4 DEF Calm, CalmLots, CalmNote, ReadWhole, AtOriginal, Typed, Note
  <2>2. ids \in SUBSET Lot /\ DOMAIN lots \subseteq Lot
    BY <1>2 DEF Inv, Shapes
  <2>3. ASSUME NEW i \in ids
        PROVE  take[i] = FifoTake(Original, Lot, n, i)
    <3>1. \A j \in ids : seen[j] = Original[j]
      BY <1>2, <2>1
    <3> HIDE DEF ids, seen, n
    <3> QED  BY <1>2, <2>1, <2>2, <3>1, TakesAlike
  <2>4. NewLot \notin ids => n <= SumLots(Original, Lot \ {NewLot})
    <3>1. NewLot \notin ids => ids = Lot \ {NewLot}
      BY <2>1, <2>2
    <3> HIDE DEF ids, n
    <3> QED  BY <2>1, <3>1
  <2> HIDE DEF take, ids, n, type
  <2>5. NewLot \notin ids => FifoTake(Original, Lot, n, NewLot) = 0
    BY <1>2, <2>4, NewestIsLast
  <2>6. ASSUME NEW i \in DOMAIN lots
        PROVE  lots'[i] = After(d, i)
    <3>1. CASE i \in ids
      BY <1>1, <1>3, <2>1, <2>3, <3>1 DEF After
    <3>2. CASE i \notin ids
      <4>1. i = NewLot /\ lots'[i] = Original[i] /\ Original[i] \in Nat
        BY <1>1, <2>1, <2>2, <3>2, LotTypes
      <4>2. After(d, i) = Original[i]
        BY <1>3, <2>5, <3>2, <4>1 DEF After
      <4> QED  BY <4>1, <4>2
    <3> QED  BY <3>1, <3>2
  <2>7. d.type \in {"spend", "clawback"} /\ d.at = 0
    BY <1>3, <2>1 DEF type
  <2>8. DOMAIN lots' = DOMAIN lots /\ (NewLot \notin DOMAIN lots => NewLot \notin ids)
    BY <1>1, <1>2
  <2>9. \A i \in DOMAIN lots' : lots'[i] = After(d, i)
    BY <2>6, <2>8
  <2>10. NewLot \notin DOMAIN lots' => d.points <= SumLots(Original, Lot \ {NewLot})
    BY <1>3, <2>4, <2>8
  <2> QED  BY <2>7, <2>9, <2>10 DEF Drawn, After
<1> QED  BY <1>1, <1>3, <1>4, NewDebitCalm

LEMMA CommitExpiryCalm ==
    ASSUME Calm, NEW t \in Txn, CommitExpiry(t)
    PROVE  Calm'
BY DEF Calm, CalmNote, CommitExpiry

LEMMA CommitAdjustmentCalm ==
    ASSUME Inv, Typed, Calm, NEW t \in Txn, CommitAdjustment(t)
    PROVE  Calm'
<1>0. PICK d : d = NewDebit(t, "adjust", Desired[t], None)
  OBVIOUS
<1>1. /\ Running(step[t]) /\ Finish(t) /\ debits' = debits \cup {d}
      /\ UNCHANGED <<lots, now>>
  BY <1>0 DEF CommitAdjustment, Running
<1>2. d \in Debit /\ d.start = local[t].start /\ d.type = "adjust" /\ d.at = local[t].at
  <2>1. Desired[t] \in Nat \ {0}
    BY IsolationConstants
  <2> QED  BY <1>0, <2>1, NewDebitIs
<1>3. now = 0 /\ debits = {} => Drawn(d)'
  BY <1>1, <1>2 DEF Calm, CalmLots, AtOriginal, Drawn, Typed, Note
<1> QED  BY <1>1, <1>2, <1>3, NewDebitCalm

(* An order's lot is the newest: the debit would not have drawn on it.     *)
LEMMA CommitOrderCalm ==
    ASSUME Inv, Typed, Calm, NEW t \in Txn, CommitOrder(t)
    PROVE  Calm'
<1>1. /\ Finish(t) /\ UNCHANGED <<debits, now>>
      /\ lots' = [i \in DOMAIN lots \cup {NewLot} |->
                    IF i \in DOMAIN lots THEN lots[i] ELSE Original[NewLot]]
  BY DEF CommitOrder
<1>2. /\ DOMAIN lots' = DOMAIN lots \cup {NewLot}
      /\ \A i \in DOMAIN lots : lots'[i] = lots[i]
      /\ NewLot \notin DOMAIN lots => lots'[NewLot] = Original[NewLot]
  BY <1>1
<1>3. ASSUME now = 0, NEW d \in debits, debits = {d}
      PROVE  Drawn(d)'
  <2>1. Drawn(d) /\ d.points \in Nat /\ Original[NewLot] \in Nat
    BY <1>3, LotTypes DEF Calm, CalmLots, Typed, Rows, Debit
  <2>2. NewLot \notin DOMAIN lots /\ d.type # "adjust" => After(d, NewLot) = Original[NewLot]
    BY <2>1, NewestIsLast DEF Drawn, After
  <2>3. \A i \in DOMAIN lots' :
           lots'[i] = After(d, i) \/ (d.type = "adjust" /\ lots'[i] = Original[i])
    <3> SUFFICES ASSUME NEW i \in DOMAIN lots'
                 PROVE  lots'[i] = After(d, i) \/ (d.type = "adjust" /\ lots'[i] = Original[i])
      OBVIOUS
    <3>1. CASE i \in DOMAIN lots
      BY <1>2, <2>1, <3>1 DEF Drawn
    <3>2. CASE i \notin DOMAIN lots
      BY <1>2, <2>1, <2>2, <3>2 DEF Drawn
    <3> QED  BY <3>1, <3>2
  <2>4. NewLot \in DOMAIN lots'
    BY <1>2
  <2> QED  BY <2>1, <2>3, <2>4 DEF Drawn, After
<1>4. now = 0 => CalmLots'
  BY <1>1, <1>2, <1>3 DEF Calm, CalmLots, AtOriginal
<1> QED  BY <1>1, <1>4, NoDebitCalm

LEMMA CommitReconcileCalm ==
    ASSUME Inv, Typed, Calm, NEW t \in Txn, CommitReconcile(t)
    PROVE  Calm'
<1>1. /\ Kind[t] = "reconcile" /\ step[t] = "commit" /\ Finish(t) /\ UNCHANGED <<debits, now>>
      /\ lots' = [i \in DOMAIN lots |->
                    IF i \in Drifted(t) THEN local[t].target[i] ELSE lots[i]]
  BY DEF CommitReconcile
<1>2. DOMAIN local[t].target = DOMAIN local[t].seen
  BY <1>1 DEF Typed, Note, Parts
<1>3. ASSUME now = 0, NEW d \in debits, debits = {d}
      PROVE  Drawn(d)'
  <2>1. Drawn(d) /\ ReadAround(d, t, step[t], local[t])
    BY <1>3 DEF Calm, CalmLots, CalmNote
  <2>2. \A i \in DOMAIN lots : lots'[i] = lots[i] \/ lots'[i] = After(d, i)
    BY <1>1, <2>1 DEF ReadAround, Drifted
  <2>3. DOMAIN lots' = DOMAIN lots
    BY <1>1
  <2> QED  BY <2>1, <2>2, <2>3 DEF Drawn, After
<1>4. now = 0 /\ debits = {} => AtOriginal(lots')
  BY <1>1, <1>2 DEF Calm, CalmLots, CalmNote, ReadWhole, AtOriginal, Drifted
<1>5. now = 0 => CalmLots'
  BY <1>1, <1>3, <1>4 DEF CalmLots, AtOriginal
<1> QED  BY <1>1, <1>5, NoDebitCalm

LEMMA StatementCalm ==
    ASSUME Inv, Typed, Calm, NEW t \in Txn, Statement(t)
    PROVE  Calm'
<1>1. CASE Ask(t) \/ Begin(t) \/ LockCustomer(t) \/ LoadCustomer(t) \/ ComputeBalance(t)
  BY <1>1, EarlyCalm
<1>2. CASE CheckRedeem(t) \/ ReadClawback(t) \/ Measure(t) \/ SelectLots(t) \/ SelectMatured(t)
  BY <1>2, CheckRedeemCalm, ReadClawbackCalm, MeasureCalm, SelectLotsCalm, SelectMaturedCalm
<1>3. CASE LoadLots(t) \/ LoadDebits(t) \/ UpdateRow(t) \/ UpdateLots(t)
  BY <1>3, LoadLotsCalm, LoadDebitsCalm, LocksCalm
<1>4. CASE CommitDebit(t) \/ CommitExpiry(t) \/ CommitAdjustment(t) \/ CommitOrder(t)
           \/ CommitReconcile(t)
  BY <1>4, CommitDebitCalm, CommitExpiryCalm, CommitAdjustmentCalm, CommitOrderCalm,
     CommitReconcileCalm
<1> QED  BY <1>1, <1>2, <1>3, <1>4 DEF Statement

LEMMA StepCalm == Inv /\ Typed /\ Calm /\ [Next]_vars => Calm'
<1> SUFFICES ASSUME Inv, Typed, Calm, [Next]_vars
             PROVE  Calm'
  OBVIOUS
<1>1. ASSUME NEW t \in Txn, Statement(t)
      PROVE  Calm'
  BY <1>1, StatementCalm
<1>2. ASSUME NEW t \in Txn, LockTimeout(t) \/ DeadlockDetected(t) \/ ConnectionLost(t)
      PROVE  Calm'
  BY <1>2, EndsCalm DEF LockTimeout, DeadlockDetected, ConnectionLost
<1>3. CASE Tick
  BY <1>3 DEF Tick, Calm
<1>4. CASE UNCHANGED vars
  <2>1. UNCHANGED <<lots, debits, now, step, local>>
    BY <1>4 DEF vars, tables
  <2> QED  BY <2>1 DEF Calm, CalmLots, CalmNote, ReadWhole, ReadAround, Drawn, After, AtOriginal
<1> QED  BY <1>1, <1>2, <1>3, <1>4 DEF Next

(* A reconciliation then writes back what is on the lots already, or what  *)
(* the one debit has left of them.                                         *)
LEMMA ReconcilesDownwards ==
    ASSUME Inv, Typed, Calm, now = 0, Cardinality(debits) <= 1,
           NEW t \in Txn, CommitReconcile(t)
    PROVE  Drift' <= Drift
<1> DEFINE L == DOMAIN lots
           A == {d \in debits : d.type = "adjust"}
<1>1. /\ Kind[t] = "reconcile" /\ step[t] = "commit" /\ UNCHANGED debits
      /\ lots' = [i \in L |-> IF i \in Drifted(t) THEN local[t].target[i] ELSE lots[i]]
  BY DEF CommitReconcile
<1>2. /\ L \in SUBSET Lot /\ IsFiniteSet(L) /\ DOMAIN lots' = L
      /\ \A i \in L : lots[i] \in 0..Original[i] /\ Original[i] \in Nat
  BY <1>1, LotTypes DEF Inv, Shapes, Typed, Rows
<1>3. \A i \in L : lots'[i] \in 0..Original[i]
  <2>1. Typed'
    BY CommitReconcileTyped
  <2> QED  BY <1>2, <2>1 DEF Typed, Rows
<1>4. DOMAIN local[t].target = DOMAIN local[t].seen
  BY <1>1 DEF Typed, Note, Parts
<1>5. \A i \in L : lots'[i] <= lots[i]
  <2>1. IsFiniteSet(debits) /\ (debits = {} \/ \E d : debits = {d})
    <3>1. IsFiniteSet(debits)
      BY DEF Typed, Rows
    <3>2. Cardinality(debits) \in Nat
      BY <3>1, FS_CardinalityType
    <3>3. Cardinality(debits) = 0 \/ Cardinality(debits) = 1
      BY <3>2
    <3> QED  BY <3>1, <3>3, FS_EmptySet, FS_Singleton
  <2>2. CASE debits = {}
    <3>1. AtOriginal(lots) /\ ReadWhole(t, step[t], local[t])
      BY <2>2 DEF Calm, CalmLots, CalmNote
    <3>2. Drifted(t) = {}
      BY <1>1, <1>4, <3>1 DEF ReadWhole, AtOriginal, Drifted
    <3> QED  BY <1>1, <1>2, <3>2
  <2>3. ASSUME NEW d, debits = {d}
        PROVE  \A i \in L : lots'[i] <= lots[i]
    <3>1. d \in Debit /\ Drawn(d) /\ ReadAround(d, t, step[t], local[t])
      BY <2>3 DEF Calm, CalmLots, CalmNote, Typed, Rows
    <3>2. \A i \in L : After(d, i) \in Int /\ After(d, i) <= Original[i]
      BY <1>2, <3>1, AfterType
    <3>3. \A i \in L : lots'[i] = lots[i] \/ lots'[i] = After(d, i)
      BY <1>1, <3>1 DEF ReadAround, Drifted
    <3>4. \A i \in L : lots[i] = After(d, i) \/ lots[i] = Original[i]
      BY <3>1 DEF Drawn
    <3> HIDE DEF L
    <3> SUFFICES ASSUME NEW i \in L
                 PROVE  lots'[i] <= lots[i]
      OBVIOUS
    <3>5. lots[i] \in Int
      BY <1>2
    <3> QED  BY <3>2, <3>3, <3>4, <3>5
  <2> QED  BY <2>1, <2>2, <2>3
<1>6. /\ SumLots(lots, L) \in Int /\ SumLots(lots', L) \in Int
      /\ SumLots(lots', L) <= SumLots(lots, L)
  <2> HIDE DEF L
  <2>1. \A i \in L : lots[i] \in Nat /\ lots'[i] \in Nat
    BY <1>2, <1>3
  <2>2. SumLots(lots, L) \in Nat /\ SumLots(lots', L) \in Nat
    BY <1>2, <2>1, SumLotsType
  <2>3. \A i \in L : lots'[i] \in Int /\ lots[i] \in Int /\ lots'[i] <= lots[i]
    BY <1>5, <2>1
  <2>4. SumLots(lots', L) <= SumLots(lots, L)
    BY <1>2, <2>3, SumLotsCompares
  <2> QED  BY <2>2, <2>4
<1>7. Balance \in Int /\ SumOf(A) \in Int
  <2>1. A \in SUBSET Debit /\ IsFiniteSet(A)
    BY FS_Subset DEF Typed, Rows
  <2> HIDE DEF A
  <2> QED  BY <2>1, SumOfType, BalanceType DEF Typed
<1>8. Balance' = Balance
  BY <1>1, <1>2 DEF Balance
<1>9. Drift = SumLots(lots, L) - (Balance + SumOf(A))
  BY DEF Drift
<1>10. Drift' = SumLots(lots', L) - (Balance + SumOf(A))
  BY <1>1, <1>2, <1>8 DEF Drift
<1> HIDE DEF L, A
<1> QED  BY <1>6, <1>7, <1>9, <1>10

LEMMA DriftType ==
    ASSUME Inv, Typed
    PROVE  Drift \in Int
<1> DEFINE A == {d \in debits : d.type = "adjust"}
<1>1. A \in SUBSET Debit /\ IsFiniteSet(A)
  BY FS_Subset DEF Typed, Rows
<1>2. IsFiniteSet(DOMAIN lots) /\ \A i \in DOMAIN lots : lots[i] \in Nat
  BY LotTypes DEF Inv, Shapes, Typed, Rows
<1>3. SumLots(lots, DOMAIN lots) \in Nat
  BY <1>2, SumLotsType
<1>4. SumOf(A) \in Int /\ Balance \in Int
  <2> HIDE DEF A
  <2> QED  BY <1>1, SumOfType, BalanceType DEF Typed
<1> QED  BY <1>3, <1>4 DEF Drift

(* Until a lot has matured, and of one debit, a reconciliation never takes *)
(* back what was drawn: the lots are read before the entries, so a debit   *)
(* that it has not seen on the lots it replays, and one it has seen on     *)
(* them it finds among the entries.                                        *)
THEOREM OneDebitSurvives == Spec => SingleDebitSurvives
<1>1. Init => Inv /\ Typed /\ Calm
  BY InitInv, InitTyped, InitCalm
<1>2. (Inv /\ Typed /\ Calm) /\ [Next]_vars => (Inv /\ Typed /\ Calm)'
  BY StepInv, StepTyped, StepCalm
<1>3. ASSUME Inv, Typed, Calm, [Next]_vars
      PROVE  [\A t \in Txn : CommitsReconcile(t) /\ now = 0 /\ Cardinality(debits) <= 1
                => Drift' <= Drift]_vars
  <2> SUFFICES ASSUME Next, NEW t \in Txn, CommitsReconcile(t), now = 0,
                      Cardinality(debits) <= 1
               PROVE  Drift' <= Drift
    BY <1>3
  <2>1. ASSUME NEW u \in Txn, Statement(u) \/ LockTimeout(u) \/ DeadlockDetected(u)
                              \/ ConnectionLost(u)
        PROVE  CommitReconcile(t) \/ UNCHANGED tables
    <3>1. PICK s : Goto(u, s)
      BY <2>1 DEF Statement, Ask, Begin, LockCustomer, CheckRedeem, ReadClawback, Measure,
             SelectLots, CommitDebit, SelectMatured, CommitExpiry, CommitAdjustment,
             CommitOrder, LoadCustomer, ComputeBalance, LoadLots, LoadDebits, UpdateRow,
             UpdateLots, CommitReconcile, LockTimeout, DeadlockDetected, ConnectionLost,
             Finish, Rollback
    <3>2. u = t
      BY <1>3, <3>1 DEF Goto, CommitsReconcile, Inv, Shapes
    <3> QED  BY <2>1, <3>2 DEF CommitsReconcile, Statement, Ask, Begin, LockCustomer,
             CheckRedeem, ReadClawback, Measure, SelectLots, CommitDebit, SelectMatured,
             CommitExpiry, CommitAdjustment, CommitOrder, LoadCustomer, ComputeBalance,
             LoadLots, LoadDebits, UpdateRow, UpdateLots, LockTimeout, DeadlockDetected,
             ConnectionLost
  <2>2. CASE CommitReconcile(t)
    BY <1>3, <2>2, ReconcilesDownwards
  <2>3. CASE UNCHANGED tables
    <3>1. Drift' = Drift
      BY <2>3 DEF tables, Drift, Balance
    <3> QED  BY <1>3, <3>1, DriftType
  <2>4. CASE Tick
    BY <2>4 DEF Tick, CommitsReconcile
  <2> QED  BY <2>1, <2>2, <2>3, <2>4 DEF Next
<1> QED  BY <1>1, <1>2, <1>3, PTL DEF Spec, SingleDebitSurvives
=============================================================================
