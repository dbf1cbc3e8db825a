--------------------------- MODULE LedgerProofs ---------------------------
(***************************************************************************)
(* Proofs about the ledger, for every value of its constants.              *)
(***************************************************************************)
EXTENDS Ledger, FiniteSetTheorems, TLAPS

-----------------------------------------------------------------------------
(* The tier rules.                                                         *)

(* A spend always earns a tier, and exactly the one its thresholds say.    *)
LEMMA DeriveTierIs ==
    ASSUME NEW s \in Nat
    PROVE  /\ DeriveTier(s) \in TierRank
           /\ Threshold[DeriveTier(s)] <= s
           /\ \A u \in TierRank : Threshold[u] <= s => u <= DeriveTier(s)
<1> DEFINE Fits(t) == /\ Threshold[t] <= s
                      /\ \A u \in TierRank : Threshold[u] <= s => u <= t
<1>1. Threshold[0] = 0 /\ Threshold[1] = 30000
      /\ Threshold[2] = 75000 /\ Threshold[3] = 150000
  BY DEF Threshold, TierRank
<1>2. \E t \in TierRank : Fits(t)
  <2>1. CASE s < 30000  BY <1>1, <2>1, Fits(0) DEF TierRank
  <2>2. CASE 30000 <= s /\ s < 75000  BY <1>1, <2>2, Fits(1) DEF TierRank
  <2>3. CASE 75000 <= s /\ s < 150000  BY <1>1, <2>3, Fits(2) DEF TierRank
  <2>4. CASE 150000 <= s  BY <1>1, <2>4, Fits(3) DEF TierRank
  <2> HIDE DEF Fits
  <2> QED  BY <2>1, <2>2, <2>3, <2>4
<1> QED  BY <1>2 DEF DeriveTier

(* Spending more never earns less.                                         *)
LEMMA DeriveTierMonotone ==
    ASSUME NEW s \in Nat, NEW u \in Nat, s <= u
    PROVE  DeriveTier(s) <= DeriveTier(u)
<1>1. Threshold[DeriveTier(s)] \in Int
  BY DeriveTierIs DEF Threshold, TierRank
<1> QED  BY <1>1, DeriveTierIs

(* A tier that its spend has earned advances to the tier of a larger one.  *)
LEMMA AdvanceTierIs ==
    ASSUME NEW s \in Nat, NEW u \in Nat, s <= u
    PROVE  AdvanceTier(DeriveTier(s), u) = DeriveTier(u)
BY DeriveTierIs, DeriveTierMonotone DEF AdvanceTier, TierRank

LEMMA AdvanceTierType ==
    ASSUME NEW t \in TierRank, NEW s \in Nat
    PROVE  AdvanceTier(t, s) \in TierRank
BY DeriveTierIs DEF AdvanceTier, TierRank

LEMMA OrderPointsType ==
    ASSUME NEW t \in TierRank, NEW n \in Nat
    PROVE  OrderPoints(n, t) \in Int
<1>1. HalfMultiplier[t] \in Nat
  BY DEF HalfMultiplier, TierRank
<1>2. n * HalfMultiplier[t] \in Int
  BY <1>1
<1> QED  BY <1>2 DEF OrderPoints

-----------------------------------------------------------------------------

(* The element CHOOSE takes first, and the functions that add up every     *)
(* part of A by taking it out.                                             *)
Chosen(s) == CHOOSE x \in s : TRUE

Adds(g, F, A) ==
    g = [s \in SUBSET A |-> IF s = {} THEN 0 ELSE F[Chosen(s)] + g[s \ {Chosen(s)}]]

(* The sum of F over A.                                                    *)
Total(F, A) == (CHOOSE g : Adds(g, F, A))[A]

LEMMA ChosenIn ==
    ASSUME NEW s, s # {}
    PROVE  Chosen(s) \in s
BY DEF Chosen

(* Induction over the subsets of a finite set: what holds of a set once it *)
(* holds of its proper parts holds of all.                                 *)
LEMMA SubsetInduction ==
    ASSUME NEW A, IsFiniteSet(A), NEW Good,
           \A s \in SUBSET A : (\A t \in SUBSET s : t # s => t \in Good) => s \in Good
    PROVE  \A s \in SUBSET A : s \in Good
<1> DEFINE Bad == (SUBSET A) \ Good
           R == StrictSubsetOrdering(A)
<1> SUFFICES ASSUME Bad # {}
             PROVE  FALSE
  OBVIOUS
<1>1. IsWellFoundedOn(R, SUBSET A)
  <2>1. FiniteSubsetsOf(A) = SUBSET A
    BY FS_FiniteSubsetsOfFinite
  <2>2. IsWellFoundedOn(StrictSubsetOrdering(A), FiniteSubsetsOf(A))
    BY FS_StrictSubsetOrderingWellFounded
  <2> QED  BY <2>1, <2>2, Zenon
<1>2. Bad \subseteq SUBSET A
  OBVIOUS
<1> HIDE DEF R
<1>3. PICK s \in Bad : \A t \in Bad : ~(<<t, s>> \in R)
  <2> HIDE DEF Bad
  <2> QED  BY <1>1, <1>2, WFMin
<1>4. \A t \in SUBSET s : t # s => t \in Good
  BY <1>3 DEF R, StrictSubsetOrdering
<1>5. s \in SUBSET A /\ s \notin Good
  BY <1>3
<1> HIDE DEF Bad
<1> QED  BY <1>4, <1>5

(* Two functions that add F up agree wherever both do.                     *)
LEMMA AddsOnce ==
    ASSUME NEW F, NEW A, IsFiniteSet(A), NEW B, NEW g, NEW h, Adds(g, F, A), Adds(h, F, B)
    PROVE  \A s \in SUBSET A : s \subseteq B => g[s] = h[s]
<1> DEFINE Good == {s \in SUBSET A : s \subseteq B => g[s] = h[s]}
<1>1. ASSUME NEW s \in SUBSET A, \A t \in SUBSET s : t # s => t \in Good
      PROVE  s \in Good
  <2> SUFFICES ASSUME s \subseteq B
               PROVE  g[s] = h[s]
    OBVIOUS
  <2>1. CASE s = {}
    BY <2>1 DEF Adds
  <2>2. CASE s # {}
    <3> DEFINE t == s \ {Chosen(s)}
    <3>1. t \in SUBSET s /\ t # s
      BY <2>2, ChosenIn
    <3>2. g[t] = h[t]
      BY <1>1, <3>1
    <3>3. g[s] = F[Chosen(s)] + g[t]
      BY <2>2 DEF Adds
    <3>4. h[s] = F[Chosen(s)] + h[t]
      BY <2>2 DEF Adds
    <3> QED  BY <3>2, <3>3, <3>4
  <2> QED  BY <2>1, <2>2
<1> HIDE DEF Good
<1>2. \A s \in SUBSET A : s \in Good
  BY <1>1, SubsetInduction
<1> QED  BY <1>2 DEF Good

(* Every finite set can be added up.                                       *)
LEMMA TotalExists ==
    ASSUME NEW F, NEW A, IsFiniteSet(A)
    PROVE  \A s \in SUBSET A : \E g : Adds(g, F, s)
<1> DEFINE Good == {s \in SUBSET A : \E g : Adds(g, F, s)}
           The(s) == CHOOSE g : Adds(g, F, s)
<1>1. ASSUME NEW s \in SUBSET A, \A t \in SUBSET s : t # s => t \in Good
      PROVE  s \in Good
  <2> DEFINE h == [u \in SUBSET s |-> IF u = {} THEN 0
                                      ELSE F[Chosen(u)] + Total(F, u \ {Chosen(u)})]
  <2>1. ASSUME NEW t \in SUBSET s, t # s
        PROVE  Adds(The(t), F, t)
    BY <1>1, <2>1
  <2>2. ASSUME NEW t \in SUBSET s, t # s
        PROVE  h[t] = Total(F, t)
    <3>1. Adds(The(t), F, t) /\ Total(F, t) = The(t)[t]
      BY <2>1, <2>2 DEF Total
    <3> HIDE DEF The
    <3>2. CASE t = {}
      BY <3>1, <3>2 DEF Adds
    <3>3. CASE t # {}
      <4> DEFINE r == t \ {Chosen(t)}
      <4>1. r \in SUBSET t /\ r # s /\ r \in SUBSET s
        BY <2>2, <3>3, ChosenIn
      <4>2. Adds(The(r), F, r) /\ Total(F, r) = The(r)[r]
        BY <2>1, <4>1 DEF Total, The
      <4>3. IsFiniteSet(r)
        BY <4>1, FS_Subset
      <4>4. The(r)[r] = The(t)[r]
        <5> HIDE DEF r
        <5>1. \A q \in SUBSET r : q \subseteq t => The(r)[q] = The(t)[q]
          BY <3>1, <4>2, <4>3, AddsOnce
        <5> QED  BY <4>1, <5>1
      <4>5. The(t)[t] = F[Chosen(t)] + The(t)[r]
        BY <3>1, <3>3 DEF Adds
      <4>6. h[t] = F[Chosen(t)] + Total(F, r)
        BY <3>3
      <4> QED  BY <3>1, <4>2, <4>4, <4>5, <4>6
    <3> QED  BY <3>2, <3>3
  <2>3. ASSUME NEW u \in SUBSET s, u # {}
        PROVE  h[u \ {Chosen(u)}] = Total(F, u \ {Chosen(u)})
    <3>1. u \ {Chosen(u)} \in SUBSET s /\ u \ {Chosen(u)} # s
      BY <2>3, ChosenIn
    <3> HIDE DEF h
    <3> QED  BY <2>2, <3>1
  <2>4. h = [u \in SUBSET s |-> IF u = {} THEN 0
                                ELSE F[Chosen(u)] + h[u \ {Chosen(u)}]]
    BY <2>3
  <2>5. Adds(h, F, s)
    BY <2>4 DEF Adds
  <2> HIDE DEF h
  <2> QED  BY <2>5
<1> HIDE DEF Good
<1>2. \A s \in SUBSET A : s \in Good
  BY <1>1, SubsetInduction
<1> QED  BY <1>2 DEF Good

LEMMA TotalOfNone ==
    ASSUME NEW F
    PROVE  Total(F, {}) = 0
<1>1. PICK g : Adds(g, F, {})
  BY FS_EmptySet, TotalExists
<1>2. Adds(CHOOSE h : Adds(h, F, {}), F, {})
  BY <1>1
<1> QED  BY <1>2 DEF Total, Adds

(* A sum is its first element and the sum of the rest.                     *)
LEMMA TotalUnfolds ==
    ASSUME NEW F, NEW A, IsFiniteSet(A), A # {}
    PROVE  Total(F, A) = F[Chosen(A)] + Total(F, A \ {Chosen(A)})
<1> DEFINE The(s) == CHOOSE g : Adds(g, F, s)
           r == A \ {Chosen(A)}
<1>1. \A s \in SUBSET A : Adds(The(s), F, s) /\ Total(F, s) = The(s)[s]
  <2> SUFFICES ASSUME NEW s \in SUBSET A
               PROVE  Adds(The(s), F, s) /\ Total(F, s) = The(s)[s]
    OBVIOUS
  <2>1. \E g : Adds(g, F, s)
    BY TotalExists
  <2> QED  BY <2>1 DEF Total
<1> HIDE DEF The
<1>2. The(A)[A] = F[Chosen(A)] + The(A)[r]
  <2>1. Adds(The(A), F, A)
    BY <1>1
  <2> QED  BY <2>1 DEF Adds
<1>3. r \in SUBSET A /\ IsFiniteSet(r)
  BY FS_Subset
<1> HIDE DEF r
<1>4. \A q \in SUBSET r : q \subseteq A => The(r)[q] = The(A)[q]
  BY <1>1, <1>3, AddsOnce
<1>5. The(r)[r] = The(A)[r]
  BY <1>3, <1>4
<1> QED  BY <1>1, <1>2, <1>3, <1>5 DEF r

(* Only the values at the elements matter.                                 *)
LEMMA TotalAgrees ==
    ASSUME NEW F, NEW G, NEW A, IsFiniteSet(A), \A x \in A : F[x] = G[x]
    PROVE  Total(F, A) = Total(G, A)
<1> DEFINE Good == {s \in SUBSET A : Total(F, s) = Total(G, s)}
<1>1. ASSUME NEW s \in SUBSET A, \A t \in SUBSET s : t # s => t \in Good
      PROVE  s \in Good
  <2>1. CASE s = {}
    BY <2>1, TotalOfNone
  <2>2. CASE s # {}
    <3> DEFINE t == s \ {Chosen(s)}
    <3>1. t \in SUBSET s /\ t # s /\ Chosen(s) \in A /\ IsFiniteSet(s)
      BY <2>2, ChosenIn, FS_Subset
    <3>2. Total(F, t) = Total(G, t)
      BY <1>1, <3>1
    <3>3. Total(F, s) = F[Chosen(s)] + Total(F, t) /\ Total(G, s) = G[Chosen(s)] + Total(G, t)
      BY <2>2, <3>1, TotalUnfolds
    <3> QED  BY <3>1, <3>2, <3>3
  <2> QED  BY <2>1, <2>2
<1> HIDE DEF Good
<1>2. \A s \in SUBSET A : s \in Good
  BY <1>1, SubsetInduction
<1> QED  BY <1>2 DEF Good

(* A sum of integers is an integer, and of naturals not negative.          *)
LEMMA TotalType ==
    ASSUME NEW F, NEW A, IsFiniteSet(A), \A x \in A : F[x] \in Int
    PROVE  /\ Total(F, A) \in Int
           /\ (\A x \in A : F[x] >= 0) => Total(F, A) >= 0
<1> DEFINE Good == {s \in SUBSET A : /\ Total(F, s) \in Int
                                     /\ (\A x \in A : F[x] >= 0) => Total(F, s) >= 0}
<1>1. ASSUME NEW s \in SUBSET A, \A t \in SUBSET s : t # s => t \in Good
      PROVE  s \in Good
  <2>1. CASE s = {}
    BY <2>1, TotalOfNone
  <2>2. CASE s # {}
    <3> DEFINE t == s \ {Chosen(s)}
    <3>1. t \in SUBSET s /\ t # s /\ Chosen(s) \in A /\ IsFiniteSet(s)
      BY <2>2, ChosenIn, FS_Subset
    <3>2. t \in Good
      BY <1>1, <3>1
    <3>3. Total(F, s) = F[Chosen(s)] + Total(F, t)
      BY <2>2, <3>1, TotalUnfolds
    <3>4. F[Chosen(s)] \in Int
      BY <3>1
    <3> DEFINE n == F[Chosen(s)]
    <3> HIDE DEF t, n
    <3> QED  BY <3>1, <3>2, <3>3, <3>4 DEF n
  <2> QED  BY <2>1, <2>2
<1> HIDE DEF Good
<1>2. \A s \in SUBSET A : s \in Good
  BY <1>1, SubsetInduction
<1> QED  BY <1>2 DEF Good

(* Any element may be taken out first, not just the chosen one.            *)
LEMMA TotalTakes ==
    ASSUME NEW F, NEW A, IsFiniteSet(A), \A x \in A : F[x] \in Int, NEW x \in A
    PROVE  Total(F, A) = F[x] + Total(F, A \ {x})
<1> DEFINE Good == {s \in SUBSET A : \A y \in s : Total(F, s) = F[y] + Total(F, s \ {y})}
<1>0. \A s \in SUBSET A : IsFiniteSet(s) /\ Total(F, s) \in Int
  BY FS_Subset, TotalType
<1>1. ASSUME NEW s \in SUBSET A, \A t \in SUBSET s : t # s => t \in Good
      PROVE  s \in Good
  <2> SUFFICES ASSUME NEW y \in s
               PROVE  Total(F, s) = F[y] + Total(F, s \ {y})
    OBVIOUS
  <2> DEFINE c == Chosen(s)
             t == s \ {c}
             u == s \ {y}
             v == s \ {c, y}
  <2>1. c \in s /\ IsFiniteSet(s) /\ Total(F, s) = F[c] + Total(F, t)
    BY <1>0, ChosenIn, TotalUnfolds
  <2>2. CASE c = y
    BY <2>1, <2>2
  <2>3. CASE c # y
    <3>1. t \in Good /\ u \in Good
      BY <1>1, <2>1
    <3>2. y \in t /\ c \in u /\ t \ {y} = v /\ u \ {c} = v
      BY <2>1, <2>3
    <3>3. Total(F, t) = F[y] + Total(F, v) /\ Total(F, u) = F[c] + Total(F, v)
      BY <3>1, <3>2
    <3>4. F[y] \in Int /\ F[c] \in Int /\ Total(F, v) \in Int
      BY <1>0, <2>1
    <3> HIDE DEF t, u, v, c
    <3> QED  BY <2>1, <3>3, <3>4 DEF u
  <2> QED  BY <2>2, <2>3
<1> HIDE DEF Good
<1>2. \A s \in SUBSET A : s \in Good
  BY <1>1, SubsetInduction
<1> QED  BY <1>2 DEF Good

(* Disjoint sets are added up separately.                                  *)
LEMMA TotalOfUnion ==
    ASSUME NEW F, NEW A, NEW B, IsFiniteSet(A), IsFiniteSet(B), A \cap B = {},
           \A x \in A \cup B : F[x] \in Int
    PROVE  Total(F, A \cup B) = Total(F, A) + Total(F, B)
<1> DEFINE Good == {s \in SUBSET A : Total(F, s \cup B) = Total(F, s) + Total(F, B)}
<1>0. /\ \A s \in SUBSET A : IsFiniteSet(s) /\ Total(F, s) \in Int /\ IsFiniteSet(s \cup B)
      /\ Total(F, B) \in Int
  BY FS_Subset, FS_Union, TotalType
<1>1. ASSUME NEW s \in SUBSET A, \A t \in SUBSET s : t # s => t \in Good
      PROVE  s \in Good
  <2>1. CASE s = {}
    BY <1>0, <2>1, TotalOfNone
  <2>2. CASE s # {}
    <3>1. PICK y : y \in s
      BY <2>2
    <3> DEFINE t == s \ {y}
    <3>2. t \in SUBSET s /\ t # s /\ y \in A /\ y \notin B /\ t \in Good
      BY <1>1, <3>1
    <3> HIDE DEF Good
    <3>3. Total(F, s) = F[y] + Total(F, t)
      <4>1. IsFiniteSet(s) /\ \A x \in s : F[x] \in Int
        BY <1>0
      <4> QED  BY <3>1, <4>1, TotalTakes
    <3>4. Total(F, s \cup B) = F[y] + Total(F, (s \cup B) \ {y})
      <4> DEFINE u == s \cup B
      <4>1. IsFiniteSet(u) /\ (\A x \in u : F[x] \in Int) /\ y \in u
        BY <1>0, <3>1
      <4> HIDE DEF u
      <4>2. Total(F, u) = F[y] + Total(F, u \ {y})
        BY <4>1, TotalTakes
      <4> QED  BY <4>2 DEF u
    <3>5. (s \cup B) \ {y} = t \cup B
      BY <3>1, <3>2
    <3>6. F[y] \in Int /\ Total(F, t) \in Int
      BY <1>0, <3>2
    <3>7. Total(F, t \cup B) = Total(F, t) + Total(F, B)
      BY <3>2 DEF Good
    <3> HIDE DEF t
    <3>8. Total(F, s \cup B) = Total(F, s) + Total(F, B)
      <4>1. Total(F, s \cup B) = F[y] + Total(F, t \cup B)
        BY <3>4, <3>5, Zenon
      <4>2. Total(F, B) \in Int
        BY <1>0
      <4> QED  BY <3>3, <3>6, <3>7, <4>1, <4>2
    <3> QED  BY <3>8 DEF Good
  <2> QED  BY <2>1, <2>2
<1> HIDE DEF Good
<1>2. \A s \in SUBSET A : s \in Good
  BY <1>1, SubsetInduction
<1> QED  BY <1>2 DEF Good

(* A part of a sum of naturals is no more than the whole.                  *)
LEMMA TotalOfPart ==
    ASSUME NEW F, NEW A, NEW B, IsFiniteSet(A), B \subseteq A,
           \A x \in A : F[x] \in Nat
    PROVE  Total(F, B) <= Total(F, A)
<1> DEFINE C == A \ B
<1>1. IsFiniteSet(B) /\ IsFiniteSet(C) /\ B \cap C = {} /\ A = B \cup C
  BY FS_Subset
<1>2. \A x \in B \cup C : F[x] \in Int
  BY <1>1
<1> HIDE DEF C
<1>3. Total(F, A) = Total(F, B) + Total(F, C)
  BY <1>1, <1>2, TotalOfUnion
<1>4. /\ \A x \in B : F[x] \in Int
      /\ \A x \in C : F[x] \in Int /\ F[x] >= 0
  BY <1>1
<1>5. Total(F, B) \in Int
  BY <1>1, <1>4, TotalType
<1>6. Total(F, C) \in Int /\ Total(F, C) >= 0
  BY <1>1, <1>4, TotalType
<1> QED  BY <1>3, <1>5, <1>6

(* The difference of two functions adds up to the difference.              *)
LEMMA TotalOfDifference ==
    ASSUME NEW F, NEW T, NEW G, NEW A, IsFiniteSet(A),
           \A x \in A : F[x] \in Int /\ T[x] \in Int /\ G[x] = F[x] - T[x]
    PROVE  Total(G, A) = Total(F, A) - Total(T, A)
<1> DEFINE Good == {s \in SUBSET A : Total(G, s) = Total(F, s) - Total(T, s)}
<1>1. ASSUME NEW s \in SUBSET A, \A t \in SUBSET s : t # s => t \in Good
      PROVE  s \in Good
  <2>1. CASE s = {}
    BY <2>1, TotalOfNone
  <2>2. CASE s # {}
    <3> DEFINE x == Chosen(s)
               t == s \ {x}
    <3>1. t \in SUBSET s /\ t # s /\ x \in A /\ IsFiniteSet(s) /\ IsFiniteSet(t)
      BY <2>2, ChosenIn, FS_Subset
    <3>2. Total(G, t) = Total(F, t) - Total(T, t)
      BY <1>1, <3>1
    <3>3. /\ Total(F, s) = F[x] + Total(F, t)
          /\ Total(T, s) = T[x] + Total(T, t)
          /\ Total(G, s) = G[x] + Total(G, t)
      BY <2>2, <3>1, TotalUnfolds
    <3>4. F[x] \in Int /\ T[x] \in Int /\ G[x] = F[x] - T[x]
      BY <3>1
    <3>5. \A y \in t : F[y] \in Int /\ T[y] \in Int
      BY <3>1
    <3> HIDE DEF x, t
    <3>6. Total(F, t) \in Int /\ Total(T, t) \in Int
      BY <3>1, <3>5, TotalType
    <3>7. Total(G, s) = Total(F, s) - Total(T, s)
      BY <3>2, <3>3, <3>4, <3>6
    <3> QED  BY <3>7
  <2> QED  BY <2>1, <2>2
<1> HIDE DEF Good
<1>2. \A s \in SUBSET A : s \in Good
  BY <1>1, SubsetInduction
<1> QED  BY <1>2 DEF Good

(* Adding up over the image of an injective function.                      *)
LEMMA TotalRenamed ==
    ASSUME NEW F, NEW G, NEW H, NEW A, IsFiniteSet(A),
           \A x \in A : G[x] = F[H[x]] /\ F[H[x]] \in Int,
           \A x, y \in A : H[x] = H[y] => x = y
    PROVE  IsFiniteSet({H[x] : x \in A}) /\ Total(F, {H[x] : x \in A}) = Total(G, A)
<1> DEFINE Img(s) == {H[x] : x \in s}
           Good == {s \in SUBSET A : IsFiniteSet(Img(s)) /\ Total(F, Img(s)) = Total(G, s)}
<1>1. ASSUME NEW s \in SUBSET A, \A t \in SUBSET s : t # s => t \in Good
      PROVE  s \in Good
  <2>1. CASE s = {}
    BY <2>1, TotalOfNone, FS_EmptySet
  <2>2. CASE s # {}
    <3> DEFINE x == Chosen(s)
               t == s \ {x}
    <3>1. t \in SUBSET s /\ t # s /\ x \in s /\ IsFiniteSet(s)
      BY <2>2, ChosenIn, FS_Subset
    <3>2. IsFiniteSet(Img(t)) /\ Total(F, Img(t)) = Total(G, t)
      BY <1>1, <3>1
    <3>3. Total(G, s) = G[x] + Total(G, t)
      BY <2>2, <3>1, TotalUnfolds
    <3>4. Img(s) = Img(t) \cup {H[x]}
      BY <3>1
    <3>5. Img(s) \ {H[x]} = Img(t) /\ H[x] \in Img(s) /\ \A y \in Img(s) : F[y] \in Int
      BY <3>1
    <3> HIDE DEF t, x, Img, Good
    <3>10. IsFiniteSet(Img(s))
      BY <3>2, <3>4, FS_AddElement
    <3>6. Total(F, Img(s)) = F[H[x]] + Total(F, Img(s) \ {H[x]})
      BY <3>5, <3>10, TotalTakes
    <3>7. Total(F, Img(s)) = F[H[x]] + Total(F, Img(t))
      BY <3>5, <3>6, Zenon
    <3>8. G[x] = F[H[x]]
      BY <3>1
    <3>9. Total(F, Img(s)) = Total(G, s)
      BY <3>2, <3>3, <3>7, <3>8
    <3> QED  BY <3>9, <3>10 DEF Good
  <2> QED  BY <2>1, <2>2
<1> HIDE DEF Good
<1>2. \A s \in SUBSET A : s \in Good
  BY <1>1, SubsetInduction
<1> QED  BY <1>2 DEF Good

LEMMA TotalOfZeros ==
    ASSUME NEW F, NEW A, IsFiniteSet(A), \A x \in A : F[x] = 0
    PROVE  Total(F, A) = 0
<1>1. \A x \in A : F[x] \in Int /\ F[x] = F[x] - F[x]
  OBVIOUS
<1>2. Total(F, A) = Total(F, A) - Total(F, A)
  BY <1>1, TotalOfDifference
<1>3. Total(F, A) \in Int
  BY <1>1, TotalType
<1> QED  BY <1>2, <1>3

(* The pairs of Lt put A in strict order.                                  *)
Ordered(Lt, A) ==
    /\ \A x \in A : <<x, x>> \notin Lt
    /\ \A x, y, z \in A : <<x, y>> \in Lt /\ <<y, z>> \in Lt => <<x, z>> \in Lt
    /\ \A x, y \in A : x # y => <<x, y>> \in Lt \/ <<y, x>> \in Lt

(* Every part of a finite ordered set has a last element.                  *)
LEMMA LastExists ==
    ASSUME NEW Lt, NEW A, IsFiniteSet(A), Ordered(Lt, A)
    PROVE  \A s \in SUBSET A : s # {} => \E m \in s : \A y \in s : y = m \/ <<y, m>> \in Lt
<1> DEFINE Good == {s \in SUBSET A :
                       s # {} => \E m \in s : \A y \in s : y = m \/ <<y, m>> \in Lt}
<1>1. ASSUME NEW s \in SUBSET A, \A t \in SUBSET s : t # s => t \in Good
      PROVE  s \in Good
  <2> SUFFICES ASSUME s # {}
               PROVE  \E m \in s : \A y \in s : y = m \/ <<y, m>> \in Lt
    OBVIOUS
  <2>1. PICK x : x \in s
    OBVIOUS
  <2> DEFINE t == s \ {x}
  <2>2. t \in SUBSET s /\ t # s /\ t \in Good
    BY <1>1, <2>1
  <2>3. CASE t = {}
    BY <2>1, <2>3
  <2>4. CASE t # {}
    <3>1. PICK m \in t : \A y \in t : y = m \/ <<y, m>> \in Lt
      BY <2>2, <2>4
    <3>2. CASE <<x, m>> \in Lt
      BY <2>1, <3>1, <3>2
    <3>3. CASE <<m, x>> \in Lt
      <4>1. \A y \in s : y = x \/ <<y, x>> \in Lt
        BY <2>1, <3>1, <3>3 DEF Ordered
      <4> QED  BY <2>1, <4>1
    <3> QED  BY <2>1, <3>1, <3>2, <3>3 DEF Ordered
  <2> QED  BY <2>3, <2>4
<1> HIDE DEF Good
<1>2. \A s \in SUBSET A : s \in Good
  BY <1>1, SubsetInduction
<1> QED  BY <1>2 DEF Good

Least(m, n) == IF m <= n THEN m ELSE n

(* What those before x leave uncovered of n, when each gives R of it.      *)
Uncovered(n, R, Lt, A, x) == n - Total(R, {y \in A : <<y, x>> \in Lt})

(* The share of n that falls to x.                                         *)
Share(n, R, Lt, A, x) ==
    IF Uncovered(n, R, Lt, A, x) <= 0 THEN 0 ELSE Least(Uncovered(n, R, Lt, A, x), R[x])

(* When each in turn gives its share of n, together they give n, or all    *)
(* they have when that is less.                                            *)
LEMMA DrawnInOrder ==
    ASSUME NEW Lt, NEW A, IsFiniteSet(A), Ordered(Lt, A), NEW n \in Nat,
           NEW R, \A x \in A : R[x] \in Nat,
           NEW T,
           \A x \in A : T[x] = Share(n, R, Lt, A, x)
    PROVE  Total(T, A) = Least(n, Total(R, A))
<1> DEFINE Closed(s) == \A x \in s, y \in A : <<y, x>> \in Lt => y \in s
           Good == {s \in SUBSET A : Closed(s) => Total(T, s) = Least(n, Total(R, s))}
<1>0. \A s \in SUBSET A : /\ IsFiniteSet(s)
                          /\ Total(R, s) \in Int
                          /\ Total(R, s) >= 0
  BY FS_Subset, TotalType
<1>1. ASSUME NEW s \in SUBSET A, \A t \in SUBSET s : t # s => t \in Good
      PROVE  s \in Good
  <2> SUFFICES ASSUME Closed(s)
               PROVE  Total(T, s) = Least(n, Total(R, s))
    OBVIOUS
  <2>1. CASE s = {}
    BY <2>1, TotalOfNone DEF Least
  <2>2. CASE s # {}
    <3>1. PICK m \in s : \A y \in s : y = m \/ <<y, m>> \in Lt
      BY <2>2, LastExists
    <3> DEFINE t == s \ {m}
    <3>2. t \in SUBSET s /\ t # s /\ t \in SUBSET A /\ m \in A
      BY <3>1
    <3>3. Closed(t)
      BY <3>1 DEF Ordered
    <3>4. {y \in A : <<y, m>> \in Lt} = t
      BY <3>1 DEF Ordered
    <3>5. Total(T, t) = Least(n, Total(R, t))
      BY <1>1, <3>2, <3>3
    <3> DEFINE u == n - Total(R, t)
    <3>6. T[m] = IF u <= 0 THEN 0 ELSE Least(u, R[m])
      BY <3>2, <3>4 DEF Share, Uncovered
    <3>7. R[m] \in Nat /\ Total(R, t) \in Int /\ u \in Int
      BY <1>0, <3>2
    <3>8. Total(R, s) = R[m] + Total(R, t)
      BY <1>0, <3>1, TotalTakes
    <3>9. \A x \in A : T[x] \in Int
      <4> SUFFICES ASSUME NEW x \in A PROVE T[x] \in Int
        OBVIOUS
      <4> DEFINE B == {y \in A : <<y, x>> \in Lt}
                 v == n - Total(R, B)
      <4>1. v \in Int
        <5>1. B \in SUBSET A
          OBVIOUS
        <5> HIDE DEF B
        <5> QED  BY <1>0, <5>1
      <4>2. T[x] = IF v <= 0 THEN 0 ELSE Least(v, R[x])
        BY DEF Share, Uncovered
      <4> HIDE DEF v
      <4> QED  BY <4>1, <4>2 DEF Least
    <3>10. Total(T, s) = T[m] + Total(T, t)
      BY <1>0, <3>1, <3>9, TotalTakes
    <3> HIDE DEF t
    <3> QED  BY <3>5, <3>6, <3>7, <3>8, <3>10 DEF Least
  <2> QED  BY <2>1, <2>2
<1> HIDE DEF Good
<1>2. \A s \in SUBSET A : s \in Good
  BY <1>1, SubsetInduction
<1> QED  BY <1>2 DEF Good

(* The points of an entry and what is left of a lot, as functions.         *)
PointsOf == [e \in Entry |-> e.points]

Left(L) == [i \in DOMAIN L |-> L[i].remaining]

(* SumRemaining, with the table as a parameter: lots or lots'.             *)
SumLeft(L, ids) == MapThenSumSet(LAMBDA i : L[i].remaining, ids)

(* Whatever adds F up is its sum.                                          *)
LEMMA TotalIs ==
    ASSUME NEW F, NEW A, IsFiniteSet(A), NEW h, Adds(h, F, A)
    PROVE  h[A] = Total(F, A)
<1>1. Adds(CHOOSE g : Adds(g, F, A), F, A)
  OBVIOUS
<1>2. \A s \in SUBSET A : s \subseteq A => h[s] = (CHOOSE g : Adds(g, F, A))[s]
  BY <1>1, AddsOnce
<1> QED  BY <1>2 DEF Total

(* The fold of the model is such a sum.                                    *)
LEMMA SumPointsIs ==
    ASSUME NEW S \in SUBSET Entry, IsFiniteSet(S)
    PROVE  SumPoints(S) = Total(PointsOf, S)
<1> DEFINE Rec(g) == g = [s \in SUBSET S |-> IF s = {} THEN 0
                            ELSE (CHOOSE x \in s : TRUE).points + g[s \ {CHOOSE x \in s : TRUE}]]
           h == CHOOSE g : Rec(g)
<1>1. SumPoints(S) = h[S]
  BY DEF SumPoints, MapThenSumSet, MapThenFoldSet
<1>2. \A g : Adds(g, PointsOf, S) <=> Rec(g)
  <2> SUFFICES ASSUME NEW g
               PROVE  Adds(g, PointsOf, S) <=> Rec(g)
    OBVIOUS
  <2>1. \A s \in SUBSET S : s # {} => PointsOf[Chosen(s)] = (CHOOSE x \in s : TRUE).points
    BY ChosenIn DEF Chosen, PointsOf
  <2>2. [s \in SUBSET S |-> IF s = {} THEN 0 ELSE PointsOf[Chosen(s)] + g[s \ {Chosen(s)}]]
        = [s \in SUBSET S |-> IF s = {} THEN 0
                 ELSE (CHOOSE x \in s : TRUE).points + g[s \ {CHOOSE x \in s : TRUE}]]
    BY <2>1 DEF Chosen
  <2> QED  BY <2>2 DEF Adds
<1> HIDE DEF Rec
<1>3. PICK g : Adds(g, PointsOf, S)
  BY TotalExists
<1>4. Adds(h, PointsOf, S)
  BY <1>2, <1>3
<1> HIDE DEF h
<1> QED  BY <1>1, <1>4, TotalIs

LEMMA SumLeftIs ==
    ASSUME NEW L, NEW S \in SUBSET DOMAIN L, IsFiniteSet(S)
    PROVE  SumLeft(L, S) = Total(Left(L), S)
<1> DEFINE F == Left(L)
           Rec(g) == g = [s \in SUBSET S |-> IF s = {} THEN 0
                            ELSE L[CHOOSE x \in s : TRUE].remaining
                                 + g[s \ {CHOOSE x \in s : TRUE}]]
           h == CHOOSE g : Rec(g)
<1>1. SumLeft(L, S) = h[S]
  BY DEF SumLeft, MapThenSumSet, MapThenFoldSet
<1>2. \A g : Adds(g, F, S) <=> Rec(g)
  <2> SUFFICES ASSUME NEW g
               PROVE  Adds(g, F, S) <=> Rec(g)
    OBVIOUS
  <2>1. \A s \in SUBSET S : s # {} => F[Chosen(s)] = L[CHOOSE x \in s : TRUE].remaining
    BY ChosenIn DEF Chosen, Left
  <2>2. [s \in SUBSET S |-> IF s = {} THEN 0 ELSE F[Chosen(s)] + g[s \ {Chosen(s)}]]
        = [s \in SUBSET S |-> IF s = {} THEN 0
                 ELSE L[CHOOSE x \in s : TRUE].remaining + g[s \ {CHOOSE x \in s : TRUE}]]
    BY <2>1 DEF Chosen
  <2> QED  BY <2>2 DEF Adds
<1> HIDE DEF Rec, F
<1>3. PICK g : Adds(g, F, S)
  BY TotalExists
<1>4. Adds(h, F, S)
  BY <1>2, <1>3
<1> HIDE DEF h
<1>5. h[S] = Total(F, S)
  BY <1>4, TotalIs
<1> QED  BY <1>1, <1>5 DEF F

(* Entries added to others.                                                *)
LEMMA SumPointsOf ==
    ASSUME NEW A \in SUBSET Entry, NEW B \in SUBSET Entry,
           IsFiniteSet(A), IsFiniteSet(B), A \cap B = {}
    PROVE  /\ SumPoints(A) \in Int
           /\ SumPoints(A \cup B) = SumPoints(A) + SumPoints(B)
<1>1. \A e \in A \cup B : PointsOf[e] \in Int
  BY DEF PointsOf, Entry
<1>2. IsFiniteSet(A \cup B) /\ A \cup B \in SUBSET Entry
  BY FS_Union
<1>3. Total(PointsOf, A \cup B) = Total(PointsOf, A) + Total(PointsOf, B)
  BY <1>1, TotalOfUnion
<1>4. Total(PointsOf, A) \in Int
  BY <1>1, TotalType
<1> QED  BY <1>2, <1>3, <1>4, SumPointsIs

LEMMA SumPointsOfOne ==
    ASSUME NEW e \in Entry
    PROVE  SumPoints({e}) = e.points
<1>1. IsFiniteSet({e}) /\ {e} \in SUBSET Entry /\ \A x \in {e} : PointsOf[x] \in Int
  BY FS_Singleton DEF PointsOf, Entry
<1>2. Total(PointsOf, {e}) = PointsOf[e] + Total(PointsOf, {e} \ {e})
  BY <1>1, TotalTakes
<1>3. Total(PointsOf, {e} \ {e}) = 0
  <2>1. {e} \ {e} = {}
    OBVIOUS
  <2> QED  BY <2>1, TotalOfNone, Zenon
<1>4. PointsOf[e] \in Int /\ PointsOf[e] = e.points
  BY DEF PointsOf, Entry
<1>5. SumPoints({e}) = Total(PointsOf, {e})
  BY <1>1, SumPointsIs
<1> QED  BY <1>2, <1>3, <1>4, <1>5

(* Credits never add up to less than nothing.                              *)
LEMMA SumPointsOfCredits ==
    ASSUME NEW A \in SUBSET Entry, IsFiniteSet(A), \A e \in A : e.points > 0
    PROVE  SumPoints(A) >= 0
<1>1. \A e \in A : PointsOf[e] \in Int /\ PointsOf[e] >= 0
  BY DEF PointsOf, Entry
<1> QED  BY <1>1, TotalType, SumPointsIs

LEMMA SumPointsOfDebits ==
    ASSUME NEW A \in SUBSET Entry, IsFiniteSet(A), \A e \in A : e.points < 0
    PROVE  SumPoints(A) <= 0
<1> DEFINE Z == [e \in A |-> 0]
           D == [e \in A |-> -e.points]
<1>1. \A e \in A : /\ PointsOf[e] \in Int /\ D[e] \in Int /\ D[e] >= 0 /\ Z[e] \in Int
                   /\ PointsOf[e] = Z[e] - D[e]
                   /\ Z[e] = 0
  BY DEF PointsOf, Entry
<1> HIDE DEF Z, D
<1>2. Total(Z, A) = 0
  BY <1>1, TotalOfZeros
<1>3. Total(D, A) \in Int /\ Total(D, A) >= 0
  BY <1>1, TotalType
<1>4. Total(PointsOf, A) = Total(Z, A) - Total(D, A)
  BY <1>1, TotalOfDifference
<1> QED  BY <1>2, <1>3, <1>4, SumPointsIs

(* Entries with ids of their own among the first n are finitely many.      *)
LEMMA NumberedFinite ==
    ASSUME NEW n \in Nat, NEW entries,
           \A e \in entries : e.id \in 1..n,
           \A e, f \in entries : e.id = f.id => e = f
    PROVE  IsFiniteSet(entries)
<1> DEFINE F == [e \in entries |-> e.id]
<1>1. F \in Injection(entries, 1..n)
  BY DEF Injection, IsInjective
<1>2. IsFiniteSet(1..n)
  BY FS_Interval
<1> QED  BY <1>1, <1>2, FS_Injection DEF ExistsInjection

-----------------------------------------------------------------------------
(* What a transaction does to ledger_entries and point_lots.  Entry ids    *)
(* are handed out in order, and a lot bears the id of its entry.           *)

Numbered ==
    /\ \A e \in ledger : e.id \in 1..serial
    /\ \A e, f \in ledger : e.id = f.id => e = f
    /\ DOMAIN lots \subseteq 1..serial

LotsOK ==
    /\ DOMAIN lots \subseteq 1..serial
    /\ lots \in [DOMAIN lots -> Lot]
    /\ \A i \in DOMAIN lots : lots[i].remaining <= lots[i].original

(* No lot is deleted, given away, resized or filled up again.              *)
LotsOnlyShrink ==
    /\ DOMAIN lots \subseteq DOMAIN lots'
    /\ \A i \in DOMAIN lots :
          /\ lots'[i].customer = lots[i].customer
          /\ lots'[i].original = lots[i].original
          /\ lots'[i].remaining <= lots[i].remaining

(* The entries are appended under fresh ids, each credit with its lot.     *)
Appends(new) ==
    /\ ledger' = ledger \cup new
    /\ serial' \in Nat
    /\ serial <= serial'
    /\ \A e \in new : e.id \in (serial + 1)..serial'
    /\ \A e, f \in new : e.id = f.id => e = f
    /\ \A e \in new :
          e.points > 0 =>
              /\ e.id \in DOMAIN lots'
              /\ lots'[e.id].original = e.points
              /\ lots'[e.id].customer = e.customer

Effect(new) ==
    /\ new \subseteq Entry
    /\ LotsOK'
    /\ LotsOnlyShrink
    /\ Appends(new)

(* The transactions that touch ledger_entries or point_lots have four      *)
(* shapes. Credits, each with a lot; an order may be named by what it      *)
(* earned.                                                                 *)
Credits(new, x) ==
    /\ new \subseteq Entry
    /\ x \in Nat
    /\ serial' \in Nat
    /\ serial <= serial'
    /\ \A e \in new :
          /\ e.points > 0
          /\ e.id \in (serial + 1)..serial'
          /\ e.order # None => e.type \in OrderEarnType
    /\ \A e, f \in new : e.id = f.id => e = f
    /\ Credit(new, x)

(* One debit that draws lots for n points, which are there to be drawn; a  *)
(* clawback takes no more than its order has left.                         *)
Draws(c, n, e) ==
    /\ e \in Entry
    /\ e.id = serial + 1
    /\ serial' = serial + 1
    /\ e.customer = c
    /\ e.type \in {"spend", "clawback"}
    /\ e.points < 0
    /\ ledger' = ledger \cup {e}
    /\ n \in Nat
    /\ n <= Spendable(c)
    /\ ~AllowNegative => e.points = -n
    /\ ConsumeLotsFifo(c, n)
    /\ e.order # None => e.type = "clawback" /\ -e.points <= HeadRoom(e.order)

(* An operator's debit, which draws none. The fourth shape is the expiry   *)
(* scan.                                                                   *)
Withdraws(e) ==
    /\ e \in Entry
    /\ e.id = serial + 1
    /\ serial' = serial + 1
    /\ e.type = "adjust"
    /\ e.points < 0
    /\ e.order = None
    /\ ledger' = ledger \cup {e}
    /\ UNCHANGED lots

LEMMA NewEntryType ==
    ASSUME NEW id \in Nat, NEW c \in Customer, NEW type \in EntryType,
           NEW p \in Int \ {0}
    PROVE  /\ NewEntry(id, c, type, p) \in Entry
           /\ NewEntry(id, c, type, p).id = id
           /\ NewEntry(id, c, type, p).customer = c
           /\ NewEntry(id, c, type, p).type = type
           /\ NewEntry(id, c, type, p).points = p
           /\ NewEntry(id, c, type, p).key = None
BY DEF NewEntry, Entry

LEMMA NewLotType ==
    ASSUME serial \in Nat, NEW id \in Nat, NEW c \in Customer,
           NEW p \in Points, NEW x \in Nat
    PROVE  /\ NewLot(id, c, p, x) \in Lot
           /\ NewLot(id, c, p, x).original = p
           /\ NewLot(id, c, p, x).remaining = p
           /\ NewLot(id, c, p, x).customer = c
BY DEF NewLot, Lot, Points

(* A transaction that leaves both tables alone.                            *)
LEMMA NoEffect ==
    ASSUME TypeOK, Numbered, UNCHANGED <<ledger, lots, serial>>
    PROVE  Effect({})
<1>1. \A i \in DOMAIN lots : lots[i].remaining \in Nat
  BY DEF TypeOK, Lot
<1>2. LotsOnlyShrink
  BY <1>1 DEF LotsOnlyShrink
<1>3. LotsOK'
  BY DEF LotsOK, TypeOK, Numbered
<1>4. Appends({})
  BY DEF Appends, TypeOK
<1> QED  BY <1>2, <1>3, <1>4 DEF Effect

(* A transaction that credits.                                             *)
LEMMA CreditEffect ==
    ASSUME TypeOK, Numbered,
           NEW new \in SUBSET Entry, NEW x \in Nat,
           serial' \in Nat, serial <= serial',
           \A e \in new : e.points > 0 /\ e.id \in (serial + 1)..serial',
           \A e, f \in new : e.id = f.id => e = f,
           Credit(new, x)
    PROVE  Effect(new)
<1> DEFINE ids == {e.id : e \in new}
<1>1. /\ serial \in Nat
      /\ DOMAIN lots \subseteq 1..serial
      /\ lots \in [DOMAIN lots -> Lot]
      /\ \A i \in DOMAIN lots : lots[i].remaining <= lots[i].original
  BY DEF TypeOK, Numbered
<1>2. /\ DOMAIN lots' = DOMAIN lots \cup ids
      /\ \A i \in DOMAIN lots : lots'[i] = lots[i]
  BY DEF Credit
<1>3. \A e \in new : lots'[e.id] = NewLot(e.id, e.customer, e.points, x)
  <2> SUFFICES ASSUME NEW e \in new
               PROVE  lots'[e.id] = NewLot(e.id, e.customer, e.points, x)
    OBVIOUS
  <2>1. e.id \notin DOMAIN lots
    BY <1>1
  <2>2. (CHOOSE y \in new : y.id = e.id) = e
    OBVIOUS
  <2> QED  BY <2>1, <2>2 DEF Credit
<1>4. \A e \in new :
          /\ lots'[e.id] \in Lot
          /\ lots'[e.id].original = e.points
          /\ lots'[e.id].remaining = e.points
          /\ lots'[e.id].customer = e.customer
  <2> SUFFICES ASSUME NEW e \in new
               PROVE  /\ lots'[e.id] \in Lot
                      /\ lots'[e.id].original = e.points
                      /\ lots'[e.id].remaining = e.points
                      /\ lots'[e.id].customer = e.customer
    OBVIOUS
  <2>1. e.id \in Nat /\ e.customer \in Customer /\ e.points \in Points
    BY DEF Entry, Points
  <2> QED  BY <1>1, <1>3, <2>1, NewLotType
<1>5. LotsOnlyShrink
  BY <1>1, <1>2 DEF LotsOnlyShrink, Lot
<1>6. LotsOK'
  <2>1. DOMAIN lots' \subseteq 1..serial'
    BY <1>1, <1>2
  <2>2. lots' = [i \in DOMAIN lots' |-> lots'[i]]
    BY DEF Credit
  <2>3. \A i \in DOMAIN lots' :
            lots'[i] \in Lot /\ lots'[i].remaining <= lots'[i].original
    BY <1>1, <1>2, <1>4 DEF Lot, Entry
  <2> QED  BY <2>1, <2>2, <2>3 DEF LotsOK
<1>7. Appends(new)
  BY <1>2, <1>4 DEF Appends, Credit
<1> QED  BY <1>5, <1>6, <1>7 DEF Effect

LEMMA ChangedLotType ==
    ASSUME NEW l \in Lot, NEW r \in Nat, NEW q \in Nat
    PROVE  LET m == [l EXCEPT !.remaining = r, !.place = q]
           IN  /\ m \in Lot
               /\ m.customer = l.customer
               /\ m.original = l.original
               /\ m.remaining = r
BY DEF Lot

(* Drawing lots takes from each no more than it holds.                     *)
LEMMA ConsumeLots ==
    ASSUME TypeOK, Numbered, NEW c, NEW n, ConsumeLotsFifo(c, n),
           serial' \in Nat, serial <= serial'
    PROVE  LotsOK' /\ LotsOnlyShrink /\ DOMAIN lots' = DOMAIN lots
<1>1. /\ serial \in Nat
      /\ DOMAIN lots \subseteq 1..serial
      /\ \A i \in DOMAIN lots : lots[i] \in Lot /\ lots[i].remaining <= lots[i].original
  BY DEF TypeOK, Numbered
<1>2. \A i \in DOMAIN lots : FifoTake(c, n, i) \in 0..lots[i].remaining
  <2> SUFFICES ASSUME NEW i \in DOMAIN lots
               PROVE  FifoTake(c, n, i) \in 0..lots[i].remaining
    OBVIOUS
  <2>1. lots[i].remaining \in Nat
    BY <1>1 DEF Lot
  <2> QED  BY <2>1 DEF FifoTake
<1>3. PICK moved \in BOOLEAN :
          lots' = [i \in DOMAIN lots |->
                     IF FifoTake(c, n, i) = 0 THEN lots[i]
                     ELSE [lots[i] EXCEPT !.remaining = @ - FifoTake(c, n, i),
                                          !.place = IF moved THEN serial + 1 ELSE @]]
  BY DEF ConsumeLotsFifo
<1>4. DOMAIN lots' = DOMAIN lots /\ lots' = [i \in DOMAIN lots' |-> lots'[i]]
  BY <1>3
<1>5. \A i \in DOMAIN lots :
          /\ lots'[i] \in Lot
          /\ lots'[i].customer = lots[i].customer
          /\ lots'[i].original = lots[i].original
          /\ lots'[i].remaining <= lots[i].remaining
  <2> SUFFICES ASSUME NEW i \in DOMAIN lots
               PROVE  /\ lots'[i] \in Lot
                      /\ lots'[i].customer = lots[i].customer
                      /\ lots'[i].original = lots[i].original
                      /\ lots'[i].remaining <= lots[i].remaining
    OBVIOUS
  <2> DEFINE take == FifoTake(c, n, i)
             place == IF moved THEN serial + 1 ELSE lots[i].place
  <2>1. lots[i] \in Lot /\ take \in 0..lots[i].remaining
    BY <1>1, <1>2
  <2>2. lots'[i] = IF take = 0 THEN lots[i]
                   ELSE [lots[i] EXCEPT !.remaining = lots[i].remaining - take,
                                        !.place = place]
    BY <1>3
  <2>3. place \in Nat
    BY <1>1, <2>1 DEF Lot
  <2>4. lots[i].remaining \in Nat
    BY <2>1 DEF Lot
  <2>5. CASE take = 0
    BY <2>1, <2>2, <2>4, <2>5
  <2>6. CASE take # 0
    <3>1. lots[i].remaining - take \in Nat /\ lots[i].remaining - take <= lots[i].remaining
      BY <2>1, <2>4
    <3> DEFINE left == lots[i].remaining - take
               changed == [lots[i] EXCEPT !.remaining = left, !.place = place]
    <3>2. lots'[i] = changed
      BY <2>2, <2>6
    <3> HIDE DEF take, place, left
    <3>3. left \in Nat /\ left <= lots[i].remaining
      BY <3>1 DEF left
    <3>4. /\ changed \in Lot
          /\ changed.customer = lots[i].customer
          /\ changed.original = lots[i].original
          /\ changed.remaining = left
      BY <2>1, <2>3, <3>3, ChangedLotType
    <3> HIDE DEF changed
    <3> QED  BY <3>2, <3>3, <3>4
  <2> QED  BY <2>5, <2>6
<1>6. \A i \in DOMAIN lots : lots[i].remaining \in Nat /\ lots[i].original \in Nat
                             /\ lots'[i].remaining \in Nat
  BY <1>1, <1>5 DEF Lot, Points
<1>7. LotsOK'
  BY <1>1, <1>4, <1>5, <1>6 DEF LotsOK
<1>8. LotsOnlyShrink
  BY <1>4, <1>5 DEF LotsOnlyShrink
<1> QED  BY <1>4, <1>7, <1>8

(* A transaction that debits and draws lots.                               *)
LEMMA DebitEffect ==
    ASSUME TypeOK, Numbered, NEW c, NEW n,
           NEW e \in Entry, e.points < 0, e.id = serial + 1,
           serial' = serial + 1,
           ledger' = ledger \cup {e},
           ConsumeLotsFifo(c, n)
    PROVE  Effect({e})
<1>1. serial \in Nat
  BY DEF TypeOK
<1>2. LotsOK' /\ LotsOnlyShrink
  BY <1>1, ConsumeLots
<1>3. e.points \in Int
  BY DEF Entry
<1>4. Appends({e})
  BY <1>1, <1>3 DEF Appends
<1> QED  BY <1>2, <1>4 DEF Effect

(* An operator's debit draws none.                                         *)
LEMMA BareDebitEffect ==
    ASSUME TypeOK, Numbered,
           NEW e \in Entry, e.points < 0, e.id = serial + 1,
           serial' = serial + 1,
           ledger' = ledger \cup {e},
           UNCHANGED lots
    PROVE  Effect({e})
<1>1. /\ serial \in Nat
      /\ DOMAIN lots \subseteq 1..serial
      /\ lots \in [DOMAIN lots -> Lot]
      /\ \A i \in DOMAIN lots : lots[i].remaining <= lots[i].original
  BY DEF TypeOK, Numbered
<1>2. \A i \in DOMAIN lots : lots[i].remaining \in Nat
  BY <1>1 DEF Lot
<1>3. LotsOnlyShrink
  BY <1>2 DEF LotsOnlyShrink
<1>4. LotsOK'
  BY <1>1 DEF LotsOK
<1>5. e.points \in Int
  BY DEF Entry
<1>6. Appends({e})
  BY <1>1, <1>5 DEF Appends
<1> QED  BY <1>3, <1>4, <1>6 DEF Effect

(* What the effect of a transaction preserves, whatever it appends.        *)
LEMMA EffectKeeps ==
    ASSUME TypeOK, Numbered, CreditsBacked, NEW new, Effect(new)
    PROVE  Numbered' /\ CreditsBacked' /\ ledger' \subseteq Entry
<1>1. serial \in Nat /\ serial' \in Nat /\ serial <= serial' /\ ledger \subseteq Entry
  BY DEF TypeOK, Effect, Appends
<1>2. ledger' = ledger \cup new /\ new \subseteq Entry
  BY DEF Effect, Appends
<1>3. Numbered'
  <2>1. \A e \in ledger' : e.id \in 1..serial'
    BY <1>1, <1>2 DEF Numbered, Effect, Appends
  <2>2. \A e, f \in ledger' : e.id = f.id => e = f
    BY <1>1, <1>2 DEF Numbered, Effect, Appends
  <2> QED  BY <2>1, <2>2 DEF Numbered, Effect, LotsOK
<1>4. CreditsBacked'
  BY <1>2 DEF CreditsBacked, Effect, Appends, LotsOnlyShrink
<1> QED  BY <1>1, <1>2, <1>3, <1>4

LEMMA EffectType ==
    ASSUME TypeOK, NEW new, Effect(new),
           known' \subseteq Customer,
           tier' \in [Customer -> TierRank],
           spend' \in [Customer -> Nat],
           redemptions' \in [Customer -> [Key -> Redemption]],
           referrals' \in [Customer -> Referral],
           now' \in Nat
    PROVE  TypeOK'
<1>1. ledger' \subseteq Entry /\ serial' \in Nat
  BY DEF TypeOK, Effect, Appends
<1>2. /\ DOMAIN lots' \subseteq Nat
      /\ lots' \in [DOMAIN lots' -> Lot]
      /\ \A i \in DOMAIN lots' : lots'[i].remaining <= lots'[i].original
  BY <1>1 DEF Effect, LotsOK
<1> QED  BY <1>1, <1>2 DEF TypeOK

-----------------------------------------------------------------------------
(* The effect of each action.                                              *)

LEMMA SignupEffect ==
    ASSUME TypeOK, Numbered, NEW c \in Customer, EarnSignup(c)
    PROVE  Effect({NewEntry(serial + 1, c, "earn_signup", SIGNUP_POINTS)}) /\ TypeOK'
<1> DEFINE e == NewEntry(serial + 1, c, "earn_signup", SIGNUP_POINTS)
<1>1. serial \in Nat /\ now + LotLife \in Nat
  BY LedgerConstants DEF TypeOK
<1>2. e \in Entry /\ e.points = 50 /\ e.id = serial + 1
  BY <1>1, NewEntryType DEF SIGNUP_POINTS, EntryType, EarnType
<1>3. serial' = serial + 1 /\ Credit({e}, now + LotLife)
  BY DEF EarnSignup, TakeIds
<1> HIDE DEF e
<1>4. Effect({e})
  BY <1>1, <1>2, <1>3, CreditEffect
<1>5. TypeOK'
  BY <1>4, EffectType DEF EarnSignup, TypeOK
<1> QED  BY <1>4, <1>5 DEF e

LEMMA ClaimEffect ==
    ASSUME TypeOK, Numbered, NEW c \in Customer, NEW r \in Customer,
           ClaimReferral(c, r)
    PROVE  /\ Effect({[NewEntry(serial + 1, r, "earn_referral", REFERRAL_SIGNUP_POINTS)
                         EXCEPT !.referred = c]})
           /\ TypeOK'
<1> DEFINE e == [NewEntry(serial + 1, r, "earn_referral", REFERRAL_SIGNUP_POINTS)
                   EXCEPT !.referred = c]
<1>1. serial \in Nat /\ now + LotLife \in Nat
  BY LedgerConstants DEF TypeOK
<1>2. e \in Entry /\ e.points = 150 /\ e.id = serial + 1
  BY <1>1 DEF NewEntry, Entry, REFERRAL_SIGNUP_POINTS, EntryType, EarnType
<1>3. serial' = serial + 1 /\ Credit({e}, now + LotLife)
  BY DEF ClaimReferral, TakeIds
<1> HIDE DEF e
<1>4. Effect({e})
  BY <1>1, <1>2, <1>3, CreditEffect
<1>5. referrals' \in [Customer -> Referral]
  BY DEF ClaimReferral, TypeOK, Referral
<1>6. TypeOK'
  BY <1>4, <1>5, EffectType DEF ClaimReferral, TypeOK
<1> QED  BY <1>4, <1>6 DEF e

LEMMA RedeemEffect ==
    ASSUME TypeOK, Numbered, NEW c \in Customer, NEW k \in Key,
           NEW cost \in RewardCost, Redeem(c, k, cost)
    PROVE  /\ Effect({[NewEntry(serial + 1, c, "spend", -cost) EXCEPT !.key = k]})
           /\ TypeOK'
<1> DEFINE e == [NewEntry(serial + 1, c, "spend", -cost) EXCEPT !.key = k]
<1>1. serial \in Nat /\ cost \in Nat \ {0}
  BY LedgerConstants DEF TypeOK
<1>2. e \in Entry /\ e.points = -cost /\ e.id = serial + 1
  BY <1>1 DEF NewEntry, Entry, EntryType, DebitType
<1>3. serial' = serial + 1 /\ ledger' = ledger \cup {e} /\ ConsumeLotsFifo(c, cost)
  BY DEF Redeem, TakeIds
<1> HIDE DEF e
<1>4. Effect({e})
  BY <1>1, <1>2, <1>3, DebitEffect
<1>5. redemptions' \in [Customer -> [Key -> Redemption]]
  BY <1>1 DEF Redeem, TypeOK, Redemption
<1>6. TypeOK'
  BY <1>4, <1>5, EffectType DEF Redeem, TypeOK
<1> QED  BY <1>4, <1>6 DEF e

LEMMA ReverseEffect ==
    ASSUME TypeOK, Numbered, NEW c \in Customer, NEW k \in Key,
           redemptions[c][k].cost \in Nat \ {0}, ReverseSpend(c, k)
    PROVE  /\ Reversals(c, k) = {} =>
                Effect({[NewEntry(serial + 1, c, "adjust", redemptions[c][k].cost)
                           EXCEPT !.key = k]})
           /\ Reversals(c, k) # {} => Effect({})
           /\ TypeOK'
<1> DEFINE e == [NewEntry(serial + 1, c, "adjust", redemptions[c][k].cost) EXCEPT !.key = k]
<1>1. serial \in Nat /\ NoExpiry \in Nat
  BY DEF TypeOK, NoExpiry
<1>2. redemptions' \in [Customer -> [Key -> Redemption]]
  BY DEF ReverseSpend, TypeOK, Redemption
<1>3. CASE Reversals(c, k) = {}
  <2>1. e \in Entry /\ e.points = redemptions[c][k].cost /\ e.id = serial + 1
    BY <1>1 DEF NewEntry, Entry, EntryType
  <2>2. serial' = serial + 1 /\ Credit({e}, NoExpiry)
    BY <1>3 DEF ReverseSpend, TakeIds
  <2> HIDE DEF e
  <2>3. Effect({e})
    BY <1>1, <2>1, <2>2, CreditEffect
  <2>4. TypeOK'
    BY <1>2, <2>3, EffectType DEF ReverseSpend, TypeOK
  <2> QED  BY <1>3, <2>3, <2>4 DEF e
<1>4. CASE Reversals(c, k) # {}
  <2>1. Effect({})
    BY <1>4, NoEffect DEF ReverseSpend
  <2>2. TypeOK'
    BY <1>2, <2>1, EffectType DEF ReverseSpend, TypeOK
  <2> QED  BY <1>4, <2>1, <2>2
<1> QED  BY <1>3, <1>4

LEMMA AdjustEffect ==
    ASSUME TypeOK, Numbered, NEW c \in Customer, NEW p \in Adjustment, Adjust(c, p)
    PROVE  Effect({NewEntry(serial + 1, c, "adjust", p)}) /\ TypeOK'
<1> DEFINE e == NewEntry(serial + 1, c, "adjust", p)
<1>1. serial \in Nat /\ now + LotLife \in Nat /\ p \in Int \ {0}
  BY LedgerConstants DEF TypeOK
<1>2. e \in Entry /\ e.points = p /\ e.id = serial + 1
  <2>1. serial + 1 \in Nat /\ "adjust" \in EntryType
    BY <1>1 DEF EntryType
  <2> QED  BY <1>1, <2>1, NewEntryType
<1>3. /\ serial' = serial + 1
      /\ IF p > 0 THEN Credit({e}, now + LotLife)
                  ELSE ledger' = ledger \cup {e} /\ UNCHANGED lots
  BY DEF Adjust, TakeIds
<1> HIDE DEF e
<1>4. Effect({e})
  <2>1. CASE p > 0
    BY <1>1, <1>2, <1>3, <2>1, CreditEffect
  <2>2. CASE ~(p > 0)
    BY <1>1, <1>2, <1>3, <2>2, BareDebitEffect
  <2> QED  BY <2>1, <2>2
<1>5. TypeOK'
  BY <1>4, EffectType DEF Adjust, TypeOK
<1> QED  BY <1>4, <1>5 DEF e

LEMMA ClawbackEffect ==
    ASSUME TypeOK, Numbered, NEW o \in Order, NEW desired,
           NEW moneyBack \in Nat, NEW ev \in Event,
           Clawback(o, desired, moneyBack, ev)
    PROVE  /\ \E e \in Entry : Effect({e}) /\ e.type = "clawback" /\ e.key = None
           /\ TypeOK'
<1> DEFINE c == (CHOOSE e \in OrderEarnings(o) : TRUE).customer
           taken == IF desired <= Spendable(c) THEN desired ELSE Spendable(c)
           magnitude == IF AllowNegative THEN desired ELSE taken
           spendLeft == IF moneyBack >= spend[c] THEN 0 ELSE spend[c] - moneyBack
           e == [NewEntry(serial + 1, c, "clawback", -magnitude)
                   EXCEPT !.order = o, !.event = ev]
<1>1. serial \in Nat /\ ledger \subseteq Entry
  BY DEF TypeOK
<1>2. c \in Customer
  BY <1>1 DEF Clawback, OrderEarnings, Entry
<1>3. /\ magnitude \in Points
      /\ serial' = serial + 1
      /\ ledger' = ledger \cup {e}
      /\ ConsumeLotsFifo(c, taken)
      /\ IF AllowDowngrade /\ moneyBack > 0
         THEN /\ spend' = [spend EXCEPT ![c] = spendLeft]
              /\ tier' = [tier EXCEPT ![c] = DeriveTier(spendLeft)]
         ELSE UNCHANGED <<spend, tier>>
  BY DEF Clawback, TakeIds
<1>4. spendLeft \in Nat
  BY <1>2 DEF TypeOK
<1> HIDE DEF c, taken, magnitude, spendLeft
<1>5. -magnitude \in Int \ {0} /\ -magnitude < 0
  BY <1>3 DEF Points
<1>6. e \in Entry /\ e.points = -magnitude /\ e.id = serial + 1
      /\ e.type = "clawback" /\ e.key = None
  <2> DEFINE plain == NewEntry(serial + 1, c, "clawback", -magnitude)
  <2>1. serial + 1 \in Nat /\ "clawback" \in EntryType
    BY <1>1 DEF EntryType, DebitType
  <2>2. /\ plain \in Entry /\ plain.points = -magnitude /\ plain.id = serial + 1
        /\ plain.type = "clawback" /\ plain.key = None
    BY <1>2, <1>5, <2>1, NewEntryType
  <2> HIDE DEF plain
  <2>3. e = [plain EXCEPT !.order = o, !.event = ev]
    BY DEF plain
  <2> QED  BY <2>2, <2>3 DEF Entry
<1> HIDE DEF e
<1>7. Effect({e})
  BY <1>1, <1>3, <1>5, <1>6, DebitEffect
<1>8. spend' \in [Customer -> Nat] /\ tier' \in [Customer -> TierRank]
  BY <1>2, <1>3, <1>4, DeriveTierIs DEF TypeOK
<1>9. TypeOK'
  BY <1>7, <1>8, EffectType DEF Clawback, TypeOK
<1> QED  BY <1>6, <1>7, <1>9

(* Both handlers clawback, with money given back or without.               *)
LEMMA CancelOrRefund ==
    ASSUME NEW o \in Order, NEW ev \in Event,
           Cancel(o, ev) \/ \E a \in RefundAmount : Refund(o, a, ev)
    PROVE  \E desired, moneyBack \in Nat : Clawback(o, desired, moneyBack, ev)
<1>1. \A desired, moneyBack : Clawback(o, desired, moneyBack, ev) => desired \in Nat
  BY DEF Clawback, Points
<1>2. CASE Cancel(o, ev)
  BY <1>1, <1>2 DEF Cancel
<1>3. CASE \E a \in RefundAmount : Refund(o, a, ev)
  <2>1. PICK a \in RefundAmount : Refund(o, a, ev)
    BY <1>3
  <2> DEFINE desired == IF RefundPoints(a) <= HeadRoom(o) THEN RefundPoints(a) ELSE HeadRoom(o)
  <2>2. Clawback(o, desired, a, ev)
    BY <2>1 DEF Refund
  <2> HIDE DEF desired
  <2>3. a \in Nat /\ desired \in Nat
    BY <1>1, <2>2, LedgerConstants
  <2> QED  BY <2>2, <2>3
<1> QED  BY <1>2, <1>3

LEMMA ExpireEntryIs ==
    ASSUME TypeOK, Numbered, NEW i \in Matured
    PROVE  /\ ExpireEntry(i) \in Entry
           /\ ExpireEntry(i).id = serial + i
           /\ ExpireEntry(i).type = "expire"
           /\ ExpireEntry(i).points = -lots[i].remaining
           /\ ExpireEntry(i).lot = i
           /\ ExpireEntry(i).key = None
           /\ i \in DOMAIN lots /\ i \in 1..serial
           /\ lots[i].remaining \in Nat \ {0}
<1>1. i \in DOMAIN lots /\ i \in 1..serial /\ lots[i] \in Lot /\ lots[i].remaining > 0
      /\ serial \in Nat
  BY DEF Matured, TypeOK, Numbered
<1>2. lots[i].remaining \in Nat \ {0} /\ lots[i].customer \in Customer
  BY <1>1 DEF Lot
<1>3. -lots[i].remaining \in Int \ {0} /\ serial + i \in Nat /\ i \in Nat
  BY <1>1, <1>2
<1> QED  BY <1>1, <1>2, <1>3 DEF ExpireEntry, NewEntry, Entry, EntryType, DebitType

LEMMA ExpiryEffect ==
    ASSUME TypeOK, Numbered, ExpiryScan
    PROVE  Effect({ExpireEntry(i) : i \in Matured}) /\ TypeOK'
<1> DEFINE new == {ExpireEntry(i) : i \in Matured}
<1>1. /\ serial \in Nat
      /\ DOMAIN lots \subseteq 1..serial
      /\ \A i \in DOMAIN lots : lots[i] \in Lot /\ lots[i].remaining <= lots[i].original
  BY DEF TypeOK, Numbered
<1>2. /\ serial' = serial + serial
      /\ ledger' = ledger \cup new
      /\ lots' = [i \in DOMAIN lots |->
                    IF i \in Matured THEN [lots[i] EXCEPT !.remaining = 0] ELSE lots[i]]
  BY DEF ExpiryScan, TakeIds
<1>3. new \subseteq Entry /\ \A e \in new : e.points < 0
  BY ExpireEntryIs
<1>4. /\ \A e \in new : e.id \in (serial + 1)..serial'
      /\ \A e, f \in new : e.id = f.id => e = f
  BY <1>1, <1>2, ExpireEntryIs
<1>5. \A i \in DOMAIN lots :
          /\ lots'[i] \in Lot
          /\ lots'[i].customer = lots[i].customer
          /\ lots'[i].original = lots[i].original
          /\ lots'[i].remaining <= lots[i].remaining
          /\ lots'[i].remaining <= lots'[i].original
  BY <1>1, <1>2 DEF Lot, Points
<1>6. DOMAIN lots' = DOMAIN lots /\ lots' = [i \in DOMAIN lots' |-> lots'[i]]
  BY <1>2
<1>7. DOMAIN lots' \subseteq 1..serial'
  BY <1>1, <1>2, <1>6
<1> HIDE DEF new
<1>8. LotsOK'
  BY <1>5, <1>6, <1>7 DEF LotsOK
<1>9. LotsOnlyShrink
  BY <1>5, <1>6 DEF LotsOnlyShrink
<1>10. Appends(new)
  <2>1. \A e \in new : ~(e.points > 0)
    BY <1>3 DEF Entry
  <2> QED  BY <1>1, <1>2, <1>4, <2>1 DEF Appends
<1>11. Effect(new)
  BY <1>3, <1>8, <1>9, <1>10 DEF Effect
<1>12. TypeOK'
  BY <1>11, EffectType DEF ExpiryScan, TypeOK
<1> QED  BY <1>11, <1>12 DEF new

LEMMA OrderCreditsAre ==
    ASSUME TypeOK, NEW o \in Order, NEW points \in Points,
           NEW first \in BOOLEAN, NEW rewarded \in BOOLEAN,
           rewarded => referrals[OrderOwner[o]].referrer # None
    PROVE  LET c == OrderOwner[o]
               new == OrderCredits(o, points, first, rewarded)
           IN  /\ new \subseteq Entry
               /\ \A e \in new :
                     /\ e.points > 0
                     /\ e.key = None
                     /\ \/ /\ e.id = serial + 1 /\ e.type = "earn_order"
                           /\ e.order = o /\ e.customer = c
                        \/ /\ first
                           /\ e.id = serial + 2 /\ e.type = "earn_first_purchase"
                           /\ e.order = o /\ e.customer = c
                        \/ /\ rewarded
                           /\ e.id = serial + 3 /\ e.type = "earn_referral"
                           /\ e.customer = referrals[c].referrer /\ e.referred = c
                           /\ e.points = REFERRAL_PURCHASE_POINTS
                           /\ e.order = None
               /\ \A e, f \in new : e.id = f.id => e = f
               /\ \E e \in new : e.type = "earn_order" /\ e.customer = c /\ e.order = o
<1> DEFINE c == OrderOwner[o]
           e1 == [NewEntry(serial + 1, c, "earn_order", points) EXCEPT !.order = o]
           e2 == [NewEntry(serial + 2, c, "earn_first_purchase", FIRST_PURCHASE_POINTS)
                    EXCEPT !.order = o]
           e3 == [NewEntry(serial + 3, referrals[c].referrer, "earn_referral",
                           REFERRAL_PURCHASE_POINTS) EXCEPT !.referred = c]
           new == OrderCredits(o, points, first, rewarded)
<1>1. serial \in Nat /\ c \in Customer /\ points \in Int \ {0} /\ points > 0
  BY LedgerConstants DEF TypeOK, Points
<1>2. /\ e1 \in Entry /\ e1.points > 0 /\ e1.key = None
      /\ e1.id = serial + 1 /\ e1.type = "earn_order" /\ e1.order = o /\ e1.customer = c
  BY <1>1 DEF NewEntry, Entry, EntryType, EarnType
<1>3. /\ e2 \in Entry /\ e2.points > 0 /\ e2.key = None
      /\ e2.id = serial + 2 /\ e2.type = "earn_first_purchase"
      /\ e2.order = o /\ e2.customer = c
  BY <1>1 DEF NewEntry, Entry, EntryType, EarnType, FIRST_PURCHASE_POINTS
<1>4. rewarded => referrals[c].referrer \in Customer
  BY <1>1 DEF TypeOK, Referral
<1>5. rewarded =>
        /\ e3 \in Entry /\ e3.points > 0 /\ e3.key = None
        /\ e3.id = serial + 3 /\ e3.type = "earn_referral"
        /\ e3.customer = referrals[c].referrer /\ e3.referred = c
        /\ e3.points = REFERRAL_PURCHASE_POINTS
        /\ e3.order = None
  BY <1>1, <1>4 DEF NewEntry, Entry, EntryType, EarnType, REFERRAL_PURCHASE_POINTS
<1>6. new = {e1} \cup (IF first THEN {e2} ELSE {}) \cup (IF rewarded THEN {e3} ELSE {})
  BY DEF OrderCredits
<1> HIDE DEF c, e1, e2, e3, new
<1>7. \A e \in new : e = e1 \/ (first /\ e = e2) \/ (rewarded /\ e = e3)
  BY <1>6
<1>8. e1 \in new
  BY <1>6
<1>9. /\ new \subseteq Entry
      /\ \A e \in new :
            /\ e.points > 0
            /\ e.key = None
            /\ \/ /\ e.id = serial + 1 /\ e.type = "earn_order"
                  /\ e.order = o /\ e.customer = c
               \/ /\ first
                  /\ e.id = serial + 2 /\ e.type = "earn_first_purchase"
                  /\ e.order = o /\ e.customer = c
               \/ /\ rewarded
                  /\ e.id = serial + 3 /\ e.type = "earn_referral"
                  /\ e.customer = referrals[c].referrer /\ e.referred = c
                  /\ e.points = REFERRAL_PURCHASE_POINTS
                  /\ e.order = None
  BY <1>2, <1>3, <1>5, <1>7
<1>10. \A e, f \in new : e.id = f.id => e = f
  BY <1>1, <1>2, <1>3, <1>5, <1>7
<1> QED  BY <1>2, <1>8, <1>9, <1>10 DEF c, new

(* The order branch a paid order takes, and what it does to the tables.    *)
LEMMA OrderEffect ==
    ASSUME TypeOK, Numbered, NEW o \in Order, OrdersPaid(o)
    PROVE  /\ \/ Effect({}) /\ UNCHANGED <<ledger, lots, serial, referrals>>
              \/ \E points \in Points, first, rewarded \in BOOLEAN :
                    /\ Effect(OrderCredits(o, points, first, rewarded))
                    /\ Credits(OrderCredits(o, points, first, rewarded), now + LotLife)
                    /\ first = ~HasOrder(OrderOwner[o])
                    /\ rewarded = /\ first
                                  /\ referrals[OrderOwner[o]].referrer # None
                                  /\ ~referrals[OrderOwner[o]].purchaseRewarded
                    /\ referrals' = IF rewarded
                          THEN [referrals EXCEPT ![OrderOwner[o]].purchaseRewarded = TRUE]
                          ELSE referrals
           /\ TypeOK'
<1> DEFINE c == OrderOwner[o]
           tierAtTime == AdvanceTier(tier[c], spend[c])
           points == OrderPoints(OrderTotal[o], tierAtTime)
           first == points > 0 /\ ~HasOrder(c)
           rewarded == /\ first
                       /\ referrals[c].referrer # None
                       /\ ~referrals[c].purchaseRewarded
<1>1. /\ serial \in Nat /\ now + LotLife \in Nat /\ c \in Customer
      /\ tier[c] \in TierRank /\ spend[c] \in Nat /\ OrderTotal[o] \in Nat
  BY LedgerConstants DEF TypeOK
<1>2. tierAtTime \in TierRank
  BY <1>1, AdvanceTierType
<1>3. points \in Int
  BY <1>1, <1>2, OrderPointsType
<1>4. /\ known' = known \cup {c}
      /\ spend' = [spend EXCEPT ![c] = @ + OrderTotal[o]]
      /\ tier' = [tier EXCEPT ![c] = AdvanceTier(tierAtTime, spend'[c])]
      /\ IF points > 0
         THEN /\ serial' = serial + 3
              /\ Credit(OrderCredits(o, points, first, rewarded), now + LotLife)
         ELSE UNCHANGED <<ledger, lots, serial>>
      /\ referrals' = IF rewarded
                      THEN [referrals EXCEPT ![c].purchaseRewarded = TRUE]
                      ELSE referrals
      /\ UNCHANGED <<redemptions, now>>
  BY DEF OrdersPaid, TakeIds
<1> HIDE DEF tierAtTime, points
<1>5. spend' \in [Customer -> Nat] /\ spend'[c] \in Nat
  BY <1>1, <1>4 DEF TypeOK
<1>6. AdvanceTier(tierAtTime, spend'[c]) \in TierRank
  BY <1>2, <1>5, AdvanceTierType
<1>7. tier' \in [Customer -> TierRank]
  BY <1>4, <1>6 DEF TypeOK
<1>8. referrals' \in [Customer -> Referral]
  BY <1>1, <1>4 DEF TypeOK, Referral
<1>9. known' \subseteq Customer
  BY <1>1, <1>4 DEF TypeOK
<1>10. CASE points > 0
  <2> DEFINE new == OrderCredits(o, points, first, rewarded)
  <2>1. points \in Points /\ first \in BOOLEAN /\ rewarded \in BOOLEAN
    BY <1>3, <1>10 DEF Points
  <2>2. /\ first = ~HasOrder(c)
        /\ rewarded = /\ first
                      /\ referrals[c].referrer # None
                      /\ ~referrals[c].purchaseRewarded
    BY <1>10
  <2>3. rewarded => referrals[c].referrer # None
    OBVIOUS
  <2>4. serial' = serial + 3 /\ Credit(new, now + LotLife)
    BY <1>4, <1>10
  <2> HIDE DEF c, first, rewarded
  <2>5. /\ new \subseteq Entry
        /\ \A e \in new : e.points > 0 /\ e.id \in (serial + 1)..(serial + 3)
        /\ \A e \in new : e.order # None => e.type \in OrderEarnType
        /\ \A e, f \in new : e.id = f.id => e = f
    BY <1>1, <2>1, <2>3, OrderCreditsAre DEF c, OrderEarnType
  <2> HIDE DEF new
  <2>6. Effect(new) /\ Credits(new, now + LotLife)
    BY <1>1, <2>4, <2>5, CreditEffect DEF Credits
  <2>7. TypeOK'
    BY <1>4, <1>5, <1>7, <1>8, <1>9, <2>6, EffectType DEF TypeOK
  <2> QED  BY <1>4, <2>1, <2>2, <2>6, <2>7 DEF new, c
<1>11. CASE ~(points > 0)
  <2>1. UNCHANGED <<ledger, lots, serial, referrals>>
    BY <1>4, <1>11
  <2>2. Effect({})
    BY <2>1, NoEffect
  <2>3. TypeOK'
    BY <1>4, <1>5, <1>7, <1>8, <1>9, <2>2, EffectType DEF TypeOK
  <2> QED  BY <2>1, <2>2, <2>3
<1> QED  BY <1>10, <1>11

(* The migration entries of a transaction are the first of their members.  *)
MigratesOnce(new) ==
    \A e \in new :
        e.type = "migration" =>
            /\ ~HasMigration(e.customer)
            /\ \A f \in new : f.customer = e.customer => f = e

LEMMA MigrateEffect ==
    ASSUME TypeOK, Numbered, Migrate
    PROVE  /\ \E new \in SUBSET Entry :
                 /\ Effect(new)
                 /\ Credits(new, NoExpiry)
                 /\ \A e \in new : e.type = "migration" /\ e.key = None
                 /\ MigratesOnce(new)
           /\ TypeOK'
<1> DEFINE fresh == {c \in DOMAIN Legacy : ~HasMigration(c)}
           n == Cardinality(fresh)
<1>1. n \in Nat
  BY LedgerConstants, FS_Subset, FS_CardinalityType
<1>2. \A c \in DOMAIN Legacy :
          c \in Customer /\ Legacy[c].points \in Int \ {0} /\ Legacy[c].points > 0
          /\ Legacy[c].spend \in Nat
  BY LedgerConstants
<1>3. serial \in Nat /\ NoExpiry \in Nat
  BY DEF TypeOK, NoExpiry
<1>4. PICK id \in Injection(fresh, (serial + 1)..(serial + n)) :
          Credit({NewEntry(id[c], c, "migration", Legacy[c].points) : c \in fresh},
                 NoExpiry)
  BY DEF Migrate
<1>5. serial' = serial + n
  BY DEF Migrate, TakeIds
<1> DEFINE entry(c) == NewEntry(id[c], c, "migration", Legacy[c].points)
           new == {entry(c) : c \in fresh}
<1> HIDE DEF n
<1>6. /\ \A c \in fresh : id[c] \in (serial + 1)..(serial + n)
      /\ \A c, d \in fresh : id[c] = id[d] => c = d
  BY DEF Injection, IsInjective
<1>7. "migration" \in EntryType
  BY DEF EntryType
<1>8. \A c \in fresh :
          /\ entry(c) \in Entry /\ entry(c).id = id[c] /\ entry(c).points > 0
          /\ entry(c).type = "migration" /\ entry(c).key = None
          /\ entry(c).customer = c /\ entry(c).order = None
  <2> SUFFICES ASSUME NEW c \in fresh
               PROVE  /\ entry(c) \in Entry /\ entry(c).id = id[c] /\ entry(c).points > 0
                      /\ entry(c).type = "migration" /\ entry(c).key = None
                      /\ entry(c).customer = c /\ entry(c).order = None
    OBVIOUS
  <2>1. id[c] \in Nat /\ c \in Customer /\ Legacy[c].points \in Int \ {0}
        /\ Legacy[c].points > 0
    BY <1>1, <1>2, <1>3, <1>6
  <2>2. entry(c).customer = c /\ entry(c).order = None
    BY DEF NewEntry
  <2> QED  BY <1>7, <2>1, <2>2, NewEntryType
<1> HIDE DEF entry
<1>9. /\ new \in SUBSET Entry
      /\ \A e \in new : e.points > 0 /\ e.id \in (serial + 1)..serial'
      /\ \A e \in new : e.type = "migration" /\ e.key = None /\ e.order = None
      /\ \A e, f \in new : e.id = f.id => e = f
  BY <1>5, <1>6, <1>8
<1>10. Credit(new, NoExpiry)
  BY <1>4 DEF entry
<1>13. MigratesOnce(new)
  BY <1>8 DEF MigratesOnce
<1> HIDE DEF new, fresh
<1>11. Effect(new) /\ Credits(new, NoExpiry)
  <2>1. serial' \in Nat /\ serial <= serial'
    BY <1>1, <1>3, <1>5
  <2>2. Effect(new)
    BY <1>3, <1>9, <1>10, <2>1, CreditEffect
  <2> QED  BY <1>3, <1>9, <1>10, <2>1, <2>2 DEF Credits
<1>12. TypeOK'
  <2>1. spend' \in [Customer -> Nat] /\ known' \subseteq Customer
    BY <1>2 DEF Migrate, TypeOK
  <2>2. tier' \in [Customer -> TierRank]
    BY <1>2, DeriveTierIs DEF Migrate, TypeOK
  <2> QED  BY <1>11, <2>1, <2>2, EffectType DEF Migrate, TypeOK
<1> QED  BY <1>9, <1>11, <1>12, <1>13

-----------------------------------------------------------------------------
(* The inductive core: types, fresh ids, and redemptions that cost points, *)
(* without which a reversal would post an entry of zero points.            *)

RedemptionsCost ==
    \A c \in Customer, k \in Key :
        redemptions[c][k].status # "absent" => redemptions[c][k].cost \in Nat \ {0}

Core == TypeOK /\ Numbered /\ RedemptionsCost

LEMMA InitCore == Init => Core /\ CreditsBacked
<1> SUFFICES ASSUME Init PROVE Core /\ CreditsBacked
  OBVIOUS
<1>1. ledger = {} /\ DOMAIN lots = {} /\ serial = 0 /\ now = 0 /\ known = {}
  BY DEF Init
<1>2. tier \in [Customer -> TierRank] /\ spend \in [Customer -> Nat]
  BY DEF Init, TierRank
<1>3. redemptions \in [Customer -> [Key -> Redemption]] /\ RedemptionsCost
  BY DEF Init, Redemption, RedemptionsCost
<1>4. referrals \in [Customer -> Referral]
  BY DEF Init, Referral
<1>5. lots \in [DOMAIN lots -> Lot]
  BY <1>1 DEF Init
<1>6. TypeOK
  BY <1>1, <1>2, <1>3, <1>4, <1>5 DEF TypeOK
<1> QED  BY <1>1, <1>3, <1>6 DEF Core, Numbered, CreditsBacked

(* Every transaction appends under fresh ids.                              *)
LEMMA StepEffect ==
    ASSUME Core, Next
    PROVE  /\ TypeOK'
           /\ RedemptionsCost'
           /\ \E new : Effect(new)
<1> USE DEF Core
<1>1. ASSUME UNCHANGED <<redemptions>>
      PROVE  RedemptionsCost'
  BY <1>1 DEF RedemptionsCost
<1>2. CASE \E c \in Customer : EnrolWithoutAward(c)
  <2>1. PICK c \in Customer : EnrolWithoutAward(c)
    BY <1>2
  <2>2. Effect({})
    BY <2>1, NoEffect DEF EnrolWithoutAward
  <2>3. TypeOK'
    BY <2>1, <2>2, EffectType DEF EnrolWithoutAward, TypeOK
  <2> QED  BY <1>1, <2>1, <2>2, <2>3 DEF EnrolWithoutAward
<1>3. CASE \E c \in Customer : EarnSignup(c)
  BY <1>1, <1>3, SignupEffect DEF EarnSignup
<1>4. CASE \E c, r \in Customer : ClaimReferral(c, r)
  BY <1>1, <1>4, ClaimEffect DEF ClaimReferral
<1>5. CASE Migrate
  BY <1>1, <1>5, MigrateEffect DEF Migrate
<1>6. CASE \E o \in Order : OrdersPaid(o)
  BY <1>1, <1>6, OrderEffect DEF OrdersPaid
<1>7. CASE \E o \in Order : EnrolByWorthlessOrder(o)
  <2>1. PICK c \in Customer : EnrolWithoutAward(c)
    BY <1>7, LedgerConstants DEF EnrolByWorthlessOrder
  <2>2. Effect({})
    BY <2>1, NoEffect DEF EnrolWithoutAward
  <2>3. TypeOK'
    BY <2>1, <2>2, EffectType DEF EnrolWithoutAward, TypeOK
  <2> QED  BY <1>1, <2>1, <2>2, <2>3 DEF EnrolWithoutAward
<1>8. CASE \E o \in Order, ev \in Event :
              Cancel(o, ev) \/ \E a \in RefundAmount : Refund(o, a, ev)
  <2>1. PICK o \in Order, ev \in Event, desired \in Nat, moneyBack \in Nat :
            Clawback(o, desired, moneyBack, ev)
    BY <1>8, CancelOrRefund
  <2>2. TypeOK' /\ \E new : Effect(new)
    BY <2>1, ClawbackEffect
  <2> QED  BY <1>1, <2>1, <2>2 DEF Clawback
<1>9. CASE \E c \in Customer, k \in Key, p \in RewardCost : Redeem(c, k, p)
  <2>1. PICK c \in Customer, k \in Key, p \in RewardCost : Redeem(c, k, p)
    BY <1>9
  <2>2. TypeOK' /\ \E new : Effect(new)
    BY <2>1, RedeemEffect
  <2>3. RedemptionsCost'
    BY <2>1, LedgerConstants DEF Redeem, RedemptionsCost, TypeOK
  <2> QED  BY <2>2, <2>3
<1>10. CASE \E c \in Customer, k \in Key : MarkIssued(c, k)
  <2>1. PICK c \in Customer, k \in Key : MarkIssued(c, k)
    BY <1>10
  <2>2. Effect({})
    BY <2>1, NoEffect DEF MarkIssued
  <2>3. redemptions' \in [Customer -> [Key -> Redemption]]
    <3>1. [redemptions[c][k] EXCEPT !.status = "issued"] \in Redemption
      BY DEF TypeOK, Redemption
    <3> QED  BY <2>1, <3>1 DEF MarkIssued, TypeOK
  <2>4. TypeOK'
    BY <2>1, <2>2, <2>3, EffectType DEF MarkIssued, TypeOK
  <2>5. RedemptionsCost'
    BY <2>1 DEF MarkIssued, RedemptionsCost, TypeOK
  <2> QED  BY <2>2, <2>4, <2>5
<1>11. CASE \E c \in Customer, k \in Key : ReverseSpend(c, k)
  <2>1. PICK c \in Customer, k \in Key : ReverseSpend(c, k)
    BY <1>11
  <2>2. redemptions[c][k].cost \in Nat \ {0}
    BY <2>1 DEF ReverseSpend, RedemptionsCost
  <2>3. TypeOK' /\ \E new : Effect(new)
    BY <2>1, <2>2, ReverseEffect
  <2>4. RedemptionsCost'
    BY <2>1 DEF ReverseSpend, RedemptionsCost, TypeOK
  <2> QED  BY <2>3, <2>4
<1>12. CASE \E c \in Customer, p \in Adjustment : Adjust(c, p)
  BY <1>1, <1>12, AdjustEffect DEF Adjust
<1>13. CASE ExpiryScan
  BY <1>1, <1>13, ExpiryEffect DEF ExpiryScan
<1>14. CASE Tick
  <2>1. Effect({})
    BY <1>14, NoEffect DEF Tick
  <2>2. TypeOK'
    BY <1>14, <2>1, EffectType DEF Tick, TypeOK
  <2> QED  BY <1>1, <1>14, <2>1, <2>2 DEF Tick
<1> QED  BY <1>2, <1>3, <1>4, <1>5, <1>6, <1>7, <1>8, <1>9, <1>10, <1>11, <1>12,
            <1>13, <1>14 DEF Next

LEMMA StepCore == Core /\ CreditsBacked /\ [Next]_vars => (Core /\ CreditsBacked)'
<1> SUFFICES ASSUME Core, CreditsBacked, [Next]_vars PROVE (Core /\ CreditsBacked)'
  OBVIOUS
<1>1. CASE Next
  BY <1>1, StepEffect, EffectKeeps DEF Core
<1>2. CASE UNCHANGED vars
  BY <1>2 DEF vars, Core, TypeOK, Numbered, RedemptionsCost, CreditsBacked, HasSignup
<1> QED  BY <1>1, <1>2

(* Every row of every table keeps within the schema's types and checks.    *)
THEOREM TypeCorrect == Spec => []TypeOK
BY InitCore, StepCore, PTL DEF Spec, Core

(* A credited point is never unspendable from the start: however orders,   *)
(* refunds, redemptions, reversals, expiry and migration interleave, each  *)
(* credit has a lot of its size and customer.                              *)
THEOREM CreditsAreBacked == Spec => []CreditsBacked
BY InitCore, StepCore, PTL DEF Spec

(* Types, fresh ids and the cost of every redemption hold together in      *)
(* every behaviour.                                                        *)
THEOREM CoreHolds == Spec => []Core
BY InitCore, StepCore, PTL DEF Spec

-----------------------------------------------------------------------------
(* The cached tier.                                                        *)

LEMMA StepTier == Core /\ TierEarned /\ [Next]_vars => TierEarned'
<1> SUFFICES ASSUME Core, TierEarned, [Next]_vars PROVE TierEarned'
  OBVIOUS
<1>1. tier \in [Customer -> TierRank] /\ spend \in [Customer -> Nat]
  BY DEF Core, TypeOK
<1>2. CASE UNCHANGED <<tier, spend>>
  BY <1>2 DEF TierEarned
<1>3. CASE Migrate
  BY <1>1, <1>3 DEF Migrate, TierEarned
<1>4. ASSUME NEW o \in Order, OrdersPaid(o)
      PROVE  TierEarned'
  <2> DEFINE c == OrderOwner[o]
             paid == spend[c] + OrderTotal[o]
  <2>1. c \in Customer /\ OrderTotal[o] \in Nat /\ spend[c] \in Nat
    BY <1>1, LedgerConstants
  <2>2. paid \in Nat /\ spend[c] <= paid
    BY <2>1
  <2>3. spend' = [spend EXCEPT ![c] = paid]
    BY <1>4 DEF OrdersPaid
  <2>4. AdvanceTier(tier[c], spend[c]) = DeriveTier(spend[c])
    BY <2>1, AdvanceTierIs DEF TierEarned
  <2>5. tier' = [tier EXCEPT ![c] = AdvanceTier(DeriveTier(spend[c]), paid)]
    BY <1>1, <1>4, <2>1, <2>3, <2>4 DEF OrdersPaid
  <2> HIDE DEF c, paid
  <2>6. AdvanceTier(DeriveTier(spend[c]), paid) = DeriveTier(paid)
    BY <2>1, <2>2, AdvanceTierIs
  <2> QED  BY <1>1, <2>1, <2>3, <2>5, <2>6 DEF TierEarned
<1>5. ASSUME NEW o \in Order, NEW ev \in Event, NEW desired, NEW moneyBack,
             Clawback(o, desired, moneyBack, ev)
      PROVE  TierEarned'
  <2>1. \/ UNCHANGED <<tier, spend>>
        \/ \E c, left : /\ spend' = [spend EXCEPT ![c] = left]
                        /\ tier' = [tier EXCEPT ![c] = DeriveTier(left)]
    BY <1>5 DEF Clawback
  <2>2. ASSUME NEW c, NEW left,
               spend' = [spend EXCEPT ![c] = left],
               tier' = [tier EXCEPT ![c] = DeriveTier(left)]
        PROVE  TierEarned'
    BY <1>1, <2>2 DEF TierEarned
  <2> QED  BY <1>2, <2>1, <2>2
<1>6. CASE Next
  <2>1. \/ UNCHANGED <<tier, spend>>
        \/ Migrate
        \/ \E o \in Order : OrdersPaid(o)
        \/ \E o \in Order, ev \in Event : Cancel(o, ev)
        \/ \E o \in Order, a \in RefundAmount, ev \in Event : Refund(o, a, ev)
    BY <1>6 DEF Next, EnrolWithoutAward, EarnSignup, ClaimReferral,
                EnrolByWorthlessOrder, Redeem, MarkIssued, ReverseSpend, Adjust,
                ExpiryScan, Tick
  <2> QED  BY <1>2, <1>3, <1>4, <1>5, <2>1 DEF Cancel, Refund
<1> QED  BY <1>2, <1>6 DEF vars

(* The cached tier never drifts from the tier the lifetime spend earns,    *)
(* through orders, refunds that lower the spend, and migration re-runs.    *)
THEOREM TierIsEarned == Spec => []TierEarned
<1>1. Init => TierEarned
  <2>1. Threshold[1] = 30000 /\ Threshold[2] = 75000 /\ Threshold[3] = 150000
    BY DEF Threshold, TierRank
  <2>2. Threshold[DeriveTier(0)] <= 0 /\ DeriveTier(0) \in 0..3
    BY DeriveTierIs DEF TierRank
  <2>3. DeriveTier(0) = 0
    BY <2>1, <2>2
  <2> QED  BY <2>3 DEF Init, TierEarned
<1> QED  BY <1>1, StepTier, CoreHolds, PTL DEF Spec

-----------------------------------------------------------------------------
(* The actions that credit no earning and touch no redemption or referral. *)

Plain ==
    /\ UNCHANGED <<redemptions, referrals>>
    /\ \E new : /\ Effect(new)
                /\ \A e \in new : /\ e.type \in {"clawback", "adjust", "migration"}
                                  /\ e.key = None
                /\ MigratesOnce(new)

LEMMA StepKind ==
    ASSUME Core, Next
    PROVE  \/ Plain
           \/ \E c \in Customer : EarnSignup(c)
           \/ \E c, r \in Customer : ClaimReferral(c, r)
           \/ \E o \in Order : OrdersPaid(o)
           \/ \E c \in Customer, k \in Key, p \in RewardCost : Redeem(c, k, p)
           \/ \E c \in Customer, k \in Key : MarkIssued(c, k)
           \/ \E c \in Customer, k \in Key : ReverseSpend(c, k)
           \/ ExpiryScan
<1> USE DEF Core
<1>1. ASSUME UNCHANGED <<ledger, lots, serial, redemptions, referrals>>
      PROVE  Plain
  <2>1. Effect({})
    BY <1>1, NoEffect
  <2> QED  BY <1>1, <2>1 DEF Plain, MigratesOnce
<1>2. ASSUME NEW e, Effect({e}), UNCHANGED <<redemptions, referrals>>,
             e.type \in {"clawback", "adjust"}, e.key = None
      PROVE  Plain
  BY <1>2 DEF Plain, MigratesOnce
<1>3. ASSUME Migrate PROVE Plain
  <2>1. UNCHANGED <<redemptions, referrals>>
    BY <1>3 DEF Migrate
  <2> QED  BY <1>3, <2>1, MigrateEffect DEF Plain
<1>4. ASSUME NEW c \in Customer, NEW p \in Adjustment, Adjust(c, p) PROVE Plain
  <2>1. /\ NewEntry(serial + 1, c, "adjust", p).type = "adjust"
        /\ NewEntry(serial + 1, c, "adjust", p).key = None
    BY DEF NewEntry
  <2>2. UNCHANGED <<redemptions, referrals>>
    BY <1>4 DEF Adjust
  <2> QED  BY <1>2, <1>4, <2>1, <2>2, AdjustEffect
<1>5. ASSUME NEW o \in Order, NEW ev \in Event,
             Cancel(o, ev) \/ \E a \in RefundAmount : Refund(o, a, ev)
      PROVE  Plain
  <2>1. PICK desired \in Nat, moneyBack \in Nat : Clawback(o, desired, moneyBack, ev)
    BY <1>5, CancelOrRefund
  <2>2. PICK e \in Entry : Effect({e}) /\ e.type = "clawback" /\ e.key = None
    BY <2>1, ClawbackEffect
  <2>3. UNCHANGED <<redemptions, referrals>>
    BY <2>1 DEF Clawback
  <2> QED  BY <1>2, <2>2, <2>3
<1> QED  BY <1>1, <1>3, <1>4, <1>5
         DEF Next, EnrolWithoutAward, EnrolByWorthlessOrder, Tick

-----------------------------------------------------------------------------
(* Expiry.                                                                 *)

LotsExpired ==
    /\ \A e \in ledger : e.type = "expire" => e.lot \in DOMAIN lots
    /\ ExpiredOnce

(* A transaction that appends no expire entry cannot disturb those there,  *)
(* as lots only shrink.                                                    *)
LEMMA OtherEffectKeepsExpired ==
    ASSUME Core, LotsExpired, NEW new, Effect(new),
           \A e \in new : e.type # "expire"
    PROVE  LotsExpired'
<1>1. \A e \in ledger' : e.type = "expire" => e \in ledger
  BY DEF Effect, Appends
<1>2. \A i \in DOMAIN lots :
          /\ i \in DOMAIN lots'
          /\ lots'[i].original = lots[i].original
          /\ lots[i].remaining = 0 => lots'[i].remaining = 0
  <2> SUFFICES ASSUME NEW i \in DOMAIN lots
               PROVE  /\ i \in DOMAIN lots'
                      /\ lots'[i].original = lots[i].original
                      /\ lots[i].remaining = 0 => lots'[i].remaining = 0
    OBVIOUS
  <2>1. /\ i \in DOMAIN lots'
        /\ lots'[i].original = lots[i].original
        /\ lots'[i].remaining <= lots[i].remaining
    BY DEF Effect, LotsOnlyShrink
  <2>2. lots'[i].remaining \in Nat
    BY <2>1 DEF Effect, LotsOK, Lot
  <2> QED  BY <2>1, <2>2
<1> QED  BY <1>1, <1>2 DEF LotsExpired, ExpiredOnce

LEMMA ExpiryKeepsExpired ==
    ASSUME Core, LotsExpired, ExpiryScan
    PROVE  LotsExpired'
<1> DEFINE new == {ExpireEntry(i) : i \in Matured}
<1>1. Effect(new)
  BY ExpiryEffect DEF Core
<1>2. ledger' = ledger \cup new
  BY <1>1 DEF Effect, Appends
<1>3. \A e \in new : /\ e.lot \in Matured /\ e = ExpireEntry(e.lot)
                     /\ -e.points = lots[e.lot].remaining
  <2> SUFFICES ASSUME NEW i \in Matured
               PROVE  /\ ExpireEntry(i).lot = i
                      /\ -ExpireEntry(i).points = lots[i].remaining
    OBVIOUS
  <2> QED  BY ExpireEntryIs DEF Core
<1>4. \A i \in Matured :
          /\ i \in DOMAIN lots
          /\ lots[i].remaining \in Nat \ {0}
          /\ lots[i].remaining <= lots[i].original
  BY ExpireEntryIs DEF Core, TypeOK
<1>5. /\ DOMAIN lots' = DOMAIN lots
      /\ \A i \in DOMAIN lots : /\ lots'[i].original = lots[i].original
                                /\ i \in Matured => lots'[i].remaining = 0
                                /\ i \notin Matured => lots'[i] = lots[i]
  BY DEF ExpiryScan, Core, TypeOK, Lot
<1>6. \A e \in ledger : e.type = "expire" => e.lot \notin Matured
  BY <1>4 DEF LotsExpired, ExpiredOnce
<1> HIDE DEF new
<1>7. \A e \in ledger' : e.type = "expire" => e.lot \in DOMAIN lots'
  BY <1>2, <1>3, <1>4, <1>5 DEF LotsExpired
<1>8. ASSUME NEW e \in ledger', e.type = "expire"
      PROVE  /\ lots'[e.lot].remaining = 0
             /\ -e.points <= lots'[e.lot].original
             /\ \A f \in ledger' : f.type = "expire" /\ f.lot = e.lot => f = e
  <2>1. CASE e \in ledger
    BY <1>2, <1>3, <1>5, <1>6, <1>8, <2>1 DEF LotsExpired, ExpiredOnce
  <2>2. CASE e \in new
    BY <1>2, <1>3, <1>4, <1>5, <1>6, <2>2
  <2> QED  BY <1>2, <2>1, <2>2
<1> QED  BY <1>7, <1>8 DEF LotsExpired, ExpiredOnce

(* No action but the scan appends an expire entry.                         *)
LEMMA OtherStepsDoNotExpire ==
    ASSUME Core, Next
    PROVE  ExpiryScan \/ \E new : Effect(new) /\ \A e \in new : e.type # "expire"
<1> USE DEF Core
<1> DEFINE Goal == \E new : Effect(new) /\ \A e \in new : e.type # "expire"
<1>1. ASSUME NEW e, Effect({e}), e.type # "expire" PROVE Goal
  BY <1>1
<1>2. CASE Plain
  BY <1>2 DEF Plain
<1>3. ASSUME NEW c \in Customer, EarnSignup(c) PROVE Goal
  <2>1. NewEntry(serial + 1, c, "earn_signup", SIGNUP_POINTS).type # "expire"
    BY DEF NewEntry
  <2> QED  BY <1>1, <1>3, <2>1, SignupEffect
<1>4. ASSUME NEW c \in Customer, NEW r \in Customer, ClaimReferral(c, r) PROVE Goal
  <2> DEFINE e == [NewEntry(serial + 1, r, "earn_referral", REFERRAL_SIGNUP_POINTS)
                     EXCEPT !.referred = c]
  <2>1. e.type # "expire"
    BY DEF NewEntry
  <2> QED  BY <1>1, <1>4, <2>1, ClaimEffect
<1>5. ASSUME NEW o \in Order, OrdersPaid(o) PROVE Goal
  <2>1. CASE Effect({})
    BY <2>1
  <2>2. CASE \E points \in Points, first, rewarded \in BOOLEAN :
                /\ Effect(OrderCredits(o, points, first, rewarded))
                /\ rewarded => referrals[OrderOwner[o]].referrer # None
    <3>1. PICK points \in Points, first \in BOOLEAN, rewarded \in BOOLEAN :
              /\ Effect(OrderCredits(o, points, first, rewarded))
              /\ rewarded => referrals[OrderOwner[o]].referrer # None
      BY <2>2
    <3>2. \A e \in OrderCredits(o, points, first, rewarded) : e.type # "expire"
      BY <3>1, OrderCreditsAre
    <3> QED  BY <3>1, <3>2
  <2> QED  BY <1>5, <2>1, <2>2, OrderEffect
<1>6. ASSUME NEW c \in Customer, NEW k \in Key, NEW p \in RewardCost, Redeem(c, k, p)
      PROVE  Goal
  <2> DEFINE e == [NewEntry(serial + 1, c, "spend", -p) EXCEPT !.key = k]
  <2>1. e.type # "expire"
    BY DEF NewEntry
  <2> QED  BY <1>1, <1>6, <2>1, RedeemEffect
<1>7. ASSUME NEW c \in Customer, NEW k \in Key, MarkIssued(c, k) PROVE Goal
  <2>1. Effect({})
    BY <1>7, NoEffect DEF MarkIssued
  <2> QED  BY <2>1
<1>8. ASSUME NEW c \in Customer, NEW k \in Key, ReverseSpend(c, k) PROVE Goal
  <2> DEFINE e == [NewEntry(serial + 1, c, "adjust", redemptions[c][k].cost)
                     EXCEPT !.key = k]
  <2>1. redemptions[c][k].cost \in Nat \ {0}
    BY <1>8 DEF ReverseSpend, RedemptionsCost
  <2>2. e.type # "expire"
    BY DEF NewEntry
  <2>3. Effect({e}) \/ Effect({})
    BY <1>8, <2>1, ReverseEffect
  <2>4. CASE Effect({e})
    BY <1>1, <2>2, <2>4
  <2>5. CASE Effect({})
    BY <2>5
  <2> QED  BY <2>3, <2>4, <2>5
<1> QED  BY <1>2, <1>3, <1>4, <1>5, <1>6, <1>7, <1>8, StepKind

(* Property 9: the expiry scan, run any number of times among anything     *)
(* else, takes each lot's remainder once and leaves the lot empty.         *)
THEOREM LotsExpireOnce == Spec => []ExpiredOnce
<1>1. Init => LotsExpired
  BY DEF Init, LotsExpired, ExpiredOnce
<1>2. Core /\ LotsExpired /\ [Next]_vars => LotsExpired'
  <2> SUFFICES ASSUME Core, LotsExpired, [Next]_vars PROVE LotsExpired'
    OBVIOUS
  <2>1. CASE Next
    BY <2>1, OtherStepsDoNotExpire, ExpiryKeepsExpired, OtherEffectKeepsExpired
  <2>2. CASE UNCHANGED vars
    BY <2>2 DEF vars, LotsExpired, ExpiredOnce
  <2> QED  BY <2>1, <2>2
<1>3. LotsExpired => ExpiredOnce
  BY DEF LotsExpired
<1> QED  BY <1>1, <1>2, <1>3, CoreHolds, PTL DEF Spec

-----------------------------------------------------------------------------
(* Redemptions.                                                            *)

Movements(c, k) == {e \in ledger : e.customer = c /\ e.key = k}

(* RedeemedOnce, one redemption at a time.                                 *)
RedemptionOK(c, k) ==
    IF redemptions[c][k].status = "absent"
    THEN Movements(c, k) = {}
    ELSE /\ \E e \in Movements(c, k) :
               /\ e.type = "spend"
               /\ e.points = -redemptions[c][k].cost
               /\ \A f \in Movements(c, k) : f.type = "spend" => f = e
         /\ \A e, f \in Movements(c, k) :
               e.type # "spend" /\ f.type # "spend" =>
                  e = f /\ e.points = redemptions[c][k].cost
         /\ redemptions[c][k].status = "failed" =>
               \E e \in Movements(c, k) : e.type # "spend"

Redeemed ==
    /\ \A e \in ledger : e.key # None => e.type \in {"spend", "adjust"}
    /\ \A c \in Customer, k \in Key : RedemptionOK(c, k)

LEMMA RedeemedIs == Redeemed => RedeemedOnce
<1> SUFFICES ASSUME Redeemed, NEW c \in Customer, NEW k \in Key
             PROVE  LET movements == {e \in EntriesOf(c) : e.key = k}
                        spends == {e \in movements : e.type = "spend"}
                        cost == redemptions[c][k].cost
                    IN  IF redemptions[c][k].status = "absent"
                        THEN movements = {}
                        ELSE /\ \E e \in spends : spends = {e} /\ e.points = -cost
                             /\ \A e, f \in movements \ spends : e = f /\ e.points = cost
                             /\ redemptions[c][k].status = "failed" => movements # spends
  BY DEF RedeemedOnce
<1>1. {e \in EntriesOf(c) : e.key = k} = Movements(c, k)
  BY DEF EntriesOf, Movements
<1> QED  BY <1>1 DEF Redeemed, RedemptionOK

(* A transaction that writes no key leaves every redemption's entries.     *)
LEMMA UnkeyedKeepsRedeemed ==
    ASSUME Redeemed, NEW new, Effect(new),
           \A e \in new : e.key = None,
           UNCHANGED redemptions
    PROVE  Redeemed'
<1>1. ledger' = ledger \cup new
  BY DEF Effect, Appends
<1>2. ASSUME NEW c \in Customer, NEW k \in Key PROVE RedemptionOK(c, k)'
  <2>1. k # None
    BY LedgerConstants
  <2>2. Movements(c, k)' = Movements(c, k)
    BY <1>1, <2>1 DEF Movements
  <2>3. RedemptionOK(c, k)
    BY DEF Redeemed
  <2> QED  BY <2>2, <2>3 DEF RedemptionOK
<1> QED  BY <1>1, <1>2 DEF Redeemed

(* One keyed entry touches one redemption.                                 *)
LEMMA KeyedTouchesOne ==
    ASSUME Redeemed, NEW c \in Customer, NEW k \in Key, NEW e,
           ledger' = ledger \cup {e},
           e.customer = c, e.key = k, e.type \in {"spend", "adjust"},
           \A d \in Customer, j \in Key :
              d # c \/ j # k => redemptions'[d][j] = redemptions[d][j],
           RedemptionOK(c, k)'
    PROVE  Redeemed'
<1>1. ASSUME NEW d \in Customer, NEW j \in Key PROVE RedemptionOK(d, j)'
  <2>1. CASE d = c /\ j = k
    BY <2>1
  <2>2. CASE d # c \/ j # k
    <3>1. Movements(d, j)' = Movements(d, j)
      BY <2>2 DEF Movements
    <3>2. RedemptionOK(d, j)
      BY DEF Redeemed
    <3> QED  BY <2>2, <3>1, <3>2 DEF RedemptionOK
  <2> QED  BY <2>1, <2>2
<1> QED  BY <1>1 DEF Redeemed

LEMMA RedeemKeepsRedeemed ==
    ASSUME Core, Redeemed, NEW c \in Customer, NEW k \in Key, NEW p \in RewardCost,
           Redeem(c, k, p)
    PROVE  Redeemed'
<1> DEFINE e == [NewEntry(serial + 1, c, "spend", -p) EXCEPT !.key = k]
<1>1. e.customer = c /\ e.key = k /\ e.type = "spend" /\ e.points = -p
  BY DEF NewEntry
<1>2. ledger' = ledger \cup {e}
  BY DEF Redeem
<1> HIDE DEF e
<1>3. /\ redemptions'[c][k] = [status |-> "pending_code", cost |-> p]
      /\ \A d \in Customer, j \in Key :
            d # c \/ j # k => redemptions'[d][j] = redemptions[d][j]
  BY DEF Redeem, Core, TypeOK
<1>4. Movements(c, k) = {}
  BY DEF Redeem, Redeemed, RedemptionOK
<1>5. Movements(c, k)' = {e}
  BY <1>1, <1>2, <1>4 DEF Movements
<1>6. RedemptionOK(c, k)'
  BY <1>1, <1>3, <1>5 DEF RedemptionOK
<1> QED  BY <1>1, <1>2, <1>3, <1>6, KeyedTouchesOne

LEMMA MarkKeepsRedeemed ==
    ASSUME Core, Redeemed, NEW c \in Customer, NEW k \in Key, MarkIssued(c, k)
    PROVE  Redeemed'
<1>1. ledger' = ledger
  BY DEF MarkIssued
<1>2. /\ redemptions'[c][k].status = "issued"
      /\ redemptions'[c][k].cost = redemptions[c][k].cost
      /\ redemptions[c][k].status # "absent"
      /\ \A d \in Customer, j \in Key :
            d # c \/ j # k => redemptions'[d][j] = redemptions[d][j]
  BY DEF MarkIssued, Core, TypeOK, Redemption
<1>3. ASSUME NEW d \in Customer, NEW j \in Key PROVE RedemptionOK(d, j)'
  <2>1. Movements(d, j)' = Movements(d, j) /\ RedemptionOK(d, j)
    BY <1>1 DEF Movements, Redeemed
  <2>2. CASE d = c /\ j = k
    BY <1>2, <2>1, <2>2 DEF RedemptionOK
  <2>3. CASE d # c \/ j # k
    BY <1>2, <2>1, <2>3 DEF RedemptionOK
  <2> QED  BY <2>2, <2>3
<1> QED  BY <1>1, <1>3 DEF Redeemed

LEMMA ReverseKeepsRedeemed ==
    ASSUME Core, Redeemed, NEW c \in Customer, NEW k \in Key, ReverseSpend(c, k)
    PROVE  Redeemed'
<1> DEFINE e == [NewEntry(serial + 1, c, "adjust", redemptions[c][k].cost) EXCEPT !.key = k]
<1>1. /\ redemptions'[c][k].status = "failed"
      /\ redemptions'[c][k].cost = redemptions[c][k].cost
      /\ redemptions[c][k].status # "absent"
      /\ \A d \in Customer, j \in Key :
            d # c \/ j # k => redemptions'[d][j] = redemptions[d][j]
  BY DEF ReverseSpend, Core, TypeOK, Redemption
<1>2. Reversals(c, k) = {f \in Movements(c, k) : f.type = "adjust"}
  BY DEF Reversals, EntriesOf, Movements
<1>3. RedemptionOK(c, k) /\ \A f \in Movements(c, k) : f.type \in {"spend", "adjust"}
  BY LedgerConstants DEF Redeemed, Movements
<1>4. CASE Reversals(c, k) = {}
  <2>1. e.customer = c /\ e.key = k /\ e.type = "adjust"
        /\ e.points = redemptions[c][k].cost
    BY DEF NewEntry
  <2>2. ledger' = ledger \cup {e}
    BY <1>4 DEF ReverseSpend, Credit
  <2> HIDE DEF e
  <2>3. \A f \in Movements(c, k) : f.type = "spend"
    BY <1>2, <1>3, <1>4
  <2>4. Movements(c, k)' = Movements(c, k) \cup {e}
    BY <2>1, <2>2 DEF Movements
  <2>5. RedemptionOK(c, k)'
    BY <1>1, <1>3, <2>1, <2>3, <2>4 DEF RedemptionOK
  <2> QED  BY <1>1, <2>1, <2>2, <2>5, KeyedTouchesOne
<1>5. CASE Reversals(c, k) # {}
  <2>1. ledger' = ledger
    BY <1>5 DEF ReverseSpend
  <2>2. \E f \in Movements(c, k) : f.type # "spend"
    BY <1>2, <1>5
  <2>3. ASSUME NEW d \in Customer, NEW j \in Key PROVE RedemptionOK(d, j)'
    <3>1. Movements(d, j)' = Movements(d, j) /\ RedemptionOK(d, j)
      BY <2>1 DEF Movements, Redeemed
    <3>2. CASE d = c /\ j = k
      BY <1>1, <2>2, <3>1, <3>2 DEF RedemptionOK
    <3>3. CASE d # c \/ j # k
      BY <1>1, <3>1, <3>3 DEF RedemptionOK
    <3> QED  BY <3>2, <3>3
  <2> QED  BY <2>1, <2>3 DEF Redeemed
<1> QED  BY <1>4, <1>5

(* Properties 4 and 5: whatever interleaves, a redemption spends its cost  *)
(* once and is reversed at most once, and a failed one has been reversed.  *)
THEOREM RedemptionsSpendOnce == Spec => []RedeemedOnce
<1>1. Init => Redeemed
  BY DEF Init, Redeemed, RedemptionOK, Movements
<1>2. Core /\ Redeemed /\ [Next]_vars => Redeemed'
  <2> SUFFICES ASSUME Core, Redeemed, [Next]_vars PROVE Redeemed'
    OBVIOUS
  <2> USE DEF Core
  <2>1. CASE Plain
    BY <2>1, UnkeyedKeepsRedeemed DEF Plain
  <2>2. ASSUME NEW c \in Customer, EarnSignup(c) PROVE Redeemed'
    <3>1. NewEntry(serial + 1, c, "earn_signup", SIGNUP_POINTS).key = None
      BY DEF NewEntry
    <3>2. UNCHANGED redemptions
      BY <2>2 DEF EarnSignup
    <3> QED  BY <2>2, <3>1, <3>2, SignupEffect, UnkeyedKeepsRedeemed
  <2>3. ASSUME NEW c \in Customer, NEW r \in Customer, ClaimReferral(c, r)
        PROVE  Redeemed'
    <3> DEFINE e == [NewEntry(serial + 1, r, "earn_referral", REFERRAL_SIGNUP_POINTS)
                       EXCEPT !.referred = c]
    <3>1. e.key = None
      BY DEF NewEntry
    <3>2. Effect({e}) /\ UNCHANGED redemptions
      BY <2>3, ClaimEffect DEF ClaimReferral
    <3> HIDE DEF e
    <3> QED  BY <3>1, <3>2, UnkeyedKeepsRedeemed
  <2>4. ASSUME NEW o \in Order, OrdersPaid(o) PROVE Redeemed'
    <3>1. UNCHANGED redemptions
      BY <2>4 DEF OrdersPaid
    <3>2. CASE Effect({})
      BY <3>1, <3>2, UnkeyedKeepsRedeemed
    <3>3. CASE \E points \in Points, first, rewarded \in BOOLEAN :
                  /\ Effect(OrderCredits(o, points, first, rewarded))
                  /\ rewarded => referrals[OrderOwner[o]].referrer # None
      <4>1. PICK points \in Points, first \in BOOLEAN, rewarded \in BOOLEAN :
                /\ Effect(OrderCredits(o, points, first, rewarded))
                /\ rewarded => referrals[OrderOwner[o]].referrer # None
        BY <3>3
      <4>2. \A e \in OrderCredits(o, points, first, rewarded) : e.key = None
        BY <4>1, OrderCreditsAre
      <4> QED  BY <3>1, <4>1, <4>2, UnkeyedKeepsRedeemed
    <3> QED  BY <2>4, <3>2, <3>3, OrderEffect
  <2>5. CASE ExpiryScan
    <3>1. \A e \in {ExpireEntry(i) : i \in Matured} : e.key = None
      BY ExpireEntryIs
    <3>2. UNCHANGED redemptions
      BY <2>5 DEF ExpiryScan
    <3> QED  BY <2>5, <3>1, <3>2, ExpiryEffect, UnkeyedKeepsRedeemed
  <2>6. CASE UNCHANGED vars
    BY <2>6 DEF vars, Redeemed, RedemptionOK, Movements
  <2>7. CASE Next
    BY <2>1, <2>2, <2>3, <2>4, <2>5, <2>7, RedeemKeepsRedeemed, MarkKeepsRedeemed,
       ReverseKeepsRedeemed, StepKind
  <2> QED  BY <2>6, <2>7
<1> QED  BY <1>1, <1>2, RedeemedIs, CoreHolds, PTL DEF Spec

-----------------------------------------------------------------------------
(* Earnings.                                                               *)

(* What the guards of the earning handlers rely on: an order is earned by  *)
(* its owner, a first purchase has its order, and the referral row records *)
(* each reward that was paid for it.                                       *)
EarnBasis ==
    /\ \A c \in Customer : referrals[c].referrer # c
    /\ \A e \in ledger :
          /\ e.type = "earn_order" => e.order \in Order /\ e.customer = OrderOwner[e.order]
          /\ e.type = "earn_first_purchase" => HasOrder(e.customer)
          /\ e.type = "earn_referral" =>
                /\ e.referred \in Customer
                /\ e.referred # e.customer
                /\ e.points \in {REFERRAL_SIGNUP_POINTS, REFERRAL_PURCHASE_POINTS}
                /\ referrals[e.referred].referrer # None
                /\ e.points = REFERRAL_PURCHASE_POINTS
                      => referrals[e.referred].purchaseRewarded

(* EarnedOnce, for one pair of entries.                                    *)
PairOK(e, f) ==
    /\ e.type = "earn_first_purchase" /\ f.type = "earn_order" /\ f.customer = e.customer
        => f.order = e.order \/ f.id > e.id
    /\ /\ e.type = f.type
       /\ \/ e.type \in {"earn_signup", "earn_first_purchase", "migration"}
             /\ e.customer = f.customer
          \/ e.type = "earn_order" /\ e.order = f.order
          \/ e.type = "earn_referral" /\ e.referred = f.referred /\ e.points = f.points
       => e = f

Earned == EarnBasis /\ \A e, f \in ledger : PairOK(e, f)

LEMMA EarnedIs == Earned => EarnedOnce
BY DEF Earned, EarnBasis, PairOK, EarnedOnce

(* A transaction that posts no earning and changes no referral.            *)
LEMMA UnearnedKeepsEarned ==
    ASSUME Earned, NEW new, Effect(new),
           \A e \in new : e.type \notin EarnType,
           MigratesOnce(new),
           UNCHANGED referrals
    PROVE  Earned'
<1>1. ledger' = ledger \cup new
  BY DEF Effect, Appends
<1>2. \A c : HasOrder(c) => HasOrder(c)'
  BY <1>1 DEF HasOrder, EntriesOf
<1>3. EarnBasis'
  BY <1>1, <1>2 DEF Earned, EarnBasis, EarnType
<1>4. \A e, f \in ledger' : PairOK(e, f)
  <2>1. ASSUME NEW e \in ledger, NEW f \in ledger PROVE PairOK(e, f)
    BY DEF Earned
  <2>2. ASSUME NEW e \in ledger, NEW f \in new PROVE PairOK(e, f) /\ PairOK(f, e)
    BY DEF PairOK, EarnType, MigratesOnce, HasMigration, EntriesOf
  <2>3. ASSUME NEW e \in new, NEW f \in new PROVE PairOK(e, f)
    BY DEF PairOK, EarnType, MigratesOnce
  <2> QED  BY <1>1, <2>1, <2>2, <2>3
<1> QED  BY <1>3, <1>4 DEF Earned, PairOK

LEMMA SignupKeepsEarned ==
    ASSUME Core, Earned, NEW c \in Customer, EarnSignup(c)
    PROVE  Earned'
<1> DEFINE e == NewEntry(serial + 1, c, "earn_signup", SIGNUP_POINTS)
<1>1. e.type = "earn_signup" /\ e.customer = c
  BY DEF NewEntry
<1>2. ledger' = ledger \cup {e} /\ referrals' = referrals
  BY DEF EarnSignup, Credit
<1>3. \A f \in ledger : ~(f.type = "earn_signup" /\ f.customer = c)
  BY DEF EarnSignup, HasSignup, EntriesOf
<1> HIDE DEF e
<1>4. \A d : HasOrder(d) => HasOrder(d)'
  BY <1>2 DEF HasOrder, EntriesOf
<1>5. EarnBasis'
  BY <1>1, <1>2, <1>4 DEF Earned, EarnBasis
<1>6. \A f, g \in ledger' : PairOK(f, g)
  BY <1>1, <1>2, <1>3 DEF Earned, PairOK
<1> QED  BY <1>5, <1>6 DEF Earned, PairOK

LEMMA ClaimKeepsEarned ==
    ASSUME Core, Earned, NEW c \in Customer, NEW r \in Customer, ClaimReferral(c, r)
    PROVE  Earned'
<1> DEFINE e == [NewEntry(serial + 1, r, "earn_referral", REFERRAL_SIGNUP_POINTS)
                   EXCEPT !.referred = c]
<1>1. e.type = "earn_referral" /\ e.customer = r /\ e.referred = c /\ e.points = 150
  BY DEF NewEntry, REFERRAL_SIGNUP_POINTS
<1>2. ledger' = ledger \cup {e}
  BY DEF ClaimReferral, Credit
<1>3. /\ r # c /\ r # None /\ referrals[c].referrer = None
      /\ referrals'[c].referrer = r
      /\ \A d \in Customer : d # c => referrals'[d] = referrals[d]
      /\ \A d \in Customer :
            referrals'[d].purchaseRewarded = referrals[d].purchaseRewarded
  BY LedgerConstants DEF ClaimReferral, Core, TypeOK, Referral
<1>4. \A f \in ledger : ~(f.type = "earn_referral" /\ f.referred = c)
  BY <1>3 DEF Earned, EarnBasis
<1> HIDE DEF e
<1>5. \A d : HasOrder(d) => HasOrder(d)'
  BY <1>2 DEF HasOrder, EntriesOf
<1>6. EarnBasis'
  <2>1. \A d \in Customer : referrals'[d].referrer # d
    BY <1>3 DEF Earned, EarnBasis
  <2>2. \A f \in ledger : f.type = "earn_referral" => f.referred # c
    BY <1>4
  <2> QED  BY <1>1, <1>2, <1>3, <1>5, <2>1, <2>2
           DEF Earned, EarnBasis, REFERRAL_SIGNUP_POINTS, REFERRAL_PURCHASE_POINTS
<1>7. \A f, g \in ledger' : PairOK(f, g)
  BY <1>1, <1>2, <1>4 DEF Earned, PairOK
<1> QED  BY <1>6, <1>7 DEF Earned, PairOK

LEMMA OrderKeepsEarned ==
    ASSUME Core, Earned, NEW o \in Order, OrdersPaid(o)
    PROVE  Earned'
<1> DEFINE c == OrderOwner[o]
<1>1. CASE UNCHANGED <<ledger, referrals>>
  BY <1>1 DEF Earned, EarnBasis, PairOK, HasOrder, EntriesOf
<1>2. ASSUME NEW points \in Points, NEW first \in BOOLEAN, NEW rewarded \in BOOLEAN,
             Effect(OrderCredits(o, points, first, rewarded)),
             first = ~HasOrder(c),
             rewarded = (first /\ referrals[c].referrer # None
                                /\ ~referrals[c].purchaseRewarded),
             referrals' = IF rewarded
                          THEN [referrals EXCEPT ![c].purchaseRewarded = TRUE]
                          ELSE referrals
      PROVE  Earned'
  <2> DEFINE new == OrderCredits(o, points, first, rewarded)
  <2>1. rewarded => referrals[OrderOwner[o]].referrer # None
    BY <1>2
  <2>2. ledger' = ledger \cup new
    BY <1>2 DEF Effect, Appends
  <2>3. /\ \A e \in new :
              \/ /\ e.id = serial + 1 /\ e.type = "earn_order"
                 /\ e.order = o /\ e.customer = c
              \/ /\ first
                 /\ e.id = serial + 2 /\ e.type = "earn_first_purchase"
                 /\ e.order = o /\ e.customer = c
              \/ /\ rewarded
                 /\ e.id = serial + 3 /\ e.type = "earn_referral"
                 /\ e.customer = referrals[c].referrer /\ e.referred = c
                 /\ e.points = REFERRAL_PURCHASE_POINTS
        /\ \A e, f \in new : e.id = f.id => e = f
        /\ \E e \in new : e.type = "earn_order" /\ e.customer = c /\ e.order = o
    <3>1. TypeOK
      BY DEF Core
    <3> QED  BY <2>1, <3>1, OrderCreditsAre
  <2>4. /\ c \in Customer /\ serial \in Nat
        /\ \A e \in ledger : e.id \in 1..serial
        /\ \A d \in Customer : /\ referrals'[d].referrer = referrals[d].referrer
                               /\ referrals[d].purchaseRewarded => referrals'[d].purchaseRewarded
        /\ rewarded => referrals'[c].purchaseRewarded
    BY <1>2, LedgerConstants DEF Core, Numbered, TypeOK, Referral
  <2>5. \A f \in ledger : ~(f.type = "earn_order" /\ f.order = o)
    BY DEF OrdersPaid, EntriesOf, Earned, EarnBasis
  <2>6. first => \A f \in ledger : f.customer = c =>
                    f.type # "earn_order" /\ f.type # "earn_first_purchase"
    BY <1>2 DEF HasOrder, EntriesOf, Earned, EarnBasis
  <2>7. rewarded => \A f \in ledger :
            ~(f.type = "earn_referral" /\ f.referred = c /\ f.points = REFERRAL_PURCHASE_POINTS)
    BY <1>2 DEF Earned, EarnBasis
  <2> HIDE DEF new, c
  <2>8. \A d : HasOrder(d) => HasOrder(d)'
    BY <2>2 DEF HasOrder, EntriesOf
  <2>9. HasOrder(c)'
    BY <2>2, <2>3 DEF HasOrder, EntriesOf
  <2>10. EarnBasis'
    <3>1. \A d \in Customer : referrals'[d].referrer # d
      BY <2>4 DEF Earned, EarnBasis
    <3>2. ASSUME NEW e \in ledger'
          PROVE  /\ e.type = "earn_order" => e.order \in Order /\ e.customer = OrderOwner[e.order]
                 /\ e.type = "earn_first_purchase" => HasOrder(e.customer)'
                 /\ e.type = "earn_referral" =>
                       /\ e.referred \in Customer
                       /\ e.referred # e.customer
                       /\ e.points \in {REFERRAL_SIGNUP_POINTS, REFERRAL_PURCHASE_POINTS}
                       /\ referrals'[e.referred].referrer # None
                       /\ e.points = REFERRAL_PURCHASE_POINTS
                             => referrals'[e.referred].purchaseRewarded
      <4>1. CASE e \in ledger
        BY <2>4, <2>8, <4>1 DEF Earned, EarnBasis
      <4>2. CASE e \in new
        <5>1. CASE e.type = "earn_order" /\ e.order = o /\ e.customer = c
          BY <5>1 DEF c
        <5>2. CASE e.type = "earn_first_purchase" /\ e.customer = c
          BY <2>9, <5>2
        <5>3. CASE /\ rewarded /\ e.type = "earn_referral"
                   /\ e.customer = referrals[c].referrer /\ e.referred = c
                   /\ e.points = REFERRAL_PURCHASE_POINTS
          BY <2>1, <2>4, <5>3 DEF Earned, EarnBasis, c
        <5> QED  BY <2>3, <4>2, <5>1, <5>2, <5>3
      <4> QED  BY <2>2, <4>1, <4>2
    <3> QED  BY <3>1, <3>2 DEF EarnBasis
  <2>11. \A e, f \in ledger' : PairOK(e, f)
    <3>1. ASSUME NEW e \in ledger, NEW f \in ledger PROVE PairOK(e, f)
      BY DEF Earned
    <3>2. ASSUME NEW e \in ledger, NEW f \in new PROVE PairOK(e, f) /\ PairOK(f, e)
      <4>1. e.id \in 1..serial
        BY <2>4
      <4>2. CASE f.id = serial + 1 /\ f.type = "earn_order" /\ f.order = o /\ f.customer = c
        BY <2>4, <2>5, <4>1, <4>2 DEF PairOK
      <4>3. CASE first /\ f.type = "earn_first_purchase" /\ f.order = o /\ f.customer = c
        BY <2>6, <4>3 DEF PairOK
      <4>4. CASE /\ rewarded /\ f.type = "earn_referral" /\ f.referred = c
                 /\ f.points = REFERRAL_PURCHASE_POINTS
        BY <2>7, <4>4 DEF PairOK
      <4> QED  BY <2>3, <4>2, <4>3, <4>4
    <3>3. ASSUME NEW e \in new, NEW f \in new PROVE PairOK(e, f)
      <4>1. e.type = f.type => e.id = f.id
        BY <2>3
      <4>2. e.type = "earn_first_purchase" /\ f.type = "earn_order" => f.order = e.order
        BY <2>3
      <4> QED  BY <2>3, <4>1, <4>2 DEF PairOK
    <3> QED  BY <2>2, <3>1, <3>2, <3>3
  <2> QED  BY <2>10, <2>11 DEF Earned, PairOK
<1> QED  BY <1>1, <1>2, OrderEffect DEF Core

(* The strengthened invariant holds of every behaviour.                    *)
LEMMA EarnedHolds == Spec => []Earned
<1>1. Init => Earned
  BY LedgerConstants DEF Init, Earned, EarnBasis
<1>2. Core /\ Earned /\ [Next]_vars => Earned'
  <2> SUFFICES ASSUME Core, Earned, [Next]_vars PROVE Earned'
    OBVIOUS
  <2> USE DEF Core
  <2>1. CASE Plain
    <3>1. PICK new : /\ Effect(new)
                     /\ \A e \in new : e.type \in {"clawback", "adjust", "migration"}
                     /\ MigratesOnce(new)
      BY <2>1 DEF Plain
    <3>2. \A e \in new : e.type \notin EarnType
      BY <3>1 DEF EarnType
    <3> QED  BY <2>1, <3>1, <3>2, UnearnedKeepsEarned DEF Plain
  <2>2. ASSUME NEW c \in Customer, NEW k \in Key, NEW p \in RewardCost, Redeem(c, k, p)
        PROVE  Earned'
    <3> DEFINE e == [NewEntry(serial + 1, c, "spend", -p) EXCEPT !.key = k]
    <3>1. e.type \notin EarnType /\ MigratesOnce({e})
      BY DEF NewEntry, EarnType, MigratesOnce
    <3>2. Effect({e}) /\ UNCHANGED referrals
      BY <2>2, RedeemEffect DEF Redeem
    <3> HIDE DEF e
    <3> QED  BY <3>1, <3>2, UnearnedKeepsEarned
  <2>3. ASSUME UNCHANGED <<ledger, referrals>> PROVE Earned'
    BY <2>3 DEF Earned, EarnBasis, PairOK, HasOrder, EntriesOf
  <2>4. ASSUME NEW c \in Customer, NEW k \in Key, ReverseSpend(c, k) PROVE Earned'
    <3> DEFINE e == [NewEntry(serial + 1, c, "adjust", redemptions[c][k].cost)
                       EXCEPT !.key = k]
    <3>1. redemptions[c][k].cost \in Nat \ {0} /\ UNCHANGED referrals
      BY <2>4 DEF ReverseSpend, RedemptionsCost
    <3>2. e.type \notin EarnType /\ MigratesOnce({e})
      BY DEF NewEntry, EarnType, MigratesOnce
    <3>3. CASE Reversals(c, k) = {}
      <4>1. Effect({e})
        BY <2>4, <3>1, <3>3, ReverseEffect
      <4> HIDE DEF e
      <4> QED  BY <3>1, <3>2, <4>1, UnearnedKeepsEarned
    <3>4. CASE Reversals(c, k) # {}
      BY <2>3, <2>4, <3>1, <3>4 DEF ReverseSpend
    <3> QED  BY <3>3, <3>4
  <2>5. CASE ExpiryScan
    <3>1. /\ \A e \in {ExpireEntry(i) : i \in Matured} : e.type \notin EarnType
          /\ MigratesOnce({ExpireEntry(i) : i \in Matured})
      BY ExpireEntryIs DEF EarnType, MigratesOnce
    <3>2. UNCHANGED referrals
      BY <2>5 DEF ExpiryScan
    <3> QED  BY <2>5, <3>1, <3>2, ExpiryEffect, UnearnedKeepsEarned
  <2>6. CASE UNCHANGED vars
    BY <2>3, <2>6 DEF vars
  <2>7. ASSUME NEW c \in Customer, NEW k \in Key, MarkIssued(c, k) PROVE Earned'
    BY <2>3, <2>7 DEF MarkIssued
  <2>8. CASE Next
    BY <2>1, <2>2, <2>4, <2>5, <2>7, <2>8, SignupKeepsEarned, ClaimKeepsEarned,
       OrderKeepsEarned, StepKind
  <2> QED  BY <2>6, <2>8
<1> QED  BY <1>1, <1>2, CoreHolds, PTL DEF Spec

(* What may be earned once is earned once: signup, migration, first        *)
(* purchase, each order and both stages of a referral, under every replay  *)
(* and retry.                                                              *)
THEOREM EarningsAreOnce == Spec => []EarnedOnce
BY EarnedHolds, EarnedIs, PTL
-----------------------------------------------------------------------------
(* All three at once: no lot expires twice, no redemption is spent or      *)
(* reversed twice, nothing is earned twice, in any order of transactions.  *)
THEOREM NothingHappensTwice == Spec => []NothingTwice
BY LotsExpireOnce, RedemptionsSpendOnce, EarningsAreOnce, PTL DEF NothingTwice
-----------------------------------------------------------------------------
(* The shape of every transaction.                                         *)

(* Both tables are finite.                                                 *)
LEMMA TablesFinite ==
    ASSUME TypeOK, Numbered
    PROVE  IsFiniteSet(ledger) /\ IsFiniteSet(DOMAIN lots)
<1>1. serial \in Nat /\ DOMAIN lots \subseteq 1..serial
  BY DEF TypeOK, Numbered
<1>2. IsFiniteSet(1..serial)
  BY <1>1, FS_Interval
<1> QED  BY <1>1, <1>2, FS_Subset, NumberedFinite DEF Numbered

LEMMA SumRemainingIs ==
    ASSUME NEW ids
    PROVE  SumRemaining(ids) = SumLeft(lots, ids)
BY DEF SumRemaining, SumLeft, MapThenSumSet, MapThenFoldSet

LEMMA SpendableType ==
    ASSUME Core, NEW c
    PROVE  Spendable(c) \in Nat
<1>1. Consumable(c) \in SUBSET DOMAIN lots /\ IsFiniteSet(Consumable(c))
  BY TablesFinite, FS_Subset DEF Consumable, LotsOf, Core
<1>2. \A i \in Consumable(c) : Left(lots)[i] \in Int /\ Left(lots)[i] >= 0
  BY <1>1 DEF Left, Core, TypeOK, Lot
<1>3. Total(Left(lots), Consumable(c)) \in Int /\ Total(Left(lots), Consumable(c)) >= 0
  BY <1>1, <1>2, TotalType
<1> QED  BY <1>1, <1>3, SumRemainingIs, SumLeftIs DEF Spendable

LEMMA HeadRoomType ==
    ASSUME Core, NEW o
    PROVE  HeadRoom(o) \in Int
<1> DEFINE A == OrderEarnings(o)
           B == OrderClawbacks(o)
<1>1. /\ A \in SUBSET Entry /\ IsFiniteSet(A)
      /\ B \in SUBSET Entry /\ IsFiniteSet(B)
      /\ A \cap B = {} /\ B \cap A = {}
  BY TablesFinite, FS_Subset DEF OrderEarnings, OrderClawbacks, OrderEarnType, Core, TypeOK
<1> HIDE DEF A, B
<1>2. SumPoints(A) \in Int /\ SumPoints(B) \in Int
  BY <1>1, SumPointsOf
<1> QED  BY <1>2 DEF HeadRoom, A, B

(* A refund or cancellation is a draw, clamped by the order and by the     *)
(* lots.                                                                   *)
LEMMA ClawbackDraws ==
    ASSUME Core, NEW o \in Order, NEW desired, NEW moneyBack, NEW ev \in Event,
           Clawback(o, desired, moneyBack, ev), desired <= HeadRoom(o)
    PROVE  \E c \in Customer :
              /\ \E f \in OrderEarnings(o) : f.customer = c
              /\ \E n, e : Draws(c, n, e) /\ e.order = o /\ e.key = None
<1> DEFINE c == (CHOOSE e \in OrderEarnings(o) : TRUE).customer
           taken == IF desired <= Spendable(c) THEN desired ELSE Spendable(c)
           magnitude == IF AllowNegative THEN desired ELSE taken
           plain == NewEntry(serial + 1, c, "clawback", -magnitude)
           e == [plain EXCEPT !.order = o, !.event = ev]
<1>1. serial \in Nat /\ ledger \subseteq Entry
  BY DEF Core, TypeOK
<1>2. c \in Customer /\ \E f \in OrderEarnings(o) : f.customer = c
  BY <1>1 DEF Clawback, OrderEarnings, Entry
<1>3. /\ desired \in Points
      /\ magnitude \in Points
      /\ serial' = serial + 1
      /\ ledger' = ledger \cup {e}
      /\ ConsumeLotsFifo(c, taken)
  BY DEF Clawback, TakeIds
<1>4. Spendable(c) \in Nat
  BY SpendableType
<1>5. HeadRoom(o) \in Int
  BY HeadRoomType
<1> HIDE DEF c
<1>6. taken \in Nat /\ taken <= Spendable(c) /\ magnitude <= desired
      /\ (~AllowNegative => magnitude = taken)
  BY <1>3, <1>4 DEF Points
<1> HIDE DEF taken, magnitude
<1>7. -magnitude \in Int \ {0} /\ -magnitude < 0 /\ -(-magnitude) <= HeadRoom(o)
      /\ (~AllowNegative => -magnitude = -taken)
  BY <1>3, <1>5, <1>6 DEF Points
<1>8. /\ e \in Entry /\ e.points = -magnitude /\ e.id = serial + 1
      /\ e.type = "clawback" /\ e.customer = c /\ e.order = o /\ e.key = None
  <2>1. serial + 1 \in Nat /\ "clawback" \in EntryType
    BY <1>1 DEF EntryType, DebitType
  <2>2. /\ plain \in Entry /\ plain.points = -magnitude /\ plain.id = serial + 1
        /\ plain.type = "clawback" /\ plain.customer = c /\ plain.key = None
    BY <1>2, <1>7, <2>1, NewEntryType
  <2> HIDE DEF plain
  <2> QED  BY <2>2 DEF Entry
<1> HIDE DEF e
<1>9. Draws(c, taken, e)
  BY <1>3, <1>6, <1>7, <1>8 DEF Draws
<1> QED  BY <1>2, <1>8, <1>9

(* A redemption is a draw of its cost.                                     *)
LEMMA RedeemDraws ==
    ASSUME Core, NEW c \in Customer, NEW k \in Key, NEW p \in RewardCost, Redeem(c, k, p)
    PROVE  \E e : /\ Draws(c, p, e)
                  /\ e.points = -p /\ e.type = "spend" /\ e.order = None
<1> DEFINE e == [NewEntry(serial + 1, c, "spend", -p) EXCEPT !.key = k]
<1>1. p \in Nat \ {0} /\ Spendable(c) \in Nat /\ serial \in Nat
  BY LedgerConstants, SpendableType DEF Core, TypeOK
<1>2. /\ e \in Entry /\ e.id = serial + 1 /\ e.points = -p /\ e.order = None
      /\ e.type = "spend" /\ e.customer = c
  BY <1>1 DEF NewEntry, Entry, EntryType, DebitType
<1>3. /\ serial' = serial + 1 /\ ledger' = ledger \cup {e}
      /\ ConsumeLotsFifo(c, p) /\ p <= Spendable(c)
  BY <1>1 DEF Redeem, TakeIds
<1> HIDE DEF e
<1>4. -p < 0
  BY <1>1
<1>5. Draws(c, p, e)
  BY <1>1, <1>2, <1>3, <1>4 DEF Draws
<1> QED  BY <1>2, <1>5

LEMMA ReturnDraws ==
    ASSUME Core, NEW o \in Order, NEW ev \in Event,
           Cancel(o, ev) \/ \E a \in RefundAmount : Refund(o, a, ev)
    PROVE  /\ \E c \in Customer :
                 /\ \E f \in OrderEarnings(o) : f.customer = c
                 /\ \E n, e : Draws(c, n, e) /\ e.order = o /\ e.key = None
           /\ UNCHANGED redemptions
<1>1. PICK desired, moneyBack : Clawback(o, desired, moneyBack, ev) /\ desired <= HeadRoom(o)
  <2>1. HeadRoom(o) \in Int
    BY HeadRoomType
  <2>2. CASE Cancel(o, ev)
    BY <2>1, <2>2 DEF Cancel
  <2>3. ASSUME NEW a \in RefundAmount, Refund(o, a, ev)
        PROVE  \E desired, moneyBack :
                  Clawback(o, desired, moneyBack, ev) /\ desired <= HeadRoom(o)
    <3> DEFINE desired ==
                 IF RefundPoints(a) <= HeadRoom(o) THEN RefundPoints(a) ELSE HeadRoom(o)
    <3>1. Clawback(o, desired, a, ev)
      BY <2>3 DEF Refund
    <3>2. desired <= HeadRoom(o)
      BY <2>1
    <3> HIDE DEF desired
    <3> QED  BY <3>1, <3>2
  <2> QED  BY <2>2, <2>3
<1>2. UNCHANGED redemptions
  BY <1>1 DEF Clawback
<1> QED  BY <1>1, <1>2, ClawbackDraws

(* Every transaction has one of the four shapes or leaves both tables      *)
(* alone.                                                                  *)
LEMMA StepShape ==
    ASSUME Core, Next
    PROVE  \/ UNCHANGED <<ledger, lots, serial>>
           \/ \E new, x : Credits(new, x)
           \/ \E c \in Customer : \E n, e : Draws(c, n, e)
           \/ \E e : Withdraws(e)
           \/ ExpiryScan
<1> DEFINE Quiet == UNCHANGED <<ledger, lots, serial>>
           Credited == \E new, x : Credits(new, x)
           Drawn == \E c \in Customer : \E n, e : Draws(c, n, e)
           Withdrawn == \E e : Withdraws(e)
<1>0. serial \in Nat /\ now + LotLife \in Nat /\ NoExpiry \in Nat
      /\ TypeOK /\ Numbered /\ RedemptionsCost
  BY LedgerConstants DEF Core, TypeOK, NoExpiry
<1>1. ASSUME NEW e \in Entry, NEW x \in Nat, e.id = serial + 1, e.points > 0,
             e.order = None, serial' = serial + 1, Credit({e}, x)
      PROVE  Credited
  <2>1. Credits({e}, x)
    BY <1>0, <1>1 DEF Credits
  <2> QED  BY <2>1
<1>2. ASSUME NEW c \in Customer, EarnSignup(c) PROVE Credited
  <2> DEFINE e == NewEntry(serial + 1, c, "earn_signup", SIGNUP_POINTS)
  <2>1. e \in Entry /\ e.id = serial + 1 /\ e.points > 0 /\ e.order = None
    BY <1>0 DEF NewEntry, Entry, SIGNUP_POINTS, EntryType, EarnType
  <2>2. serial' = serial + 1 /\ Credit({e}, now + LotLife)
    BY <1>2 DEF EarnSignup, TakeIds
  <2> HIDE DEF e
  <2> QED  BY <1>0, <1>1, <2>1, <2>2
<1>3. ASSUME NEW c \in Customer, NEW r \in Customer, ClaimReferral(c, r) PROVE Credited
  <2> DEFINE e == [NewEntry(serial + 1, r, "earn_referral", REFERRAL_SIGNUP_POINTS)
                     EXCEPT !.referred = c]
  <2>1. e \in Entry /\ e.id = serial + 1 /\ e.points > 0 /\ e.order = None
    BY <1>0 DEF NewEntry, Entry, REFERRAL_SIGNUP_POINTS, EntryType, EarnType
  <2>2. serial' = serial + 1 /\ Credit({e}, now + LotLife)
    BY <1>3 DEF ClaimReferral, TakeIds
  <2> HIDE DEF e
  <2> QED  BY <1>0, <1>1, <2>1, <2>2
<1>4. ASSUME Migrate PROVE Credited
  BY <1>0, <1>4, MigrateEffect
<1>5. ASSUME NEW o \in Order, OrdersPaid(o) PROVE Quiet \/ Credited
  BY <1>0, <1>5, OrderEffect
<1>6. ASSUME NEW o \in Order, NEW ev \in Event, Cancel(o, ev) PROVE Drawn
  BY <1>6, ReturnDraws
<1>7. ASSUME NEW o \in Order, NEW a \in RefundAmount, NEW ev \in Event, Refund(o, a, ev)
      PROVE  Drawn
  BY <1>7, ReturnDraws
<1>8. ASSUME NEW c \in Customer, NEW k \in Key, NEW p \in RewardCost, Redeem(c, k, p)
      PROVE  Drawn
  BY <1>8, RedeemDraws
<1>9. ASSUME NEW c \in Customer, NEW k \in Key, ReverseSpend(c, k)
      PROVE  Quiet \/ Credited
  <2> DEFINE e == [NewEntry(serial + 1, c, "adjust", redemptions[c][k].cost)
                     EXCEPT !.key = k]
  <2>1. redemptions[c][k].cost \in Nat \ {0}
    BY <1>0, <1>9 DEF ReverseSpend, RedemptionsCost
  <2>2. e \in Entry /\ e.id = serial + 1 /\ e.points > 0 /\ e.order = None
    BY <1>0, <2>1 DEF NewEntry, Entry, EntryType
  <2>3. \/ UNCHANGED <<ledger, lots, serial>>
        \/ serial' = serial + 1 /\ Credit({e}, NoExpiry)
    BY <1>9 DEF ReverseSpend, TakeIds
  <2> HIDE DEF e
  <2> QED  BY <1>0, <1>1, <2>2, <2>3
<1>10. ASSUME NEW c \in Customer, NEW p \in Adjustment, Adjust(c, p)
       PROVE  Credited \/ Withdrawn
  <2> DEFINE e == NewEntry(serial + 1, c, "adjust", p)
  <2>1. p \in Int \ {0}
    BY LedgerConstants
  <2>2. /\ e \in Entry /\ e.id = serial + 1 /\ e.points = p /\ e.order = None
        /\ e.type = "adjust"
    <3>1. serial + 1 \in Nat /\ "adjust" \in EntryType
      BY <1>0 DEF EntryType
    <3>2. e.order = None
      BY DEF NewEntry
    <3> QED  BY <2>1, <3>1, <3>2, NewEntryType
  <2>3. /\ serial' = serial + 1
        /\ IF p > 0 THEN Credit({e}, now + LotLife)
                    ELSE ledger' = ledger \cup {e} /\ UNCHANGED lots
    BY <1>10 DEF Adjust, TakeIds
  <2> HIDE DEF e
  <2>4. CASE p > 0
    BY <1>0, <1>1, <2>2, <2>3, <2>4
  <2>5. CASE ~(p > 0)
    <3>1. Withdraws(e)
      BY <2>1, <2>2, <2>3, <2>5 DEF Withdraws
    <3> QED  BY <3>1
  <2> QED  BY <2>4, <2>5
<1> HIDE DEF Credited, Drawn, Withdrawn
<1>11. ASSUME NEW c, EnrolWithoutAward(c) PROVE Quiet
  BY <1>11 DEF EnrolWithoutAward
<1>12. ASSUME NEW c \in Customer, NEW k \in Key, MarkIssued(c, k) PROVE Quiet
  BY <1>12 DEF MarkIssued
<1>13. ASSUME Tick PROVE Quiet
  BY <1>13 DEF Tick
<1> HIDE DEF Quiet
<1>14. Quiet \/ Credited \/ Drawn \/ Withdrawn \/ ExpiryScan
  BY <1>2, <1>3, <1>4, <1>5, <1>6, <1>7, <1>8, <1>9, <1>10, <1>11, <1>12, <1>13
     DEF Next, EnrolByWorthlessOrder
<1> QED  BY <1>14 DEF Quiet, Credited, Drawn, Withdrawn

-----------------------------------------------------------------------------
(* Clawback: no order gives back more than it earned.                      *)

(* Every entry that names the order.                                       *)
OfOrder(o) == {e \in ledger : e.order = o}

(* Only earnings of an order and clawbacks name one.                       *)
Orderly ==
    \A e \in ledger : e.order # None => e.type \in OrderEarnType \cup {"clawback"}

(* So what is left to claw back is the sum of all that names the order.    *)
LEMMA HeadRoomIs ==
    ASSUME Core, Orderly, NEW o \in Order
    PROVE  HeadRoom(o) = SumPoints(OfOrder(o))
<1> DEFINE A == OrderEarnings(o)
           B == OrderClawbacks(o)
<1>1. /\ A \in SUBSET Entry /\ IsFiniteSet(A)
      /\ B \in SUBSET Entry /\ IsFiniteSet(B)
      /\ A \cap B = {}
  BY TablesFinite, FS_Subset DEF OrderEarnings, OrderClawbacks, OrderEarnType, Core, TypeOK
<1>2. OfOrder(o) = A \cup B
  BY LedgerConstants DEF OfOrder, OrderEarnings, OrderClawbacks, Orderly
<1> HIDE DEF A, B
<1>3. SumPoints(A \cup B) = SumPoints(A) + SumPoints(B)
  BY <1>1, SumPointsOf
<1> QED  BY <1>2, <1>3 DEF HeadRoom, A, B

LEMMA OrderGrows ==
    ASSUME Core, NEW new \in SUBSET Entry, ledger' = ledger \cup new,
           IsFiniteSet(new), new \cap ledger = {}, NEW o
    PROVE  LET added == {e \in new : e.order = o}
           IN  /\ SumPoints(OfOrder(o)) \in Int
               /\ SumPoints(added) \in Int
               /\ SumPoints(OfOrder(o)') = SumPoints(OfOrder(o)) + SumPoints(added)
<1> DEFINE A == OfOrder(o)
           B == {e \in new : e.order = o}
<1>1. /\ A \in SUBSET Entry /\ IsFiniteSet(A)
      /\ B \in SUBSET Entry /\ IsFiniteSet(B)
      /\ A \cap B = {} /\ B \cap A = {}
  BY TablesFinite, FS_Subset DEF OfOrder, Core, TypeOK
<1>2. OfOrder(o)' = A \cup B
  BY DEF OfOrder
<1> HIDE DEF A, B
<1>3. /\ SumPoints(A) \in Int
      /\ SumPoints(B) \in Int
      /\ SumPoints(A \cup B) = SumPoints(A) + SumPoints(B)
  BY <1>1, SumPointsOf
<1> QED  BY <1>2, <1>3 DEF A, B

(* Inductive: no order is in the red.                                      *)
OrdersCovered == Orderly /\ \A o \in Order : SumPoints(OfOrder(o)) >= 0

LEMMA NewAreFinite ==
    ASSUME Core, NEW new, NEW x, Credits(new, x)
    PROVE  IsFiniteSet(new) /\ new \cap ledger = {} /\ ledger' = ledger \cup new
<1>1. serial \in Nat /\ serial' \in Nat /\ \A e \in ledger : e.id \in 1..serial
  BY DEF Core, TypeOK, Numbered, Credits
<1>2. \A e \in new : e.id \in 1..serial' /\ e.id > serial
  BY <1>1 DEF Credits
<1>3. IsFiniteSet(new)
  BY <1>1, <1>2, NumberedFinite DEF Credits
<1> QED  BY <1>1, <1>2, <1>3 DEF Credits, Credit

LEMMA OneIsFresh ==
    ASSUME Core, NEW e, e.id = serial + 1
    PROVE  IsFiniteSet({e}) /\ {e} \cap ledger = {}
<1>1. serial \in Nat /\ \A f \in ledger : f.id \in 1..serial
  BY DEF Core, TypeOK, Numbered
<1>2. e \notin ledger
  BY <1>1
<1> QED  BY <1>2, FS_Singleton

LEMMA StepCovers ==
    ASSUME Core, OrdersCovered, Next
    PROVE  OrdersCovered'
<1>1. ASSUME UNCHANGED ledger PROVE OrdersCovered'
  BY <1>1 DEF OrdersCovered, Orderly, OfOrder
<1>2. ASSUME NEW new \in SUBSET Entry, ledger' = ledger \cup new,
             IsFiniteSet(new), new \cap ledger = {},
             \A e \in new : e.order # None =>
                /\ e.type \in OrderEarnType \cup {"clawback"}
                /\ e.points > 0 \/ (new = {e} /\ -e.points <= HeadRoom(e.order))
      PROVE  OrdersCovered'
  <2>1. Orderly'
    BY <1>2 DEF OrdersCovered, Orderly
  <2>2. ASSUME NEW o \in Order
        PROVE  SumPoints(OfOrder(o)') >= 0
    <3> DEFINE added == {e \in new : e.order = o}
    <3>1. /\ SumPoints(OfOrder(o)) \in Int
          /\ SumPoints(added) \in Int
          /\ SumPoints(OfOrder(o)') = SumPoints(OfOrder(o)) + SumPoints(added)
      BY <1>2, OrderGrows
    <3>2. SumPoints(OfOrder(o)) >= 0
      BY DEF OrdersCovered
    <3>3. o # None
      BY LedgerConstants
    <3>4. CASE \A e \in added : e.points > 0
      <4>1. added \in SUBSET Entry /\ IsFiniteSet(added)
        BY <1>2, FS_Subset
      <4> HIDE DEF added
      <4>2. SumPoints(added) >= 0
        BY <3>4, <4>1, SumPointsOfCredits
      <4> QED  BY <3>1, <3>2, <4>2
    <3>5. CASE \E e \in added : ~(e.points > 0)
      <4>1. PICK e \in added : ~(e.points > 0)
        BY <3>5
      <4>2. added = {e} /\ -e.points <= HeadRoom(o) /\ e \in Entry
        BY <1>2, <3>3, <4>1
      <4>3. HeadRoom(o) = SumPoints(OfOrder(o))
        BY HeadRoomIs DEF OrdersCovered
      <4> HIDE DEF added
      <4>4. SumPoints(added) = e.points /\ e.points \in Int
        BY <4>2, SumPointsOfOne DEF Entry
      <4> QED  BY <3>1, <4>2, <4>3, <4>4
    <3> QED  BY <3>4, <3>5
  <2> QED  BY <2>1, <2>2 DEF OrdersCovered
<1>3. ASSUME NEW new, NEW x, Credits(new, x) PROVE OrdersCovered'
  <2>1. /\ new \in SUBSET Entry
        /\ \A e \in new : e.points > 0 /\ (e.order # None => e.type \in OrderEarnType)
    BY <1>3 DEF Credits
  <2>2. IsFiniteSet(new) /\ new \cap ledger = {} /\ ledger' = ledger \cup new
    BY <1>3, NewAreFinite
  <2> QED  BY <1>2, <2>1, <2>2
<1>4. ASSUME NEW c, NEW n, NEW e, Draws(c, n, e) PROVE OrdersCovered'
  <2>1. /\ {e} \in SUBSET Entry /\ ledger' = ledger \cup {e}
        /\ e.order # None => e.type = "clawback" /\ -e.points <= HeadRoom(e.order)
    BY <1>4 DEF Draws
  <2>2. IsFiniteSet({e}) /\ {e} \cap ledger = {}
    BY <1>4, OneIsFresh DEF Draws
  <2> QED  BY <1>2, <2>1, <2>2
<1>5. ASSUME NEW e, Withdraws(e) PROVE OrdersCovered'
  <2>1. {e} \in SUBSET Entry /\ ledger' = ledger \cup {e} /\ e.order = None
    BY <1>5 DEF Withdraws
  <2>2. IsFiniteSet({e}) /\ {e} \cap ledger = {}
    BY <1>5, OneIsFresh DEF Withdraws
  <2> QED  BY <1>2, <2>1, <2>2
<1>6. ASSUME ExpiryScan PROVE OrdersCovered'
  <2> DEFINE new == {ExpireEntry(i) : i \in Matured}
  <2>1. ledger' = ledger \cup new
    BY <1>6 DEF ExpiryScan
  <2>2. \A e \in new : e \in Entry /\ e.id \in (serial + 1)..(serial + serial)
    BY ExpireEntryIs DEF Core, TypeOK
  <2>3. \A e, f \in new : e.id = f.id => e = f
    <3>1. /\ serial \in Nat
          /\ \A i \in Matured : i \in 1..serial /\ ExpireEntry(i).id = serial + i
      BY ExpireEntryIs DEF Core, TypeOK
    <3> QED  BY <3>1
  <2>4. \A e \in new : e.order = None
    BY DEF ExpireEntry, NewEntry
  <2>5. serial \in Nat /\ \A e \in ledger : e.id \in 1..serial
    BY DEF Core, TypeOK, Numbered
  <2> HIDE DEF new
  <2>6. \A e \in new : e.id \in 1..(serial + serial) /\ serial + serial \in Nat
    BY <2>2, <2>5
  <2>7. IsFiniteSet(new)
    <3>1. serial + serial \in Nat
      BY <2>5
    <3> QED  BY <2>3, <2>6, <3>1, NumberedFinite
  <2>8. new \cap ledger = {}
    BY <2>2, <2>5
  <2> QED  BY <1>2, <2>1, <2>2, <2>4, <2>7, <2>8
<1> QED  BY <1>1, <1>3, <1>4, <1>5, <1>6, StepShape

(* Property 8: whatever refunds and cancellations of an order arrive, in   *)
(* any order and with whatever clamps, they never take back more points    *)
(* than the order earned.                                                  *)
THEOREM OrdersNeverOverclawed == Spec => []ClawbackWithinEarnings
<1>1. Init => OrdersCovered
  <2> SUFFICES ASSUME Init PROVE OrdersCovered
    OBVIOUS
  <2>1. ledger = {}
    BY DEF Init
  <2>2. \A o : OfOrder(o) = {}
    BY <2>1 DEF OfOrder
  <2>3. SumPoints({}) >= 0
    <3>1. {} \in SUBSET Entry /\ IsFiniteSet({}) /\ \A e \in {} : e.points > 0
      BY FS_EmptySet
    <3> QED  BY <3>1, SumPointsOfCredits
  <2> QED  BY <2>1, <2>2, <2>3 DEF OrdersCovered, Orderly
<1>2. Core /\ OrdersCovered /\ [Next]_vars => OrdersCovered'
  <2> SUFFICES ASSUME Core, OrdersCovered, [Next]_vars PROVE OrdersCovered'
    OBVIOUS
  <2>1. CASE UNCHANGED vars
    BY <2>1 DEF vars, OrdersCovered, Orderly, OfOrder
  <2> QED  BY <2>1, StepCovers
<1>3. OrdersCovered => ClawbackWithinEarnings
  BY DEF OrdersCovered, ClawbackWithinEarnings, OfOrder
<1> QED  BY <1>1, <1>2, <1>3, CoreHolds, PTL DEF Spec

-----------------------------------------------------------------------------
(* Drawing lots, oldest first.                                             *)

LEMMA LotsKnown ==
    ASSUME Core, NEW c
    PROVE  /\ LotsOf(c) \in SUBSET DOMAIN lots /\ IsFiniteSet(LotsOf(c))
           /\ Consumable(c) \in SUBSET LotsOf(c) /\ IsFiniteSet(Consumable(c))
           /\ \A i \in DOMAIN lots : Left(lots)[i] = lots[i].remaining
                                     /\ lots[i].remaining \in Nat
<1>1. LotsOf(c) \in SUBSET DOMAIN lots /\ Consumable(c) \in SUBSET LotsOf(c)
  BY DEF Consumable, LotsOf
<1>2. \A i \in DOMAIN lots : Left(lots)[i] = lots[i].remaining /\ lots[i].remaining \in Nat
  BY DEF Left, Core, TypeOK, Lot
<1> QED  BY <1>1, <1>2, TablesFinite, FS_Subset DEF Core

(* What consumeLotsFifo takes, in terms of the lots drawn before.          *)
DrawnBefore(c, i) == {j \in Consumable(c) : Before(j, i)}

LEMMA FifoTakeIs ==
    ASSUME Core, NEW c, NEW n \in Nat, NEW i \in DOMAIN lots
    PROVE  LET u == n - Total(Left(lots), DrawnBefore(c, i))
           IN  /\ Total(Left(lots), DrawnBefore(c, i)) \in Nat
               /\ FifoTake(c, n, i) =
                    IF i \notin Consumable(c) \/ u <= 0 THEN 0 ELSE Least(u, lots[i].remaining)
               /\ FifoTake(c, n, i) \in 0..lots[i].remaining
<1> DEFINE B == DrawnBefore(c, i)
           u == n - Total(Left(lots), B)
<1>1. B \in SUBSET DOMAIN lots /\ IsFiniteSet(B) /\ \A j \in B : Left(lots)[j] \in Nat
  BY LotsKnown, FS_Subset DEF DrawnBefore
<1>2. \A j \in B : Left(lots)[j] \in Int /\ Left(lots)[j] >= 0
  BY <1>1
<1> HIDE DEF B
<1>3. Total(Left(lots), B) \in Nat
  <2>1. Total(Left(lots), B) \in Int /\ Total(Left(lots), B) >= 0
    BY <1>1, <1>2, TotalType
  <2> QED  BY <2>1
<1>4. SumRemaining(B) = Total(Left(lots), B)
  BY <1>1, SumRemainingIs, SumLeftIs
<1>5. lots[i].remaining \in Nat /\ u \in Int
  BY <1>3, LotsKnown
<1>6. FifoTake(c, n, i) =
        IF i \notin Consumable(c) THEN 0
        ELSE IF u \in 0..lots[i].remaining THEN u
        ELSE IF u > lots[i].remaining THEN lots[i].remaining
        ELSE 0
  BY <1>4 DEF FifoTake, B, DrawnBefore
<1> HIDE DEF u
<1>7. FifoTake(c, n, i) =
        IF i \notin Consumable(c) \/ u <= 0 THEN 0 ELSE Least(u, lots[i].remaining)
  BY <1>5, <1>6 DEF Least
<1>8. FifoTake(c, n, i) \in 0..lots[i].remaining
  BY <1>5, <1>6
<1> QED  BY <1>3, <1>7, <1>8 DEF u, B

(* The draw order never runs in circles.                                   *)
LEMMA BeforeIsAnOrder ==
    ASSUME Core
    PROVE  /\ \A i \in DOMAIN lots : ~Before(i, i)
           /\ \A i, j, k \in DOMAIN lots : Before(i, j) /\ Before(j, k) => Before(i, k)
<1>1. \A i \in DOMAIN lots : lots[i].earnedAt \in Nat /\ lots[i].place \in Nat
  BY DEF Core, TypeOK, Lot
<1> QED  BY <1>1 DEF Before

(* A lot is drawn on only after every lot before it is drained.            *)
LEMMA EarlierIsDrained ==
    ASSUME Core, NEW c, NEW n \in Nat,
           NEW i \in Consumable(c), NEW j \in Consumable(c),
           Before(j, i), FifoTake(c, n, i) > 0
    PROVE  FifoTake(c, n, j) = lots[j].remaining
<1> DEFINE R == Left(lots)
           A == DrawnBefore(c, i)
           B == DrawnBefore(c, j)
<1>1. i \in DOMAIN lots /\ j \in DOMAIN lots
  BY LotsKnown
<1>2. /\ A \in SUBSET DOMAIN lots /\ IsFiniteSet(A)
      /\ B \cup {j} \subseteq A /\ j \notin B
      /\ \A k \in A : R[k] \in Nat
  BY <1>1, LotsKnown, BeforeIsAnOrder, FS_Subset DEF DrawnBefore
<1>3. /\ IsFiniteSet(B \cup {j})
      /\ \A k \in B \cup {j} : R[k] \in Int
      /\ (B \cup {j}) \ {j} = B
  BY <1>2, FS_Subset
<1>4. Total(R, A) \in Nat /\ Total(R, B) \in Nat
  BY <1>1, FifoTakeIs
<1>5. Total(R, B \cup {j}) <= Total(R, A)
  <2> DEFINE C == B \cup {j}
  <2>1. C \subseteq A
    BY <1>2
  <2> HIDE DEF A, B, C, R
  <2>2. Total(R, C) <= Total(R, A)
    BY <1>2, <2>1, TotalOfPart
  <2> QED  BY <2>2 DEF C
<1>6. Total(R, B \cup {j}) = R[j] + Total(R, B)
  <2> DEFINE C == B \cup {j}
  <2>1. IsFiniteSet(C) /\ (\A k \in C : R[k] \in Int) /\ j \in C /\ C \ {j} = B
    BY <1>3
  <2> HIDE DEF A, B, C, R
  <2>2. Total(R, C) = R[j] + Total(R, C \ {j})
    BY <2>1, TotalTakes
  <2> QED  BY <2>1, <2>2 DEF C
<1>7. R[j] = lots[j].remaining /\ lots[j].remaining \in Nat /\ lots[i].remaining \in Nat
  BY <1>1, LotsKnown
<1>8. n - Total(R, A) > 0
  <2>1. FifoTake(c, n, i) = IF i \notin Consumable(c) \/ n - Total(R, A) <= 0 THEN 0
                            ELSE Least(n - Total(R, A), lots[i].remaining)
    BY <1>1, FifoTakeIs
  <2> HIDE DEF A, B, R
  <2> QED  BY <1>4, <2>1
<1>9. FifoTake(c, n, j) = IF j \notin Consumable(c) \/ n - Total(R, B) <= 0 THEN 0
                          ELSE Least(n - Total(R, B), lots[j].remaining)
  BY <1>1, FifoTakeIs
<1> HIDE DEF A, B, R
<1> QED  BY <1>4, <1>5, <1>6, <1>7, <1>8, <1>9 DEF Least

(* What a draw does to each lot.                                           *)
LEMMA DrawIs ==
    ASSUME Core, NEW c, NEW n \in Nat, ConsumeLotsFifo(c, n)
    PROVE  /\ DOMAIN lots' = DOMAIN lots
           /\ \A i \in DOMAIN lots :
                 /\ lots'[i].remaining = lots[i].remaining - FifoTake(c, n, i)
                 /\ lots'[i].customer = lots[i].customer
                 /\ lots'[i].earnedAt = lots[i].earnedAt
                 /\ lots'[i].expiresAt = lots[i].expiresAt
                 /\ \/ lots'[i].place = lots[i].place
                    \/ lots'[i].place = serial + 1 /\ FifoTake(c, n, i) # 0
<1>1. PICK moved \in BOOLEAN :
          lots' = [i \in DOMAIN lots |->
                     IF FifoTake(c, n, i) = 0 THEN lots[i]
                     ELSE [lots[i] EXCEPT !.remaining = @ - FifoTake(c, n, i),
                                          !.place = IF moved THEN serial + 1 ELSE @]]
  BY DEF ConsumeLotsFifo
<1>2. \A i \in DOMAIN lots : lots[i] \in Lot /\ lots[i].remaining \in Nat
  BY DEF Core, TypeOK, Lot
<1>3. ASSUME NEW i \in DOMAIN lots
      PROVE  /\ lots'[i].remaining = lots[i].remaining - FifoTake(c, n, i)
             /\ lots'[i].customer = lots[i].customer
             /\ lots'[i].earnedAt = lots[i].earnedAt
             /\ lots'[i].expiresAt = lots[i].expiresAt
             /\ \/ lots'[i].place = lots[i].place
                \/ lots'[i].place = serial + 1 /\ FifoTake(c, n, i) # 0
  <2>1. CASE FifoTake(c, n, i) = 0
    <3>1. lots'[i] = lots[i]
      BY <1>1, <2>1
    <3>2. lots[i].remaining - FifoTake(c, n, i) = lots[i].remaining
      BY <1>2, <2>1
    <3> QED  BY <3>1, <3>2
  <2>2. CASE FifoTake(c, n, i) # 0
    <3> DEFINE r == lots[i].remaining - FifoTake(c, n, i)
               p == IF moved THEN serial + 1 ELSE lots[i].place
    <3>1. lots'[i] = [lots[i] EXCEPT !.remaining = r, !.place = p]
      BY <1>1, <2>2
    <3>2. p = serial + 1 \/ p = lots[i].place
      OBVIOUS
    <3> HIDE DEF r, p
    <3>3. /\ lots'[i].remaining = r
          /\ lots'[i].customer = lots[i].customer
          /\ lots'[i].earnedAt = lots[i].earnedAt
          /\ lots'[i].expiresAt = lots[i].expiresAt
          /\ lots'[i].place = p
      BY <1>2, <3>1 DEF Lot
    <3> QED  BY <2>2, <3>2, <3>3 DEF r
  <2> QED  BY <2>1, <2>2
<1> QED  BY <1>1, <1>3

LEMMA ShrinksOldestFirst ==
    ASSUME Core, NEW c, NEW n \in Nat, ConsumeLotsFifo(c, n)
    PROVE  OldestLiveLotFirst
<1> SUFFICES ASSUME NEW i \in DOMAIN lots, lots'[i].remaining < lots[i].remaining
             PROVE  /\ lots[i].expiresAt \notin 1..now
                    /\ \A j \in LotsOf(lots[i].customer) :
                          lots[j].expiresAt \notin 1..now
                             /\ lots[j].earnedAt < lots[i].earnedAt
                          => lots'[j].remaining = 0
  BY DEF OldestLiveLotFirst
<1>1. \A j \in DOMAIN lots : /\ lots[j].remaining \in Nat
                             /\ lots[j].expiresAt \in Nat
                             /\ lots'[j].remaining = lots[j].remaining - FifoTake(c, n, j)
                             /\ FifoTake(c, n, j) \in 0..lots[j].remaining
  BY DrawIs, FifoTakeIs DEF Core, TypeOK, Lot
<1>2. now \in Nat
  BY DEF Core, TypeOK
<1>3. FifoTake(c, n, i) > 0
  BY <1>1
<1>4. i \in Consumable(c)
  BY <1>3, FifoTakeIs
<1>5. lots[i].customer = c /\ lots[i].expiresAt \notin 1..now
  BY <1>1, <1>2, <1>4 DEF Consumable, LotsOf, Live, NoExpiry
<1>6. ASSUME NEW j \in LotsOf(c), lots[j].expiresAt \notin 1..now,
             lots[j].earnedAt < lots[i].earnedAt
      PROVE  lots'[j].remaining = 0
  <2>1. j \in DOMAIN lots
    BY DEF LotsOf
  <2>2. CASE lots[j].remaining = 0
    BY <1>1, <2>1, <2>2
  <2>3. CASE lots[j].remaining # 0
    <3>1. j \in Consumable(c)
      BY <1>1, <1>2, <1>6, <2>1, <2>3 DEF Consumable, Live, NoExpiry
    <3>2. Before(j, i)
      BY <1>6 DEF Before
    <3>3. FifoTake(c, n, j) = lots[j].remaining
      BY <1>3, <1>4, <3>1, <3>2, EarlierIsDrained
    <3> QED  BY <1>1, <2>1, <3>3
  <2> QED  BY <2>2, <2>3
<1> QED  BY <1>5, <1>6

(* Req 5.6 and 2b: of all transactions only the expiry scan shrinks a lot  *)
(* that has expired, and a debit shrinks a live one only once every live   *)
(* lot of that customer earned earlier is used up.                         *)
THEOREM OldestLiveLotsGoFirst == Spec => DrawsOldestLiveLots
<1>1. Core /\ [Next]_vars => [OldestLiveLotFirst]_vars
  <2> SUFFICES ASSUME Core, Next PROVE OldestLiveLotFirst
    OBVIOUS
  <2>1. \A i \in DOMAIN lots : lots[i].remaining \in Nat
    BY DEF Core, TypeOK, Lot
  <2>2. ASSUME \A i \in DOMAIN lots : lots'[i].remaining = lots[i].remaining
        PROVE  OldestLiveLotFirst
    BY <2>1, <2>2 DEF OldestLiveLotFirst
  <2>3. CASE UNCHANGED lots
    BY <2>2, <2>3
  <2>4. CASE \E new, x : Credits(new, x)
    BY <2>2, <2>4 DEF Credits, Credit
  <2>5. CASE \E c \in Customer : \E n, e : Draws(c, n, e)
    BY <2>5, ShrinksOldestFirst DEF Draws
  <2>6. CASE \E e : Withdraws(e)
    BY <2>3, <2>6 DEF Withdraws
  <2>7. CASE ExpiryScan
    <3> SUFFICES ASSUME NEW i \in DOMAIN lots,
                        lots'[i].remaining < lots[i].remaining
                 PROVE  lots[i].expiresAt \in 1..now /\ lots'[i].remaining = 0
      BY DEF OldestLiveLotFirst
    <3>1. i \in Matured /\ lots'[i].remaining = 0
      BY <2>1, <2>7 DEF ExpiryScan, Core, TypeOK, Lot
    <3>2. lots[i].expiresAt \in Nat /\ now \in Nat
      BY DEF Core, TypeOK, Lot
    <3> QED  BY <3>1, <3>2 DEF Matured, NoExpiry
  <2> QED  BY <2>3, <2>4, <2>5, <2>6, <2>7, StepShape
<1> QED  BY <1>1, CoreHolds, PTL DEF Spec, DrawsOldestLiveLots

-----------------------------------------------------------------------------
(* The lots back the balance.                                              *)

(* Two lots of a customer that may both be drawn differ in what orders     *)
(* them. An update may move several lots behind all others at once, but at *)
(* most one of those still holds anything.                                 *)
Placed ==
    /\ \A i \in DOMAIN lots : lots[i].place <= serial
    /\ \A i, j \in DOMAIN lots :
          /\ i # j
          /\ lots[i].customer = lots[j].customer
          /\ lots[i].remaining > 0
          /\ lots[j].remaining > 0
          /\ lots[i].earnedAt = lots[j].earnedAt
          => lots[i].place # lots[j].place

(* What the lots must back: all entries but an operator's debits.          *)
Backed(c) == {e \in EntriesOf(c) : ~(e.type = "adjust" /\ e.points < 0)}

(* Inductive: the order of the lots, without which one draw could take     *)
(* from two lots what it needs once, and the balance.                      *)
LotsBacked ==
    /\ Placed
    /\ ~AllowNegative =>
          \A c \in Customer : SumLeft(lots, LotsOf(c)) = SumPoints(Backed(c))

(* A draw of no more than is spendable takes exactly what it is asked for. *)
LEMMA DrawsWhatIsAsked ==
    ASSUME Core, Placed, NEW c, NEW n \in Nat, n <= Spendable(c),
           NEW T, \A i \in DOMAIN lots : T[i] = FifoTake(c, n, i)
    PROVE  Total(T, LotsOf(c)) = n
<1> DEFINE A == Consumable(c)
           R == Left(lots)
           Lt == {p \in A \X A : Before(p[1], p[2])}
<1>1. /\ IsFiniteSet(A) /\ A \in SUBSET LotsOf(c) /\ A \in SUBSET DOMAIN lots
      /\ LotsOf(c) \in SUBSET DOMAIN lots /\ IsFiniteSet(LotsOf(c))
      /\ \A i \in A : R[i] \in Nat /\ R[i] = lots[i].remaining
  BY LotsKnown
<1>2. Ordered(Lt, A)
  <2>1. \A x, y \in A : <<x, y>> \in Lt <=> Before(x, y)
    OBVIOUS
  <2>2. \A x, y \in A : x # y => Before(x, y) \/ Before(y, x)
    <3> SUFFICES ASSUME NEW x \in A, NEW y \in A, x # y
                 PROVE  Before(x, y) \/ Before(y, x)
      OBVIOUS
    <3>1. /\ lots[x].earnedAt \in Nat /\ lots[y].earnedAt \in Nat
          /\ lots[x].place \in Nat /\ lots[y].place \in Nat
      BY <1>1 DEF Core, TypeOK, Lot
    <3>2. lots[x].earnedAt = lots[y].earnedAt => lots[x].place # lots[y].place
      BY <1>1 DEF Placed, Consumable, LotsOf
    <3> QED  BY <3>1, <3>2 DEF Before
  <2> HIDE DEF Lt
  <2> QED  BY <1>1, <2>1, <2>2, BeforeIsAnOrder DEF Ordered
<1>3. ASSUME NEW i \in A
      PROVE  T[i] = Share(n, R, Lt, A, i)
  <2>1. {j \in A : <<j, i>> \in Lt} = DrawnBefore(c, i)
    <3>1. \A j \in A : <<j, i>> \in Lt <=> Before(j, i)
      OBVIOUS
    <3> HIDE DEF Lt
    <3>2. \A j : j \in {k \in A : <<k, i>> \in Lt} <=> j \in DrawnBefore(c, i)
      BY <3>1 DEF DrawnBefore
    <3> QED  BY <3>2
  <2>2. i \in DOMAIN lots /\ R[i] = lots[i].remaining
    BY <1>1
  <2>3. FifoTake(c, n, i) =
           IF i \notin A \/ n - Total(R, DrawnBefore(c, i)) <= 0 THEN 0
           ELSE Least(n - Total(R, DrawnBefore(c, i)), lots[i].remaining)
    BY <2>2, FifoTakeIs
  <2> HIDE DEF A, R, Lt
  <2> QED  BY <2>1, <2>2, <2>3 DEF Share, Uncovered
<1>4. Total(R, A) = Spendable(c)
  BY <1>1, SumRemainingIs, SumLeftIs DEF Spendable
<1>5. Spendable(c) \in Nat
  BY SpendableType
<1>6. \A i \in LotsOf(c) : T[i] \in Int /\ (i \notin A => T[i] = 0)
  BY <1>1, FifoTakeIs
<1> HIDE DEF A, R, Lt
<1>7. Total(T, A) = n
  <2>1. Total(T, A) = Least(n, Total(R, A))
    <3>1. IsFiniteSet(A) /\ \A i \in A : R[i] \in Nat
      BY <1>1
    <3>2. \A i \in A : T[i] = Share(n, R, Lt, A, i)
      BY <1>3
    <3> QED  BY <1>2, <3>1, <3>2, DrawnInOrder
  <2> QED  BY <1>4, <1>5, <2>1 DEF Least
<1>8. Total(T, LotsOf(c)) = Total(T, A) + Total(T, LotsOf(c) \ A)
  <2> DEFINE B == LotsOf(c) \ A
  <2>1. IsFiniteSet(B) /\ A \cap B = {} /\ A \cup B = LotsOf(c)
        /\ \A i \in A \cup B : T[i] \in Int
    BY <1>1, <1>6, FS_Subset
  <2> HIDE DEF B
  <2>2. Total(T, A \cup B) = Total(T, A) + Total(T, B)
    BY <1>1, <2>1, TotalOfUnion
  <2> QED  BY <2>1, <2>2 DEF B
<1>9. Total(T, LotsOf(c) \ A) = 0
  <2>1. IsFiniteSet(LotsOf(c) \ A) /\ \A i \in LotsOf(c) \ A : T[i] = 0
    BY <1>1, <1>6, FS_Subset
  <2> QED  BY <2>1, TotalOfZeros
<1> QED  BY <1>7, <1>8, <1>9

LEMMA CreditIs ==
    ASSUME Core, NEW new, NEW x, Credits(new, x)
    PROVE  /\ DOMAIN lots' = DOMAIN lots \cup {e.id : e \in new}
           /\ \A i \in DOMAIN lots : lots'[i] = lots[i]
           /\ \A e \in new :
                 /\ e.id \notin DOMAIN lots
                 /\ lots'[e.id] = NewLot(e.id, e.customer, e.points, x)
<1>1. serial \in Nat /\ DOMAIN lots \subseteq 1..serial
  BY DEF Core, TypeOK, Numbered
<1>2. \A e \in new : e.id \notin DOMAIN lots
  BY <1>1 DEF Credits
<1>3. ASSUME NEW e \in new
      PROVE  lots'[e.id] = NewLot(e.id, e.customer, e.points, x)
  <2>1. (CHOOSE y \in new : y.id = e.id) = e
    BY DEF Credits
  <2> QED  BY <1>2, <2>1 DEF Credits, Credit
<1> QED  BY <1>2, <1>3 DEF Credits, Credit

LEMMA ScanIs ==
    ASSUME Core, ExpiryScan
    PROVE  /\ DOMAIN lots' = DOMAIN lots
           /\ \A i \in DOMAIN lots :
                 /\ lots'[i].remaining = IF i \in Matured THEN 0 ELSE lots[i].remaining
                 /\ lots'[i].customer = lots[i].customer
                 /\ lots'[i].earnedAt = lots[i].earnedAt
                 /\ lots'[i].place = lots[i].place
BY DEF ExpiryScan, Core, TypeOK, Lot

LEMMA StepPlaces ==
    ASSUME Core, Placed, Next
    PROVE  Placed'
<1>0. /\ serial \in Nat
      /\ \A i \in DOMAIN lots : /\ lots[i].remaining \in Nat
                                /\ lots[i].place \in Nat
                                /\ lots[i].place <= serial
  BY DEF Core, TypeOK, Lot, Placed
<1>1. CASE UNCHANGED <<ledger, lots, serial>>
  BY <1>1 DEF Placed
<1>2. ASSUME NEW new, NEW x, Credits(new, x) PROVE Placed'
  <2>1. \A e \in new : /\ e.id \in (serial + 1)..serial'
                       /\ lots'[e.id].place = e.id
                       /\ lots'[e.id].earnedAt = serial
    <3> SUFFICES ASSUME NEW e \in new
                 PROVE  /\ e.id \in (serial + 1)..serial'
                        /\ lots'[e.id].place = e.id
                        /\ lots'[e.id].earnedAt = serial
      OBVIOUS
    <3>1. lots'[e.id] = NewLot(e.id, e.customer, e.points, x)
      BY <1>2, CreditIs
    <3> QED  BY <1>2, <3>1 DEF Credits, NewLot
  <2>2. serial' \in Nat /\ serial <= serial'
    BY <1>2 DEF Credits
  <2>3. /\ DOMAIN lots' = DOMAIN lots \cup {e.id : e \in new}
        /\ \A i \in DOMAIN lots : lots'[i] = lots[i]
    BY <1>2, CreditIs
  <2>4. \A i \in DOMAIN lots' \ DOMAIN lots :
            i \in (serial + 1)..serial' /\ lots'[i].place = i
    BY <2>1, <2>3
  <2>5. \A i \in DOMAIN lots' : lots'[i].place <= serial'
    BY <1>0, <2>2, <2>3, <2>4
  <2>6. ASSUME NEW i \in DOMAIN lots', NEW j \in DOMAIN lots', i # j,
               lots'[i].customer = lots'[j].customer,
               lots'[i].remaining > 0, lots'[j].remaining > 0,
               lots'[i].earnedAt = lots'[j].earnedAt
        PROVE  lots'[i].place # lots'[j].place
    <3>1. CASE i \in DOMAIN lots /\ j \in DOMAIN lots
      BY <2>3, <2>6, <3>1 DEF Placed
    <3>2. CASE i \notin DOMAIN lots /\ j \notin DOMAIN lots
      BY <2>4, <2>6, <3>2
    <3>3. CASE i \in DOMAIN lots /\ j \notin DOMAIN lots
      BY <1>0, <2>3, <2>4, <3>3
    <3>4. CASE i \notin DOMAIN lots /\ j \in DOMAIN lots
      BY <1>0, <2>3, <2>4, <3>4
    <3> QED  BY <3>1, <3>2, <3>3, <3>4
  <2> QED  BY <2>5, <2>6 DEF Placed
<1>3. ASSUME NEW c, NEW n, NEW e, Draws(c, n, e) PROVE Placed'
  <2>1. n \in Nat /\ ConsumeLotsFifo(c, n) /\ serial' = serial + 1
    BY <1>3 DEF Draws
  <2>2. /\ DOMAIN lots' = DOMAIN lots
        /\ \A i \in DOMAIN lots :
              /\ lots'[i].remaining = lots[i].remaining - FifoTake(c, n, i)
              /\ lots'[i].customer = lots[i].customer
              /\ lots'[i].earnedAt = lots[i].earnedAt
              /\ \/ lots'[i].place = lots[i].place
                 \/ lots'[i].place = serial + 1 /\ FifoTake(c, n, i) # 0
    BY <2>1, DrawIs
  <2>3. \A i \in DOMAIN lots : FifoTake(c, n, i) \in 0..lots[i].remaining
    BY <2>1, FifoTakeIs
  <2>4. \A i \in DOMAIN lots' : lots'[i].place <= serial'
    BY <1>0, <2>1, <2>2
  <2>5. ASSUME NEW i \in DOMAIN lots, NEW j \in DOMAIN lots, i # j,
               lots[i].customer = lots[j].customer,
               lots'[i].remaining > 0, lots'[j].remaining > 0,
               lots[i].earnedAt = lots[j].earnedAt,
               lots'[i].place = lots'[j].place
        PROVE  FALSE
    <3>1. lots[i].remaining > 0 /\ lots[j].remaining > 0
      BY <1>0, <2>2, <2>3, <2>5
    <3>2. lots[i].place # lots[j].place
      BY <2>5, <3>1 DEF Placed
    <3>3. FifoTake(c, n, i) > 0 /\ FifoTake(c, n, j) > 0
      BY <1>0, <2>2, <2>3, <2>5, <3>2
    <3>4. i \in Consumable(c) /\ j \in Consumable(c)
      BY <2>1, <3>3, FifoTakeIs
    <3>5. Before(i, j) \/ Before(j, i)
      BY <1>0, <2>5, <3>2 DEF Before
    <3>6. \/ FifoTake(c, n, i) = lots[i].remaining
          \/ FifoTake(c, n, j) = lots[j].remaining
      BY <2>1, <3>3, <3>4, <3>5, EarlierIsDrained
    <3> QED  BY <1>0, <2>2, <2>5, <3>6
  <2> QED  BY <2>2, <2>4, <2>5 DEF Placed
<1>4. ASSUME NEW e, Withdraws(e) PROVE Placed'
  BY <1>0, <1>4 DEF Placed, Withdraws
<1>5. ASSUME ExpiryScan PROVE Placed'
  <2>1. serial' = serial + serial
    BY <1>5 DEF ExpiryScan, TakeIds
  <2> QED  BY <1>0, <1>5, <2>1, ScanIs DEF Placed
<1> QED  BY <1>1, <1>2, <1>3, <1>4, <1>5, StepShape

LEMMA BackedKnown ==
    ASSUME Core, NEW c
    PROVE  Backed(c) \in SUBSET Entry /\ IsFiniteSet(Backed(c)) /\ Backed(c) \subseteq ledger
<1>1. Backed(c) \subseteq ledger
  BY DEF Backed, EntriesOf
<1> QED  BY <1>1, TablesFinite, FS_Subset DEF Core, TypeOK

(* What is left in a member's lots grows by the points she is credited.    *)
LEMMA CreditFillsLots ==
    ASSUME Core, NEW new, NEW x, Credits(new, x), NEW c
    PROVE  LET added == {e \in new : e.customer = c}
           IN  /\ SumLeft(lots, LotsOf(c)) \in Int /\ SumPoints(added) \in Nat
               /\ SumLeft(lots', LotsOf(c)') = SumLeft(lots, LotsOf(c)) + SumPoints(added)
<1> DEFINE N == {e \in new : e.customer = c}
           H == [e \in N |-> e.id]
           ids == {H[e] : e \in N}
           L == LotsOf(c)
           R == Left(lots')
<1>1. /\ IsFiniteSet(new) /\ new \cap ledger = {} /\ ledger' = ledger \cup new
      /\ new \in SUBSET Entry /\ \A e \in new : e.points > 0 /\ e.points \in Int
      /\ \A e, f \in new : e.id = f.id => e = f
  BY NewAreFinite DEF Credits, Entry
<1>2. /\ DOMAIN lots' = DOMAIN lots \cup {e.id : e \in new}
      /\ \A i \in DOMAIN lots : lots'[i] = lots[i]
      /\ \A e \in new : /\ e.id \notin DOMAIN lots
                        /\ lots'[e.id] = NewLot(e.id, e.customer, e.points, x)
  BY CreditIs
<1>3. \A e \in new : /\ lots'[e.id].customer = e.customer
                     /\ lots'[e.id].remaining = e.points
  <2> SUFFICES ASSUME NEW e \in new
               PROVE  /\ lots'[e.id].customer = e.customer
                      /\ lots'[e.id].remaining = e.points
    OBVIOUS
  <2>1. lots'[e.id] = NewLot(e.id, e.customer, e.points, x)
    BY <1>2
  <2> QED  BY <2>1 DEF NewLot
<1>4. LotsOf(c)' = L \cup ids
  <2>1. \A i : i \in ids <=> \E e \in N : i = e.id
    OBVIOUS
  <2>2. ASSUME NEW i
        PROVE  i \in LotsOf(c)' <=> i \in L \/ \E e \in N : i = e.id
    <3>1. i \in LotsOf(c)' <=> i \in DOMAIN lots' /\ lots'[i].customer = c
      BY DEF LotsOf
    <3>2. i \in L <=> i \in DOMAIN lots /\ lots[i].customer = c
      BY DEF LotsOf
    <3>3. \A e \in new : lots'[e.id].customer = c <=> e \in N
      BY <1>3
    <3>4. i \in DOMAIN lots' <=> i \in DOMAIN lots \/ \E e \in new : i = e.id
      BY <1>2
    <3>5. i \in DOMAIN lots => lots'[i] = lots[i]
      BY <1>2
    <3>6. \A e \in N : e \in new
      OBVIOUS
    <3> HIDE DEF L, N
    <3> QED  BY <1>2, <3>1, <3>2, <3>3, <3>4, <3>5, <3>6
  <2> HIDE DEF L, N, ids
  <2> QED  BY <2>1, <2>2
<1>6. N \in SUBSET Entry /\ IsFiniteSet(N) /\ \A e \in N : e.points > 0
  BY <1>1, FS_Subset
<1>7. /\ L \in SUBSET DOMAIN lots /\ IsFiniteSet(L) /\ L \cap ids = {}
      /\ L \cup ids \in SUBSET DOMAIN lots'
      /\ \A i \in L : R[i] = Left(lots)[i] /\ R[i] \in Int
      /\ \A e \in N : R[H[e]] = PointsOf[e] /\ R[H[e]] \in Int
  <2>1. L \in SUBSET DOMAIN lots /\ IsFiniteSet(L)
    BY LotsKnown
  <2>2. L \cap ids = {} /\ L \cup ids \in SUBSET DOMAIN lots'
    BY <1>2, <2>1
  <2>3. \A i \in L : R[i] = Left(lots)[i] /\ R[i] \in Int
    BY <1>2, <2>1, LotsKnown DEF Left
  <2>4. ASSUME NEW e \in N
        PROVE  R[H[e]] = PointsOf[e] /\ R[H[e]] \in Int
    <3>1. e.id \in DOMAIN lots' /\ H[e] = e.id
      BY <1>2
    <3>2. PointsOf[e] = e.points
      BY <1>1 DEF PointsOf
    <3> QED  BY <1>1, <1>3, <3>1, <3>2 DEF Left
  <2> QED  BY <2>1, <2>2, <2>3, <2>4
<1>8. IsFiniteSet(ids) /\ Total(R, ids) = Total(PointsOf, N)
  <2>1. \A e, f \in N : H[e] = H[f] => e = f
    BY <1>1
  <2>2. \A e \in N : PointsOf[e] = R[H[e]] /\ R[H[e]] \in Int
    BY <1>7
  <2>3. IsFiniteSet(N)
    BY <1>6
  <2> HIDE DEF N, H, R
  <2> QED  BY <2>1, <2>2, <2>3, TotalRenamed
<1>9. \A i \in ids : R[i] \in Int
  BY <1>7
<1> HIDE DEF N, H, ids, L, R
<1>10. Total(R, L \cup ids) = Total(R, L) + Total(R, ids)
  <2>1. \A i \in L \cup ids : R[i] \in Int
    BY <1>7, <1>9
  <2> QED  BY <1>7, <1>8, <2>1, TotalOfUnion
<1>11. Total(R, L) = Total(Left(lots), L)
  BY <1>7, TotalAgrees
<1>12. Total(PointsOf, N) = SumPoints(N) /\ SumPoints(N) \in Nat
  <2>1. {} \in SUBSET Entry /\ IsFiniteSet({}) /\ N \cap {} = {}
    BY FS_EmptySet
  <2> QED  BY <1>6, <2>1, SumPointsIs, SumPointsOf, SumPointsOfCredits
<1>13. SumLeft(lots, L) = Total(Left(lots), L) /\ SumLeft(lots, L) \in Int
  <2>1. \A i \in L : Left(lots)[i] \in Int
    BY <1>7
  <2> QED  BY <1>7, <2>1, SumLeftIs, TotalType
<1>14. SumLeft(lots', L \cup ids) = Total(R, L \cup ids)
  BY <1>7, <1>8, FS_Union, SumLeftIs DEF R
<1> QED  BY <1>4, <1>8, <1>10, <1>11, <1>12, <1>13, <1>14 DEF L, N

LEMMA CreditKeepsBacked ==
    ASSUME Core, NEW new, NEW x, Credits(new, x), NEW c,
           SumLeft(lots, LotsOf(c)) = SumPoints(Backed(c))
    PROVE  SumLeft(lots', LotsOf(c)') = SumPoints(Backed(c)')
<1> DEFINE N == {e \in new : e.customer = c}
           B == Backed(c)
<1>1. /\ IsFiniteSet(new) /\ new \cap ledger = {} /\ ledger' = ledger \cup new
      /\ new \in SUBSET Entry /\ \A e \in new : e.points > 0 /\ e.points \in Int
  BY NewAreFinite DEF Credits, Entry
<1>2. Backed(c)' = B \cup N
  <2>1. \A e \in new : ~(e.points < 0)
    BY <1>1
  <2> QED  BY <1>1, <2>1 DEF Backed, EntriesOf
<1>3. /\ N \in SUBSET Entry /\ IsFiniteSet(N) /\ B \in SUBSET Entry /\ IsFiniteSet(B)
      /\ B \cap N = {}
  BY <1>1, BackedKnown, FS_Subset
<1>4. SumLeft(lots', LotsOf(c)') = SumLeft(lots, LotsOf(c)) + SumPoints(N)
  BY CreditFillsLots
<1> HIDE DEF N, B
<1>5. SumPoints(B \cup N) = SumPoints(B) + SumPoints(N)
  BY <1>3, SumPointsOf
<1> QED  BY <1>2, <1>4, <1>5 DEF B

(* A debit takes what it asks for from the lots of one member.             *)
LEMMA DrawTakesFromLots ==
    ASSUME Core, Placed, NEW c, NEW n, NEW e, Draws(c, n, e), NEW d
    PROVE  /\ SumLeft(lots, LotsOf(d)) \in Int
           /\ SumLeft(lots', LotsOf(d)') =
                SumLeft(lots, LotsOf(d)) - (IF c = d THEN n ELSE 0)
<1> DEFINE T == [i \in DOMAIN lots |-> FifoTake(c, n, i)]
           L == LotsOf(d)
<1>1. n \in Nat /\ n <= Spendable(c) /\ ConsumeLotsFifo(c, n)
  BY DEF Draws
<1>2. /\ DOMAIN lots' = DOMAIN lots
      /\ \A i \in DOMAIN lots :
            /\ lots'[i].remaining = lots[i].remaining - FifoTake(c, n, i)
            /\ lots'[i].customer = lots[i].customer
  BY <1>1, DrawIs
<1>3. LotsOf(d)' = L
  BY <1>2 DEF LotsOf
<1>4. /\ L \in SUBSET DOMAIN lots /\ IsFiniteSet(L)
      /\ \A i \in L : /\ Left(lots)[i] \in Int
                      /\ T[i] \in Int
                      /\ Left(lots')[i] = Left(lots)[i] - T[i]
  <2>1. L \in SUBSET DOMAIN lots /\ IsFiniteSet(L)
    BY LotsKnown
  <2>2. \A i \in DOMAIN lots : /\ Left(lots)[i] = lots[i].remaining
                               /\ lots[i].remaining \in Nat
                               /\ FifoTake(c, n, i) \in 0..lots[i].remaining
    BY <1>1, LotsKnown, FifoTakeIs
  <2> QED  BY <1>2, <2>1, <2>2 DEF Left
<1>5. Total(T, L) = IF c = d THEN n ELSE 0
  <2>1. CASE c = d
    <3>1. \A i \in DOMAIN lots : T[i] = FifoTake(c, n, i)
      OBVIOUS
    <3> HIDE DEF T
    <3> QED  BY <1>1, <2>1, <3>1, DrawsWhatIsAsked
  <2>2. CASE c # d
    <3>1. \A i \in L : i \in DOMAIN lots /\ i \notin Consumable(c)
      BY <2>2 DEF Consumable, LotsOf
    <3>2. \A i \in L : T[i] = 0
      BY <1>1, <3>1, FifoTakeIs
    <3> HIDE DEF T, L
    <3> QED  BY <1>4, <2>2, <3>2, TotalOfZeros
  <2> QED  BY <2>1, <2>2
<1> HIDE DEF T
<1>6. Total(Left(lots'), L) = Total(Left(lots), L) - Total(T, L)
  BY <1>4, TotalOfDifference
<1>7. /\ SumLeft(lots, L) = Total(Left(lots), L)
      /\ SumLeft(lots', L) = Total(Left(lots'), L)
      /\ SumLeft(lots, L) \in Int
  BY <1>2, <1>4, SumLeftIs, TotalType
<1> QED  BY <1>3, <1>5, <1>6, <1>7

LEMMA DrawKeepsBacked ==
    ASSUME Core, Placed, NEW c, NEW n, NEW e, Draws(c, n, e), ~AllowNegative, NEW d,
           SumLeft(lots, LotsOf(d)) = SumPoints(Backed(d))
    PROVE  SumLeft(lots', LotsOf(d)') = SumPoints(Backed(d)')
<1> DEFINE B == Backed(d)
           taken == IF c = d THEN n ELSE 0
<1>1. /\ e \in Entry /\ e.points = -n /\ e.customer = c /\ e.type # "adjust"
      /\ ledger' = ledger \cup {e} /\ n \in Nat
  BY DEF Draws
<1>2. B \in SUBSET Entry /\ IsFiniteSet(B) /\ B \subseteq ledger
  BY BackedKnown
<1>3. SumPoints(Backed(d)') = SumPoints(B) - taken
  <2>1. CASE c = d
    <3>1. Backed(d)' = B \cup {e}
      BY <1>1, <2>1 DEF Backed, EntriesOf
    <3>2. /\ {e} \in SUBSET Entry /\ IsFiniteSet({e})
          /\ B \cap {e} = {}
      <4>1. IsFiniteSet({e}) /\ {e} \cap ledger = {}
        BY OneIsFresh DEF Draws
      <4> QED  BY <1>1, <1>2, <4>1
    <3> HIDE DEF B
    <3>3. SumPoints(B \cup {e}) = SumPoints(B) + SumPoints({e}) /\ SumPoints(B) \in Int
      BY <1>2, <3>2, SumPointsOf
    <3>4. SumPoints({e}) = -n
      BY <1>1, SumPointsOfOne
    <3> QED  BY <1>1, <2>1, <3>1, <3>3, <3>4
  <2>2. CASE c # d
    <3>1. Backed(d)' = B
      BY <1>1, <2>2 DEF Backed, EntriesOf
    <3>2. SumPoints(B) \in Int
      <4>1. {} \in SUBSET Entry /\ IsFiniteSet({}) /\ B \cap {} = {}
        BY FS_EmptySet
      <4> HIDE DEF B
      <4> QED  BY <1>2, <4>1, SumPointsOf
    <3> QED  BY <2>2, <3>1, <3>2
  <2> QED  BY <2>1, <2>2
<1>4. SumLeft(lots', LotsOf(d)') = SumLeft(lots, LotsOf(d)) - taken
  BY DrawTakesFromLots
<1> QED  BY <1>3, <1>4

LEMMA WithdrawalKeepsBacked ==
    ASSUME NEW e, Withdraws(e), NEW c
    PROVE  LotsOf(c)' = LotsOf(c) /\ Backed(c)' = Backed(c) /\ lots' = lots
BY DEF Withdraws, LotsOf, Backed, EntriesOf

(* A scan takes from a member's lots what its entries take from her.       *)
LEMMA ScanEmptiesLots ==
    ASSUME Core, ExpiryScan, NEW c
    PROVE  \E new \in SUBSET Entry :
              /\ IsFiniteSet(new) /\ new \cap ledger = {}
              /\ \A e \in new : e.type = "expire" /\ e.points < 0
              /\ EntriesOf(c)' = EntriesOf(c) \cup new
              /\ SumLeft(lots, LotsOf(c)) \in Int /\ SumLeft(lots', LotsOf(c)') \in Nat
              /\ SumLeft(lots', LotsOf(c)') = SumLeft(lots, LotsOf(c)) + SumPoints(new)
<1> DEFINE L == LotsOf(c)
           M == Matured \cap L
           H == [i \in M |-> ExpireEntry(i)]
           N == {H[i] : i \in M}
           G == [i \in L |-> IF i \in M THEN -lots[i].remaining ELSE 0]
<1>1. /\ DOMAIN lots' = DOMAIN lots
      /\ \A i \in DOMAIN lots :
            /\ lots'[i].remaining = IF i \in Matured THEN 0 ELSE lots[i].remaining
            /\ lots'[i].customer = lots[i].customer
  BY ScanIs
<1>2. LotsOf(c)' = L
  BY <1>1 DEF LotsOf
<1>3. /\ L \in SUBSET DOMAIN lots /\ IsFiniteSet(L) /\ IsFiniteSet(M) /\ IsFiniteSet(L \ M)
      /\ \A i \in L : Left(lots)[i] = lots[i].remaining /\ lots[i].remaining \in Nat
  BY LotsKnown, FS_Subset
<1>4. \A i \in L : /\ Left(lots')[i] \in Int
                   /\ G[i] \in Int
                   /\ Left(lots)[i] = Left(lots')[i] - G[i]
  <2>1. \A i \in L : Left(lots')[i] = IF i \in M THEN 0 ELSE lots[i].remaining
    BY <1>1, <1>3 DEF Left
  <2> QED  BY <1>3, <2>1
<1>5. \A i \in M : /\ H[i] \in Entry /\ H[i].points = -lots[i].remaining
                   /\ H[i].id = serial + i /\ H[i].type = "expire"
                   /\ H[i].customer = c
                   /\ i \in 1..serial
  <2>1. \A i \in M : ExpireEntry(i).customer = lots[i].customer
    BY DEF ExpireEntry, NewEntry
  <2>2. \A i \in M : lots[i].customer = c
    BY DEF LotsOf
  <2> QED  BY <2>1, <2>2, ExpireEntryIs DEF Core
<1>6. \A i, j \in M : H[i] = H[j] => i = j
  <2>1. serial \in Nat
    BY DEF Core, TypeOK
  <2> QED  BY <1>5, <2>1
<1>7. EntriesOf(c)' = EntriesOf(c) \cup N
  <2>1. ledger' = ledger \cup {ExpireEntry(i) : i \in Matured}
    BY DEF ExpiryScan
  <2>2. \A i \in Matured : /\ ExpireEntry(i).customer = lots[i].customer
                           /\ ExpireEntry(i).type = "expire"
    BY DEF ExpireEntry, NewEntry
  <2>3. \A i \in Matured : lots[i].customer = c <=> i \in M
    BY DEF Matured, LotsOf
  <2> QED  BY <2>1, <2>2, <2>3 DEF EntriesOf
<1>8. N \in SUBSET Entry /\ N \cap ledger = {}
      /\ \A e \in N : e.type = "expire" /\ e.points < 0
  <2>1. serial \in Nat /\ \A e \in ledger : e.id \in 1..serial
    BY DEF Core, TypeOK, Numbered
  <2>2. \A i \in M : lots[i].remaining \in Nat \ {0}
    BY <1>3 DEF Matured
  <2> QED  BY <1>5, <2>1, <2>2
<1>9. \A i \in M : G[i] = PointsOf[H[i]] /\ PointsOf[H[i]] \in Int
  BY <1>3, <1>5 DEF PointsOf
<1>10. \A i \in L \ M : G[i] = 0
  OBVIOUS
<1>11. M \cap (L \ M) = {} /\ M \cup (L \ M) = L
  OBVIOUS
<1> HIDE DEF L, M, H, G
<1>12. IsFiniteSet(N) /\ Total(PointsOf, N) = Total(G, M)
  <2>1. IsFiniteSet(M)
    BY <1>3
  <2> QED  BY <1>6, <1>9, <2>1, TotalRenamed
<1> HIDE DEF N
<1>13. Total(G, L) = Total(G, M)
  <2> DEFINE O == L \ M
  <2>1. IsFiniteSet(O) /\ M \cap O = {} /\ M \cup O = L /\ (\A i \in M \cup O : G[i] \in Int)
        /\ \A i \in O : G[i] = 0
    BY <1>3, <1>4, <1>10, <1>11
  <2> HIDE DEF O
  <2>2. Total(G, M \cup O) = Total(G, M) + Total(G, O)
    BY <1>3, <2>1, TotalOfUnion
  <2>3. Total(G, O) = 0
    BY <2>1, TotalOfZeros
  <2>4. Total(G, M) \in Int
    BY <1>3, <2>1, TotalType
  <2>5. Total(G, L) = Total(G, M) + Total(G, O)
    BY <2>1, <2>2, Zenon
  <2> QED  BY <2>3, <2>4, <2>5
<1>14. Total(Left(lots), L) = Total(Left(lots'), L) - Total(G, L)
  <2>1. IsFiniteSet(L)
    BY <1>3
  <2> QED  BY <1>4, <2>1, TotalOfDifference
<1>15. Total(Left(lots'), L) \in Nat /\ Total(Left(lots), L) \in Int /\ Total(G, L) \in Int
  <2>1. \A i \in L : i \in DOMAIN lots' /\ lots'[i].remaining >= 0
    BY <1>1, <1>3
  <2>2. \A i \in L : Left(lots')[i] >= 0 /\ Left(lots)[i] \in Int
    BY <1>3, <2>1 DEF Left
  <2> QED  BY <1>3, <1>4, <2>2, TotalType
<1>16. /\ SumLeft(lots, L) = Total(Left(lots), L)
       /\ SumLeft(lots', L) = Total(Left(lots'), L)
  BY <1>1, <1>3, SumLeftIs
<1>17. SumPoints(N) = Total(PointsOf, N)
  BY <1>8, <1>12, SumPointsIs
<1>18. SumLeft(lots', LotsOf(c)') = SumLeft(lots, L) + SumPoints(N)
  BY <1>2, <1>12, <1>13, <1>14, <1>15, <1>16, <1>17
<1>19. SumLeft(lots, L) \in Int /\ SumLeft(lots', LotsOf(c)') \in Nat
  BY <1>2, <1>15, <1>16
<1> QED  BY <1>7, <1>8, <1>12, <1>18, <1>19 DEF L

LEMMA ScanKeepsBacked ==
    ASSUME Core, ExpiryScan, NEW c,
           SumLeft(lots, LotsOf(c)) = SumPoints(Backed(c))
    PROVE  SumLeft(lots', LotsOf(c)') = SumPoints(Backed(c)')
<1> DEFINE B == Backed(c)
<1>1. PICK new \in SUBSET Entry :
         /\ IsFiniteSet(new) /\ new \cap ledger = {}
         /\ \A e \in new : e.type = "expire" /\ e.points < 0
         /\ EntriesOf(c)' = EntriesOf(c) \cup new
         /\ SumLeft(lots', LotsOf(c)') = SumLeft(lots, LotsOf(c)) + SumPoints(new)
  BY ScanEmptiesLots
<1>2. Backed(c)' = B \cup new
  BY <1>1 DEF Backed
<1>3. B \in SUBSET Entry /\ IsFiniteSet(B) /\ B \cap new = {}
  BY <1>1, BackedKnown
<1> HIDE DEF B
<1>4. SumPoints(B \cup new) = SumPoints(B) + SumPoints(new)
  BY <1>1, <1>3, SumPointsOf
<1> QED  BY <1>1, <1>2, <1>4 DEF B

LEMMA StepBacks ==
    ASSUME Core, LotsBacked, Next
    PROVE  LotsBacked'
<1>1. Placed'
  BY StepPlaces DEF LotsBacked
<1>2. ASSUME ~AllowNegative, NEW c \in Customer
      PROVE  SumLeft(lots', LotsOf(c)') = SumPoints(Backed(c)')
  <2>0. SumLeft(lots, LotsOf(c)) = SumPoints(Backed(c)) /\ Placed
    BY <1>2 DEF LotsBacked
  <2>1. CASE UNCHANGED <<ledger, lots, serial>>
    <3>1. LotsOf(c)' = LotsOf(c) /\ Backed(c)' = Backed(c) /\ lots' = lots
      BY <2>1 DEF LotsOf, Backed, EntriesOf
    <3> QED  BY <2>0, <3>1
  <2>2. CASE \E new, x : Credits(new, x)
    BY <2>0, <2>2, CreditKeepsBacked
  <2>3. CASE \E d \in Customer : \E n, e : Draws(d, n, e)
    BY <1>2, <2>0, <2>3, DrawKeepsBacked
  <2>4. CASE \E e : Withdraws(e)
    BY <2>0, <2>4, WithdrawalKeepsBacked
  <2>5. CASE ExpiryScan
    BY <2>0, <2>5, ScanKeepsBacked
  <2> QED  BY <2>1, <2>2, <2>3, <2>4, <2>5, StepShape
<1> QED  BY <1>1, <1>2 DEF LotsBacked

(* Redemption, clawback, reversal, migration and expiry, however they      *)
(* interleave, never let a customer's lots drift from her balance,         *)
(* operator debits left out (negative-balance policy off).                 *)
THEOREM LotsMatchBalance == Spec => []LotsBackBalance
<1>1. Init => LotsBacked
  <2> SUFFICES ASSUME Init PROVE LotsBacked
    OBVIOUS
  <2>1. ledger = {} /\ DOMAIN lots = {}
    BY DEF Init
  <2>2. Placed
    BY <2>1 DEF Placed
  <2>3. \A c : LotsOf(c) = {} /\ Backed(c) = {}
    BY <2>1 DEF LotsOf, Backed, EntriesOf
  <2>4. SumLeft(lots, {}) = 0 /\ SumPoints({}) = 0
    <3>1. {} \in SUBSET Entry /\ IsFiniteSet({}) /\ {} \in SUBSET DOMAIN lots
      BY FS_EmptySet
    <3> QED  BY <3>1, TotalOfNone, SumLeftIs, SumPointsIs
  <2> QED  BY <2>2, <2>3, <2>4 DEF LotsBacked
<1>2. Core /\ LotsBacked /\ [Next]_vars => LotsBacked'
  <2> SUFFICES ASSUME Core, LotsBacked, [Next]_vars PROVE LotsBacked'
    OBVIOUS
  <2>1. CASE UNCHANGED vars
    <3>1. /\ lots' = lots /\ Placed' = Placed
          /\ \A c : LotsOf(c)' = LotsOf(c) /\ Backed(c)' = Backed(c)
      BY <2>1 DEF vars, Placed, LotsOf, Backed, EntriesOf
    <3> QED  BY <3>1 DEF LotsBacked
  <2> QED  BY <2>1, StepBacks
<1>3. LotsBacked => LotsBackBalance
  BY SumRemainingIs DEF LotsBacked, LotsBackBalance, Backed
<1> QED  BY <1>1, <1>2, <1>3, CoreHolds, PTL DEF Spec

(* Entries and lots agree: each credit has its own lot, and the lots of a  *)
(* member hold just what the entries say.                                  *)
THEOREM PointsAreBacked == Spec => []PointsBacked
BY CreditsAreBacked, LotsMatchBalance, PTL DEF PointsBacked

-----------------------------------------------------------------------------
(* The promise of Account.                                                 *)

LEMMA PursesAre == Purses = [c \in Customer |-> SumLeft(lots, LotsOf(c))]
BY SumRemainingIs DEF Purses

LEMMA NextPursesAre == (Purses = [c \in Customer |-> SumLeft(lots, LotsOf(c))])'
BY PursesAre, PTL

(* What is added to a part of the ledger is added to its sum.              *)
LEMMA SumGrows ==
    ASSUME Core, NEW new \in SUBSET Entry, IsFiniteSet(new), new \cap ledger = {},
           NEW A \in SUBSET ledger, NEW B \in SUBSET new
    PROVE  /\ SumPoints(A) \in Int /\ SumPoints(B) \in Int
           /\ SumPoints(A \cup B) = SumPoints(A) + SumPoints(B)
<1>1. /\ A \in SUBSET Entry /\ IsFiniteSet(A)
      /\ B \in SUBSET Entry /\ IsFiniteSet(B)
      /\ A \cap B = {} /\ B \cap A = {}
  BY TablesFinite, FS_Subset DEF Core, TypeOK
<1> QED  BY <1>1, SumPointsOf

LEMMA BalanceGrows ==
    ASSUME Core, NEW new \in SUBSET Entry, ledger' = ledger \cup new,
           IsFiniteSet(new), new \cap ledger = {}, NEW c \in Customer
    PROVE  LET added == {e \in new : e.customer = c}
           IN  /\ Balances[c] \in Int /\ SumPoints(added) \in Int
               /\ Balances'[c] = Balances[c] + SumPoints(added)
<1> DEFINE A == EntriesOf(c)
           B == {e \in new : e.customer = c}
<1>1. A \in SUBSET ledger /\ B \in SUBSET new
  BY DEF EntriesOf
<1>2. EntriesOf(c)' = A \cup B
  BY DEF EntriesOf
<1>3. Balances[c] = SumPoints(A) /\ Balances'[c] = SumPoints(EntriesOf(c)')
  BY DEF Balances, Balance
<1> HIDE DEF A, B
<1>4. /\ SumPoints(A) \in Int /\ SumPoints(B) \in Int
      /\ SumPoints(A \cup B) = SumPoints(A) + SumPoints(B)
  BY <1>1, SumGrows
<1> QED  BY <1>2, <1>3, <1>4 DEF B

(* Entries that name no order change nothing about orders.                 *)
LEMMA OrdersKept ==
    ASSUME NEW new, ledger' = ledger \cup new, \A e \in new : e.order = None
    PROVE  EarnedOn' = EarnedOn /\ ReturnedOn' = ReturnedOn
<1>1. ASSUME NEW o \in Order
      PROVE  OrderEarnings(o)' = OrderEarnings(o) /\ OrderClawbacks(o)' = OrderClawbacks(o)
  BY LedgerConstants DEF OrderEarnings, OrderClawbacks
<1>2. \A o \in Order : /\ SumPoints(OrderEarnings(o)') = SumPoints(OrderEarnings(o))
                       /\ SumPoints(OrderClawbacks(o)') = SumPoints(OrderClawbacks(o))
  BY <1>1
<1> QED  BY <1>2 DEF EarnedOn, ReturnedOn

(* Entries that carry no key change nothing about redemptions.             *)
LEMMA RedemptionsKept ==
    ASSUME NEW new, ledger' = ledger \cup new, \A e \in new : e.key = None,
           UNCHANGED redemptions
    PROVE  PaidFor' = PaidFor /\ Repaid' = Repaid
<1>1. ASSUME NEW c \in Customer, NEW k \in Key
      PROVE  Reversals(c, k)' = Reversals(c, k)
  BY LedgerConstants DEF Reversals, EntriesOf
<1> QED  BY <1>1 DEF PaidFor, Repaid

(* Credits bring balances and lots the same.                               *)
LEMMA CreditAccounts ==
    ASSUME Core, NEW new, NEW x, Credits(new, x), NEW c \in Customer
    PROVE  LET added == {e \in new : e.customer = c}
           IN  /\ Balances[c] \in Int /\ Purses[c] \in Int
               /\ SumPoints(added) \in Nat
               /\ Balances'[c] = Balances[c] + SumPoints(added)
               /\ Purses'[c] = Purses[c] + SumPoints(added)
<1> DEFINE added == {e \in new : e.customer = c}
<1>1. /\ new \in SUBSET Entry /\ IsFiniteSet(new)
      /\ new \cap ledger = {} /\ ledger' = ledger \cup new
  BY NewAreFinite DEF Credits
<1>2. Balances[c] \in Int /\ Balances'[c] = Balances[c] + SumPoints(added)
  BY <1>1, BalanceGrows
<1>3. /\ SumLeft(lots, LotsOf(c)) \in Int /\ SumPoints(added) \in Nat
      /\ SumLeft(lots', LotsOf(c)') = SumLeft(lots, LotsOf(c)) + SumPoints(added)
  BY CreditFillsLots
<1> HIDE DEF added
<1>4. Purses[c] = SumLeft(lots, LotsOf(c)) /\ Purses'[c] = SumLeft(lots', LotsOf(c)')
  BY PursesAre, NextPursesAre
<1> QED  BY <1>2, <1>3, <1>4 DEF added

LEMMA CreditGains ==
    ASSUME Core, NEW new, NEW x, Credits(new, x), NEW c \in Customer
    PROVE  Promise!Gains(c)
<1> DEFINE n == SumPoints({e \in new : e.customer = c})
<1>1. /\ Balances[c] \in Int /\ Purses[c] \in Int /\ n \in Nat
      /\ Balances'[c] = Balances[c] + n /\ Purses'[c] = Purses[c] + n
  BY CreditAccounts
<1> HIDE DEF n
<1> QED  BY <1>1 DEF Promise!Gains, Promise!Alike

(* The points that can be spent are among those that are left.             *)
LEMMA SpendableIsLeft ==
    ASSUME Core, NEW c \in Customer
    PROVE  /\ Spendable(c) \in Nat /\ Purses[c] \in Nat
           /\ Spendable(c) <= Purses[c]
<1> DEFINE R == Left(lots)
<1>1. /\ LotsOf(c) \in SUBSET DOMAIN lots /\ IsFiniteSet(LotsOf(c))
      /\ Consumable(c) \in SUBSET LotsOf(c) /\ IsFiniteSet(Consumable(c))
      /\ \A i \in LotsOf(c) : R[i] \in Nat
  BY LotsKnown
<1>2. /\ Spendable(c) = Total(R, Consumable(c))
      /\ Purses[c] = Total(R, LotsOf(c))
  BY <1>1, PursesAre, SumRemainingIs, SumLeftIs DEF Spendable
<1> HIDE DEF R
<1>3. Total(R, Consumable(c)) <= Total(R, LotsOf(c))
  BY <1>1, TotalOfPart
<1>4. Total(R, LotsOf(c)) \in Nat
  BY <1>1, TotalType
<1> QED  BY <1>2, <1>3, <1>4, SpendableType

LEMMA AccountsAreFunctions ==
    /\ Balances = [c \in Customer |-> Balances[c]]
    /\ Purses = [c \in Customer |-> Purses[c]]
BY DEF Balances, Purses

LEMMA NextAccountsAreFunctions ==
    /\ Balances' = [c \in Customer |-> Balances'[c]]
    /\ Purses' = [c \in Customer |-> Purses'[c]]
BY DEF Balances, Purses

LEMMA OneEntryBalances ==
    ASSUME Core, NEW e \in Entry, e.id = serial + 1, ledger' = ledger \cup {e}
    PROVE  /\ Balances[e.customer] \in Int
           /\ Balances' = [Balances EXCEPT ![e.customer] = @ + e.points]
<1>1. e.customer \in Customer /\ e.points \in Int
  BY DEF Entry
<1>2. IsFiniteSet({e}) /\ {e} \cap ledger = {}
  BY OneIsFresh
<1>3. ASSUME NEW c \in Customer
      PROVE  /\ Balances[c] \in Int
             /\ Balances'[c] = Balances[c] + (IF c = e.customer THEN e.points ELSE 0)
  <2> DEFINE added == {f \in {e} : f.customer = c}
  <2>1. Balances[c] \in Int /\ Balances'[c] = Balances[c] + SumPoints(added)
    BY <1>2, BalanceGrows
  <2>2. CASE c = e.customer
    <3>1. added = {e}
      BY <2>2
    <3> HIDE DEF added
    <3> QED  BY <1>1, <2>1, <2>2, <3>1, SumPointsOfOne
  <2>3. CASE c # e.customer
    <3>1. added = {}
      BY <2>3
    <3>2. SumPoints({}) = 0
      BY FS_EmptySet, TotalOfNone, SumPointsIs
    <3> HIDE DEF added
    <3> QED  BY <2>1, <2>3, <3>1, <3>2
  <2> QED  BY <2>2, <2>3
<1> QED  BY <1>1, <1>3, AccountsAreFunctions, NextAccountsAreFunctions

(* One credit moves the account of one member.                             *)
LEMMA OneCreditMoves ==
    ASSUME Core, NEW e, NEW x, Credits({e}, x), e.id = serial + 1
    PROVE  Promise!Moves(e.customer, e.points)
<1>1. e \in Entry /\ e.customer \in Customer /\ e.points \in Int
      /\ ledger' = ledger \cup {e}
  BY DEF Credits, Credit, Entry
<1>2. /\ Balances[e.customer] \in Int
      /\ Balances' = [Balances EXCEPT ![e.customer] = @ + e.points]
  BY <1>1, OneEntryBalances
<1>3. ASSUME NEW c \in Customer
      PROVE  /\ Purses[c] \in Int
             /\ Purses'[c] = Purses[c] + (IF c = e.customer THEN e.points ELSE 0)
  <2>1. Balances'[c] = Balances[c] + (IF c = e.customer THEN e.points ELSE 0)
    <3>1. Balances[c] \in Int
      BY CreditAccounts
    <3> QED  BY <1>1, <1>2, <3>1, AccountsAreFunctions
  <2> DEFINE n == SumPoints({f \in {e} : f.customer = c})
  <2>2. /\ Balances[c] \in Int /\ Purses[c] \in Int /\ n \in Nat
        /\ Balances'[c] = Balances[c] + n /\ Purses'[c] = Purses[c] + n
    BY CreditAccounts
  <2> HIDE DEF n
  <2> QED  BY <1>1, <2>1, <2>2
<1>4. Purses' = [Purses EXCEPT ![e.customer] = @ + e.points]
  BY <1>1, <1>3, AccountsAreFunctions, NextAccountsAreFunctions
<1> QED  BY <1>2, <1>4 DEF Promise!Moves

(* A debit takes from the purse what it asks for, and from the balance     *)
(* what its entry says.                                                    *)
LEMMA DrawAccounts ==
    ASSUME Core, Placed, NEW c \in Customer, NEW n, NEW e, Draws(c, n, e)
    PROVE  /\ n \in Nat /\ Purses[c] \in Nat /\ n <= Purses[c] /\ Balances[c] \in Int
           /\ Balances' = [Balances EXCEPT ![c] = @ + e.points]
           /\ Purses' = [Purses EXCEPT ![c] = @ - n]
<1>1. /\ e \in Entry /\ e.customer = c /\ e.id = serial + 1
      /\ ledger' = ledger \cup {e} /\ n \in Nat /\ n <= Spendable(c)
  BY DEF Draws
<1>2. Balances[c] \in Int /\ Balances' = [Balances EXCEPT ![c] = @ + e.points]
  BY <1>1, OneEntryBalances
<1>3. Purses[c] \in Nat /\ n <= Purses[c]
  BY <1>1, SpendableIsLeft
<1>4. ASSUME NEW d \in Customer
      PROVE  Purses[d] \in Nat /\ Purses'[d] = Purses[d] - (IF c = d THEN n ELSE 0)
  <2>1. SumLeft(lots', LotsOf(d)') = SumLeft(lots, LotsOf(d)) - (IF c = d THEN n ELSE 0)
    BY DrawTakesFromLots
  <2>2. Purses[d] = SumLeft(lots, LotsOf(d)) /\ Purses'[d] = SumLeft(lots', LotsOf(d)')
    BY PursesAre, NextPursesAre
  <2> QED  BY <2>1, <2>2, SpendableIsLeft
<1>5. Purses' = [Purses EXCEPT ![c] = @ - n]
  BY <1>1, <1>4, AccountsAreFunctions, NextAccountsAreFunctions
<1> QED  BY <1>1, <1>2, <1>3, <1>5

LEMMA ScanLoses ==
    ASSUME Core, ExpiryScan, NEW c \in Customer
    PROVE  Promise!Loses(c)
<1> DEFINE A == EntriesOf(c)
           held == SumLeft(lots, LotsOf(c))
           left == SumLeft(lots', LotsOf(c)')
<1>1. PICK new \in SUBSET Entry :
         /\ IsFiniteSet(new) /\ new \cap ledger = {}
         /\ \A e \in new : e.type = "expire" /\ e.points < 0
         /\ EntriesOf(c)' = A \cup new
         /\ held \in Int /\ left \in Nat
         /\ left = held + SumPoints(new)
  BY ScanEmptiesLots
<1>2. A \in SUBSET ledger
  BY DEF EntriesOf
<1>3. Purses[c] = held /\ Purses'[c] = left
  BY PursesAre, NextPursesAre
<1>4. Balances[c] = SumPoints(A) /\ Balances'[c] = SumPoints(EntriesOf(c)')
  BY DEF Balances, Balance
<1> HIDE DEF A, held, left
<1>5. /\ SumPoints(A) \in Int /\ SumPoints(new) \in Int
      /\ SumPoints(A \cup new) = SumPoints(A) + SumPoints(new)
  <2>1. /\ new \in SUBSET Entry /\ IsFiniteSet(new) /\ new \cap ledger = {}
        /\ new \in SUBSET new
    BY <1>1
  <2> QED  BY <1>2, <2>1, SumGrows
<1>6. SumPoints(new) <= 0
  BY <1>1, SumPointsOfDebits
<1> QED  BY <1>1, <1>3, <1>4, <1>5, <1>6 DEF Promise!Loses, Promise!Alike

-----------------------------------------------------------------------------
(* Every transaction is a step of Account or none at all.                  *)

(* Credits that name neither order nor key.                                *)
LEMMA Receives ==
    ASSUME Core, NEW new, NEW x, Credits(new, x),
           \A e \in new : e.order = None /\ e.key = None,
           UNCHANGED redemptions
    PROVE  Promise!Receive
<1>1. ledger' = ledger \cup new
  BY NewAreFinite
<1>2. \A c \in Customer : Promise!Gains(c)
  BY CreditGains
<1> QED  BY <1>1, <1>2, OrdersKept, RedemptionsKept
         DEF Promise!Receive, Promise!orders, Promise!redemptions

(* A credit of one entry with its lot.                                     *)
LEMMA OneCredit ==
    ASSUME Core, NEW e \in Entry, NEW x \in Nat, e.id = serial + 1, e.points > 0,
           e.order = None, serial' = serial + 1, Credit({e}, x)
    PROVE  Credits({e}, x)
BY DEF Credits, Core, TypeOK

LEMMA SignupReceives ==
    ASSUME Core, NEW c \in Customer, EarnSignup(c)
    PROVE  Promise!Receive
<1> DEFINE e == NewEntry(serial + 1, c, "earn_signup", SIGNUP_POINTS)
<1>1. serial \in Nat /\ now + LotLife \in Nat
  BY LedgerConstants DEF Core, TypeOK
<1>2. e \in Entry /\ e.id = serial + 1 /\ e.points > 0 /\ e.order = None /\ e.key = None
  BY <1>1 DEF NewEntry, Entry, SIGNUP_POINTS, EntryType, EarnType
<1>3. serial' = serial + 1 /\ Credit({e}, now + LotLife) /\ UNCHANGED redemptions
  BY DEF EarnSignup, TakeIds
<1> HIDE DEF e
<1>4. Credits({e}, now + LotLife)
  BY <1>1, <1>2, <1>3, OneCredit
<1> QED  BY <1>2, <1>3, <1>4, Receives

LEMMA ClaimReceives ==
    ASSUME Core, NEW c \in Customer, NEW r \in Customer, ClaimReferral(c, r)
    PROVE  Promise!Receive
<1> DEFINE e == [NewEntry(serial + 1, r, "earn_referral", REFERRAL_SIGNUP_POINTS)
                   EXCEPT !.referred = c]
<1>1. serial \in Nat /\ now + LotLife \in Nat
  BY LedgerConstants DEF Core, TypeOK
<1>2. e \in Entry /\ e.id = serial + 1 /\ e.points > 0 /\ e.order = None /\ e.key = None
  BY <1>1 DEF NewEntry, Entry, REFERRAL_SIGNUP_POINTS, EntryType, EarnType
<1>3. serial' = serial + 1 /\ Credit({e}, now + LotLife) /\ UNCHANGED redemptions
  BY DEF ClaimReferral, TakeIds
<1> HIDE DEF e
<1>4. Credits({e}, now + LotLife)
  BY <1>1, <1>2, <1>3, OneCredit
<1> QED  BY <1>2, <1>3, <1>4, Receives

LEMMA MigrationReceives ==
    ASSUME Core, Migrate
    PROVE  Promise!Receive
<1>1. PICK new \in SUBSET Entry :
         Credits(new, NoExpiry) /\ \A e \in new : e.type = "migration" /\ e.key = None
  BY MigrateEffect DEF Core
<1>2. \A e \in new : e.order = None /\ e.key = None
  BY <1>1 DEF Credits, OrderEarnType
<1>3. UNCHANGED redemptions
  BY DEF Migrate
<1> QED  BY <1>1, <1>2, <1>3, Receives

LEMMA AdjustmentAccounts ==
    ASSUME Core, NEW c \in Customer, NEW p \in Adjustment, Adjust(c, p)
    PROVE  Promise!Receive \/ Promise!Withdraw(c)
<1> DEFINE e == NewEntry(serial + 1, c, "adjust", p)
<1>1. serial \in Nat /\ now + LotLife \in Nat /\ p \in Int \ {0}
  BY LedgerConstants DEF Core, TypeOK
<1>2. /\ e \in Entry /\ e.id = serial + 1 /\ e.points = p /\ e.order = None
      /\ e.key = None /\ e.customer = c
  <2>1. serial + 1 \in Nat /\ "adjust" \in EntryType
    BY <1>1 DEF EntryType
  <2>2. e.order = None
    BY DEF NewEntry
  <2> QED  BY <1>1, <2>1, <2>2, NewEntryType
<1>3. /\ serial' = serial + 1 /\ UNCHANGED redemptions
      /\ IF p > 0 THEN Credit({e}, now + LotLife)
                  ELSE ledger' = ledger \cup {e} /\ UNCHANGED lots
  BY DEF Adjust, TakeIds
<1> HIDE DEF e
<1>4. CASE p > 0
  <2>1. Credits({e}, now + LotLife)
    BY <1>1, <1>2, <1>3, <1>4, OneCredit
  <2> QED  BY <1>2, <1>3, <2>1, Receives
<1>5. CASE ~(p > 0)
  <2>1. ledger' = ledger \cup {e} /\ UNCHANGED lots /\ p < 0
    BY <1>1, <1>3, <1>5
  <2>2. Balances[c] \in Int /\ Balances' = [Balances EXCEPT ![c] = @ + p]
    BY <1>2, <2>1, OneEntryBalances
  <2>3. Purses' = Purses
    <3>1. \A d \in Customer : SumLeft(lots', LotsOf(d)') = SumLeft(lots, LotsOf(d))
      BY <2>1 DEF LotsOf
    <3> QED  BY <3>1, PursesAre, NextPursesAre
  <2>4. UNCHANGED <<EarnedOn, ReturnedOn, PaidFor, Repaid>>
    BY <1>2, <1>3, <2>1, OrdersKept, RedemptionsKept
  <2>5. Balances'[c] = Balances[c] + p /\ Balances' = [Balances EXCEPT ![c] = Balances'[c]]
    BY <2>2, AccountsAreFunctions
  <2>6. Balances'[c] < Balances[c]
    BY <1>1, <2>1, <2>2, <2>5
  <2> QED  BY <2>3, <2>4, <2>5, <2>6
           DEF Promise!Withdraw, Promise!orders, Promise!redemptions
<1> QED  BY <1>4, <1>5

LEMMA ScanLapses ==
    ASSUME Core, ExpiryScan
    PROVE  Promise!Lapse
<1> DEFINE new == {ExpireEntry(i) : i \in Matured}
<1>1. /\ ledger' = ledger \cup new /\ UNCHANGED redemptions
      /\ \A e \in new : e.order = None /\ e.key = None
  BY DEF ExpiryScan, ExpireEntry, NewEntry
<1>2. \A c \in Customer : Promise!Loses(c)
  BY ScanLoses
<1> HIDE DEF new
<1> QED  BY <1>1, <1>2, OrdersKept, RedemptionsKept
         DEF Promise!Lapse, Promise!orders, Promise!redemptions

(* Inductive: an entry that an order has earned is its payer's, and comes  *)
(* with the points of the order itself.                                    *)
Attributed ==
    \A e \in ledger : e.type \in OrderEarnType =>
        /\ e.order \in Order /\ e.customer = OrderOwner[e.order]
        /\ \E f \in ledger :
              f.type = "earn_order" /\ f.order = e.order /\ f.customer = e.customer

LEMMA ReturnGivesBack ==
    ASSUME Core, Placed, Attributed, NEW o \in Order, NEW ev \in Event,
           Cancel(o, ev) \/ \E a \in RefundAmount : Refund(o, a, ev)
    PROVE  Promise!GiveBack(o)
<1> DEFINE c == OrderOwner[o]
<1>1. PICK n, e : Draws(c, n, e) /\ e.order = o /\ e.key = None
  <2>1. PICK d \in Customer : /\ \E f \in OrderEarnings(o) : f.customer = d
                              /\ \E n, e : Draws(d, n, e) /\ e.order = o /\ e.key = None
    BY ReturnDraws
  <2>2. d = c
    BY <2>1 DEF OrderEarnings, Attributed
  <2> QED  BY <2>1, <2>2
<1>2. c \in Customer /\ o # None
  BY LedgerConstants
<1>3. /\ e \in Entry /\ e.points \in Int /\ e.points < 0 /\ e.type = "clawback"
      /\ e.id = serial + 1 /\ ledger' = ledger \cup {e} /\ -e.points <= HeadRoom(o)
      /\ ~AllowNegative => e.points = -n
  BY <1>1, <1>2 DEF Draws, Entry
<1> HIDE DEF c
<1>4. UNCHANGED <<PaidFor, Repaid>>
  <2> DEFINE new == {e}
  <2>1. UNCHANGED redemptions
    BY ReturnDraws
  <2>2. ledger' = ledger \cup new /\ \A f \in new : f.key = None
    BY <1>1, <1>3
  <2> HIDE DEF new
  <2>3. PaidFor' = PaidFor /\ Repaid' = Repaid
    BY <2>1, <2>2, RedemptionsKept
  <2> QED  BY <2>3
<1>5. /\ n \in Nat /\ Purses[c] \in Nat /\ n <= Purses[c] /\ Balances[c] \in Int
      /\ Balances' = [Balances EXCEPT ![c] = @ + e.points]
      /\ Purses' = [Purses EXCEPT ![c] = @ - n]
  BY <1>1, <1>2, DrawAccounts
<1>6. EarnedOn' = EarnedOn
  <2>1. ASSUME NEW q \in Order
        PROVE  OrderEarnings(q)' = OrderEarnings(q)
    BY <1>3 DEF OrderEarnings, OrderEarnType
  <2>2. \A q \in Order : SumPoints(OrderEarnings(q)') = SumPoints(OrderEarnings(q))
    BY <2>1
  <2> QED  BY <2>2 DEF EarnedOn
<1>7. /\ SumPoints(OrderClawbacks(o)) \in Int
      /\ SumPoints(OrderClawbacks(o)') = SumPoints(OrderClawbacks(o)) + e.points
  <2> DEFINE A == OrderClawbacks(o)
  <2>1. OrderClawbacks(o)' = A \cup {e} /\ A \in SUBSET ledger
    BY <1>1, <1>3 DEF OrderClawbacks
  <2>2. /\ {e} \in SUBSET Entry /\ {e} \in SUBSET {e}
        /\ IsFiniteSet({e}) /\ {e} \cap ledger = {}
    BY <1>3, OneIsFresh
  <2> HIDE DEF A
  <2>3. SumPoints(A) \in Int /\ SumPoints(A \cup {e}) = SumPoints(A) + SumPoints({e})
    BY <2>1, <2>2, SumGrows
  <2> QED  BY <1>3, <2>1, <2>3, SumPointsOfOne DEF A
<1>8. ReturnedOn' = [ReturnedOn EXCEPT ![o] = @ - e.points] /\ ReturnedOn[o] \in Int
  <2>1. ASSUME NEW q \in Order, q # o
        PROVE  OrderClawbacks(q)' = OrderClawbacks(q)
    BY <1>1, <1>3, <2>1 DEF OrderClawbacks
  <2>2. \A q \in Order : q # o =>
           SumPoints(OrderClawbacks(q)') = SumPoints(OrderClawbacks(q))
    BY <2>1
  <2>3. /\ ReturnedOn = [q \in Order |-> -SumPoints(OrderClawbacks(q))]
        /\ ReturnedOn' = [q \in Order |-> -SumPoints(OrderClawbacks(q)')]
    BY DEF ReturnedOn
  <2> QED  BY <1>3, <1>7, <2>2, <2>3
<1>9. HeadRoom(o) = EarnedOn[o] - ReturnedOn[o] /\ EarnedOn[o] \in Int
  <2>1. SumPoints(OrderEarnings(o)) \in Int
    <3>1. OrderEarnings(o) \in SUBSET ledger /\ {} \in SUBSET {}
      BY DEF OrderEarnings
    <3>2. {} \in SUBSET Entry /\ IsFiniteSet({}) /\ {} \cap ledger = {}
      BY FS_EmptySet
    <3> QED  BY <3>1, <3>2, SumGrows
  <2> QED  BY <1>7, <2>1 DEF HeadRoom, EarnedOn, ReturnedOn
<1> DEFINE more == ReturnedOn'[o] - ReturnedOn[o]
<1>10. DOMAIN ReturnedOn = Order /\ DOMAIN Balances = Customer /\ DOMAIN Purses = Customer
  BY DEF ReturnedOn, Balances, Purses
<1>11. more = -e.points
  BY <1>3, <1>8, <1>10
<1> HIDE DEF more
<1>12. more \in 1..(EarnedOn[o] - ReturnedOn[o])
  BY <1>3, <1>8, <1>9, <1>11
<1>13. /\ ReturnedOn' = [ReturnedOn EXCEPT ![o] = @ + more]
       /\ Balances' = [Balances EXCEPT ![c] = @ - more]
  <2>1. /\ ReturnedOn[o] - e.points = ReturnedOn[o] + more
        /\ Balances[c] + e.points = Balances[c] - more
    BY <1>3, <1>5, <1>8, <1>11
  <2> QED  BY <1>5, <1>8, <2>1, Zenon
<1>14. IF AllowNegative
       THEN /\ Purses' = [Purses EXCEPT ![c] = Purses'[c]]
            /\ Purses'[c] \in 0..Purses[c]
       ELSE Purses[c] >= more /\ Promise!Moves(c, -more)
  <2>1. CASE AllowNegative
    <3>1. c \in DOMAIN Purses
      BY <1>2, <1>10 DEF c
    <3>2. Purses'[c] = Purses[c] - n
      BY <1>5, <3>1
    <3>3. Purses'[c] \in 0..Purses[c]
      BY <1>5, <3>2
    <3> QED  BY <1>5, <2>1, <3>2, <3>3
  <2>2. CASE ~AllowNegative
    <3>1. more = n
      BY <1>3, <1>5, <1>11, <2>2
    <3>2. /\ Balances' = [Balances EXCEPT ![c] = @ + (-more)]
          /\ Purses' = [Purses EXCEPT ![c] = @ + (-more)]
      <4>1. /\ Balances[c] - more = Balances[c] + (-more)
            /\ Purses[c] - n = Purses[c] + (-more)
        BY <1>5, <3>1
      <4> QED  BY <1>5, <1>13, <4>1, Zenon
    <3> QED  BY <1>5, <2>2, <3>1, <3>2 DEF Promise!Moves
  <2> QED  BY <2>1, <2>2
<1> QED  BY <1>4, <1>6, <1>12, <1>13, <1>14
         DEF Promise!GiveBack, Promise!redemptions, more, c

LEMMA TablesStutter ==
    ASSUME UNCHANGED <<ledger, lots>>, PaidFor' = PaidFor
    PROVE  UNCHANGED <<Balances, Purses, EarnedOn, ReturnedOn, PaidFor, Repaid>>
<1>1. \A c \in Customer : EntriesOf(c)' = EntriesOf(c) /\ LotsOf(c)' = LotsOf(c)
  BY DEF EntriesOf, LotsOf
<1>2. \A o \in Order : /\ OrderEarnings(o)' = OrderEarnings(o)
                       /\ OrderClawbacks(o)' = OrderClawbacks(o)
  BY DEF OrderEarnings, OrderClawbacks
<1>3. \A c \in Customer, k \in Key : Reversals(c, k)' = Reversals(c, k)
  BY DEF Reversals, EntriesOf
<1>4. Purses' = Purses
  <2>1. \A c \in Customer : SumLeft(lots', LotsOf(c)') = SumLeft(lots, LotsOf(c))
    BY <1>1
  <2> QED  BY <2>1, PursesAre, NextPursesAre
<1>5. Balances' = Balances
  <2>1. \A c \in Customer : SumPoints(EntriesOf(c)') = SumPoints(EntriesOf(c))
    BY <1>1
  <2> QED  BY <2>1 DEF Balances, Balance
<1>6. EarnedOn' = EarnedOn /\ ReturnedOn' = ReturnedOn
  <2>1. \A o \in Order : /\ SumPoints(OrderEarnings(o)') = SumPoints(OrderEarnings(o))
                         /\ SumPoints(OrderClawbacks(o)') = SumPoints(OrderClawbacks(o))
    BY <1>2
  <2> QED  BY <2>1 DEF EarnedOn, ReturnedOn
<1>7. Repaid' = Repaid
  BY <1>3 DEF Repaid
<1> QED  BY <1>4, <1>5, <1>6, <1>7

LEMMA RedeemPays ==
    ASSUME Core, Placed, NEW c \in Customer, NEW k \in Key, NEW p \in RewardCost,
           Redeem(c, k, p)
    PROVE  Promise!Redeem(c, k)
<1>1. PICK e : Draws(c, p, e) /\ e.points = -p /\ e.type = "spend" /\ e.order = None
  BY RedeemDraws
<1>2. p \in Nat \ {0}
  BY LedgerConstants
<1>3. ledger' = ledger \cup {e}
  BY <1>1 DEF Draws
<1>4. /\ Purses[c] \in Nat /\ p <= Purses[c] /\ Balances[c] \in Int
      /\ Balances' = [Balances EXCEPT ![c] = @ + (-p)]
      /\ Purses' = [Purses EXCEPT ![c] = @ - p]
  <2>1. Balances' = [Balances EXCEPT ![c] = @ + e.points]
    BY <1>1, DrawAccounts
  <2> QED  BY <1>1, <2>1, DrawAccounts
<1>5. Purses' = [Purses EXCEPT ![c] = @ + (-p)]
  <2>1. Purses[c] - p = Purses[c] + (-p)
    BY <1>2, <1>4
  <2> QED  BY <1>4, <2>1, Zenon
<1>6. EarnedOn' = EarnedOn /\ ReturnedOn' = ReturnedOn
  <2> DEFINE new == {e}
  <2>1. ledger' = ledger \cup new /\ \A f \in new : f.order = None
    BY <1>1, <1>3
  <2> HIDE DEF new
  <2> QED  BY <2>1, OrdersKept
<1>7. Repaid' = Repaid
  <2>1. ASSUME NEW d \in Customer, NEW j \in Key
        PROVE  Reversals(d, j)' = Reversals(d, j)
    BY <1>1, <1>3 DEF Reversals, EntriesOf
  <2> QED  BY <2>1 DEF Repaid
<1>8. /\ redemptions \in [Customer -> [Key -> Redemption]]
      /\ redemptions[c][k].status = "absent"
      /\ redemptions' = [redemptions EXCEPT
                           ![c][k] = [status |-> "pending_code", cost |-> p]]
  BY DEF Redeem, Core, TypeOK
<1>9. PaidFor[c][k] = 0 /\ PaidFor' = [PaidFor EXCEPT ![c][k] = p]
  <2>1. PaidFor[c][k] = 0
    BY <1>8 DEF PaidFor
  <2>2. ASSUME NEW d \in Customer, NEW j \in Key
        PROVE  PaidFor'[d][j] = IF d = c /\ j = k THEN p ELSE PaidFor[d][j]
    <3>1. redemptions'[d][j] = IF d = c /\ j = k
                               THEN [status |-> "pending_code", cost |-> p]
                               ELSE redemptions[d][j]
      BY <1>8
    <3> QED  BY <3>1 DEF PaidFor
  <2>3. /\ PaidFor = [d \in Customer |-> [j \in Key |-> PaidFor[d][j]]]
        /\ PaidFor' = [d \in Customer |-> [j \in Key |-> PaidFor'[d][j]]]
    BY DEF PaidFor
  <2> QED  BY <2>1, <2>2, <2>3
<1>10. PaidFor'[c][k] = p
  BY <1>9 DEF PaidFor
<1>11. p \in 1..Purses[c]
  BY <1>2, <1>4
<1>12. Promise!Moves(c, -p)
  BY <1>4, <1>5 DEF Promise!Moves
<1>13. UNCHANGED <<Promise!orders, Repaid>>
  BY <1>6, <1>7 DEF Promise!orders
<1> QED  BY <1>9, <1>10, <1>11, <1>12, <1>13 DEF Promise!Redeem

(* Only the status of a redemption that there is changes.                  *)
LEMMA StatusOnly ==
    ASSUME Core, NEW c \in Customer, NEW k \in Key, NEW s \in {"issued", "failed"},
           redemptions[c][k].status # "absent",
           redemptions' = [redemptions EXCEPT ![c][k].status = s]
    PROVE  PaidFor' = PaidFor
<1>1. ASSUME NEW d \in Customer, NEW j \in Key
      PROVE  /\ redemptions'[d][j].cost = redemptions[d][j].cost
             /\ redemptions'[d][j].status = "absent" <=> redemptions[d][j].status = "absent"
  BY DEF Core, TypeOK, Redemption
<1> QED  BY <1>1 DEF PaidFor

LEMMA MarkStutters ==
    ASSUME Core, NEW c \in Customer, NEW k \in Key, MarkIssued(c, k)
    PROVE  UNCHANGED <<Balances, Purses, EarnedOn, ReturnedOn, PaidFor, Repaid>>
<1>1. UNCHANGED <<ledger, lots>> /\ PaidFor' = PaidFor
  BY StatusOnly DEF MarkIssued
<1> QED  BY <1>1, TablesStutter

LEMMA ReversalRepays ==
    ASSUME Core, NEW c \in Customer, NEW k \in Key, ReverseSpend(c, k)
    PROVE  \/ Promise!Repay(c, k)
           \/ UNCHANGED <<Balances, Purses, EarnedOn, ReturnedOn, PaidFor, Repaid>>
<1> DEFINE cost == redemptions[c][k].cost
           e == [NewEntry(serial + 1, c, "adjust", cost) EXCEPT !.key = k]
<1>1. PaidFor' = PaidFor /\ PaidFor[c][k] = cost /\ cost \in Nat \ {0}
  BY StatusOnly DEF ReverseSpend, PaidFor, Core, RedemptionsCost
<1>2. CASE Reversals(c, k) # {}
  <2>1. UNCHANGED <<ledger, lots>>
    BY <1>2 DEF ReverseSpend
  <2> QED  BY <1>1, <2>1, TablesStutter
<1>3. CASE Reversals(c, k) = {}
  <2>1. serial \in Nat
    BY DEF Core, TypeOK
  <2>2. /\ e \in Entry /\ e.id = serial + 1 /\ e.points = cost /\ e.order = None
        /\ e.customer = c /\ e.key = k /\ e.type = "adjust"
    BY <1>1, <2>1 DEF NewEntry, Entry, EntryType
  <2>3. serial' = serial + 1 /\ Credit({e}, NoExpiry)
    BY <1>3 DEF ReverseSpend, TakeIds
  <2> HIDE DEF e, cost
  <2>4. Credits({e}, NoExpiry) /\ ledger' = ledger \cup {e}
    BY <1>1, <2>2, <2>3, OneCredit DEF NoExpiry, Credit
  <2>5. Promise!Moves(c, cost)
    BY <2>2, <2>4, OneCreditMoves
  <2>6. EarnedOn' = EarnedOn /\ ReturnedOn' = ReturnedOn
    <3> DEFINE new == {e}
    <3>1. ledger' = ledger \cup new /\ \A f \in new : f.order = None
      BY <2>2, <2>4
    <3> HIDE DEF new
    <3> QED  BY <3>1, OrdersKept
  <2>7. ~Repaid[c][k] /\ Repaid' = [Repaid EXCEPT ![c][k] = TRUE]
    <3>1. ASSUME NEW d \in Customer, NEW j \in Key
          PROVE  Reversals(d, j)' = IF d = c /\ j = k THEN {e} ELSE Reversals(d, j)
      BY <1>3, <2>2, <2>4 DEF Reversals, EntriesOf
    <3>2. \A d \in Customer, j \in Key :
             (Reversals(d, j)' # {}) = IF d = c /\ j = k THEN TRUE ELSE Reversals(d, j) # {}
      BY <3>1
    <3>3. ~Repaid[c][k]
      BY <1>3 DEF Repaid
    <3> QED  BY <3>2, <3>3 DEF Repaid
  <2> QED  BY <1>1, <2>5, <2>6, <2>7 DEF Promise!Repay, Promise!orders
<1> QED  BY <1>2, <1>3

(* Credits, and one at least, add up to more than nothing.                 *)
LEMMA SumPointsOfSome ==
    ASSUME NEW A \in SUBSET Entry, IsFiniteSet(A), A # {}, \A e \in A : e.points > 0
    PROVE  SumPoints(A) \in Nat \ {0}
<1>1. PICK e : e \in A
  OBVIOUS
<1> DEFINE B == A \ {e}
<1>2. /\ {e} \in SUBSET Entry /\ IsFiniteSet({e}) /\ B \in SUBSET Entry /\ IsFiniteSet(B)
      /\ {e} \cap B = {} /\ B \cap {e} = {} /\ A = {e} \cup B /\ \A f \in B : f.points > 0
      /\ e \in Entry /\ e.points \in Int /\ e.points > 0
  BY <1>1, FS_Subset, FS_Singleton DEF Entry
<1> HIDE DEF B
<1>3. SumPoints(B) \in Int /\ SumPoints(B) >= 0
  BY <1>2, SumPointsOf, SumPointsOfCredits
<1>4. SumPoints({e} \cup B) = SumPoints({e}) + SumPoints(B) /\ SumPoints({e}) = e.points
  BY <1>2, SumPointsOf, SumPointsOfOne
<1> QED  BY <1>2, <1>3, <1>4

(* What a paid order credits: its payer on the order, and her referrer,    *)
(* who is another, without it.                                             *)
LEMMA OrderBrings ==
    ASSUME Core, Earned, NEW o \in Order, OrdersPaid(o)
    PROVE  \/ UNCHANGED <<ledger, lots>>
           \/ \E new \in SUBSET Entry : \E x :
                 /\ Credits(new, x)
                 /\ \A e \in new :
                       /\ e.key = None
                       /\ \/ /\ e.customer = OrderOwner[o] /\ e.order = o
                             /\ e.type \in OrderEarnType
                          \/ /\ e.customer # OrderOwner[o] /\ e.order = None
                             /\ e.type \notin OrderEarnType
                 /\ \E e \in new : /\ e.type = "earn_order" /\ e.order = o
                                   /\ e.customer = OrderOwner[o]
<1> DEFINE c == OrderOwner[o]
<1>1. CASE UNCHANGED <<ledger, lots, serial>>
  BY <1>1
<1>2. ASSUME NEW points \in Points, NEW first \in BOOLEAN, NEW rewarded \in BOOLEAN,
             Credits(OrderCredits(o, points, first, rewarded), now + LotLife),
             rewarded = /\ first
                        /\ referrals[c].referrer # None
                        /\ ~referrals[c].purchaseRewarded
      PROVE  \E new \in SUBSET Entry : \E x :
                 /\ Credits(new, x)
                 /\ \A e \in new :
                       /\ e.key = None
                       /\ \/ e.customer = c /\ e.order = o /\ e.type \in OrderEarnType
                          \/ e.customer # c /\ e.order = None /\ e.type \notin OrderEarnType
                 /\ \E e \in new : e.type = "earn_order" /\ e.order = o /\ e.customer = c
  <2> DEFINE new == OrderCredits(o, points, first, rewarded)
  <2>1. c \in Customer /\ referrals[c].referrer # c
    BY LedgerConstants DEF Earned, EarnBasis
  <2>2. rewarded => referrals[c].referrer # None
    BY <1>2
  <2>3. /\ new \subseteq Entry
        /\ \A e \in new :
              /\ e.key = None
              /\ \/ e.type = "earn_order" /\ e.order = o /\ e.customer = c
                 \/ e.type = "earn_first_purchase" /\ e.order = o /\ e.customer = c
                 \/ /\ e.type = "earn_referral" /\ e.order = None
                    /\ e.customer = referrals[c].referrer
        /\ \E e \in new : e.type = "earn_order" /\ e.customer = c /\ e.order = o
    BY <2>2, OrderCreditsAre DEF Core
  <2> HIDE DEF new, c
  <2>4. \A e \in new :
           /\ e.key = None
           /\ \/ e.customer = c /\ e.order = o /\ e.type \in OrderEarnType
              \/ e.customer # c /\ e.order = None /\ e.type \notin OrderEarnType
    BY <2>1, <2>3 DEF OrderEarnType
  <2> QED  BY <1>2, <2>3, <2>4 DEF new
<1> QED  BY <1>1, <1>2, OrderEffect DEF Core

LEMMA OrderEarns ==
    ASSUME Core, Earned, Attributed, NEW o \in Order, OrdersPaid(o)
    PROVE  \/ Promise!Earn(o)
           \/ UNCHANGED <<Balances, Purses, EarnedOn, ReturnedOn, PaidFor, Repaid>>
<1> DEFINE c == OrderOwner[o]
<1>1. UNCHANGED redemptions /\ PaidFor' = PaidFor
  BY DEF OrdersPaid, PaidFor
<1>2. CASE UNCHANGED <<ledger, lots>>
  BY <1>1, <1>2, TablesStutter
<1>3. ASSUME NEW new \in SUBSET Entry, NEW x, Credits(new, x),
             \A e \in new :
                /\ e.key = None
                /\ \/ e.customer = c /\ e.order = o /\ e.type \in OrderEarnType
                   \/ e.customer # c /\ e.order = None /\ e.type \notin OrderEarnType,
             \E e \in new : e.type = "earn_order" /\ e.order = o /\ e.customer = c
      PROVE  Promise!Earn(o)
  <2> DEFINE mine == {e \in new : e.customer = c}
             n == SumPoints(mine)
  <2>1. c \in Customer /\ o # None /\ \A q \in Order : q # None
    BY LedgerConstants
  <2>2. /\ IsFiniteSet(new) /\ new \cap ledger = {} /\ ledger' = ledger \cup new
        /\ \A e \in new : e.points > 0
    BY <1>3, NewAreFinite DEF Credits
  <2>3. OrderEarnings(o) = {}
    <3>1. ~ \E e \in ledger : e.type = "earn_order" /\ e.order = o /\ e.customer = c
      BY DEF OrdersPaid, EntriesOf
    <3> QED  BY <3>1 DEF OrderEarnings, Attributed
  <2>4. OrderEarnings(o)' = mine
    BY <1>3, <2>1, <2>2, <2>3 DEF OrderEarnings
  <2>5. \A q \in Order : q # o => OrderEarnings(q)' = OrderEarnings(q)
    BY <1>3, <2>1, <2>2 DEF OrderEarnings
  <2>6. \A q \in Order : OrderClawbacks(q)' = OrderClawbacks(q)
    BY <1>3, <2>1, <2>2 DEF OrderClawbacks, OrderEarnType
  <2>7. /\ mine \in SUBSET Entry /\ IsFiniteSet(mine) /\ mine # {}
        /\ \A e \in mine : e.points > 0
    BY <1>3, <2>2, FS_Subset
  <2>8. Balances[c] \in Int /\ Purses[c] \in Int /\ Purses'[c] = Purses[c] + n
    BY <1>3, <2>1, CreditAccounts
  <2> HIDE DEF mine, c
  <2>9. n \in Nat \ {0}
    BY <2>7, SumPointsOfSome
  <2>10. SumPoints({}) = 0
    BY FS_EmptySet, TotalOfNone, SumPointsIs
  <2>11. ReturnedOn' = ReturnedOn
    <3>1. \A q \in Order : SumPoints(OrderClawbacks(q)') = SumPoints(OrderClawbacks(q))
      BY <2>6
    <3> QED  BY <3>1 DEF ReturnedOn
  <2>12. EarnedOn[o] = 0 /\ EarnedOn' = [EarnedOn EXCEPT ![o] = n]
    <3>1. /\ SumPoints(OrderEarnings(o)) = 0
          /\ SumPoints(OrderEarnings(o)') = n
          /\ \A q \in Order : q # o =>
                SumPoints(OrderEarnings(q)') = SumPoints(OrderEarnings(q))
      BY <2>3, <2>4, <2>5, <2>10
    <3>2. /\ EarnedOn = [q \in Order |-> SumPoints(OrderEarnings(q))]
          /\ EarnedOn' = [q \in Order |-> SumPoints(OrderEarnings(q)')]
      BY DEF EarnedOn
    <3> HIDE DEF n
    <3> QED  BY <3>1, <3>2
  <2>13. Repaid' = Repaid
    BY <1>1, <1>3, <2>2, RedemptionsKept
  <2>14. \A d \in Customer : Promise!Gains(d)
    BY <1>3, CreditGains
  <2> HIDE DEF n
  <2>15. Purses'[c] - Purses[c] = n
    BY <2>8, <2>9
  <2>16. EarnedOn'[o] = n
    BY <2>12 DEF EarnedOn
  <2>17. EarnedOn' = [EarnedOn EXCEPT ![o] = Purses'[c] - Purses[c]]
    BY <2>12, <2>15, Zenon
  <2>18. EarnedOn'[o] > 0
    BY <2>9, <2>16
  <2> QED  BY <1>1, <2>11, <2>12, <2>13, <2>14, <2>17, <2>18
           DEF Promise!Earn, Promise!redemptions, c
<1> QED  BY <1>2, <1>3, OrderBrings

LEMMA UnearnedKeepsAttributed ==
    ASSUME Attributed, NEW new, Effect(new), \A e \in new : e.type \notin OrderEarnType
    PROVE  Attributed'
BY DEF Attributed, Effect, Appends

LEMMA OrderKeepsAttributed ==
    ASSUME Core, Earned, Attributed, NEW o \in Order, OrdersPaid(o)
    PROVE  Attributed'
<1>1. CASE UNCHANGED <<ledger, lots>>
  BY <1>1 DEF Attributed
<1>2. ASSUME NEW new \in SUBSET Entry, NEW x, Credits(new, x),
             \A e \in new : \/ /\ e.customer = OrderOwner[o] /\ e.order = o
                               /\ e.type \in OrderEarnType
                            \/ e.type \notin OrderEarnType,
             \E e \in new : /\ e.type = "earn_order" /\ e.order = o
                            /\ e.customer = OrderOwner[o]
      PROVE  Attributed'
  <2>1. ledger' = ledger \cup new
    BY <1>2, NewAreFinite
  <2> QED  BY <1>2, <2>1 DEF Attributed
<1> QED  BY <1>1, <1>2, OrderBrings

LEMMA StepAttributed ==
    ASSUME Core, Earned, Attributed, Next
    PROVE  Attributed'
<1> USE DEF Core
<1>1. CASE Plain
  BY <1>1, UnearnedKeepsAttributed DEF Plain, OrderEarnType
<1>2. ASSUME NEW c \in Customer, EarnSignup(c) PROVE Attributed'
  <2>1. NewEntry(serial + 1, c, "earn_signup", SIGNUP_POINTS).type \notin OrderEarnType
    BY DEF NewEntry, OrderEarnType
  <2> QED  BY <1>2, <2>1, SignupEffect, UnearnedKeepsAttributed
<1>3. ASSUME NEW c \in Customer, NEW r \in Customer, ClaimReferral(c, r) PROVE Attributed'
  <2>1. [NewEntry(serial + 1, r, "earn_referral", REFERRAL_SIGNUP_POINTS)
           EXCEPT !.referred = c].type \notin OrderEarnType
    BY DEF NewEntry, OrderEarnType
  <2> QED  BY <1>3, <2>1, ClaimEffect, UnearnedKeepsAttributed
<1>4. ASSUME NEW o \in Order, OrdersPaid(o) PROVE Attributed'
  BY <1>4, OrderKeepsAttributed
<1>5. ASSUME NEW c \in Customer, NEW k \in Key, NEW p \in RewardCost, Redeem(c, k, p)
      PROVE  Attributed'
  <2>1. [NewEntry(serial + 1, c, "spend", -p) EXCEPT !.key = k].type \notin OrderEarnType
    BY DEF NewEntry, OrderEarnType
  <2> QED  BY <1>5, <2>1, RedeemEffect, UnearnedKeepsAttributed
<1>6. ASSUME NEW c \in Customer, NEW k \in Key, MarkIssued(c, k) PROVE Attributed'
  BY <1>6 DEF MarkIssued, Attributed
<1>7. ASSUME NEW c \in Customer, NEW k \in Key, ReverseSpend(c, k) PROVE Attributed'
  <2>1. [NewEntry(serial + 1, c, "adjust", redemptions[c][k].cost)
           EXCEPT !.key = k].type \notin OrderEarnType
    BY DEF NewEntry, OrderEarnType
  <2>2. redemptions[c][k].cost \in Nat \ {0}
    BY <1>7 DEF ReverseSpend, RedemptionsCost
  <2> QED  BY <1>7, <2>1, <2>2, ReverseEffect, UnearnedKeepsAttributed
<1>8. ASSUME ExpiryScan PROVE Attributed'
  <2>1. \A e \in {ExpireEntry(i) : i \in Matured} : e.type \notin OrderEarnType
    BY DEF ExpireEntry, NewEntry, OrderEarnType
  <2> QED  BY <1>8, <2>1, ExpiryEffect, UnearnedKeepsAttributed
<1> QED  BY <1>1, <1>2, <1>3, <1>4, <1>5, <1>6, <1>7, <1>8, StepKind

LEMMA AccountInit ==
    ASSUME Init
    PROVE  Promise!Init
<1>1. ledger = {} /\ DOMAIN lots = {}
  BY DEF Init
<1>2. /\ \A c \in Customer : EntriesOf(c) = {} /\ LotsOf(c) = {}
      /\ \A o \in Order : OrderEarnings(o) = {} /\ OrderClawbacks(o) = {}
      /\ \A c \in Customer, k \in Key : Reversals(c, k) = {}
  BY <1>1 DEF EntriesOf, LotsOf, OrderEarnings, OrderClawbacks, Reversals
<1>3. SumPoints({}) = 0 /\ SumLeft(lots, {}) = 0
  <2>1. {} \in SUBSET Entry /\ IsFiniteSet({}) /\ {} \in SUBSET DOMAIN lots
    BY FS_EmptySet
  <2> QED  BY <2>1, TotalOfNone, SumLeftIs, SumPointsIs
<1>4. Balances = [c \in Customer |-> 0] /\ Purses = [c \in Customer |-> 0]
  BY <1>2, <1>3, PursesAre DEF Balances, Balance
<1>5. EarnedOn = [o \in Order |-> 0] /\ ReturnedOn = [o \in Order |-> 0]
  BY <1>2, <1>3 DEF EarnedOn, ReturnedOn
<1>6. PaidFor = [c \in Customer |-> [k \in Key |-> 0]]
  BY DEF Init, PaidFor
<1>7. Repaid = [c \in Customer |-> [k \in Key |-> FALSE]]
  BY <1>2 DEF Repaid
<1> QED  BY <1>4, <1>5, <1>6, <1>7 DEF Promise!Init

LEMMA AccountStep ==
    ASSUME Core, Earned, Placed, Attributed, [Next]_vars
    PROVE  [Promise!Next]_(Promise!vars)
<1> DEFINE Rest == UNCHANGED <<Balances, Purses, EarnedOn, ReturnedOn, PaidFor, Repaid>>
<1>1. Rest => UNCHANGED Promise!vars
  BY DEF Promise!vars, Promise!accounts, Promise!orders, Promise!redemptions
<1>2. SUFFICES Promise!Next \/ Rest
  BY <1>1
<1>3. ASSUME UNCHANGED <<ledger, lots, redemptions>> PROVE Rest
  <2>1. PaidFor' = PaidFor
    BY <1>3 DEF PaidFor
  <2> QED  BY <1>3, <2>1, TablesStutter
<1> HIDE DEF Rest
<1>4. CASE Promise!Receive \/ Promise!Lapse
  BY <1>4 DEF Promise!Next
<1>5. ASSUME NEW c \in Customer, EnrolWithoutAward(c) PROVE Rest
  BY <1>3, <1>5 DEF EnrolWithoutAward
<1>6. ASSUME NEW c \in Customer, EarnSignup(c) PROVE Promise!Receive
  BY <1>6, SignupReceives
<1>7. ASSUME NEW c \in Customer, NEW r \in Customer, ClaimReferral(c, r)
      PROVE  Promise!Receive
  BY <1>7, ClaimReceives
<1>8. ASSUME Migrate PROVE Promise!Receive
  BY <1>8, MigrationReceives
<1>9. ASSUME NEW o \in Order, OrdersPaid(o) PROVE Promise!Next \/ Rest
  BY <1>9, OrderEarns DEF Promise!Next, Rest
<1>10. ASSUME NEW o \in Order, EnrolByWorthlessOrder(o) PROVE Rest
  BY <1>3, <1>10 DEF EnrolByWorthlessOrder, EnrolWithoutAward
<1>11. ASSUME NEW o \in Order, NEW ev \in Event,
              Cancel(o, ev) \/ \E a \in RefundAmount : Refund(o, a, ev)
       PROVE  Promise!Next
  BY <1>11, ReturnGivesBack DEF Promise!Next
<1>12. ASSUME NEW c \in Customer, NEW k \in Key, NEW p \in RewardCost, Redeem(c, k, p)
       PROVE  Promise!Next
  BY <1>12, RedeemPays DEF Promise!Next
<1>13. ASSUME NEW c \in Customer, NEW k \in Key, MarkIssued(c, k) PROVE Rest
  BY <1>13, MarkStutters DEF Rest
<1>14. ASSUME NEW c \in Customer, NEW k \in Key, ReverseSpend(c, k)
       PROVE  Promise!Next \/ Rest
  BY <1>14, ReversalRepays DEF Promise!Next, Rest
<1>15. ASSUME NEW c \in Customer, NEW p \in Adjustment, Adjust(c, p) PROVE Promise!Next
  BY <1>15, AdjustmentAccounts DEF Promise!Next
<1>16. ASSUME ExpiryScan PROVE Promise!Lapse
  BY <1>16, ScanLapses
<1>17. ASSUME Tick \/ UNCHANGED vars PROVE Rest
  BY <1>3, <1>17 DEF Tick, vars
<1> QED  BY <1>4, <1>5, <1>6, <1>7, <1>8, <1>9, <1>10, <1>11, <1>12, <1>13, <1>14,
            <1>15, <1>16, <1>17 DEF Next

(* Whatever the parameters and under either policy for a negative balance, *)
(* the ledger keeps the accounts of Account: every transaction, batch scan *)
(* and retry moves balance and purse together, by what an order, a refund, *)
(* a redemption or a reversal may move, or leaves all accounts alone.      *)
THEOREM ImplementsAccount == Spec => KeepsAccounts
<1>1. Init => Placed
  BY DEF Init, Placed
<1>2. Core /\ Placed /\ [Next]_vars => Placed'
  <2>1. Placed /\ UNCHANGED vars => Placed'
    BY DEF Placed, vars
  <2> QED  BY <2>1, StepPlaces
<1>3. Init => Attributed
  BY DEF Init, Attributed
<1>4. Core /\ Earned /\ Attributed /\ [Next]_vars => Attributed'
  <2>1. Attributed /\ UNCHANGED vars => Attributed'
    BY DEF Attributed, vars
  <2> QED  BY <2>1, StepAttributed
<1>5. Init => Promise!Init
  BY AccountInit
<1>6. Core /\ Earned /\ Placed /\ Attributed /\ [Next]_vars
      => [Promise!Next]_(Promise!vars)
  BY AccountStep
<1> USE DEF KeepsAccounts, Spec, Promise!Spec
<1> QED  BY <1>1, <1>2, <1>3, <1>4, <1>5, <1>6, CoreHolds, EarnedHolds, PTL
=============================================================================
