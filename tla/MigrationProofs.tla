--------------------------- MODULE MigrationProofs ---------------------------
(***************************************************************************)
(* Proofs about the migration scripts, for any members, any export, any    *)
(* number of operators and any bounds on the runs and on live traffic.     *)
(***************************************************************************)
EXTENDS Migration, FiniteSetTheorems, TLAPS

-----------------------------------------------------------------------------
\* Sums over finite sets, as in LedgerProofs.

\* The element CHOOSE takes first, and the functions that add up every
\* part of A by taking it out.
Chosen(s) == CHOOSE x \in s : TRUE

Adds(g, F, A) ==
    g = [s \in SUBSET A |-> IF s = {} THEN 0 ELSE F[Chosen(s)] + g[s \ {Chosen(s)}]]

\* The sum of F over A.
SumOver(F, A) == (CHOOSE g : Adds(g, F, A))[A]

LEMMA ChosenIn ==
  ASSUME NEW s, s # {}
  PROVE  Chosen(s) \in s
BY DEF Chosen

\* Induction over the subsets of a finite set: what holds of a set once it
\* holds of its proper parts holds of all.
LEMMA SubsetInduction ==
  ASSUME NEW A, IsFiniteSet(A), NEW Good,
         \A s \in SUBSET A : (\A t \in SUBSET s : t # s => t \in Good) => s \in Good
  PROVE  \A s \in SUBSET A : s \in Good
<1> DEFINE Bad == (SUBSET A) \ Good
           R == StrictSubsetOrdering(A)
<1> SUFFICES ASSUME Bad # {}
             PROVE  FALSE
  OBVIOUS
<1>1. IsWellFoundedOn(R, SUBSET A)
  <2>1. FiniteSubsetsOf(A) = SUBSET A
    BY FS_FiniteSubsetsOfFinite
  <2>2. IsWellFoundedOn(StrictSubsetOrdering(A), FiniteSubsetsOf(A))
    BY FS_StrictSubsetOrderingWellFounded
  <2> QED  BY <2>1, <2>2, Zenon
<1>2. Bad \subseteq SUBSET A
  OBVIOUS
<1> HIDE DEF R
<1>3. PICK s \in Bad : \A t \in Bad : ~(<<t, s>> \in R)
  <2> HIDE DEF Bad
  <2> QED  BY <1>1, <1>2, WFMin
<1>4. \A t \in SUBSET s : t # s => t \in Good
  BY <1>3 DEF R, StrictSubsetOrdering
<1>5. s \in SUBSET A /\ s \notin Good
  BY <1>3
<1> HIDE DEF Bad
<1> QED  BY <1>4, <1>5

\* Two functions that add F up agree wherever both do.
LEMMA AddsOnce ==
  ASSUME NEW F, NEW A, IsFiniteSet(A), NEW B, NEW g, NEW h, Adds(g, F, A), Adds(h, F, B)
  PROVE  \A s \in SUBSET A : s \subseteq B => g[s] = h[s]
<1> DEFINE Good == {s \in SUBSET A : s \subseteq B => g[s] = h[s]}
<1>1. ASSUME NEW s \in SUBSET A, \A t \in SUBSET s : t # s => t \in Good
      PROVE  s \in Good
  <2> SUFFICES ASSUME s \subseteq B
               PROVE  g[s] = h[s]
    OBVIOUS
  <2>1. CASE s = {}
    BY <2>1 DEF Adds
  <2>2. CASE s # {}
    <3> DEFINE t == s \ {Chosen(s)}
    <3>1. t \in SUBSET s /\ t # s
      BY <2>2, ChosenIn
    <3>2. g[t] = h[t]
      BY <1>1, <3>1
    <3>3. g[s] = F[Chosen(s)] + g[t]
      BY <2>2 DEF Adds
    <3>4. h[s] = F[Chosen(s)] + h[t]
      BY <2>2 DEF Adds
    <3> QED  BY <3>2, <3>3, <3>4
  <2> QED  BY <2>1, <2>2
<1> HIDE DEF Good
<1>2. \A s \in SUBSET A : s \in Good
  BY <1>1, SubsetInduction
<1> QED  BY <1>2 DEF Good

\* Every finite set can be added up.
LEMMA SumExists ==
  ASSUME NEW F, NEW A, IsFiniteSet(A)
  PROVE  \A s \in SUBSET A : \E g : Adds(g, F, s)
<1> DEFINE Good == {s \in SUBSET A : \E g : Adds(g, F, s)}
           The(s) == CHOOSE g : Adds(g, F, s)
<1>1. ASSUME NEW s \in SUBSET A, \A t \in SUBSET s : t # s => t \in Good
      PROVE  s \in Good
  <2> DEFINE h == [u \in SUBSET s |-> IF u = {} THEN 0
                                      ELSE F[Chosen(u)] + SumOver(F, u \ {Chosen(u)})]
  <2>1. ASSUME NEW t \in SUBSET s, t # s
        PROVE  Adds(The(t), F, t)
    BY <1>1, <2>1
  <2>2. ASSUME NEW t \in SUBSET s, t # s
        PROVE  h[t] = SumOver(F, t)
    <3>1. Adds(The(t), F, t) /\ SumOver(F, t) = The(t)[t]
      BY <2>1, <2>2 DEF SumOver
    <3> HIDE DEF The
    <3>2. CASE t = {}
      BY <3>1, <3>2 DEF Adds
    <3>3. CASE t # {}
      <4> DEFINE r == t \ {Chosen(t)}
      <4>1. r \in SUBSET t /\ r # s /\ r \in SUBSET s
        BY <2>2, <3>3, ChosenIn
      <4>2. Adds(The(r), F, r) /\ SumOver(F, r) = The(r)[r]
        BY <2>1, <4>1 DEF SumOver, The
      <4>3. IsFiniteSet(r)
        BY <4>1, FS_Subset
      <4>4. The(r)[r] = The(t)[r]
        <5> HIDE DEF r
        <5>1. \A q \in SUBSET r : q \subseteq t => The(r)[q] = The(t)[q]
          BY <3>1, <4>2, <4>3, AddsOnce
        <5> QED  BY <4>1, <5>1
      <4>5. The(t)[t] = F[Chosen(t)] + The(t)[r]
        BY <3>1, <3>3 DEF Adds
      <4>6. h[t] = F[Chosen(t)] + SumOver(F, r)
        BY <3>3
      <4> QED  BY <3>1, <4>2, <4>4, <4>5, <4>6
    <3> QED  BY <3>2, <3>3
  <2>3. ASSUME NEW u \in SUBSET s, u # {}
        PROVE  h[u \ {Chosen(u)}] = SumOver(F, u \ {Chosen(u)})
    <3>1. u \ {Chosen(u)} \in SUBSET s /\ u \ {Chosen(u)} # s
      BY <2>3, ChosenIn
    <3> HIDE DEF h
    <3> QED  BY <2>2, <3>1
  <2>4. h = [u \in SUBSET s |-> IF u = {} THEN 0
                                ELSE F[Chosen(u)] + h[u \ {Chosen(u)}]]
    BY <2>3
  <2>5. Adds(h, F, s)
    BY <2>4 DEF Adds
  <2> HIDE DEF h
  <2> QED  BY <2>5
<1> HIDE DEF Good
<1>2. \A s \in SUBSET A : s \in Good
  BY <1>1, SubsetInduction
<1> QED  BY <1>2 DEF Good

LEMMA SumOfNone ==
  ASSUME NEW F
  PROVE  SumOver(F, {}) = 0
<1>1. PICK g : Adds(g, F, {})
  BY FS_EmptySet, SumExists
<1>2. Adds(CHOOSE h : Adds(h, F, {}), F, {})
  BY <1>1
<1> QED  BY <1>2 DEF SumOver, Adds

\* A sum is its first element and the sum of the rest.
LEMMA SumUnfolds ==
  ASSUME NEW F, NEW A, IsFiniteSet(A), A # {}
  PROVE  SumOver(F, A) = F[Chosen(A)] + SumOver(F, A \ {Chosen(A)})
<1> DEFINE The(s) == CHOOSE g : Adds(g, F, s)
           r == A \ {Chosen(A)}
<1>1. \A s \in SUBSET A : Adds(The(s), F, s) /\ SumOver(F, s) = The(s)[s]
  <2> SUFFICES ASSUME NEW s \in SUBSET A
               PROVE  Adds(The(s), F, s) /\ SumOver(F, s) = The(s)[s]
    OBVIOUS
  <2>1. \E g : Adds(g, F, s)
    BY SumExists
  <2> QED  BY <2>1 DEF SumOver
<1> HIDE DEF The
<1>2. The(A)[A] = F[Chosen(A)] + The(A)[r]
  <2>1. Adds(The(A), F, A)
    BY <1>1
  <2> QED  BY <2>1 DEF Adds
<1>3. r \in SUBSET A /\ IsFiniteSet(r)
  BY FS_Subset
<1> HIDE DEF r
<1>4. \A q \in SUBSET r : q \subseteq A => The(r)[q] = The(A)[q]
  BY <1>1, <1>3, AddsOnce
<1>5. The(r)[r] = The(A)[r]
  BY <1>3, <1>4
<1> QED  BY <1>1, <1>2, <1>3, <1>5 DEF r

\* A sum of integers is an integer, and of naturals not negative.
LEMMA SumType ==
  ASSUME NEW F, NEW A, IsFiniteSet(A), \A x \in A : F[x] \in Int
  PROVE  /\ SumOver(F, A) \in Int
         /\ (\A x \in A : F[x] >= 0) => SumOver(F, A) >= 0
<1> DEFINE Good == {s \in SUBSET A : /\ SumOver(F, s) \in Int
                                     /\ (\A x \in A : F[x] >= 0) => SumOver(F, s) >= 0}
<1>1. ASSUME NEW s \in SUBSET A, \A t \in SUBSET s : t # s => t \in Good
      PROVE  s \in Good
  <2>1. CASE s = {}
    BY <2>1, SumOfNone
  <2>2. CASE s # {}
    <3> DEFINE t == s \ {Chosen(s)}
    <3>1. t \in SUBSET s /\ t # s /\ Chosen(s) \in A /\ IsFiniteSet(s)
      BY <2>2, ChosenIn, FS_Subset
    <3>2. t \in Good
      BY <1>1, <3>1
    <3>3. SumOver(F, s) = F[Chosen(s)] + SumOver(F, t)
      BY <2>2, <3>1, SumUnfolds
    <3>4. F[Chosen(s)] \in Int
      BY <3>1
    <3> DEFINE n == F[Chosen(s)]
    <3> HIDE DEF t, n
    <3> QED  BY <3>1, <3>2, <3>3, <3>4 DEF n
  <2> QED  BY <2>1, <2>2
<1> HIDE DEF Good
<1>2. \A s \in SUBSET A : s \in Good
  BY <1>1, SubsetInduction
<1> QED  BY <1>2 DEF Good

\* Any element may be taken out first, not just the chosen one.
LEMMA SumTakes ==
  ASSUME NEW F, NEW A, IsFiniteSet(A), \A x \in A : F[x] \in Int, NEW x \in A
  PROVE  SumOver(F, A) = F[x] + SumOver(F, A \ {x})
<1> DEFINE Good == {s \in SUBSET A : \A y \in s : SumOver(F, s) = F[y] + SumOver(F, s \ {y})}
<1>0. \A s \in SUBSET A : IsFiniteSet(s) /\ SumOver(F, s) \in Int
  BY FS_Subset, SumType
<1>1. ASSUME NEW s \in SUBSET A, \A t \in SUBSET s : t # s => t \in Good
      PROVE  s \in Good
  <2> SUFFICES ASSUME NEW y \in s
               PROVE  SumOver(F, s) = F[y] + SumOver(F, s \ {y})
    OBVIOUS
  <2> DEFINE c == Chosen(s)
             t == s \ {c}
             u == s \ {y}
             v == s \ {c, y}
  <2>1. c \in s /\ IsFiniteSet(s) /\ SumOver(F, s) = F[c] + SumOver(F, t)
    BY <1>0, ChosenIn, SumUnfolds
  <2>2. CASE c = y
    BY <2>1, <2>2
  <2>3. CASE c # y
    <3>1. t \in Good /\ u \in Good
      BY <1>1, <2>1
    <3>2. y \in t /\ c \in u /\ t \ {y} = v /\ u \ {c} = v
      BY <2>1, <2>3
    <3>3. SumOver(F, t) = F[y] + SumOver(F, v) /\ SumOver(F, u) = F[c] + SumOver(F, v)
      BY <3>1, <3>2
    <3>4. F[y] \in Int /\ F[c] \in Int /\ SumOver(F, v) \in Int
      BY <1>0, <2>1
    <3> HIDE DEF t, u, v, c
    <3> QED  BY <2>1, <3>3, <3>4 DEF u
  <2> QED  BY <2>2, <2>3
<1> HIDE DEF Good
<1>2. \A s \in SUBSET A : s \in Good
  BY <1>1, SubsetInduction
<1> QED  BY <1>2 DEF Good

\* Whatever adds F up is its sum.
LEMMA SumIs ==
  ASSUME NEW F, NEW A, IsFiniteSet(A), NEW h, Adds(h, F, A)
  PROVE  h[A] = SumOver(F, A)
<1>1. Adds(CHOOSE g : Adds(g, F, A), F, A)
  OBVIOUS
<1>2. \A s \in SUBSET A : s \subseteq A => h[s] = (CHOOSE g : Adds(g, F, A))[s]
  BY <1>1, AddsOnce
<1> QED  BY <1>2 DEF SumOver

\* The folds of the model are such sums.
PointsOf == [e \in Entry |-> e.points]
RemainingOf == [l \in Lot |-> l.remaining]
Left(ls) == MapThenSumSet(LAMBDA l : l.remaining, ls)

LEMMA TotalIs ==
  ASSUME NEW S \in SUBSET Entry, IsFiniteSet(S)
  PROVE  Total(S) = SumOver(PointsOf, S)
<1> DEFINE Rec(g) == g = [s \in SUBSET S |-> IF s = {} THEN 0
                            ELSE (CHOOSE x \in s : TRUE).points + g[s \ {CHOOSE x \in s : TRUE}]]
           h == CHOOSE g : Rec(g)
<1>1. Total(S) = h[S]
  BY DEF Total, MapThenSumSet, MapThenFoldSet
<1>2. \A g : Adds(g, PointsOf, S) <=> Rec(g)
  <2> SUFFICES ASSUME NEW g
               PROVE  Adds(g, PointsOf, S) <=> Rec(g)
    OBVIOUS
  <2>1. \A s \in SUBSET S : s # {} => PointsOf[Chosen(s)] = (CHOOSE x \in s : TRUE).points
    BY ChosenIn DEF Chosen, PointsOf
  <2>2. [s \in SUBSET S |-> IF s = {} THEN 0 ELSE PointsOf[Chosen(s)] + g[s \ {Chosen(s)}]]
        = [s \in SUBSET S |-> IF s = {} THEN 0
                 ELSE (CHOOSE x \in s : TRUE).points + g[s \ {CHOOSE x \in s : TRUE}]]
    BY <2>1 DEF Chosen
  <2> QED  BY <2>2 DEF Adds
<1> HIDE DEF Rec
<1>3. PICK g : Adds(g, PointsOf, S)
  BY SumExists
<1>4. Adds(h, PointsOf, S)
  BY <1>2, <1>3
<1> HIDE DEF h
<1> QED  BY <1>1, <1>4, SumIs

LEMMA LeftIs ==
  ASSUME NEW S \in SUBSET Lot, IsFiniteSet(S)
  PROVE  Left(S) = SumOver(RemainingOf, S)
<1> DEFINE Rec(g) == g = [s \in SUBSET S |-> IF s = {} THEN 0
                            ELSE (CHOOSE x \in s : TRUE).remaining + g[s \ {CHOOSE x \in s : TRUE}]]
           h == CHOOSE g : Rec(g)
<1>1. Left(S) = h[S]
  BY DEF Left, MapThenSumSet, MapThenFoldSet
<1>2. \A g : Adds(g, RemainingOf, S) <=> Rec(g)
  <2> SUFFICES ASSUME NEW g
               PROVE  Adds(g, RemainingOf, S) <=> Rec(g)
    OBVIOUS
  <2>1. \A s \in SUBSET S : s # {} => RemainingOf[Chosen(s)] = (CHOOSE x \in s : TRUE).remaining
    BY ChosenIn DEF Chosen, RemainingOf
  <2>2. [s \in SUBSET S |-> IF s = {} THEN 0 ELSE RemainingOf[Chosen(s)] + g[s \ {Chosen(s)}]]
        = [s \in SUBSET S |-> IF s = {} THEN 0
                 ELSE (CHOOSE x \in s : TRUE).remaining + g[s \ {CHOOSE x \in s : TRUE}]]
    BY <2>1 DEF Chosen
  <2> QED  BY <2>2 DEF Adds
<1> HIDE DEF Rec
<1>3. PICK g : Adds(g, RemainingOf, S)
  BY SumExists
<1>4. Adds(h, RemainingOf, S)
  BY <1>2, <1>3
<1> HIDE DEF h
<1> QED  BY <1>1, <1>4, SumIs

\* A balance, or what is left in lots, with one row more.
LEMMA TotalAdds ==
  ASSUME NEW S \in SUBSET Entry, IsFiniteSet(S)
  PROVE  /\ Total({}) = 0 /\ Total(S) \in Int
         /\ \A e \in Entry \ S : /\ IsFiniteSet(S \cup {e})
                                 /\ Total(S \cup {e}) = Total(S) + e.points
<1>1. \A e \in Entry : PointsOf[e] = e.points /\ PointsOf[e] \in Int
  BY DEF PointsOf, Entry
<1>2. Total({}) = 0 /\ Total(S) \in Int
  <2>1. Total({}) = SumOver(PointsOf, {})
    BY FS_EmptySet, TotalIs
  <2>2. SumOver(PointsOf, S) \in Int
    BY <1>1, SumType
  <2> QED  BY <2>1, <2>2, SumOfNone, TotalIs
<1>3. ASSUME NEW e \in Entry \ S
      PROVE  IsFiniteSet(S \cup {e}) /\ Total(S \cup {e}) = Total(S) + e.points
  <2> DEFINE T == S \cup {e}
  <2>1. T \in SUBSET Entry /\ IsFiniteSet(T) /\ e \in T /\ T \ {e} = S
    BY FS_AddElement
  <2> HIDE DEF T
  <2>2. SumOver(PointsOf, T) = PointsOf[e] + SumOver(PointsOf, T \ {e})
    BY <1>1, <2>1, SumTakes
  <2>3. Total(T) = SumOver(PointsOf, T) /\ Total(S) = SumOver(PointsOf, S)
    BY <2>1, TotalIs
  <2>4. Total(T) = e.points + Total(S) /\ e.points \in Int
    BY <1>1, <2>1, <2>2, <2>3
  <2> QED  BY <1>2, <2>1, <2>4 DEF T
<1> QED  BY <1>2, <1>3

LEMMA LeftAdds ==
  ASSUME NEW S \in SUBSET Lot, IsFiniteSet(S)
  PROVE  /\ Left({}) = 0 /\ Left(S) \in Int
         /\ \A l \in Lot \ S : /\ IsFiniteSet(S \cup {l})
                               /\ Left(S \cup {l}) = Left(S) + l.remaining
<1>1. \A l \in Lot : RemainingOf[l] = l.remaining /\ RemainingOf[l] \in Int
  BY DEF RemainingOf, Lot
<1>2. Left({}) = 0 /\ Left(S) \in Int
  <2>1. Left({}) = SumOver(RemainingOf, {})
    BY FS_EmptySet, LeftIs
  <2>2. SumOver(RemainingOf, S) \in Int
    BY <1>1, SumType
  <2> QED  BY <2>1, <2>2, SumOfNone, LeftIs
<1>3. ASSUME NEW l \in Lot \ S
      PROVE  IsFiniteSet(S \cup {l}) /\ Left(S \cup {l}) = Left(S) + l.remaining
  <2> DEFINE T == S \cup {l}
  <2>1. T \in SUBSET Lot /\ IsFiniteSet(T) /\ l \in T /\ T \ {l} = S
    BY FS_AddElement
  <2> HIDE DEF T
  <2>2. SumOver(RemainingOf, T) = RemainingOf[l] + SumOver(RemainingOf, T \ {l})
    BY <1>1, <2>1, SumTakes
  <2>3. Left(T) = SumOver(RemainingOf, T) /\ Left(S) = SumOver(RemainingOf, S)
    BY <2>1, LeftIs
  <2>4. Left(T) = l.remaining + Left(S) /\ l.remaining \in Int
    BY <1>1, <2>1, <2>2, <2>3
  <2> QED  BY <1>2, <2>1, <2>4 DEF T
<1> QED  BY <1>2, <1>3


-----------------------------------------------------------------------------
\* The inductive invariant.

PlanItem == [member : Cohort, entry : Entry, lot : Lot]

\* What an operator's transaction knows.
OpState ==
  [at : At, k : 1..Len(Anchor), execute : BOOLEAN, added : SUBSET Cohort,
   census : Seq(BOOLEAN), saw : SUBSET Entry, summed : SUBSET (Member \X Entry),
   plan : SUBSET PlanItem, refused : BOOLEAN]

Shapes ==
  /\ op \in [Operator -> OpState]
  /\ entries \in [Member -> SUBSET Entry] /\ lots \in [Member -> SUBSET Lot]

\* A backfill holds the row of a member it is about to check, and of each one it will give
\* an entry; so nobody has given them one since it looked.
Checked ==
  \A o \in Operator :
    /\ op[o].at = "check" => lock[Mine(o)] = o
    /\ \A m \in op[o].added : lock[m] = o /\ Migrations(entries[m]) = {}

\* A reversal that was not refused has a plan for every member it has inspected, and none
\* deletes without one for the whole cohort.
Covers(c, m) == \E p \in c.plan : p.member = m

Deleting == {"deleteLots", "deleteEntries", "deleteCustomers", "reverted"}

Inspected ==
  \A o \in Operator :
    /\ op[o].at \in {"ledger", "lots"} /\ ~op[o].refused =>
         \A i \in 1..(op[o].k - 1) : Covers(op[o], Anchor[i])
    /\ (op[o].at = "decide" /\ ~op[o].refused) \/ op[o].at \in Deleting =>
         \A m \in Cohort : Covers(op[o], m)

\* The members whose row a reversal has deleted and not yet committed: it holds the row,
\* and nothing of theirs is left but what it planned to delete.
CustomersDeleted(c) ==
  {m \in Cohort : \/ c.at = "reverted"
                  \/ c.at = "deleteCustomers" /\ \E i \in 1..(c.k - 1) : m = Anchor[i]}

Cleared ==
  \A o \in Operator : \A m \in CustomersDeleted(op[o]) :
    /\ lock[m] = o
    /\ \A e \in entries[m] : \E p \in op[o].plan : p.entry = e
    /\ \A l \in lots[m] : \E p \in op[o].plan : p.entry.id = l.entry

OneEach == \A m \in Member : \A e, f \in Migrations(entries[m]) : e = f

Inv == TypeOK /\ Shapes /\ Checked /\ Inspected /\ Cleared /\ OneEach

-----------------------------------------------------------------------------
\* What the steps have in common.

LEMMA AnchorIs ==
  /\ Len(Anchor) \in Nat /\ 1 \in 1..Len(Anchor)
  /\ \A i \in 1..Len(Anchor) : Anchor[i] \in Cohort
  /\ \A m \in Cohort : m \in Member /\ \E i \in 1..Len(Anchor) : m = Anchor[i]
<1>1. Anchor \in Seq(Member) /\ Len(Anchor) \in Nat
  BY MigrationAssumption
<1>2. \A i \in 1..Len(Anchor) : Anchor[i] \in Cohort /\ Anchor[i] \in Member
  BY <1>1 DEF Cohort
<1>3. \A m \in Cohort : m \in Member /\ \E i \in 1..Len(Anchor) : m = Anchor[i]
  BY <1>2 DEF Cohort
<1>4. PICK m \in Cohort : TRUE
  BY MigrationAssumption
<1>5. 1 \in 1..Len(Anchor)
  BY <1>1, <1>3, <1>4
<1> QED  BY <1>1, <1>2, <1>3, <1>5

\* Where a script goes when it is done with a member.
LEMMA NextMemberIs ==
  ASSUME NEW o, NEW c \in OpState, NEW at \in At, NEW then \in At,
         NEW d, d = NextMember(o, c, at, then)
  PROVE  /\ d \in OpState
         /\ d.added = c.added /\ d.plan = c.plan /\ d.refused = c.refused /\ d.summed = c.summed
         /\ \/ d.at = at /\ d.k = c.k + 1
            \/ d.at = then /\ d.k = 1 /\ c.k = Len(Anchor)
<1>1. CASE c.k < Len(Anchor)
  <2>1. c.k + 1 \in 1..Len(Anchor)
    BY <1>1, AnchorIs DEF OpState
  <2> QED  BY <1>1, <2>1 DEF NextMember, OpState
<1>2. CASE ~(c.k < Len(Anchor))
  <2>1. c.k = Len(Anchor)
    BY <1>2, AnchorIs DEF OpState
  <2> QED  BY <1>2, <2>1, AnchorIs DEF NextMember, OpState
<1> QED  BY <1>1, <1>2

\* What an operator's state must satisfy by itself, before a step that leaves it as c.
Proper(c) ==
  /\ c \in OpState
  /\ c.at \in {"ledger", "lots"} /\ ~c.refused =>
       \A i \in 1..(c.k - 1) : Covers(c, Anchor[i])
  /\ (c.at = "decide" /\ ~c.refused) \/ c.at \in Deleting => \A m \in Cohort : Covers(c, m)

LEMMA OperatorIs ==
  ASSUME Inv, NEW o \in Operator
  PROVE  Proper(op[o]) /\ Mine(o) \in Cohort /\ Mine(o) \in Member
BY AnchorIs DEF Inv, Shapes, Inspected, Proper, OpState, Mine

\* A step of one operator keeps the invariant if it leaves the rows it does not hold to
\* those who do.
LEMMA OperatorMoves ==
  ASSUME Inv, NEW o \in Operator, NEW c, op' = [op EXCEPT ![o] = c], Proper(c),
         lock' \in [Member -> Operator \cup {None}],
         \A m \in Member : lock[m] # o => lock'[m] \in {lock[m], o},
         \A m \in Member : lock[m] \notin {None, o} => lock'[m] = lock[m],
         entries' \in [Member -> SUBSET Entry], lots' \in [Member -> SUBSET Lot],
         \A m \in Member : lock[m] # o => entries'[m] \subseteq entries[m]
                                         /\ lots'[m] \subseteq lots[m],
         c.at = "check" => lock'[Anchor[c.k]] = o,
         \A m \in c.added : lock'[m] = o /\ Migrations(entries'[m]) = {},
         \A m \in CustomersDeleted(c) :
           /\ lock'[m] = o
           /\ \A e \in entries'[m] : \E p \in c.plan : p.entry = e
           /\ \A l \in lots'[m] : \E p \in c.plan : p.entry.id = l.entry
  PROVE  /\ Shapes' /\ Checked' /\ Inspected' /\ Cleared'
         /\ \A q \in Operator :
              /\ op'[q].at \in At /\ op'[q].k \in 1..Len(Anchor) /\ op'[q].added \subseteq Cohort
              /\ \A p \in op'[q].plan : p.member \in Cohort /\ p.entry \in Entry
<1>1. op'[o] = c /\ op' \in [Operator -> OpState] /\ \A q \in Operator : q # o => op'[q] = op[q]
  BY DEF Inv, Shapes, Proper
<1>2. \A q \in Operator : Proper(op'[q])
  BY <1>1, OperatorIs
<1>3. Shapes' /\ Inspected'
  BY <1>1, <1>2 DEF Shapes, Inspected, Proper
<1>4. Checked'
  <2> SUFFICES ASSUME NEW q \in Operator
               PROVE  /\ op'[q].at = "check" => lock'[Anchor[op'[q].k]] = q
                      /\ \A m \in op'[q].added : lock'[m] = q /\ Migrations(entries'[m]) = {}
    BY DEF Checked, Mine, Migrations
  <2>1. CASE q = o
    BY <1>1, <2>1
  <2>2. CASE q # o
    <3>1. op'[q] = op[q] /\ q # None
      BY <1>1, <2>2, MigrationAssumption
    <3>2. \A m \in Member : lock[m] = q => lock'[m] = q /\ entries'[m] \subseteq entries[m]
      BY <2>2, <3>1
    <3>3. op[q].at = "check" => lock'[Anchor[op[q].k]] = q
      BY <3>2, OperatorIs DEF Inv, Checked, Mine
    <3>4. \A m \in op[q].added : m \in Member /\ lock[m] = q /\ Migrations(entries[m]) = {}
      BY OperatorIs, AnchorIs DEF Inv, Checked, Proper, OpState
    <3> QED  BY <3>1, <3>2, <3>3, <3>4 DEF Migrations
  <2> QED  BY <2>1, <2>2
<1>5. Cleared'
  <2> SUFFICES ASSUME NEW q \in Operator, NEW m \in CustomersDeleted(op'[q])
               PROVE  /\ lock'[m] = q
                      /\ \A e \in entries'[m] : \E p \in op'[q].plan : p.entry = e
                      /\ \A l \in lots'[m] : \E p \in op'[q].plan : p.entry.id = l.entry
    BY DEF Cleared, CustomersDeleted
  <2>1. CASE q = o
    BY <1>1, <2>1
  <2>2. CASE q # o
    <3>1. op'[q] = op[q] /\ q # None
      BY <1>1, <2>2, MigrationAssumption
    <3>2. m \in Member /\ m \in CustomersDeleted(op[q])
      BY <3>1, AnchorIs DEF CustomersDeleted
    <3>3. /\ lock[m] = q
          /\ \A e \in entries[m] : \E p \in op[q].plan : p.entry = e
          /\ \A l \in lots[m] : \E p \in op[q].plan : p.entry.id = l.entry
      BY <3>2 DEF Inv, Cleared
    <3> QED  BY <2>2, <3>1, <3>2, <3>3
  <2> QED  BY <2>1, <2>2
<1>6. \A q \in Operator :
        /\ op'[q].at \in At /\ op'[q].k \in 1..Len(Anchor) /\ op'[q].added \subseteq Cohort
        /\ \A p \in op'[q].plan : p.member \in Cohort /\ p.entry \in Entry
  BY <1>2 DEF Proper, OpState, PlanItem
<1> QED  BY <1>3, <1>4, <1>5, <1>6

\* A step that writes no table: the next statement of a script, or the end of its
\* transaction.
LEMMA WritesNothing ==
  ASSUME Inv, NEW o \in Operator, NEW c, op' = [op EXCEPT ![o] = c], Proper(c),
         lock' \in [Member -> Operator \cup {None}],
         \A m \in Member : lock[m] # o => lock'[m] \in {lock[m], o},
         \A m \in Member : lock[m] \notin {None, o} => lock'[m] = lock[m],
         UNCHANGED <<spend, entries, lots, issued>>, runs' \in 0..MaxRuns,
         c.at = "check" => lock'[Anchor[c.k]] = o,
         \A m \in c.added : lock'[m] = o /\ Migrations(entries[m]) = {},
         \A m \in CustomersDeleted(c) :
           /\ lock'[m] = o
           /\ \A e \in entries[m] : \E p \in c.plan : p.entry = e
           /\ \A l \in lots[m] : \E p \in c.plan : p.entry.id = l.entry
  PROVE  Inv'
<1>1. entries' \in [Member -> SUBSET Entry] /\ lots' \in [Member -> SUBSET Lot]
  BY DEF Inv, Shapes
<1>2. /\ Shapes' /\ Checked' /\ Inspected' /\ Cleared'
      /\ \A q \in Operator :
           /\ op'[q].at \in At /\ op'[q].k \in 1..Len(Anchor) /\ op'[q].added \subseteq Cohort
           /\ \A p \in op'[q].plan : p.member \in Cohort /\ p.entry \in Entry
  BY <1>1, OperatorMoves
<1>3. TypeOK' /\ OneEach'
  BY <1>2 DEF Inv, TypeOK, OneEach, Migrations
<1> QED  BY <1>2, <1>3 DEF Inv

\* The transaction's end gives its rows free.
LEMMA HeldIs ==
  ASSUME Inv, NEW o \in Operator
  PROVE  /\ Held(o) \in [Member -> Operator \cup {None}]
         /\ \A m \in Member : Held(o)[m] = IF lock[m] = o THEN None ELSE lock[m]
BY DEF Held, Inv, TypeOK

LEMMA IdleIs == Proper(Idle) /\ Idle.at = "idle" /\ Idle.added = {} /\ CustomersDeleted(Idle) = {}
<1>1. Idle \in OpState /\ Idle.at = "idle" /\ Idle.added = {}
  BY AnchorIs DEF Idle, OpState, At
<1> QED  BY <1>1 DEF Proper, Deleting, CustomersDeleted

LEMMA RollbackKeeps ==
  ASSUME Inv, NEW o \in Operator, Rollback(o)
  PROVE  Inv'
<1>1. /\ op' = [op EXCEPT ![o] = Idle] /\ lock' = Held(o)
      /\ UNCHANGED <<spend, entries, lots, issued, runs>>
  BY DEF Rollback
<1>2. runs' \in 0..MaxRuns
  BY <1>1 DEF Inv, TypeOK
<1> QED  BY <1>1, <1>2, HeldIs, IdleIs, WritesNothing

\* The next statement of a script that neither locks nor writes.
LEMMA GoesOn ==
  ASSUME Inv, NEW o \in Operator, NEW c, op' = [op EXCEPT ![o] = c], Proper(c),
         UNCHANGED <<tables, lock, live, issued, runs>>,
         c.at # "check", c.added = op[o].added, CustomersDeleted(c) = {}
  PROVE  Inv'
<1>1. /\ lock' \in [Member -> Operator \cup {None}] /\ runs' \in 0..MaxRuns
      /\ UNCHANGED <<spend, entries, lots, issued>>
  BY DEF Inv, TypeOK, tables
<1>2. \A m \in c.added : lock'[m] = o /\ Migrations(entries[m]) = {}
  BY DEF Inv, Checked
<1> QED  BY <1>1, <1>2, WritesNothing

\* A script begins, or comes to the first member of its next phase.
LEMMA PhaseBegins ==
  ASSUME Inv, NEW o \in Operator, NEW c \in OpState, op' = [op EXCEPT ![o] = c],
         UNCHANGED <<tables, lock, live, issued>>, runs' \in 0..MaxRuns,
         c.at \notin {"check", "decide", "reverted"}, c.k = 1,
         c.added \in {{}, op[o].added},
         c.at \in Deleting => \A m \in Cohort : Covers(c, m)
  PROVE  Inv'
<1>1. Proper(c) /\ CustomersDeleted(c) = {}
  BY AnchorIs DEF Proper, CustomersDeleted
<1>2. /\ lock' \in [Member -> Operator \cup {None}] /\ UNCHANGED <<spend, entries, lots, issued>>
      /\ \A m \in c.added : lock'[m] = o /\ Migrations(entries[m]) = {}
  BY DEF Inv, TypeOK, Checked, tables
<1> QED  BY <1>1, <1>2, WritesNothing

\* The commit of a script's writes, to rows it holds or to take rows away.
LEMMA Commits ==
  ASSUME Inv, NEW o \in Operator, op' = [op EXCEPT ![o] = Idle], lock' = Held(o),
         entries' \in [Member -> SUBSET Entry], lots' \in [Member -> SUBSET Lot],
         \A m \in Member : lock[m] # o => entries'[m] \subseteq entries[m]
                                         /\ lots'[m] \subseteq lots[m]
  PROVE  /\ Shapes' /\ Checked' /\ Inspected' /\ Cleared'
         /\ \A q \in Operator :
              /\ op'[q].at \in At /\ op'[q].k \in 1..Len(Anchor) /\ op'[q].added \subseteq Cohort
              /\ \A p \in op'[q].plan : p.member \in Cohort /\ p.entry \in Entry
<1> DEFINE c == Idle
<1>1. Proper(c) /\ c.at # "check" /\ c.added = {} /\ CustomersDeleted(c) = {}
  BY IdleIs
<1>2. /\ lock' \in [Member -> Operator \cup {None}]
      /\ \A m \in Member : lock[m] # o => lock'[m] \in {lock[m], o}
      /\ \A m \in Member : lock[m] \notin {None, o} => lock'[m] = lock[m]
  BY HeldIs
<1>3. op' = [op EXCEPT ![o] = c]
  OBVIOUS
<1> HIDE DEF c
<1> QED  BY <1>1, <1>2, <1>3, OperatorMoves

-----------------------------------------------------------------------------
\* The scripts.

LEMMA StartKeeps ==
  ASSUME Inv, NEW o \in Operator, StartBackfill(o) \/ StartRecovery(o)
  PROVE  Inv'
<1>1. /\ runs' = runs + 1 /\ runs < MaxRuns /\ UNCHANGED <<tables, lock, live, issued>>
  BY DEF StartBackfill, StartRecovery
<1>2. runs' \in 0..MaxRuns
  BY <1>1, MigrationAssumption DEF Inv, TypeOK
<1>3. Idle \in OpState /\ Idle.k = 1 /\ Idle.added = {}
  BY IdleIs, AnchorIs DEF Proper, Idle
<1>4. CASE StartBackfill(o)
  <2> DEFINE c == [Idle EXCEPT !.at = "upsert"]
  <2>1. c \in OpState /\ c.at = "upsert" /\ c.k = 1 /\ c.added = {}
    BY <1>3 DEF OpState, At
  <2>2. op' = [op EXCEPT ![o] = c]
    BY <1>4 DEF StartBackfill
  <2> HIDE DEF c
  <2> QED  BY <1>1, <1>2, <2>1, <2>2, PhaseBegins DEF Deleting
<1>5. CASE StartRecovery(o)
  <2>1. PICK execute \in BOOLEAN :
          op' = [op EXCEPT ![o] = [Idle EXCEPT !.at = "count", !.execute = execute]]
    BY <1>5 DEF StartRecovery
  <2> DEFINE c == [Idle EXCEPT !.at = "count", !.execute = execute]
  <2>2. c \in OpState /\ c.at = "count" /\ c.k = 1 /\ c.added = {}
    BY <1>3 DEF OpState, At
  <2>3. op' = [op EXCEPT ![o] = c]
    BY <2>1
  <2> HIDE DEF c
  <2> QED  BY <1>1, <1>2, <2>2, <2>3, PhaseBegins DEF Deleting
<1> QED  BY <1>4, <1>5

LEMMA UpsertKeeps ==
  ASSUME Inv, NEW o \in Operator, Upsert(o)
  PROVE  Inv'
<1> DEFINE m == Mine(o)
           c == Goto(o, "check", op[o].k)
<1>1. /\ op[o].at = "upsert" /\ lock[m] \in {None, o} /\ lock' = [lock EXCEPT ![m] = o]
      /\ op' = [op EXCEPT ![o] = c] /\ UNCHANGED <<spend, entries, lots, issued, runs>>
  BY DEF Upsert, Free, tables
<1>2. op[o] \in OpState /\ m \in Member /\ m = Anchor[op[o].k]
  BY OperatorIs DEF Mine, Proper
<1>3. c \in OpState /\ c.at = "check" /\ c.k = op[o].k /\ c.added = op[o].added
  BY <1>2 DEF Goto, OpState, At
<1> HIDE DEF c, m
<1>4. Proper(c) /\ CustomersDeleted(c) = {}
  BY <1>3 DEF Proper, Deleting, CustomersDeleted
<1>5. /\ lock' \in [Member -> Operator \cup {None}] /\ lock'[m] = o
      /\ \A n \in Member : n # m => lock'[n] = lock[n]
      /\ runs' \in 0..MaxRuns
  BY <1>1, <1>2 DEF Inv, TypeOK
<1>6. \A n \in c.added : lock'[n] = o /\ Migrations(entries[n]) = {}
  <2>1. \A n \in c.added : n \in Member /\ lock[n] = o /\ Migrations(entries[n]) = {}
    BY <1>2, <1>3, AnchorIs DEF OpState, Inv, Checked
  <2> QED  BY <1>5, <2>1
<1> QED  BY <1>1, <1>2, <1>3, <1>4, <1>5, <1>6, WritesNothing

LEMMA CheckKeeps ==
  ASSUME Inv, NEW o \in Operator, Check(o)
  PROVE  Inv'
<1> DEFINE more == [op[o] EXCEPT !.added = @ \cup {Mine(o)}]
           rec == IF Migrations(entries[Mine(o)]) # {} THEN op[o] ELSE more
           c == NextMember(o, rec, "upsert", "reconcile")
<1>1. /\ op[o].at = "check" /\ op' = [op EXCEPT ![o] = c] /\ lock' = lock
      /\ UNCHANGED <<spend, entries, lots, issued, runs>>
  BY DEF Check, tables
<1>2. /\ op[o] \in OpState /\ Mine(o) \in Cohort /\ lock[Mine(o)] = o
      /\ lock' \in [Member -> Operator \cup {None}] /\ runs' \in 0..MaxRuns
  BY <1>1, OperatorIs DEF Inv, Checked, TypeOK, Proper
<1>3. more \in OpState /\ more.added = op[o].added \cup {Mine(o)}
  BY <1>2 DEF OpState
<1>4. /\ rec \in OpState
      /\ \A m \in rec.added : lock[m] = o /\ Migrations(entries[m]) = {}
  BY <1>2, <1>3 DEF Inv, Checked
<1> HIDE DEF more, rec
<1>5. c \in OpState /\ c.added = rec.added /\ c.at \in {"upsert", "reconcile"}
  <2>1. "upsert" \in At /\ "reconcile" \in At
    BY DEF At
  <2> QED  BY <1>4, <2>1, NextMemberIs
<1> HIDE DEF c
<1>6. Proper(c) /\ CustomersDeleted(c) = {}
  BY <1>5 DEF Proper, Deleting, CustomersDeleted
<1> QED  BY <1>1, <1>2, <1>4, <1>5, <1>6, WritesNothing

\* The phases that end with a decision over the whole cohort.
LEMMA PhaseEnds ==
  ASSUME Inv, NEW o \in Operator, NEW at \in {"ledger", "deleteLots"},
         op' = [op EXCEPT ![o] = Goto(o, at, 1)], UNCHANGED <<tables, lock, live, issued, runs>>,
         at = "deleteLots" => \A m \in Cohort : Covers(op[o], m)
  PROVE  Inv'
<1> DEFINE c == Goto(o, at, 1)
<1>1. op[o] \in OpState /\ runs' \in 0..MaxRuns
  BY OperatorIs DEF Proper, Inv, TypeOK
<1>2. c \in OpState /\ c.at = at /\ c.k = 1 /\ c.added = op[o].added /\ c.plan = op[o].plan
  BY <1>1, AnchorIs DEF Goto, OpState, At
<1>3. op' = [op EXCEPT ![o] = c]
  OBVIOUS
<1> HIDE DEF c
<1> QED  BY <1>1, <1>2, <1>3, PhaseBegins DEF Covers, Deleting

LEMMA ReconcileKeeps ==
  ASSUME Inv, NEW o \in Operator, Reconcile(o)
  PROVE  Inv'
<1> DEFINE m == Mine(o)
           refused == op[o].refused \/ ~Reconciles(o, m)
           summed == op[o].summed \cup {<<m, e>> : e \in entries[m]}
           r == [op[o] EXCEPT !.refused = refused, !.summed = summed]
           c == NextMember(o, r, "reconcile", "backfilled")
<1>1. op[o] \in OpState /\ m \in Member /\ entries[m] \in SUBSET Entry
  BY OperatorIs DEF Proper, Inv, Shapes
<1>2. op' = [op EXCEPT ![o] = c] /\ UNCHANGED <<tables, lock, live, issued, runs>>
  BY Zenon DEF Reconcile
<1>3. refused \in BOOLEAN /\ summed \in SUBSET (Member \X Entry)
  <2>1. op[o].refused \in BOOLEAN /\ op[o].summed \in SUBSET (Member \X Entry)
    BY <1>1 DEF OpState
  <2> HIDE DEF m
  <2> QED  BY <1>1, <2>1
<1> HIDE DEF refused, summed
<1>4. r \in OpState /\ r.added = op[o].added
  BY <1>1, <1>3 DEF OpState
<1> HIDE DEF r
<1>5. c \in OpState /\ c.added = op[o].added /\ c.at \in {"reconcile", "backfilled"}
  <2>1. "reconcile" \in At /\ "backfilled" \in At
    BY DEF At
  <2> QED  BY <1>4, <2>1, NextMemberIs
<1> HIDE DEF c
<1>6. Proper(c) /\ CustomersDeleted(c) = {}
  BY <1>5 DEF Proper, Deleting, CustomersDeleted
<1> QED  BY <1>2, <1>5, <1>6, GoesOn

LEMMA CheckTotalKeeps ==
  ASSUME Inv, NEW o \in Operator, CheckTotal(o)
  PROVE  Inv'
BY PhaseEnds, RollbackKeeps DEF CheckTotal

LEMMA DecideKeeps ==
  ASSUME Inv, NEW o \in Operator, Decide(o)
  PROVE  Inv'
<1>1. CASE op[o].refused
  BY <1>1, RollbackKeeps DEF Decide
<1>2. CASE ~op[o].refused
  <2>1. \A m \in Cohort : Covers(op[o], m)
    BY <1>2 DEF Decide, Inv, Inspected
  <2> QED  BY <2>1, PhaseEnds, RollbackKeeps DEF Decide
<1> QED  BY <1>1, <1>2

LEMMA CountKeeps ==
  ASSUME Inv, NEW o \in Operator, Count(o)
  PROVE  Inv'
<1> DEFINE n == Len(op[o].census)
           counted == CASE n = 0 -> Cardinality(Known)
                        [] n = 1 -> Rows(entries)
                        [] OTHER -> Rows(lots)
           agrees == counted = Len(Anchor)
           at == IF n = 2 THEN "find" ELSE "count"
           census == Append(op[o].census, agrees)
           c == [op[o] EXCEPT !.census = census, !.at = at]
<1>1. op[o] \in OpState
  BY OperatorIs DEF Proper
<1>2. op' = [op EXCEPT ![o] = c] /\ UNCHANGED <<tables, lock, live, issued, runs>>
  BY Zenon DEF Count
<1>3. agrees \in BOOLEAN /\ at \in {"find", "count"}
  OBVIOUS
<1> HIDE DEF agrees, at
<1>6. census \in Seq(BOOLEAN)
  BY <1>1, <1>3 DEF OpState
<1> HIDE DEF census
<1>4. c \in OpState /\ c.at = at /\ c.added = op[o].added
  BY <1>1, <1>3, <1>6 DEF OpState, At
<1> HIDE DEF c
<1>5. Proper(c) /\ CustomersDeleted(c) = {}
  BY <1>3, <1>4 DEF Proper, Deleting, CustomersDeleted
<1> QED  BY <1>2, <1>3, <1>4, <1>5, GoesOn

LEMMA FindKeeps ==
  ASSUME Inv, NEW o \in Operator, Find(o)
  PROVE  Inv'
<1> DEFINE refused == op[o].refused \/ spend[Mine(o)] = Absent
           r == [op[o] EXCEPT !.refused = refused]
           c == NextMember(o, r, "find", "total")
<1>1. op[o] \in OpState
  BY OperatorIs DEF Proper
<1>2. op' = [op EXCEPT ![o] = c] /\ UNCHANGED <<tables, lock, live, issued, runs>>
  BY Zenon DEF Find
<1>6. refused \in BOOLEAN
  OBVIOUS
<1> HIDE DEF refused
<1>3. r \in OpState /\ r.added = op[o].added
  BY <1>1, <1>6 DEF OpState
<1> HIDE DEF r
<1>4. c \in OpState /\ c.at \in {"find", "total"} /\ c.added = op[o].added
  <2>1. "find" \in At /\ "total" \in At
    BY DEF At
  <2> QED  BY <1>3, <2>1, NextMemberIs
<1> HIDE DEF c
<1>5. Proper(c) /\ CustomersDeleted(c) = {}
  BY <1>4 DEF Proper, Deleting, CustomersDeleted
<1> QED  BY <1>2, <1>4, <1>5, GoesOn

LEMMA ReadLedgerKeeps ==
  ASSUME Inv, NEW o \in Operator, ReadLedger(o)
  PROVE  Inv'
<1> DEFINE r == Goto(o, "lots", op[o].k)
           c == [r EXCEPT !.saw = entries[Mine(o)]]
<1>1. Proper(op[o]) /\ op[o].at = "ledger" /\ entries[Mine(o)] \subseteq Entry
  BY OperatorIs DEF ReadLedger, Inv, TypeOK
<1>2. op' = [op EXCEPT ![o] = c] /\ UNCHANGED <<tables, lock, live, issued, runs>>
  BY DEF ReadLedger
<1>3. /\ r \in OpState /\ r.at = "lots" /\ r.k = op[o].k /\ r.added = op[o].added
      /\ r.plan = op[o].plan /\ r.refused = op[o].refused
  BY <1>1 DEF Goto, Proper, OpState, At
<1> HIDE DEF r
<1>4. /\ c \in OpState /\ c.at = "lots" /\ c.k = op[o].k /\ c.added = op[o].added
      /\ c.plan = op[o].plan /\ c.refused = op[o].refused
  BY <1>1, <1>3 DEF OpState
<1> HIDE DEF c
<1>5. Proper(c) /\ CustomersDeleted(c) = {}
  BY <1>1, <1>4 DEF Proper, Deleting, Covers, CustomersDeleted
<1> QED  BY <1>2, <1>4, <1>5, GoesOn

LEMMA ReadLotsKeeps ==
  ASSUME Inv, NEW o \in Operator, ReadLots(o)
  PROVE  Inv'
<1> DEFINE m == Mine(o)
           found == {[member |-> m, entry |-> e, lot |-> l] : e \in op[o].saw, l \in lots[m]}
           plan == {p \in found : AsWritten(o, p.entry, p.lot)}
           refused == op[o].refused \/ plan = {}
           all == op[o].plan \cup plan
           r == [op[o] EXCEPT !.plan = all, !.refused = refused, !.saw = {}]
           c == NextMember(o, r, "ledger", "decide")
<1>1. /\ Proper(op[o]) /\ op[o].at = "lots" /\ m \in Cohort /\ m = Anchor[op[o].k]
      /\ lots[m] \subseteq Lot
  BY OperatorIs DEF ReadLots, Inv, TypeOK, Mine
<1>2. op' = [op EXCEPT ![o] = c] /\ UNCHANGED <<tables, lock, live, issued, runs>>
  BY DEF ReadLots
<1>3. refused \in BOOLEAN
  OBVIOUS
<1>4. plan \subseteq PlanItem /\ \A p \in plan : p.member = m
  BY <1>1 DEF PlanItem, Proper, OpState
<1>5. ~refused => ~op[o].refused /\ \E p \in plan : TRUE
  OBVIOUS
<1> HIDE DEF plan, refused
<1>6. all \in SUBSET PlanItem /\ plan \subseteq all /\ op[o].plan \subseteq all
  BY <1>1, <1>4 DEF Proper, OpState
<1> HIDE DEF all, m
<1>7. /\ r \in OpState /\ r.added = op[o].added /\ r.plan = all /\ r.refused = refused
      /\ r.k = op[o].k
  BY <1>1, <1>3, <1>6 DEF Proper, OpState
<1> HIDE DEF r
<1>8. /\ c \in OpState /\ c.added = op[o].added /\ c.plan = all /\ c.refused = refused
      /\ \/ c.at = "ledger" /\ c.k = op[o].k + 1
         \/ c.at = "decide" /\ c.k = 1 /\ op[o].k = Len(Anchor)
  <2>1. "ledger" \in At /\ "decide" \in At
    BY DEF At
  <2> QED  BY <1>7, <2>1, NextMemberIs
<1> HIDE DEF c
<1>9. ~refused => \A i \in 1..op[o].k : Covers(c, Anchor[i])
  <2> SUFFICES ASSUME ~refused, NEW i \in 1..op[o].k
               PROVE  Covers(c, Anchor[i])
    OBVIOUS
  <2>1. op[o].k \in 1..Len(Anchor)
    BY <1>1 DEF Proper, OpState
  <2>2. CASE i = op[o].k
    BY <1>1, <1>4, <1>5, <1>6, <1>8, <2>2 DEF Covers
  <2>3. CASE i # op[o].k
    <3>1. i \in 1..(op[o].k - 1)
      BY <2>1, <2>3, AnchorIs
    <3>2. Covers(op[o], Anchor[i])
      BY <1>1, <1>5, <3>1 DEF Proper
    <3> QED  BY <1>6, <1>8, <3>2 DEF Covers
  <2> QED  BY <2>2, <2>3
<1>10. Proper(c)
  <2>1. CASE c.at = "ledger" /\ c.k = op[o].k + 1
    <3>1. c.k - 1 = op[o].k
      BY <1>1, <2>1, AnchorIs DEF Proper, OpState
    <3> QED  BY <1>8, <1>9, <2>1, <3>1 DEF Proper, Deleting
  <2>2. CASE c.at = "decide" /\ op[o].k = Len(Anchor)
    BY <1>8, <1>9, <2>2, AnchorIs DEF Proper, Deleting
  <2> QED  BY <1>8, <2>1, <2>2
<1>11. CustomersDeleted(c) = {}
  BY <1>8 DEF CustomersDeleted
<1> QED  BY <1>2, <1>8, <1>10, <1>11, GoesOn

LEMMA DeleteKeeps ==
  ASSUME Inv, NEW o \in Operator, DeleteLot(o) \/ DeleteEntry(o)
  PROVE  Inv'
<1>1. PICK at \in {"deleteLots", "deleteEntries"}, then \in {"deleteEntries", "deleteCustomers"} :
        /\ at # then /\ op[o].at = at
        /\ \/ Rollback(o)
           \/ /\ op' = [op EXCEPT ![o] = NextMember(o, op[o], at, then)]
              /\ UNCHANGED <<tables, lock, live, issued, runs>>
  BY DEF DeleteLot, DeleteEntry, Delete
<1>2. CASE Rollback(o)
  BY <1>2, RollbackKeeps
<1>3. CASE /\ op' = [op EXCEPT ![o] = NextMember(o, op[o], at, then)]
           /\ UNCHANGED <<tables, lock, live, issued, runs>>
  <2> DEFINE c == NextMember(o, op[o], at, then)
  <2>1. Proper(op[o]) /\ at \in At /\ then \in At
    BY OperatorIs DEF At
  <2>2. /\ c \in OpState /\ c.added = op[o].added /\ c.plan = op[o].plan
        /\ c.at \in {at, then} /\ (c.at = then => c.k = 1 \/ then = at)
    BY <2>1, NextMemberIs DEF Proper
  <2> HIDE DEF c
  <2>3. Proper(c)
    BY <1>1, <2>1, <2>2 DEF Proper, Deleting, Covers
  <2>4. CustomersDeleted(c) = {}
    BY <1>1, <2>2 DEF CustomersDeleted
  <2>5. op' = [op EXCEPT ![o] = c]
    BY <1>3 DEF c
  <2> QED  BY <1>1, <1>3, <2>2, <2>3, <2>4, <2>5, GoesOn
<1> QED  BY <1>1, <1>2, <1>3

\* The row goes only when nothing but the planned entry and its lot point at it, and from
\* then on nobody can write to the member.
LEMMA DeleteCustomerKeeps ==
  ASSUME Inv, NEW o \in Operator, DeleteCustomer(o)
  PROVE  Inv'
<1> DEFINE m == Mine(o)
           c == NextMember(o, op[o], "deleteCustomers", "reverted")
<1>1. CASE Rollback(o)
  BY <1>1, RollbackKeeps
<1>2. CASE /\ ~Referenced(o) /\ lock' = [lock EXCEPT ![m] = o]
           /\ op' = [op EXCEPT ![o] = c] /\ UNCHANGED <<tables, live, issued, runs>>
  <2>1. /\ Proper(op[o]) /\ op[o].at = "deleteCustomers" /\ lock[m] \in {None, o}
        /\ m \in Cohort /\ m \in Member /\ m = Anchor[op[o].k]
    BY OperatorIs DEF DeleteCustomer, Free, Mine
  <2>2. /\ c \in OpState /\ c.added = op[o].added /\ c.plan = op[o].plan
        /\ \/ c.at = "deleteCustomers" /\ c.k = op[o].k + 1
           \/ c.at = "reverted" /\ c.k = 1 /\ op[o].k = Len(Anchor)
    <3>1. "deleteCustomers" \in At /\ "reverted" \in At
      BY DEF At
    <3> QED  BY <2>1, <3>1, NextMemberIs DEF Proper
  <2>3. op' = [op EXCEPT ![o] = c]
    BY <1>2
  <2> HIDE DEF c
  <2>4. Proper(c)
    BY <2>1, <2>2 DEF Proper, Deleting, Covers
  <2>5. Planned(o) \in op[o].plan
    <3>1. Covers(op[o], m)
      BY <2>1 DEF Proper, Deleting
    <3> QED  BY <3>1 DEF Covers, Planned
  <2>6. /\ \A e \in entries[m] : \E p \in op[o].plan : p.entry = e
        /\ \A l \in lots[m] : \E p \in op[o].plan : p.entry.id = l.entry
    BY <1>2, <2>5 DEF Referenced
  <2>7. \A n \in CustomersDeleted(c) : n = m \/ n \in CustomersDeleted(op[o])
    <3> SUFFICES ASSUME NEW n \in CustomersDeleted(c), n # m
                 PROVE  n \in CustomersDeleted(op[o])
      OBVIOUS
    <3>1. n \in Cohort /\ op[o].k \in 1..Len(Anchor) /\ Len(Anchor) \in Nat
      BY <2>1, AnchorIs DEF CustomersDeleted, Proper, OpState
    <3>2. PICK i \in 1..op[o].k : n = Anchor[i]
      BY <2>2, <3>1, AnchorIs DEF CustomersDeleted
    <3>3. i \in 1..(op[o].k - 1)
      BY <2>1, <3>1, <3>2
    <3> QED  BY <2>1, <3>1, <3>2, <3>3 DEF CustomersDeleted
  <2>8. /\ lock' \in [Member -> Operator \cup {None}] /\ lock'[m] = o /\ runs' \in 0..MaxRuns
        /\ \A n \in Member : n # m => lock'[n] = lock[n]
        /\ UNCHANGED <<spend, entries, lots, issued>>
    BY <1>2, <2>1 DEF Inv, TypeOK, tables
  <2> HIDE DEF m
  <2>9. \A n \in CustomersDeleted(c) :
          /\ lock'[n] = o
          /\ \A e \in entries[n] : \E p \in c.plan : p.entry = e
          /\ \A l \in lots[n] : \E p \in c.plan : p.entry.id = l.entry
    <3>1. \A n \in CustomersDeleted(op[o]) :
            /\ lock[n] = o /\ n \in Member
            /\ \A e \in entries[n] : \E p \in op[o].plan : p.entry = e
            /\ \A l \in lots[n] : \E p \in op[o].plan : p.entry.id = l.entry
      BY AnchorIs DEF Inv, Cleared, CustomersDeleted
    <3> QED  BY <2>2, <2>6, <2>7, <2>8, <3>1
  <2>10. \A n \in c.added : lock'[n] = o /\ Migrations(entries[n]) = {}
    <3>1. \A n \in op[o].added : n \in Member /\ lock[n] = o /\ Migrations(entries[n]) = {}
      BY <2>1, AnchorIs DEF Inv, Checked, Proper, OpState
    <3>2. \A n \in Member : lock[n] = o => lock'[n] = o
      BY <2>8
    <3>3. c.added = op[o].added
      BY <2>2
    <3> QED  BY <3>1, <3>2, <3>3
  <2>11. /\ \A n \in Member : lock[n] # o => lock'[n] \in {lock[n], o}
         /\ \A n \in Member : lock[n] \notin {None, o} => lock'[n] = lock[n]
    BY <2>1, <2>8
  <2>12. c.at # "check" /\ UNCHANGED <<spend, entries, lots, issued>>
    BY <2>2, <2>8
  <2> QED  BY <2>3, <2>4, <2>8, <2>9, <2>10, <2>11, <2>12, WritesNothing
<1> QED  BY <1>1, <1>2 DEF DeleteCustomer

\* The backfill gives an entry to the members it found without one, whose rows it has held
\* ever since.
LEMMA CommitBackfillKeeps ==
  ASSUME Inv, NEW o \in Operator, CommitBackfill(o)
  PROVE  Inv'
<1> DEFINE new(m) == [id |-> EntryId(m), kind |-> "migration", points |-> Opening]
           lot(m) == [entry |-> EntryId(m), original |-> Opening, remaining |-> Opening]
           added == op[o].added
<1>1. /\ spend' = [m \in Member |-> IF m \in Cohort THEN Exported ELSE spend[m]]
      /\ entries' = [m \in Member |-> IF m \in added THEN entries[m] \cup {new(m)} ELSE entries[m]]
      /\ lots' = [m \in Member |-> IF m \in added THEN lots[m] \cup {lot(m)} ELSE lots[m]]
      /\ issued' = issued + (IF added = {} THEN 0 ELSE Len(Anchor))
      /\ op' = [op EXCEPT ![o] = Idle] /\ lock' = Held(o) /\ UNCHANGED runs
  BY DEF CommitBackfill
<1>2. /\ added \subseteq Cohort /\ added \subseteq Member
      /\ \A m \in added : lock[m] = o /\ Migrations(entries[m]) = {}
  BY OperatorIs, AnchorIs DEF Proper, OpState, Inv, Checked
<1>3. \A m \in Cohort : EntryId(m) \in Nat
  <2> SUFFICES ASSUME NEW m \in Cohort
               PROVE  EntryId(m) \in Nat
    OBVIOUS
  <2>1. (CHOOSE i \in 1..Len(Anchor) : Anchor[i] = m) \in 1..Len(Anchor)
    BY AnchorIs
  <2> QED  BY <2>1, AnchorIs DEF EntryId, Inv, TypeOK
<1>4. \A m \in Cohort : /\ new(m) \in Entry /\ new(m).kind = "migration"
                         /\ lot(m) \in Lot /\ lot(m).remaining <= lot(m).original
  BY <1>3, MigrationAssumption DEF Entry, Lot
<1> HIDE DEF new, lot, added
<1>5. /\ entries' \in [Member -> SUBSET Entry] /\ lots' \in [Member -> SUBSET Lot]
      /\ \A m \in Member : lock[m] # o => entries'[m] = entries[m] /\ lots'[m] = lots[m]
  BY <1>1, <1>2, <1>4 DEF Inv, Shapes
<1>6. /\ Shapes' /\ Checked' /\ Inspected' /\ Cleared'
      /\ \A q \in Operator :
           /\ op'[q].at \in At /\ op'[q].k \in 1..Len(Anchor) /\ op'[q].added \subseteq Cohort
           /\ \A p \in op'[q].plan : p.member \in Cohort /\ p.entry \in Entry
  BY <1>1, <1>5, Commits
<1>7. TypeOK'
  <2>1. spend' \in [Member -> Nat \cup {Absent}]
    BY <1>1, MigrationAssumption DEF Inv, TypeOK
  <2>2. \A m \in Member : \A l \in lots'[m] : l.remaining <= l.original
    BY <1>1, <1>2, <1>4 DEF Inv, TypeOK
  <2>3. \A m \in Member : spend'[m] = Absent => entries'[m] = {} /\ lots'[m] = {}
    BY <1>1, <1>2, MigrationAssumption DEF Inv, TypeOK, Absent
  <2>4. lock' \in [Member -> Operator \cup {None}] /\ issued' \in Nat /\ runs' \in 0..MaxRuns
    BY <1>1, HeldIs, AnchorIs DEF Inv, TypeOK
  <2> QED  BY <1>5, <1>6, <2>1, <2>2, <2>3, <2>4 DEF TypeOK
<1>8. OneEach'
  <2> SUFFICES ASSUME NEW m \in Member, NEW e \in Migrations(entries'[m]),
                      NEW f \in Migrations(entries'[m])
               PROVE  e = f
    BY DEF OneEach, Migrations
  <2>1. CASE m \in added
    BY <1>1, <1>2, <2>1 DEF Migrations
  <2>2. CASE m \notin added
    BY <1>1, <2>2 DEF Inv, OneEach, Migrations
  <2> QED  BY <2>1, <2>2
<1> QED  BY <1>6, <1>7, <1>8 DEF Inv

\* The reversal takes every row of the cohort's members, all of which it holds.
LEMMA CommitRecoveryKeeps ==
  ASSUME Inv, NEW o \in Operator, CommitRecovery(o)
  PROVE  Inv'
<1> DEFINE plan == op[o].plan
<1>1. /\ op[o].at = "reverted"
      /\ spend' = [m \in Member |-> IF m \in Cohort THEN Absent ELSE spend[m]]
      /\ entries' = [m \in Member |-> entries[m] \ {p.entry : p \in plan}]
      /\ lots' = [m \in Member |-> {l \in lots[m] : \A p \in plan : l.entry # p.entry.id}]
      /\ op' = [op EXCEPT ![o] = Idle] /\ lock' = Held(o) /\ UNCHANGED <<issued, runs>>
  BY DEF CommitRecovery
<1>2. \A m \in Cohort : m \in Member /\ entries'[m] = {} /\ lots'[m] = {}
  <2> SUFFICES ASSUME NEW m \in Cohort
               PROVE  m \in Member /\ entries'[m] = {} /\ lots'[m] = {}
    OBVIOUS
  <2>1. m \in Member /\ m \in CustomersDeleted(op[o])
    BY <1>1, AnchorIs DEF CustomersDeleted
  <2>2. /\ \A e \in entries[m] : \E p \in plan : p.entry = e
        /\ \A l \in lots[m] : \E p \in plan : p.entry.id = l.entry
    BY <2>1 DEF Inv, Cleared
  <2> QED  BY <1>1, <2>1, <2>2
<1>3. \A m \in Member : entries'[m] \subseteq entries[m] /\ lots'[m] \subseteq lots[m]
  BY <1>1
<1>4. entries' \in [Member -> SUBSET Entry] /\ lots' \in [Member -> SUBSET Lot]
  BY <1>1, <1>3 DEF Inv, Shapes
<1>5. /\ Shapes' /\ Checked' /\ Inspected' /\ Cleared'
      /\ \A q \in Operator :
           /\ op'[q].at \in At /\ op'[q].k \in 1..Len(Anchor) /\ op'[q].added \subseteq Cohort
           /\ \A p \in op'[q].plan : p.member \in Cohort /\ p.entry \in Entry
  BY <1>1, <1>3, <1>4, Commits
<1>6. TypeOK'
  <2>1. spend' \in [Member -> Nat \cup {Absent}]
    BY <1>1 DEF Inv, TypeOK
  <2>2. \A m \in Member : \A l \in lots'[m] : l.remaining <= l.original
    BY <1>3 DEF Inv, TypeOK
  <2>3. \A m \in Member : spend'[m] = Absent => entries'[m] = {} /\ lots'[m] = {}
    BY <1>1, <1>2, <1>3 DEF Inv, TypeOK
  <2>4. lock' \in [Member -> Operator \cup {None}] /\ issued' \in Nat /\ runs' \in 0..MaxRuns
    BY <1>1, HeldIs DEF Inv, TypeOK
  <2> QED  BY <1>4, <1>5, <2>1, <2>2, <2>3, <2>4 DEF TypeOK
<1>7. OneEach'
  BY <1>3 DEF Inv, OneEach, Migrations
<1> QED  BY <1>5, <1>6, <1>7 DEF Inv

-----------------------------------------------------------------------------
\* The live service.

\* What a live entry does to the lots: a credit brings one, a debit draws on one, and an
\* administrator's debit on none.
LotsFollow(m, e) ==
  \/ e.points > 0 /\ Fund(m, e)
  \/ /\ e.points < 0 /\ e.kind # "adjust"
     /\ \E l \in lots[m] : -e.points <= l.remaining /\ Draw(m, l, -e.points)
  \/ e.points < 0 /\ e.kind = "adjust" /\ UNCHANGED lots

\* A live transaction: an entry that is no migration entry, of a member whose row nobody
\* holds or of a kind that needs a key share only, and never of a row a script has deleted.
LiveEntry(m, e) ==
  /\ e.kind # "migration" /\ e.id = issued + 1
  /\ lock[m] = None \/ e.kind \in Shares
  /\ ~RefusesShares(m)
  /\ Commit(m, e) /\ LotsFollow(m, e)
  /\ spend' \in [Member -> Nat \cup {Absent}] /\ spend'[m] # Absent
  /\ \A n \in Member : n # m => spend'[n] = spend[n]

LEMMA NewIs ==
  ASSUME Inv, NEW kind \in {"earn", "spend"} \cup Shares, NEW points \in Int
  PROVE  /\ New(kind, points) \in Entry /\ New(kind, points).id = issued + 1
         /\ New(kind, points).kind = kind /\ kind # "migration" /\ New(kind, points).points = points
BY DEF New, Entry, Shares, Inv, TypeOK

LEMMA LiveIs ==
  ASSUME Inv, NEW m \in Member,
         Earn(m) \/ Redeem(m) \/ Adjust(m) \/ Clawback(m) \/ Expire(m)
  PROVE  \E e \in Entry : LiveEntry(m, e)
<1>1. lock[m] = None => ~RefusesShares(m)
  BY MigrationAssumption DEF RefusesShares
<1>2. \A l \in lots[m] : l \in Lot /\ l.remaining \in Nat
  BY DEF Inv, TypeOK, Lot
<1>3. ASSUME spend[m] # Absent, UNCHANGED spend
      PROVE  /\ spend' \in [Member -> Nat \cup {Absent}] /\ spend'[m] # Absent
             /\ \A n \in Member : n # m => spend'[n] = spend[n]
  BY <1>3 DEF Inv, TypeOK
<1>4. CASE Earn(m)
  <2> DEFINE e == New("earn", 1)
  <2>1. e \in Entry /\ e.id = issued + 1 /\ e.kind = "earn" /\ e.points = 1
    BY NewIs
  <2>2. /\ lock[m] = None /\ Commit(m, e) /\ Fund(m, e)
        /\ spend' = [spend EXCEPT ![m] = IF spend[m] = Absent THEN 1 ELSE spend[m] + 1]
    BY <1>4 DEF Earn
  <2> HIDE DEF e
  <2>3. /\ spend' \in [Member -> Nat \cup {Absent}] /\ spend'[m] # Absent
        /\ \A n \in Member : n # m => spend'[n] = spend[n]
    BY <2>2 DEF Inv, TypeOK, Absent
  <2> QED  BY <1>1, <2>1, <2>2, <2>3 DEF LiveEntry, LotsFollow
<1>5. CASE Redeem(m)
  <2> DEFINE e == New("spend", -1)
  <2>1. e \in Entry /\ e.id = issued + 1 /\ e.kind = "spend" /\ e.points = -1
    BY NewIs
  <2>2. lock[m] = None /\ Commit(m, e) /\ spend[m] # Absent /\ UNCHANGED spend
    BY <1>5 DEF Redeem
  <2>3. PICK l \in lots[m] : l.remaining > 0 /\ Draw(m, l, 1)
    BY <1>5 DEF Redeem, Oldest
  <2> HIDE DEF e
  <2>4. LotsFollow(m, e)
    BY <1>2, <2>1, <2>3 DEF LotsFollow
  <2> QED  BY <1>1, <1>3, <2>1, <2>2, <2>4 DEF LiveEntry
<1>6. CASE Adjust(m)
  <2>1. spend[m] # Absent /\ ~RefusesShares(m) /\ UNCHANGED spend
    BY <1>6 DEF Adjust, Sharing
  <2>2. CASE Commit(m, New("adjust", 1)) /\ Fund(m, New("adjust", 1))
    <3> DEFINE e == New("adjust", 1)
    <3>1. e \in Entry /\ e.id = issued + 1 /\ e.kind = "adjust" /\ e.points = 1
      BY NewIs DEF Shares
    <3>2. Commit(m, e) /\ Fund(m, e)
      BY <2>2
    <3> HIDE DEF e
    <3> QED  BY <1>3, <2>1, <3>1, <3>2 DEF LiveEntry, LotsFollow, Shares
  <2>3. CASE Commit(m, New("adjust", -1)) /\ UNCHANGED lots
    <3> DEFINE e == New("adjust", -1)
    <3>1. e \in Entry /\ e.id = issued + 1 /\ e.kind = "adjust" /\ e.points = -1
      BY NewIs DEF Shares
    <3>2. Commit(m, e) /\ UNCHANGED lots
      BY <2>3
    <3> HIDE DEF e
    <3> QED  BY <1>3, <2>1, <3>1, <3>2 DEF LiveEntry, LotsFollow, Shares
  <2> QED  BY <1>6, <2>2, <2>3 DEF Adjust
<1>7. CASE Clawback(m)
  <2> DEFINE e == New("clawback", -1)
  <2>1. e \in Entry /\ e.id = issued + 1 /\ e.kind = "clawback" /\ e.points = -1
    BY NewIs DEF Shares
  <2>2. Commit(m, e) /\ spend[m] # Absent /\ ~RefusesShares(m) /\ UNCHANGED spend
    BY <1>7 DEF Clawback, Sharing
  <2>3. PICK l \in lots[m] : l.remaining > 0 /\ Draw(m, l, 1)
    BY <1>7 DEF Clawback, Oldest
  <2> HIDE DEF e
  <2>4. LotsFollow(m, e)
    BY <1>2, <2>1, <2>3 DEF LotsFollow
  <2> QED  BY <1>3, <2>1, <2>2, <2>4 DEF LiveEntry, Shares
<1>8. CASE Expire(m)
  <2>1. PICK l \in lots[m] : l.remaining > 0 /\ Draw(m, l, l.remaining)
                             /\ Commit(m, New("expire", -l.remaining))
    BY <1>8 DEF Expire
  <2> DEFINE e == New("expire", -l.remaining)
  <2>2. -l.remaining \in Int
    BY <1>2
  <2>3. e \in Entry /\ e.id = issued + 1 /\ e.kind = "expire" /\ e.points = -l.remaining
    BY <2>2, NewIs DEF Shares
  <2>4. Commit(m, e) /\ spend[m] # Absent /\ ~RefusesShares(m) /\ UNCHANGED spend
    BY <1>8, <2>1 DEF Expire, Sharing
  <2> HIDE DEF e
  <2>5. LotsFollow(m, e)
    <3>1. -e.points = l.remaining /\ e.points < 0
      BY <1>2, <2>1, <2>3
    <3> QED  BY <1>2, <2>1, <2>3, <3>1 DEF LotsFollow
  <2> QED  BY <1>3, <2>3, <2>4, <2>5 DEF LiveEntry, Shares
<1> QED  BY <1>4, <1>5, <1>6, <1>7, <1>8

\* The lot a credit brings and the lot a debit leaves.
LEMMA FundIs ==
  ASSUME Inv, NEW m \in Member, NEW e \in Entry, e.points > 0, Fund(m, e)
  PROVE  \E l \in Lot : /\ l.entry = e.id /\ l.remaining = e.points /\ l.remaining <= l.original
                        /\ lots' = [lots EXCEPT ![m] = lots[m] \cup {l}]
<1> DEFINE l == [entry |-> e.id, original |-> e.points, remaining |-> e.points]
<1>1. l \in Lot /\ l.entry = e.id /\ l.remaining = e.points /\ l.remaining <= l.original
  BY DEF Entry, Lot
<1>2. lots' = [lots EXCEPT ![m] = lots[m] \cup {l}]
  BY DEF Fund
<1> HIDE DEF l
<1> QED  BY <1>1, <1>2

LEMMA DrawIs ==
  ASSUME Inv, NEW m \in Member, NEW l \in lots[m], NEW n \in Nat, n <= l.remaining, Draw(m, l, n)
  PROVE  \E j \in Lot : /\ j.entry = l.entry /\ j.remaining = l.remaining - n
                        /\ j.remaining <= j.original
                        /\ lots' = [lots EXCEPT ![m] = (lots[m] \ {l}) \cup {j}]
<1> DEFINE j == [l EXCEPT !.remaining = @ - n]
<1>1. l \in Lot /\ l.remaining <= l.original
  BY DEF Inv, TypeOK
<1>2. j \in Lot /\ j.entry = l.entry /\ j.remaining = l.remaining - n /\ j.remaining <= j.original
  BY <1>1 DEF Lot
<1>3. lots' = [lots EXCEPT ![m] = (lots[m] \ {l}) \cup {j}]
  BY DEF Draw
<1> HIDE DEF j
<1> QED  BY <1>2, <1>3

LEMMA LiveKeeps ==
  ASSUME Inv, NEW m \in Member, NEW e \in Entry, LiveEntry(m, e)
  PROVE  Inv'
<1>0. /\ e.kind # "migration" /\ ~RefusesShares(m)
      /\ entries' = [entries EXCEPT ![m] = entries[m] \cup {e}]
      /\ spend' \in [Member -> Nat \cup {Absent}] /\ spend'[m] # Absent
      /\ \A n \in Member : n # m => spend'[n] = spend[n]
      /\ issued' \in Nat /\ UNCHANGED <<lock, op, runs>>
  BY DEF LiveEntry, Commit, Entry
<1>1. PICK ls \in SUBSET Lot : /\ lots' = [lots EXCEPT ![m] = ls]
                               /\ \A l \in ls : l.remaining <= l.original
  <2>0. lots[m] \in SUBSET Lot /\ \A l \in lots[m] : l.remaining <= l.original
    BY DEF Inv, TypeOK
  <2>1. CASE e.points > 0 /\ Fund(m, e)
    <3>1. PICK l \in Lot : l.remaining <= l.original
                           /\ lots' = [lots EXCEPT ![m] = lots[m] \cup {l}]
      BY <2>1, FundIs
    <3>2. lots[m] \cup {l} \in SUBSET Lot /\ \A x \in lots[m] \cup {l} : x.remaining <= x.original
      BY <2>0, <3>1
    <3> QED  BY <3>1, <3>2
  <2>2. ASSUME e.points < 0, NEW l \in lots[m], -e.points <= l.remaining, Draw(m, l, -e.points)
        PROVE  \E ls \in SUBSET Lot : /\ lots' = [lots EXCEPT ![m] = ls]
                                      /\ \A x \in ls : x.remaining <= x.original
    <3>1. -e.points \in Nat
      BY <2>2 DEF Entry
    <3>2. PICK j \in Lot : j.remaining <= j.original
                           /\ lots' = [lots EXCEPT ![m] = (lots[m] \ {l}) \cup {j}]
      BY <2>2, <3>1, DrawIs
    <3> DEFINE ls == (lots[m] \ {l}) \cup {j}
    <3>3. ls \in SUBSET Lot /\ \A x \in ls : x.remaining <= x.original
      BY <2>0, <3>2
    <3> QED  BY <3>2, <3>3
  <2>3. CASE UNCHANGED lots
    <3>1. lots' = [lots EXCEPT ![m] = lots[m]]
      BY <2>3 DEF Inv, Shapes
    <3> QED  BY <2>0, <3>1
  <2> QED  BY <2>1, <2>2, <2>3 DEF LiveEntry, LotsFollow
<1>2. /\ \A n \in Member : n # m => entries'[n] = entries[n] /\ lots'[n] = lots[n]
      /\ entries'[m] = entries[m] \cup {e} /\ lots'[m] = ls
      /\ entries' \in [Member -> SUBSET Entry] /\ lots' \in [Member -> SUBSET Lot]
  BY <1>0, <1>1 DEF Inv, Shapes
<1>3. \A n \in Member : Migrations(entries'[n]) = Migrations(entries[n])
  BY <1>0, <1>2 DEF Migrations
<1>4. TypeOK'
  <2>1. \A n \in Member : /\ entries'[n] \subseteq Entry /\ lots'[n] \subseteq Lot
                          /\ \A l \in lots'[n] : l.remaining <= l.original
                          /\ spend'[n] = Absent => entries'[n] = {} /\ lots'[n] = {}
    BY <1>0, <1>1, <1>2 DEF Inv, TypeOK
  <2> QED  BY <1>0, <2>1 DEF Inv, TypeOK
<1>5. Shapes' /\ Inspected'
  BY <1>0, <1>2 DEF Inv, Shapes, Inspected
<1>6. Checked'
  <2>1. \A o \in Operator : \A n \in op[o].added : n \in Member
    BY OperatorIs, AnchorIs DEF Proper, OpState
  <2> QED  BY <1>0, <1>3, <2>1 DEF Inv, Checked, Mine
<1>7. Cleared'
  <2> SUFFICES ASSUME NEW o \in Operator, NEW n \in CustomersDeleted(op[o])
               PROVE  /\ lock[n] = o
                      /\ \A x \in entries'[n] : \E p \in op[o].plan : p.entry = x
                      /\ \A l \in lots'[n] : \E p \in op[o].plan : p.entry.id = l.entry
    BY <1>0 DEF Cleared, CustomersDeleted
  <2>1. /\ n \in Member /\ lock[n] = o /\ op[o].at \in {"deleteCustomers", "reverted"}
    BY AnchorIs DEF Inv, Cleared, CustomersDeleted
  <2>2. n # m
    BY <1>0, <2>1 DEF RefusesShares
  <2> QED  BY <1>2, <2>1, <2>2 DEF Inv, Cleared
<1>8. OneEach'
  <2>1. \A n \in Member : \A x, y \in Migrations(entries[n]) : x = y
    BY DEF Inv, OneEach
  <2> QED  BY <1>3, <2>1, Zenon DEF OneEach
<1> QED  BY <1>4, <1>5, <1>6, <1>7, <1>8 DEF Inv

-----------------------------------------------------------------------------
\* The specification.

LEMMA InitInv == Init => Inv
<1> SUFFICES ASSUME Init PROVE Inv
  OBVIOUS
<1> USE DEF Init
<1>1. TypeOK
  <2>1. spend \in [Member -> Nat \cup {Absent}] /\ lock \in [Member -> Operator \cup {None}]
    OBVIOUS
  <2>2. \A o \in Operator :
          /\ op[o].at \in At /\ op[o].k \in 1..Len(Anchor) /\ op[o].added \subseteq Cohort
          /\ op[o].plan = {}
    BY AnchorIs DEF Idle, At
  <2>3. issued \in Nat /\ runs \in 0..MaxRuns
    BY MigrationAssumption
  <2> QED  BY <2>1, <2>2, <2>3 DEF TypeOK
<1>2. Shapes
  BY IdleIs DEF Shapes, Proper
<1>3. Checked /\ Inspected /\ Cleared
  BY IdleIs DEF Checked, Inspected, Cleared, Deleting
<1>4. OneEach
  BY DEF OneEach, Migrations
<1> QED  BY <1>1, <1>2, <1>3, <1>4 DEF Inv

LEMMA StutterKeeps ==
  ASSUME Inv, UNCHANGED vars
  PROVE  Inv'
BY DEF vars, Inv, TypeOK, Shapes, Checked, Mine, Migrations, Inspected, Covers, Cleared,
       CustomersDeleted, OneEach

LEMMA StepInv == Inv /\ [Next]_vars => Inv'
<1> SUFFICES ASSUME Inv, Next PROVE Inv'
  BY StutterKeeps
<1>1. CASE \E m \in Member : Earn(m) \/ Redeem(m) \/ Adjust(m) \/ Clawback(m) \/ Expire(m)
  BY <1>1, LiveIs, LiveKeeps
<1>2. CASE \E o \in Operator : Backfill(o)
  BY <1>2, StartKeeps, UpsertKeeps, CheckKeeps, ReconcileKeeps, RollbackKeeps,
     CommitBackfillKeeps DEF Backfill, RefuseBackfill
<1>3. CASE \E o \in Operator : Recovery(o)
  BY <1>3, StartKeeps, CountKeeps, FindKeeps, CheckTotalKeeps, ReadLedgerKeeps, ReadLotsKeeps,
     DecideKeeps, DeleteKeeps, DeleteCustomerKeeps, CommitRecoveryKeeps DEF Recovery
<1>4. CASE \E o \in Operator : Crash(o)
  BY <1>4, RollbackKeeps DEF Crash
<1> QED  BY <1>1, <1>2, <1>3, <1>4 DEF Next

\* Every state of the migration satisfies the invariant.
THEOREM Invariance == Spec => []Inv
BY InitInv, StepInv, PTL DEF Spec

\* The rows keep their types whatever scripts and live traffic do: no lot holds more than it
\* began with, and a customers row never goes while an entry or a lot points at it.
THEOREM TypeCorrect == Spec => []TypeOK
<1>1. Inv => TypeOK
  BY DEF Inv
<1> QED  BY <1>1, Invariance, PTL

\* "Exactly one migration entry" (Req 14.4), for any export and any number of operators who
\* run the scripts together.
THEOREM MigratesOnce == Spec => []OneMigrationEntry
<1>1. Inv => OneMigrationEntry
  <2> SUFFICES ASSUME Inv, NEW m \in Member
               PROVE  Cardinality(Migrations(entries[m])) <= 1
    BY DEF OneMigrationEntry
  <2>1. CASE Migrations(entries[m]) = {}
    BY <2>1, FS_EmptySet
  <2>2. CASE Migrations(entries[m]) # {}
    <3>1. PICK e \in Migrations(entries[m]) : TRUE
      BY <2>2
    <3>2. Migrations(entries[m]) = {e}
      BY <3>1 DEF Inv, OneEach
    <3>3. Cardinality({e}) = 1
      BY FS_Singleton
    <3> QED  BY <3>2, <3>3
  <2> QED  BY <2>1, <2>2
<1> QED  BY <1>1, Invariance, PTL

-----------------------------------------------------------------------------
\* The books: a second induction, about what the entries and the lots add up to.

\* The members whose row a backfill has written and therefore holds.
Upserted(c) ==
  {m \in Cohort : \/ c.at \in {"reconcile", "backfilled"}
                  \/ c.at = "upsert" /\ \E i \in 1..(c.k - 1) : m = Anchor[i]
                  \/ c.at = "check" /\ \E i \in 1..c.k : m = Anchor[i]}

RowsHeld == \A o \in Operator : \A m \in Upserted(op[o]) : lock[m] = o

\* The members a backfill has summed, and what it takes a member's entries to be from then
\* on: the ones it saw, and any that would have had to wait for the row.
Summed(c) ==
  {m \in Cohort : \/ c.at = "backfilled"
                  \/ c.at = "reconcile" /\ \E i \in 1..(c.k - 1) : m = Anchor[i]}

Counted(c, m) == {e \in entries[m] : e.kind \in Shares => <<m, e>> \in c.summed}

SumsUp(c, m) == Total(Counted(c, m)) + (IF m \in c.added THEN Opening ELSE 0) = Opening

\* What a backfill that goes on has reconciled is still so when it commits.
Agreed == \A o \in Operator :
  /\ \A x \in op[o].summed : x[2].id <= issued
  /\ ~op[o].refused => \A m \in Summed(op[o]) : SumsUp(op[o], m)

\* Live entries stay, and they are no migration entries.
Kept == \A x \in live : x[1] \in Member /\ x[2] \in entries[x[1]] /\ x[2].kind # "migration"

\* Ids are given once, and an entry has one lot.
Numbered ==
  /\ \A m \in Member :
       /\ IsFiniteSet(entries[m]) /\ IsFiniteSet(lots[m])
       /\ \A e \in entries[m] : e.id <= issued
       /\ \A l \in lots[m] : l.entry <= issued
  /\ \A m, n \in Member : \A l \in lots[m], j \in lots[n] : l.entry = j.entry => m = n /\ l = j

\* The migration is of the cohort, and nobody else has a migration entry, or a lot of one
\* that is planned for deletion.
OfCohort(p) ==
  /\ p.entry.kind = "migration" /\ p.entry.id <= issued
  /\ \A m \in Member \ Cohort : \A l \in lots[m] : l.entry # p.entry.id

Apart ==
  /\ \A m \in Member \ Cohort : Migrations(entries[m]) = {}
  /\ \A o \in Operator : \A p \in op[o].plan : OfCohort(p)

Balanced == \A m \in Member : Left(lots[m]) = Total(Backed(entries[m]))

Books == RowsHeld /\ Agreed /\ Kept /\ Numbered /\ Apart /\ Balanced

\* The tables hold what can be added up.
LEMMA RowsAre ==
  ASSUME Inv, Books, NEW m \in Member
  PROVE  /\ entries[m] \in SUBSET Entry /\ IsFiniteSet(entries[m])
         /\ lots[m] \in SUBSET Lot /\ IsFiniteSet(lots[m]) /\ issued \in Nat
BY DEF Inv, TypeOK, Books, Numbered

\* A script that writes no entries and no lots.
LEMMA ScriptMoves ==
  ASSUME Inv, Books, NEW o \in Operator, NEW c, op' = [op EXCEPT ![o] = c],
         \A m \in Member : lock[m] \notin {None, o} => lock'[m] = lock[m],
         UNCHANGED <<entries, lots, live, issued>>,
         \A p \in c.plan : OfCohort(p),
         \A m \in Upserted(c) : lock'[m] = o,
         \A x \in c.summed : x[2].id <= issued,
         ~c.refused => \A m \in Summed(c) : SumsUp(c, m)
  PROVE  Books'
<1>1. op'[o] = c /\ \A q \in Operator : q # o => op'[q] = op[q]
  BY DEF Inv, Shapes
<1>2. Kept' /\ Numbered' /\ Balanced'
  <2>1. Kept' /\ Numbered'
    BY DEF Books, Kept, Numbered
  <2>2. Balanced'
    BY DEF Books, Balanced, Backed
  <2> QED  BY <2>1, <2>2
<1>3. Apart'
  <2>1. \A m \in Member \ Cohort : Migrations(entries'[m]) = {}
    BY DEF Books, Apart
  <2>2. ASSUME NEW q \in Operator, NEW p \in op'[q].plan
        PROVE  OfCohort(p)
    BY <1>1, <2>2 DEF Books, Apart
  <2>3. \A p : OfCohort(p) => OfCohort(p)'
    BY DEF OfCohort
  <2> QED  BY <2>1, <2>2, <2>3 DEF Apart, Migrations
<1>4. RowsHeld'
  <2> SUFFICES ASSUME NEW q \in Operator, NEW m \in Upserted(op'[q])
               PROVE  lock'[m] = q
    BY DEF RowsHeld, Upserted
  <2>1. CASE q = o
    BY <1>1, <2>1
  <2>2. CASE q # o
    <3>1. m \in Upserted(op[q]) /\ m \in Member /\ q # None
      BY <1>1, <2>2, AnchorIs, MigrationAssumption DEF Upserted
    <3>2. lock[m] = q
      BY <3>1 DEF Books, RowsHeld
    <3> QED  BY <2>2, <3>1, <3>2
  <2> QED  BY <2>1, <2>2
<1>5. Agreed'
  <2> SUFFICES ASSUME NEW q \in Operator
               PROVE  /\ \A x \in op'[q].summed : x[2].id <= issued
                      /\ ~op'[q].refused => \A m \in Summed(op'[q]) : SumsUp(op'[q], m)
    BY DEF Agreed, Summed, SumsUp, Counted
  <2>2. CASE q = o
    BY <1>1, <2>2
  <2>3. CASE q # o
    BY <1>1, <2>3 DEF Books, Agreed
  <2> QED  BY <2>2, <2>3
<1> QED  BY <1>2, <1>3, <1>4, <1>5 DEF Books

\* A reversal's step, or the beginning or the end of a script without a commit: it holds no
\* row as a backfill does, and plans to delete only what it has seen to be a migration's.
Migrated(o, p) ==
  p.entry.kind = "migration" /\ \E l \in lots[Mine(o)] : l.entry = p.entry.id

Unwritten(o, c) ==
  /\ op' = [op EXCEPT ![o] = c]
  /\ c.at \notin {"check", "reconcile", "backfilled"}
  /\ c.at = "upsert" => c.k = 1
  /\ \A p \in c.plan : p \in op[o].plan \/ Migrated(o, p)
  /\ c.summed \subseteq op[o].summed
  /\ \A m \in Member : lock[m] \notin {None, o} => lock'[m] = lock[m]
  /\ UNCHANGED <<entries, lots, live, issued>>

LEMMA UnwrittenKeepsBooks ==
  ASSUME Inv, Books, NEW o \in Operator, NEW c, Unwritten(o, c)
  PROVE  Books'
<1>1. Upserted(c) = {} /\ Summed(c) = {}
  BY DEF Unwritten, Upserted, Summed
<1>3. \A x \in c.summed : x[2].id <= issued
  BY DEF Unwritten, Books, Agreed
<1>2. ASSUME NEW p \in c.plan PROVE OfCohort(p)
  <2>1. CASE p \in op[o].plan
    BY <2>1 DEF Books, Apart
  <2>2. CASE Migrated(o, p)
    <3>1. PICK l \in lots[Mine(o)] : l.entry = p.entry.id
      BY <2>2 DEF Migrated
    <3>2. Mine(o) \in Cohort /\ Mine(o) \in Member
      BY OperatorIs
    <3>3. l.entry <= issued
      BY <3>2 DEF Books, Numbered
    <3>4. \A m \in Member : \A j \in lots[m] : l.entry = j.entry => Mine(o) = m
      BY <3>2 DEF Books, Numbered
    <3> QED  BY <2>2, <3>1, <3>2, <3>3, <3>4 DEF OfCohort, Migrated
  <2> QED  BY <1>2, <2>1, <2>2 DEF Unwritten
<1> QED  BY <1>1, <1>2, <1>3, ScriptMoves DEF Unwritten

LEMMA RollbackUnwritten ==
  ASSUME Inv, NEW o \in Operator, Rollback(o)
  PROVE  Unwritten(o, Idle)
<1>1. op' = [op EXCEPT ![o] = Idle] /\ lock' = Held(o) /\ UNCHANGED <<entries, lots, live, issued>>
  BY DEF Rollback
<1>2. Idle.at = "idle" /\ Idle.plan = {} /\ Idle.summed = {}
  BY DEF Idle
<1> QED  BY <1>1, <1>2, HeldIs DEF Unwritten

\* The next statement, at a place of the reversal and with the plan as it was.
LEMMA GoesOnUnwritten ==
  ASSUME Inv, NEW o \in Operator, NEW c, op' = [op EXCEPT ![o] = c],
         c.at \notin {"check", "reconcile", "backfilled", "upsert"},
         \A p \in c.plan : p \in op[o].plan \/ Migrated(o, p), c.summed \subseteq op[o].summed,
         UNCHANGED <<tables, lock, live, issued>>
  PROVE  Unwritten(o, c)
BY DEF Unwritten, tables

LEMMA StartUnwritten ==
  ASSUME Inv, NEW o \in Operator, StartBackfill(o) \/ StartRecovery(o)
  PROVE  \E c : Unwritten(o, c)
<1>1. CASE StartBackfill(o)
  <2> DEFINE c == [Idle EXCEPT !.at = "upsert"]
  <2>1. c.at = "upsert" /\ c.k = 1 /\ c.plan = {} /\ c.summed = {}
    BY DEF Idle
  <2>2. op' = [op EXCEPT ![o] = c] /\ UNCHANGED <<tables, lock, live, issued>>
    BY <1>1 DEF StartBackfill
  <2> HIDE DEF c
  <2>3. Unwritten(o, c)
    BY <2>1, <2>2 DEF Unwritten, tables
  <2> QED  BY <2>3
<1>2. CASE StartRecovery(o)
  <2>1. PICK execute \in BOOLEAN :
          op' = [op EXCEPT ![o] = [Idle EXCEPT !.at = "count", !.execute = execute]]
    BY <1>2 DEF StartRecovery
  <2> DEFINE c == [Idle EXCEPT !.at = "count", !.execute = execute]
  <2>2. c.at = "count" /\ c.plan = {} /\ c.summed = {}
    BY DEF Idle
  <2>3. op' = [op EXCEPT ![o] = c] /\ UNCHANGED <<tables, lock, live, issued>>
    BY <1>2, <2>1 DEF StartRecovery
  <2> HIDE DEF c
  <2> QED  BY <2>2, <2>3, GoesOnUnwritten
<1> QED  BY <1>1, <1>2

LEMMA InspectionUnwritten ==
  ASSUME Inv, NEW o \in Operator,
         Count(o) \/ Find(o) \/ CheckTotal(o) \/ ReadLedger(o) \/ Decide(o)
  PROVE  \E c : Unwritten(o, c)
<1>0. op[o] \in OpState
  BY OperatorIs DEF Proper
<1>1. CASE Count(o)
  <2>1. PICK agrees \in BOOLEAN, at \in {"find", "count"} :
          op' = [op EXCEPT ![o] = [op[o] EXCEPT !.census = Append(op[o].census, agrees), !.at = at]]
    <3> DEFINE n == Len(op[o].census)
               counted == CASE n = 0 -> Cardinality(Known)
                            [] n = 1 -> Rows(entries)
                            [] OTHER -> Rows(lots)
               agrees == counted = Len(Anchor)
               at == IF n = 2 THEN "find" ELSE "count"
    <3>1. op' = [op EXCEPT ![o] = [op[o] EXCEPT !.census = Append(op[o].census, agrees), !.at = at]]
      BY <1>1, Zenon DEF Count
    <3>2. agrees \in BOOLEAN /\ at \in {"find", "count"}
      OBVIOUS
    <3> HIDE DEF agrees, at
    <3> QED  BY <3>1, <3>2
  <2> DEFINE c == [op[o] EXCEPT !.census = Append(op[o].census, agrees), !.at = at]
  <2>2. c.at = at /\ c.plan = op[o].plan /\ c.summed = op[o].summed
    BY <1>0 DEF OpState
  <2>3. op' = [op EXCEPT ![o] = c] /\ UNCHANGED <<tables, lock, live, issued>>
    BY <1>1, <2>1 DEF Count
  <2> HIDE DEF c
  <2> QED  BY <2>2, <2>3, GoesOnUnwritten
<1>2. CASE Find(o)
  <2> DEFINE refused == op[o].refused \/ spend[Mine(o)] = Absent
             r == [op[o] EXCEPT !.refused = refused]
             c == NextMember(o, r, "find", "total")
  <2>1. op' = [op EXCEPT ![o] = c] /\ UNCHANGED <<tables, lock, live, issued>>
    BY <1>2, Zenon DEF Find
  <2>2. refused \in BOOLEAN
    OBVIOUS
  <2> HIDE DEF refused
  <2>3. r \in OpState /\ r.plan = op[o].plan /\ r.summed = op[o].summed
    BY <1>0, <2>2 DEF OpState
  <2> HIDE DEF r
  <2>4. c.at \in {"find", "total"} /\ c.plan = op[o].plan /\ c.summed = op[o].summed
    <3>1. "find" \in At /\ "total" \in At
      BY DEF At
    <3> QED  BY <2>3, <3>1, NextMemberIs
  <2> HIDE DEF c
  <2> QED  BY <2>1, <2>4, GoesOnUnwritten
<1>3. CASE CheckTotal(o) \/ Decide(o)
  <2>1. CASE Rollback(o)
    BY <2>1, RollbackUnwritten
  <2>2. CASE ~Rollback(o)
    <3>1. PICK at \in {"ledger", "deleteLots"} :
            op' = [op EXCEPT ![o] = Goto(o, at, 1)] /\ UNCHANGED <<tables, lock, live, issued>>
      BY <1>3, <2>2 DEF CheckTotal, Decide
    <3> DEFINE c == Goto(o, at, 1)
    <3>2. c.at = at /\ c.plan = op[o].plan /\ c.summed = op[o].summed
      BY <1>0 DEF Goto, OpState
    <3>3. op' = [op EXCEPT ![o] = c]
      BY <3>1
    <3> HIDE DEF c
    <3> QED  BY <3>1, <3>2, <3>3, GoesOnUnwritten
  <2> QED  BY <2>1, <2>2
<1>4. CASE ReadLedger(o)
  <2> DEFINE r == Goto(o, "lots", op[o].k)
             c == [r EXCEPT !.saw = entries[Mine(o)]]
  <2>1. op' = [op EXCEPT ![o] = c] /\ UNCHANGED <<tables, lock, live, issued>>
    BY <1>4 DEF ReadLedger
  <2>2. c.at = "lots" /\ c.plan = op[o].plan /\ c.summed = op[o].summed
    BY <1>0 DEF Goto, OpState
  <2> HIDE DEF c
  <2> QED  BY <2>1, <2>2, GoesOnUnwritten
<1> QED  BY <1>1, <1>2, <1>3, <1>4

LEMMA ReadLotsUnwritten ==
  ASSUME Inv, NEW o \in Operator, ReadLots(o)
  PROVE  \E c : Unwritten(o, c)
<1> DEFINE m == Mine(o)
           found == {[member |-> m, entry |-> e, lot |-> l] : e \in op[o].saw, l \in lots[m]}
           plan == {p \in found : AsWritten(o, p.entry, p.lot)}
           refused == op[o].refused \/ plan = {}
           all == op[o].plan \cup plan
           r == [op[o] EXCEPT !.plan = all, !.refused = refused, !.saw = {}]
           c == NextMember(o, r, "ledger", "decide")
<1>1. op[o] \in OpState /\ m \in Cohort /\ m \in Member /\ lots[m] \subseteq Lot
  BY OperatorIs DEF Proper, Inv, TypeOK
<1>2. op' = [op EXCEPT ![o] = c] /\ UNCHANGED <<tables, lock, live, issued>>
  BY DEF ReadLots
<1>3. refused \in BOOLEAN
  OBVIOUS
<1>4. plan \subseteq PlanItem /\ \A p \in plan : Migrated(o, p)
  <2>1. plan \subseteq PlanItem
    BY <1>1 DEF PlanItem, OpState
  <2>2. ASSUME NEW p \in plan PROVE Migrated(o, p)
    <3>1. AsWritten(o, p.entry, p.lot)
      OBVIOUS
    <3> HIDE DEF plan
    <3> QED  BY <3>1 DEF AsWritten, Migrated
  <2> QED  BY <2>1, <2>2
<1> HIDE DEF plan, refused
<1>5. all \in SUBSET PlanItem /\ \A p \in all : p \in op[o].plan \/ Migrated(o, p)
  BY <1>1, <1>4 DEF OpState
<1> HIDE DEF all, m
<1>6. r \in OpState /\ r.plan = all /\ r.summed = op[o].summed
  BY <1>1, <1>3, <1>5 DEF OpState
<1> HIDE DEF r
<1>7. c.at \in {"ledger", "decide"} /\ c.plan = all /\ c.summed = op[o].summed
  <2>1. "ledger" \in At /\ "decide" \in At
    BY DEF At
  <2> QED  BY <1>6, <2>1, NextMemberIs
<1> HIDE DEF c
<1> QED  BY <1>2, <1>5, <1>7, GoesOnUnwritten

LEMMA DeletesUnwritten ==
  ASSUME Inv, NEW o \in Operator, DeleteLot(o) \/ DeleteEntry(o) \/ DeleteCustomer(o)
  PROVE  \E c : Unwritten(o, c)
<1>1. CASE Rollback(o)
  BY <1>1, RollbackUnwritten
<1>2. CASE ~Rollback(o)
  <2>1. PICK at \in Deleting, then \in Deleting :
          /\ op' = [op EXCEPT ![o] = NextMember(o, op[o], at, then)]
          /\ UNCHANGED <<entries, lots, live, issued>>
          /\ \/ lock' = lock
             \/ lock[Mine(o)] \in {None, o} /\ lock' = [lock EXCEPT ![Mine(o)] = o]
    BY <1>2 DEF DeleteLot, DeleteEntry, Delete, DeleteCustomer, Free, Deleting, tables
  <2> DEFINE c == NextMember(o, op[o], at, then)
  <2>2. c.at \in Deleting /\ c.plan = op[o].plan /\ c.summed = op[o].summed
    <3>1. at \in At /\ then \in At
      BY DEF Deleting, At
    <3> QED  BY <3>1, OperatorIs, NextMemberIs DEF Proper
  <2>3. op' = [op EXCEPT ![o] = c]
    BY <2>1
  <2> HIDE DEF c
  <2>4. \A m \in Member : lock[m] \notin {None, o} => lock'[m] = lock[m]
    BY <2>1, OperatorIs DEF Inv, TypeOK
  <2>5. Unwritten(o, c)
    BY <2>1, <2>2, <2>3, <2>4 DEF Unwritten, Deleting
  <2> QED  BY <2>5
<1> QED  BY <1>1, <1>2

\* A backfill takes the next row, or finds all of them as they should be.
LEMMA BackfillKeepsBooks ==
  ASSUME Inv, Books, NEW o \in Operator, Upsert(o) \/ Check(o) \/ Reconcile(o)
  PROVE  Books'
<1>0. /\ op[o] \in OpState /\ Mine(o) \in Cohort /\ Mine(o) \in Member
      /\ Mine(o) = Anchor[op[o].k] /\ Len(Anchor) \in Nat
      /\ \A p \in op[o].plan : OfCohort(p)
      /\ \A x \in op[o].summed : x[2].id <= issued
  BY OperatorIs, AnchorIs DEF Proper, Mine, Books, Apart, Agreed
<1>1. CASE Upsert(o)
  <2> DEFINE c == Goto(o, "check", op[o].k)
  <2>1. /\ op[o].at = "upsert" /\ lock' = [lock EXCEPT ![Mine(o)] = o]
        /\ lock[Mine(o)] \in {None, o}
        /\ op' = [op EXCEPT ![o] = c] /\ UNCHANGED <<entries, lots, live, issued>>
    BY <1>1 DEF Upsert, Free, tables
  <2>2. c.at = "check" /\ c.k = op[o].k /\ c.plan = op[o].plan /\ c.summed = op[o].summed
    BY <1>0 DEF Goto, OpState
  <2> HIDE DEF c
  <2>3. \A m \in Member : IF m = Mine(o) THEN lock'[m] = o ELSE lock'[m] = lock[m]
    BY <2>1 DEF Inv, TypeOK
  <2>4. ASSUME NEW m \in Upserted(c) PROVE lock'[m] = o
    <3>1. m \in Cohort /\ m \in Member
      BY AnchorIs DEF Upserted
    <3>2. PICK i \in 1..op[o].k : m = Anchor[i]
      BY <2>2, <2>4 DEF Upserted
    <3>3. CASE i = op[o].k
      BY <1>0, <2>3, <3>1, <3>2, <3>3
    <3>4. CASE i # op[o].k
      <4>1. i \in 1..(op[o].k - 1)
        BY <1>0, <3>4 DEF OpState
      <4>2. lock[m] = o
        BY <2>1, <3>1, <3>2, <4>1 DEF Books, RowsHeld, Upserted
      <4> QED  BY <2>3, <3>1, <4>2
    <3> QED  BY <3>3, <3>4
  <2>5. \A m \in Member : lock[m] \notin {None, o} => lock'[m] = lock[m]
    BY <2>1, <2>3
  <2>6. /\ Summed(c) = {} /\ \A p \in c.plan : OfCohort(p)
        /\ \A x \in c.summed : x[2].id <= issued
    BY <1>0, <2>2 DEF Summed
  <2> QED  BY <2>1, <2>4, <2>5, <2>6, ScriptMoves
<1>2. CASE Check(o)
  <2> DEFINE more == [op[o] EXCEPT !.added = @ \cup {Mine(o)}]
             rec == IF Migrations(entries[Mine(o)]) # {} THEN op[o] ELSE more
             c == NextMember(o, rec, "upsert", "reconcile")
  <2>1. /\ op[o].at = "check" /\ op' = [op EXCEPT ![o] = c] /\ lock' = lock
        /\ UNCHANGED <<entries, lots, live, issued>>
    BY <1>2 DEF Check, tables
  <2>2. more \in OpState /\ more.plan = op[o].plan /\ more.k = op[o].k /\ more.summed = op[o].summed
    BY <1>0 DEF OpState
  <2> HIDE DEF more
  <2>3. rec \in OpState /\ rec.plan = op[o].plan /\ rec.k = op[o].k /\ rec.summed = op[o].summed
    BY <1>0, <2>2
  <2> HIDE DEF rec
  <2>4. /\ c.plan = op[o].plan /\ c.summed = op[o].summed
        /\ \/ c.at = "upsert" /\ c.k = op[o].k + 1
           \/ c.at = "reconcile" /\ c.k = 1 /\ op[o].k = Len(Anchor)
    <3>1. "upsert" \in At /\ "reconcile" \in At
      BY DEF At
    <3> QED  BY <2>3, <3>1, NextMemberIs
  <2> HIDE DEF c
  <2>5. ASSUME NEW m \in Upserted(c) PROVE lock'[m] = o
    <3>1. m \in Cohort /\ \E i \in 1..op[o].k : m = Anchor[i]
      <4>1. CASE c.at = "upsert" /\ c.k = op[o].k + 1
        <5>1. c.k - 1 = op[o].k
          BY <1>0, <4>1 DEF OpState
        <5> QED  BY <2>5, <4>1, <5>1 DEF Upserted
      <4>2. CASE op[o].k = Len(Anchor)
        BY <2>5, <4>2, AnchorIs DEF Upserted
      <4> QED  BY <2>4, <4>1, <4>2
    <3>2. m \in Upserted(op[o])
      BY <2>1, <3>1 DEF Upserted
    <3> QED  BY <2>1, <3>2 DEF Books, RowsHeld
  <2>6. /\ Summed(c) = {} /\ \A p \in c.plan : OfCohort(p)
        /\ \A x \in c.summed : x[2].id <= issued
    BY <1>0, <2>4 DEF Summed
  <2> QED  BY <2>1, <2>5, <2>6, ScriptMoves
<1>3. CASE Reconcile(o)
  <2> DEFINE m == Mine(o)
             refused == op[o].refused \/ ~Reconciles(o, m)
             summed == op[o].summed \cup {<<m, e>> : e \in entries[m]}
             r == [op[o] EXCEPT !.refused = refused, !.summed = summed]
             c == NextMember(o, r, "reconcile", "backfilled")
  <2>1. /\ op[o].at = "reconcile" /\ op' = [op EXCEPT ![o] = c]
        /\ lock' = lock /\ UNCHANGED <<entries, lots, live, issued>>
    BY <1>3, Zenon DEF Reconcile, tables
  <2>2. m \in Member /\ m = Anchor[op[o].k] /\ entries[m] \in SUBSET Entry
        /\ \A e \in entries[m] : e.id <= issued
    BY <1>0 DEF Inv, TypeOK, Books, Numbered
  <2> HIDE DEF m
  <2>3. refused \in BOOLEAN /\ summed \in SUBSET (Member \X Entry)
    <3>1. op[o].refused \in BOOLEAN /\ op[o].summed \in SUBSET (Member \X Entry)
      BY <1>0 DEF OpState
    <3> QED  BY <2>2, <3>1
  <2>4. \A x \in summed : x[2].id <= issued
    BY <1>0, <2>2
  <2>5. ~refused => ~op[o].refused /\ Reconciles(o, m)
    OBVIOUS
  <2>6. \A n \in Member : \A e : <<n, e>> \in summed <=>
          <<n, e>> \in op[o].summed \/ (n = m /\ e \in entries[m])
    OBVIOUS
  <2> HIDE DEF refused, summed
  <2>7. /\ r \in OpState /\ r.added = op[o].added /\ r.plan = op[o].plan /\ r.k = op[o].k
        /\ r.refused = refused /\ r.summed = summed
    BY <1>0, <2>3 DEF OpState
  <2> HIDE DEF r
  <2>8. /\ c.added = op[o].added /\ c.plan = op[o].plan /\ c.refused = refused
        /\ c.summed = summed
        /\ \/ c.at = "reconcile" /\ c.k = op[o].k + 1
           \/ c.at = "backfilled" /\ op[o].k = Len(Anchor)
    <3>1. "reconcile" \in At /\ "backfilled" \in At
      BY DEF At
    <3> QED  BY <2>7, <3>1, NextMemberIs
  <2> HIDE DEF c
  <2>9. \A n \in Upserted(c) : lock'[n] = o
    <3>1. \A n \in Upserted(c) : n \in Upserted(op[o])
      BY <2>1 DEF Upserted
    <3> QED  BY <2>1, <3>1 DEF Books, RowsHeld
  <2>10. ASSUME ~c.refused, NEW n \in Summed(c)
         PROVE  SumsUp(c, n)
    <3>1. ~op[o].refused /\ Reconciles(o, m) /\ n \in Member
      BY <2>5, <2>8, <2>10, AnchorIs DEF Summed
    <3>2. CASE n = m
      <4>1. Counted(c, n) = entries[n]
        BY <2>2, <2>6, <2>8, <3>2 DEF Counted
      <4> QED  BY <2>8, <3>1, <3>2, <4>1 DEF SumsUp, Reconciles, Balance
    <3>3. CASE n # m
      <4>1. \E i \in 1..op[o].k : n = Anchor[i]
        <5>1. CASE c.at = "reconcile" /\ c.k = op[o].k + 1
          <6>1. c.k - 1 = op[o].k
            BY <1>0, <5>1 DEF OpState
          <6> QED  BY <2>10, <5>1, <6>1 DEF Summed
        <5>2. CASE op[o].k = Len(Anchor)
          BY <2>10, <5>2, AnchorIs DEF Summed
        <5> QED  BY <2>8, <5>1, <5>2
      <4>2. PICK i \in 1..op[o].k : n = Anchor[i]
        BY <4>1
      <4>3. i \in 1..(op[o].k - 1)
        BY <1>0, <2>2, <3>3, <4>2 DEF OpState
      <4>4. n \in Summed(op[o])
        BY <2>1, <2>10, <4>2, <4>3 DEF Summed
      <4>5. SumsUp(op[o], n)
        BY <3>1, <4>4 DEF Books, Agreed
      <4>6. Counted(c, n) = Counted(op[o], n)
        BY <2>6, <2>8, <3>1, <3>3 DEF Counted
      <4> QED  BY <2>8, <4>5, <4>6 DEF SumsUp
    <3> QED  BY <3>2, <3>3
  <2>11. \A p \in c.plan : OfCohort(p)
    BY <1>0, <2>8
  <2>12. \A x \in c.summed : x[2].id <= issued
    BY <2>4, <2>8
  <2>13. \A n \in Member : lock[n] \notin {None, o} => lock'[n] = lock[n]
    BY <2>1
  <2> QED  BY <2>1, <2>9, <2>10, <2>11, <2>12, <2>13, ScriptMoves
<1> QED  BY <1>1, <1>2, <1>3

\* A backfill that has come to its sums holds every row of the cohort, so nobody commits.
LEMMA AloneAtCommit ==
  ASSUME Inv, Books, NEW o \in Operator, NEW q \in Operator, q # o,
         op[o].at \in {"backfilled", "reverted"}, op[q].at \in {"reconcile", "backfilled"}
  PROVE  FALSE
<1>1. PICK m \in Cohort : TRUE
  BY MigrationAssumption
<1>2. lock[m] = q
  BY DEF Books, RowsHeld, Upserted
<1>3. lock[m] = o
  <2>1. CASE op[o].at = "backfilled"
    BY <2>1 DEF Books, RowsHeld, Upserted
  <2>2. CASE op[o].at = "reverted"
    BY <2>2 DEF Inv, Cleared, CustomersDeleted
  <2> QED  BY <2>1, <2>2
<1> QED  BY <1>2, <1>3

\* The rows a backfill inserts: ids that nothing had, one for each member.
LEMMA EntryIdIs ==
  ASSUME Inv, NEW m \in Cohort
  PROVE  /\ EntryId(m) \in Nat /\ EntryId(m) > issued /\ EntryId(m) <= issued + Len(Anchor)
         /\ \A n \in Cohort : EntryId(n) = EntryId(m) => n = m
<1> DEFINE Pos(n) == CHOOSE i \in 1..Len(Anchor) : Anchor[i] = n
<1>1. \A n \in Cohort : Pos(n) \in 1..Len(Anchor) /\ Anchor[Pos(n)] = n
  BY AnchorIs
<1>2. \A n \in Cohort : EntryId(n) = issued + Pos(n)
  BY DEF EntryId
<1>3. issued \in Nat /\ Len(Anchor) \in Nat
  BY AnchorIs DEF Inv, TypeOK
<1> HIDE DEF Pos
<1>4. \A n \in Cohort : EntryId(n) = EntryId(m) => Pos(n) = Pos(m)
  BY <1>1, <1>2, <1>3
<1>5. \A n \in Cohort : EntryId(n) = EntryId(m) => n = m
  BY <1>1, <1>4, Zenon
<1> QED  BY <1>1, <1>2, <1>3, <1>5

\* The commit of a backfill writes, for each member it adds, an entry and a lot of the same
\* points, and but for what came late it leaves every member of the cohort at the migrated
\* points.
LEMMA CommitBackfillKeepsBooks ==
  ASSUME Inv, Books, NEW o \in Operator, CommitBackfill(o)
  PROVE  Books' /\ \A m \in Cohort : Total(entries'[m] \ Late(o, m)) = Opening
<1> DEFINE new(m) == [id |-> EntryId(m), kind |-> "migration", points |-> Opening]
           lot(m) == [entry |-> EntryId(m), original |-> Opening, remaining |-> Opening]
           added == op[o].added
<1>1. /\ op[o].at = "backfilled" /\ ~op[o].refused
      /\ entries' = [m \in Member |-> IF m \in added THEN entries[m] \cup {new(m)} ELSE entries[m]]
      /\ lots' = [m \in Member |-> IF m \in added THEN lots[m] \cup {lot(m)} ELSE lots[m]]
      /\ issued' = issued + (IF added = {} THEN 0 ELSE Len(Anchor))
      /\ op' = [op EXCEPT ![o] = Idle] /\ lock' = Held(o) /\ UNCHANGED live
  BY DEF CommitBackfill
<1>2. /\ added \subseteq Cohort /\ added \subseteq Member /\ Cohort \subseteq Member
      /\ Opening \in Nat /\ issued \in Nat /\ Len(Anchor) \in Nat
  BY OperatorIs, AnchorIs, MigrationAssumption DEF Proper, OpState, Inv, TypeOK
<1>3. \A m \in Cohort : /\ new(m) \in Entry /\ new(m).id = EntryId(m) /\ new(m).points = Opening
                        /\ new(m).kind = "migration"
                        /\ lot(m) \in Lot /\ lot(m).entry = EntryId(m) /\ lot(m).remaining = Opening
  BY <1>2, EntryIdIs DEF Entry, Lot
<1>4. \A m \in Cohort : /\ EntryId(m) \in Nat /\ EntryId(m) > issued
                        /\ EntryId(m) <= issued + Len(Anchor)
                        /\ \A n \in Cohort : EntryId(n) = EntryId(m) => n = m
  BY EntryIdIs
<1> HIDE DEF new, lot
<1>5. \A m \in Member : /\ entries[m] \in SUBSET Entry /\ IsFiniteSet(entries[m])
                        /\ lots[m] \in SUBSET Lot /\ IsFiniteSet(lots[m])
                        /\ \A e \in entries[m] : e.id \in Nat /\ e.id <= issued
                        /\ \A l \in lots[m] : l.entry \in Nat /\ l.entry <= issued
  BY RowsAre DEF Books, Numbered, Entry, Lot
<1>6. \A m \in added : /\ entries'[m] = entries[m] \cup {new(m)} /\ IsFiniteSet(entries'[m])
                       /\ IsFiniteSet(lots'[m]) /\ Left(lots'[m]) = Left(lots[m]) + Opening
                       /\ \A S \in SUBSET entries[m] : Total(S \cup {new(m)}) = Total(S) + Opening
  <2> SUFFICES ASSUME NEW m \in added
               PROVE  /\ entries'[m] = entries[m] \cup {new(m)} /\ IsFiniteSet(entries'[m])
                      /\ IsFiniteSet(lots'[m]) /\ Left(lots'[m]) = Left(lots[m]) + Opening
                      /\ \A S \in SUBSET entries[m] : Total(S \cup {new(m)}) = Total(S) + Opening
    OBVIOUS
  <2>1. m \in Member /\ m \in Cohort
    BY <1>2
  <2>2. entries'[m] = entries[m] \cup {new(m)} /\ lots'[m] = lots[m] \cup {lot(m)}
    BY <1>1, <2>1
  <2>3. new(m) \in Entry \ entries[m]
    BY <1>2, <1>3, <1>4, <1>5, <2>1
  <2>4. lot(m) \in Lot \ lots[m]
    BY <1>2, <1>3, <1>4, <1>5, <2>1
  <2>5. ASSUME NEW S \in SUBSET entries[m]
        PROVE  IsFiniteSet(S \cup {new(m)}) /\ Total(S \cup {new(m)}) = Total(S) + Opening
    <3>1. S \in SUBSET Entry /\ IsFiniteSet(S) /\ new(m) \in Entry \ S
      BY <1>5, <2>1, <2>3, FS_Subset
    <3> QED  BY <1>3, <2>1, <3>1, TotalAdds
  <2>6. IsFiniteSet(lots'[m]) /\ Left(lots'[m]) = Left(lots[m]) + Opening
    BY <1>3, <1>5, <2>1, <2>2, <2>4, LeftAdds
  <2> QED  BY <2>2, <2>5, <2>6
<1>7. \A m \in Member \ added : entries'[m] = entries[m] /\ lots'[m] = lots[m]
  BY <1>1
<1>9. Balanced'
  <2> SUFFICES ASSUME NEW m \in Member
               PROVE  Left(lots'[m]) = Total(Backed(entries'[m]))
    BY DEF Balanced, Backed
  <2>1. Left(lots[m]) = Total(Backed(entries[m]))
    BY DEF Books, Balanced
  <2>2. CASE m \in added
    <3>1. Backed(entries'[m]) = Backed(entries[m]) \cup {new(m)}
      BY <1>2, <1>3, <1>6, <2>2 DEF Backed
    <3>2. Backed(entries[m]) \in SUBSET entries[m]
      BY DEF Backed
    <3> QED  BY <1>6, <2>1, <2>2, <3>1, <3>2
  <2>3. CASE m \notin added
    BY <1>7, <2>1, <2>3
  <2> QED  BY <2>2, <2>3
<1>10. \A m \in Cohort : Total(entries'[m] \ Late(o, m)) = Opening
  <2> SUFFICES ASSUME NEW m \in Cohort
               PROVE  Total(entries'[m] \ Late(o, m)) = Opening
    OBVIOUS
  <2> DEFINE C == Counted(op[o], m)
  <2>1. Total(C) + (IF m \in added THEN Opening ELSE 0) = Opening
    BY <1>1 DEF Books, Agreed, Summed, SumsUp
  <2>2. C \in SUBSET entries[m] /\ m \in Member
    BY <1>2 DEF Counted
  <2>3. Total(C) \in Int
    <3>1. C \in SUBSET Entry /\ IsFiniteSet(C)
      BY <1>5, <2>2, FS_Subset
    <3> HIDE DEF C
    <3> QED  BY <3>1, TotalAdds
  <2>4. CASE m \in added
    <3>1. entries'[m] \ Late(o, m) = C \cup {new(m)}
      BY <1>3, <1>6, <2>4 DEF Late, Counted, Shares
    <3>2. Total(C \cup {new(m)}) = Total(C) + Opening
      BY <1>6, <2>2, <2>4
    <3> HIDE DEF C
    <3> QED  BY <1>2, <2>1, <2>3, <2>4, <3>1, <3>2
  <2>5. CASE m \notin added
    <3>1. entries'[m] \ Late(o, m) = C
      BY <1>7, <2>2, <2>5 DEF Late, Counted
    <3> HIDE DEF C, added
    <3>2. Total(C) = Opening
      BY <2>1, <2>3, <2>5
    <3> QED  BY <3>1, <3>2
  <2> QED  BY <2>4, <2>5
<1>12. issued' \in Nat /\ issued <= issued' /\ (added # {} => issued' = issued + Len(Anchor))
  BY <1>1, <1>2
<1>13. Kept'
  <2> SUFFICES ASSUME NEW x \in live
               PROVE  x[1] \in Member /\ x[2] \in entries'[x[1]] /\ x[2].kind # "migration"
    BY <1>1 DEF Kept
  <2>1. x[1] \in Member /\ x[2] \in entries[x[1]] /\ x[2].kind # "migration"
    BY DEF Books, Kept
  <2> QED  BY <1>1, <2>1
<1>14. Numbered'
  <2>1. ASSUME NEW m \in Member
        PROVE  /\ IsFiniteSet(entries'[m]) /\ IsFiniteSet(lots'[m])
               /\ \A e \in entries'[m] : e.id <= issued'
               /\ \A l \in lots'[m] : l.entry <= issued'
    <3>1. CASE m \in added
      <4>1. issued' = issued + Len(Anchor) /\ m \in Cohort
        BY <1>2, <1>12, <3>1
      <4>2. entries'[m] = entries[m] \cup {new(m)} /\ lots'[m] = lots[m] \cup {lot(m)}
        BY <1>1, <3>1
      <4>3. new(m).id = EntryId(m) /\ lot(m).entry = EntryId(m) /\ EntryId(m) <= issued'
        BY <1>3, <1>4, <4>1
      <4>4. \A e \in entries'[m] : e.id <= issued'
        <5>1. \A e \in entries[m] : e.id \in Nat /\ e.id <= issued
          BY <1>5
        <5>2. \A e \in entries[m] : e.id <= issued'
          BY <1>2, <1>12, <5>1
        <5> QED  BY <4>2, <4>3, <5>2
      <4>5. \A l \in lots'[m] : l.entry <= issued'
        <5>1. \A l \in lots[m] : l.entry \in Nat /\ l.entry <= issued
          BY <1>5
        <5>2. \A l \in lots[m] : l.entry <= issued'
          BY <1>2, <1>12, <5>1
        <5> QED  BY <4>2, <4>3, <5>2
      <4> QED  BY <1>6, <3>1, <4>4, <4>5
    <3>2. CASE m \notin added
      <4>1. entries'[m] = entries[m] /\ lots'[m] = lots[m]
        BY <1>7, <3>2
      <4> HIDE DEF added
      <4> QED  BY <1>2, <1>5, <1>12, <4>1
    <3> QED  BY <3>1, <3>2
  <2>2. ASSUME NEW m \in Member, NEW n \in Member, NEW l \in lots'[m], NEW j \in lots'[n],
               l.entry = j.entry
        PROVE  m = n /\ l = j
    <3>1. (l \in lots[m] /\ l.entry <= issued) \/ (m \in added /\ l = lot(m) /\ l.entry = EntryId(m))
      BY <1>1, <1>2, <1>3, <1>5
    <3>2. (j \in lots[n] /\ j.entry <= issued) \/ (n \in added /\ j = lot(n) /\ j.entry = EntryId(n))
      BY <1>1, <1>2, <1>3, <1>5
    <3>3. CASE l \in lots[m] /\ l.entry <= issued
      <4>1. j \in lots[n]
        <5>1. ~(n \in added /\ j.entry = EntryId(n))
          BY <1>2, <1>4, <2>2, <3>3
        <5> QED  BY <3>2, <5>1
      <4> QED  BY <2>2, <3>3, <4>1 DEF Books, Numbered
    <3>4. CASE m \in added /\ l = lot(m) /\ l.entry = EntryId(m)
      <4>1. n \in added /\ j = lot(n) /\ j.entry = EntryId(n)
        <5>1. ~(j.entry <= issued)
          BY <1>2, <1>4, <2>2, <3>4
        <5> QED  BY <3>2, <5>1
      <4>2. EntryId(n) = EntryId(m) /\ n \in Cohort /\ m \in Cohort
        BY <1>2, <2>2, <3>4, <4>1
      <4>3. n = m
        BY <1>4, <4>2
      <4> QED  BY <3>4, <4>1, <4>3
    <3> QED  BY <3>1, <3>3, <3>4
  <2> QED  BY <2>1, <2>2 DEF Numbered
<1>15. op'[o] = Idle /\ \A q \in Operator : q # o => op'[q] = op[q]
  BY <1>1 DEF Inv, Shapes
<1>16. /\ Idle.plan = {} /\ Idle.at = "idle" /\ Upserted(Idle) = {}
       /\ Idle.summed = {} /\ Summed(Idle) = {}
  BY DEF Idle, Upserted, Summed
<1>17. Apart'
  <2>1. \A m \in Member \ Cohort : entries'[m] = entries[m] /\ lots'[m] = lots[m]
    BY <1>2, <1>7
  <2>2. \A m \in Member \ Cohort : Migrations(entries'[m]) = {}
    BY <2>1 DEF Books, Apart
  <2>3. ASSUME NEW q \in Operator, NEW p \in op'[q].plan
        PROVE  /\ p.entry.kind = "migration" /\ p.entry.id <= issued'
               /\ \A m \in Member \ Cohort : \A l \in lots'[m] : l.entry # p.entry.id
    <3>1. q # o /\ p \in op[q].plan
      BY <1>15, <1>16, <2>3
    <3>2. OfCohort(p) /\ p.entry.id \in Nat
      BY <3>1 DEF Books, Apart, Inv, TypeOK, Entry
    <3> HIDE DEF added
    <3> QED  BY <1>2, <1>12, <2>1, <3>2 DEF OfCohort
  <2> QED  BY <2>2, <2>3 DEF Apart, OfCohort, Migrations
<1>18. RowsHeld'
  <2> SUFFICES ASSUME NEW q \in Operator, NEW m \in Upserted(op'[q])
               PROVE  lock'[m] = q
    BY DEF RowsHeld, Upserted
  <2>1. q # o /\ m \in Upserted(op[q]) /\ m \in Member
    BY <1>15, <1>16, AnchorIs DEF Upserted
  <2>2. lock[m] = q
    BY <2>1 DEF Books, RowsHeld
  <2> QED  BY <1>1, <2>1, <2>2, HeldIs
<1>19. Agreed'
  <2>1. ASSUME NEW q \in Operator, NEW x \in op'[q].summed PROVE x[2].id <= issued'
    <3>1. q # o /\ x \in op[q].summed /\ x[2].id <= issued
      BY <1>15, <1>16, <2>1 DEF Books, Agreed
    <3>2. x[2].id \in Nat
      BY <3>1 DEF Inv, Shapes, OpState, Entry
    <3> HIDE DEF added
    <3> QED  BY <1>2, <1>12, <3>1, <3>2
  <2>2. ASSUME NEW q \in Operator, NEW m \in Summed(op'[q]) PROVE FALSE
    <3>1. q # o /\ op[q].at \in {"reconcile", "backfilled"}
      BY <1>15, <1>16, <2>2 DEF Summed
    <3> QED  BY <1>1, <3>1, AloneAtCommit
  <2> QED  BY <2>1, <2>2 DEF Agreed, Summed, SumsUp, Counted
<1> QED  BY <1>9, <1>10, <1>13, <1>14, <1>17, <1>18, <1>19 DEF Books

\* The commit of a reversal takes all that the cohort has and nothing of anybody else.
LEMMA CommitRecoveryKeepsBooks ==
  ASSUME Inv, Books, NEW o \in Operator, CommitRecovery(o)
  PROVE  Books'
<1> DEFINE plan == op[o].plan
<1>1. /\ op[o].at = "reverted"
      /\ entries' = [m \in Member |-> entries[m] \ {p.entry : p \in plan}]
      /\ lots' = [m \in Member |-> {l \in lots[m] : \A p \in plan : l.entry # p.entry.id}]
      /\ op' = [op EXCEPT ![o] = Idle] /\ lock' = Held(o) /\ UNCHANGED <<live, issued>>
  BY DEF CommitRecovery
<1>2. \A p \in plan : OfCohort(p)
  BY DEF Books, Apart
<1>3. \A m \in Cohort : entries'[m] = {} /\ lots'[m] = {}
  <2> SUFFICES ASSUME NEW m \in Cohort
               PROVE  entries'[m] = {} /\ lots'[m] = {}
    OBVIOUS
  <2>1. m \in Member /\ m \in CustomersDeleted(op[o])
    BY <1>1, AnchorIs DEF CustomersDeleted
  <2>2. /\ \A e \in entries[m] : \E p \in plan : p.entry = e
        /\ \A l \in lots[m] : \E p \in plan : p.entry.id = l.entry
    BY <2>1 DEF Inv, Cleared
  <2> QED  BY <1>1, <2>1, <2>2
<1>4. \A m \in Member \ Cohort : entries'[m] = entries[m] /\ lots'[m] = lots[m]
  <2> SUFFICES ASSUME NEW m \in Member, m \notin Cohort
               PROVE  entries'[m] = entries[m] /\ lots'[m] = lots[m]
    OBVIOUS
  <2>1. Migrations(entries[m]) = {}
    BY DEF Books, Apart
  <2>2. \A e \in entries[m] : \A p \in plan : p.entry # e
    BY <1>2, <2>1 DEF OfCohort, Migrations
  <2>3. \A l \in lots[m] : \A p \in plan : l.entry # p.entry.id
    BY <1>2 DEF OfCohort
  <2>4. /\ entries'[m] = entries[m] \ {p.entry : p \in plan}
        /\ lots'[m] = {l \in lots[m] : \A p \in plan : l.entry # p.entry.id}
    BY <1>1
  <2> HIDE DEF plan
  <2> QED  BY <2>2, <2>3, <2>4
<1>5. op'[o] = Idle /\ \A q \in Operator : q # o => op'[q] = op[q]
  BY <1>1 DEF Inv, Shapes
<1>6. /\ Idle.plan = {} /\ Idle.at = "idle" /\ Upserted(Idle) = {}
      /\ Idle.summed = {} /\ Summed(Idle) = {}
  BY DEF Idle, Upserted, Summed
<1>7. Kept'
  <2> SUFFICES ASSUME NEW x \in live
               PROVE  x[1] \in Member /\ x[2] \in entries'[x[1]] /\ x[2].kind # "migration"
    BY <1>1 DEF Kept
  <2>1. x[1] \in Member /\ x[2] \in entries[x[1]] /\ x[2].kind # "migration"
    BY DEF Books, Kept
  <2>2. x[2] \notin {p.entry : p \in plan}
    BY <1>2, <2>1 DEF OfCohort
  <2> QED  BY <1>1, <2>1, <2>2
<1>8. \A m \in Member : \/ entries'[m] = {} /\ lots'[m] = {}
                        \/ entries'[m] = entries[m] /\ lots'[m] = lots[m]
  BY <1>3, <1>4
<1>9. Numbered'
  <2>1. ASSUME NEW m \in Member
        PROVE  /\ IsFiniteSet(entries'[m]) /\ IsFiniteSet(lots'[m])
               /\ \A e \in entries'[m] : e.id <= issued'
               /\ \A l \in lots'[m] : l.entry <= issued'
    BY <1>1, <1>8, FS_EmptySet DEF Books, Numbered
  <2>2. \A m, n \in Member : \A l \in lots'[m], j \in lots'[n] : l.entry = j.entry => m = n /\ l = j
    <3>1. \A m \in Member : lots'[m] \subseteq lots[m]
      BY <1>8
    <3> QED  BY <3>1 DEF Books, Numbered
  <2> QED  BY <2>1, <2>2 DEF Numbered
<1>10. Balanced'
  <2> SUFFICES ASSUME NEW m \in Member
               PROVE  Left(lots'[m]) = Total(Backed(entries'[m]))
    BY DEF Balanced, Backed
  <2>1. Left({}) = 0 /\ Total({}) = 0 /\ Backed({}) = {}
    BY FS_EmptySet, TotalAdds, LeftAdds DEF Backed
  <2>2. Left(lots[m]) = Total(Backed(entries[m]))
    BY DEF Books, Balanced
  <2> QED  BY <1>8, <2>1, <2>2
<1>11. Apart'
  <2>1. \A m \in Member \ Cohort : Migrations(entries'[m]) = {}
    BY <1>4 DEF Books, Apart
  <2>2. ASSUME NEW q \in Operator, NEW p \in op'[q].plan
        PROVE  /\ p.entry.kind = "migration" /\ p.entry.id <= issued'
               /\ \A m \in Member \ Cohort : \A l \in lots'[m] : l.entry # p.entry.id
    <3>1. q # o /\ p \in op[q].plan
      BY <1>5, <1>6, <2>2
    <3>2. OfCohort(p)
      BY <3>1 DEF Books, Apart
    <3> QED  BY <1>1, <1>4, <3>2 DEF OfCohort
  <2> QED  BY <2>1, <2>2 DEF Apart, OfCohort, Migrations
<1>12. RowsHeld'
  <2> SUFFICES ASSUME NEW q \in Operator, NEW m \in Upserted(op'[q])
               PROVE  lock'[m] = q
    BY DEF RowsHeld, Upserted
  <2>1. q # o /\ m \in Upserted(op[q]) /\ m \in Member
    BY <1>5, <1>6, AnchorIs DEF Upserted
  <2>2. lock[m] = q
    BY <2>1 DEF Books, RowsHeld
  <2> QED  BY <1>1, <2>1, <2>2, HeldIs
<1>13. Agreed'
  <2>1. \A q \in Operator : \A x \in op'[q].summed : x[2].id <= issued'
    BY <1>1, <1>5, <1>6 DEF Books, Agreed
  <2>2. ASSUME NEW q \in Operator, NEW m \in Summed(op'[q]) PROVE FALSE
    <3>1. q # o /\ op[q].at \in {"reconcile", "backfilled"}
      BY <1>5, <1>6, <2>2 DEF Summed
    <3> QED  BY <1>1, <3>1, AloneAtCommit
  <2> QED  BY <2>1, <2>2 DEF Agreed, Summed, SumsUp, Counted
<1> QED  BY <1>7, <1>9, <1>10, <1>11, <1>12, <1>13 DEF Books

\* The lots of a live entry are those there were, drawn on or with one more, and change by
\* what the entry changes the backed balance.
Backing(e) == IF e.kind = "adjust" /\ e.points < 0 THEN 0 ELSE e.points

LEMMA LotsAre ==
  ASSUME Inv, Books, NEW m \in Member, NEW e \in Entry, e.id = issued + 1, LotsFollow(m, e)
  PROVE  \E ls \in SUBSET Lot :
           /\ lots' = [lots EXCEPT ![m] = ls] /\ IsFiniteSet(ls)
           /\ \A l \in ls : l.entry = e.id \/ \E x \in lots[m] : x.entry = l.entry
           /\ \A l, j \in ls : l.entry = j.entry => l = j
           /\ Left(ls) = Left(lots[m]) + Backing(e)
<1>1. /\ lots[m] \in SUBSET Lot /\ IsFiniteSet(lots[m]) /\ Left(lots[m]) \in Int
      /\ \A x \in lots[m] : x.entry \in Nat /\ x.entry <= issued
      /\ \A x, y \in lots[m] : x.entry = y.entry => x = y
      /\ issued \in Nat /\ e.points \in Int
  BY RowsAre, LeftAdds DEF Books, Numbered, Lot, Entry
<1>2. CASE e.points > 0 /\ Fund(m, e)
  <2>1. PICK l \in Lot : /\ l.entry = e.id /\ l.remaining = e.points
                         /\ lots' = [lots EXCEPT ![m] = lots[m] \cup {l}]
    BY <1>2, FundIs
  <2> DEFINE ls == lots[m] \cup {l}
  <2>2. l \in Lot \ lots[m]
    BY <1>1, <2>1
  <2>3. ls \in SUBSET Lot /\ IsFiniteSet(ls) /\ Left(ls) = Left(lots[m]) + e.points
    BY <1>1, <2>1, <2>2, LeftAdds
  <2>4. /\ \A x \in ls : x.entry = e.id \/ \E y \in lots[m] : y.entry = x.entry
        /\ \A x, y \in ls : x.entry = y.entry => x = y
    BY <1>1, <2>1
  <2>5. Backing(e) = e.points
    BY <1>1, <1>2 DEF Backing
  <2> QED  BY <2>1, <2>3, <2>4, <2>5
<1>3. ASSUME e.points < 0, e.kind # "adjust", NEW l \in lots[m], -e.points <= l.remaining,
             Draw(m, l, -e.points)
      PROVE  \E ls \in SUBSET Lot :
               /\ lots' = [lots EXCEPT ![m] = ls] /\ IsFiniteSet(ls)
               /\ \A x \in ls : x.entry = e.id \/ \E y \in lots[m] : y.entry = x.entry
               /\ \A x, y \in ls : x.entry = y.entry => x = y
               /\ Left(ls) = Left(lots[m]) + Backing(e)
  <2>1. -e.points \in Nat /\ Backing(e) = e.points
    BY <1>1, <1>3 DEF Backing
  <2>2. PICK j \in Lot : /\ j.entry = l.entry /\ j.remaining = l.remaining - (-e.points)
                         /\ lots' = [lots EXCEPT ![m] = (lots[m] \ {l}) \cup {j}]
    BY <1>3, <2>1, DrawIs
  <2> DEFINE rest == lots[m] \ {l}
             ls == rest \cup {j}
  <2>3. rest \in SUBSET Lot /\ IsFiniteSet(rest) /\ lots[m] = rest \cup {l} /\ l \notin rest
    BY <1>1, FS_Subset
  <2>4. \A x \in rest : x.entry # l.entry /\ x \in lots[m]
    BY <1>1
  <2>5. lots' = [lots EXCEPT ![m] = ls]
    BY <2>2
  <2> HIDE DEF rest
  <2>6. j \in Lot \ rest /\ l \in Lot \ rest /\ l.remaining \in Nat
    BY <1>1, <2>2, <2>3, <2>4 DEF Lot
  <2>7. /\ Left(rest) \in Int /\ Left(lots[m]) = Left(rest) + l.remaining
        /\ Left(ls) = Left(rest) + j.remaining /\ IsFiniteSet(ls)
    BY <2>3, <2>6, LeftAdds
  <2>8. Left(ls) = Left(lots[m]) + Backing(e) /\ ls \in SUBSET Lot
    BY <1>1, <2>1, <2>2, <2>3, <2>6, <2>7
  <2>9. /\ \A x \in ls : x.entry = e.id \/ \E y \in lots[m] : y.entry = x.entry
        /\ \A x, y \in ls : x.entry = y.entry => x = y
    BY <1>1, <2>2, <2>4
  <2> HIDE DEF ls
  <2> QED  BY <2>5, <2>7, <2>8, <2>9
<1>4. CASE e.points < 0 /\ e.kind = "adjust" /\ UNCHANGED lots
  <2> DEFINE ls == lots[m]
  <2>1. lots' = [lots EXCEPT ![m] = ls] /\ Backing(e) = 0
    BY <1>4 DEF Inv, Shapes, Backing
  <2>2. /\ ls \in SUBSET Lot /\ IsFiniteSet(ls) /\ Left(ls) = Left(lots[m]) + Backing(e)
        /\ \A x, y \in ls : x.entry = y.entry => x = y
    BY <1>1, <2>1
  <2>3. \A x \in ls : x.entry = e.id \/ \E y \in lots[m] : y.entry = x.entry
    OBVIOUS
  <2> HIDE DEF ls
  <2> QED  BY <2>1, <2>2, <2>3
<1> QED  BY <1>2, <1>3, <1>4 DEF LotsFollow

\* A live entry changes the backed balance by what it changes in the lots, and what it adds
\* to a member a backfill has summed is late.
LEMMA LiveKeepsBooks ==
  ASSUME Inv, Books, NEW m \in Member, NEW e \in Entry, LiveEntry(m, e)
  PROVE  Books'
<1>0. /\ e.kind # "migration" /\ e.id = issued + 1 /\ issued' = issued + 1
      /\ lock[m] = None \/ e.kind \in Shares
      /\ entries' = [entries EXCEPT ![m] = entries[m] \cup {e}] /\ live' = live \cup {<<m, e>>}
      /\ lock' = lock /\ op' = op
  BY DEF LiveEntry, Commit
<1>11. PICK ls \in SUBSET Lot :
         /\ lots' = [lots EXCEPT ![m] = ls] /\ IsFiniteSet(ls)
         /\ \A l \in ls : l.entry = e.id \/ \E x \in lots[m] : x.entry = l.entry
         /\ \A l, j \in ls : l.entry = j.entry => l = j
         /\ Left(ls) = Left(lots[m]) + Backing(e)
  BY LotsAre DEF LiveEntry
<1>1. /\ \A n \in Member : n # m => entries'[n] = entries[n] /\ lots'[n] = lots[n]
      /\ entries'[m] = entries[m] \cup {e} /\ lots'[m] = ls
  BY <1>0, <1>11 DEF Inv, Shapes
<1>2. /\ \A n \in Member : /\ entries[n] \in SUBSET Entry /\ IsFiniteSet(entries[n])
                           /\ lots[n] \in SUBSET Lot /\ IsFiniteSet(lots[n])
                           /\ \A x \in entries[n] : x.id \in Nat /\ x.id <= issued
                           /\ \A l \in lots[n] : l.entry \in Nat /\ l.entry <= issued
      /\ issued \in Nat
  BY RowsAre DEF Books, Numbered, Entry, Lot
<1>3. e \in Entry \ entries[m]
  BY <1>0, <1>2
<1>4. IsFiniteSet(entries'[m]) /\ Total(Backed(entries'[m])) = Total(Backed(entries[m])) + Backing(e)
  <2> DEFINE S == Backed(entries[m])
  <2>1. S \in SUBSET Entry /\ IsFiniteSet(S) /\ e \in Entry \ S
    <3>1. S \in SUBSET entries[m]
      BY DEF Backed
    <3> QED  BY <1>2, <1>3, <3>1, FS_Subset
  <2>2. /\ IsFiniteSet(entries'[m])
        /\ Backed(entries'[m]) = IF e.kind = "adjust" /\ e.points < 0 THEN S ELSE S \cup {e}
    <3>0. IsFiniteSet(entries[m]) /\ entries'[m] = entries[m] \cup {e}
      BY <1>1, <1>2
    <3>1. IsFiniteSet(entries'[m])
      <4> DEFINE E == entries[m]
      <4>1. E \in SUBSET Entry /\ IsFiniteSet(E) /\ e \in Entry \ E /\ entries'[m] = E \cup {e}
        BY <1>2, <1>3, <3>0
      <4> HIDE DEF E
      <4>2. IsFiniteSet(E \cup {e})
        BY <4>1, TotalAdds
      <4> QED  BY <4>1, <4>2
    <3>2. CASE e.kind = "adjust" /\ e.points < 0
      <4>1. Backed(entries'[m]) = S
        BY <3>0, <3>2 DEF Backed
      <4> QED  BY <3>1, <3>2, <4>1
    <3>3. CASE ~(e.kind = "adjust" /\ e.points < 0)
      <4>1. Backed(entries'[m]) = S \cup {e}
        BY <3>0, <3>3 DEF Backed
      <4> QED  BY <3>1, <3>3, <4>1
    <3> QED  BY <3>1, <3>2, <3>3
  <2> HIDE DEF S
  <2>3. Total(S \cup {e}) = Total(S) + e.points /\ Total(S) \in Int
    BY <2>1, TotalAdds
  <2>4. Total(Backed(entries'[m])) = Total(S) + Backing(e)
    BY <2>2, <2>3 DEF Backing
  <2> QED  BY <2>2, <2>4 DEF S
<1>5. Kept'
  <2> SUFFICES ASSUME NEW x \in live'
               PROVE  x[1] \in Member /\ x[2] \in entries'[x[1]] /\ x[2].kind # "migration"
    BY DEF Kept
  <2>1. CASE x = <<m, e>>
    BY <1>0, <1>1, <2>1
  <2>2. CASE x \in live
    <3>1. x[1] \in Member /\ x[2] \in entries[x[1]] /\ x[2].kind # "migration"
      BY <2>2 DEF Books, Kept
    <3> QED  BY <1>1, <3>1
  <2> QED  BY <1>0, <2>1, <2>2
<1>6. Numbered'
  <2>1. ASSUME NEW n \in Member
        PROVE  /\ IsFiniteSet(entries'[n]) /\ IsFiniteSet(lots'[n])
               /\ \A x \in entries'[n] : x.id <= issued'
               /\ \A l \in lots'[n] : l.entry <= issued'
    <3>1. /\ \A x \in entries[n] : x.id <= issued'
          /\ \A l \in lots[n] : l.entry <= issued'
      BY <1>0, <1>2
    <3>2. e.id <= issued' /\ issued < issued'
      BY <1>0, <1>2
    <3>3. CASE n = m
      BY <1>0, <1>1, <1>2, <1>4, <1>11, <3>1, <3>2, <3>3
    <3>4. CASE n # m
      BY <1>0, <1>1, <1>2, <3>1, <3>4
    <3> QED  BY <3>3, <3>4
  <2>2. ASSUME NEW n \in Member, NEW l \in lots'[n]
        PROVE  (n = m /\ l.entry = e.id) \/ \E x \in lots[n] : x.entry = l.entry
    BY <1>1, <1>11, <2>2
  <2>3. \A n \in Member : \A x \in lots[n] : x.entry # e.id
    BY <1>0, <1>2
  <2>4. ASSUME NEW n \in Member, NEW k \in Member, NEW l \in lots'[n], NEW j \in lots'[k],
               l.entry = j.entry
        PROVE  n = k /\ l = j
    <3>1. n = k
      BY <2>2, <2>3, <2>4 DEF Books, Numbered
    <3>2. CASE n = m
      BY <1>1, <1>11, <2>4, <3>1, <3>2
    <3>3. CASE n # m
      BY <1>1, <2>4, <3>1, <3>3 DEF Books, Numbered
    <3> QED  BY <3>1, <3>2, <3>3
  <2> QED  BY <2>1, <2>4 DEF Numbered
<1>7. Balanced'
  <2> SUFFICES ASSUME NEW n \in Member
               PROVE  Left(lots'[n]) = Total(Backed(entries'[n]))
    BY DEF Balanced, Backed
  <2>1. Left(lots[n]) = Total(Backed(entries[n]))
    BY DEF Books, Balanced
  <2>2. CASE n = m
    BY <1>1, <1>4, <1>11, <2>1, <2>2
  <2>3. CASE n # m
    BY <1>1, <2>1, <2>3
  <2> QED  BY <2>2, <2>3
<1>8. Apart'
  <2>1. \A n \in Member : Migrations(entries'[n]) = Migrations(entries[n])
    BY <1>0, <1>1 DEF Migrations
  <2>2. ASSUME NEW q \in Operator, NEW p \in op[q].plan
        PROVE  /\ p.entry.kind = "migration" /\ p.entry.id <= issued'
               /\ \A n \in Member \ Cohort : \A l \in lots'[n] : l.entry # p.entry.id
    <3>1. OfCohort(p) /\ p.entry.id \in Nat
      BY DEF Books, Apart, Inv, TypeOK, Entry
    <3>2. p.entry.id # e.id /\ p.entry.id <= issued'
      BY <1>0, <1>2, <3>1 DEF OfCohort
    <3>3. ASSUME NEW n \in Member \ Cohort, NEW l \in lots'[n] PROVE l.entry # p.entry.id
      <4>1. l.entry = e.id \/ \E x \in lots[n] : x.entry = l.entry
        BY <1>1, <1>11
      <4> QED  BY <3>1, <3>2, <4>1 DEF OfCohort
    <3> QED  BY <3>1, <3>2, <3>3 DEF OfCohort
  <2>3. \A n \in Member \ Cohort : Migrations(entries'[n]) = {}
    BY <2>1 DEF Books, Apart
  <2> QED  BY <1>0, <2>2, <2>3 DEF Apart, OfCohort, Migrations
<1>9. RowsHeld'
  BY <1>0 DEF Books, RowsHeld, Upserted
<1>10. Agreed'
  <2> SUFFICES ASSUME NEW q \in Operator
               PROVE  /\ \A x \in op[q].summed : x[2].id <= issued'
                      /\ \A n \in Summed(op[q]) : Counted(op[q], n)' = Counted(op[q], n)
    BY <1>0 DEF Books, Agreed, Summed, SumsUp
  <2>1. \A x \in op[q].summed : x[2].id <= issued /\ x[2].id \in Nat
    BY DEF Books, Agreed, Inv, Shapes, OpState, Entry
  <2>2. ASSUME NEW n \in Summed(op[q]) PROVE Counted(op[q], n)' = Counted(op[q], n)
    <3>1. n \in Upserted(op[q]) /\ n \in Member
      BY AnchorIs DEF Summed, Upserted
    <3>2. lock[n] = q /\ q # None
      BY <3>1, MigrationAssumption DEF Books, RowsHeld
    <3>3. CASE n # m
      BY <1>0, <1>1, <3>1, <3>3 DEF Counted
    <3>4. CASE n = m
      <4>1. e.kind \in Shares
        BY <1>0, <3>2, <3>4
      <4>2. <<n, e>> \notin op[q].summed
        BY <1>0, <1>2, <2>1
      <4> QED  BY <1>0, <1>1, <3>4, <4>1, <4>2 DEF Counted
    <3> QED  BY <3>3, <3>4
  <2> QED  BY <1>0, <1>2, <2>1, <2>2
<1> QED  BY <1>5, <1>6, <1>7, <1>8, <1>9, <1>10 DEF Books

LEMMA InitBooks == Init => Books
<1> SUFFICES ASSUME Init PROVE Books
  OBVIOUS
<1>1. \A m \in Member : entries[m] = {} /\ lots[m] = {}
  BY DEF Init
<1>2. \A o \in Operator : op[o].at = "idle" /\ op[o].plan = {} /\ op[o].summed = {}
  BY DEF Init, Idle
<1>3. RowsHeld /\ Agreed
  BY <1>2 DEF RowsHeld, Agreed, Upserted, Summed
<1>4. Kept
  BY DEF Init, Kept
<1>5. Numbered
  BY <1>1, FS_EmptySet DEF Numbered
<1>6. Apart
  BY <1>1, <1>2 DEF Apart, Migrations
<1>7. Balanced
  <2>1. Left({}) = 0 /\ Total({}) = 0 /\ Backed({}) = {}
    BY FS_EmptySet, TotalAdds, LeftAdds DEF Backed
  <2> QED  BY <1>1, <2>1 DEF Balanced
<1> QED  BY <1>3, <1>4, <1>5, <1>6, <1>7 DEF Books

LEMMA StutterKeepsBooks ==
  ASSUME Books, UNCHANGED vars
  PROVE  Books'
<1>1. RowsHeld' /\ Kept' /\ Numbered'
  BY DEF vars, Books, RowsHeld, Upserted, Kept, Numbered
<1>2. Apart'
  BY DEF vars, Books, Apart, OfCohort, Migrations
<1>3. Balanced'
  BY DEF vars, Books, Balanced, Backed
<1>4. Agreed'
  BY DEF vars, Books, Agreed, Summed, SumsUp, Counted
<1> QED  BY <1>1, <1>2, <1>3, <1>4 DEF Books

LEMMA StepBooks == Inv /\ Books /\ [Next]_vars => Books'
<1> SUFFICES ASSUME Inv, Books, Next PROVE Books'
  BY StutterKeepsBooks
<1>1. CASE \E m \in Member : Earn(m) \/ Redeem(m) \/ Adjust(m) \/ Clawback(m) \/ Expire(m)
  BY <1>1, LiveIs, LiveKeepsBooks
<1>2. CASE \E o \in Operator : Backfill(o)
  BY <1>2, StartUnwritten, UnwrittenKeepsBooks, BackfillKeepsBooks, RollbackUnwritten,
     CommitBackfillKeepsBooks DEF Backfill, RefuseBackfill
<1>3. CASE \E o \in Operator : Recovery(o)
  BY <1>3, StartUnwritten, InspectionUnwritten, ReadLotsUnwritten, DeletesUnwritten,
     UnwrittenKeepsBooks, CommitRecoveryKeepsBooks DEF Recovery
<1>4. CASE \E o \in Operator : Crash(o)
  BY <1>4, RollbackUnwritten, UnwrittenKeepsBooks DEF Crash
<1> QED  BY <1>1, <1>2, <1>3, <1>4 DEF Next

\* Every state of the migration has its books in order.
THEOREM BooksAreKept == Spec => []Books
BY Invariance, InitBooks, StepBooks, PTL DEF Spec

\* A reversal destroys nothing that members or administrators did, and the lots of a member
\* add up to what they stand behind, however it meets live traffic and other scripts.
THEOREM KeepsActivity == Spec => []ActivityKept
<1>1. Books => ActivityKept
  BY DEF Books, Kept, Balanced, Left, ActivityKept
<1> QED  BY <1>1, BooksAreKept, PTL

\* A backfill that reports success leaves every member of the cohort with exactly the
\* migrated points, but for the adjustments, clawbacks and expiries that were committed
\* after it took that member's sum.
THEOREM BackfillsTruly == Spec => BackfilledIsTrue
<1> DEFINE Truly == \A o \in Operator : CommitBackfill(o) =>
                      \A m \in Cohort : Total(entries'[m] \ Late(o, m)) = Opening
<1>1. Inv /\ Books => [Truly]_vars
  BY CommitBackfillKeepsBooks
<1> HIDE DEF Truly
<1>2. Spec => [][Truly]_vars
  BY <1>1, Invariance, BooksAreKept, PTL
<1> QED  BY <1>2 DEF BackfilledIsTrue, Truly

=============================================================================
