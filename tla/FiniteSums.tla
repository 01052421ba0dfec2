------------------------------ MODULE FiniteSums ------------------------------
(***************************************************************************)
(* Lemmas about the sum of a function over its finite domain, for the      *)
(* invariants that count lots.  The community modules define the sum by    *)
(* recursion over the subsets of the domain; what it is worth follows by   *)
(* induction, stated here over sets, not over a predicate.                 *)
(***************************************************************************)
EXTENDS FiniteSetTheorems, FiniteSetsExt, TLAPS

LEMMA FiniteInduction ==
  ASSUME NEW S, IsFiniteSet(S), NEW G, {} \in G,
         \A T \in SUBSET S : (\A U \in SUBSET T : U # T => U \in G) => T \in G
  PROVE  \A T \in SUBSET S : T \in G
<1> DEFINE R == StrictSubsetOrdering(S)
           bad == {T \in SUBSET S : T \notin G}
<1> SUFFICES ASSUME bad # {} PROVE FALSE
  OBVIOUS
<1>2. IsWellFoundedOn(R, SUBSET S)
  <2>1. IsWellFoundedOn(StrictSubsetOrdering(S), FiniteSubsetsOf(S))
    BY FS_StrictSubsetOrderingWellFounded
  <2>2. FiniteSubsetsOf(S) = SUBSET S
    BY FS_FiniteSubsetsOfFinite
  <2> QED
    BY <2>1, <2>2
<1>3. PICK T \in bad : \A U \in bad : ~(<<U, T>> \in R)
  <2>1. bad \subseteq SUBSET S
    OBVIOUS
  <2> HIDE DEF R, bad
  <2> QED
    BY <1>2, <2>1, WFMin
<1>4. \A U \in SUBSET T : U # T => U \in G
  <2> SUFFICES ASSUME NEW U \in SUBSET T, U # T, U \notin G PROVE FALSE
    OBVIOUS
  <2>1. U \in bad /\ <<U, T>> \in R
    BY DEF StrictSubsetOrdering
  <2> QED
    BY <1>3, <2>1
<1> QED
  BY <1>3, <1>4

\* g is the recursive function of Folds for the sum of f over S.
First(s) == CHOOSE x \in s : TRUE

IsSum(g, f, S) ==
  g = [s \in SUBSET S |-> IF s = {} THEN 0 ELSE f[First(s)] + g[s \ {First(s)}]]

LEMMA SumUnfolds ==
  ASSUME NEW f, NEW S
  PROVE  SumFunctionOnSet(f, S) = (CHOOSE g : IsSum(g, f, S))[S]
BY DEF SumFunctionOnSet, FoldFunctionOnSet, MapThenFoldSet, IsSum, First

\* The subsets of at most n elements, on which the recursion is built up.
Small(S, n) == {s \in SUBSET S : Cardinality(s) <= n}

IsSumTo(g, f, S, n) ==
  g = [s \in Small(S, n) |-> IF s = {} THEN 0 ELSE f[First(s)] + g[s \ {First(s)}]]

LEMMA FirstIn == \A s : s # {} => First(s) \in s
BY DEF First

LEMMA SmallRest ==
  ASSUME NEW S, IsFiniteSet(S), NEW n \in Nat, NEW s \in Small(S, n + 1), s # {}
  PROVE  s \ {First(s)} \in Small(S, n)
<1>1. IsFiniteSet(s) /\ First(s) \in s
  BY FS_Subset, FirstIn DEF Small
<1>2. /\ Cardinality(s \ {First(s)}) = Cardinality(s) - 1
      /\ Cardinality(s) \in Nat
  BY <1>1, FS_RemoveElement, FS_CardinalityType
<1> QED
  BY <1>2 DEF Small

LEMMA CountInduction ==
  ASSUME NEW G, 0 \in G, \A n \in Nat : n \in G => n + 1 \in G, NEW n \in Nat
  PROVE  n \in G
<1> DEFINE S == 1 .. n
           H == {T \in SUBSET S : Cardinality(T) \in G}
<1>1. IsFiniteSet(S) /\ Cardinality(S) = n
  BY FS_Interval
<1>2. {} \in H
  BY FS_EmptySet
<1>3. \A T \in SUBSET S : (\A U \in SUBSET T : U # T => U \in H) => T \in H
  <2> SUFFICES ASSUME NEW T \in SUBSET S, T # {}, \A U \in SUBSET T : U # T => U \in H
               PROVE  T \in H
    BY <1>2
  <2>1. PICK x \in T : TRUE
    OBVIOUS
  <2>2. IsFiniteSet(T)
    BY <1>1, FS_Subset
  <2>3. Cardinality(T \ {x}) = Cardinality(T) - 1 /\ Cardinality(T) \in Nat
        /\ Cardinality(T \ {x}) \in Nat
    BY <2>1, <2>2, FS_RemoveElement, FS_CardinalityType
  <2>4. T \ {x} \in H
    BY <2>1
  <2>5. Cardinality(T) \in G
    BY <2>3, <2>4
  <2> QED
    BY <2>5
<1>4. S \in H
  <2> HIDE DEF H, S
  <2> QED
    BY <1>1, <1>2, <1>3, FiniteInduction
<1> QED
  BY <1>1, <1>4

LEMMA SumToExists ==
  ASSUME NEW f, NEW S, IsFiniteSet(S), NEW n \in Nat
  PROVE  \E g : IsSumTo(g, f, S, n)
<1> DEFINE G == {k \in Nat : \E g : IsSumTo(g, f, S, k)}
<1>1. 0 \in G
  <2> DEFINE g == [s \in Small(S, 0) |-> 0]
  <2>1. \A s \in Small(S, 0) : s = {}
    BY FS_Subset, FS_EmptySet, FS_CardinalityType DEF Small
  <2>2. IsSumTo(g, f, S, 0)
    BY <2>1 DEF IsSumTo
  <2> QED
    BY <2>2
<1>2. \A k \in Nat : k \in G => k + 1 \in G
  <2> SUFFICES ASSUME NEW k \in Nat, NEW g, IsSumTo(g, f, S, k)
               PROVE  \E h : IsSumTo(h, f, S, k + 1)
    OBVIOUS
  <2> DEFINE h == [s \in Small(S, k + 1) |->
                     IF s = {} THEN 0 ELSE f[First(s)] + g[s \ {First(s)}]]
  <2>1. \A s \in Small(S, k) : s \in Small(S, k + 1) /\ h[s] = g[s]
    <3>1. \A s \in Small(S, k) : s \in Small(S, k + 1)
      BY FS_Subset, FS_CardinalityType DEF Small
    <3> QED
      BY <3>1 DEF IsSumTo
  <2>2. \A s \in Small(S, k + 1) : s # {} => h[s \ {First(s)}] = g[s \ {First(s)}]
    BY <2>1, SmallRest
  <2>3. h = [s \in Small(S, k + 1) |->
               IF s = {} THEN 0 ELSE f[First(s)] + h[s \ {First(s)}]]
    BY <2>2
  <2> HIDE DEF h
  <2> QED
    BY <2>3 DEF IsSumTo
<1> HIDE DEF G
<1>3. n \in G
  BY <1>1, <1>2, CountInduction
<1> QED
  BY <1>3 DEF G

LEMMA SumExists ==
  ASSUME NEW f, NEW S, IsFiniteSet(S)
  PROVE  \E g : IsSum(g, f, S)
<1>1. Small(S, Cardinality(S)) = SUBSET S /\ Cardinality(S) \in Nat
  BY FS_Subset, FS_CardinalityType DEF Small
<1>2. PICK g : IsSumTo(g, f, S, Cardinality(S))
  BY <1>1, SumToExists
<1> QED
  BY <1>1, <1>2 DEF IsSumTo, IsSum

SumOn(f, S) == CHOOSE g : IsSum(g, f, S)

LEMMA SumOnDef ==
  ASSUME NEW f, NEW S, IsFiniteSet(S)
  PROVE  /\ SumFunctionOnSet(f, S) = SumOn(f, S)[S]
         /\ SumOn(f, S)[{}] = 0
         /\ \A s \in SUBSET S : s # {} =>
              SumOn(f, S)[s] = f[First(s)] + SumOn(f, S)[s \ {First(s)}]
<1>1. IsSum(SumOn(f, S), f, S)
  BY SumExists DEF SumOn
<1> QED
  BY <1>1, SumUnfolds DEF IsSum, SumOn

LEMMA SumOnStep ==
  ASSUME NEW f, NEW S, IsFiniteSet(S), NEW s \in SUBSET S, s # {}
  PROVE  SumOn(f, S)[s] = f[First(s)] + SumOn(f, S)[s \ {First(s)}]
<1>1. IsSum(SumOn(f, S), f, S)
  BY SumExists DEF SumOn
<1> QED
  BY <1>1 DEF IsSum

\* The sum of natural numbers is one, and so is every part of it.
LEMMA SumNat ==
  ASSUME NEW S, IsFiniteSet(S), NEW f \in [S -> Nat]
  PROVE  SumFunctionOnSet(f, S) \in Nat
<1> DEFINE G == {s \in SUBSET S : SumOn(f, S)[s] \in Nat}
<1>0. \A s \in SUBSET S : s # {} =>
        SumOn(f, S)[s] = f[First(s)] + SumOn(f, S)[s \ {First(s)}]
  BY SumOnStep
<1>1. {} \in G
  BY SumOnDef
<1>2. \A T \in SUBSET S : (\A U \in SUBSET T : U # T => U \in G) => T \in G
  <2> SUFFICES ASSUME NEW T \in SUBSET S, T # {}, \A U \in SUBSET T : U # T => U \in G
               PROVE  SumOn(f, S)[T] \in Nat
    BY <1>1
  <2>1. First(T) \in T /\ f[First(T)] \in Nat
    BY FirstIn
  <2>2. T \ {First(T)} \in G
    BY <2>1
  <2>3. SumOn(f, S)[T] = f[First(T)] + SumOn(f, S)[T \ {First(T)}]
    BY <1>0
  <2> QED
    BY <2>1, <2>2, <2>3
<1> HIDE DEF G
<1>3. S \in G
  BY <1>1, <1>2, FiniteInduction
<1> QED
  BY <1>3, SumOnDef DEF G

LEMMA SumZero ==
  ASSUME NEW S, IsFiniteSet(S), NEW f, \A x \in S : f[x] = 0
  PROVE  SumFunctionOnSet(f, S) = 0
<1> DEFINE G == {s \in SUBSET S : SumOn(f, S)[s] = 0}
<1>1. {} \in G
  BY SumOnDef
<1>2. \A T \in SUBSET S : (\A U \in SUBSET T : U # T => U \in G) => T \in G
  <2> SUFFICES ASSUME NEW T \in SUBSET S, T # {}, \A U \in SUBSET T : U # T => U \in G
               PROVE  SumOn(f, S)[T] = 0
    BY <1>1
  <2>1. First(T) \in T /\ f[First(T)] = 0
    BY FirstIn
  <2>2. T \ {First(T)} \in G
    BY <2>1
  <2>3. SumOn(f, S)[T \ {First(T)}] = 0
    BY <2>2
  <2>4. SumOn(f, S)[T] = f[First(T)] + SumOn(f, S)[T \ {First(T)}]
    <3> HIDE DEF G
    <3> QED
      BY SumOnDef
  <2> QED
    BY <2>1, <2>3, <2>4
<1> HIDE DEF G
<1>3. S \in G
  BY <1>1, <1>2, FiniteInduction
<1> QED
  BY <1>3, SumOnDef DEF G

\* The functions f and g differ at x at most.
ChangedAt(f, g, S, x) ==
  /\ IsFiniteSet(S) /\ f \in [S -> Int] /\ g \in [S -> Int] /\ x \in S
  /\ \A y \in S \ {x} : g[y] = f[y]

\* A change of one value changes the sum by as much.
LEMMA SumChange ==
  ASSUME NEW S, NEW f, NEW g, NEW x, ChangedAt(f, g, S, x)
  PROVE  SumFunctionOnSet(g, S) = SumFunctionOnSet(f, S) + g[x] - f[x]
<1> DEFINE d(s) == IF x \in s THEN g[x] - f[x] ELSE 0
           G == {s \in SUBSET S : /\ SumOn(f, S)[s] \in Int
                                  /\ SumOn(g, S)[s] = SumOn(f, S)[s] + d(s)}
<1> USE DEF ChangedAt
<1>0. \A h \in {f, g} : \A s \in SUBSET S : s # {} =>
        SumOn(h, S)[s] = h[First(s)] + SumOn(h, S)[s \ {First(s)}]
  BY SumOnStep
<1>1. {} \in G
  BY SumOnDef
<1>2. \A T \in SUBSET S : (\A U \in SUBSET T : U # T => U \in G) => T \in G
  <2> SUFFICES ASSUME NEW T \in SUBSET S, T # {}, \A U \in SUBSET T : U # T => U \in G
               PROVE  T \in G
    BY <1>1
  <2> DEFINE y == First(T)
             U == T \ {y}
  <2>1. y \in T /\ f[y] \in Int /\ g[y] \in Int /\ f[x] \in Int /\ g[x] \in Int
    BY FirstIn
  <2>2. U \in G
    BY <2>1
  <2>3. /\ SumOn(f, S)[T] = f[y] + SumOn(f, S)[U]
        /\ SumOn(g, S)[T] = g[y] + SumOn(g, S)[U]
    BY <1>0
  <2>4. y # x => g[y] = f[y] /\ (x \in U <=> x \in T)
    BY <2>1
  <2>5. y = x => x \in T /\ x \notin U
    BY <2>1
  <2> HIDE DEF y, U
  <2>6. SumOn(f, S)[T] \in Int /\ SumOn(g, S)[T] = SumOn(f, S)[T] + d(T)
    BY <2>1, <2>2, <2>3, <2>4, <2>5
  <2> QED
    BY <2>6
<1>3. S \in G
  <2> HIDE DEF G
  <2> QED
    BY <1>1, <1>2, FiniteInduction
<1>4. SumOn(f, S)[S] \in Int /\ SumOn(g, S)[S] = SumOn(f, S)[S] + g[x] - f[x]
  BY <1>3
<1> QED
  BY <1>4, SumOnDef

=============================================================================
