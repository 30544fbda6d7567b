----------------------------- MODULE ReadsProofs -----------------------------
(***************************************************************************)
(* Theorems about Reads, for every input of its kind: every section,       *)
(* schedule, batch and set of sales, however large.  The functions there   *)
(* are recursive over a sequence, or fold a set; the induction they need   *)
(* is that a nonempty set of naturals has a least element, and each is     *)
(* taken as the CHOOSE of a function that satisfies its recursion.         *)
(***************************************************************************)
EXTENDS Reads, ListingProofs, FiniteSetTheorems, WellFoundedInduction, TLAPS

-----------------------------------------------------------------------------
(***************************************************************************)
(* Induction and recursion.                                                *)
(***************************************************************************)

\* Induction, over the naturals and over the subsets of a finite set, from the least
\* element that a nonempty set of naturals has.
LEMMA LeastNatural ==
  ASSUME NEW T \in SUBSET Nat, T # {}
  PROVE  \E n \in T : \A m \in T : n <= m
  <1>1. PICK n \in T : \A m \in T : ~(<<m, n>> \in OpToRel(<, Nat))
    BY NatLessThanWellFounded, WFMin
  <1>2. \A m \in T : ~(m < n)
    BY <1>1, Zenon DEF OpToRel
  <1> QED
    BY <1>2

LEMMA Induction ==
  ASSUME NEW P, 0 \in P, \A n \in Nat : n \in P => n + 1 \in P
  PROVE  \A n \in Nat : n \in P
  <1> DEFINE T == {n \in Nat : n \notin P}
  <1>1. SUFFICES ASSUME T # {} PROVE FALSE
    OBVIOUS
  <1>2. PICK n \in T : \A m \in T : n <= m
    BY <1>1, LeastNatural
  <1>3. n - 1 \in Nat /\ n - 1 \in P
    BY <1>2
  <1> QED
    BY <1>2, <1>3

LEMMA SetInduction ==
  ASSUME NEW S, IsFiniteSet(S), NEW P, {} \in P, \A T \in SUBSET S, x \in S : T \in P /\ x \notin T => T \cup {x} \in P
  PROVE  S \in P
  <1> DEFINE Q == {n \in Nat : \A T \in SUBSET S : Cardinality(T) = n => T \in P}
  <1>1. 0 \in Q
    BY FS_Subset, FS_EmptySet
  <1>2. ASSUME NEW n \in Nat, n \in Q
        PROVE  n + 1 \in Q
    <2>1. SUFFICES ASSUME NEW T \in SUBSET S, Cardinality(T) = n + 1
                   PROVE  T \in P
      OBVIOUS
    <2>2. IsFiniteSet(T) /\ IsFiniteSet({}) /\ Cardinality({}) = 0
      BY FS_Subset, FS_EmptySet
    <2>3. PICK x \in T : TRUE
      BY <2>1, <2>2
    <2>4. Cardinality(T \ {x}) = n
      <3>1. Cardinality(T \ {x}) = Cardinality(T) - 1
        BY <2>2, FS_RemoveElement
      <3> QED
        BY <2>1, <3>1
    <2>5. T \ {x} \in P
      BY <1>2, <2>4
    <2>6. T = (T \ {x}) \cup {x}
      OBVIOUS
    <2> QED
      BY <2>5, <2>6
  <1>3. \A n \in Nat : n \in Q
    <2> HIDE DEF Q
    <2> QED
      BY <1>1, <1>2, Induction
  <1> QED
    BY <1>3, FS_CardinalityType

\* A recursive function over 0..n exists, and keeps its values in V when its steps do.
IsRecursive(n, V, base, F, g) ==
  g \in [0..n -> V] /\ g[0] = base /\ \A k \in 1..n : g[k] = F[k][g[k - 1]]

LEMMA Recursion ==
  ASSUME NEW n \in Nat, NEW V, NEW base \in V, NEW F, \A k \in 1..n, v \in V : F[k][v] \in V
  PROVE  \E g : IsRecursive(n, V, base, F, g)
  <1> DEFINE Good(m, g) == g \in [0..m -> V] /\ g[0] = base /\ \A k \in 1..m : g[k] = F[k][g[k - 1]]
             P == {m \in Nat : m <= n => \E g : Good(m, g)}
  <1>1. 0 \in P
    <2>1. Good(0, [k \in 0..0 |-> base])
      OBVIOUS
    <2> QED
      BY <2>1
  <1>2. ASSUME NEW m \in Nat, m \in P
        PROVE  m + 1 \in P
    <2>1. SUFFICES ASSUME m + 1 <= n
                   PROVE  \E g : Good(m + 1, g)
      <3> HIDE DEF Good
      <3> QED
        OBVIOUS
    <2>2. PICK g : Good(m, g)
      BY <1>2, <2>1
    <2> DEFINE h == [k \in 0..(m + 1) |-> IF k <= m THEN g[k] ELSE F[m + 1][g[m]]]
    <2>3. F[m + 1][g[m]] \in V
      BY <2>1, <2>2
    <2>4. Good(m + 1, h)
      BY <2>2, <2>3
    <2> QED
      BY <2>4
  <1>3. \A m \in Nat : m \in P
    <2> HIDE DEF P
    <2> QED
      BY <1>1, <1>2, Induction
  <1>4. \E g : Good(n, g)
    BY <1>3
  <1> QED
    BY <1>4 DEF IsRecursive

-----------------------------------------------------------------------------
(***************************************************************************)
(* Sums over finite sets.                                                  *)
(***************************************************************************)

\* The recursive function with which MapThenFoldSet sums, over the subsets of S.
Pick(S) == CHOOSE x \in S : TRUE
IsFold(f, S, g) ==
  g = [s \in SUBSET S |-> IF s = {} THEN 0 ELSE f[CHOOSE x \in s : TRUE] + g[s \ {CHOOSE x \in s : TRUE}]]
Fold(f, S) == CHOOSE g : IsFold(f, S, g)

LEMMA FoldExists ==
  ASSUME NEW S, IsFiniteSet(S), NEW f, \A x \in S : f[x] \in Int
  PROVE  \E g \in [SUBSET S -> Int] : IsFold(f, S, g)
  <1> DEFINE Small(n) == {s \in SUBSET S : Cardinality(s) <= n}
             Unfolds(g, s) == g[s] = IF s = {} THEN 0 ELSE f[Pick(s)] + g[s \ {Pick(s)}]
             P == {n \in Nat : \E g \in [Small(n) -> Int] : \A s \in Small(n) : Unfolds(g, s)}
  <1>1. \A s \in SUBSET S : /\ IsFiniteSet(s) /\ Cardinality(s) \in Nat
                            /\ Cardinality(s) = 0 <=> s = {}
    BY FS_Subset, FS_CardinalityType, FS_EmptySet
  <1>2. \A s \in SUBSET S : s # {} => /\ Pick(s) \in s
                                      /\ Cardinality(s \ {Pick(s)}) = Cardinality(s) - 1
    BY <1>1, FS_RemoveElement DEF Pick
  <1>3. 0 \in P
    <2>1. Small(0) = {{}}
      BY <1>1
    <2>2. [s \in Small(0) |-> 0] \in [Small(0) -> Int] /\ \A s \in Small(0) : Unfolds([t \in Small(0) |-> 0], s)
      BY <2>1
    <2> QED
      BY <2>2
  <1>4. ASSUME NEW n \in Nat, n \in P
        PROVE  n + 1 \in P
    <2>1. PICK g \in [Small(n) -> Int] : \A s \in Small(n) : Unfolds(g, s)
      BY <1>4
    <2> DEFINE h == [s \in Small(n + 1) |-> IF s \in Small(n) THEN g[s] ELSE f[Pick(s)] + g[s \ {Pick(s)}]]
    <2>2. ASSUME NEW s \in Small(n + 1), s # {}
          PROVE  s \ {Pick(s)} \in Small(n) /\ f[Pick(s)] \in Int
      BY <1>1, <1>2, <2>2
    <2>3. {} \in Small(n)
      BY <1>1
    <2>4. h \in [Small(n + 1) -> Int]
      <3>1. ASSUME NEW s \in Small(n + 1)
            PROVE  (IF s \in Small(n) THEN g[s] ELSE f[Pick(s)] + g[s \ {Pick(s)}]) \in Int
        <4>1. CASE s \in Small(n)
          <5>1. g[s] \in Int
            BY <4>1
          <5> QED
            BY <4>1, <5>1
        <4>2. CASE s \notin Small(n)
          <5>1. f[Pick(s)] \in Int /\ g[s \ {Pick(s)}] \in Int
            BY <2>2, <2>3, <4>2
          <5> QED
            BY <4>2, <5>1
        <4> QED
          BY <4>1, <4>2
      <3> HIDE DEF Small
      <3> QED
        BY <3>1
    <2>5. ASSUME NEW s \in Small(n + 1)
          PROVE  Unfolds(h, s)
      <3>1. CASE s = {}
        BY <2>1, <2>3, <3>1
      <3>2. CASE s # {}
        <4>1. s \ {Pick(s)} \in Small(n) /\ s \ {Pick(s)} \in Small(n + 1)
          BY <2>2, <3>2, <1>1
        <4>2. h[s \ {Pick(s)}] = g[s \ {Pick(s)}]
          BY <4>1
        <4>3. h[s] = f[Pick(s)] + g[s \ {Pick(s)}]
          <5>1. CASE s \in Small(n)
            <6>1. Unfolds(g, s) /\ h[s] = g[s]
              BY <2>1, <5>1
            <6> QED
              BY <6>1, <3>2
          <5>2. CASE s \notin Small(n)
            BY <5>2
          <5> QED
            BY <5>1, <5>2
        <4> QED
          BY <4>2, <4>3, <3>2
      <3> QED
        BY <3>1, <3>2
    <2>6. \E k \in [Small(n + 1) -> Int] : \A s \in Small(n + 1) : Unfolds(k, s)
      <3> HIDE DEF h, Small, Unfolds
      <3> QED
        BY <2>4, <2>5
    <2> HIDE DEF Small, Unfolds
    <2> QED
      BY <2>6
  <1>5. Cardinality(S) \in P
    <2>1. \A n \in Nat : n \in P
      <3> HIDE DEF P
      <3> QED
        BY <1>3, <1>4, Induction
    <2> QED
      BY <1>1, <2>1
  <1>6. PICK g \in [Small(Cardinality(S)) -> Int] : \A s \in Small(Cardinality(S)) : Unfolds(g, s)
    BY <1>5
  <1>7. Small(Cardinality(S)) = SUBSET S
    BY FS_Subset
  <1>8. IsFold(f, S, g)
    <2>1. g = [s \in SUBSET S |-> g[s]]
      BY <1>6, <1>7
    <2>2. \A s \in SUBSET S : g[s] = IF s = {} THEN 0 ELSE f[CHOOSE x \in s : TRUE] + g[s \ {CHOOSE x \in s : TRUE}]
      BY <1>6, <1>7 DEF Pick
    <2> QED
      BY <2>1, <2>2 DEF IsFold
  <1> QED
    BY <1>6, <1>7, <1>8

\* What one fold says of a subset.
LEMMA FoldUnfolds ==
  ASSUME NEW S, NEW f, NEW g, IsFold(f, S, g), NEW s \in SUBSET S
  PROVE  g[s] = IF s = {} THEN 0 ELSE f[Pick(s)] + g[s \ {Pick(s)}]
  <1>1. g[s] = [t \in SUBSET S |-> IF t = {} THEN 0 ELSE f[CHOOSE x \in t : TRUE] + g[t \ {CHOOSE x \in t : TRUE}]][s]
    BY DEF IsFold
  <1> QED
    BY <1>1 DEF Pick

\* A fold over a set agrees with the fold over each of its subsets.
LEMMA FoldUnique ==
  ASSUME NEW S, IsFiniteSet(S), NEW f, NEW g, IsFold(f, S, g), NEW T \in SUBSET S, NEW h, IsFold(f, T, h)
  PROVE  g[T] = h[T]
  <1> DEFINE P == {n \in Nat : \A s \in SUBSET T : Cardinality(s) = n => g[s] = h[s]}
  <1>1. \A s \in SUBSET T : /\ IsFiniteSet(s) /\ Cardinality(s) \in Nat
                            /\ Cardinality(s) = 0 <=> s = {}
    BY FS_Subset, FS_CardinalityType, FS_EmptySet
  <1>2. \A s \in SUBSET T : s # {} => /\ Pick(s) \in s
                                      /\ Cardinality(s \ {Pick(s)}) = Cardinality(s) - 1
    BY <1>1, FS_RemoveElement DEF Pick
  <1>3. 0 \in P
    <2> SUFFICES ASSUME NEW s \in SUBSET T, Cardinality(s) = 0
                 PROVE  g[s] = h[s]
      OBVIOUS
    <2>1. s = {} /\ s \in SUBSET S
      BY <1>1
    <2>2. g[s] = 0
      BY <2>1, FoldUnfolds
    <2>3. h[s] = 0
      BY <2>1, FoldUnfolds
    <2> QED
      BY <2>2, <2>3
  <1>4. ASSUME NEW n \in Nat, n \in P
        PROVE  n + 1 \in P
    <2>1. SUFFICES ASSUME NEW s \in SUBSET T, Cardinality(s) = n + 1
                   PROVE  g[s] = h[s]
      OBVIOUS
    <2>2. s # {} /\ s \in SUBSET S
      BY <1>1, <2>1
    <2>3. g[s \ {Pick(s)}] = h[s \ {Pick(s)}]
      BY <1>2, <1>4, <2>1, <2>2
    <2>4. g[s] = f[Pick(s)] + g[s \ {Pick(s)}]
      BY <2>2, FoldUnfolds
    <2>5. h[s] = f[Pick(s)] + h[s \ {Pick(s)}]
      <3>1. h[s] = IF s = {} THEN 0 ELSE f[Pick(s)] + h[s \ {Pick(s)}]
        <4> HIDE DEF P
        <4>1. IsFold(f, T, h)
          OBVIOUS
        <4>2. s \in SUBSET T
          OBVIOUS
        <4> QED
          BY ONLY <4>1, <4>2, FoldUnfolds
      <3> QED
        BY <2>2, <3>1
    <2> QED
      BY <2>3, <2>4, <2>5
  <1>5. \A n \in Nat : n \in P
    <2> HIDE DEF P
    <2> QED
      BY <1>3, <1>4, Induction
  <1> QED
    BY <1>1, <1>5

LEMMA SumIsFold ==
  ASSUME NEW S, IsFiniteSet(S), NEW f, \A x \in S : f[x] \in Int
  PROVE  IsFold(f, S, Fold(f, S)) /\ SumFunctionOnSet(f, S) = Fold(f, S)[S]
  <1>1. IsFold(f, S, Fold(f, S))
    BY FoldExists DEF Fold
  <1>2. SumFunctionOnSet(f, S) = Fold(f, S)[S]
    BY Zenon DEF SumFunctionOnSet, FoldFunctionOnSet, MapThenFoldSet, Fold, IsFold
  <1> QED
    BY <1>1, <1>2

\* What sums are, without the order in which they are made.
LEMMA SumType ==
  ASSUME NEW S, IsFiniteSet(S), NEW f, \A x \in S : f[x] \in Int
  PROVE  SumFunctionOnSet(f, S) \in Int
  <1>1. PICK g \in [SUBSET S -> Int] : IsFold(f, S, g)
    BY FoldExists
  <1>2. IsFold(f, S, Fold(f, S)) /\ SumFunctionOnSet(f, S) = Fold(f, S)[S]
    BY SumIsFold
  <1>3. Fold(f, S)[S] = g[S]
    BY <1>1, <1>2, FoldUnique
  <1> QED
    BY <1>1, <1>2, <1>3

LEMMA SumEmpty ==
  ASSUME NEW f
  PROVE  SumFunctionOnSet(f, {}) = 0
  <1>1. IsFold(f, {}, Fold(f, {})) /\ SumFunctionOnSet(f, {}) = Fold(f, {})[{}]
    BY SumIsFold, FS_EmptySet
  <1> QED
    BY <1>1, FoldUnfolds

LEMMA SumPick ==
  ASSUME NEW S, IsFiniteSet(S), S # {}, NEW f, \A x \in S : f[x] \in Int
  PROVE  SumFunctionOnSet(f, S) = f[Pick(S)] + SumFunctionOnSet(f, S \ {Pick(S)})
  <1> DEFINE T == S \ {Pick(S)}
  <1>1. IsFiniteSet(T)
    BY FS_RemoveElement
  <1>2. /\ IsFold(f, S, Fold(f, S)) /\ SumFunctionOnSet(f, S) = Fold(f, S)[S]
        /\ IsFold(f, T, Fold(f, T)) /\ SumFunctionOnSet(f, T) = Fold(f, T)[T]
    BY <1>1, SumIsFold
  <1>3. Fold(f, S)[S] = f[Pick(S)] + Fold(f, S)[T]
    BY <1>2, FoldUnfolds
  <1>4. Fold(f, S)[T] = Fold(f, T)[T]
    BY <1>2, FoldUnique
  <1> QED
    BY <1>2, <1>3, <1>4

\* The order does not matter: any element can be taken out of the sum.
LEMMA SumRemove ==
  ASSUME NEW S, IsFiniteSet(S), NEW f, \A x \in S : f[x] \in Int, NEW e \in S
  PROVE  SumFunctionOnSet(f, S) = f[e] + SumFunctionOnSet(f, S \ {e})
  <1> DEFINE P == {n \in Nat : \A T \in SUBSET S, x \in S :
                      Cardinality(T) = n /\ x \in T =>
                          SumFunctionOnSet(f, T) = f[x] + SumFunctionOnSet(f, T \ {x})}
  <1>1. \A T \in SUBSET S : IsFiniteSet(T) /\ Cardinality(T) \in Nat
    BY FS_Subset, FS_CardinalityType
  <1>2. 0 \in P
    BY <1>1, FS_EmptySet
  <1>3. ASSUME NEW n \in Nat, n \in P
        PROVE  n + 1 \in P
    <2>1. ASSUME NEW T \in SUBSET S, T # {}
          PROVE  SumFunctionOnSet(f, T) = f[Pick(T)] + SumFunctionOnSet(f, T \ {Pick(T)})
      BY <1>1, <2>1, SumPick
    <2>2. SUFFICES ASSUME NEW T \in SUBSET S, NEW x \in T, Cardinality(T) = n + 1, x # Pick(T)
                   PROVE  SumFunctionOnSet(f, T) = f[x] + SumFunctionOnSet(f, T \ {x})
      <3> SUFFICES ASSUME NEW T \in SUBSET S, NEW x \in T, Cardinality(T) = n + 1
                   PROVE  SumFunctionOnSet(f, T) = f[x] + SumFunctionOnSet(f, T \ {x})
        OBVIOUS
      <3> QED
        BY <2>1
    <2> DEFINE c == Pick(T)
    <2>3. c \in T
      BY DEF Pick
    <2> HIDE DEF c
    <2>4. SumFunctionOnSet(f, T) = f[c] + SumFunctionOnSet(f, T \ {c})
      BY <1>1, SumPick DEF c
    <2>5. Cardinality(T \ {c}) = n /\ Cardinality(T \ {x}) = n
      <3>1. Cardinality(T \ {c}) = Cardinality(T) - 1 /\ Cardinality(T \ {x}) = Cardinality(T) - 1
        BY <1>1, <2>3, FS_RemoveElement
      <3> QED
        BY <2>2, <3>1
    <2>6. x \in T \ {c} /\ c \in T \ {x}
      BY <2>2, <2>3 DEF c
    <2>7. SumFunctionOnSet(f, T \ {c}) = f[x] + SumFunctionOnSet(f, (T \ {c}) \ {x})
      <3>1. T \ {c} \in SUBSET S /\ x \in S
        OBVIOUS
      <3> QED
        BY <1>3, <2>5, <2>6, <3>1
    <2>8. SumFunctionOnSet(f, T \ {x}) = f[c] + SumFunctionOnSet(f, (T \ {x}) \ {c})
      <3>1. T \ {x} \in SUBSET S /\ c \in S
        BY <2>3
      <3> QED
        BY <1>3, <2>5, <2>6, <3>1
    <2>9. (T \ {c}) \ {x} = (T \ {x}) \ {c}
      OBVIOUS
    <2>10. SumFunctionOnSet(f, (T \ {x}) \ {c}) \in Int
      <3>1. (T \ {x}) \ {c} \in SUBSET S
        OBVIOUS
      <3>2. IsFiniteSet((T \ {x}) \ {c}) /\ \A z \in (T \ {x}) \ {c} : f[z] \in Int
        BY <1>1, <3>1
      <3> QED
        BY <3>2, SumType
    <2>11. f[c] \in Int /\ f[x] \in Int
      BY <2>3
    <2>12. SumFunctionOnSet(f, T \ {c}) = f[x] + SumFunctionOnSet(f, (T \ {x}) \ {c})
      BY <2>7, <2>9
    <2>13. \A a, b, z, r, t, u : b \in Int /\ z \in Int /\ t \in Int /\ a = b + r /\ r = z + t /\ u = b + t => a = z + u
      OBVIOUS
    <2> QED
      BY <2>4, <2>8, <2>10, <2>11, <2>12, <2>13
  <1>4. \A n \in Nat : n \in P
    <2> HIDE DEF P
    <2> QED
      BY <1>2, <1>3, Induction
  <1> QED
    BY <1>1, <1>4

\* A sum with one element more, over two sets, of two functions.
LEMMA SumAdd ==
  ASSUME NEW T, IsFiniteSet(T), NEW x, x \notin T, NEW f, \A y \in T \cup {x} : f[y] \in Int
  PROVE  SumFunctionOnSet(f, T \cup {x}) = f[x] + SumFunctionOnSet(f, T)
  <1> DEFINE S == T \cup {x}
  <1>1. IsFiniteSet(S) /\ S \ {x} = T /\ x \in S /\ \A y \in S : f[y] \in Int
    BY FS_AddElement
  <1> HIDE DEF S
  <1>2. SumFunctionOnSet(f, S) = f[x] + SumFunctionOnSet(f, S \ {x})
    BY <1>1, SumRemove
  <1> QED
    BY <1>1, <1>2 DEF S

LEMMA SumUnion ==
  ASSUME NEW A, IsFiniteSet(A), NEW B, IsFiniteSet(B), A \cap B = {},
         NEW f, \A x \in A \cup B : f[x] \in Int
  PROVE  SumFunctionOnSet(f, A \cup B) = SumFunctionOnSet(f, A) + SumFunctionOnSet(f, B)
  <1> DEFINE P == {T \in SUBSET B : SumFunctionOnSet(f, A \cup T) = SumFunctionOnSet(f, A) + SumFunctionOnSet(f, T)}
  <1>1. SumFunctionOnSet(f, A) \in Int
    BY SumType
  <1>2. {} \in P
    <2>1. A \cup {} = A
      OBVIOUS
    <2> QED
      BY <1>1, <2>1, SumEmpty
  <1>3. ASSUME NEW T \in SUBSET B, NEW x \in B, T \in P, x \notin T
        PROVE  T \cup {x} \in P
    <2>1. IsFiniteSet(T) /\ IsFiniteSet(A \cup T)
      BY FS_Subset, FS_Union
    <2>2. SumFunctionOnSet(f, T \cup {x}) = f[x] + SumFunctionOnSet(f, T)
      BY <1>3, <2>1, SumAdd
    <2>3. SumFunctionOnSet(f, (A \cup T) \cup {x}) = f[x] + SumFunctionOnSet(f, A \cup T)
      BY <1>3, <2>1, SumAdd
    <2>4. (A \cup T) \cup {x} = A \cup (T \cup {x})
      OBVIOUS
    <2>5. f[x] \in Int /\ SumFunctionOnSet(f, T) \in Int
      BY <2>1, SumType
    <2>6. SumFunctionOnSet(f, A \cup T) = SumFunctionOnSet(f, A) + SumFunctionOnSet(f, T)
      BY <1>3
    <2>7. SumFunctionOnSet(f, A \cup (T \cup {x})) = f[x] + SumFunctionOnSet(f, A \cup T)
      BY <2>3, <2>4
    <2>8. SumFunctionOnSet(f, A \cup (T \cup {x})) = SumFunctionOnSet(f, A) + SumFunctionOnSet(f, T \cup {x})
      BY ONLY <1>1, <2>2, <2>5, <2>6, <2>7
    <2> QED
      BY <2>8
  <1>4. B \in P
    <2> HIDE DEF P
    <2> QED
      BY <1>2, <1>3, SetInduction
  <1> QED
    BY <1>4

LEMMA SumSame ==
  ASSUME NEW S, IsFiniteSet(S), NEW f, NEW g, \A x \in S : f[x] \in Int /\ g[x] = f[x]
  PROVE  SumFunctionOnSet(g, S) = SumFunctionOnSet(f, S)
  <1> DEFINE P == {T \in SUBSET S : SumFunctionOnSet(g, T) = SumFunctionOnSet(f, T)}
  <1>1. {} \in P
    BY SumEmpty
  <1>2. ASSUME NEW T \in SUBSET S, NEW x \in S, T \in P, x \notin T
        PROVE  T \cup {x} \in P
    <2>1. IsFiniteSet(T)
      BY FS_Subset
    <2>2. SumFunctionOnSet(f, T \cup {x}) = f[x] + SumFunctionOnSet(f, T)
      BY <1>2, <2>1, SumAdd
    <2>3. SumFunctionOnSet(g, T \cup {x}) = g[x] + SumFunctionOnSet(g, T)
      BY <1>2, <2>1, SumAdd
    <2> QED
      BY <1>2, <2>2, <2>3
  <1>3. S \in P
    <2> HIDE DEF P
    <2> QED
      BY <1>1, <1>2, SetInduction
  <1> QED
    BY <1>3

LEMMA SumMonotone ==
  ASSUME NEW S, IsFiniteSet(S), NEW f, NEW g, \A x \in S : f[x] \in Int /\ g[x] \in Int /\ f[x] <= g[x]
  PROVE  SumFunctionOnSet(f, S) <= SumFunctionOnSet(g, S)
  <1> DEFINE P == {T \in SUBSET S : SumFunctionOnSet(f, T) <= SumFunctionOnSet(g, T)}
  <1>1. {} \in P
    BY SumEmpty
  <1>2. ASSUME NEW T \in SUBSET S, NEW x \in S, T \in P, x \notin T
        PROVE  T \cup {x} \in P
    <2>1. IsFiniteSet(T)
      BY FS_Subset
    <2>2. SumFunctionOnSet(f, T \cup {x}) = f[x] + SumFunctionOnSet(f, T)
      BY <1>2, <2>1, SumAdd
    <2>3. SumFunctionOnSet(g, T \cup {x}) = g[x] + SumFunctionOnSet(g, T)
      BY <1>2, <2>1, SumAdd
    <2>4. /\ f[x] \in Int /\ g[x] \in Int /\ f[x] <= g[x]
          /\ SumFunctionOnSet(f, T) \in Int /\ SumFunctionOnSet(g, T) \in Int
      BY <2>1, SumType
    <2>5. SumFunctionOnSet(f, T) <= SumFunctionOnSet(g, T)
      BY <1>2
    <2>6. SumFunctionOnSet(f, T \cup {x}) <= SumFunctionOnSet(g, T \cup {x})
      BY <2>2, <2>3, <2>4, <2>5
    <2> QED
      BY <2>6
  <1>3. S \in P
    <2> HIDE DEF P
    <2> QED
      BY <1>1, <1>2, SetInduction
  <1> QED
    BY <1>3

\* The sum of the groups' sums is the sum over all of them.
LEMMA SumByGroups ==
  ASSUME NEW K, IsFiniteSet(K), NEW S, IsFiniteSet(S), NEW G \in [K -> SUBSET S],
         \A j, k \in K : j # k => G[j] \cap G[k] = {},
         NEW f, \A x \in S : f[x] \in Int,
         NEW t, \A k \in K : t[k] = SumFunctionOnSet(f, G[k])
  PROVE  SumFunctionOnSet(t, K) = SumFunctionOnSet(f, UNION {G[k] : k \in K})
  <1> DEFINE All(Q) == UNION {G[k] : k \in Q}
             P == {Q \in SUBSET K : SumFunctionOnSet(t, Q) = SumFunctionOnSet(f, All(Q))}
  <1>1. \A k \in K : t[k] \in Int
    <2> TAKE k \in K
    <2>1. IsFiniteSet(G[k]) /\ \A x \in G[k] : f[x] \in Int
      BY FS_Subset
    <2> QED
      BY <2>1, SumType
  <1>2. {} \in P
    <2>1. All({}) = {}
      OBVIOUS
    <2> QED
      BY <2>1, SumEmpty
  <1>3. ASSUME NEW Q \in SUBSET K, NEW k \in K, Q \in P, k \notin Q
        PROVE  Q \cup {k} \in P
    <2>1. IsFiniteSet(Q) /\ IsFiniteSet(All(Q)) /\ IsFiniteSet(G[k])
      <3>1. All(Q) \in SUBSET S /\ G[k] \in SUBSET S
        OBVIOUS
      <3> HIDE DEF All
      <3> QED
        BY <3>1, FS_Subset
    <2>2. SumFunctionOnSet(t, Q \cup {k}) = t[k] + SumFunctionOnSet(t, Q)
      BY <1>1, <1>3, <2>1, SumAdd
    <2>3. All(Q) \cap G[k] = {} /\ All(Q) \cup G[k] = All(Q \cup {k})
      BY <1>3
    <2>4. \A x \in All(Q) \cup G[k] : f[x] \in Int
      OBVIOUS
    <2>5. SumFunctionOnSet(t, Q) = SumFunctionOnSet(f, All(Q))
      BY <1>3
    <2> HIDE DEF All
    <2>6. SumFunctionOnSet(f, All(Q) \cup G[k]) = SumFunctionOnSet(f, All(Q)) + SumFunctionOnSet(f, G[k])
      BY <2>1, <2>3, <2>4, SumUnion
    <2>7. SumFunctionOnSet(f, All(Q)) \in Int /\ SumFunctionOnSet(f, G[k]) \in Int
      BY <2>1, <2>4, SumType
    <2>8. t[k] = SumFunctionOnSet(f, G[k])
      OBVIOUS
    <2>9. SumFunctionOnSet(f, All(Q \cup {k})) = SumFunctionOnSet(f, All(Q)) + SumFunctionOnSet(f, G[k])
      BY <2>3, <2>6
    <2>10. SumFunctionOnSet(t, Q \cup {k}) = SumFunctionOnSet(f, All(Q \cup {k}))
      BY ONLY <2>2, <2>5, <2>7, <2>8, <2>9
    <2> QED
      BY <2>10
  <1>4. K \in P
    <2> HIDE DEF P
    <2> QED
      BY <1>2, <1>3, SetInduction
  <1> QED
    BY <1>4

LEMMA SumZero ==
  ASSUME NEW S, IsFiniteSet(S), NEW f, \A x \in S : f[x] = 0
  PROVE  SumFunctionOnSet(f, S) = 0
  <1> DEFINE P == {T \in SUBSET S : SumFunctionOnSet(f, T) = 0}
  <1>1. {} \in P
    BY SumEmpty
  <1>2. ASSUME NEW T \in SUBSET S, NEW x \in S, T \in P, x \notin T
        PROVE  T \cup {x} \in P
    <2>1. IsFiniteSet(T)
      BY FS_Subset
    <2>2. \A y \in T \cup {x} : f[y] \in Int
      OBVIOUS
    <2>3. SumFunctionOnSet(f, T \cup {x}) = f[x] + SumFunctionOnSet(f, T)
      BY <1>2, <2>1, <2>2, SumAdd
    <2> QED
      BY <1>2, <2>3
  <1>3. S \in P
    <2> HIDE DEF P
    <2> QED
      BY <1>1, <1>2, SetInduction
  <1> QED
    BY <1>3

LEMMA SumOfNaturals ==
  ASSUME NEW S, IsFiniteSet(S), NEW f, \A x \in S : f[x] \in Nat
  PROVE  SumFunctionOnSet(f, S) \in Nat
  <1> DEFINE zero == [x \in S |-> 0]
  <1>1. SumFunctionOnSet(zero, S) = 0
    BY SumZero
  <1>2. \A x \in S : zero[x] \in Int /\ f[x] \in Int /\ zero[x] <= f[x]
    OBVIOUS
  <1> HIDE DEF zero
  <1>3. SumFunctionOnSet(zero, S) <= SumFunctionOnSet(f, S)
    BY <1>2, SumMonotone
  <1>4. SumFunctionOnSet(f, S) \in Int
    BY SumType
  <1> QED
    BY <1>1, <1>3, <1>4

-----------------------------------------------------------------------------
(***************************************************************************)
(* The sales page and its splits.                                          *)
(***************************************************************************)

LEMMA DivisionBounds ==
  ASSUME NEW x \in Nat, NEW y \in Nat, x <= y * 100
  PROVE  x \div 100 \in 0..y
  OBVIOUS

\* The photographer gets a part of what the buyer paid, never more, the platform
\* the rest, and no öre is lost or made, whatever the price and the commission
\* (split_amount).
THEOREM SplitIsExact ==
  ASSUME NEW amount \in Nat, NEW percent \in 0..100
  PROVE  LET split == SplitAmount(amount, percent) IN
         /\ split.share \in 0..amount
         /\ split.fee \in 0..amount
         /\ split.share + split.fee = amount
  <1> DEFINE product == amount * (100 - percent)
  <1>1. 100 - percent \in 0..100
    OBVIOUS
  <1>2. product \in Nat /\ product <= amount * 100
    <2>1. PICK q \in 0..100 : q = 100 - percent
      BY <1>1
    <2>2. amount * q \in Nat /\ amount * q <= amount * 100
      OBVIOUS
    <2> QED
      BY <2>1, <2>2
  <1> HIDE DEF product
  <1>3. product \div 100 \in 0..amount
    BY <1>2, DivisionBounds
  <1>4. SplitAmount(amount, percent) = [share |-> product \div 100, fee |-> amount - product \div 100]
    BY DEF SplitAmount, product
  <1> QED
    BY <1>3, <1>4

\* A larger sale never earns the photographer less.
THEOREM SplitIsMonotone ==
  ASSUME NEW amount \in Nat, NEW more \in Nat, NEW percent \in 0..100, amount <= more
  PROVE  SplitAmount(amount, percent).share <= SplitAmount(more, percent).share
  <1>1. PICK q \in 0..100 : q = 100 - percent
    OBVIOUS
  <1>2. PICK a \in Nat, b \in Nat : a = amount * q /\ b = more * q /\ a <= b
    <2>1. amount * q \in Nat /\ more * q \in Nat
      OBVIOUS
    <2>2. more * q = amount * q + (more - amount) * q /\ (more - amount) * q >= 0
      OBVIOUS
    <2> QED
      BY <2>1, <2>2
  <1>3. a \div 100 <= b \div 100
    BY <1>2
  <1> QED
    BY <1>1, <1>2, <1>3 DEF SplitAmount

\* The share on the page is part of the amount; a sale with a payout has its own share.
LEMMA ShownShareBounds ==
  ASSUME NEW sale, IsSale(sale)
  PROVE  /\ sale.amount \in Nat /\ ShownShare(sale) \in 0..sale.amount
         /\ sale.payout # Unset => sale.share # Unset /\ ShownShare(sale) = sale.share
  <1>1. CASE sale.payout = Unset
    <2>1. ShownShare(sale) = SplitAmount(sale.amount, CommissionPercent).share
      BY <1>1 DEF IsSale, ShownShare
    <2>2. SplitAmount(sale.amount, CommissionPercent).share \in 0..sale.amount
      BY SplitIsExact, SalesAssumption DEF IsSale
    <2> QED
      BY <1>1, <2>1, <2>2 DEF IsSale
  <1>2. CASE sale.payout # Unset
    <2>1. sale.amount \in Nat /\ sale.share \in 0..sale.amount
      BY <1>2 DEF IsSale
    <2>2. sale.share \in Int
      BY <2>1
    <2>3. sale.share # Unset
      BY <2>2, SalesAssumption
    <2> QED
      BY <2>1, <2>3 DEF ShownShare
  <1> QED
    BY <1>1, <1>2

\* What a settlement sends is the sum of the shares that the page calls owed.
LEMMA SettlementIsOwed ==
  ASSUME NEW sales, IsSaleSet(sales)
  PROVE  Settlement(sales)
           = SumFunctionOnSet([s \in sales |-> ShownShare(s)],
                              {s \in sales : s.order.status = "captured" /\ IsOwed(s.payout)})
  <1> DEFINE shown == [s \in sales |-> ShownShare(s)]
             recorded == [s \in sales |-> IF s.share = Unset THEN 0 ELSE s.share]
             orders == {s.order : s \in sales}
             transfers == [o \in orders |-> TransferAmount(o, sales)]
             captured == {o \in orders : o.status = "captured"}
             paid == {o \in orders : o.status = "captured" /\ transfers[o] > 0}
             group == [o \in captured |-> {s \in sales : s.order = o /\ s.payout \in {"owed", "failed"}}]
             owed == {s \in sales : s.order.status = "captured" /\ IsOwed(s.payout)}
  <1>1. IsFiniteSet(sales) /\ \A s \in sales : IsSale(s)
    BY DEF IsSaleSet
  <1>2. \A s \in sales : shown[s] \in Nat
    BY <1>1, ShownShareBounds
  <1>3. IsFiniteSet(captured)
    <2> DEFINE orderOf == [s \in sales |-> s.order]
    <2>1. orderOf \in Surjection(sales, orders)
      BY DEF Surjection
    <2>2. IsFiniteSet(orders)
      BY <1>1, <2>1, FS_Surjection
    <2> QED
      BY <2>2, FS_Subset
  <1>4. ASSUME NEW o \in captured
        PROVE  transfers[o] = SumFunctionOnSet(shown, group[o]) /\ transfers[o] \in Nat
    <2>1. group[o] \in SUBSET sales /\ IsFiniteSet(group[o])
      <3>1. group[o] \in SUBSET sales
        OBVIOUS
      <3> QED
        BY <1>1, <3>1, FS_Subset
    <2>2. transfers[o] = SumFunctionOnSet(recorded, group[o])
      BY DEF TransferAmount
    <2>3. ASSUME NEW s \in group[o]
          PROVE  shown[s] \in Int /\ recorded[s] = shown[s]
      <3>1. s \in sales /\ s.payout \in {"owed", "failed"}
        OBVIOUS
      <3>2. s.payout # Unset
        BY <3>1, SalesAssumption
      <3>3. s.share # Unset /\ ShownShare(s) = s.share
        BY <1>1, <3>1, <3>2, ShownShareBounds
      <3> QED
        BY <1>2, <3>1, <3>3
    <2>4. \A s \in group[o] : shown[s] \in Nat
      BY <1>2, <2>1
    <2> HIDE DEF transfers, shown, recorded, group
    <2>5. SumFunctionOnSet(recorded, group[o]) = SumFunctionOnSet(shown, group[o])
      BY <2>1, <2>3, SumSame
    <2>6. SumFunctionOnSet(shown, group[o]) \in Nat
      BY <2>1, <2>4, SumOfNaturals
    <2> QED
      BY <2>2, <2>5, <2>6
  <1>5. SumFunctionOnSet(transfers, captured) = SumFunctionOnSet(transfers, paid)
    <2>1. paid \in SUBSET captured /\ IsFiniteSet(paid) /\ IsFiniteSet(captured \ paid)
      <3>1. paid \in SUBSET captured /\ captured \ paid \in SUBSET captured
        OBVIOUS
      <3> QED
        BY <1>3, <3>1, FS_Subset
    <2>2. \A o \in captured \ paid : transfers[o] = 0
      <3>1. ASSUME NEW o \in captured \ paid
            PROVE  transfers[o] = 0
        <4>1. transfers[o] \in Nat
          BY <1>4
        <4>2. ~(transfers[o] > 0)
          OBVIOUS
        <4> HIDE DEF transfers
        <4> QED
          BY <4>1, <4>2
      <3> QED
        BY <3>1
    <2>3. captured = paid \cup (captured \ paid) /\ paid \cap (captured \ paid) = {}
      OBVIOUS
    <2>4. \A o \in captured : transfers[o] \in Int
      <3>1. ASSUME NEW o \in captured
            PROVE  transfers[o] \in Int
        <4>1. transfers[o] \in Nat
          BY <1>4
        <4> HIDE DEF transfers
        <4> QED
          BY <4>1
      <3> QED
        BY <3>1
    <2> HIDE DEF paid, captured, transfers
    <2>5. SumFunctionOnSet(transfers, captured \ paid) = 0
      BY <2>1, <2>2, SumZero
    <2>6. SumFunctionOnSet(transfers, paid) \in Int
      BY <2>1, <2>4, SumType
    <2>7. SumFunctionOnSet(transfers, paid \cup (captured \ paid))
            = SumFunctionOnSet(transfers, paid) + SumFunctionOnSet(transfers, captured \ paid)
      BY <2>1, <2>3, <2>4, SumUnion
    <2>8. SumFunctionOnSet(transfers, paid \cup (captured \ paid)) = SumFunctionOnSet(transfers, captured)
      BY <2>3
    <2> QED
      BY ONLY <2>5, <2>6, <2>7, <2>8
  <1>6. SumFunctionOnSet(transfers, captured) = SumFunctionOnSet(shown, UNION {group[o] : o \in captured})
    <2>1. group \in [captured -> SUBSET sales]
      OBVIOUS
    <2>2. \A j, k \in captured : j # k => group[j] \cap group[k] = {}
      OBVIOUS
    <2>3. \A s \in sales : shown[s] \in Int
      BY <1>2
    <2>4. \A o \in captured : transfers[o] = SumFunctionOnSet(shown, group[o])
      BY <1>4
    <2> HIDE DEF group, captured, transfers, shown
    <2> QED
      BY <1>1, <1>3, <2>1, <2>2, <2>3, <2>4, SumByGroups
  <1>7. UNION {group[o] : o \in captured} = owed
    <2>1. ASSUME NEW o \in captured, NEW s \in group[o]
          PROVE  s \in owed
      BY DEF IsOwed
    <2>2. ASSUME NEW s \in owed
          PROVE  s.order \in captured /\ s \in group[s.order]
      BY DEF IsOwed
    <2> HIDE DEF captured, group, owed
    <2> QED
      BY <2>1, <2>2
  <1>8. Settlement(sales) = SumFunctionOnSet(transfers, paid)
    BY DEF Settlement
  <1> HIDE DEF transfers, paid, shown, captured, group, owed
  <1>9. Settlement(sales) = SumFunctionOnSet(shown, owed)
    BY <1>5, <1>6, <1>7, <1>8
  <1> QED
    BY <1>9 DEF shown, owed

\* The totals of the page, over any finite set of sales.
LEMMA TotalsAddUp ==
  ASSUME NEW sales, IsSaleSet(sales)
  PROVE  LET totals == SalesTotals(sales)
             earlier == {s \in sales : s.order.status = "captured" /\ s.payout = Unset}
         IN  /\ totals.owed = Settlement(sales)
             /\ totals.photographer_amount
                   = totals.transferred + totals.owed
                     + SumFunctionOnSet([s \in sales |-> ShownShare(s)], earlier)
             /\ totals.photographer_amount <= totals.amount
  <1> DEFINE shown == [s \in sales |-> ShownShare(s)]
             amounts == [s \in sales |-> s.amount]
             active == {s \in sales : s.order.status = "captured"}
             sent == {s \in active : s.payout = "transferred"}
             owed == {s \in active : IsOwed(s.payout)}
             earlier == {s \in sales : s.order.status = "captured" /\ s.payout = Unset}
             totals == SalesTotals(sales)
  <1>1. IsFiniteSet(sales) /\ \A s \in sales : IsSale(s)
    BY DEF IsSaleSet
  <1>2. \A s \in sales : shown[s] \in Nat /\ amounts[s] \in Nat /\ shown[s] <= amounts[s]
    BY <1>1, ShownShareBounds
  <1>3. /\ totals.amount = SumFunctionOnSet(amounts, active)
        /\ totals.photographer_amount = SumFunctionOnSet(shown, active)
        /\ totals.transferred = SumFunctionOnSet(shown, sent)
        /\ totals.owed = SumFunctionOnSet(shown, owed)
    BY DEF SalesTotals
  <1>4. totals.owed = Settlement(sales)
    <2>1. owed = {s \in sales : s.order.status = "captured" /\ IsOwed(s.payout)}
      OBVIOUS
    <2> QED
      BY <1>3, <2>1, SettlementIsOwed
  <1>5. /\ active = sent \cup (owed \cup earlier)
        /\ owed \cap earlier = {}
        /\ sent \cap (owed \cup earlier) = {}
    <2>1. ASSUME NEW s \in active
          PROVE  s.payout \in {"owed", "failed", "transferred", Unset}
      BY <1>1 DEF IsSale
    <2>2. ASSUME NEW s \in active, s.payout = Unset
          PROVE  s.payout \notin {"owed", "failed", "transferred"}
      BY <2>2, SalesAssumption
    <2> QED
      BY <2>1, <2>2 DEF IsOwed
  <1>6. /\ IsFiniteSet(active) /\ IsFiniteSet(sent) /\ IsFiniteSet(owed) /\ IsFiniteSet(earlier)
        /\ IsFiniteSet(owed \cup earlier)
    <2>1. active \in SUBSET sales /\ sent \in SUBSET sales /\ owed \in SUBSET sales /\ earlier \in SUBSET sales
          /\ owed \cup earlier \in SUBSET sales
      OBVIOUS
    <2> QED
      BY <1>1, <2>1, FS_Subset
  <1>7. \A s \in active : shown[s] \in Int /\ amounts[s] \in Int /\ shown[s] <= amounts[s]
    BY <1>2
  <1>8. \A s \in sent \cup (owed \cup earlier) : shown[s] \in Int
    BY <1>2
  <1> HIDE DEF shown, amounts, active, sent, owed, earlier, totals
  <1>9. SumFunctionOnSet(shown, active) <= SumFunctionOnSet(amounts, active)
    BY <1>6, <1>7, SumMonotone
  <1>10. SumFunctionOnSet(shown, owed \cup earlier) = SumFunctionOnSet(shown, owed) + SumFunctionOnSet(shown, earlier)
    BY <1>5, <1>6, <1>8, SumUnion
  <1>11. SumFunctionOnSet(shown, sent \cup (owed \cup earlier))
           = SumFunctionOnSet(shown, sent) + SumFunctionOnSet(shown, owed \cup earlier)
    BY <1>5, <1>6, <1>8, SumUnion
  <1>12. /\ SumFunctionOnSet(shown, sent) \in Int /\ SumFunctionOnSet(shown, owed) \in Int
         /\ SumFunctionOnSet(shown, earlier) \in Int
    BY <1>6, <1>8, SumType
  <1>13. SumFunctionOnSet(shown, active) = SumFunctionOnSet(shown, sent \cup (owed \cup earlier))
    BY <1>5
  <1>14. SumFunctionOnSet(shown, active)
           = SumFunctionOnSet(shown, sent) + SumFunctionOnSet(shown, owed) + SumFunctionOnSet(shown, earlier)
    BY ONLY <1>10, <1>11, <1>12, <1>13
  <1>15. /\ totals.owed = Settlement(sales)
         /\ totals.photographer_amount = totals.transferred + totals.owed + SumFunctionOnSet(shown, earlier)
         /\ totals.photographer_amount <= totals.amount
    BY ONLY <1>3, <1>4, <1>9, <1>14
  <1> QED
    BY <1>15 DEF shown, earlier, totals

-----------------------------------------------------------------------------
(***************************************************************************)
(* Start times.                                                            *)
(***************************************************************************)

\* Precedes orders the starts of a section strictly and totally, so each has a place
\* of its own.
LEMMA StartKey ==
  ASSUME NEW s \in Start
  PROVE  /\ StartOrder(s) = <<StartOrder(s)[1], StartOrder(s)[2]>>
         /\ StartOrder(s)[1] \in Int /\ StartOrder(s)[2] \in Int
  BY DEF StartOrder, Start, Optional

LEMMA PrecedesIsOrder ==
  ASSUME NEW starts \in Seq(Start)
  PROVE  /\ \A i \in DOMAIN starts : ~Precedes(starts, i, i)
         /\ \A i, j \in DOMAIN starts : i # j => Precedes(starts, i, j) \/ Precedes(starts, j, i)
         /\ \A i, j, k \in DOMAIN starts :
               Precedes(starts, i, j) /\ Precedes(starts, j, k) => Precedes(starts, i, k)
  <1>1. \A i \in DOMAIN starts : i \in Int /\ starts[i] \in Start
    OBVIOUS
  <1> DEFINE a == [i \in DOMAIN starts |-> StartOrder(starts[i])[1]]
             b == [i \in DOMAIN starts |-> StartOrder(starts[i])[2]]
  <1>2. \A i \in DOMAIN starts : a[i] \in Int /\ b[i] \in Int
    BY <1>1, StartKey
  <1>3. ASSUME NEW i \in DOMAIN starts, NEW j \in DOMAIN starts
        PROVE  Precedes(starts, i, j) <=> \/ a[i] < a[j]
                                          \/ a[i] = a[j] /\ b[i] < b[j]
                                          \/ a[i] = a[j] /\ b[i] = b[j] /\ i < j
    <2>1. StartOrder(starts[i]) = StartOrder(starts[j]) <=> a[i] = a[j] /\ b[i] = b[j]
      <3>1. StartOrder(starts[i]) = <<a[i], b[i]>> /\ StartOrder(starts[j]) = <<a[j], b[j]>>
        BY <1>1, StartKey
      <3> HIDE DEF a, b
      <3> QED
        BY <3>1
    <2> QED
      BY <2>1 DEF Precedes
  <1> HIDE DEF a, b
  <1>4. \A i \in DOMAIN starts : ~Precedes(starts, i, i)
    BY <1>1, <1>2, <1>3
  <1>5. \A i, j \in DOMAIN starts : i # j => Precedes(starts, i, j) \/ Precedes(starts, j, i)
    BY <1>1, <1>2, <1>3
  <1>6. \A i, j, k \in DOMAIN starts :
               Precedes(starts, i, j) /\ Precedes(starts, j, k) => Precedes(starts, i, k)
    BY <1>1, <1>2, <1>3
  <1> QED
    BY <1>4, <1>5, <1>6

LEMMA Places ==
  ASSUME NEW starts \in Seq(Start)
  PROVE  /\ \A i \in DOMAIN starts : Place(starts, i) \in Nat
         /\ \A i, j \in DOMAIN starts : Place(starts, i) = Place(starts, j) => i = j
  <1> DEFINE before(i) == {j \in DOMAIN starts : Precedes(starts, j, i)}
  <1>1. \A i \in DOMAIN starts : IsFiniteSet(before(i)) /\ Cardinality(before(i)) \in Nat
    <2>1. IsFiniteSet(DOMAIN starts)
      BY FS_Interval
    <2> QED
      BY <2>1, FS_Subset, FS_CardinalityType
  <1>2. ASSUME NEW i \in DOMAIN starts, NEW j \in DOMAIN starts, Precedes(starts, i, j)
        PROVE  Cardinality(before(i)) < Cardinality(before(j))
    <2>1. before(i) \in SUBSET before(j) /\ i \in before(j) /\ i \notin before(i)
      BY <1>2, PrecedesIsOrder
    <2> HIDE DEF before
    <2>2. Cardinality(before(i)) <= Cardinality(before(j)) /\ Cardinality(before(j)) # Cardinality(before(i))
      BY <1>1, <2>1, FS_Subset
    <2> QED
      BY <1>1, <2>2
  <1>3. \A i \in DOMAIN starts : Place(starts, i) = Cardinality(before(i))
    BY DEF Place
  <1> HIDE DEF before
  <1>4. ASSUME NEW i \in DOMAIN starts, NEW j \in DOMAIN starts, Place(starts, i) = Place(starts, j), i # j
        PROVE  FALSE
    <2>1. CASE Precedes(starts, i, j)
      BY <1>1, <1>2, <1>3, <1>4, <2>1
    <2>2. CASE Precedes(starts, j, i)
      BY <1>1, <1>2, <1>3, <1>4, <2>2
    <2> QED
      BY <1>4, <2>1, <2>2, PrecedesIsOrder
  <1> QED
    BY <1>1, <1>3, <1>4

\* min() by distance, then own times before estimates, then the feed's order.
LEMMA NearestExists ==
  ASSUME NEW starts \in Seq(Start), NEW own, NEW timed \in SUBSET DOMAIN starts, timed # {},
         NEW i \in DOMAIN starts
  PROVE  LET n == NearestInOrder(starts, own, timed, i) IN
         /\ n \in timed
         /\ \A m \in timed : Gap(Place(starts, n), Place(starts, i)) <= Gap(Place(starts, m), Place(starts, i))
  <1> DEFINE away == [m \in timed |-> Gap(Place(starts, m), Place(starts, i))]
             First(n) == \A m \in timed \ {n} : away[n] < away[m] \/ (away[n] = away[m] /\ EarlierKey(own, n, m))
  <1>1. \A m \in timed : away[m] \in Nat /\ m \in Nat
    BY Places DEF Gap
  <1>2. NearestInOrder(starts, own, timed, i) = CHOOSE n \in timed : First(n)
    BY DEF NearestInOrder
  <1>3. \E n \in timed : First(n)
    <2>1. PICK d \in {away[m] : m \in timed} : \A e \in {away[m] : m \in timed} : d <= e
      <3>1. {away[m] : m \in timed} \in SUBSET Nat /\ {away[m] : m \in timed} # {}
        BY <1>1
      <3> HIDE DEF away
      <3> QED
        BY <3>1, LeastNatural
    <2> DEFINE M == {m \in timed : away[m] = d}
    <2>2. M \in SUBSET Nat /\ M # {}
      BY <1>1
    <2>3. \A m \in timed : d <= away[m] /\ d \in Nat
      <3> HIDE DEF away
      <3> QED
        BY <1>1, <2>1
    <2> HIDE DEF away
    <2>4. CASE M \cap own # {}
      <3>1. PICK n \in M \cap own : \A m \in M \cap own : n <= m
        BY <2>2, <2>4, LeastNatural
      <3>2. First(n)
        <4>1. SUFFICES ASSUME NEW m \in timed \ {n}
                       PROVE  away[n] < away[m] \/ (away[n] = away[m] /\ EarlierKey(own, n, m))
          OBVIOUS
        <4>2. CASE m \in M
          <5>1. m \in own => n <= m /\ m # n
            BY <3>1, <4>2
          <5>2. m \in Nat /\ n \in Nat /\ n \in own
            BY <1>1
          <5>3. EarlierKey(own, n, m)
            BY <5>1, <5>2 DEF EarlierKey
          <5> QED
            BY <4>2, <5>3
        <4>3. CASE m \notin M
          <5>1. away[n] = d /\ d <= away[m] /\ d # away[m] /\ away[m] \in Nat /\ d \in Nat
            BY <1>1, <2>3, <4>3
          <5> QED
            BY <5>1
        <4> QED
          BY <4>2, <4>3
      <3> QED
        BY <3>2
    <2>5. CASE M \cap own = {}
      <3>1. PICK n \in M : \A m \in M : n <= m
        BY <2>2, LeastNatural
      <3>2. First(n)
        <4>1. SUFFICES ASSUME NEW m \in timed \ {n}
                       PROVE  away[n] < away[m] \/ (away[n] = away[m] /\ EarlierKey(own, n, m))
          OBVIOUS
        <4>2. CASE m \in M
          <5>1. n <= m /\ m # n /\ m \notin own /\ n \notin own
            BY <2>5, <3>1, <4>2
          <5>2. m \in Nat /\ n \in Nat
            BY <1>1
          <5>3. EarlierKey(own, n, m)
            BY <5>1, <5>2 DEF EarlierKey
          <5> QED
            BY <4>2, <5>3
        <4>3. CASE m \notin M
          <5>1. away[n] = d /\ d <= away[m] /\ d # away[m] /\ away[m] \in Nat /\ d \in Nat
            BY <1>1, <2>3, <4>3
          <5> QED
            BY <5>1
        <4> QED
          BY <4>2, <4>3
      <3> QED
        BY <3>2
    <2> QED
      BY <2>4, <2>5
  <1>4. PICK n : n = NearestInOrder(starts, own, timed, i)
    OBVIOUS
  <1>5. n \in timed /\ First(n)
    <2> HIDE DEF First
    <2> QED
      BY <1>2, <1>3, <1>4, Zenon
  <1>6. \A m \in timed : away[n] <= away[m]
    <2>1. ASSUME NEW m \in timed
          PROVE  away[n] <= away[m]
      <3>1. away[n] \in Nat /\ away[m] \in Nat
        BY <1>1, <1>5
      <3> HIDE DEF away
      <3> QED
        BY <1>5, <3>1
    <2> QED
      BY <2>1
  <1> QED
    BY <1>4, <1>5, <1>6

\* The arithmetic of one estimate: a start at place pk gets its time from the start at
\* pn, the nearest; a third one at pj keeps its distance to both.
LEMMA Spacing ==
  ASSUME NEW I \in Nat, NEW pn \in Int, NEW pk \in Int, NEW pj \in Int, NEW tn \in Int, NEW tj \in Int,
         pn # pk, Gap(pn, pk) <= Gap(pj, pk),
         pj > pn => tj - tn >= (pj - pn) * I,
         pn > pj => tn - tj >= (pn - pj) * I,
         pj = pn => tj = tn
  PROVE  /\ pj - pk > 0 => tj - (tn + (pk - pn) * I) >= (pj - pk) * I
         /\ pk - pj > 0 => (tn + (pk - pn) * I) - tj >= (pk - pj) * I
  <1>1. PICK u \in Int, v \in Int, w \in Int : u = pj - pn /\ v = pn - pk /\ w = pj - pk
    OBVIOUS
  <1>2. /\ u * I \in Int /\ v * I \in Int /\ w * I \in Int
        /\ w * I = u * I + v * I
        /\ (pk - pn) * I = -(v * I)
        /\ (pn - pj) * I = -(u * I)
        /\ (pk - pj) * I = -(w * I)
    <2>1. \A x, y, z \in Int : (x + y) * z = x * z + y * z /\ (-x) * z = -(x * z)
      OBVIOUS
    <2>2. w = u + v /\ pk - pn = -v /\ pn - pj = -u /\ pk - pj = -w
      BY <1>1
    <2>3. u * I \in Int /\ v * I \in Int /\ w * I \in Int
      OBVIOUS
    <2> QED
      BY <2>1, <2>2, <2>3
  <1>3. PICK ui \in Int, vi \in Int, wi \in Int : ui = u * I /\ vi = v * I /\ wi = w * I
    BY <1>2
  <1>4. wi = ui + vi /\ (pk - pn) * I = -vi /\ (pn - pj) * I = -ui /\ (pk - pj) * I = -wi
        /\ (pj - pn) * I = ui /\ (pj - pk) * I = wi
    BY <1>1, <1>2, <1>3
  <1>5. /\ pj > pn => tj - tn >= ui
        /\ pn > pj => tn - tj >= -ui
    BY <1>4
  <1>6. pj = pn => ui = 0 /\ tj = tn
    BY <1>1, <1>3
  <1>7. CASE pj > pn
    <2>1. tj - tn >= ui
      BY <1>5, <1>7
    <2>2. pj - pk > 0 => tj - (tn + (-vi)) >= wi
      BY <1>4, <2>1
    <2>3. ~(pk - pj > 0)
      BY <1>7 DEF Gap
    <2> QED
      BY <1>4, <2>2, <2>3
  <1>8. CASE pj < pn
    <2>1. tn - tj >= -ui
      BY <1>5, <1>8
    <2>2. pk - pj > 0 => (tn + (-vi)) - tj >= -wi
      BY <1>4, <2>1
    <2>3. ~(pj - pk > 0)
      BY <1>8 DEF Gap
    <2> QED
      BY <1>4, <2>2, <2>3
  <1>9. CASE pj = pn
    BY <1>4, <1>6, <1>9
  <1> QED
    BY <1>7, <1>8, <1>9

\* One estimate is a time.
LEMMA EstimateTyped ==
  ASSUME NEW section \in Section, NEW own, NEW D \in SUBSET DOMAIN section.starts, D # {},
         NEW known \in [D -> Int], NEW k \in DOMAIN section.starts \ D
  PROVE  LET n == NearestInOrder(section.starts, own, D, k) IN
         [i \in D \cup {k} |-> IF i # k THEN known[i]
                               ELSE Estimated(section.starts, known, n, k, section.interval)]
            \in [D \cup {k} -> Int]
  <1> DEFINE n == NearestInOrder(section.starts, own, D, k)
             new == Estimated(section.starts, known, n, k, section.interval)
  <1>1. section.starts \in Seq(Start) /\ section.interval \in Nat
    BY DEF Section
  <1>2. n \in D
    BY <1>1, NearestExists
  <1>3. new \in Int
    <2>1. Place(section.starts, k) \in Nat /\ Place(section.starts, n) \in Nat
      BY <1>1, <1>2, Places
    <2>2. (Place(section.starts, k) - Place(section.starts, n)) * section.interval \in Int
      BY <1>1, <2>1
    <2> HIDE DEF n
    <2>3. known[n] \in Int
      BY <1>2
    <2> QED
      BY <2>2, <2>3 DEF Estimated
  <1> HIDE DEF n, new
  <1>4. [i \in D \cup {k} |-> IF i # k THEN known[i] ELSE new] \in [D \cup {k} -> Int]
    BY <1>3
  <1> QED
    BY <1>4 DEF n, new

\* later is known with an estimate for start k.
EstimatesFrom(section, own, D, known, k, later) ==
  /\ D \in SUBSET DOMAIN section.starts /\ D # {} /\ k \in DOMAIN section.starts \ D
  /\ known \in [D -> Int] /\ DOMAIN later = D \cup {k}
  /\ \A i \in D : later[i] = known[i]
  /\ later[k] = Estimated(section.starts, known, NearestInOrder(section.starts, own, D, k), k, section.interval)

\* One estimate keeps the running order.
LEMMA EstimateStep ==
  ASSUME NEW section \in Section, NEW own, NEW D, NEW known, NEW k, NEW later,
         EstimatesFrom(section, own, D, known, k, later), Spaced(known, section)
  PROVE  Spaced(later, section)
  <1> DEFINE starts == section.starts
             I == section.interval
             p == [i \in DOMAIN starts |-> Place(starts, i)]
             n == NearestInOrder(starts, own, D, k)
             new == Estimated(starts, known, n, k, I)
  <1>1. /\ D \in SUBSET DOMAIN starts /\ D # {} /\ k \in DOMAIN starts \ D
         /\ known \in [D -> Int] /\ DOMAIN later = D \cup {k} /\ later[k] = new
         /\ \A i \in D : later[i] = known[i]
    BY DEF EstimatesFrom
  <1>2. starts \in Seq(Start) /\ I \in Nat
    BY DEF Section
  <1>3. /\ \A i \in DOMAIN starts : p[i] \in Nat
        /\ \A i, j \in DOMAIN starts : p[i] = p[j] => i = j
    BY <1>2, Places
  <1>4. n \in D /\ \A m \in D : Gap(p[n], p[k]) <= Gap(p[m], p[k])
    BY <1>2, <1>1, NearestExists
  <1>5. new = known[n] + (p[k] - p[n]) * I
    BY <1>4, <1>1 DEF Estimated
  <1>6. \A i, j \in D : p[j] - p[i] > 0 => known[j] - known[i] >= (p[j] - p[i]) * I
    BY <1>1 DEF Spaced
  <1> HIDE DEF starts, I, p, n, new
  <1>7. known[n] \in Int /\ p[n] \in Int /\ p[k] \in Int /\ p[n] # p[k] /\ k \notin D /\ k \in DOMAIN starts
    BY <1>3, <1>4, <1>1 DEF starts
  <1>8. new \in Int
    <2>1. (p[k] - p[n]) * I \in Int
      BY <1>2, <1>7
    <2> QED
      BY <1>5, <1>7, <2>1
  <1>9. DOMAIN later = D \cup {k} /\ later[k] = new /\ \A i \in D : later[i] = known[i]
    BY <1>1
  <1>10. ASSUME NEW j \in D
        PROVE  /\ p[j] - p[k] > 0 => known[j] - new >= (p[j] - p[k]) * I
               /\ p[k] - p[j] > 0 => new - known[j] >= (p[k] - p[j]) * I
    <2>1. known[j] \in Int /\ p[j] \in Int /\ j \in DOMAIN starts /\ n \in DOMAIN starts
      BY <1>3, <1>4, <1>1 DEF starts
    <2>2. /\ p[j] > p[n] => known[j] - known[n] >= (p[j] - p[n]) * I
          /\ p[n] > p[j] => known[n] - known[j] >= (p[n] - p[j]) * I
      BY <1>4, <1>6, <1>7, <2>1
    <2>3. p[j] = p[n] => known[j] = known[n]
      BY <1>3, <2>1
    <2>4. Gap(p[n], p[k]) <= Gap(p[j], p[k])
      BY <1>4
    <2> QED
      BY <1>2, <1>5, <1>7, <2>1, <2>2, <2>3, <2>4, Spacing
  <1>11. ASSUME NEW i \in D \cup {k}, NEW j \in D \cup {k}, p[j] - p[i] > 0
         PROVE  later[j] - later[i] >= (p[j] - p[i]) * I
    <2>1. CASE i \in D /\ j \in D
      <3>1. later[i] = known[i] /\ later[j] = known[j]
        BY <1>9, <2>1
      <3> QED
        BY <1>6, <1>11, <2>1, <3>1
    <2>2. CASE i = k /\ j \in D
      <3>1. later[i] = new /\ later[j] = known[j]
        BY <1>9, <2>2
      <3> QED
        BY <1>10, <1>11, <2>2, <3>1
    <2>3. CASE i \in D /\ j = k
      <3>1. later[i] = known[i] /\ later[j] = new
        BY <1>9, <2>3
      <3> QED
        BY <1>10, <1>11, <2>3, <3>1
    <2>4. CASE i = k /\ j = k
      BY <1>7, <1>11, <2>4
    <2> QED
      BY <2>1, <2>2, <2>3, <2>4
  <1>12. Spaced(later, section)
    <2>1. \A i \in D \cup {k} : p[i] = Place(section.starts, i)
      BY <1>1 DEF p, starts
    <2>2. \A i, j \in D \cup {k} : p[j] - p[i] > 0 => later[j] - later[i] >= (p[j] - p[i]) * I
      BY <1>11
    <2> QED
      BY <1>9, <2>1, <2>2 DEF Spaced, I
  <1> QED
    BY <1>12

\* StartTimes as its recursive function, whose steps are TimesAfter.
Own(starts) == {i \in DOMAIN starts : OwnTime(starts[i]) # None}
TimesAfter(section, k, known) ==
  IF k \in Own(section.starts) THEN known
  ELSE [i \in DOMAIN known \cup {k} |->
          IF i # k THEN known[i]
          ELSE Estimated(section.starts, known,
                         NearestInOrder(section.starts, Own(section.starts), DOMAIN known, k), k, section.interval)]
IsTimes(section, t) ==
  t = [k \in 0..Len(section.starts) |->
         IF k = 0 THEN [i \in Own(section.starts) |-> OwnTime(section.starts[i])]
         ELSE TimesAfter(section, k, t[k - 1])]
AllTimes(section) == CHOOSE t : IsTimes(section, t)

LEMMA StartTimesUnfold ==
  ASSUME NEW section
  PROVE  StartTimes(section) =
           IF section.interval = 0 \/ Own(section.starts) = {} THEN AllTimes(section)[0]
           ELSE AllTimes(section)[Len(section.starts)]
  BY Zenon DEF StartTimes, AllTimes, IsTimes, TimesAfter, Own

LEMMA TimesExist ==
  ASSUME NEW section \in Section
  PROVE  LET t == AllTimes(section) IN
         /\ t[0] = KnownTimes(section.starts)
         /\ \A k \in 1..Len(section.starts) : t[k] = TimesAfter(section, k, t[k - 1])
  <1> DEFINE known == [i \in Own(section.starts) |-> OwnTime(section.starts[i])]
             Is(m, t) == t = [k \in 0..m |-> IF k = 0 THEN known ELSE TimesAfter(section, k, t[k - 1])]
             P == {m \in Nat : \E t : Is(m, t)}
  <1>1. 0 \in P
    <2>1. Is(0, [k \in 0..0 |-> known])
      OBVIOUS
    <2> QED
      BY <2>1
  <1>2. ASSUME NEW m \in Nat, m \in P
        PROVE  m + 1 \in P
    <2>1. PICK t : Is(m, t)
      BY <1>2
    <2> DEFINE u == [k \in 0..(m + 1) |-> IF k <= m THEN t[k] ELSE TimesAfter(section, m + 1, t[m])]
    <2> HIDE DEF known
    <2>2. ASSUME NEW k \in 0..(m + 1)
          PROVE  u[k] = IF k = 0 THEN known ELSE TimesAfter(section, k, u[k - 1])
      <3>1. CASE k = 0
        <4>1. t[0] = known
          BY <2>1
        <4> QED
          BY <3>1, <4>1
      <3>2. CASE k \in 1..m
        <4>1. t[k] = TimesAfter(section, k, t[k - 1])
          BY <2>1, <3>2
        <4>2. u[k] = t[k] /\ u[k - 1] = t[k - 1]
          BY <3>2
        <4> QED
          BY <3>2, <4>1, <4>2
      <3>3. CASE k = m + 1
        <4>1. u[k - 1] = t[m]
          BY <3>3
        <4> QED
          BY <3>3, <4>1
      <3> QED
        BY <3>1, <3>2, <3>3
    <2>3. u = [k \in 0..(m + 1) |-> IF k = 0 THEN known ELSE TimesAfter(section, k, u[k - 1])]
      <3>1. u = [k \in 0..(m + 1) |-> u[k]]
        OBVIOUS
      <3> HIDE DEF u
      <3> QED
        BY <2>2, <3>1
    <2>4. \E v : Is(m + 1, v)
      <3> HIDE DEF u
      <3> QED
        BY <2>3
    <2> QED
      BY <2>4
  <1>3. Len(section.starts) \in P
    <2>1. \A m \in Nat : m \in P
      <3> HIDE DEF P
      <3> QED
        BY <1>1, <1>2, Induction
    <2>2. Len(section.starts) \in Nat
      BY DEF Section
    <2> QED
      BY <2>1, <2>2
  <1>4. PICK t : t = AllTimes(section)
    OBVIOUS
  <1>5. IsTimes(section, t)
    <2>1. \E v : IsTimes(section, v)
      BY <1>3, Zenon DEF IsTimes
    <2> QED
      BY <1>4, <2>1, Zenon DEF AllTimes
  <1>6. known = KnownTimes(section.starts)
    BY DEF KnownTimes, Own
  <1> HIDE DEF known
  <1>7. ASSUME NEW k \in 0..Len(section.starts)
        PROVE  t[k] = IF k = 0 THEN known ELSE TimesAfter(section, k, t[k - 1])
    BY <1>5 DEF IsTimes, known
  <1>8. Len(section.starts) \in Nat
    BY DEF Section
  <1>9. t[0] = known /\ \A k \in 1..Len(section.starts) : t[k] = TimesAfter(section, k, t[k - 1])
    BY <1>7, <1>8
  <1> QED
    BY <1>4, <1>6, <1>9

LEMMA OwnTimeTyped ==
  ASSUME NEW s \in Start, OwnTime(s) # None
  PROVE  OwnTime(s) \in Int
  <1>1. /\ s.start_at # None => s.start_at \in Int
        /\ s.result_at # None /\ s.ride # None => s.result_at - s.ride \in Int
    BY DEF Start, Optional
  <1> QED
    BY <1>1 DEF OwnTime

\* What holds of the times after each start.
LEMMA TimesInvariant ==
  ASSUME NEW section \in Section, Own(section.starts) # {}
  PROVE  \A k \in 0..Len(section.starts) :
           LET D == Own(section.starts) \cup (1..k)
               known == KnownTimes(section.starts)
               times == AllTimes(section)[k]
           IN  /\ times \in [D -> Int]
               /\ \A i \in DOMAIN known : times[i] = known[i]
               /\ Spaced(known, section) => Spaced(times, section)
  <1> DEFINE n == Len(section.starts)
             own == Own(section.starts)
             known == KnownTimes(section.starts)
             t == AllTimes(section)
             Holds(k) == /\ t[k] \in [own \cup (1..k) -> Int]
                         /\ \A i \in own : t[k][i] = known[i]
                         /\ Spaced(known, section) => Spaced(t[k], section)
             P == {k \in Nat : k <= n => Holds(k)}
  <1>1. n \in Nat /\ DOMAIN section.starts = 1..n /\ own \subseteq 1..n
    BY DEF Section, Own
  <1>2. known \in [own -> Int]
    <2>1. \A i \in own : OwnTime(section.starts[i]) \in Int
      <3>1. \A i \in DOMAIN section.starts : section.starts[i] \in Start
        BY DEF Section
      <3> QED
        BY <3>1, OwnTimeTyped DEF Own
    <2> QED
      BY <2>1 DEF KnownTimes, Own
  <1>3. t[0] = known /\ \A k \in 1..n : t[k] = TimesAfter(section, k, t[k - 1])
    BY TimesExist
  <1> HIDE DEF t, known
  <1>4. 0 \in P
    <2>1. own \cup (1..0) = own
      OBVIOUS
    <2> QED
      BY <1>2, <1>3, <2>1
  <1>5. ASSUME NEW k \in Nat, k \in P
        PROVE  k + 1 \in P
    <2>1. SUFFICES ASSUME k + 1 <= n
                   PROVE  Holds(k + 1)
      OBVIOUS
    <2> DEFINE D == own \cup (1..k)
               E == own \cup (1..(k + 1))
    <2>2. Holds(k)
      BY <1>1, <1>5, <2>1
    <2>3. t[k + 1] = TimesAfter(section, k + 1, t[k])
      <3>1. k + 1 \in 1..n /\ (k + 1) - 1 = k
        BY <1>1, <2>1
      <3> QED
        BY <1>3, <3>1
    <2>4. CASE k + 1 \in own
      <3>1. E = D
        BY <2>4
      <3>2. t[k + 1] = t[k]
        BY <2>3, <2>4 DEF TimesAfter
      <3> QED
        BY <2>2, <3>1, <3>2
    <2>5. CASE k + 1 \notin own
      <3>1. E = D \cup {k + 1} /\ k + 1 \notin D /\ D # {} /\ D \in SUBSET DOMAIN section.starts
            /\ k + 1 \in DOMAIN section.starts \ D
        BY <1>1, <2>1, <2>5
      <3>2. t[k] \in [D -> Int] /\ DOMAIN t[k] = D
        BY <2>2
      <3> DEFINE near == NearestInOrder(section.starts, own, D, k + 1)
                 later == [i \in D \cup {k + 1} |->
                             IF i # k + 1 THEN t[k][i]
                             ELSE Estimated(section.starts, t[k], near, k + 1, section.interval)]
      <3>3. t[k + 1] = later
        BY <2>3, <2>5, <3>2 DEF TimesAfter
      <3>4. later \in [D \cup {k + 1} -> Int]
        <4> HIDE DEF D, E, own
        <4> QED
          BY <3>1, <3>2, EstimateTyped
      <3>5. Spaced(t[k], section) => Spaced(later, section)
        <4>1. SUFFICES ASSUME Spaced(t[k], section)
                       PROVE  Spaced(later, section)
          OBVIOUS
        <4>2. /\ DOMAIN later = D \cup {k + 1}
              /\ \A i \in D : later[i] = t[k][i]
              /\ later[k + 1] = Estimated(section.starts, t[k], near, k + 1, section.interval)
          BY <3>1
        <4>3. section \in Section /\ D \in SUBSET DOMAIN section.starts /\ D # {}
              /\ k + 1 \in DOMAIN section.starts \ D /\ t[k] \in [D -> Int]
          BY <3>1, <3>2
        <4> HIDE DEF D, E, own, later
        <4>4. PICK e : e = k + 1
          OBVIOUS
        <4>5. PICK f : f = t[k]
          OBVIOUS
        <4>6. EstimatesFrom(section, own, D, f, e, later) /\ Spaced(f, section)
          BY <4>1, <4>2, <4>3, <4>4, <4>5, Zenon DEF EstimatesFrom, near
        <4> QED
          BY <4>6, EstimateStep
      <3>6. \A i \in own : later[i] = known[i]
        BY <2>2, <2>5
      <3> HIDE DEF later, D, E, near
      <3> QED
        BY <2>2, <3>1, <3>3, <3>4, <3>5, <3>6 DEF E, D
    <2> QED
      BY <2>4, <2>5
  <1>6. \A k \in Nat : k \in P
    <2> HIDE DEF P
    <2> QED
      BY <1>4, <1>5, Induction
  <1>7. DOMAIN known = own
    BY <1>2
  <1>8. ASSUME NEW k \in 0..n
        PROVE  Holds(k)
    <2>1. k \in Nat /\ k <= n
      BY <1>1
    <2>2. k \in P
      BY <1>6, <2>1
    <2> HIDE DEF Holds
    <2> QED
      BY <2>1, <2>2
  <1>9. ASSUME NEW k \in 0..n
        PROVE  /\ t[k] \in [own \cup (1..k) -> Int]
               /\ \A i \in DOMAIN known : t[k][i] = known[i]
               /\ Spaced(known, section) => Spaced(t[k], section)
    BY <1>7, <1>8
  <1> QED
    BY <1>9 DEF t, known

\* What the proof of EstimatesKeepOrder needs, and that estimated times are numbers.
LEMMA TimesInOrder ==
  ASSUME NEW section \in Section
  PROVE  LET known == KnownTimes(section.starts)
             times == StartTimes(section)
         IN  /\ \A i \in DOMAIN known : i \in DOMAIN times /\ times[i] = known[i]
             /\ section.interval # 0 /\ DOMAIN known # {} => DOMAIN times = DOMAIN section.starts
             /\ Spaced(known, section) => Spaced(times, section)
             /\ \A i \in DOMAIN times : i \in DOMAIN section.starts /\ times[i] \in Int
  <1> DEFINE n == Len(section.starts)
             known == KnownTimes(section.starts)
             times == StartTimes(section)
  <1>1. n \in Nat /\ DOMAIN section.starts = 1..n
    BY DEF Section
  <1>2. DOMAIN known = Own(section.starts) /\ Own(section.starts) \subseteq 1..n
        /\ \A i \in DOMAIN known : known[i] \in Int
    <2>1. \A i \in Own(section.starts) : OwnTime(section.starts[i]) \in Int
      <3>1. \A i \in DOMAIN section.starts : section.starts[i] \in Start
        BY DEF Section
      <3> QED
        BY <3>1, OwnTimeTyped DEF Own
    <2> QED
      BY <1>1, <2>1 DEF KnownTimes, Own
  <1>3. CASE section.interval = 0 \/ Own(section.starts) = {}
    <2>1. times = known
      BY <1>3, StartTimesUnfold, TimesExist
    <2> HIDE DEF times, known
    <2>2. section.interval # 0 /\ DOMAIN known # {} => DOMAIN times = DOMAIN section.starts
      BY <1>2, <1>3
    <2> QED
      BY <1>1, <1>2, <2>1, <2>2 DEF times, known
  <1>4. CASE ~(section.interval = 0 \/ Own(section.starts) = {})
    <2>1. times = AllTimes(section)[n]
      BY <1>4, StartTimesUnfold
    <2>2. Own(section.starts) \cup (1..n) = 1..n
      BY <1>2
    <2>3. /\ times \in [1..n -> Int]
          /\ \A i \in DOMAIN known : times[i] = known[i]
          /\ Spaced(known, section) => Spaced(times, section)
      <3>1. n \in 0..n
        BY <1>1
      <3> HIDE DEF times, known
      <3> QED
        BY <1>4, <2>1, <2>2, <3>1, TimesInvariant DEF known
    <2> HIDE DEF times, known
    <2> QED
      BY <1>1, <1>2, <2>3 DEF times, known
  <1> QED
    BY <1>3, <1>4

-----------------------------------------------------------------------------
(***************************************************************************)
(* The nearest start.                                                      *)
(***************************************************************************)

\* The scan that NearestOf, FindBestSection and FindMatch make: b[k] is the first of
\* the nearest candidates among the first k, 0 when there is none.
IsScan(n, C, d, b) ==
  /\ b \in [0..n -> 0..n]
  /\ b[0] = 0
  /\ \A k \in 1..n : b[k] = IF k \in C /\ (b[k - 1] = 0 \/ d[k] < d[b[k - 1]]) THEN k ELSE b[k - 1]

IsFirst(n, C, d, b) ==
  IF b = 0 THEN C = {}
  ELSE b \in C /\ \A j \in C : d[b] < d[j] \/ (d[b] = d[j] /\ b <= j)

LEMMA FirstBest ==
  ASSUME NEW n \in Nat, NEW C \in SUBSET (1..n), NEW d \in [1..n -> Int]
  PROVE  \E b : IsScan(n, C, d, b) /\ IsFirst(n, C, d, b[n]) /\ \A k \in 0..n : b[k] = 0 \/ b[k] \in C
  <1> DEFINE F == [k \in 1..n |-> [v \in 0..n |-> IF k \in C /\ (v = 0 \/ d[k] < d[v]) THEN k ELSE v]]
  <1> DEFINE V == 0..n
  <1>1. PICK b : IsRecursive(n, V, 0, F, b)
    <2>1. \A k \in 1..n, v \in V : F[k][v] \in V
      OBVIOUS
    <2>2. 0 \in V
      OBVIOUS
    <2> HIDE DEF F, V
    <2> QED
      BY <2>1, <2>2, Recursion
  <1>2. \A k \in 1..n : b[k] = IF k \in C /\ (b[k - 1] = 0 \/ d[k] < d[b[k - 1]]) THEN k ELSE b[k - 1]
    <2> TAKE k \in 1..n
    <2>1. b[k - 1] \in 0..n
      BY <1>1 DEF IsRecursive
    <2> QED
      BY <1>1, <2>1 DEF IsRecursive
  <1> HIDE DEF F, V
  <1> DEFINE Best(k) == /\ b[k] \in 0..k
                        /\ IF b[k] = 0 THEN \A j \in 1..k : j \notin C
                           ELSE /\ b[k] \in C
                                /\ \A j \in 1..k : j \in C => d[b[k]] < d[j] \/ (d[b[k]] = d[j] /\ b[k] <= j)
             P == {k \in Nat : k <= n => Best(k)}
  <1>3. 0 \in P
    BY <1>1 DEF IsRecursive
  <1>4. ASSUME NEW k \in Nat, k \in P
        PROVE  k + 1 \in P
    <2>1. SUFFICES ASSUME k + 1 <= n
                   PROVE  Best(k + 1)
      <3> HIDE DEF Best
      <3> QED
        OBVIOUS
    <2>2. Best(k) /\ k + 1 \in 1..n
      <3> HIDE DEF Best
      <3> QED
        BY <1>4, <2>1
    <2> DEFINE v == b[k]
               w == b[k + 1]
               e == k + 1
    <2> SUFFICES /\ w \in 0..e
                 /\ IF w = 0 THEN \A j \in 1..e : j \notin C
                    ELSE w \in C /\ \A j \in 1..e : j \in C => d[w] < d[j] \/ (d[w] = d[j] /\ w <= j)
      OBVIOUS
    <2>3. w = IF e \in C /\ (v = 0 \/ d[e] < d[v]) THEN e ELSE v
      <3>1. (k + 1) - 1 = k
        OBVIOUS
      <3> QED
        BY <1>2, <2>2, <3>1
    <2>4. v \in 0..k /\ e \in 1..n /\ d[e] \in Int /\ (v # 0 => d[v] \in Int)
      <3>1. v \in 0..k
        BY <2>2
      <3>2. v # 0 => v \in 1..n
        BY <2>1, <3>1
      <3> HIDE DEF v
      <3> QED
        BY <2>2, <3>1, <3>2
    <2>5. \A j \in 1..e : j \in 1..k \/ j = e
      OBVIOUS
    <2>6. \A j \in 1..k : j \in 1..n /\ d[j] \in Int /\ j < e
      BY <2>1
    <2>7. IF v = 0 THEN \A j \in 1..k : j \notin C
          ELSE /\ v \in C
               /\ \A j \in 1..k : j \in C => d[v] < d[j] \/ (d[v] = d[j] /\ v <= j)
      BY <2>2
    <2> HIDE DEF v, w, e
    <2>8. CASE e \notin C
      <3>1. w = v /\ v \in 0..e
        BY <2>3, <2>4, <2>8 DEF e
      <3> QED
        BY <2>5, <2>7, <2>8, <3>1
    <2>9. CASE e \in C /\ v = 0
      <3>1. w = e
        BY <2>3, <2>9
      <3>2. e # 0 /\ e \in 0..e
        BY DEF e
      <3>3. \A j \in 1..e : j \in C => j = e
        BY <2>5, <2>7, <2>9
      <3> QED
        BY <2>4, <2>9, <3>1, <3>2, <3>3
    <2>10. CASE e \in C /\ v # 0 /\ d[e] < d[v]
      <3>1. w = e
        BY <2>3, <2>10
      <3>2. e # 0 /\ e \in 0..e
        BY DEF e
      <3>3. ASSUME NEW j \in 1..k, j \in C
            PROVE  d[e] < d[j]
        <4>1. d[v] < d[j] \/ d[v] = d[j]
          BY <2>7, <2>10, <3>3
        <4>2. d[v] \in Int /\ d[e] \in Int /\ d[j] \in Int /\ d[e] < d[v]
          BY <2>4, <2>6, <2>10
        <4> QED
          BY ONLY <4>1, <4>2
      <3>4. \A j \in 1..k : j \in C => d[e] < d[j]
        BY <3>3
      <3> QED
        BY <2>4, <2>5, <2>10, <3>1, <3>2, <3>4
    <2>11. CASE e \in C /\ v # 0 /\ ~(d[e] < d[v])
      <3>1. w = v
        BY <2>3, <2>11
      <3>2. d[v] < d[e] \/ (d[v] = d[e] /\ v <= e)
        BY <2>4, <2>11 DEF e
      <3>3. v \in 0..e
        BY <2>4 DEF e
      <3> QED
        BY <2>5, <2>7, <2>11, <3>1, <3>2, <3>3
    <2> QED
      BY <2>4, <2>8, <2>9, <2>10, <2>11
  <1>5. \A k \in Nat : k \in P
    <2> HIDE DEF P
    <2> QED
      BY <1>3, <1>4, Induction
  <1>6. ASSUME NEW k \in 0..n
        PROVE  Best(k)
    <2>1. k \in Nat /\ k \in P /\ k <= n
      BY <1>5
    <2> HIDE DEF Best
    <2> QED
      BY <2>1
  <1>7. Best(n)
    <2>1. n \in 0..n
      OBVIOUS
    <2> HIDE DEF Best
    <2> QED
      BY <1>6, <2>1
  <1>8. IsScan(n, C, d, b)
    BY <1>1, <1>2 DEF IsScan, IsRecursive, V
  <1>9. IsFirst(n, C, d, b[n])
    BY <1>7 DEF IsFirst
  <1>10. \A k \in 0..n : b[k] = 0 \/ b[k] \in C
    <2> TAKE k \in 0..n
    <2>1. Best(k)
      BY <1>6
    <2> QED
      BY <2>1
  <1> QED
    BY <1>8, <1>9, <1>10

LEMMA TimesOfTyped ==
  ASSUME NEW section \in Section
  PROVE  TimesOf(section) \in Seq(Optional) /\ Len(TimesOf(section)) = Len(section.starts)
  <1> DEFINE times == StartTimes(section)
  <1>1. ASSUME NEW i \in DOMAIN section.starts
        PROVE  TimeOf(section.starts[i], times, i) \in Optional
    <2>1. section.starts[i].result_at \in Optional
      <3>1. section.starts[i] \in Start
        BY DEF Section
      <3> QED
        BY <3>1 DEF Start
    <2>2. i \in DOMAIN times => times[i] \in Int
      BY TimesInOrder
    <2> QED
      BY <2>1, <2>2 DEF TimeOf, Optional
  <1>2. Len(section.starts) \in Nat /\ DOMAIN section.starts = 1..Len(section.starts)
    BY DEF Section
  <1> HIDE DEF times
  <1>3. [i \in DOMAIN section.starts |-> TimeOf(section.starts[i], times, i)] \in [1..Len(section.starts) -> Optional]
    BY <1>1, <1>2
  <1>4. TimesOf(section) \in [1..Len(section.starts) -> Optional]
    BY <1>3 DEF TimesOf, times
  <1> QED
    BY <1>2, <1>4

\* NearestOf as a scan over the times of one section.
NearestStep(times, taken, k, best) ==
  IF times[k] # None /\ Nearer(best.delta, Gap(taken, times[k]))
  THEN [best EXCEPT !.start = k, !.delta = Gap(taken, times[k])]
  ELSE best
IsNearest(times, taken, x) ==
  x = [k \in 0..Len(times) |-> IF k = 0 THEN NoMatch ELSE NearestStep(times, taken, k, x[k - 1])]
NearestScan(times, taken) == CHOOSE x : IsNearest(times, taken, x)

LEMMA NearestOfUnfold ==
  ASSUME NEW times, NEW taken
  PROVE  NearestOf(times, taken) = NearestScan(times, taken)[Len(times)]
  BY Zenon DEF NearestOf, NearestScan, IsNearest, NearestStep

At(times, taken, j) == IF j = 0 THEN NoMatch ELSE [NoMatch EXCEPT !.start = j, !.delta = Gap(taken, times[j])]

LEMMA NearestOfFirst ==
  ASSUME NEW times \in Seq(Optional), NEW taken \in Int
  PROVE  \E j \in 0..Len(times) :
           /\ NearestOf(times, taken) = At(times, taken, j)
           /\ IF j = 0 THEN \A m \in DOMAIN times : times[m] = None
              ELSE /\ times[j] # None
                   /\ \A m \in DOMAIN times : times[m] # None =>
                        \/ Gap(taken, times[j]) < Gap(taken, times[m])
                        \/ Gap(taken, times[j]) = Gap(taken, times[m]) /\ j <= m
  <1> DEFINE n == Len(times)
             C == {j \in 1..n : times[j] # None}
             d == [j \in 1..n |-> IF times[j] = None THEN 0 ELSE Gap(taken, times[j])]
  <1>1. n \in Nat /\ DOMAIN times = 1..n
    OBVIOUS
  <1>2. C \in SUBSET (1..n) /\ d \in [1..n -> Int]
    <2>1. \A j \in 1..n : times[j] # None => Gap(taken, times[j]) \in Int
      BY DEF Optional, Gap
    <2> QED
      BY <2>1
  <1>3. PICK b : IsScan(n, C, d, b) /\ IsFirst(n, C, d, b[n]) /\ \A k \in 0..n : b[k] = 0 \/ b[k] \in C
    <2> HIDE DEF C, d, n
    <2> QED
      BY <1>1, <1>2, FirstBest
  <1>4. /\ b \in [0..n -> 0..n] /\ b[0] = 0
        /\ \A k \in 1..n : b[k] = IF k \in C /\ (b[k - 1] = 0 \/ d[k] < d[b[k - 1]]) THEN k ELSE b[k - 1]
    <2> HIDE DEF C, d, n
    <2> QED
      BY <1>3 DEF IsScan
  <1> DEFINE g == [k \in 0..n |-> At(times, taken, b[k])]
  <1>5. ASSUME NEW k \in 1..n
        PROVE  g[k] = NearestStep(times, taken, k, g[k - 1])
    <2> DEFINE v == b[k - 1]
    <2>1. v \in 0..n /\ k - 1 \in 0..n /\ k \in 0..n /\ k # 0
      <3>1. k - 1 \in 0..n /\ k \in 0..n /\ k # 0
        BY <1>1
      <3> QED
        BY <1>4, <3>1
    <2>2. v = 0 \/ times[v] # None
      BY <1>3, <2>1
    <2>3. b[k] = IF k \in C /\ (v = 0 \/ d[k] < d[v]) THEN k ELSE v
      <3> HIDE DEF C, d
      <3> QED
        BY <1>4
    <2>4. g[k - 1] = At(times, taken, v) /\ g[k] = At(times, taken, b[k])
      BY <2>1
    <2>5. At(times, taken, v).delta = IF v = 0 THEN None ELSE d[v]
      BY <2>1, <2>2 DEF At, NoMatch
    <2>6. v # 0 => d[v] # None
      BY <1>2, <2>1, ReadsAssumption
    <2>7. k \in C => d[k] = Gap(taken, times[k])
      OBVIOUS
    <2>8. k \in C <=> times[k] # None
      OBVIOUS
    <2> HIDE DEF C, d, v, g, n
    <2>9. k \in C => (Nearer(At(times, taken, v).delta, Gap(taken, times[k])) <=> (v = 0 \/ d[k] < d[v]))
      BY <2>5, <2>6, <2>7 DEF Nearer
    <2>10. CASE k \in C /\ (v = 0 \/ d[k] < d[v])
      <3>1. b[k] = k
        BY <2>3, <2>10
      <3>2. g[k] = [NoMatch EXCEPT !.start = k, !.delta = Gap(taken, times[k])]
        BY <2>1, <2>4, <3>1 DEF At
      <3>3. [At(times, taken, v) EXCEPT !.start = k, !.delta = Gap(taken, times[k])]
              = [NoMatch EXCEPT !.start = k, !.delta = Gap(taken, times[k])]
        BY DEF At, NoMatch
      <3>4. NearestStep(times, taken, k, g[k - 1]) = [At(times, taken, v) EXCEPT !.start = k, !.delta = Gap(taken, times[k])]
        BY <2>4, <2>8, <2>9, <2>10 DEF NearestStep
      <3> QED
        BY <3>2, <3>3, <3>4
    <2>11. CASE ~(k \in C /\ (v = 0 \/ d[k] < d[v]))
      <3>1. b[k] = v
        BY <2>3, <2>11
      <3>2. NearestStep(times, taken, k, g[k - 1]) = g[k - 1]
        BY <2>4, <2>8, <2>9, <2>11 DEF NearestStep
      <3> QED
        BY <2>4, <3>1, <3>2
    <2> QED
      BY <2>10, <2>11
  <1>6. IsNearest(times, taken, g)
    <2>1. g[0] = NoMatch
      BY <1>1, <1>4 DEF At
    <2>2. g = [k \in 0..n |-> g[k]]
      OBVIOUS
    <2> HIDE DEF g
    <2>3. \A k \in 0..n : g[k] = IF k = 0 THEN NoMatch ELSE NearestStep(times, taken, k, g[k - 1])
      <3>1. \A k \in 0..n : k = 0 \/ k \in 1..n
        BY <1>1
      <3> QED
        BY <1>5, <2>1, <3>1
    <2> QED
      BY <2>2, <2>3 DEF IsNearest
  <1> HIDE DEF g
  <1>7. PICK x : x = NearestScan(times, taken)
    OBVIOUS
  <1>8. IsNearest(times, taken, x)
    BY <1>6, <1>7 DEF NearestScan
  <1>9. \A k \in 0..n : x[k] = g[k]
    <2> DEFINE P == {k \in Nat : k <= n => x[k] = g[k]}
    <2>1. \A k \in 0..n : x[k] = IF k = 0 THEN NoMatch ELSE NearestStep(times, taken, k, x[k - 1])
      BY <1>8 DEF IsNearest
    <2>2. \A k \in 0..n : g[k] = IF k = 0 THEN NoMatch ELSE NearestStep(times, taken, k, g[k - 1])
      BY <1>6 DEF IsNearest
    <2> HIDE DEF n
    <2>3. 0 \in P
      BY <1>1, <2>1, <2>2
    <2>4. ASSUME NEW k \in Nat, k \in P
          PROVE  k + 1 \in P
      <3>1. SUFFICES ASSUME k + 1 <= n
                     PROVE  x[k + 1] = g[k + 1]
        OBVIOUS
      <3>2. x[k] = g[k] /\ k + 1 \in 0..n /\ (k + 1) - 1 = k /\ k + 1 # 0
        BY <1>1, <2>4, <3>1
      <3> QED
        BY <2>1, <2>2, <3>2
    <2>5. \A k \in Nat : k \in P
      <3> HIDE DEF P
      <3> QED
        BY <2>3, <2>4, Induction
    <2> QED
      BY <1>1, <2>5
  <1>10. NearestOf(times, taken) = At(times, taken, b[n])
    <2>1. n \in 0..n
      BY <1>1
    <2> QED
      BY <1>7, <1>9, <2>1, NearestOfUnfold DEF g
  <1>11. IF b[n] = 0 THEN \A m \in DOMAIN times : times[m] = None
         ELSE /\ times[b[n]] # None
              /\ \A m \in DOMAIN times : times[m] # None =>
                   \/ Gap(taken, times[b[n]]) < Gap(taken, times[m])
                   \/ Gap(taken, times[b[n]]) = Gap(taken, times[m]) /\ b[n] <= m
    <2>1. b[n] \in 0..n
      BY <1>1, <1>4
    <2>2. b[n] = 0 => \A m \in DOMAIN times : times[m] = None
      <3>1. b[n] = 0 => C = {}
        BY <1>3 DEF IsFirst
      <3> QED
        BY <1>1, <3>1
    <2>3. ASSUME b[n] # 0
          PROVE  /\ times[b[n]] # None
                 /\ \A m \in DOMAIN times : times[m] # None =>
                      \/ Gap(taken, times[b[n]]) < Gap(taken, times[m])
                      \/ Gap(taken, times[b[n]]) = Gap(taken, times[m]) /\ b[n] <= m
      <3>1. b[n] \in C /\ \A m \in C : d[b[n]] < d[m] \/ (d[b[n]] = d[m] /\ b[n] <= m)
        BY <1>3, <2>3 DEF IsFirst
      <3>2. \A m \in C : m \in 1..n /\ times[m] # None /\ d[m] = Gap(taken, times[m])
        OBVIOUS
      <3>3. \A m \in 1..n : times[m] # None => m \in C
        OBVIOUS
      <3> HIDE DEF C, d
      <3> QED
        BY <1>1, <3>1, <3>2, <3>3
    <2> QED
      BY <2>1, <2>2, <2>3
  <1>12. b[n] \in 0..n
    BY <1>1, <1>4
  <1> QED
    BY <1>10, <1>11, <1>12

\* The windows of _confidence: none beyond ten minutes, a tag within five.
LEMMA ConfidenceWindows ==
  ASSUME NEW delta \in Nat, NEW interval \in Nat
  PROVE  /\ Confidence(delta, interval) = "none" <=> delta > 600
         /\ Confidence(delta, interval) \in {"high", "medium"} <=> delta <= 300
         /\ Confidence(delta, interval) = "high" => delta <= 90 \/ 2 * delta <= interval
  <1>1. PICK half \in Nat : half = interval \div 2 /\ 2 * half <= interval
    OBVIOUS
  <1>2. SmartWindow(interval) = IF half < 60 THEN 60 ELSE IF half > 300 THEN 300 ELSE half
    BY <1>1 DEF SmartWindow
  <1> QED
    BY <1>1, <1>2 DEF Confidence

\* What find_nearest_start finds in one section, whose times are these: nothing, when
\* j is 0, else start j.
FoundAt(section, taken, times, j) ==
  IF j = 0
  THEN /\ FindNearestStart(taken, section) = NoMatch
       /\ \A m \in DOMAIN times : times[m] # None => Gap(taken, times[m]) > 600
  ELSE /\ FindNearestStart(taken, section)
            = [section |-> None, start |-> j, delta |-> Gap(taken, times[j]),
               confidence |-> Confidence(Gap(taken, times[j]), section.interval)]
       /\ j \in DOMAIN times
       /\ times[j] # None /\ Gap(taken, times[j]) <= 600
       /\ \A m \in DOMAIN times : times[m] # None =>
            \/ Gap(taken, times[j]) < Gap(taken, times[m])
            \/ Gap(taken, times[j]) = Gap(taken, times[m]) /\ j <= m

LEMMA NearestInSection ==
  ASSUME NEW section \in Section, NEW taken \in Int
  PROVE  \E j \in Nat : FoundAt(section, taken, TimesOf(section), j)
  <1> DEFINE times == TimesOf(section)
             found == NearestOf(times, taken)
             interval == section.interval
  <1>1. times \in Seq(Optional)
    BY TimesOfTyped
  <1>2. interval \in Nat
    BY DEF Section
  <1>3. FindNearestStart(taken, section) = Rated(found, interval)
    BY DEF FindNearestStart
  <1> HIDE DEF times, interval
  <1>4. ASSUME NEW m \in DOMAIN times, times[m] # None
        PROVE  Gap(taken, times[m]) \in Nat /\ Gap(taken, times[m]) # None
    <2>1. times[m] \in Int
      BY <1>1, <1>4 DEF Optional
    <2>2. Gap(taken, times[m]) \in Nat
      BY <2>1 DEF Gap
    <2> QED
      BY <2>2, ReadsAssumption
  <1>5. PICK j \in 0..Len(times) :
           /\ found = At(times, taken, j)
           /\ IF j = 0 THEN \A m \in DOMAIN times : times[m] = None
              ELSE /\ times[j] # None
                   /\ \A m \in DOMAIN times : times[m] # None =>
                        \/ Gap(taken, times[j]) < Gap(taken, times[m])
                        \/ Gap(taken, times[j]) = Gap(taken, times[m]) /\ j <= m
    BY <1>1, NearestOfFirst
  <1> HIDE DEF found
  <1>6. CASE j = 0
    <2>1. found = NoMatch
      BY <1>5, <1>6 DEF At
    <2>2. FindNearestStart(taken, section) = NoMatch
      BY <1>3, <2>1 DEF Rated, NoMatch
    <2>3. \A m \in DOMAIN times : times[m] = None
      BY <1>5, <1>6
    <2>4. FoundAt(section, taken, times, 0)
      BY <2>2, <2>3 DEF FoundAt
    <2> QED
      BY <2>4 DEF times
  <1>7. CASE j # 0
    <2> DEFINE delta == Gap(taken, times[j])
    <2>1. j \in DOMAIN times /\ times[j] # None
      BY <1>1, <1>5, <1>7
    <2>2. delta \in Nat /\ delta # None
      BY <1>4, <2>1
    <2>3. found = [section |-> None, start |-> j, delta |-> delta, confidence |-> "none"]
      BY <1>5, <1>7 DEF At, NoMatch
    <2>4. \A m \in DOMAIN times : times[m] # None =>
            delta < Gap(taken, times[m]) \/ (delta = Gap(taken, times[m]) /\ j <= m)
      BY <1>5, <1>7
    <2> HIDE DEF delta
    <2>5. CASE delta > 600
      <3>1. Confidence(delta, interval) = "none"
        BY <1>2, <2>2, <2>5, ConfidenceWindows
      <3>2. FindNearestStart(taken, section) = NoMatch
        BY <1>3, <2>3, <3>1 DEF Rated
      <3>3. ASSUME NEW m \in DOMAIN times, times[m] # None
            PROVE  Gap(taken, times[m]) > 600
        <4>1. delta < Gap(taken, times[m]) \/ delta = Gap(taken, times[m])
          BY <2>4, <3>3
        <4>2. Gap(taken, times[m]) \in Nat
          BY <1>4, <3>3
        <4> QED
          BY <2>2, <2>5, <4>1, <4>2
      <3>4. FoundAt(section, taken, times, 0)
        BY <3>2, <3>3 DEF FoundAt
      <3> QED
        BY <3>4 DEF times
    <2>6. CASE ~(delta > 600)
      <3>1. Confidence(delta, interval) # "none" /\ delta <= 600
        BY <1>2, <2>2, <2>6, ConfidenceWindows
      <3>2. FindNearestStart(taken, section)
              = [section |-> None, start |-> j, delta |-> delta, confidence |-> Confidence(delta, interval)]
        BY <1>3, <2>2, <2>3, <3>1 DEF Rated
      <3>3. FoundAt(section, taken, times, j)
        BY <1>7, <2>1, <2>4, <3>1, <3>2 DEF FoundAt, delta, interval
      <3>4. j \in Nat
        BY <1>1
      <3> QED
        BY <3>3, <3>4 DEF times
    <2> QED
      BY <2>5, <2>6
  <1> QED
    BY <1>6, <1>7

\* FindBestSection as a scan over the matches of the sections.
BestStep(match, k, best) ==
  IF match[k].confidence # "none" /\ Nearer(best.delta, match[k].delta) THEN match[k] ELSE best
IsBestScan(sections, match, x) ==
  x = [k \in 0..Len(sections) |-> IF k = 0 THEN NoMatch ELSE BestStep(match, k, x[k - 1])]
SectionMatches(sections, taken) ==
  [k \in DOMAIN sections |-> [FindNearestStart(taken, sections[k]) EXCEPT !.section = sections[k].id]]
BestScan(sections, taken) == CHOOSE x : IsBestScan(sections, SectionMatches(sections, taken), x)

LEMMA FindBestSectionUnfold ==
  ASSUME NEW sections, NEW taken
  PROVE  FindBestSection(sections, taken) = BestScan(sections, taken)[Len(sections)]
  BY Zenon DEF FindBestSection, BestScan, IsBestScan, BestStep, SectionMatches

\* The sections with a match, and how far it is.
Matched(match) == {k \in DOMAIN match : match[k].confidence # "none"}
Deltas(match) == [k \in DOMAIN match |-> IF match[k].confidence = "none" THEN 0 ELSE match[k].delta]

LEMMA SectionMatchTyped ==
  ASSUME NEW sections \in Seq(Section), NEW taken \in Int, NEW k \in DOMAIN sections,
         SectionMatches(sections, taken)[k].confidence # "none"
  PROVE  SectionMatches(sections, taken)[k].delta \in Nat /\ SectionMatches(sections, taken)[k].delta # None
  <1> DEFINE section == sections[k]
             times == TimesOf(section)
             found == FindNearestStart(taken, section)
  <1>1. section \in Section
    OBVIOUS
  <1>2. times \in Seq(Optional)
    BY <1>1, TimesOfTyped
  <1>3. PICK j \in Nat : FoundAt(section, taken, times, j)
    BY <1>1, NearestInSection
  <1>4. SectionMatches(sections, taken)[k] = [found EXCEPT !.section = section.id]
    BY DEF SectionMatches
  <1> HIDE DEF section, times, found
  <1>5. j # 0
    BY <1>3, <1>4 DEF NoMatch, FoundAt, found
  <1>6. times[j] \in Int
    <2>1. j \in DOMAIN times /\ times[j] # None
      BY <1>3, <1>5 DEF FoundAt
    <2> QED
      BY <1>2, <2>1 DEF Optional
  <1>7. Gap(taken, times[j]) \in Nat
    BY <1>6 DEF Gap
  <1>8. SectionMatches(sections, taken)[k].delta = Gap(taken, times[j])
    BY <1>3, <1>4, <1>5 DEF FoundAt, found
  <1> QED
    BY <1>7, <1>8, ReadsAssumption

LEMMA BestSectionFirst ==
  ASSUME NEW sections \in Seq(Section), NEW taken \in Int
  PROVE  LET match == SectionMatches(sections, taken) IN
         \E k \in 0..Len(sections) :
           /\ FindBestSection(sections, taken) = IF k = 0 THEN NoMatch ELSE match[k]
           /\ IsFirst(Len(sections), Matched(match), Deltas(match), k)
  <1> DEFINE n == Len(sections)
             match == SectionMatches(sections, taken)
             C == Matched(match)
             d == Deltas(match)
  <1>1. n \in Nat /\ DOMAIN sections = 1..n /\ DOMAIN match = 1..n
    BY DEF SectionMatches
  <1>2. \A k \in 1..n : match[k].confidence # "none" => match[k].delta \in Nat /\ match[k].delta # None
    BY <1>1, SectionMatchTyped
  <1> HIDE DEF match, n
  <1>3. C \in SUBSET (1..n) /\ d \in [1..n -> Int]
    BY <1>1, <1>2 DEF Matched, Deltas
  <1>4. \A k \in 1..n : (k \in C <=> match[k].confidence # "none") /\ (k \in C => d[k] = match[k].delta)
    BY <1>1 DEF Matched, Deltas
  <1> HIDE DEF C, d
  <1>5. PICK b : IsScan(n, C, d, b) /\ IsFirst(n, C, d, b[n]) /\ \A k \in 0..n : b[k] = 0 \/ b[k] \in C
    BY <1>1, <1>3, FirstBest
  <1>6. /\ b \in [0..n -> 0..n] /\ b[0] = 0
        /\ \A k \in 1..n : b[k] = IF k \in C /\ (b[k - 1] = 0 \/ d[k] < d[b[k - 1]]) THEN k ELSE b[k - 1]
    BY <1>5 DEF IsScan
  <1> DEFINE val(v) == IF v = 0 THEN NoMatch ELSE match[v]
             g == [k \in 0..n |-> val(b[k])]
  <1>7. ASSUME NEW k \in 1..n
        PROVE  g[k] = BestStep(match, k, g[k - 1])
    <2> DEFINE v == b[k - 1]
    <2>1. k - 1 \in 0..n /\ k \in 0..n /\ k # 0
      BY <1>1
    <2>2. (v = 0 \/ v \in C) /\ v \in 0..n
      BY <1>5, <1>6, <2>1
    <2>3. b[k] = IF k \in C /\ (v = 0 \/ d[k] < d[v]) THEN k ELSE v
      BY <1>6
    <2>4. g[k - 1] = val(v) /\ g[k] = val(b[k])
      BY <2>1
    <2> HIDE DEF v, g
    <2>5. v = 0 => val(v).delta = None
      BY DEF NoMatch
    <2>6. v # 0 => val(v).delta = d[v] /\ d[v] # None
      <3>1. ASSUME v # 0
            PROVE  val(v).delta = d[v] /\ d[v] # None
        <4>1. v \in 1..n /\ v \in C
          BY <1>1, <1>3, <2>2, <3>1
        <4> QED
          BY <1>2, <1>4, <3>1, <4>1
      <3> QED
        BY <3>1
    <2>7. k \in C => match[k].delta = d[k]
      BY <1>4
    <2>8. k \in C <=> match[k].confidence # "none"
      BY <1>4
    <2>9. k \in C => (Nearer(val(v).delta, match[k].delta) <=> (v = 0 \/ d[k] < d[v]))
      BY <2>5, <2>6, <2>7 DEF Nearer
    <2> HIDE DEF val
    <2>10. CASE k \in C /\ (v = 0 \/ d[k] < d[v])
      <3>1. b[k] = k
        BY <2>3, <2>10
      <3>2. g[k] = match[k]
        BY <2>1, <2>4, <3>1 DEF val
      <3> QED
        BY <2>4, <2>8, <2>9, <2>10, <3>2 DEF BestStep
    <2>11. CASE ~(k \in C /\ (v = 0 \/ d[k] < d[v]))
      <3>1. b[k] = v
        BY <2>3, <2>11
      <3> QED
        BY <2>4, <2>8, <2>9, <2>11, <3>1 DEF BestStep
    <2> QED
      BY <2>10, <2>11
  <1>8. IsBestScan(sections, match, g)
    <2>1. g[0] = NoMatch
      BY <1>1, <1>6
    <2>2. g = [k \in 0..n |-> g[k]]
      OBVIOUS
    <2> HIDE DEF g
    <2>3. \A k \in 0..n : g[k] = IF k = 0 THEN NoMatch ELSE BestStep(match, k, g[k - 1])
      <3>1. \A k \in 0..n : k = 0 \/ k \in 1..n
        BY <1>1
      <3> QED
        BY <1>7, <2>1, <3>1
    <2> QED
      BY <2>2, <2>3 DEF IsBestScan, n
  <1> HIDE DEF g
  <1>9. PICK x : x = BestScan(sections, taken)
    OBVIOUS
  <1>10. IsBestScan(sections, match, x)
    BY <1>8, <1>9 DEF BestScan, match
  <1>11. \A k \in 0..n : x[k] = g[k]
    <2> DEFINE P == {k \in Nat : k <= n => x[k] = g[k]}
    <2>1. \A k \in 0..n : x[k] = IF k = 0 THEN NoMatch ELSE BestStep(match, k, x[k - 1])
      BY <1>10 DEF IsBestScan, n
    <2>2. \A k \in 0..n : g[k] = IF k = 0 THEN NoMatch ELSE BestStep(match, k, g[k - 1])
      BY <1>8 DEF IsBestScan, n
    <2>3. 0 \in P
      BY <1>1, <2>1, <2>2
    <2>4. ASSUME NEW k \in Nat, k \in P
          PROVE  k + 1 \in P
      <3>1. SUFFICES ASSUME k + 1 <= n
                     PROVE  x[k + 1] = g[k + 1]
        OBVIOUS
      <3>2. x[k] = g[k] /\ k + 1 \in 0..n /\ (k + 1) - 1 = k /\ k + 1 # 0
        BY <1>1, <2>4, <3>1
      <3> QED
        BY <2>1, <2>2, <3>2
    <2>5. \A k \in Nat : k \in P
      <3> HIDE DEF P
      <3> QED
        BY <2>3, <2>4, Induction
    <2> QED
      BY <1>1, <2>5
  <1>12. b[n] \in 0..n
    BY <1>1, <1>6
  <1>13. FindBestSection(sections, taken) = val(b[n])
    <2>1. n \in 0..n
      BY <1>1
    <2> QED
      BY <1>9, <1>11, <2>1, FindBestSectionUnfold DEF g, n
  <1> QED
    BY <1>5, <1>12, <1>13 DEF n, match, C, d

\* The sections a photo may belong to are sections of the schedule.
LEMMA CandidatesTyped ==
  ASSUME NEW schedule \in Schedule, NEW photo
  PROVE  CandidateSections(photo, schedule) \in Seq(Section)
  <1> DEFINE all == UNION {{schedule[c].sections[n] : n \in DOMAIN schedule[c].sections} : c \in DOMAIN schedule}
             own == {s \in all : s.id = photo.section}
             named == {c \in DOMAIN schedule : WantedClass(photo) \in schedule[c].ids}
  <1>1. \A c \in DOMAIN schedule : schedule[c].sections \in Seq(Section) /\ c \in Nat
    <2> TAKE c \in DOMAIN schedule
    <2> DEFINE Class == [ids : SUBSET Ids, sections : Seq(Section)]
    <2>1. schedule \in Seq(Class)
      BY DEF Schedule
    <2>2. schedule[c] \in Class /\ c \in Nat
      <3> HIDE DEF Class
      <3> QED
        BY <2>1
    <2> QED
      BY <2>2
  <1>2. own \subseteq Section
    BY <1>1
  <1>3. CandidateSections(photo, schedule) =
          IF own # {} THEN <<CHOOSE s \in own : TRUE>>
          ELSE IF named = {} THEN <<>>
          ELSE schedule[CHOOSE c \in named : \A e \in named : c <= e].sections
    BY DEF CandidateSections
  <1>4. named \in SUBSET DOMAIN schedule /\ named \in SUBSET Nat
    BY <1>1
  <1> HIDE DEF own, named
  <1>5. CASE own # {}
    <2>1. PICK s \in Section : s = CHOOSE z \in own : TRUE
      BY <1>2, <1>5
    <2>2. CandidateSections(photo, schedule) = <<s>>
      BY <1>3, <1>5, <2>1
    <2> QED
      BY <2>2
  <1>6. CASE own = {} /\ named = {}
    BY <1>3, <1>6
  <1>7. CASE own = {} /\ named # {}
    <2>1. \E c \in named : \A e \in named : c <= e
      BY <1>4, <1>7, LeastNatural
    <2>2. PICK c \in named : c = CHOOSE f \in named : \A e \in named : f <= e
      BY <2>1
    <2>3. CandidateSections(photo, schedule) = schedule[c].sections
      BY <1>3, <1>7, <2>2
    <2> QED
      BY <1>1, <1>4, <2>3
  <1> QED
    BY <1>5, <1>6, <1>7

\* The nearest of all the starts, first by section, then by place in the feed.
LEMMA NearestOfAll ==
  ASSUME NEW sections \in Seq(Section), NEW taken \in Int, NEW times,
         times = [k \in DOMAIN sections |-> TimesOf(sections[k])]
  PROVE  LET best == FindBestSection(sections, taken)
             near(k, j) == times[k][j] # None /\ Gap(taken, times[k][j]) <= 600
         IN  \/ /\ best = NoMatch
                /\ \A k \in DOMAIN times : \A j \in DOMAIN times[k] : ~near(k, j)
             \/ \E k \in DOMAIN times : \E j \in DOMAIN times[k] :
                  LET delta == Gap(taken, times[k][j]) IN
                  /\ best = [section |-> sections[k].id, start |-> j, delta |-> delta,
                             confidence |-> Confidence(delta, sections[k].interval)]
                  /\ delta \in Nat /\ near(k, j)
                  /\ \A m \in DOMAIN times : \A i \in DOMAIN times[m] : near(m, i) =>
                       \/ delta < Gap(taken, times[m][i])
                       \/ delta = Gap(taken, times[m][i]) /\ (k < m \/ (k = m /\ j <= i))
  <1> DEFINE n == Len(sections)
             match == SectionMatches(sections, taken)
             C == Matched(match)
             d == Deltas(match)
             best == FindBestSection(sections, taken)
             near(k, j) == times[k][j] # None /\ Gap(taken, times[k][j]) <= 600
             away(k, j) == Gap(taken, times[k][j])
  <1>1. n \in Nat /\ DOMAIN sections = 1..n /\ DOMAIN times = 1..n /\ DOMAIN match = 1..n
    BY DEF SectionMatches
  <1>2. ASSUME NEW k \in 1..n
        PROVE  sections[k] \in Section /\ sections[k].interval \in Nat /\ times[k] = TimesOf(sections[k])
               /\ times[k] \in Seq(Optional)
               /\ match[k] = [FindNearestStart(taken, sections[k]) EXCEPT !.section = sections[k].id]
    <2>1. sections[k] \in Section /\ times[k] = TimesOf(sections[k])
      BY <1>1
    <2>2. sections[k].interval \in Nat
      BY <2>1 DEF Section
    <2>3. times[k] \in Seq(Optional)
      BY <2>1, TimesOfTyped
    <2>4. match[k] = [FindNearestStart(taken, sections[k]) EXCEPT !.section = sections[k].id]
      BY <1>1 DEF SectionMatches
    <2> HIDE DEF match
    <2> QED
      BY <2>1, <2>2, <2>3, <2>4
  <1>3. ASSUME NEW k \in 1..n, NEW j \in DOMAIN times[k], times[k][j] # None
        PROVE  away(k, j) \in Nat
    <2>1. PICK t \in Seq(Optional) : t = times[k]
      BY <1>2
    <2>2. t[j] \in Int
      BY <1>3, <2>1 DEF Optional
    <2> QED
      BY <2>1, <2>2 DEF Gap
  <1> DEFINE Found(k, j) ==
               IF j = 0 THEN k \notin C /\ \A m \in DOMAIN times[k] : times[k][m] # None => away(k, m) > 600
               ELSE /\ k \in C /\ j \in DOMAIN times[k]
                    /\ match[k] = [section |-> sections[k].id, start |-> j, delta |-> away(k, j),
                                   confidence |-> Confidence(away(k, j), sections[k].interval)]
                    /\ d[k] = away(k, j) /\ near(k, j)
                    /\ \A m \in DOMAIN times[k] : times[k][m] # None =>
                         away(k, j) < away(k, m) \/ (away(k, j) = away(k, m) /\ j <= m)
  <1>4. ASSUME NEW k \in 1..n
        PROVE  \E j \in Nat : Found(k, j)
    <2> DEFINE found == FindNearestStart(taken, sections[k])
    <2>1. PICK j \in Nat : FoundAt(sections[k], taken, times[k], j)
      BY <1>2, NearestInSection
    <2>2. match[k] = [found EXCEPT !.section = sections[k].id]
      BY <1>2
    <2>3. /\ k \in C <=> match[k].confidence # "none"
          /\ k \in C => d[k] = match[k].delta
      BY <1>1 DEF Matched, Deltas
    <2> HIDE DEF found, match, C, d, n
    <2>4. CASE j = 0
      <3>1. found = NoMatch /\ \A m \in DOMAIN times[k] : times[k][m] # None => away(k, m) > 600
        <4>1. FoundAt(sections[k], taken, times[k], 0)
          BY <2>1, <2>4
        <4> HIDE DEF away
        <4>2. \A m : away(k, m) = Gap(taken, times[k][m])
          BY DEF away
        <4> QED
          BY ONLY <4>1, <4>2 DEF FoundAt, found
      <3>2. match[k].confidence = "none"
        BY <2>2, <3>1 DEF NoMatch
      <3>3. k \notin C
        BY <2>3, <3>2
      <3>4. Found(k, 0)
        <4> HIDE DEF near, away
        <4> QED
          BY ONLY <3>1, <3>3 DEF Found
      <3> HIDE DEF Found
      <3> QED
        BY <2>4, <3>4
    <2>5. CASE j # 0
      <3>1. near(k, j) /\ j \in DOMAIN times[k]
        BY <2>1, <2>5 DEF FoundAt
      <3>2. away(k, j) \in Nat /\ away(k, j) <= 600
        BY <1>3, <3>1
      <3>3. Confidence(away(k, j), sections[k].interval) # "none"
        <4>1. PICK a \in Nat, i \in Nat : a = away(k, j) /\ i = sections[k].interval /\ a <= 600
          <5> HIDE DEF away
          <5> QED
            BY <1>2, <3>2
        <4>2. Confidence(a, i) # "none"
          BY <4>1, ConfidenceWindows
        <4> QED
          BY <4>1, <4>2
      <3>4. match[k] = [section |-> sections[k].id, start |-> j, delta |-> away(k, j),
                        confidence |-> Confidence(away(k, j), sections[k].interval)]
        BY <2>1, <2>2, <2>5 DEF FoundAt, found
      <3>5. k \in C /\ d[k] = away(k, j)
        BY <2>3, <3>3, <3>4
      <3>6. \A m \in DOMAIN times[k] : times[k][m] # None =>
              away(k, j) < away(k, m) \/ (away(k, j) = away(k, m) /\ j <= m)
        BY <2>1, <2>5 DEF FoundAt
      <3>7. Found(k, j)
        <4> HIDE DEF near, away
        <4> QED
          BY <2>5, <3>1, <3>4, <3>5, <3>6
      <3> HIDE DEF Found
      <3> QED
        BY <3>7
    <2> HIDE DEF Found
    <2> QED
      BY <2>4, <2>5
  <1>5. PICK k \in 0..n : best = (IF k = 0 THEN NoMatch ELSE match[k]) /\ IsFirst(n, C, d, k)
    BY BestSectionFirst
  <1> HIDE DEF n, match, C, d, best
  <1>6. ASSUME NEW m \in 1..n, NEW j \in Nat, Found(m, j), j = 0
         PROVE  m \notin C /\ \A i \in DOMAIN times[m] : times[m][i] # None => away(m, i) > 600
    <2> HIDE DEF near, away
    <2> QED
      BY <1>6
  <1>7. ASSUME NEW m \in 1..n, NEW j \in Nat, Found(m, j), j # 0
         PROVE  /\ m \in C /\ j \in DOMAIN times[m]
                /\ match[m] = [section |-> sections[m].id, start |-> j, delta |-> away(m, j),
                               confidence |-> Confidence(away(m, j), sections[m].interval)]
                /\ d[m] = away(m, j) /\ near(m, j)
                /\ \A i \in DOMAIN times[m] : times[m][i] # None =>
                     away(m, j) < away(m, i) \/ (away(m, j) = away(m, i) /\ j <= i)
    <2> HIDE DEF near, away
    <2> QED
      BY <1>7
  <1> HIDE DEF Found
  <1>8. ASSUME NEW m \in 1..n, NEW i \in DOMAIN times[m], near(m, i)
        PROVE  m \in C /\ d[m] \in Nat /\ away(m, i) \in Nat /\ d[m] <= away(m, i)
    <2>1. PICK j \in Nat : Found(m, j)
      BY <1>4
    <2>2. away(m, i) \in Nat /\ away(m, i) <= 600 /\ times[m][i] # None
      BY <1>3, <1>8
    <2>3. j # 0
      <3>1. ~(away(m, i) > 600)
        BY <2>2
      <3> HIDE DEF away
      <3> QED
        BY <1>6, <2>1, <2>2, <3>1
    <2>4. m \in C /\ j \in DOMAIN times[m] /\ d[m] = away(m, j) /\ times[m][j] # None
          /\ (away(m, j) < away(m, i) \/ away(m, j) = away(m, i))
      <3>1. near(m, j) => times[m][j] # None
        OBVIOUS
      <3> HIDE DEF away, near
      <3> QED
        BY <1>7, <2>1, <2>2, <2>3, <3>1
    <2>5. away(m, j) \in Nat
      BY <1>3, <2>4
    <2> HIDE DEF away
    <2> QED
      BY <2>2, <2>4, <2>5
  <1>9. CASE k = 0
    <2>1. best = NoMatch /\ C = {}
      BY <1>5, <1>9 DEF IsFirst
    <2>2. \A m \in DOMAIN times : \A i \in DOMAIN times[m] : ~near(m, i)
      BY <1>1, <1>8, <2>1
    <2> QED
      BY <2>1, <2>2 DEF best
  <1>10. CASE k # 0
    <2>1. best = match[k] /\ k \in C /\ k \in 1..n
          /\ \A m \in C : d[k] < d[m] \/ (d[k] = d[m] /\ k <= m)
      BY <1>1, <1>5, <1>10 DEF IsFirst
    <2>2. PICK j \in Nat : Found(k, j)
      BY <1>4, <2>1
    <2>3. j # 0
      <3> HIDE DEF away
      <3> QED
        BY <1>6, <2>1, <2>2
    <2>4. /\ j \in DOMAIN times[k]
          /\ match[k] = [section |-> sections[k].id, start |-> j, delta |-> away(k, j),
                         confidence |-> Confidence(away(k, j), sections[k].interval)]
          /\ d[k] = away(k, j) /\ near(k, j)
          /\ \A m \in DOMAIN times[k] : times[k][m] # None =>
               away(k, j) < away(k, m) \/ (away(k, j) = away(k, m) /\ j <= m)
      <3> HIDE DEF away, near
      <3> QED
        BY <1>7, <2>1, <2>2, <2>3
    <2>5. away(k, j) \in Nat
      BY <1>3, <2>1, <2>4
    <2>6. ASSUME NEW m \in 1..n, NEW i \in DOMAIN times[m], near(m, i)
          PROVE  away(k, j) < away(m, i) \/ (away(k, j) = away(m, i) /\ (k < m \/ (k = m /\ j <= i)))
      <3>1. m \in C /\ d[m] \in Nat /\ away(m, i) \in Nat /\ d[m] <= away(m, i)
        BY <1>8, <2>6
      <3>2. d[k] < d[m] \/ (d[k] = d[m] /\ k <= m)
        BY <2>1, <3>1
      <3>3. m = k => away(k, j) < away(m, i) \/ (away(k, j) = away(m, i) /\ j <= i)
        <4>1. near(m, i) => times[m][i] # None
          OBVIOUS
        <4> HIDE DEF away, near
        <4> QED
          BY <2>4, <2>6, <4>1
      <3>4. k \in Nat /\ m \in Nat /\ d[k] = away(k, j)
        BY <1>1, <2>1, <2>4
      <3> HIDE DEF away, near
      <3> QED
        BY <2>5, <3>1, <3>2, <3>3, <3>4
    <2> DEFINE delta == Gap(taken, times[k][j])
    <2>7. /\ best = [section |-> sections[k].id, start |-> j, delta |-> delta,
                     confidence |-> Confidence(delta, sections[k].interval)]
          /\ delta \in Nat /\ near(k, j)
          /\ \A m \in DOMAIN times : \A i \in DOMAIN times[m] : near(m, i) =>
               \/ delta < Gap(taken, times[m][i])
               \/ delta = Gap(taken, times[m][i]) /\ (k < m \/ (k = m /\ j <= i))
      BY <1>1, <2>1, <2>4, <2>5, <2>6
    <2>8. k \in DOMAIN times /\ j \in DOMAIN times[k]
      BY <1>1, <2>1, <2>4
    <2> QED
      BY <2>7, <2>8 DEF best
  <1> QED
    BY <1>9, <1>10

\* The property of one photo and schedule.
LEMMA PhotoMatchedNearest ==
  ASSUME input.photo \in Photo, input.schedule \in Schedule
  PROVE  NearestStart
  <1> DEFINE taken == input.photo.taken
             sections == CandidateSections(input.photo, input.schedule)
  <1> SUFFICES ASSUME NEW times \in {[k \in DOMAIN sections |-> TimesOf(sections[k])]},
                      NEW result \in {MatchPhoto(input.photo, input.schedule)}
               PROVE  LET away(x) == Gap(taken, times[x[1]][x[2]])
                          near == IF taken = None THEN {}
                                  ELSE {x \in UNION {{k} \X DOMAIN times[k] : k \in DOMAIN times} :
                                            times[x[1]][x[2]] # None /\ away(x) <= 600}
                          first(x) == \A y \in near \ {x} :
                                        \/ away(x) < away(y)
                                        \/ away(x) = away(y) /\ (x[1] < y[1] \/ (x[1] = y[1] /\ x[2] < y[2]))
                      IN  IF near = {} THEN result = [match |-> NoMatch, tagged |-> FALSE]
                          ELSE \E x \in near :
                                 /\ first(x)
                                 /\ result.match.section = sections[x[1]].id
                                 /\ result.match.start = x[2]
                                 /\ result.match.delta = away(x)
                                 /\ result.tagged <=> away(x) <= 300
                                 /\ result.match.confidence = "high" =>
                                      away(x) <= 90 \/ 2 * away(x) <= sections[x[1]].interval
    BY Zenon DEF NearestStart
  <1> DEFINE away(x) == Gap(taken, times[x[1]][x[2]])
             near == IF taken = None THEN {}
                     ELSE {x \in UNION {{k} \X DOMAIN times[k] : k \in DOMAIN times} :
                               times[x[1]][x[2]] # None /\ away(x) <= 600}
             first(x) == \A y \in near \ {x} :
                           \/ away(x) < away(y)
                           \/ away(x) = away(y) /\ (x[1] < y[1] \/ (x[1] = y[1] /\ x[2] < y[2]))
             Matches(x) == /\ first(x)
                           /\ result.match.section = sections[x[1]].id
                           /\ result.match.start = x[2]
                           /\ result.match.delta = away(x)
                           /\ result.tagged <=> away(x) <= 300
                           /\ result.match.confidence = "high" =>
                                away(x) <= 90 \/ 2 * away(x) <= sections[x[1]].interval
             Goal == IF near = {} THEN result = [match |-> NoMatch, tagged |-> FALSE]
                     ELSE \E x \in near : Matches(x)
  <1> SUFFICES Goal
    BY Zenon
  <1>1. times = [k \in DOMAIN sections |-> TimesOf(sections[k])] /\ result = MatchPhoto(input.photo, input.schedule)
    OBVIOUS
  <1>2. sections \in Seq(Section)
    BY CandidatesTyped
  <1>3. taken = None \/ taken \in Int
    BY DEF Photo, Optional
  <1>4. Tagged(NoMatch) = [match |-> NoMatch, tagged |-> FALSE]
    <2>1. NoMatch.confidence = "none"
      BY DEF NoMatch
    <2>2. ("none" \in {"high", "medium"}) = FALSE
      OBVIOUS
    <2> QED
      BY <2>1, <2>2, Zenon DEF Tagged
  <1>5. CASE taken = None
    <2>1. near = {} /\ result = Tagged(NoMatch)
      BY <1>1, <1>5 DEF MatchPhoto
    <2> QED
      BY <1>4, <2>1
  <1>6. CASE taken \in Int
    <2> DEFINE best == FindBestSection(sections, taken)
    <2>1. taken # None
      BY <1>6, ReadsAssumption
    <2>2. result = Tagged(best)
      BY <1>1, <2>1 DEF MatchPhoto
    <2>3. near = {x \in UNION {{k} \X DOMAIN times[k] : k \in DOMAIN times} :
                     times[x[1]][x[2]] # None /\ away(x) <= 600}
      BY <2>1
    <2>4. \/ /\ best = NoMatch
             /\ \A k \in DOMAIN times : \A j \in DOMAIN times[k] :
                  ~(times[k][j] # None /\ Gap(taken, times[k][j]) <= 600)
          \/ \E k \in DOMAIN times : \E j \in DOMAIN times[k] :
               LET delta == Gap(taken, times[k][j]) IN
               /\ best = [section |-> sections[k].id, start |-> j, delta |-> delta,
                          confidence |-> Confidence(delta, sections[k].interval)]
               /\ delta \in Nat /\ times[k][j] # None /\ delta <= 600
               /\ \A m \in DOMAIN times : \A i \in DOMAIN times[m] :
                    times[m][i] # None /\ Gap(taken, times[m][i]) <= 600 =>
                    \/ delta < Gap(taken, times[m][i])
                    \/ delta = Gap(taken, times[m][i]) /\ (k < m \/ (k = m /\ j <= i))
      <3> HIDE DEF sections, taken
      <3> QED
        BY <1>1, <1>2, <1>6, NearestOfAll
    <2>5. DOMAIN times = DOMAIN sections
      BY <1>1
    <2>6. \A k \in DOMAIN times : times[k] \in Seq(Optional) /\ k \in Nat /\ sections[k].interval \in Nat
      <3> TAKE k \in DOMAIN times
      <3> HIDE DEF sections
      <3>1. sections[k] \in Section /\ k \in Nat
        BY <1>2, <2>5
      <3>2. times[k] \in Seq(Optional)
        BY <1>1, <2>5, <3>1, TimesOfTyped
      <3>3. sections[k].interval \in Nat
        BY <3>1 DEF Section
      <3> QED
        BY <3>1, <3>2, <3>3
    <2>7. \A k \in DOMAIN times : \A j \in DOMAIN times[k] : k \in Nat /\ j \in Nat
      <3> TAKE k \in DOMAIN times
      <3>1. PICK t \in Seq(Optional) : t = times[k]
        BY <2>6
      <3> QED
        BY <2>6, <3>1
    <2> HIDE DEF sections, taken, best, near
    <2>8. CASE best = NoMatch /\ \A k \in DOMAIN times : \A j \in DOMAIN times[k] :
                  ~(times[k][j] # None /\ Gap(taken, times[k][j]) <= 600)
      <3>1. near = {}
        BY <2>3, <2>8
      <3> QED
        BY <1>4, <2>2, <2>8, <3>1
    <2>9. ASSUME NEW k \in DOMAIN times, NEW j \in DOMAIN times[k], NEW delta \in Nat,
                 delta = Gap(taken, times[k][j]),
                 best = [section |-> sections[k].id, start |-> j, delta |-> delta,
                         confidence |-> Confidence(delta, sections[k].interval)],
                 times[k][j] # None, delta <= 600,
                 \A m \in DOMAIN times : \A i \in DOMAIN times[m] :
                    times[m][i] # None /\ Gap(taken, times[m][i]) <= 600 =>
                    \/ delta < Gap(taken, times[m][i])
                    \/ delta = Gap(taken, times[m][i]) /\ (k < m \/ (k = m /\ j <= i))
          PROVE  \E x \in near : Matches(x)
      <3> DEFINE x == <<k, j>>
      <3>1. x \in near /\ away(x) = delta
        BY <2>3, <2>9
      <3>2. first(x)
        <4> SUFFICES ASSUME NEW m \in DOMAIN times, NEW i \in DOMAIN times[m], <<m, i>> # x,
                            times[m][i] # None, Gap(taken, times[m][i]) <= 600
                     PROVE  \/ delta < Gap(taken, times[m][i])
                            \/ delta = Gap(taken, times[m][i]) /\ (k < m \/ (k = m /\ j < i))
          BY <2>3, <3>1
        <4>1. \/ delta < Gap(taken, times[m][i])
              \/ delta = Gap(taken, times[m][i]) /\ (k < m \/ (k = m /\ j <= i))
          BY <2>9
        <4>2. k # m \/ j # i
          OBVIOUS
        <4>3. j \in Nat /\ i \in Nat
          BY <2>7
        <4> QED
          BY <4>1, <4>2, <4>3
      <3>3. PICK interval \in Nat : interval = sections[k].interval
        BY <2>6
      <3>4. /\ Confidence(delta, interval) \in {"high", "medium"} <=> delta <= 300
            /\ Confidence(delta, interval) = "high" => delta <= 90 \/ 2 * delta <= interval
        BY ConfidenceWindows
      <3>5. result = [match |-> best, tagged |-> Confidence(delta, interval) \in {"high", "medium"}]
        BY <2>2, <2>9, <3>3 DEF Tagged
      <3>6. result.match.section = sections[k].id /\ result.match.start = j /\ result.match.delta = delta
            /\ result.match.confidence = Confidence(delta, interval)
        BY <2>9, <3>3, <3>5
      <3>7. x[1] = k /\ x[2] = j
        OBVIOUS
      <3>8. Matches(x)
        <4>1. result.tagged <=> delta <= 300
          BY <3>4, <3>5
        <4> HIDE DEF first, x, away
        <4> QED
          BY <3>1, <3>2, <3>3, <3>4, <3>6, <3>7, <4>1
      <3> HIDE DEF Matches, x
      <3> QED
        BY <3>1, <3>8
    <2>10. near # {} \/ near = {}
      OBVIOUS
    <2>11. (\E x \in near : Matches(x)) \/ (near = {} /\ result = [match |-> NoMatch, tagged |-> FALSE])
      <3> HIDE DEF Matches
      <3>1. CASE best = NoMatch /\ \A k \in DOMAIN times : \A j \in DOMAIN times[k] :
                  ~(times[k][j] # None /\ Gap(taken, times[k][j]) <= 600)
        <4>1. near = {}
          BY <2>3, <3>1
        <4> QED
          BY <1>4, <2>2, <3>1, <4>1
      <3> QED
        BY <2>4, <2>9, <3>1
    <2> HIDE DEF Matches
    <2> QED
      BY <2>11
  <1> QED
    BY <1>3, <1>5, <1>6

-----------------------------------------------------------------------------
(***************************************************************************)
(* Matching a batch of meetings.                                           *)
(***************************************************************************)

\* FindMatch as a scan over the events, best score first.
SameTdb(meeting, events) == {i \in DOMAIN events : meeting.id # 0 /\ events[i].tdb = meeting.id}

EventStep(events, k, best) ==
  IF Eligible(events[k]) /\ Scored(events[k]).score > best.score
  THEN [event |-> k, score |-> Scored(events[k]).score, method |-> Scored(events[k]).method]
  ELSE best
IsEventScan(events, x) ==
  x = [k \in 0..Len(events) |-> IF k = 0 THEN NoCandidate ELSE EventStep(events, k, x[k - 1])]
EventScan(events) == CHOOSE x : IsEventScan(events, x)

LEMMA FindMatchUnfold ==
  ASSUME NEW meeting, NEW events
  PROVE  FindMatch(meeting, events) =
           IF SameTdb(meeting, events) # {}
           THEN [event |-> CHOOSE i \in SameTdb(meeting, events) : TRUE, score |-> 100, method |-> "exact_tdb_id"]
           ELSE IF ~meeting.named THEN NoCandidate
           ELSE EventScan(events)[Len(events)]
  BY Zenon DEF FindMatch, EventScan, IsEventScan, EventStep, SameTdb

\* A score is zero or at least 70.
LEMMA ScoreBounds ==
  ASSUME NEW event \in Event
  PROVE  Scored(event).score \in Nat /\ (Scored(event).score = 0 \/ Scored(event).score >= 70)
  <1>1. PICK c \in Nat : c = Combined(event)
    BY DEF Event, Combined
  <1>2. c >= 7000 => Rounded(c) \in Nat /\ Rounded(c) >= 70
    BY DEF Rounded
  <1>3. event.name \in Nat
    BY DEF Event
  <1> QED
    BY <1>1, <1>2, <1>3 DEF Scored

Scoring(events) == {k \in DOMAIN events : Eligible(events[k]) /\ Scored(events[k]).score > 0}
Penalty(events) == [k \in DOMAIN events |-> 0 - Scored(events[k]).score]
ScoredAt(events, k) ==
  IF k = 0 THEN NoCandidate
  ELSE [event |-> k, score |-> Scored(events[k]).score, method |-> Scored(events[k]).method]

LEMMA EventScanFirst ==
  ASSUME NEW events \in Seq(Event)
  PROVE  \E k \in 0..Len(events) :
           /\ EventScan(events)[Len(events)] = ScoredAt(events, k)
           /\ IsFirst(Len(events), Scoring(events), Penalty(events), k)
  <1> DEFINE n == Len(events)
             C == Scoring(events)
             d == Penalty(events)
             score(k) == Scored(events[k]).score
  <1>1. n \in Nat /\ DOMAIN events = 1..n
    OBVIOUS
  <1>2. \A k \in 1..n : score(k) \in Nat
    <2> TAKE k \in 1..n
    <2>1. events[k] \in Event
      BY <1>1
    <2> QED
      BY <2>1, ScoreBounds
  <1> HIDE DEF n
  <1>3. C \in SUBSET (1..n) /\ d \in [1..n -> Int]
    BY <1>1, <1>2 DEF Scoring, Penalty
  <1>4. \A k \in 1..n : (k \in C <=> Eligible(events[k]) /\ score(k) > 0) /\ d[k] = 0 - score(k)
    BY <1>1 DEF Scoring, Penalty
  <1> HIDE DEF C, d
  <1>5. PICK b : IsScan(n, C, d, b) /\ IsFirst(n, C, d, b[n]) /\ \A k \in 0..n : b[k] = 0 \/ b[k] \in C
    BY <1>1, <1>3, FirstBest
  <1>6. /\ b \in [0..n -> 0..n] /\ b[0] = 0
        /\ \A k \in 1..n : b[k] = IF k \in C /\ (b[k - 1] = 0 \/ d[k] < d[b[k - 1]]) THEN k ELSE b[k - 1]
    BY <1>5 DEF IsScan
  <1> DEFINE g == [k \in 0..n |-> ScoredAt(events, b[k])]
  <1>7. ASSUME NEW k \in 1..n
        PROVE  g[k] = EventStep(events, k, g[k - 1])
    <2> DEFINE v == b[k - 1]
    <2>1. k - 1 \in 0..n /\ k \in 0..n /\ k # 0
      BY <1>1
    <2>2. (v = 0 \/ v \in C) /\ v \in 0..n
      BY <1>5, <1>6, <2>1
    <2>3. b[k] = IF k \in C /\ (v = 0 \/ d[k] < d[v]) THEN k ELSE v
      BY <1>6
    <2>4. g[k - 1] = ScoredAt(events, v) /\ g[k] = ScoredAt(events, b[k])
      BY <2>1
    <2> HIDE DEF v, g
    <2>5. v = 0 => ScoredAt(events, v).score = 0
      BY DEF NoCandidate, ScoredAt
    <2>6. v # 0 => ScoredAt(events, v).score = score(v) /\ score(v) \in Nat /\ score(v) > 0 /\ d[v] = 0 - score(v)
      <3> SUFFICES ASSUME v # 0
                   PROVE  ScoredAt(events, v).score = score(v) /\ score(v) \in Nat /\ score(v) > 0 /\ d[v] = 0 - score(v)
        OBVIOUS
      <3>1. v \in 1..n /\ v \in C
        BY <1>3, <2>2
      <3> QED
        BY <1>2, <1>4, <3>1 DEF ScoredAt
    <2>7. score(k) \in Nat /\ d[k] = 0 - score(k) /\ (k \in C <=> Eligible(events[k]) /\ score(k) > 0)
      BY <1>2, <1>4
    <2>8. (k \in C /\ (v = 0 \/ d[k] < d[v])) <=> (Eligible(events[k]) /\ score(k) > ScoredAt(events, v).score)
      <3>1. PICK s \in Nat : s = score(k)
        BY <2>7
      <3>2. CASE v = 0
        BY <2>5, <2>7, <3>2
      <3>3. CASE v # 0
        <4>1. PICK r \in Nat : r = score(v) /\ r > 0
          BY <2>6, <3>3
        <4> HIDE DEF score
        <4> QED
          BY <2>6, <2>7, <3>1, <3>3, <4>1
      <3> QED
        BY <3>2, <3>3
    <2>9. CASE k \in C /\ (v = 0 \/ d[k] < d[v])
      <3>1. g[k] = ScoredAt(events, k)
        BY <2>3, <2>4, <2>9
      <3> QED
        BY <2>1, <2>4, <2>8, <2>9, <3>1 DEF EventStep, ScoredAt
    <2>10. CASE ~(k \in C /\ (v = 0 \/ d[k] < d[v]))
      <3>1. g[k] = ScoredAt(events, v)
        BY <2>3, <2>4, <2>10
      <3> QED
        BY <2>4, <2>8, <2>10, <3>1 DEF EventStep
    <2> QED
      BY <2>9, <2>10
  <1>8. IsEventScan(events, g)
    <2>1. g[0] = NoCandidate
      BY <1>1, <1>6 DEF ScoredAt
    <2>2. g = [k \in 0..n |-> g[k]]
      OBVIOUS
    <2> HIDE DEF g
    <2>3. \A k \in 0..n : g[k] = IF k = 0 THEN NoCandidate ELSE EventStep(events, k, g[k - 1])
      <3>1. \A k \in 0..n : k = 0 \/ k \in 1..n
        BY <1>1
      <3> QED
        BY <1>7, <2>1, <3>1
    <2> QED
      BY <2>2, <2>3 DEF IsEventScan, n
  <1> HIDE DEF g
  <1>9. PICK x : x = EventScan(events)
    OBVIOUS
  <1>10. IsEventScan(events, x)
    BY <1>8, <1>9 DEF EventScan
  <1>11. \A k \in 0..n : x[k] = g[k]
    <2> DEFINE P == {k \in Nat : k <= n => x[k] = g[k]}
    <2>1. \A k \in 0..n : x[k] = IF k = 0 THEN NoCandidate ELSE EventStep(events, k, x[k - 1])
      BY <1>10 DEF IsEventScan, n
    <2>2. \A k \in 0..n : g[k] = IF k = 0 THEN NoCandidate ELSE EventStep(events, k, g[k - 1])
      BY <1>8 DEF IsEventScan, n
    <2>3. 0 \in P
      BY <1>1, <2>1, <2>2
    <2>4. ASSUME NEW k \in Nat, k \in P
          PROVE  k + 1 \in P
      <3>1. SUFFICES ASSUME k + 1 <= n
                     PROVE  x[k + 1] = g[k + 1]
        OBVIOUS
      <3>2. x[k] = g[k] /\ k + 1 \in 0..n /\ (k + 1) - 1 = k /\ k + 1 # 0
        BY <1>1, <2>4, <3>1
      <3> QED
        BY <2>1, <2>2, <3>2
    <2>5. \A k \in Nat : k \in P
      <3> HIDE DEF P
      <3> QED
        BY <2>3, <2>4, Induction
    <2> QED
      BY <1>1, <2>5
  <1>12. b[n] \in 0..n /\ n \in 0..n
    BY <1>1, <1>6
  <1>13. EventScan(events)[n] = ScoredAt(events, b[n])
    BY <1>9, <1>11, <1>12 DEF g
  <1> QED
    BY <1>5, <1>12, <1>13 DEF n, C, d

\* What find_match finds.
MatchIs(meeting, events, found) ==
  \/ found.event \in SameTdb(meeting, events) /\ found # NoCandidate
  \/ /\ SameTdb(meeting, events) = {} /\ found = NoCandidate
     /\ meeting.named => \A i \in DOMAIN events : Eligible(events[i]) => Scored(events[i]).score < 70
  \/ /\ SameTdb(meeting, events) = {} /\ meeting.named /\ found # NoCandidate
     /\ found.event \in DOMAIN events
     /\ Eligible(events[found.event]) /\ Scored(events[found.event]).score >= 70
     /\ \A i \in DOMAIN events : Eligible(events[i]) =>
            Scored(events[i]).score <= Scored(events[found.event]).score

LEMMA FindMatchFinds ==
  ASSUME NEW meeting \in Meeting, NEW events \in Seq(Event)
  PROVE  MatchIs(meeting, events, FindMatch(meeting, events))
  <1> DEFINE same == SameTdb(meeting, events)
             found == FindMatch(meeting, events)
             n == Len(events)
             score(i) == Scored(events[i]).score
  <1>1. n \in Nat /\ DOMAIN events = 1..n
    OBVIOUS
  <1>2. same \in SUBSET (1..n)
    BY DEF SameTdb
  <1>3. \A i \in 1..n : score(i) \in Nat /\ (score(i) = 0 \/ score(i) >= 70)
    <2> TAKE i \in 1..n
    <2>1. events[i] \in Event
      BY <1>1
    <2> QED
      BY <2>1, ScoreBounds
  <1> HIDE DEF same, found, n, score
  <1>4. CASE same # {}
    <2>1. found = [event |-> CHOOSE i \in same : TRUE, score |-> 100, method |-> "exact_tdb_id"]
      BY <1>4, FindMatchUnfold DEF same, found
    <2>2. found.event \in same /\ found # NoCandidate
      BY <1>4, <2>1 DEF NoCandidate
    <2> QED
      BY <2>2 DEF MatchIs, same, found
  <1>5. CASE same = {} /\ ~meeting.named
    <2>1. found = NoCandidate
      BY <1>5, FindMatchUnfold DEF same, found
    <2> QED
      BY <1>5, <2>1 DEF MatchIs, same, found
  <1>6. CASE same = {} /\ meeting.named
    <2>1. PICK k \in 0..n : found = ScoredAt(events, k) /\ IsFirst(n, Scoring(events), Penalty(events), k)
      <3>1. found = EventScan(events)[n]
        BY <1>6, FindMatchUnfold DEF same, found, n
      <3> QED
        BY <3>1, EventScanFirst DEF n
    <2>2. \A i \in 1..n : /\ i \in Scoring(events) <=> Eligible(events[i]) /\ score(i) > 0
                          /\ Penalty(events)[i] = 0 - score(i)
      BY <1>1 DEF Scoring, Penalty, score
    <2>3. Scoring(events) \subseteq 1..n
      BY <1>1 DEF Scoring
    <2>4. CASE k = 0
      <3>1. found = NoCandidate /\ Scoring(events) = {}
        BY <2>1, <2>4 DEF ScoredAt, IsFirst
      <3>2. \A i \in 1..n : Eligible(events[i]) => score(i) < 70
        BY <1>3, <2>2, <3>1
      <3> QED
        BY <1>1, <1>6, <3>1, <3>2 DEF MatchIs, same, found, score
    <2>5. CASE k # 0
      <3>1. k \in Scoring(events) /\ k \in 1..n
            /\ \A i \in Scoring(events) : Penalty(events)[k] <= Penalty(events)[i]
        <4>1. k \in Scoring(events)
              /\ \A i \in Scoring(events) : Penalty(events)[k] < Penalty(events)[i] \/ Penalty(events)[k] = Penalty(events)[i]
          BY <2>1, <2>5 DEF IsFirst
        <4>2. \A i \in 1..n : Penalty(events)[i] \in Int
          BY <1>3, <2>2
        <4> QED
          BY <2>3, <4>1, <4>2
      <3>2. found.event = k /\ found # NoCandidate
        BY <2>1, <2>5 DEF ScoredAt, NoCandidate
      <3>3. Eligible(events[k]) /\ score(k) >= 70 /\ score(k) \in Nat
        BY <1>3, <2>2, <3>1
      <3>4. ASSUME NEW i \in 1..n, Eligible(events[i])
            PROVE  score(i) <= score(k)
        <4>1. CASE i \in Scoring(events)
          <5>1. 0 - score(k) <= 0 - score(i)
            BY <2>2, <3>1, <4>1
          <5> QED
            BY <1>3, <3>3, <5>1
        <4>2. CASE i \notin Scoring(events)
          BY <1>3, <2>2, <3>3, <3>4, <4>2
        <4> QED
          BY <4>1, <4>2
      <3> QED
        BY <1>1, <1>6, <3>1, <3>2, <3>3, <3>4 DEF MatchIs, same, found, score
    <2> QED
      BY <2>4, <2>5
  <1>7. meeting.named \in BOOLEAN
    BY DEF Meeting
  <1> QED
    BY <1>4, <1>5, <1>6, <1>7

\* The event of the catalogue that a meeting got: matched, and otherwise as it was.
KeepsFields(new, old) ==
  /\ new.tdb = old.tdb /\ new.sameday = old.sameday
  /\ new.name = old.name /\ new.organizer = old.organizer /\ new.venue = old.venue
Touched(new, old) == new = old \/ (new.match = "matched" /\ KeepsFields(new, old))
States(events) ==
  {s \in Seq(Event) : Len(s) = Len(events) /\ \A i \in DOMAIN events : Touched(s[i], events[i])}

\* MatchBatch as its recursive function, whose steps are MatchStep.
MatchStep(meeting, events) ==
  LET found == FindMatch(meeting, events) IN
  IF found = NoCandidate THEN events ELSE [events EXCEPT ![found.event] = Applied(@, meeting)]
IsBatch(meetings, events, x) ==
  x = [k \in 0..Len(meetings) |-> IF k = 0 THEN events ELSE MatchStep(meetings[k], x[k - 1])]

LEMMA MatchBatchUnfold ==
  ASSUME NEW meetings, NEW events
  PROVE  MatchBatch(meetings, events) = CHOOSE x : IsBatch(meetings, events, x)
  BY Zenon DEF MatchBatch, IsBatch, MatchStep

LEMMA FoundInDomain ==
  ASSUME NEW meeting, NEW events, NEW found, MatchIs(meeting, events, found), found # NoCandidate
  PROVE  found.event \in DOMAIN events
  BY DEF MatchIs, SameTdb

\* A batch changes nothing of an event but its equipe id and its match.
LEMMA MatchStepTyped ==
  ASSUME NEW meeting \in Meeting, NEW events, NEW s \in States(events)
  PROVE  MatchStep(meeting, s) \in States(events)
  <1> DEFINE found == FindMatch(meeting, s)
             i == found.event
             t == MatchStep(meeting, s)
  <1>1. s \in Seq(Event) /\ Len(s) = Len(events) /\ DOMAIN s = 1..Len(s)
        /\ \A j \in DOMAIN events : Touched(s[j], events[j])
    BY DEF States
  <1>2. MatchIs(meeting, s, found)
    BY <1>1, FindMatchFinds
  <1> HIDE DEF found
  <1>3. CASE found = NoCandidate
    BY <1>3 DEF MatchStep, found
  <1>4. CASE found # NoCandidate
    <2>1. i \in DOMAIN s
      BY <1>2, <1>4, FoundInDomain
    <2>2. t = [s EXCEPT ![i] = Applied(s[i], meeting)]
      BY <1>4 DEF MatchStep, found
    <2>3. Applied(s[i], meeting) \in Event
      <3>1. s[i] \in Event
        BY <1>1, <2>1
      <3>2. meeting.equipe \in Nat
        BY DEF Meeting
      <3> QED
        BY <3>1, <3>2 DEF Applied, Event
    <2> HIDE DEF t, i
    <2>4. t \in Seq(Event) /\ Len(t) = Len(s)
      BY <1>1, <2>1, <2>2, <2>3
    <2>5. Touched(Applied(s[i], meeting), s[i])
      <3>1. s[i] \in Event
        BY <1>1, <2>1
      <3> QED
        BY <3>1 DEF Applied, Touched, KeepsFields, Event
    <2>6. ASSUME NEW j \in DOMAIN events
          PROVE  Touched(t[j], events[j])
      <3>1. Touched(s[j], events[j])
        BY <1>1
      <3>2. CASE j = i
        <4>1. t[j] = Applied(s[i], meeting)
          BY <2>1, <2>2, <3>2
        <4>2. Applied(s[i], meeting).match = "matched"
          <5>1. s[i] \in Event
            BY <1>1, <2>1
          <5> QED
            BY <5>1 DEF Applied, Event
        <4> QED
          BY <2>5, <3>1, <3>2, <4>1, <4>2 DEF Touched, KeepsFields
      <3>3. CASE j # i
        BY <1>1, <2>2, <3>1, <3>3
      <3> QED
        BY <3>2, <3>3
    <2> QED
      BY <1>1, <2>4, <2>6 DEF States, t
  <1> QED
    BY <1>3, <1>4

LEMMA BatchStates ==
  ASSUME NEW meetings \in Seq(Meeting), NEW events \in Seq(Event)
  PROVE  LET after == MatchBatch(meetings, events) IN
         \A k \in DOMAIN meetings :
            /\ after[k - 1] \in States(events)
            /\ after[k] = MatchStep(meetings[k], after[k - 1])
  <1> DEFINE n == Len(meetings)
             after == MatchBatch(meetings, events)
             V == States(events)
             F == [k \in 1..n |-> [s \in V |-> MatchStep(meetings[k], s)]]
  <1>1. n \in Nat /\ DOMAIN meetings = 1..n
    OBVIOUS
  <1>2. events \in V
    BY DEF States, Touched
  <1>3. \A k \in 1..n, s \in V : F[k][s] = MatchStep(meetings[k], s) /\ F[k][s] \in V
    <2> TAKE k \in 1..n, s \in V
    <2>1. meetings[k] \in Meeting
      BY <1>1
    <2> QED
      BY <2>1, MatchStepTyped
  <1> HIDE DEF n, after, V, F
  <1>4. PICK g : IsRecursive(n, V, events, F, g)
    BY <1>1, <1>2, <1>3, Recursion
  <1>5. g \in [0..n -> V] /\ g[0] = events /\ \A k \in 1..n : g[k] = F[k][g[k - 1]]
    BY <1>4 DEF IsRecursive
  <1>6. \A k \in 1..n : g[k] = MatchStep(meetings[k], g[k - 1])
    <2> TAKE k \in 1..n
    <2>1. g[k - 1] \in V
      BY <1>1, <1>5
    <2> QED
      BY <1>3, <1>5, <2>1
  <1>7. IsBatch(meetings, events, g)
    <2>1. \A k \in 0..n : g[k] = IF k = 0 THEN events ELSE MatchStep(meetings[k], g[k - 1])
      <3>1. \A k \in 0..n : k = 0 \/ k \in 1..n
        BY <1>1
      <3> QED
        BY <1>5, <1>6, <3>1
    <2>2. g = [k \in 0..n |-> g[k]]
      BY <1>5
    <2> QED
      BY <2>1, <2>2 DEF IsBatch, n
  <1>8. IsBatch(meetings, events, after)
    BY <1>7, MatchBatchUnfold DEF after
  <1>9. \A k \in 0..n : after[k] = IF k = 0 THEN events ELSE MatchStep(meetings[k], after[k - 1])
    BY <1>8 DEF IsBatch, n
  <1> DEFINE P == {k \in Nat : k <= n => after[k] \in V}
  <1>10. 0 \in P
    BY <1>1, <1>2, <1>9
  <1>11. ASSUME NEW k \in Nat, k \in P
         PROVE  k + 1 \in P
    <2>1. SUFFICES ASSUME k + 1 <= n
                   PROVE  after[k + 1] \in V
      OBVIOUS
    <2>2. after[k] \in V /\ k + 1 \in 1..n /\ k + 1 \in 0..n /\ (k + 1) - 1 = k /\ k + 1 # 0
      BY <1>1, <1>11, <2>1
    <2>3. after[k + 1] = MatchStep(meetings[k + 1], after[k])
      BY <1>9, <2>2
    <2> QED
      BY <1>3, <2>2, <2>3
  <1>12. \A k \in Nat : k \in P
    <2> HIDE DEF P
    <2> QED
      BY <1>10, <1>11, Induction
  <1>13. ASSUME NEW k \in 1..n
         PROVE  after[k - 1] \in V /\ after[k] = MatchStep(meetings[k], after[k - 1])
    <2>1. k - 1 \in Nat /\ k - 1 <= n /\ k \in 0..n /\ k # 0
      BY <1>1
    <2> QED
      BY <1>9, <1>12, <2>1
  <1> QED
    BY <1>1, <1>13 DEF after, V

\* The property of one batch.
LEMMA BatchMatchedBest ==
  ASSUME input.meetings \in Seq(Meeting), input.events \in Seq(Event)
  PROVE  BatchTakesBest
  <1> SUFFICES ASSUME NEW after \in {MatchBatch(input.meetings, input.events)}, NEW k \in DOMAIN input.meetings
               PROVE  LET events == input.events
                          m == input.meetings[k]
                          changed == {i \in DOMAIN events : after[k][i] # after[k - 1][i]}
                          same == {i \in DOMAIN events : m.id # 0 /\ events[i].tdb = m.id}
                          free == {i \in DOMAIN events : /\ events[i].sameday
                                                         /\ events[i].match # "matched"
                                                         /\ after[k - 1][i] = events[i]}
                          score(i) == Scored(events[i]).score
                      IN  IF same # {} THEN \E i \in same : changed \subseteq {i} /\ after[k][i].equipe = m.equipe
                          ELSE IF m.named /\ \E i \in free : score(i) >= 70
                          THEN \E i \in free : /\ changed = {i}
                                               /\ after[k][i].equipe = m.equipe
                                               /\ score(i) >= 70
                                               /\ \A j \in free : score(j) <= score(i)
                          ELSE changed = {}
    BY Zenon DEF BatchTakesBest
  <1> DEFINE events == input.events
             m == input.meetings[k]
             old == after[k - 1]
             new == after[k]
             changed == {i \in DOMAIN events : new[i] # old[i]}
             same == {i \in DOMAIN events : m.id # 0 /\ events[i].tdb = m.id}
             free == {i \in DOMAIN events : /\ events[i].sameday
                                            /\ events[i].match # "matched"
                                            /\ old[i] = events[i]}
  <1> DEFINE score(i) == Scored(events[i]).score
             Goal == IF same # {} THEN \E i \in same : changed \subseteq {i} /\ new[i].equipe = m.equipe
                     ELSE IF m.named /\ \E i \in free : score(i) >= 70
                     THEN \E i \in free : /\ changed = {i}
                                          /\ new[i].equipe = m.equipe
                                          /\ score(i) >= 70
                                          /\ \A j \in free : score(j) <= score(i)
                     ELSE changed = {}
  <1> SUFFICES Goal
    BY Zenon
  <1>1. /\ changed = {i \in DOMAIN events : new[i] # old[i]}
        /\ same = {i \in DOMAIN events : m.id # 0 /\ events[i].tdb = m.id}
        /\ free = {i \in DOMAIN events : /\ events[i].sameday
                                         /\ events[i].match # "matched"
                                         /\ old[i] = events[i]}
    OBVIOUS
  <1>2. old \in States(events) /\ new = MatchStep(m, old) /\ m \in Meeting /\ events \in Seq(Event)
    BY BatchStates
  <1> HIDE DEF events, m, old, new, changed, same, free
  <1> DEFINE found == FindMatch(m, old)
             e == found.event
  <1>3. old \in Seq(Event) /\ DOMAIN old = DOMAIN events /\ \A i \in DOMAIN events : Touched(old[i], events[i])
    BY <1>2 DEF States
  <1>4. ASSUME NEW i \in DOMAIN events
        PROVE  /\ old[i] \in Event /\ events[i] \in Event
               /\ old[i].tdb = events[i].tdb /\ Scored(old[i]) = Scored(events[i])
               /\ Eligible(old[i]) <=> i \in free
    <2>1. old[i] \in Event /\ events[i] \in Event
      BY <1>2, <1>3
    <2>2. Touched(old[i], events[i])
      BY <1>3
    <2>3. KeepsFields(old[i], events[i])
      BY <2>2 DEF Touched, KeepsFields
    <2>4. Scored(old[i]) = Scored(events[i])
      BY <2>3 DEF KeepsFields, Scored, Combined
    <2>5. Eligible(old[i]) <=> i \in free
      <3>1. old[i] # events[i] => old[i].match = "matched"
        BY <2>2 DEF Touched
      <3>2. events[i].match \in {"unmatched", "matched", "rejected"}
        BY <2>1 DEF Event
      <3> QED
        BY <1>1, <2>1, <3>1, <3>2 DEF Eligible
    <2> QED
      BY <2>1, <2>3, <2>4, <2>5 DEF KeepsFields
  <1>5. SameTdb(m, old) = same
    BY <1>1, <1>3, <1>4 DEF SameTdb
  <1>6. MatchIs(m, old, found)
    BY <1>2, <1>3, FindMatchFinds
  <1> HIDE DEF found
  <1>7. ASSUME found # NoCandidate
        PROVE  e \in DOMAIN events /\ changed \subseteq {e} /\ new[e] = Applied(old[e], m)
               /\ new[e].equipe = m.equipe /\ new[e].match = "matched"
    <2>1. e \in DOMAIN events
      BY <1>3, <1>6, <1>7, FoundInDomain
    <2>2. new = [old EXCEPT ![e] = Applied(old[e], m)]
      BY <1>2, <1>7 DEF MatchStep, found
    <2>3. new[e] = Applied(old[e], m) /\ \A i \in DOMAIN events : i # e => new[i] = old[i]
      <3> HIDE DEF e
      <3> QED
        BY <1>3, <2>1, <2>2
    <2>4. old[e] \in Event
      BY <1>4, <2>1
    <2>5. new[e].equipe = m.equipe /\ new[e].match = "matched"
      BY <2>3, <2>4 DEF Applied, Event
    <2> QED
      BY <1>1, <2>1, <2>3, <2>5
  <1>8. CASE same # {}
    <2>1. e \in same /\ found # NoCandidate
      BY <1>5, <1>6, <1>8 DEF MatchIs
    <2> QED
      BY <1>7, <1>8, <2>1
  <1>9. CASE same = {} /\ found = NoCandidate
    <2>1. new = old
      BY <1>2, <1>9 DEF MatchStep, found
    <2>2. changed = {}
      BY <1>1, <2>1
    <2>3. m.named => \A i \in DOMAIN events : Eligible(old[i]) => Scored(old[i]).score < 70
      BY <1>3, <1>5, <1>6, <1>9 DEF MatchIs
    <2>4. m.named => \A i \in free : score(i) < 70
      BY <1>1, <1>4, <2>3
    <2>5. \A i \in free : score(i) \in Nat
      BY <1>1, <1>4, ScoreBounds
    <2>6. ~(m.named /\ \E i \in free : score(i) >= 70)
      <3> HIDE DEF score
      <3> QED
        BY <2>4, <2>5
    <2> QED
      BY <1>9, <2>2, <2>6
  <1>10. CASE same = {} /\ found # NoCandidate
    <2>1. /\ m.named /\ e \in DOMAIN events
          /\ Eligible(old[e]) /\ Scored(old[e]).score >= 70
          /\ \A i \in DOMAIN events : Eligible(old[i]) => Scored(old[i]).score <= Scored(old[e]).score
      BY <1>3, <1>5, <1>6, <1>10 DEF MatchIs
    <2>2. e \in free /\ score(e) >= 70 /\ \A j \in free : score(j) <= score(e)
      BY <1>1, <1>4, <2>1
    <2>3. new[e] # old[e]
      <3>1. old[e].match # "matched"
        BY <2>1 DEF Eligible
      <3> QED
        BY <1>7, <1>10, <3>1
    <2>4. changed = {e}
      BY <1>1, <1>7, <1>10, <2>1, <2>3
    <2>5. new[e].equipe = m.equipe
      BY <1>7, <1>10
    <2> HIDE DEF e
    <2> QED
      BY <1>10, <2>1, <2>2, <2>4, <2>5
  <1> QED
    BY <1>8, <1>9, <1>10

-----------------------------------------------------------------------------
(***************************************************************************)
(* The specification.                                                      *)
(***************************************************************************)

LEMMA ReadsTypeStep == TypeOK /\ [Next]_vars => TypeOK'
  <1> SUFFICES ASSUME TypeOK, [Next]_vars
               PROVE  TypeOK'
    OBVIOUS
  <1>1. ASSUME NEW s \in ClassSections, Takes([kind |-> "class", section |-> s])
        PROVE  TypeOK'
    <2>1. ListingTypeOK'
      BY <1>1 DEF Takes, listingVars, TypeOK, ListingTypeOK
    <2>2. input'.kind = "class" /\ input'.section \in Section
      BY <1>1, ReadsAssumption DEF Takes
    <2> QED
      BY <2>1, <2>2 DEF TypeOK
  <1>2. ASSUME NEW p \in Photos, NEW s \in Schedules, Takes([kind |-> "photo", photo |-> p, schedule |-> s])
        PROVE  TypeOK'
    <2>1. ListingTypeOK'
      BY <1>2 DEF Takes, listingVars, TypeOK, ListingTypeOK
    <2>2. input'.kind = "photo" /\ input'.photo \in Photo /\ input'.schedule \in Schedule
      BY <1>2, ReadsAssumption DEF Takes
    <2> QED
      BY <2>1, <2>2 DEF TypeOK
  <1>3. ASSUME NEW m \in MeetingLists, NEW e \in EventLists, Takes([kind |-> "batch", meetings |-> m, events |-> e])
        PROVE  TypeOK'
    <2>1. ListingTypeOK'
      BY <1>3 DEF Takes, listingVars, TypeOK, ListingTypeOK
    <2>2. input'.kind = "batch" /\ input'.meetings \in Seq(Meeting) /\ input'.events \in Seq(Event)
      BY <1>3, ReadsAssumption DEF Takes
    <2> QED
      BY <2>1, <2>2 DEF TypeOK
  <1>4. ASSUME NEW s \in SaleSets, Takes([kind |-> "sales", sales |-> s])
        PROVE  TypeOK'
    <2>1. ListingTypeOK'
      BY <1>4 DEF Takes, listingVars, TypeOK, ListingTypeOK
    <2>2. input'.kind = "sales" /\ IsSaleSet(input'.sales)
      BY <1>4, ReadsAssumption DEF Takes
    <2>3. IsSaleSet(input.sales)'
      BY <2>2 DEF IsSaleSet, IsSale
    <2> QED
      BY <2>1, <2>2, <2>3 DEF TypeOK
  <1>5. CASE List
    <2>1. ListingTypeOK'
      BY <1>5, ListingTypeStep DEF List, TypeOK
    <2> QED
      BY <1>5, <2>1 DEF List, TypeOK
  <1>6. CASE UNCHANGED vars
    <2>1. UNCHANGED listingVars /\ input' = input
      BY <1>6 DEF vars, listingVars
    <2>2. ListingTypeOK'
      BY <2>1 DEF listingVars, TypeOK, ListingTypeOK
    <2> QED
      BY <2>1, <2>2 DEF TypeOK, IsSaleSet, IsSale
  <1> QED
    BY <1>1, <1>2, <1>3, <1>4, <1>5, <1>6 DEF Next, TakeClass, TakePhoto, TakeBatch, TakeSales

\* Every input is one of its kind, as the functions take it, and the lists keep their
\* types, whatever is taken or read.
THEOREM ReadsTypes == Spec => []TypeOK
  <1>1. Init => TypeOK
    <2>1. ListingInit => ListingTypeOK
      <3> SUFFICES ASSUME ListingInit
                   PROVE  ListingTypeOK
        OBVIOUS
      <3>1. row \in [Rows -> RowStates \cup {NoRow}]
        BY DEF ListingInit
      <3> QED
        BY <3>1 DEF ListingInit, ListingTypeOK
    <2> QED
      BY <2>1 DEF Init, TypeOK
  <1> QED
    BY <1>1, ReadsTypeStep, PTL DEF Spec

LEMMA Kinds ==
  ASSUME TypeOK
  PROVE  /\ input.kind = "class" => input.section \in Section
         /\ input.kind = "photo" => input.photo \in Photo /\ input.schedule \in Schedule
         /\ input.kind = "batch" => input.meetings \in Seq(Meeting) /\ input.events \in Seq(Event)
         /\ input.kind = "sales" => IsSaleSet(input.sales)
  BY DEF TypeOK, NoInput

\* For every section, of any number of starts in any order and with any interval, the
\* known times stay, every start gets one, and estimates keep the running order
\* (_estimated_start_times).
THEOREM EstimatesAreOrdered == Spec => []EstimatesKeepOrder
  <1>1. TypeOK => EstimatesKeepOrder
    BY Kinds, TimesInOrder DEF EstimatesKeepOrder
  <1> QED
    BY <1>1, ReadsTypes, PTL

\* For every photo and every schedule the match is the first of the nearest starts,
\* with the confidence its distance deserves, and there is none only if no start is
\* within ten minutes (match_photo).
THEOREM PhotosFindTheNearest == Spec => []NearestStart
  <1>1. TypeOK => NearestStart
    <2>1. CASE input.kind = "photo"
      BY <2>1, Kinds, PhotoMatchedNearest
    <2>2. CASE input.kind # "photo"
      BY <2>2 DEF NearestStart
    <2> QED
      BY <2>1, <2>2
  <1> QED
    BY <1>1, ReadsTypes, PTL

\* For every batch, of any number of meetings and events, each meeting gets the best
\* event that is left, and no two get one event by name (run_matching_batch).
THEOREM BatchesTakeTheBest == Spec => []BatchTakesBest
  <1>1. TypeOK => BatchTakesBest
    <2>1. CASE input.kind = "batch"
      BY <2>1, Kinds, BatchMatchedBest
    <2>2. CASE input.kind # "batch"
      BY <2>2 DEF BatchTakesBest
    <2> QED
      BY <2>1, <2>2
  <1> QED
    BY <1>1, ReadsTypes, PTL

\* For any finite set of sales and any commission, the page's owed is what a
\* settlement sends, and its parts add up to the photographer's, which is within what
\* was paid (list_my_sales, settle_photographer).
THEOREM SalesPageAddsUp == Spec => []SalesAddUp
  <1>1. TypeOK => SalesAddUp
    BY Kinds, TotalsAddUp DEF SalesAddUp
  <1> QED
    BY <1>1, ReadsTypes, PTL

\* Taking an input leaves the lists alone, so what is proved of them holds here: no row
\* that keeps its place is missed (get_event_gallery, list_photos, list_events).
THEOREM ReadsAreLists == Spec => ListingSpec /\ []EveryRowListed
  <1>1. Init => ListingInit
    BY DEF Init
  <1>2. [Next]_vars => [ListingNext]_listingVars
    BY DEF Next, vars, listingVars, List, TakeClass, TakePhoto, TakeBatch, TakeSales, Takes
  <1>3. Spec => ListingSpec
    BY <1>1, <1>2, PTL DEF Spec, ListingSpec
  <1> QED
    BY <1>3, ReadersSeeEveryRow, PTL
=============================================================================
