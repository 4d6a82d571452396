---------------------------- MODULE FoldTheorems ----------------------------
(***************************************************************************)
(* Facts about folds.  The sum of a function over a finite set, which the  *)
(* models take with MapThenSumSet (weights of voters, shares of owners),   *)
(* is a natural number, any element can be taken out of it first, and it   *)
(* splits into the sums over two parts of the set.  A fold over a sequence *)
(* takes one step after the other (FoldLeft).                              *)
(*                                                                         *)
(* A fold is a recursive function on the subsets of its set.  That there   *)
(* is one, and what it computes, is proved by induction on the size of the *)
(* subsets, in the form of SetInduction: the sizes for which a statement   *)
(* holds are a set of naturals.                                            *)
(***************************************************************************)
EXTENDS Integers, FiniteSets, FiniteSetsExt, FiniteSetTheorems,
        WellFoundedInduction, NaturalsInduction, TLAPS

\* The sets of at most n elements.
UpTo(S, n) == {s \in SUBSET S : Cardinality(s) <= n}

\* A set of naturals that holds 0, and n + 1 whenever it holds n, holds all.
LEMMA SetInduction ==
  ASSUME NEW Q, 0 \in Q, \A n \in Nat : n \in Q => n + 1 \in Q
  PROVE  Nat \subseteq Q
  <1> SUFFICES ASSUME Nat \ Q # {} PROVE FALSE
    OBVIOUS
  <1>1. PICK n \in Nat \ Q :
           \A m \in Nat \ Q : ~(<<m, n>> \in OpToRel(<, Nat))
    BY WFMin, NatLessThanWellFounded
  <1>2. n - 1 \in Nat /\ n - 1 < n
    OBVIOUS
  <1>3. <<n - 1, n>> \in OpToRel(<, Nat)
    BY <1>2 DEF OpToRel
  <1>4. n - 1 \in Q
    BY <1>1, <1>2, <1>3
  <1>5. (n - 1) + 1 \in Q /\ (n - 1) + 1 = n
    BY <1>2, <1>4
  <1> QED BY <1>5

LEMMA SubsetsFinite ==
  ASSUME NEW S, IsFiniteSet(S), NEW s \in SUBSET S
  PROVE  /\ IsFiniteSet(s) /\ Cardinality(s) \in Nat
         /\ Cardinality(s) <= Cardinality(S)
         /\ Cardinality(s) = 0 <=> s = {}
         /\ \A x \in s : /\ s \ {x} \in SUBSET S
                         /\ Cardinality(s \ {x}) = Cardinality(s) - 1
  BY FS_Subset, FS_CardinalityType, FS_EmptySet, FS_RemoveElement

-----------------------------------------------------------------------------
(* Folds *)

\* One step of a fold over a set: ch chooses the element to take, h takes the
\* value of the rest and that element.
FoldStep(ch, base, h, f, s) ==
    IF s = {} THEN base ELSE h[<<f[s \ {ch[s]}], ch[s]>>]

\* f is the fold, on all subsets of S.
IsFoldOf(S, A, ch, base, h, f) ==
    /\ f \in [SUBSET S -> A]
    /\ \A s \in SUBSET S : f[s] = FoldStep(ch, base, h, f, s)

Chooses(ch, S) == \A s \in SUBSET S : s # {} => ch[s] \in s

\* The recursion of a fold defines a function: built up size by size.
LEMMA FoldOfExists ==
  ASSUME NEW S, IsFiniteSet(S), NEW A, NEW base \in A, NEW ch, Chooses(ch, S),
         NEW h \in [A \X S -> A]
  PROVE  \E f : IsFoldOf(S, A, ch, base, h, f)
  <1> DEFINE Is(D, f) == /\ f \in [D -> A]
                         /\ \A s \in D : f[s] = FoldStep(ch, base, h, f, s)
             Q == {k \in Nat : \E f : Is(UpTo(S, k), f)}
  <1>0. Cardinality(S) \in Nat
    BY FS_CardinalityType
  <1>00. \A s \in SUBSET S : s # {} => ch[s] \in s /\ ch[s] \in S
    BY DEF Chooses
  <1>1. 0 \in Q
    <2> DEFINE f == [s \in UpTo(S, 0) |-> base]
    <2>1. UpTo(S, 0) = {{}}
      BY <1>0, SubsetsFinite DEF UpTo
    <2>2. Is(UpTo(S, 0), f)
      BY <2>1 DEF FoldStep
    <2> QED BY <2>2
  <1>2. ASSUME NEW k \in Nat, k \in Q PROVE k + 1 \in Q
    <2>1. PICK f : Is(UpTo(S, k), f)
      BY <1>2
    <2> DEFINE g == [s \in UpTo(S, k + 1) |->
                       IF s \in UpTo(S, k) THEN f[s]
                                           ELSE FoldStep(ch, base, h, f, s)]
    <2>2. ASSUME NEW s \in UpTo(S, k + 1)
          PROVE  g[s] = FoldStep(ch, base, h, g, s) /\ g[s] \in A
      <3>1. CASE s = {}
        <4>1. s \in UpTo(S, k)
          BY <3>1, FS_EmptySet DEF UpTo
        <4> QED BY <2>1, <3>1, <4>1 DEF FoldStep
      <3>2. CASE s # {}
        <4> DEFINE t == s \ {ch[s]}
        <4>1. t \in UpTo(S, k) /\ t \in UpTo(S, k + 1)
          BY <1>0, <1>00, <3>2, SubsetsFinite DEF UpTo
        <4>2. g[t] = f[t] /\ f[t] \in A
          BY <2>1, <4>1
        <4>3. FoldStep(ch, base, h, g, s) = FoldStep(ch, base, h, f, s)
          BY <4>2 DEF FoldStep
        <4>4. s \in UpTo(S, k) => f[s] = FoldStep(ch, base, h, f, s)
          BY <2>1
        <4>5. g[s] = FoldStep(ch, base, h, f, s)
          BY <4>4
        <4>6. ch[s] \in S
          BY <1>00, <3>2 DEF UpTo
        <4>7. FoldStep(ch, base, h, f, s) \in A
          BY <3>2, <4>2, <4>6 DEF FoldStep
        <4> QED BY <4>3, <4>5, <4>7
      <3> QED BY <3>1, <3>2
    <2>3. g \in [UpTo(S, k + 1) -> A]
      BY <2>2
    <2> HIDE DEF g
    <2>4. Is(UpTo(S, k + 1), g)
      BY <2>2, <2>3
    <2> HIDE DEF Is
    <2> QED BY <2>4
  <1>3. Cardinality(S) \in Q
    <2> HIDE DEF Q
    <2>1. Nat \subseteq Q
      BY <1>1, <1>2, SetInduction
    <2> QED BY <2>1, <1>0
  <1>4. UpTo(S, Cardinality(S)) = SUBSET S
    BY <1>0, SubsetsFinite DEF UpTo
  <1>5. \E f : Is(SUBSET S, f)
    BY <1>3, <1>4
  <1> QED BY <1>5 DEF IsFoldOf

\* A function that satisfies the recursion is the fold: it has no other values.
LEMMA FoldTyped ==
  ASSUME NEW S, IsFiniteSet(S), NEW A, NEW base \in A, NEW ch, Chooses(ch, S),
         NEW h \in [A \X S -> A],
         NEW f, f = [s \in SUBSET S |-> f[s]], f[{}] = base,
         \A s \in SUBSET S : s # {} /\ f[s \ {ch[s]}] \in A =>
             f[s] = h[<<f[s \ {ch[s]}], ch[s]>>]
  PROVE  IsFoldOf(S, A, ch, base, h, f)
  <1> DEFINE Q == {n \in Nat : \A s \in UpTo(S, n) : f[s] \in A}
  <1>0. \A s \in SUBSET S : s # {} => ch[s] \in s /\ ch[s] \in S
    BY DEF Chooses
  <1>1. 0 \in Q
    <2>1. UpTo(S, 0) = {{}}
      BY SubsetsFinite DEF UpTo
    <2> QED BY <2>1
  <1>2. ASSUME NEW n \in Nat, n \in Q PROVE n + 1 \in Q
    <2>1. ASSUME NEW s \in UpTo(S, n + 1) PROVE f[s] \in A
      <3>1. CASE s = {}
        BY <3>1
      <3>2. CASE s # {}
        <4>1. s \in SUBSET S /\ s \ {ch[s]} \in UpTo(S, n) /\ ch[s] \in S
          BY <1>0, <3>2, SubsetsFinite DEF UpTo
        <4>2. f[s \ {ch[s]}] \in A
          BY <1>2, <4>1
        <4> QED BY <3>2, <4>1, <4>2
      <3> QED BY <3>1, <3>2
    <2>2. \A s \in UpTo(S, n + 1) : f[s] \in A
      BY <2>1, Zenon
    <2>3. n + 1 \in Nat
      OBVIOUS
    <2> QED BY <2>2, <2>3, Zenon
  <1>3. Cardinality(S) \in Q
    <2> HIDE DEF Q
    <2>1. Nat \subseteq Q
      BY <1>1, <1>2, SetInduction
    <2> QED BY <2>1, FS_CardinalityType
  <1>4. \A s \in SUBSET S : s \in UpTo(S, Cardinality(S))
    BY SubsetsFinite DEF UpTo
  <1>5. \A s \in SUBSET S : f[s] \in A
    BY <1>3, <1>4
  <1>6. f \in [SUBSET S -> A]
    BY <1>5
  <1>7. ASSUME NEW s \in SUBSET S PROVE f[s] = FoldStep(ch, base, h, f, s)
    BY <1>5 DEF FoldStep
  <1> QED BY <1>6, <1>7 DEF IsFoldOf

\* The fold over a subset gives what the fold over the whole set gives for it.
LEMMA FoldLocal ==
  ASSUME NEW S, IsFiniteSet(S), NEW A, NEW base, NEW ch, Chooses(ch, S), NEW h,
         NEW f, IsFoldOf(S, A, ch, base, h, f), NEW T \in SUBSET S,
         NEW k, NEW g, IsFoldOf(T, A, ch, base, k, g),
         \A a \in A, x \in T : h[<<a, x>>] = k[<<a, x>>]
  PROVE  f[T] = g[T]
  <1> DEFINE Q == {n \in Nat : \A s \in UpTo(T, n) : f[s] = g[s]}
  <1>1. IsFiniteSet(T)
    BY FS_Subset
  <1>2. \A s \in SUBSET T : /\ f[s] = FoldStep(ch, base, h, f, s) /\ f[s] \in A
                            /\ g[s] = FoldStep(ch, base, k, g, s) /\ g[s] \in A
    BY DEF IsFoldOf
  <1>3. 0 \in Q
    <2>1. UpTo(T, 0) = {{}}
      BY <1>1, SubsetsFinite DEF UpTo
    <2> QED BY <1>2, <2>1 DEF FoldStep
  <1>4. ASSUME NEW n \in Nat, n \in Q PROVE n + 1 \in Q
    <2>1. ASSUME NEW s \in UpTo(T, n + 1) PROVE f[s] = g[s]
      <3>1. s \in SUBSET T
        BY DEF UpTo
      <3>2. CASE s = {}
        BY <1>2, <3>1, <3>2 DEF FoldStep
      <3>3. CASE s # {}
        <4>1. ch[s] \in s /\ ch[s] \in T
          BY <3>1, <3>3 DEF Chooses
        <4>2. s \ {ch[s]} \in UpTo(T, n) /\ s \ {ch[s]} \in SUBSET T
          BY <1>1, <4>1, SubsetsFinite DEF UpTo
        <4>3. f[s \ {ch[s]}] = g[s \ {ch[s]}] /\ f[s \ {ch[s]}] \in A
          BY <1>2, <1>4, <4>2
        <4> QED BY <1>2, <3>1, <3>3, <4>1, <4>3 DEF FoldStep
      <3> QED BY <3>2, <3>3
    <2> QED BY <2>1
  <1>5. Cardinality(T) \in Q
    <2> HIDE DEF Q
    <2>1. Nat \subseteq Q
      BY <1>3, <1>4, SetInduction
    <2> QED BY <2>1, <1>1, FS_CardinalityType
  <1>6. T \in UpTo(T, Cardinality(T))
    BY <1>1, FS_CardinalityType DEF UpTo
  <1> QED BY <1>5, <1>6

\* The order of two elements makes no difference to h.
Commutes(A, S, h) ==
    \A a \in A, x \in S, y \in S :
        h[<<h[<<a, x>>], y>>] = h[<<h[<<a, y>>], x>>]

\* If the order makes no difference, any element can be taken out first.
LEMMA FoldAnyFirst ==
  ASSUME NEW S, IsFiniteSet(S), NEW A, NEW base, NEW ch, Chooses(ch, S), NEW h,
         NEW f, IsFoldOf(S, A, ch, base, h, f),
         Commutes(A, S, h)
  PROVE  \A s \in SUBSET S : \A x \in s : f[s] = h[<<f[s \ {x}], x>>]
  <1> DEFINE Good(s) == \A x \in s : f[s] = h[<<f[s \ {x}], x>>]
             Q == {n \in Nat : \A s \in UpTo(S, n) : Good(s)}
  <1>1. \A s \in SUBSET S : f[s] = FoldStep(ch, base, h, f, s) /\ f[s] \in A
    BY DEF IsFoldOf
  <1>2. 0 \in Q
    <2>1. UpTo(S, 0) = {{}}
      BY SubsetsFinite DEF UpTo
    <2> QED BY <2>1
  <1>3. ASSUME NEW n \in Nat, n \in Q PROVE n + 1 \in Q
    <2> SUFFICES ASSUME NEW s \in UpTo(S, n + 1), NEW x \in s
                 PROVE  f[s] = h[<<f[s \ {x}], x>>]
      OBVIOUS
    <2> DEFINE c == ch[s]
               r == (s \ {c}) \ {x}
    <2>1. c \in s /\ s \in SUBSET S
      BY DEF UpTo, Chooses
    <2>2. \A y \in s : s \ {y} \in UpTo(S, n) /\ s \ {y} \in SUBSET S
      BY <2>1, SubsetsFinite DEF UpTo
    <2>3. \A y \in s : Good(s \ {y})
      BY <1>3, <2>2
    <2>4. f[s] = h[<<f[s \ {c}], c>>]
      BY <1>1, <2>1 DEF FoldStep
    <2>5. CASE x = c
      BY <2>4, <2>5
    <2>6. CASE x # c
      <3>1. r = (s \ {x}) \ {c}
        OBVIOUS
      <3>2. f[s \ {c}] = h[<<f[r], x>>]
        BY <2>1, <2>3, <2>6
      <3>3. f[s \ {x}] = h[<<f[r], c>>]
        <4>1. f[s \ {x}] = h[<<f[(s \ {x}) \ {c}], c>>]
          BY <2>1, <2>3, <2>6
        <4> QED BY <3>1, <4>1
      <3>4. f[r] \in A /\ x \in S /\ c \in S
        <4>1. r \in SUBSET S
          BY <2>1
        <4> QED BY <1>1, <2>1, <4>1
      <3> HIDE DEF c, r
      <3> QED BY <2>4, <3>2, <3>3, <3>4 DEF Commutes
    <2> QED BY <2>5, <2>6
  <1>4. Cardinality(S) \in Q
    <2> HIDE DEF Q
    <2>1. Nat \subseteq Q
      BY <1>2, <1>3, SetInduction
    <2> QED BY <2>1, FS_CardinalityType
  <1>5. \A s \in SUBSET S : s \in UpTo(S, Cardinality(S))
    BY SubsetsFinite DEF UpTo
  <1> QED BY <1>4, <1>5

\* The element that the folds of FiniteSetsExt take first.
First(S) == [s \in SUBSET S |-> CHOOSE x \in s : TRUE]

LEMMA FirstChooses ==
  ASSUME NEW S
  PROVE  Chooses(First(S), S)
  BY DEF First, Chooses

-----------------------------------------------------------------------------
(* Sums *)

SumOf(w, S) == MapThenSumSet(LAMBDA x : w[x], S)

SumStep(w, f, s) ==
    IF s = {} THEN 0
    ELSE w[CHOOSE x \in s : TRUE] + f[s \ {CHOOSE x \in s : TRUE}]

IsSum(w, S, f) == f = [s \in SUBSET S |-> SumStep(w, f, s)]

SumFcn(w, S) == CHOOSE f : IsSum(w, S, f)

SumOp(w, S) == [z \in Nat \X S |-> w[z[2]] + z[1]]

\* MapThenSumSet is the fold that adds.
LEMMA SumIsFold ==
  ASSUME NEW S, IsFiniteSet(S), NEW w, \A x \in S : w[x] \in Nat
  PROVE  /\ SumOf(w, S) = SumFcn(w, S)[S]
         /\ IsFoldOf(S, Nat, First(S), 0, SumOp(w, S), SumFcn(w, S))
  <1> DEFINE ch == First(S)
             h == SumOp(w, S)
  <1>1. SumOf(w, S) = SumFcn(w, S)[S]
    BY Zenon DEF SumOf, MapThenSumSet, MapThenFoldSet, SumFcn, IsSum, SumStep
  <1>2. h \in [Nat \X S -> Nat] /\ Chooses(ch, S)
    BY FirstChooses DEF SumOp
  <1>3. \A s \in SUBSET S : s # {} =>
           ch[s] = (CHOOSE x \in s : TRUE) /\ ch[s] \in S
    BY DEF First
  <1>4. \A a \in Nat, x \in S : h[<<a, x>>] = w[x] + a
    BY DEF SumOp
  <1> HIDE DEF ch, h
  <1>5. PICK f : IsFoldOf(S, Nat, ch, 0, h, f)
    BY <1>2, FoldOfExists
  <1>6. IsSum(w, S, f)
    <2>1. ASSUME NEW s \in SUBSET S PROVE f[s] = SumStep(w, f, s)
      <3>1. f[s] = FoldStep(ch, 0, h, f, s) /\ f[s \ {ch[s]}] \in Nat
        BY <1>5 DEF IsFoldOf
      <3> QED BY <1>3, <1>4, <3>1 DEF FoldStep, SumStep
    <2>2. f = [s \in SUBSET S |-> f[s]]
      BY <1>5 DEF IsFoldOf
    <2> QED BY <2>1, <2>2, Zenon DEF IsSum
  <1>7. PICK g : g = SumFcn(w, S) /\ g = [s \in SUBSET S |-> SumStep(w, g, s)]
    BY <1>6, Zenon DEF SumFcn, IsSum
  <1>8. g = [s \in SUBSET S |-> g[s]]
        /\ \A s \in SUBSET S : g[s] = SumStep(w, g, s)
    BY <1>7
  <1>9. \A s \in SUBSET S : s # {} /\ g[s \ {ch[s]}] \in Nat =>
           g[s] = h[<<g[s \ {ch[s]}], ch[s]>>]
    <2> TAKE s \in SUBSET S
    <2> HAVE s # {} /\ g[s \ {ch[s]}] \in Nat
    <2>1. g[s] = w[ch[s]] + g[s \ {ch[s]}]
      BY <1>3, <1>8 DEF SumStep
    <2> QED BY <1>3, <1>4, <2>1
  <1>10. g[{}] = 0
    BY <1>8 DEF SumStep
  <1>11. IsFoldOf(S, Nat, ch, 0, h, g)
    <2>1. g = [s \in SUBSET S |-> g[s]] /\ 0 \in Nat
      BY <1>8
    <2> QED BY <1>2, <1>9, <1>10, <2>1, FoldTyped
  <1> QED BY <1>1, <1>7, <1>11 DEF ch, h

\* A sum of naturals is a natural, and any element can be taken out of it.
LEMMA SumFacts ==
  ASSUME NEW S, IsFiniteSet(S), NEW w, \A x \in S : w[x] \in Nat
  PROVE  /\ SumOf(w, S) \in Nat
         /\ S = {} => SumOf(w, S) = 0
         /\ \A x \in S : SumOf(w, S) = w[x] + SumOf(w, S \ {x})
  <1> DEFINE f == SumFcn(w, S)
             ch == First(S)
             h == SumOp(w, S)
  <1>1. SumOf(w, S) = f[S] /\ IsFoldOf(S, Nat, ch, 0, h, f)
    BY SumIsFold
  <1>2. \A a \in Nat, x \in S : h[<<a, x>>] = w[x] + a /\ w[x] + a \in Nat
    BY DEF SumOp
  <1>3. f[S] \in Nat /\ (S = {} => f[S] = 0)
    BY <1>1 DEF IsFoldOf, FoldStep
  <1>4. ASSUME NEW x \in S PROVE f[S] = w[x] + f[S \ {x}]
    <2> HIDE DEF f, ch, h
    <2>1. Chooses(ch, S)
      BY FirstChooses DEF ch
    <2>2. Commutes(Nat, S, h)
      BY <1>2 DEF Commutes
    <2>3. f[S] = h[<<f[S \ {x}], x>>]
      <3>1. \A s \in SUBSET S : \A y \in s : f[s] = h[<<f[s \ {y}], y>>]
        BY <1>1, <2>1, <2>2, FoldAnyFirst
      <3> QED BY <3>1
    <2>4. f[S \ {x}] \in Nat
      BY <1>1 DEF IsFoldOf
    <2> QED BY <1>2, <2>3, <2>4
  <1>5. ASSUME NEW x \in S PROVE SumOf(w, S \ {x}) = f[S \ {x}]
    <2> DEFINE T == S \ {x}
               g == SumFcn(w, T)
    <2>1. IsFiniteSet(T) /\ T \in SUBSET S
      BY FS_Subset
    <2>2. SumOf(w, T) = g[T]
          /\ IsFoldOf(T, Nat, First(T), 0, SumOp(w, T), g)
      BY <2>1, SumIsFold
    <2>3. \A a \in Nat, y \in T : h[<<a, y>>] = SumOp(w, T)[<<a, y>>]
      BY <1>2, <2>1 DEF SumOp
    <2>4. IsFoldOf(T, Nat, ch, 0, SumOp(w, T), g)
      BY <2>1, <2>2 DEF IsFoldOf, FoldStep, First
    <2> HIDE DEF f, ch, h, g, T
    <2>5. Chooses(ch, S)
      BY FirstChooses DEF ch
    <2>6. f[T] = g[T]
      BY <1>1, <2>1, <2>3, <2>4, <2>5, FoldLocal
    <2> QED BY <2>2, <2>6 DEF T
  <1> QED BY <1>1, <1>3, <1>4, <1>5

\* A family of sets that holds the empty one, and with a set every larger set
\* by one element of S, holds the finite set S.
LEMMA FiniteInduction ==
  ASSUME NEW S, IsFiniteSet(S), NEW Q, {} \in Q,
         \A s \in SUBSET S : \A x \in S \ s : s \in Q => s \cup {x} \in Q
  PROVE  S \in Q
  <1> DEFINE N == {n \in Nat : UpTo(S, n) \subseteq Q}
  <1>1. 0 \in N
    <2>1. UpTo(S, 0) = {{}}
      BY SubsetsFinite DEF UpTo
    <2> QED BY <2>1
  <1>2. ASSUME NEW n \in Nat, n \in N PROVE n + 1 \in N
    <2> SUFFICES ASSUME NEW s \in UpTo(S, n + 1), s # {} PROVE s \in Q
      OBVIOUS
    <2>1. PICK x : x \in s
      OBVIOUS
    <2>2. s \in SUBSET S /\ s \ {x} \in UpTo(S, n)
      BY <2>1, SubsetsFinite DEF UpTo
    <2>3. s \ {x} \in Q
      BY <1>2, <2>2
    <2>4. (s \ {x}) \cup {x} = s /\ x \in S \ (s \ {x})
          /\ s \ {x} \in SUBSET S
      BY <2>1, <2>2
    <2> QED BY <2>3, <2>4
  <1>3. Nat \subseteq N
    <2> HIDE DEF N
    <2> QED BY <1>1, <1>2, SetInduction
  <1>4. S \in UpTo(S, Cardinality(S)) /\ Cardinality(S) \in Nat
    BY FS_CardinalityType DEF UpTo
  <1> QED BY <1>3, <1>4

\* One more element.
LEMMA SumAdd ==
  ASSUME NEW S, IsFiniteSet(S), NEW w, \A x \in S : w[x] \in Nat,
         NEW s \in SUBSET S, NEW x \in S \ s
  PROVE  /\ SumOf(w, s \cup {x}) = w[x] + SumOf(w, s)
         /\ SumOf(w, s) \in Nat /\ w[x] \in Nat
  <1>1. IsFiniteSet(s) /\ IsFiniteSet(s \cup {x})
    BY FS_Subset, FS_AddElement
  <1>2. (s \cup {x}) \ {x} = s /\ x \in s \cup {x}
    OBVIOUS
  <1>3. \A y \in s \cup {x} : w[y] \in Nat
    OBVIOUS
  <1>4. SumOf(w, s \cup {x}) = w[x] + SumOf(w, (s \cup {x}) \ {x})
    BY <1>1, <1>2, <1>3, SumFacts
  <1>5. SumOf(w, s) \in Nat
    BY <1>1, <1>3, SumFacts
  <1> QED BY <1>2, <1>3, <1>4, <1>5

\* The sums over a part and over the rest make up the whole; fewer elements
\* never sum up to more.
LEMMA SumSplit ==
  ASSUME NEW S, IsFiniteSet(S), NEW w, \A x \in S : w[x] \in Nat,
         NEW T \in SUBSET S
  PROVE  /\ SumOf(w, S) \in Nat /\ SumOf(w, T) \in Nat
         /\ SumOf(w, S \ T) \in Nat
         /\ SumOf(w, S) = SumOf(w, T) + SumOf(w, S \ T)
         /\ SumOf(w, T) <= SumOf(w, S)
  <1> DEFINE R == S \ T
             Q == {s \in SUBSET R :
                      SumOf(w, T \cup s) = SumOf(w, T) + SumOf(w, s)}
  <1>1. IsFiniteSet(T) /\ IsFiniteSet(R) /\ IsFiniteSet({})
    BY FS_Subset, FS_EmptySet
  <1>2. SumOf(w, T) \in Nat /\ SumOf(w, R) \in Nat /\ SumOf(w, {}) = 0
        /\ SumOf(w, S) \in Nat
    BY <1>1, SumFacts
  <1>3. {} \in Q
    <2>1. T \cup {} = T
      OBVIOUS
    <2> QED BY <1>2, <2>1
  <1>4. ASSUME NEW s \in SUBSET R, NEW x \in R \ s, s \in Q
        PROVE  s \cup {x} \in Q
    <2>1. /\ SumOf(w, s \cup {x}) = w[x] + SumOf(w, s)
          /\ SumOf(w, s) \in Nat /\ w[x] \in Nat
      <3>1. s \in SUBSET S /\ x \in S \ s
        OBVIOUS
      <3> QED BY <3>1, SumAdd
    <2>2. SumOf(w, (T \cup s) \cup {x}) = w[x] + SumOf(w, T \cup s)
      <3>1. PICK u \in SUBSET S : u = T \cup s /\ x \in S \ u
        OBVIOUS
      <3>2. SumOf(w, u \cup {x}) = w[x] + SumOf(w, u)
        BY <3>1, SumAdd
      <3> QED BY <3>1, <3>2
    <2>3. T \cup (s \cup {x}) = (T \cup s) \cup {x}
      OBVIOUS
    <2>4. SumOf(w, T \cup s) = SumOf(w, T) + SumOf(w, s)
      BY <1>4
    <2>5. SumOf(w, T \cup (s \cup {x})) = SumOf(w, T) + SumOf(w, s \cup {x})
      BY <1>2, <2>1, <2>2, <2>3, <2>4
    <2> QED BY <2>5
  <1>5. R \in Q
    <2> HIDE DEF R, Q
    <2> QED BY <1>1, <1>3, <1>4, FiniteInduction
  <1>6. T \cup R = S
    OBVIOUS
  <1> QED BY <1>2, <1>5, <1>6

\* A sequence of running totals ends with the sum.
LEMMA RunningSum ==
  ASSUME NEW n \in Nat, NEW w, \A j \in 1 .. n : w[j] \in Nat,
         NEW f, f[0] = 0, \A j \in 1 .. n : f[j] = f[j - 1] + w[j]
  PROVE  \A j \in 0 .. n : f[j] = SumOf(w, 1 .. j)
  <1> DEFINE Q == {j \in Nat : j <= n => f[j] = SumOf(w, 1 .. j)}
  <1>1. 0 \in Q
    <2>1. IsFiniteSet({}) /\ 1 .. 0 = {}
      BY FS_EmptySet
    <2>2. SumOf(w, {}) = 0
      BY <2>1, SumFacts
    <2> QED BY <2>1, <2>2
  <1>2. ASSUME NEW j \in Nat, j \in Q PROVE j + 1 \in Q
    <2> SUFFICES ASSUME j + 1 <= n PROVE f[j + 1] = SumOf(w, 1 .. j + 1)
      OBVIOUS
    <2>1. f[j] = SumOf(w, 1 .. j)
      BY <1>2
    <2>2. f[j + 1] = f[j] + w[j + 1]
      <3>1. j + 1 \in 1 .. n /\ (j + 1) - 1 = j
        OBVIOUS
      <3> QED BY <3>1
    <2>3. SumOf(w, 1 .. j + 1) = w[j + 1] + SumOf(w, 1 .. j)
          /\ w[j + 1] \in Nat /\ SumOf(w, 1 .. j) \in Nat
      <3>1. IsFiniteSet(1 .. n)
        BY FS_Interval
      <3>2. 1 .. j \in SUBSET (1 .. n) /\ j + 1 \in (1 .. n) \ (1 .. j)
        OBVIOUS
      <3>3. (1 .. j) \cup {j + 1} = 1 .. j + 1
        OBVIOUS
      <3>4. /\ SumOf(w, (1 .. j) \cup {j + 1}) = w[j + 1] + SumOf(w, 1 .. j)
            /\ SumOf(w, 1 .. j) \in Nat /\ w[j + 1] \in Nat
        BY <3>1, <3>2, SumAdd
      <3> QED BY <3>3, <3>4
    <2> QED BY <2>1, <2>2, <2>3
  <1>3. Nat \subseteq Q
    <2> HIDE DEF Q
    <2> QED BY <1>1, <1>2, SetInduction
  <1> QED BY <1>3

\* A remainder is below the modulus and not above the number; below the modulus
\* it is the number.
LEMMA ModBound ==
  ASSUME NEW m \in Nat \ {0}, NEW n \in Nat
  PROVE  /\ n % m \in 0 .. m - 1
         /\ n % m <= n
         /\ n < m => n % m = n
  <1>1. n % m \in 0 .. m - 1
    OBVIOUS
  <1>2. n = (m * (n \div m)) + (n % m) /\ n \div m \in Nat
    OBVIOUS
  <1>3. m * (n \div m) \in Nat
    BY <1>2
  <1>4. n < m => n % m = n
    OBVIOUS
  <1> QED BY <1>1, <1>2, <1>3, <1>4

-----------------------------------------------------------------------------
(* FoldLeft: a fold over positions that takes the last one off first. *)

LEMMA LastPosition ==
  ASSUME NEW n \in Nat
  PROVE  /\ \A s \in SUBSET (1 .. n) : s # {} => Max(s) \in s
         /\ \A i \in 1 .. n : Max(1 .. i) = i /\ (1 .. i) \ {i} = 1 .. i - 1
  <1>1. ASSUME NEW s \in SUBSET (1 .. n), s # {} PROVE Max(s) \in s
    <2> DEFINE Q == {k \in Nat : (\E x \in s : x <= k) =>
                        \E x \in s : x <= k /\ \A y \in s : y <= k => y <= x}
    <2>1. 0 \in Q
      OBVIOUS
    <2>2. ASSUME NEW k \in Nat, k \in Q PROVE k + 1 \in Q
      <3>1. CASE k + 1 \in s
        BY <3>1
      <3>2. CASE k + 1 \notin s
        BY <2>2, <3>2
      <3> QED BY <3>1, <3>2
    <2>3. n \in Q
      <3> HIDE DEF Q
      <3>1. Nat \subseteq Q
        BY <2>1, <2>2, SetInduction
      <3> QED BY <3>1
    <2>4. \E x \in s : \A y \in s : x >= y
      <3>1. \A y \in s : y \in Nat /\ y <= n
        OBVIOUS
      <3>2. \E x \in s : x <= n /\ \A y \in s : y <= n => y <= x
        BY <1>1, <2>3, <3>1
      <3> QED BY <3>1, <3>2
    <2> QED BY <2>4 DEF Max
  <1>2. ASSUME NEW i \in 1 .. n
        PROVE  Max(1 .. i) = i /\ (1 .. i) \ {i} = 1 .. i - 1
    <2>1. i \in 1 .. i /\ \A y \in 1 .. i : i >= y
      OBVIOUS
    <2>2. Max(1 .. i) \in 1 .. i /\ \A y \in 1 .. i : Max(1 .. i) >= y
      BY <2>1 DEF Max
    <2>3. Max(1 .. i) = i
      BY <2>1, <2>2
    <2> QED BY <2>3
  <1> QED BY <1>1, <1>2

\* One step of a fold: h takes the value so far and the next position.
LeftStep(h, base, f, s) ==
    IF s = {} THEN base ELSE h[<<f[s \ {Max(s)}], Max(s)>>]

IsFold(n, A, base, h, f) ==
    /\ f \in [SUBSET (1 .. n) -> A]
    /\ \A s \in SUBSET (1 .. n) : f[s] = LeftStep(h, base, f, s)

\* The recursion of FoldLeft defines a function.
LEMMA FoldExists ==
  ASSUME NEW n \in Nat, NEW A, NEW base \in A, NEW h \in [A \X (1 .. n) -> A]
  PROVE  \E f : IsFold(n, A, base, h, f)
  <1> DEFINE S == 1 .. n
             ch == [s \in SUBSET S |-> Max(s)]
  <1>1. IsFiniteSet(S)
    BY FS_Interval
  <1>2. Chooses(ch, S)
    BY LastPosition DEF Chooses
  <1>3. \A s \in SUBSET S : ch[s] = Max(s)
    OBVIOUS
  <1> HIDE DEF S, ch
  <1>4. PICK f : IsFoldOf(S, A, ch, base, h, f)
    <2>1. h \in [A \X S -> A]
      BY DEF S
    <2> QED BY <1>1, <1>2, <2>1, FoldOfExists
  <1>5. ASSUME NEW s \in SUBSET S PROVE f[s] = LeftStep(h, base, f, s)
    <2>1. f[s] = FoldStep(ch, base, h, f, s)
      BY <1>4 DEF IsFoldOf
    <2> QED BY <1>3, <2>1 DEF FoldStep, LeftStep
  <1>6. IsFold(n, A, base, h, f)
    BY <1>4, <1>5 DEF IsFoldOf, IsFold, S
  <1> QED BY <1>6

-----------------------------------------------------------------------------
(* FoldRight: a fold over positions that takes the first one off first. *)

LEMMA FirstPosition ==
  ASSUME NEW n \in Nat
  PROVE  /\ \A s \in SUBSET (1 .. n) : s # {} => Min(s) \in s
         /\ \A i \in 1 .. n : Min(i .. n) = i /\ (i .. n) \ {i} = i + 1 .. n
  <1>1. ASSUME NEW s \in SUBSET (1 .. n), s # {} PROVE Min(s) \in s
    <2>1. PICK x \in s : \A y \in s : ~(<<y, x>> \in OpToRel(<, Nat))
      <3>1. s \subseteq Nat
        OBVIOUS
      <3> QED BY <1>1, <3>1, WFMin, NatLessThanWellFounded
    <2>2. \A y \in s : x <= y
      <3> TAKE y \in s
      <3>1. x \in Nat /\ y \in Nat
        OBVIOUS
      <3>2. y < x => <<y, x>> \in OpToRel(<, Nat)
        BY <3>1 DEF OpToRel
      <3>3. ~(y < x)
        BY <2>1, <3>2
      <3> QED BY <3>1, <3>3
    <2> QED BY <2>2 DEF Min
  <1>2. ASSUME NEW i \in 1 .. n
        PROVE  Min(i .. n) = i /\ (i .. n) \ {i} = i + 1 .. n
    <2>1. i \in i .. n /\ \A y \in i .. n : i <= y
      OBVIOUS
    <2>2. Min(i .. n) \in i .. n /\ \A y \in i .. n : Min(i .. n) <= y
      BY <2>1 DEF Min
    <2>3. Min(i .. n) = i
      BY <2>1, <2>2
    <2> QED BY <2>3
  <1> QED BY <1>1, <1>2
=============================================================================
