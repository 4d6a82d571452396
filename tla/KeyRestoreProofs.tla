-------------------------- MODULE KeyRestoreProofs --------------------------
(***************************************************************************)
(* What KEY_DATA_PROVIDER_RESTORE recovers, for any backups, owners,       *)
(* thresholds, metadata and messages.  The handler folds over sequences:   *)
(* the messages, the splits of a message, the splits of a group and their  *)
(* points.  Each fold is unrolled into its steps, and an induction over    *)
(* the steps gives what it collects.  From there the handler's outcome is  *)
(* a matter of how many shares the good messages hold.                     *)
(***************************************************************************)
EXTENDS KeyRestore, SequenceTheorems, FoldTheorems

\* What processKeySplitMessages carries from split to split.
Lists(X) == [splits : Seq(X), errors : Seq(Nat)]

-----------------------------------------------------------------------------
(* The folds, one step after the other. *)

LEMMA AddSplitTyped ==
  ASSUME NEW X, NEW a \in Lists(X), NEW i \in Nat, NEW s \in X
  PROVE  addSplit(a, i, s) \in Lists(X)
  <1>1. /\ a = [splits |-> a.splits, errors |-> a.errors]
        /\ a.splits \in Seq(X) /\ a.errors \in Seq(Nat)
    BY DEF Lists
  <1>2. /\ Append(a.splits, s) \in Seq(X)
        /\ Append(a.errors, i) \in Seq(Nat)
    BY <1>1
  <1>3. /\ [a EXCEPT !.errors = Append(@, i)] \in Lists(X)
        /\ [a EXCEPT !.splits = Append(@, s)] \in Lists(X)
    BY <1>1, <1>2 DEF Lists
  <1> QED BY <1>3, Zenon DEF addSplit

\* addSplits takes the splits of a message one by one.
LEMMA AddSplitsSteps ==
  ASSUME NEW X, NEW splits \in Seq(X), NEW i \in Nat, NEW acc \in Lists(X)
  PROVE  \E f : /\ f[0] = acc
                /\ \A n \in 1 .. Len(splits) :
                      f[n] = addSplit(f[n - 1], i, splits[n])
                /\ addSplits(acc, i, splits) = f[Len(splits)]
  <1> DEFINE N == Len(splits)
             A == Lists(X)
             h == [z \in A \X (1 .. N) |-> addSplit(z[1], i, splits[z[2]])]
             Is(f) == f = [s \in SUBSET (1 .. N) |->
                             IF s = {} THEN acc
                             ELSE addSplit(f[s \ {Max(s)}], i, splits[Max(s)])]
             it == CHOOSE f : Is(f)
  <1>1. N \in Nat /\ DOMAIN splits = 1 .. N
    OBVIOUS
  <1>2. addSplits(acc, i, splits) = it[1 .. N]
    BY <1>1, Zenon DEF addSplits, FoldLeft, MapThenFoldSet
  <1>3. h \in [A \X (1 .. N) -> A]
    <2>1. ASSUME NEW a \in A, NEW n \in 1 .. N
          PROVE  addSplit(a, i, splits[n]) \in A
      BY AddSplitTyped
    <2>2. ASSUME NEW z \in A \X (1 .. N) PROVE h[z] \in A
      <3>1. z[1] \in A /\ z[2] \in 1 .. N
        OBVIOUS
      <3> HIDE DEF A
      <3> QED BY <2>1, <3>1
    <2> HIDE DEF A
    <2> QED BY <2>2
  <1>4. PICK f : IsFold(N, A, acc, h, f)
    <2>1. acc \in A
      BY SMT
    <2> HIDE DEF h, N, A
    <2> QED BY <1>1, <1>3, <2>1, FoldExists
  <1>5. /\ f \in [SUBSET (1 .. N) -> A]
        /\ \A s \in SUBSET (1 .. N) : f[s] = LeftStep(h, acc, f, s)
    BY <1>4, Zenon DEF IsFold
  <1>6. Is(f)
    <2>1. ASSUME NEW s \in SUBSET (1 .. N)
          PROVE  f[s] = IF s = {} THEN acc
                        ELSE addSplit(f[s \ {Max(s)}], i, splits[Max(s)])
      <3>1. CASE s = {}
        BY <1>5, <3>1 DEF LeftStep
      <3>2. CASE s # {}
        <4>1. Max(s) \in 1 .. N /\ f[s \ {Max(s)}] \in A
          BY <1>1, <1>5, <3>2, LastPosition
        <4>2. f[s] = h[<<f[s \ {Max(s)}], Max(s)>>]
          BY <1>5, <3>2 DEF LeftStep
        <4> HIDE DEF A
        <4> QED BY <3>2, <4>1, <4>2
      <3> QED BY <3>1, <3>2
    <2>2. f = [s \in SUBSET (1 .. N) |-> f[s]]
      BY <1>5
    <2> QED BY <2>1, <2>2, Zenon
  <1>7. Is(it)
    <2> HIDE DEF Is
    <2> QED BY <1>6, Zenon
  <1>8. \A s \in SUBSET (1 .. N) :
           it[s] = IF s = {} THEN acc
                   ELSE addSplit(it[s \ {Max(s)}], i, splits[Max(s)])
    <2> HIDE DEF it
    <2> QED BY <1>7
  <1> DEFINE g == [n \in 0 .. N |-> it[1 .. n]]
  <1> HIDE DEF it, N
  <1>9. g[0] = acc /\ g[N] = it[1 .. N]
    <2>1. 1 .. 0 = {} /\ 0 \in 0 .. N /\ N \in 0 .. N
      BY <1>1
    <2>2. it[{}] = acc
      BY <1>8
    <2> QED BY <2>1, <2>2
  <1>10. ASSUME NEW n \in 1 .. N
         PROVE  g[n] = addSplit(g[n - 1], i, splits[n])
    <2>1. Max(1 .. n) = n /\ (1 .. n) \ {n} = 1 .. n - 1
      BY <1>1, LastPosition
    <2>2. /\ 1 .. n \in SUBSET (1 .. N) /\ n \in 1 .. n
          /\ n \in 0 .. N /\ n - 1 \in 0 .. N
      BY <1>1
    <2> QED BY <1>8, <2>1, <2>2
  <1> QED BY <1>2, <1>9, <1>10 DEF N

\* OfGroup takes the splits one by one.
LEMMA OfGroupSteps ==
  ASSUME NEW X, NEW splits \in Seq(X), NEW g0
  PROVE  \E f : /\ f[0] = << >>
                /\ \A n \in 1 .. Len(splits) :
                      f[n] = addIfOf(g0, f[n - 1], splits[n])
                /\ OfGroup(splits, g0) = f[Len(splits)]
  <1> DEFINE N == Len(splits)
             A == Seq(X)
             h == [z \in A \X (1 .. N) |-> addIfOf(g0, z[1], splits[z[2]])]
             Is(f) == f = [s \in SUBSET (1 .. N) |->
                             IF s = {} THEN << >>
                             ELSE addIfOf(g0, f[s \ {Max(s)}], splits[Max(s)])]
             it == CHOOSE f : Is(f)
  <1>1. N \in Nat /\ DOMAIN splits = 1 .. N
    OBVIOUS
  <1>2. OfGroup(splits, g0) = it[1 .. N]
    BY <1>1, Zenon DEF OfGroup, FoldLeft, MapThenFoldSet
  <1>3. h \in [A \X (1 .. N) -> A]
    <2>1. ASSUME NEW a \in A, NEW n \in 1 .. N
          PROVE  addIfOf(g0, a, splits[n]) \in A
      BY DEF addIfOf
    <2>2. ASSUME NEW z \in A \X (1 .. N) PROVE h[z] \in A
      <3>1. z[1] \in A /\ z[2] \in 1 .. N
        OBVIOUS
      <3> HIDE DEF A
      <3> QED BY <2>1, <3>1
    <2> HIDE DEF A
    <2> QED BY <2>2
  <1>4. PICK f : IsFold(N, A, << >>, h, f)
    <2>1. << >> \in A
      BY SMT
    <2> HIDE DEF h, N, A
    <2> QED BY <1>1, <1>3, <2>1, FoldExists
  <1>5. /\ f \in [SUBSET (1 .. N) -> A]
        /\ \A s \in SUBSET (1 .. N) : f[s] = LeftStep(h, << >>, f, s)
    BY <1>4, Zenon DEF IsFold
  <1>6. Is(f)
    <2>1. ASSUME NEW s \in SUBSET (1 .. N)
          PROVE  f[s] = IF s = {} THEN << >>
                        ELSE addIfOf(g0, f[s \ {Max(s)}], splits[Max(s)])
      <3>1. CASE s = {}
        BY <1>5, <3>1 DEF LeftStep
      <3>2. CASE s # {}
        <4>1. Max(s) \in 1 .. N /\ f[s \ {Max(s)}] \in A
          BY <1>1, <1>5, <3>2, LastPosition
        <4>2. f[s] = h[<<f[s \ {Max(s)}], Max(s)>>]
          BY <1>5, <3>2 DEF LeftStep
        <4> HIDE DEF A
        <4> QED BY <3>2, <4>1, <4>2
      <3> QED BY <3>1, <3>2
    <2>2. f = [s \in SUBSET (1 .. N) |-> f[s]]
      BY <1>5
    <2> QED BY <2>1, <2>2, Zenon
  <1>7. Is(it)
    <2> HIDE DEF Is
    <2> QED BY <1>6, Zenon
  <1>8. \A s \in SUBSET (1 .. N) :
           it[s] = IF s = {} THEN << >>
                   ELSE addIfOf(g0, it[s \ {Max(s)}], splits[Max(s)])
    <2> HIDE DEF it
    <2> QED BY <1>7
  <1> DEFINE g == [n \in 0 .. N |-> it[1 .. n]]
  <1> HIDE DEF it, N
  <1>9. g[0] = << >> /\ g[N] = it[1 .. N]
    <2>1. 1 .. 0 = {} /\ 0 \in 0 .. N /\ N \in 0 .. N
      BY <1>1
    <2>2. it[{}] = << >>
      BY <1>8
    <2> QED BY <2>1, <2>2
  <1>10. ASSUME NEW n \in 1 .. N
         PROVE  g[n] = addIfOf(g0, g[n - 1], splits[n])
    <2>1. Max(1 .. n) = n /\ (1 .. n) \ {n} = 1 .. n - 1
      BY <1>1, LastPosition
    <2>2. /\ 1 .. n \in SUBSET (1 .. N) /\ n \in 1 .. n
          /\ n \in 0 .. N /\ n - 1 \in 0 .. N
      BY <1>1
    <2> QED BY <1>8, <2>1, <2>2
  <1> QED BY <1>2, <1>9, <1>10 DEF N

\* AllPoints takes the splits one by one.
LEMMA AllPointsSteps ==
  ASSUME NEW P, NEW splits, NEW X, splits \in Seq(X),
         \A s \in X : Points(s) \in Seq(P)
  PROVE  \E f : /\ f[0] = << >>
                /\ \A n \in 1 .. Len(splits) :
                      f[n] = addPoints(f[n - 1], splits[n])
                /\ AllPoints(splits) = f[Len(splits)]
  <1> DEFINE N == Len(splits)
             A == Seq(P)
             h == [z \in A \X (1 .. N) |-> addPoints(z[1], splits[z[2]])]
             Is(f) == f = [s \in SUBSET (1 .. N) |->
                             IF s = {} THEN << >>
                             ELSE addPoints(f[s \ {Max(s)}], splits[Max(s)])]
             it == CHOOSE f : Is(f)
  <1>1. N \in Nat /\ DOMAIN splits = 1 .. N
    OBVIOUS
  <1>2. AllPoints(splits) = it[1 .. N]
    BY <1>1, Zenon DEF AllPoints, FoldLeft, MapThenFoldSet
  <1>3. h \in [A \X (1 .. N) -> A]
    <2>1. ASSUME NEW a \in A, NEW n \in 1 .. N
          PROVE  addPoints(a, splits[n]) \in A
      BY DEF addPoints
    <2>2. ASSUME NEW z \in A \X (1 .. N) PROVE h[z] \in A
      <3>1. z[1] \in A /\ z[2] \in 1 .. N
        OBVIOUS
      <3> HIDE DEF A
      <3> QED BY <2>1, <3>1
    <2> HIDE DEF A
    <2> QED BY <2>2
  <1>4. PICK f : IsFold(N, A, << >>, h, f)
    <2>1. << >> \in A
      BY SMT
    <2> HIDE DEF h, N, A
    <2> QED BY <1>1, <1>3, <2>1, FoldExists
  <1>5. /\ f \in [SUBSET (1 .. N) -> A]
        /\ \A s \in SUBSET (1 .. N) : f[s] = LeftStep(h, << >>, f, s)
    BY <1>4, Zenon DEF IsFold
  <1>6. Is(f)
    <2>1. ASSUME NEW s \in SUBSET (1 .. N)
          PROVE  f[s] = IF s = {} THEN << >>
                        ELSE addPoints(f[s \ {Max(s)}], splits[Max(s)])
      <3>1. CASE s = {}
        BY <1>5, <3>1 DEF LeftStep
      <3>2. CASE s # {}
        <4>1. Max(s) \in 1 .. N /\ f[s \ {Max(s)}] \in A
          BY <1>1, <1>5, <3>2, LastPosition
        <4>2. f[s] = h[<<f[s \ {Max(s)}], Max(s)>>]
          BY <1>5, <3>2 DEF LeftStep
        <4> HIDE DEF A
        <4> QED BY <3>2, <4>1, <4>2
      <3> QED BY <3>1, <3>2
    <2>2. f = [s \in SUBSET (1 .. N) |-> f[s]]
      BY <1>5
    <2> QED BY <2>1, <2>2, Zenon
  <1>7. Is(it)
    <2> HIDE DEF Is
    <2> QED BY <1>6, Zenon
  <1>8. \A s \in SUBSET (1 .. N) :
           it[s] = IF s = {} THEN << >>
                   ELSE addPoints(it[s \ {Max(s)}], splits[Max(s)])
    <2> HIDE DEF it
    <2> QED BY <1>7
  <1> DEFINE g == [n \in 0 .. N |-> it[1 .. n]]
  <1> HIDE DEF it, N
  <1>9. g[0] = << >> /\ g[N] = it[1 .. N]
    <2>1. 1 .. 0 = {} /\ 0 \in 0 .. N /\ N \in 0 .. N
      BY <1>1
    <2>2. it[{}] = << >>
      BY <1>8
    <2> QED BY <2>1, <2>2
  <1>10. ASSUME NEW n \in 1 .. N
         PROVE  g[n] = addPoints(g[n - 1], splits[n])
    <2>1. Max(1 .. n) = n /\ (1 .. n) \ {n} = 1 .. n - 1
      BY <1>1, LastPosition
    <2>2. /\ 1 .. n \in SUBSET (1 .. N) /\ n \in 1 .. n
          /\ n \in 0 .. N /\ n - 1 \in 0 .. N
      BY <1>1
    <2> QED BY <1>8, <2>1, <2>2
  <1> QED BY <1>2, <1>9, <1>10 DEF N

-----------------------------------------------------------------------------
(* Splits the wallet key signed. *)

\* A split of Splits is one that BackupWallet made.
LEMMA SplitShape ==
  ASSUME NEW s \in Splits
  PROVE  /\ s.id \in Backups /\ s.group \in Groups
         /\ s.owner \in DOMAIN Issued(s.group)
         /\ s.shares = Issued(s.group)[s.owner]
         /\ s.signed
         /\ s = KeySplit(s.id, s.group, s.owner)
  <1>0. PICK g \in Groups :
           s \in {KeySplit(id, g, o) : id \in Backups, o \in DOMAIN Issued(g)}
    BY DEF Splits
  <1>1. PICK id \in Backups, o \in DOMAIN Issued(g) : s = KeySplit(id, g, o)
    BY <1>0
  <1>2. s.id = id /\ s.group = g /\ s.owner = o /\ s.shares = Issued(g)[o]
        /\ s.signed
    BY <1>1 DEF KeySplit
  <1> QED BY <1>1, <1>2

\* The hash for signing tells them apart.
LEMMA HashTellsApart ==
  ASSUME NEW s \in Splits, NEW t \in Splits
  PROVE  HashForSigning(s) = HashForSigning(t) <=> s = t
  <1>1. ASSUME HashForSigning(s) = HashForSigning(t) PROVE s = t
    <2>1. s.id = t.id /\ s.group = t.group /\ s.owner = t.owner
      BY <1>1 DEF HashForSigning
    <2> QED BY <2>1, SplitShape
  <1> QED BY <1>1

LEMMA DuplicateIffThere ==
  ASSUME NEW a \in Lists(Splits), NEW s \in Splits
  PROVE  isDuplicate(a, s) <=> s \in Range(a.splits)
  <1>1. \A n \in DOMAIN a.splits : a.splits[n] \in Splits
    BY DEF Lists
  <1>2. \A n \in DOMAIN a.splits :
           HashForSigning(a.splits[n]) = HashForSigning(s) <=> a.splits[n] = s
    BY <1>1, HashTellsApart
  <1> QED BY <1>2, Zenon DEF isDuplicate, Range

\* What appending adds.
LEMMA AppendRange ==
  ASSUME NEW X, NEW q \in Seq(X), NEW x \in X
  PROVE  /\ Append(q, x) \in Seq(X)
         /\ Range(Append(q, x)) = Range(q) \cup {x}
         /\ IsInjective(q) /\ x \notin Range(q) => IsInjective(Append(q, x))
  <1>1. /\ Append(q, x) \in Seq(X)
        /\ DOMAIN Append(q, x) = 1 .. Len(q) + 1
        /\ DOMAIN q = 1 .. Len(q) /\ Len(q) \in Nat
        /\ Append(q, x)[Len(q) + 1] = x
        /\ \A n \in 1 .. Len(q) : Append(q, x)[n] = q[n]
    OBVIOUS
  <1>2. Range(Append(q, x)) = Range(q) \cup {x}
    <2>1. ASSUME NEW y \in Range(Append(q, x)) PROVE y \in Range(q) \cup {x}
      <3>1. PICK n \in 1 .. Len(q) + 1 : y = Append(q, x)[n]
        BY <1>1 DEF Range
      <3>2. n \in 1 .. Len(q) \/ n = Len(q) + 1
        BY <1>1
      <3> QED BY <1>1, <3>1, <3>2 DEF Range
    <2>2. ASSUME NEW y \in Range(q) \cup {x} PROVE y \in Range(Append(q, x))
      <3>1. Len(q) + 1 \in 1 .. Len(q) + 1
            /\ 1 .. Len(q) \subseteq 1 .. Len(q) + 1
        BY <1>1
      <3> QED BY <1>1, <3>1 DEF Range
    <2> QED BY <2>1, <2>2
  <1>3. ASSUME IsInjective(q), x \notin Range(q)
        PROVE  IsInjective(Append(q, x))
    <2>1. \A n \in 1 .. Len(q) : q[n] # x
      BY <1>1, <1>3 DEF Range
    <2>2. \A n, k \in 1 .. Len(q) : q[n] = q[k] => n = k
      BY <1>1, <1>3 DEF IsInjective
    <2>3. \A n \in 1 .. Len(q) + 1 : n \in 1 .. Len(q) \/ n = Len(q) + 1
      BY <1>1
    <2> QED BY <1>1, <2>1, <2>2, <2>3, Zenon DEF IsInjective
  <1> QED BY <1>1, <1>2, <1>3

-----------------------------------------------------------------------------
(* processKeySplitMessages *)

\* r is a with the splits of S added, each once; position i is reported if
\* one was there, and maybe otherwise, and no other is.
Adds(a, i, S, r) ==
    /\ r \in Lists(Splits) /\ IsInjective(r.splits)
    /\ Range(r.splits) = Range(a.splits) \cup S
    /\ Range(a.errors) \subseteq Range(r.errors)
    /\ Range(r.errors) \subseteq Range(a.errors) \cup {i}
    /\ i \notin Range(r.errors) => S \cap Range(a.splits) = {}

LEMMA AddSplitFacts ==
  ASSUME NEW a \in Lists(Splits), IsInjective(a.splits), NEW i \in Nat,
         NEW s \in Splits
  PROVE  Adds(a, i, {s}, addSplit(a, i, s))
  <1> DEFINE r == addSplit(a, i, s)
  <1>0. /\ a = [splits |-> a.splits, errors |-> a.errors]
        /\ a.splits \in Seq(Splits) /\ a.errors \in Seq(Nat)
    BY DEF Lists
  <1>1. r \in Lists(Splits)
    BY AddSplitTyped
  <1>2. CASE s \in Range(a.splits)
    <2>1. r = [a EXCEPT !.errors = Append(@, i)]
      BY <1>2, DuplicateIffThere DEF addSplit
    <2>2. r.splits = a.splits /\ r.errors = Append(a.errors, i)
      BY <1>0, <2>1
    <2>3. Range(r.errors) = Range(a.errors) \cup {i}
      BY <1>0, <2>2, AppendRange
    <2> HIDE DEF r
    <2>4. Adds(a, i, {s}, r)
      BY <1>1, <1>2, <2>2, <2>3 DEF Adds
    <2> QED BY <2>4 DEF r
  <1>3. CASE s \notin Range(a.splits)
    <2>1. r = [a EXCEPT !.splits = Append(@, s)]
      BY <1>3, DuplicateIffThere DEF addSplit
    <2>2. r.errors = a.errors /\ r.splits = Append(a.splits, s)
      BY <1>0, <2>1
    <2>3. Range(r.splits) = Range(a.splits) \cup {s} /\ IsInjective(r.splits)
      BY <1>0, <1>3, <2>2, AppendRange
    <2> HIDE DEF r
    <2>4. Adds(a, i, {s}, r)
      BY <1>1, <1>3, <2>2, <2>3 DEF Adds
    <2> QED BY <2>4 DEF r
  <1> QED BY <1>2, <1>3

\* The splits of one message: they are all collected, once; an unreported
\* message brought none that was there.
LEMMA AddSplitsFacts ==
  ASSUME NEW acc \in Lists(Splits), IsInjective(acc.splits), NEW i \in Nat,
         NEW splits \in Seq(Splits)
  PROVE  Adds(acc, i, Range(splits), addSplits(acc, i, splits))
  <1>1. PICK f : /\ f[0] = acc
                 /\ \A n \in 1 .. Len(splits) :
                       f[n] = addSplit(f[n - 1], i, splits[n])
                 /\ addSplits(acc, i, splits) = f[Len(splits)]
    BY AddSplitsSteps
  <1> DEFINE Upto(n) == {splits[k] : k \in 1 .. n}
             Q == {n \in Nat : n <= Len(splits) => Adds(acc, i, Upto(n), f[n])}
  <1>2. 0 \in Q
    <2>1. Upto(0) = {}
      OBVIOUS
    <2>2. Adds(acc, i, {}, acc)
      BY DEF Adds
    <2> QED BY <1>1, <2>1, <2>2, Zenon
  <1>3. ASSUME NEW n \in Nat, n \in Q PROVE n + 1 \in Q
    <2> SUFFICES ASSUME n + 1 <= Len(splits)
                 PROVE  Adds(acc, i, Upto(n + 1), f[n + 1])
      OBVIOUS
    <2>1. Adds(acc, i, Upto(n), f[n])
      BY <1>3
    <2>2. n + 1 \in 1 .. Len(splits) /\ (n + 1) - 1 = n
          /\ splits[n + 1] \in Splits
      OBVIOUS
    <2>3. f[n + 1] = addSplit(f[n], i, splits[n + 1])
      BY <1>1, <2>2
    <2>4. Upto(n + 1) = Upto(n) \cup {splits[n + 1]}
      <3>1. 1 .. n + 1 = (1 .. n) \cup {n + 1}
        OBVIOUS
      <3> QED BY <3>1
    <2>5. Adds(f[n], i, {splits[n + 1]}, f[n + 1])
      <3>1. f[n] \in Lists(Splits) /\ IsInjective(f[n].splits)
        BY <2>1 DEF Adds
      <3> QED BY <2>2, <2>3, <3>1, AddSplitFacts
    <2> HIDE DEF Upto
    <2> QED BY <2>1, <2>4, <2>5 DEF Adds
  <1>4. Adds(acc, i, Upto(Len(splits)), f[Len(splits)])
    <2>1. Nat \subseteq Q
      <3> HIDE DEF Q
      <3> QED BY <1>2, <1>3, SetInduction
    <2>2. Len(splits) \in Nat
      OBVIOUS
    <2>3. Len(splits) \in Q
      BY <2>1, <2>2
    <2> HIDE DEF Upto
    <2> QED BY <2>2, <2>3
  <1>5. Upto(Len(splits)) = Range(splits)
    BY DEF Range
  <1> HIDE DEF Upto
  <1> QED BY <1>1, <1>4, <1>5

\* A message that processKeySplitMessages takes the splits of.
Good(m, id) == m.readable /\ processKeySplitPlaintext(m, id)

\* All its splits are of the backup, and signed: BackupWallet made them.
LEMMA GoodMessage ==
  ASSUME NEW m \in Messages, NEW id
  PROVE  /\ Good(m, id) => m.splits \in Seq(Splits)
         /\ Good(m, id) <=>
               /\ m.readable /\ Len(m.splits) \in {1, 2}
               /\ \A n \in DOMAIN m.splits :
                     m.splits[n] \in Splits /\ m.splits[n].id = id
  <1>1. m.splits \in Seq(AllBrought)
    BY RestoreAssumption
  <1>2. \A n \in DOMAIN m.splits :
           m.splits[n].signed <=> m.splits[n] \in Splits
    <2> SUFFICES ASSUME NEW n \in DOMAIN m.splits
                 PROVE  m.splits[n].signed <=> m.splits[n] \in Splits
      OBVIOUS
    <2>1. m.splits[n] \in AllBrought
      BY <1>1
    <2>2. m.splits[n].signed \in BOOLEAN
          /\ (m.splits[n].signed => m.splits[n] \in Splits)
      BY <2>1, RestoreAssumption
    <2> QED BY <2>2, SplitShape
  <1>3. Len(m.splits) \in 1 .. 2 <=> Len(m.splits) \in {1, 2}
    BY <1>1
  <1>4. /\ Good(m, id) <=>
              /\ m.readable /\ Len(m.splits) \in {1, 2}
              /\ \A n \in DOMAIN m.splits :
                    m.splits[n] \in Splits /\ m.splits[n].id = id
    BY <1>2, <1>3 DEF Good, processKeySplitPlaintext, matchesID,
                      maxKeySplitsPerMessage
  <1>5. (\A n \in DOMAIN m.splits : m.splits[n] \in Splits) =>
           m.splits \in Seq(Splits)
    BY <1>1
  <1> QED BY <1>4, <1>5

LEMMA AddErrorFacts ==
  ASSUME NEW a \in Lists(Splits), NEW i \in Nat,
         NEW r, r = [a EXCEPT !.errors = Append(@, i)]
  PROVE  /\ r \in Lists(Splits) /\ r.splits = a.splits
         /\ Range(r.errors) = Range(a.errors) \cup {i}
  <1>1. /\ a = [splits |-> a.splits, errors |-> a.errors]
        /\ a.splits \in Seq(Splits) /\ a.errors \in Seq(Nat)
    BY DEF Lists
  <1>2. r = [splits |-> a.splits, errors |-> Append(a.errors, i)]
    BY <1>1
  <1>3. Append(a.errors, i) \in Seq(Nat)
        /\ Range(Append(a.errors, i)) = Range(a.errors) \cup {i}
    BY <1>1, AppendRange
  <1> QED BY <1>1, <1>2, <1>3 DEF Lists

LEMMA AddMessageTyped ==
  ASSUME NEW a \in Lists(Splits), NEW i \in Nat, NEW m \in Messages, NEW id
  PROVE  addMessage(a, i, m, id) \in Lists(Splits)
  <1>1. CASE Good(m, id)
    <2>1. m.splits \in Seq(Splits)
      BY <1>1, GoodMessage
    <2>2. PICK f : /\ f[0] = a
                   /\ \A n \in 1 .. Len(m.splits) :
                         f[n] = addSplit(f[n - 1], i, m.splits[n])
                   /\ addSplits(a, i, m.splits) = f[Len(m.splits)]
      BY <2>1, AddSplitsSteps
    <2> DEFINE N == Len(m.splits)
               Q == {n \in Nat : n <= N => f[n] \in Lists(Splits)}
    <2>3. N \in Nat
      BY <2>1
    <2>4. 0 \in Q
      BY <2>2
    <2>5. ASSUME NEW n \in Nat, n \in Q PROVE n + 1 \in Q
      <3>1. n + 1 <= N => n + 1 \in 1 .. N /\ (n + 1) - 1 = n
                          /\ m.splits[n + 1] \in Splits
        BY <2>1, <2>3
      <3>2. n + 1 <= N => f[n + 1] = addSplit(f[n], i, m.splits[n + 1])
        BY <2>2, <3>1
      <3>3. n + 1 <= N => f[n] \in Lists(Splits)
        BY <2>3, <2>5
      <3>4. n + 1 <= N => f[n + 1] \in Lists(Splits)
        BY <3>1, <3>2, <3>3, AddSplitTyped
      <3> QED BY <3>4
    <2>6. N \in Q
      <3> HIDE DEF Q, N
      <3>1. Nat \subseteq Q
        BY <2>4, <2>5, SetInduction
      <3> QED BY <2>3, <3>1
    <2>7. addSplits(a, i, m.splits) \in Lists(Splits)
      BY <2>2, <2>3, <2>6
    <2> QED BY <1>1, <2>7 DEF addMessage, Good
  <1>2. CASE ~Good(m, id)
    BY <1>2, AddErrorFacts DEF addMessage, Good
  <1> QED BY <1>1, <1>2

\* processKeySplitMessages takes the messages one by one.
LEMMA ProcessSteps ==
  ASSUME NEW msgs \in Seq(Messages), NEW id
  PROVE  \E f : /\ f[0] = NoSplits
                /\ \A n \in 1 .. Len(msgs) :
                      f[n] = addMessage(f[n - 1], n, msgs[n], id)
                /\ processKeySplitMessages(msgs, id) = f[Len(msgs)]
  <1> DEFINE N == Len(msgs)
             I == [i \in DOMAIN msgs |-> i]
             A == Lists(Splits)
             h == [z \in A \X (1 .. N) |->
                     addMessage(z[1], I[z[2]], msgs[I[z[2]]], id)]
             Is(f) == f = [s \in SUBSET (1 .. N) |->
                             IF s = {} THEN NoSplits
                             ELSE addMessage(f[s \ {Max(s)}], I[Max(s)],
                                          msgs[I[Max(s)]], id)]
             it == CHOOSE f : Is(f)
  <1>1. N \in Nat /\ DOMAIN I = 1 .. N /\ \A n \in 1 .. N : I[n] = n
    OBVIOUS
  <1>2. processKeySplitMessages(msgs, id) = it[1 .. N]
    BY <1>1, Zenon DEF processKeySplitMessages, FoldLeftDomain, FoldLeft,
                            MapThenFoldSet
  <1>3. h \in [A \X (1 .. N) -> A]
    <2>1. ASSUME NEW a \in A, NEW n \in 1 .. N
          PROVE  addMessage(a, I[n], msgs[I[n]], id) \in A
      <3>1. I[n] \in Nat /\ msgs[I[n]] \in Messages
        BY <1>1
      <3> HIDE DEF I
      <3> QED BY <3>1, AddMessageTyped
    <2>2. ASSUME NEW z \in A \X (1 .. N) PROVE h[z] \in A
      <3>1. z[1] \in A /\ z[2] \in 1 .. N
        OBVIOUS
      <3> HIDE DEF A
      <3> QED BY <2>1, <3>1
    <2> HIDE DEF A
    <2> QED BY <2>2
  <1>4. PICK f : IsFold(N, A, NoSplits, h, f)
    <2>1. NoSplits \in A
      BY SMT DEF NoSplits, Lists
    <2> HIDE DEF h, N, A
    <2> QED BY <1>1, <1>3, <2>1, FoldExists
  <1>5. /\ f \in [SUBSET (1 .. N) -> A]
        /\ \A s \in SUBSET (1 .. N) : f[s] = LeftStep(h, NoSplits, f, s)
    BY <1>4, Zenon DEF IsFold
  <1>6. Is(f)
    <2>1. ASSUME NEW s \in SUBSET (1 .. N)
          PROVE  f[s] = IF s = {} THEN NoSplits
                        ELSE addMessage(f[s \ {Max(s)}], I[Max(s)],
                                          msgs[I[Max(s)]], id)
      <3>1. CASE s = {}
        BY <1>5, <3>1 DEF LeftStep
      <3>2. CASE s # {}
        <4>1. Max(s) \in 1 .. N /\ f[s \ {Max(s)}] \in A
          BY <1>1, <1>5, <3>2, LastPosition
        <4>2. f[s] = h[<<f[s \ {Max(s)}], Max(s)>>]
          BY <1>5, <3>2 DEF LeftStep
        <4> HIDE DEF A
        <4> QED BY <3>2, <4>1, <4>2
      <3> QED BY <3>1, <3>2
    <2>2. f = [s \in SUBSET (1 .. N) |-> f[s]]
      BY <1>5
    <2> QED BY <2>1, <2>2, Zenon
  <1>7. Is(it)
    <2> HIDE DEF Is
    <2> QED BY <1>6, Zenon
  <1>8. \A s \in SUBSET (1 .. N) :
           it[s] = IF s = {} THEN NoSplits
                   ELSE addMessage(it[s \ {Max(s)}], I[Max(s)],
                                   msgs[I[Max(s)]], id)
    <2> HIDE DEF it
    <2> QED BY <1>7
  <1> DEFINE g == [n \in 0 .. N |-> it[1 .. n]]
  <1> HIDE DEF it, N
  <1>9. g[0] = NoSplits /\ g[N] = it[1 .. N]
    <2>1. 1 .. 0 = {} /\ 0 \in 0 .. N /\ N \in 0 .. N
      BY <1>1
    <2>2. it[{}] = NoSplits
      BY <1>8
    <2> QED BY <2>1, <2>2
  <1>10. ASSUME NEW n \in 1 .. N
         PROVE  g[n] = addMessage(g[n - 1], n, msgs[n], id)
    <2>1. Max(1 .. n) = n /\ (1 .. n) \ {n} = 1 .. n - 1
      BY <1>1, LastPosition
    <2>2. /\ 1 .. n \in SUBSET (1 .. N) /\ n \in 1 .. n
          /\ n \in 0 .. N /\ n - 1 \in 0 .. N
      BY <1>1
    <2>3. I[n] = n
      BY <1>1, <2>2
    <2> HIDE DEF I
    <2> QED BY <1>8, <2>1, <2>2, <2>3
  <1> QED BY <1>2, <1>9, <1>10 DEF N

\* The splits of the first k messages that count.
SplitsIn(msgs, id, k) ==
    UNION {Range(msgs[j].splits) : j \in {j \in 1 .. k : Good(msgs[j], id)}}

\* What is collected from the first k messages.
Collected(msgs, id, k, a) ==
    /\ a \in Lists(Splits) /\ IsInjective(a.splits)
    /\ Range(a.splits) = SplitsIn(msgs, id, k)
    /\ Range(a.errors) \subseteq 1 .. k
    /\ \A i \in (1 .. k) \ Range(a.errors) :
          /\ Good(msgs[i], id)
          /\ Range(msgs[i].splits) \cap SplitsIn(msgs, id, i - 1) = {}

LEMMA AddMessageFacts ==
  ASSUME NEW msgs \in Seq(Messages), NEW id, NEW k \in Nat,
         k + 1 <= Len(msgs), NEW a, Collected(msgs, id, k, a)
  PROVE  Collected(msgs, id, k + 1, addMessage(a, k + 1, msgs[k + 1], id))
  <1> DEFINE i == k + 1
             m == msgs[i]
             r == addMessage(a, i, m, id)
  <1>1. i \in Nat /\ i \in 1 .. Len(msgs) /\ m \in Messages
        /\ i - 1 = k /\ 1 .. i = (1 .. k) \cup {i} /\ i \notin 1 .. k
    OBVIOUS
  <1>2. /\ a \in Lists(Splits) /\ IsInjective(a.splits)
        /\ Range(a.splits) = SplitsIn(msgs, id, k)
        /\ Range(a.errors) \subseteq 1 .. k
        /\ \A j \in (1 .. k) \ Range(a.errors) :
              /\ Good(msgs[j], id)
              /\ Range(msgs[j].splits) \cap SplitsIn(msgs, id, j - 1) = {}
    BY DEF Collected
  <1> HIDE DEF i
  <1>3. CASE Good(m, id)
    <2>1. Adds(a, i, Range(m.splits), addSplits(a, i, m.splits))
      <3>1. m.splits \in Seq(Splits)
        BY <1>1, <1>3, GoodMessage
      <3> QED BY <1>1, <1>2, <3>1, AddSplitsFacts
    <2>2. r = addSplits(a, i, m.splits)
      BY <1>3 DEF addMessage, Good
    <2>3. Adds(a, i, Range(m.splits), r)
      BY <2>1, <2>2
    <2>4. SplitsIn(msgs, id, i) = SplitsIn(msgs, id, k) \cup Range(m.splits)
      BY <1>1, <1>3 DEF SplitsIn
    <2> HIDE DEF r
    <2>5. /\ r \in Lists(Splits) /\ IsInjective(r.splits)
          /\ Range(r.splits) = SplitsIn(msgs, id, i)
          /\ Range(r.errors) \subseteq 1 .. i
      BY <1>1, <1>2, <2>3, <2>4 DEF Adds
    <2>6. ASSUME NEW j \in (1 .. i) \ Range(r.errors)
          PROVE  /\ Good(msgs[j], id)
                 /\ Range(msgs[j].splits) \cap SplitsIn(msgs, id, j - 1) = {}
      <3>1. CASE j = i
        <4>1. Range(m.splits) \cap Range(a.splits) = {}
          BY <2>3, <2>6, <3>1 DEF Adds
        <4> QED BY <1>1, <1>2, <1>3, <3>1, <4>1
      <3>2. CASE j # i
        <4>1. j \in (1 .. k) \ Range(a.errors)
          BY <1>1, <2>3, <2>6, <3>2 DEF Adds
        <4> QED BY <1>2, <4>1
      <3> QED BY <3>1, <3>2
    <2>7. Collected(msgs, id, i, r)
      BY <2>5, <2>6, Zenon DEF Collected
    <2> QED BY <2>7 DEF r, i
  <1>4. CASE ~Good(m, id)
    <2>1. r = [a EXCEPT !.errors = Append(@, i)]
      BY <1>4 DEF addMessage, Good
    <2>2. /\ r \in Lists(Splits) /\ r.splits = a.splits
          /\ Range(r.errors) = Range(a.errors) \cup {i}
      BY <1>1, <1>2, <2>1, AddErrorFacts
    <2>3. SplitsIn(msgs, id, i) = SplitsIn(msgs, id, k)
      BY <1>1, <1>4 DEF SplitsIn
    <2> HIDE DEF r
    <2>4. /\ r \in Lists(Splits) /\ IsInjective(r.splits)
          /\ Range(r.splits) = SplitsIn(msgs, id, i)
          /\ Range(r.errors) \subseteq 1 .. i
      BY <1>1, <1>2, <2>2, <2>3
    <2>5. ASSUME NEW j \in (1 .. i) \ Range(r.errors)
          PROVE  /\ Good(msgs[j], id)
                 /\ Range(msgs[j].splits) \cap SplitsIn(msgs, id, j - 1) = {}
      <3>1. j \in (1 .. k) \ Range(a.errors)
        BY <1>1, <2>2, <2>5
      <3> QED BY <1>2, <3>1
    <2>6. Collected(msgs, id, i, r)
      BY <2>4, <2>5, Zenon DEF Collected
    <2> QED BY <2>6 DEF r, i
  <1> QED BY <1>3, <1>4

\* All messages.
LEMMA ProcessFacts ==
  ASSUME NEW msgs \in Seq(Messages), NEW id
  PROVE  Collected(msgs, id, Len(msgs), processKeySplitMessages(msgs, id))
  <1>1. PICK f : /\ f[0] = NoSplits
                 /\ \A n \in 1 .. Len(msgs) :
                       f[n] = addMessage(f[n - 1], n, msgs[n], id)
                 /\ processKeySplitMessages(msgs, id) = f[Len(msgs)]
    BY ProcessSteps
  <1> DEFINE Q == {n \in Nat : n <= Len(msgs) => Collected(msgs, id, n, f[n])}
  <1>2. 0 \in Q
    <2>1. Collected(msgs, id, 0, NoSplits)
      <3>1. NoSplits \in Lists(Splits)
        BY DEF NoSplits, Lists
      <3>2. NoSplits.splits = << >> /\ NoSplits.errors = << >>
        BY DEF NoSplits
      <3>3. Range(<< >>) = {} /\ IsInjective(<< >>)
        BY DEF Range, IsInjective
      <3>4. SplitsIn(msgs, id, 0) = {} /\ 1 .. 0 = {}
        BY DEF SplitsIn
      <3> QED BY <3>1, <3>2, <3>3, <3>4 DEF Collected
    <2> QED BY <1>1, <2>1
  <1>3. ASSUME NEW n \in Nat, n \in Q PROVE n + 1 \in Q
    <2> SUFFICES ASSUME n + 1 <= Len(msgs)
                 PROVE  Collected(msgs, id, n + 1, f[n + 1])
      OBVIOUS
    <2>1. Collected(msgs, id, n, f[n])
      BY <1>3
    <2>2. n + 1 \in 1 .. Len(msgs) /\ (n + 1) - 1 = n
      OBVIOUS
    <2>3. f[n + 1] = addMessage(f[n], n + 1, msgs[n + 1], id)
      BY <1>1, <2>2
    <2> QED BY <2>1, <2>3, AddMessageFacts
  <1>4. Len(msgs) \in Q
    <2>1. Nat \subseteq Q
      <3> HIDE DEF Q
      <3> QED BY <1>2, <1>3, SetInduction
    <2> QED BY <2>1
  <1> QED BY <1>1, <1>4

-----------------------------------------------------------------------------
(* RecoverWallet *)

\* The splits of one group, each once.
LEMMA OfGroupFacts ==
  ASSUME NEW splits \in Seq(Splits), IsInjective(splits), NEW g0
  PROVE  /\ OfGroup(splits, g0) \in Seq(Splits)
         /\ IsInjective(OfGroup(splits, g0))
         /\ Range(OfGroup(splits, g0)) = {s \in Range(splits) : s.group = g0}
  <1>1. PICK f : /\ f[0] = << >>
                 /\ \A n \in 1 .. Len(splits) :
                       f[n] = addIfOf(g0, f[n - 1], splits[n])
                 /\ OfGroup(splits, g0) = f[Len(splits)]
    BY OfGroupSteps
  <1> DEFINE Upto(n) == {splits[k] : k \in 1 .. n}
             P(q, n) == /\ q \in Seq(Splits) /\ IsInjective(q)
                        /\ Range(q) = {s \in Upto(n) : s.group = g0}
             Q == {n \in Nat : n <= Len(splits) => P(f[n], n)}
  <1>2. 0 \in Q
    <2>1. Upto(0) = {}
      OBVIOUS
    <2>2. Range(<< >>) = {} /\ IsInjective(<< >>) /\ << >> \in Seq(Splits)
      BY DEF Range, IsInjective
    <2> QED BY <1>1, <2>1, <2>2
  <1>3. ASSUME NEW n \in Nat, n \in Q PROVE n + 1 \in Q
    <2> SUFFICES ASSUME n + 1 <= Len(splits) PROVE P(f[n + 1], n + 1)
      OBVIOUS
    <2>1. P(f[n], n)
      BY <1>3
    <2>2. n + 1 \in 1 .. Len(splits) /\ (n + 1) - 1 = n
          /\ splits[n + 1] \in Splits
      OBVIOUS
    <2>3. f[n + 1] = addIfOf(g0, f[n], splits[n + 1])
      BY <1>1, <2>2
    <2>4. Upto(n + 1) = Upto(n) \cup {splits[n + 1]}
      <3>1. 1 .. n + 1 = (1 .. n) \cup {n + 1}
        OBVIOUS
      <3> QED BY <3>1
    <2>5. splits[n + 1] \notin Upto(n)
      <3>1. \A k \in 1 .. n : k \in DOMAIN splits /\ k # n + 1
        OBVIOUS
      <3>2. n + 1 \in DOMAIN splits
        OBVIOUS
      <3> QED BY <3>1, <3>2 DEF IsInjective
    <2>6. CASE splits[n + 1].group = g0
      <3>1. f[n + 1] = Append(f[n], splits[n + 1])
        BY <2>3, <2>6 DEF addIfOf
      <3>2. splits[n + 1] \notin Range(f[n])
        BY <2>1, <2>5
      <3>3. /\ f[n + 1] \in Seq(Splits) /\ IsInjective(f[n + 1])
            /\ Range(f[n + 1]) = Range(f[n]) \cup {splits[n + 1]}
        BY <2>1, <2>2, <3>1, <3>2, AppendRange
      <3> HIDE DEF Upto
      <3> QED BY <2>1, <2>4, <2>6, <3>3
    <2>7. CASE splits[n + 1].group # g0
      <3>1. f[n + 1] = f[n]
        BY <2>3, <2>7 DEF addIfOf
      <3> HIDE DEF Upto
      <3> QED BY <2>1, <2>4, <2>7, <3>1
    <2> QED BY <2>6, <2>7
  <1>4. P(f[Len(splits)], Len(splits))
    <2> HIDE DEF P
    <2>1. Nat \subseteq Q
      <3> HIDE DEF Q
      <3> QED BY <1>2, <1>3, SetInduction
    <2>2. Len(splits) \in Nat
      OBVIOUS
    <2>3. Len(splits) \in Q
      BY <2>1, <2>2
    <2> QED BY <2>2, <2>3
  <1>5. Upto(Len(splits)) = Range(splits)
    BY DEF Range
  <1> HIDE DEF Upto
  <1> QED BY <1>1, <1>4, <1>5

Part(id, g) == [id |-> id, group |-> g]
Point(id, g) == [part : {Part(id, g)}, x : Nat]

\* The indices of the shares that splits hold.
IndicesOf(S) == UNION {Range(s.shares) : s \in S}

\* A sequence of points of one part of the key, at the indices I.
PointsAt(q, id, g, I) ==
    /\ q \in Seq(Point(id, g))
    /\ \A j, k \in DOMAIN q : q[j].x = q[k].x => j = k
    /\ {q[k].x : k \in DOMAIN q} = I

LEMMA PointsFacts ==
  ASSUME NEW s \in Splits
  PROVE  PointsAt(Points(s), s.id, s.group, Range(s.shares))
  <1>1. /\ s.shares \in Seq(Nat) /\ IsInjective(s.shares)
    BY SplitShape, RestoreAssumption
  <1>2. DOMAIN s.shares = 1 .. Len(s.shares) /\ Len(s.shares) \in Nat
        /\ \A k \in DOMAIN s.shares : s.shares[k] \in Nat
    BY <1>1
  <1>3. /\ DOMAIN Points(s) = DOMAIN s.shares
        /\ \A k \in DOMAIN s.shares :
              Points(s)[k] = [part |-> Part(s.id, s.group),
                              x |-> s.shares[k]]
    BY DEF Points, Part
  <1>4. ASSUME NEW k \in DOMAIN s.shares
        PROVE  /\ Points(s)[k] \in Point(s.id, s.group)
               /\ Points(s)[k].x = s.shares[k]
    <2>1. PICK v, p : v = s.shares[k] /\ p = Part(s.id, s.group)
      OBVIOUS
    <2>2. Points(s)[k] = [part |-> p, x |-> v] /\ v \in Nat
      BY <1>2, <1>3, <2>1
    <2>3. [part |-> p, x |-> v] \in [part : {p}, x : Nat]
      BY <2>2
    <2>4. [part |-> p, x |-> v].x = v
      OBVIOUS
    <2>5. Points(s)[k].x = v
      BY <2>2, <2>4
    <2>6. Points(s)[k] \in [part : {p}, x : Nat]
      BY <2>2, <2>3
    <2> QED BY <2>1, <2>5, <2>6, Zenon DEF Point
  <1>5. Points(s) \in Seq(Point(s.id, s.group))
    <2>1. Points(s) \in [1 .. Len(s.shares) -> Point(s.id, s.group)]
      BY <1>2, <1>4 DEF Points
    <2> QED BY <1>2, <2>1
  <1> QED BY <1>1, <1>3, <1>4, <1>5 DEF PointsAt, IsInjective, Range

LEMMA ConcatPoints ==
  ASSUME NEW id, NEW g, NEW p, NEW I, PointsAt(p, id, g, I),
         NEW q, NEW J, PointsAt(q, id, g, J), I \cap J = {}
  PROVE  PointsAt(p \o q, id, g, I \cup J)
  <1> DEFINE P == Point(id, g)
             r == p \o q
             M == Len(p)
             N == Len(q)
  <1>1. p \in Seq(P) /\ q \in Seq(P)
    BY DEF PointsAt
  <1>2. /\ r \in Seq(P) /\ DOMAIN r = 1 .. M + N
        /\ DOMAIN p = 1 .. M /\ DOMAIN q = 1 .. N /\ M \in Nat /\ N \in Nat
        /\ \A k \in 1 .. M + N : r[k] = IF k <= M THEN p[k] ELSE q[k - M]
    <2> HIDE DEF P
    <2> QED BY <1>1
  <1>3. /\ \A j, k \in 1 .. M : p[j].x = p[k].x => j = k
        /\ \A j, k \in 1 .. N : q[j].x = q[k].x => j = k
        /\ \A j \in 1 .. M : p[j].x \in I
        /\ \A j \in 1 .. N : q[j].x \in J
        /\ \A x \in I : \E j \in 1 .. M : p[j].x = x
        /\ \A x \in J : \E j \in 1 .. N : q[j].x = x
    BY <1>2 DEF PointsAt
  <1> HIDE DEF P, r, M, N
  <1>4. \A k \in 1 .. M + N :
           \/ k \in 1 .. M /\ r[k] = p[k] /\ r[k].x \in I
           \/ k \notin 1 .. M /\ k - M \in 1 .. N /\ r[k] = q[k - M]
              /\ r[k].x \in J
    BY <1>2, <1>3
  <1>5. ASSUME NEW j \in 1 .. M + N, NEW k \in 1 .. M + N, r[j].x = r[k].x
        PROVE  j = k
    <2>1. CASE j \in 1 .. M
      <3>1. k \in 1 .. M /\ r[k] = p[k] /\ r[j] = p[j]
        BY <1>4, <1>5, <2>1
      <3> QED BY <1>3, <1>5, <2>1, <3>1
    <2>2. CASE j \notin 1 .. M
      <3>1. /\ k - M \in 1 .. N /\ r[k] = q[k - M]
            /\ j - M \in 1 .. N /\ r[j] = q[j - M]
        BY <1>4, <1>5, <2>2
      <3>2. j - M = k - M
        BY <1>3, <1>5, <3>1
      <3> QED BY <1>2, <3>2
    <2> QED BY <2>1, <2>2
  <1>6. {r[k].x : k \in 1 .. M + N} = I \cup J
    <2>1. ASSUME NEW x \in I PROVE \E k \in 1 .. M + N : r[k].x = x
      <3>1. PICK j \in 1 .. M : p[j].x = x
        BY <1>3
      <3>2. j \in 1 .. M + N /\ r[j] = p[j]
        BY <1>2
      <3> QED BY <3>1, <3>2
    <2>2. ASSUME NEW x \in J PROVE \E k \in 1 .. M + N : r[k].x = x
      <3>1. PICK j \in 1 .. N : q[j].x = x
        BY <1>3
      <3>2. j + M \in 1 .. M + N /\ r[j + M] = q[j]
        BY <1>2
      <3> QED BY <3>1, <3>2
    <2> QED BY <1>4, <2>1, <2>2
  <1> QED BY <1>2, <1>5, <1>6 DEF PointsAt, P, r

\* The shares of two splits of a group of a backup do not overlap.
LEMMA SharesDisjoint ==
  ASSUME NEW s \in Splits, NEW t \in Splits, s.id = t.id, s.group = t.group,
         s # t
  PROVE  Range(s.shares) \cap Range(t.shares) = {}
  <1>1. s.owner # t.owner
    BY SplitShape
  <1>2. /\ s.group \in Groups
        /\ s.owner \in DOMAIN Issued(s.group)
        /\ t.owner \in DOMAIN Issued(s.group) \ {s.owner}
        /\ s.shares = Issued(s.group)[s.owner]
        /\ t.shares = Issued(s.group)[t.owner]
    BY <1>1, SplitShape
  <1> QED BY <1>2, RestoreAssumption

\* All points of splits of one group of one backup: those of its part, at the
\* indices of the shares, each once.
LEMMA AllPointsFacts ==
  ASSUME NEW splits \in Seq(Splits), IsInjective(splits), NEW id, NEW g,
         \A n \in DOMAIN splits : splits[n].id = id /\ splits[n].group = g
  PROVE  PointsAt(AllPoints(splits), id, g, IndicesOf(Range(splits)))
  <1> DEFINE P == UNION {Point(s.id, s.group) : s \in Splits}
             Upto(n) == {splits[k] : k \in 1 .. n}
  <1>1. PICK f : /\ f[0] = << >>
                 /\ \A n \in 1 .. Len(splits) :
                       f[n] = addPoints(f[n - 1], splits[n])
                 /\ AllPoints(splits) = f[Len(splits)]
    <2>1. ASSUME NEW s \in Splits PROVE Points(s) \in Seq(P)
      <3>1. Points(s) \in Seq(Point(s.id, s.group))
        BY PointsFacts DEF PointsAt
      <3>2. Point(s.id, s.group) \subseteq P
        OBVIOUS
      <3> HIDE DEF P
      <3> QED BY <3>1, <3>2
    <2> HIDE DEF P
    <2> QED BY <2>1, AllPointsSteps
  <1> DEFINE Q == {n \in Nat : n <= Len(splits) =>
                      PointsAt(f[n], id, g, IndicesOf(Upto(n)))}
  <1>2. 0 \in Q
    <2>1. IndicesOf(Upto(0)) = {}
      BY DEF IndicesOf
    <2>2. PointsAt(<< >>, id, g, {})
      BY DEF PointsAt
    <2> HIDE DEF Upto
    <2> QED BY <1>1, <2>1, <2>2
  <1>3. ASSUME NEW n \in Nat, n \in Q PROVE n + 1 \in Q
    <2> SUFFICES ASSUME n + 1 <= Len(splits)
                 PROVE  PointsAt(f[n + 1], id, g, IndicesOf(Upto(n + 1)))
      OBVIOUS
    <2> DEFINE s == splits[n + 1]
    <2>1. PointsAt(f[n], id, g, IndicesOf(Upto(n)))
      BY <1>3
    <2>2. n + 1 \in 1 .. Len(splits) /\ (n + 1) - 1 = n /\ s \in Splits
          /\ s.id = id /\ s.group = g /\ n + 1 \in DOMAIN splits
      OBVIOUS
    <2>3. f[n + 1] = f[n] \o Points(s)
      BY <1>1, <2>2 DEF addPoints
    <2>4. PointsAt(Points(s), id, g, Range(s.shares))
      BY <2>2, PointsFacts
    <2>5. IndicesOf(Upto(n)) \cap Range(s.shares) = {}
      <3>1. ASSUME NEW k \in 1 .. n
            PROVE  Range(splits[k].shares) \cap Range(s.shares) = {}
        <4>1. k \in DOMAIN splits /\ k # n + 1 /\ splits[k] \in Splits
          OBVIOUS
        <4>2. splits[k] # s
          BY <2>2, <4>1 DEF IsInjective
        <4>3. splits[k].id = s.id /\ splits[k].group = s.group
          BY <2>2, <4>1
        <4> HIDE DEF s
        <4> QED BY <2>2, <4>1, <4>2, <4>3, SharesDisjoint
      <3> HIDE DEF s
      <3> QED BY <3>1 DEF IndicesOf
    <2>6. IndicesOf(Upto(n + 1)) = IndicesOf(Upto(n)) \cup Range(s.shares)
      <3>1. 1 .. n + 1 = (1 .. n) \cup {n + 1}
        OBVIOUS
      <3>2. Upto(n + 1) = Upto(n) \cup {s}
        BY <3>1
      <3> HIDE DEF Upto, s
      <3> QED BY <3>2 DEF IndicesOf
    <2> HIDE DEF Upto, s
    <2> QED BY <2>1, <2>3, <2>4, <2>5, <2>6, ConcatPoints
  <1>4. Len(splits) \in Q
    <2>1. Nat \subseteq Q
      <3> HIDE DEF Q
      <3> QED BY <1>2, <1>3, SetInduction
    <2> QED BY <2>1
  <1>5. Upto(Len(splits)) = Range(splits)
    BY DEF Range
  <1> HIDE DEF Upto
  <1> QED BY <1>1, <1>4, <1>5

\* So many points as indices.
LEMMA CountPoints ==
  ASSUME NEW q, NEW id, NEW g, NEW I, PointsAt(q, id, g, I)
  PROVE  IsFiniteSet(I) /\ Cardinality(I) = Len(q) /\ Len(q) \in Nat
  <1>1. DOMAIN q = 1 .. Len(q) /\ Len(q) \in Nat
    BY DEF PointsAt
  <1> DEFINE f == [k \in 1 .. Len(q) |-> q[k].x]
  <1>2. f \in Bijection(1 .. Len(q), I)
    <2>1. /\ f \in [1 .. Len(q) -> I]
          /\ \A x \in I : \E k \in 1 .. Len(q) : f[k] = x
      BY <1>1 DEF PointsAt
    <2>2. \A j, k \in 1 .. Len(q) : f[j] = f[k] => j = k
      BY <1>1 DEF PointsAt
    <2> HIDE DEF f
    <2> QED BY <2>1, <2>2 DEF Bijection, Injection, Surjection, IsInjective
  <1>3. IsFiniteSet(1 .. Len(q))
    BY <1>1, FS_Interval
  <1>4. ExistsBijection(1 .. Len(q), I)
    BY <1>2 DEF ExistsBijection
  <1> QED BY <1>1, <1>3, <1>4, FS_Bijection, FS_CountingElements

\* The three kinds of values that JoinKeyShares returns.
LEMMA PartNoError ==
  ASSUME NEW id, NEW g
  PROVE  Part(id, g) # Err /\ Part(id, g) # Junk /\ Part(id, g).group = g
         /\ Err # Junk
  <1>1. DOMAIN Part(id, g) = {"id", "group"} /\ Part(id, g).group = g
    BY DEF Part
  <1>2. DOMAIN Err = {"error"} /\ DOMAIN Junk = {"junk"}
    BY DEF Err, Junk
  <1>3. {"id", "group"} # {"error"} /\ {"id", "group"} # {"junk"}
        /\ {"error"} # {"junk"}
    OBVIOUS
  <1> QED BY <1>1, <1>2, <1>3, Zenon

LEMMA ThresholdPositive ==
  \A g \in Groups : Threshold(g) \in Nat \ {0}
  BY RestoreAssumption DEF Threshold, Groups

\* Points of one part at different indices.
LEMMA CombineFacts ==
  ASSUME NEW id, NEW g \in Groups, NEW c \in Seq(Point(id, g)), Len(c) # 0,
         \A j, k \in DOMAIN c : c[j].x = c[k].x => j = k, NEW field
  PROVE  CombineShamirShares(c, field) =
            IF field = "order" /\ Len(c) >= Threshold(g)
            THEN Part(id, g) ELSE Junk
  <1>1. 1 \in DOMAIN c /\ \A k \in DOMAIN c : c[k] \in Point(id, g)
    OBVIOUS
  <1>2. \A k \in DOMAIN c : c[k].part = Part(id, g)
    BY <1>1 DEF Point
  <1>3. c[1].part = Part(id, g) /\ c[1].part.group = g
    BY <1>1, <1>2, PartNoError
  <1>4. ~ \E j, k \in DOMAIN c : j # k /\ c[j].x = c[k].x
    OBVIOUS
  <1>5. \A k \in DOMAIN c : c[k].part = c[1].part
    BY <1>2, <1>3
  <1> QED BY <1>3, <1>4, <1>5, Zenon DEF CombineShamirShares

\* Indices of the shares of a group among splits.
Held(splits, g) == IndicesOf({s \in Range(splits) : s.group = g})

\* What the shares of a group give: the part of the key exactly when the
\* threshold asked for is not below that of the backup and they reach it.
Joins(splits, id, g, t, field) ==
    LET J == JoinKeyShares(OfGroup(splits, g), t, field)
        Enough == /\ field = "order" /\ t >= Threshold(g)
                  /\ Cardinality(Held(splits, g)) >= t
    IN  /\ Enough => J = Part(id, g)
        /\ ~Enough => J \in {Err, Junk}

LEMMA JoinFacts ==
  ASSUME NEW splits \in Seq(Splits), IsInjective(splits), NEW id,
         \A n \in DOMAIN splits : splits[n].id = id,
         NEW g \in Groups, NEW t \in Nat, NEW field
  PROVE  /\ IsFiniteSet(Held(splits, g)) /\ Cardinality(Held(splits, g)) \in Nat
         /\ Joins(splits, id, g, t, field)
  <1> DEFINE of == OfGroup(splits, g)
             all == AllPoints(of)
             c == SubSeq(all, 1, t)
             J == JoinKeyShares(of, t, field)
  <1>1. /\ of \in Seq(Splits) /\ IsInjective(of)
        /\ Range(of) = {s \in Range(splits) : s.group = g}
    BY OfGroupFacts
  <1>2. \A n \in DOMAIN of : of[n].id = id /\ of[n].group = g
    <2>1. \A n \in DOMAIN of : of[n] \in Range(of)
      BY DEF Range
    <2>2. \A s \in Range(splits) : s.id = id
      BY DEF Range
    <2> HIDE DEF of
    <2> QED BY <1>1, <2>1, <2>2
  <1>3. PointsAt(all, id, g, Held(splits, g))
    <2> HIDE DEF of
    <2>1. PointsAt(AllPoints(of), id, g, IndicesOf(Range(of)))
      BY <1>1, <1>2, AllPointsFacts
    <2> QED BY <1>1, <2>1 DEF Held
  <1> HIDE DEF of, all
  <1>4. /\ IsFiniteSet(Held(splits, g)) /\ Len(all) \in Nat
        /\ Cardinality(Held(splits, g)) = Len(all)
    BY <1>3, CountPoints
  <1>5. /\ all \in Seq(Point(id, g))
        /\ \A j, k \in DOMAIN all : all[j].x = all[k].x => j = k
    BY <1>3 DEF PointsAt
  <1>6. Threshold(g) \in Nat \ {0}
    BY ThresholdPositive
  <1>7. CASE t = 0 \/ Len(all) < t
    <2>1. J = Err
      BY <1>7 DEF JoinKeyShares, all
    <2>2. ~(t >= Threshold(g) /\ Cardinality(Held(splits, g)) >= t)
      BY <1>4, <1>6, <1>7
    <2> QED BY <1>4, <2>1, <2>2 DEF of, Joins
  <1>8. CASE ~(t = 0 \/ Len(all) < t)
    <2>1. J = CombineShamirShares(c, field)
      BY <1>8, Zenon DEF JoinKeyShares, all
    <2>2. /\ c \in Seq(Point(id, g)) /\ Len(c) = t /\ DOMAIN c = 1 .. t
          /\ \A k \in 1 .. t : c[k] = all[k] /\ k \in DOMAIN all
      <3>1. t <= Len(all)
        BY <1>4, <1>8
      <3> QED BY <1>5, <3>1
    <2> HIDE DEF c, J
    <2>3. \A j, k \in DOMAIN c : c[j].x = c[k].x => j = k
      BY <1>5, <2>2
    <2>4. J = IF field = "order" /\ t >= Threshold(g)
              THEN Part(id, g) ELSE Junk
      <3>1. Len(c) # 0
        BY <1>8, <2>2
      <3>2. CombineShamirShares(c, field) =
               IF field = "order" /\ Len(c) >= Threshold(g)
               THEN Part(id, g) ELSE Junk
        BY <2>2, <2>3, <3>1, CombineFacts
      <3> QED BY <2>1, <2>2, <3>2
    <2>5. Cardinality(Held(splits, g)) >= t
      BY <1>4, <1>8
    <2> QED BY <1>4, <2>4, <2>5 DEF J, of, Joins
  <1> QED BY <1>7, <1>8

ThresholdIn(d, g) ==
    IF g = "admin" THEN d.adminsThreshold ELSE d.providersThreshold

\* The wallet of the key, as the metadata describes it.
TheWallet(d) ==
    [secret |-> "key", admins |-> d.admins,
     adminsThreshold |-> d.adminsThreshold]

LEMMA WalletNoError ==
  ASSUME NEW d
  PROVE  TheWallet(d) \notin {Err, None} /\ Err # None
  <1>1. DOMAIN TheWallet(d) = {"secret", "admins", "adminsThreshold"}
    BY DEF TheWallet
  <1>2. DOMAIN Err = {"error"} /\ DOMAIN None = {"none"}
    BY DEF Err, None
  <1>3. /\ {"secret", "admins", "adminsThreshold"} # {"error"}
        /\ {"secret", "admins", "adminsThreshold"} # {"none"}
        /\ {"error"} # {"none"}
    OBVIOUS
  <1> QED BY <1>1, <1>2, <1>3, Zenon

\* A key only from as many shares as both the metadata and the backup ask for;
\* and from as many, if the metadata is right about the backup.
LEMMA RecoverFacts ==
  ASSUME NEW d \in Metadata, NEW splits \in Seq(Splits), IsInjective(splits),
         \A n \in DOMAIN splits : splits[n].id = d.id
  PROVE  LET w == RecoverWallet(splits, d)
         IN  /\ w \in {Err, TheWallet(d)}
             /\ w # Err => \A g \in Groups :
                   /\ Cardinality(Held(splits, g)) >= Threshold(g)
                   /\ Cardinality(Held(splits, g)) >= ThresholdIn(d, g)
             /\ (/\ d.field = "order" /\ DOMAIN AdminShares \subseteq d.admins
                 /\ \A g \in Groups :
                       /\ ThresholdIn(d, g) >= Threshold(g)
                       /\ Cardinality(Held(splits, g)) >= ThresholdIn(d, g)) =>
                w = TheWallet(d)
  <1> DEFINE w == RecoverWallet(splits, d)
             Enough(g) == /\ d.field = "order"
                          /\ ThresholdIn(d, g) >= Threshold(g)
                          /\ Cardinality(Held(splits, g)) >= ThresholdIn(d, g)
             J(g) == JoinKeyShares(OfGroup(splits, g), ThresholdIn(d, g),
                                   d.field)
  <1>0. /\ d.id \in Backups /\ d.adminsThreshold \in Nat
        /\ d.providersThreshold \in Nat
    BY RestoreAssumption
  <1>1. ASSUME NEW g \in Groups
        PROVE  /\ IsFiniteSet(Held(splits, g))
               /\ Cardinality(Held(splits, g)) \in Nat
               /\ Enough(g) => J(g) = Part(d.id, g)
               /\ ~Enough(g) => J(g) \in {Err, Junk}
    <2>1. ThresholdIn(d, g) \in Nat
      BY <1>0 DEF ThresholdIn
    <2>2. /\ IsFiniteSet(Held(splits, g))
          /\ Cardinality(Held(splits, g)) \in Nat
          /\ Joins(splits, d.id, g, ThresholdIn(d, g), d.field)
      BY <2>1, JoinFacts
    <2> QED BY <2>2 DEF Joins
  <1> DEFINE secret == JoinSecret(J("admin"), J("provider"))
             checks == /\ d.field \in FieldIDs
                       /\ CheckKeyShares(OfGroup(splits, "admin"), d)
                       /\ J("admin") # Err
                       /\ CheckKeyShares(OfGroup(splits, "provider"), d)
                       /\ J("provider") # Err
                       /\ secret = "key"
  <1>2. /\ checks => w = TheWallet(d)
        /\ ~checks => w = Err
    BY Zenon DEF RecoverWallet, ThresholdIn, matchesPublicKey, TheWallet
  <1>3. secret = "key" => \A g \in Groups : Enough(g)
    <2> SUFFICES ASSUME secret = "key"
                 PROVE  Enough("admin") /\ Enough("provider")
      BY DEF Groups
    <2>1. PICK id \in Backups : /\ J("admin") = Part(id, "admin")
                                /\ J("provider") = Part(id, "provider")
      BY DEF JoinSecret, Part
    <2> HIDE DEF J, Enough
    <2>2. "admin" \in Groups /\ "provider" \in Groups
      BY DEF Groups
    <2> QED BY <1>1, <2>1, <2>2, PartNoError
  <1>4. (\A g \in Groups : Enough(g)) => secret = "key"
    <2>1. "admin" \in Groups /\ "provider" \in Groups
      BY DEF Groups
    <2> HIDE DEF J, Enough
    <2>2. (\A g \in Groups : Enough(g)) =>
             J("admin") = Part(d.id, "admin")
             /\ J("provider") = Part(d.id, "provider")
      BY <1>1, <2>1
    <2> QED BY <1>0, <2>2 DEF JoinSecret, Part
  <1>5. ASSUME DOMAIN AdminShares \subseteq d.admins, NEW g \in Groups,
               Enough(g)
        PROVE  CheckKeyShares(OfGroup(splits, g), d)
    <2> DEFINE of == OfGroup(splits, g)
    <2>1. /\ of \in Seq(Splits)
          /\ Range(of) = {s \in Range(splits) : s.group = g}
      BY OfGroupFacts
    <2>2. \A n \in DOMAIN of : of[n] \in Range(of)
      BY DEF Range
    <2>3. \A s \in Range(splits) : s.id = d.id
      BY DEF Range
    <2>4. of # << >>
      <3>1. SUFFICES ASSUME of = << >> PROVE FALSE
        OBVIOUS
      <3>2. Range(of) = {}
        BY <3>1 DEF Range
      <3>3. Held(splits, g) = {}
        BY <2>1, <3>2 DEF Held, IndicesOf
      <3>4. Cardinality(Held(splits, g)) = 0
        BY <3>3, FS_EmptySet
      <3>5. Threshold(g) \in Nat \ {0} /\ ThresholdIn(d, g) \in Nat
        BY <1>0, ThresholdPositive DEF ThresholdIn
      <3> QED BY <1>5, <3>4, <3>5
    <2> HIDE DEF of
    <2>5. \A n \in DOMAIN of :
             /\ of[n].id = d.id /\ of[n].group = g /\ of[n] \in Splits
      BY <2>1, <2>2, <2>3
    <2>6. 1 \in DOMAIN of
      BY <2>1, <2>4
    <2>7. ASSUME NEW n \in DOMAIN of, g = "admin"
          PROVE  of[n].owner \in d.admins
      <3>1. of[n].owner \in DOMAIN Issued("admin")
        BY <2>5, <2>7, SplitShape
      <3> QED BY <1>5, <3>1 DEF Issued
    <2>8. CheckKeyShares(of, d)
      BY <2>4, <2>5, <2>6, <2>7 DEF CheckKeyShares
    <2> QED BY <2>8 DEF of
  <1>6. w # Err => \A g \in Groups :
           /\ Cardinality(Held(splits, g)) >= Threshold(g)
           /\ Cardinality(Held(splits, g)) >= ThresholdIn(d, g)
    <2>1. \A g \in Groups : /\ Cardinality(Held(splits, g)) \in Nat
                            /\ Threshold(g) \in Nat /\ ThresholdIn(d, g) \in Nat
      BY <1>0, <1>1, ThresholdPositive DEF ThresholdIn
    <2>2. w # Err => \A g \in Groups : Enough(g)
      <3> HIDE DEF w, secret, Enough
      <3> QED BY <1>2, <1>3
    <2> QED BY <2>1, <2>2
  <1>7. (/\ d.field = "order" /\ DOMAIN AdminShares \subseteq d.admins
         /\ \A g \in Groups :
               /\ ThresholdIn(d, g) >= Threshold(g)
               /\ Cardinality(Held(splits, g)) >= ThresholdIn(d, g)) =>
        w = TheWallet(d)
    <2> SUFFICES ASSUME d.field = "order",
                        DOMAIN AdminShares \subseteq d.admins,
                        \A g \in Groups : Enough(g)
                 PROVE  checks
      BY <1>2
    <2>1. "admin" \in Groups /\ "provider" \in Groups /\ d.field \in FieldIDs
      BY DEF Groups, FieldIDs
    <2> HIDE DEF Enough, J, secret
    <2>2. secret = "key"
      BY <1>4
    <2>3. /\ CheckKeyShares(OfGroup(splits, "admin"), d)
          /\ CheckKeyShares(OfGroup(splits, "provider"), d)
      BY <1>5, <2>1
    <2>4. J("admin") # Err /\ J("provider") # Err
      BY <1>1, <2>1, PartNoError
    <2> QED BY <2>1, <2>2, <2>3, <2>4
  <1>8. w \in {Err, TheWallet(d)}
    <2> HIDE DEF w, checks
    <2> QED BY <1>2
  <1> QED BY <1>6, <1>7, <1>8

-----------------------------------------------------------------------------
(* The outcome of the handler, for any messages. *)

Outcome(msgs, d) ==
    LET p == processKeySplitMessages(msgs, d.id)
    IN  [wallet |-> RecoverWallet(p.splits, d), errors |-> p.errors]

\* Brought and Shares, of given messages and backup.
BroughtIn(msgs, id, g) ==
    {s \in Splits :
        /\ s.id = id /\ s.group = g
        /\ \E i \in DOMAIN msgs :
              LET m == msgs[i]
              IN  /\ m.readable /\ Len(m.splits) \in {1, 2}
                  /\ \A n \in DOMAIN m.splits :
                        m.splits[n] \in Splits /\ m.splits[n].id = id
                  /\ \E n \in DOMAIN m.splits : m.splits[n] = s}

SharesIn(msgs, id, g) == Cardinality(IndicesOf(BroughtIn(msgs, id, g)))

\* Brought are the splits of the good messages.
LEMMA BroughtAreSplits ==
  ASSUME NEW msgs \in Seq(Messages), NEW id, NEW g
  PROVE  /\ BroughtIn(msgs, id, g) =
               {s \in SplitsIn(msgs, id, Len(msgs)) : s.group = g}
         /\ \A s \in SplitsIn(msgs, id, Len(msgs)) : s \in Splits /\ s.id = id
  <1>1. DOMAIN msgs = 1 .. Len(msgs)
        /\ \A i \in DOMAIN msgs : msgs[i] \in Messages
    OBVIOUS
  <1>2. \A i \in DOMAIN msgs : Good(msgs[i], id) <=>
           /\ msgs[i].readable /\ Len(msgs[i].splits) \in {1, 2}
           /\ \A n \in DOMAIN msgs[i].splits :
                 msgs[i].splits[n] \in Splits /\ msgs[i].splits[n].id = id
    BY <1>1, GoodMessage
  <1>3. ASSUME NEW s \in SplitsIn(msgs, id, Len(msgs))
        PROVE  /\ s \in Splits /\ s.id = id
               /\ s.group = g => s \in BroughtIn(msgs, id, g)
    <2>1. PICK i \in DOMAIN msgs :
             Good(msgs[i], id) /\ s \in Range(msgs[i].splits)
      BY <1>1 DEF SplitsIn
    <2>2. PICK n \in DOMAIN msgs[i].splits : s = msgs[i].splits[n]
      BY <2>1 DEF Range
    <2>3. s \in Splits /\ s.id = id
      BY <1>2, <2>1, <2>2
    <2> QED BY <1>2, <2>1, <2>2, <2>3 DEF BroughtIn
  <1>4. ASSUME NEW s \in BroughtIn(msgs, id, g)
        PROVE  s \in SplitsIn(msgs, id, Len(msgs)) /\ s.group = g
    <2>1. PICK i \in DOMAIN msgs :
             /\ msgs[i].readable /\ Len(msgs[i].splits) \in {1, 2}
             /\ \A n \in DOMAIN msgs[i].splits :
                   msgs[i].splits[n] \in Splits /\ msgs[i].splits[n].id = id
             /\ \E n \in DOMAIN msgs[i].splits : msgs[i].splits[n] = s
      BY DEF BroughtIn
    <2>2. Good(msgs[i], id) /\ s \in Range(msgs[i].splits)
      BY <1>2, <2>1 DEF Range
    <2>3. s \in SplitsIn(msgs, id, Len(msgs))
      BY <1>1, <2>2 DEF SplitsIn
    <2> QED BY <2>3 DEF BroughtIn
  <1> QED BY <1>3, <1>4

\* The metadata names every admin of the backup, and no lower thresholds.
CompleteFor(d) ==
    /\ d.field = "order" /\ DOMAIN AdminShares \subseteq d.admins
    /\ \A g \in Groups : ThresholdIn(d, g) >= Threshold(g)

LEMMA OutcomeFacts ==
  ASSUME NEW msgs \in Seq(Messages), NEW d \in Metadata
  PROVE  /\ \A g \in Groups :
               /\ IsFiniteSet(IndicesOf(BroughtIn(msgs, d.id, g)))
               /\ SharesIn(msgs, d.id, g) \in Nat
         /\ Outcome(msgs, d) \in [wallet : {Err, TheWallet(d)},
                                  errors : Seq(Nat)]
         /\ Outcome(msgs, d).wallet # Err => \A g \in Groups :
               /\ SharesIn(msgs, d.id, g) >= Threshold(g)
               /\ SharesIn(msgs, d.id, g) >= ThresholdIn(d, g)
         /\ (/\ CompleteFor(d)
             /\ \A g \in Groups : SharesIn(msgs, d.id, g) >= ThresholdIn(d, g))
            => Outcome(msgs, d).wallet = TheWallet(d)
  <1> DEFINE p == processKeySplitMessages(msgs, d.id)
  <1>1. Collected(msgs, d.id, Len(msgs), p)
    BY ProcessFacts
  <1> HIDE DEF p
  <1>2. /\ p.splits \in Seq(Splits) /\ p.errors \in Seq(Nat)
        /\ IsInjective(p.splits)
        /\ Range(p.splits) = SplitsIn(msgs, d.id, Len(msgs))
    BY <1>1 DEF Collected, Lists
  <1>3. \A n \in DOMAIN p.splits : p.splits[n].id = d.id
    <2>1. /\ BroughtIn(msgs, d.id, "admin") =
                {s \in SplitsIn(msgs, d.id, Len(msgs)) : s.group = "admin"}
          /\ \A s \in SplitsIn(msgs, d.id, Len(msgs)) :
                s \in Splits /\ s.id = d.id
      BY BroughtAreSplits
    <2> QED BY <1>2, <2>1 DEF Range
  <1>4. ASSUME NEW g \in Groups
        PROVE  Held(p.splits, g) = IndicesOf(BroughtIn(msgs, d.id, g))
    <2>1. BroughtIn(msgs, d.id, g) =
             {s \in SplitsIn(msgs, d.id, Len(msgs)) : s.group = g}
      BY BroughtAreSplits
    <2> QED BY <1>2, <2>1, Zenon DEF Held
  <1>5. Outcome(msgs, d) = [wallet |-> RecoverWallet(p.splits, d),
                            errors |-> p.errors]
    BY DEF Outcome, p
  <1>6. \A g \in Groups : /\ IsFiniteSet(Held(p.splits, g))
                          /\ Cardinality(Held(p.splits, g)) \in Nat
    <2>1. 0 \in Nat
      OBVIOUS
    <2> QED BY <1>2, <1>3, <2>1, JoinFacts
  <1> DEFINE w == RecoverWallet(p.splits, d)
  <1>7. /\ w \in {Err, TheWallet(d)}
        /\ w # Err => \A g \in Groups :
              /\ Cardinality(Held(p.splits, g)) >= Threshold(g)
              /\ Cardinality(Held(p.splits, g)) >= ThresholdIn(d, g)
        /\ (/\ d.field = "order" /\ DOMAIN AdminShares \subseteq d.admins
            /\ \A g \in Groups :
                  /\ ThresholdIn(d, g) >= Threshold(g)
                  /\ Cardinality(Held(p.splits, g)) >= ThresholdIn(d, g)) =>
           w = TheWallet(d)
    BY <1>2, <1>3, RecoverFacts
  <1> HIDE DEF w
  <1>8. \A g \in Groups :
           Cardinality(Held(p.splits, g)) = SharesIn(msgs, d.id, g)
    BY <1>4 DEF SharesIn
  <1>9. Outcome(msgs, d) = [wallet |-> w, errors |-> p.errors]
    BY <1>5 DEF w
  <1>10. Outcome(msgs, d).wallet = w
    BY <1>9
  <1>11. Outcome(msgs, d) \in [wallet : {Err, TheWallet(d)}, errors : Seq(Nat)]
    BY <1>2, <1>7, <1>9
  <1>12. \A g \in Groups :
            /\ IsFiniteSet(IndicesOf(BroughtIn(msgs, d.id, g)))
            /\ SharesIn(msgs, d.id, g) \in Nat
    BY <1>4, <1>6, <1>8
  <1>13. w # Err => \A g \in Groups :
            /\ SharesIn(msgs, d.id, g) >= Threshold(g)
            /\ SharesIn(msgs, d.id, g) >= ThresholdIn(d, g)
    BY <1>7, <1>8
  <1>14. (/\ CompleteFor(d)
          /\ \A g \in Groups : SharesIn(msgs, d.id, g) >= ThresholdIn(d, g))
         => w = TheWallet(d)
    BY <1>7, <1>8 DEF CompleteFor
  <1> QED BY <1>10, <1>11, <1>12, <1>13, <1>14

\* One more message, wherever it is put, takes no share away.
LEMMA MoreMessages ==
  ASSUME NEW msgs \in Seq(Messages), NEW d \in Metadata,
         NEW k \in 1 .. Len(msgs) + 1, NEW m \in Messages
  PROVE  LET more == InsertAt(msgs, k, m)
         IN  /\ more \in Seq(Messages)
             /\ \A g \in Groups :
                   SharesIn(more, d.id, g) >= SharesIn(msgs, d.id, g)
  <1> DEFINE more == InsertAt(msgs, k, m)
  <1>1. /\ more \in Seq(Messages) /\ Len(more) = Len(msgs) + 1
        /\ \A i \in 1 .. Len(msgs) : more[IF i < k THEN i ELSE i + 1] = msgs[i]
    <2>1. /\ SubSeq(msgs, 1, k - 1) \in Seq(Messages)
          /\ Len(SubSeq(msgs, 1, k - 1)) = k - 1
          /\ \A i \in 1 .. k - 1 : SubSeq(msgs, 1, k - 1)[i] = msgs[i]
      OBVIOUS
    <2>2. /\ SubSeq(msgs, k, Len(msgs)) \in Seq(Messages)
          /\ Len(SubSeq(msgs, k, Len(msgs))) = (Len(msgs) + 1) - k
          /\ \A i \in 1 .. (Len(msgs) + 1) - k :
                SubSeq(msgs, k, Len(msgs))[i] = msgs[(i + k) - 1]
      OBVIOUS
    <2> DEFINE a == SubSeq(msgs, 1, k - 1)
               b == SubSeq(msgs, k, Len(msgs))
               c == a \o <<m>>
    <2>3. c \in Seq(Messages) /\ Len(c) = k
          /\ \A i \in 1 .. k - 1 : c[i] = msgs[i]
      <3> HIDE DEF a
      <3>1. <<m>> \in Seq(Messages) /\ Len(<<m>>) = 1
        OBVIOUS
      <3> QED BY <2>1, <3>1 DEF a
    <2> HIDE DEF b, c
    <2>4. /\ c \o b \in Seq(Messages) /\ Len(c \o b) = Len(msgs) + 1
          /\ \A i \in 1 .. Len(msgs) + 1 :
                (c \o b)[i] = IF i <= k THEN c[i] ELSE b[i - k]
      BY <2>2, <2>3 DEF b
    <2>5. ASSUME NEW i \in 1 .. Len(msgs)
          PROVE  (c \o b)[IF i < k THEN i ELSE i + 1] = msgs[i]
      <3>1. CASE i < k
        <4>1. i \in 1 .. k - 1 /\ i \in 1 .. Len(msgs) + 1 /\ i <= k
          BY <3>1
        <4> QED BY <2>3, <2>4, <3>1, <4>1
      <3>2. CASE ~(i < k)
        <4>1. /\ (i + 1) - k \in 1 .. (Len(msgs) + 1) - k
              /\ (((i + 1) - k) + k) - 1 = i
              /\ i + 1 \in 1 .. Len(msgs) + 1 /\ ~(i + 1 <= k)
          BY <3>2
        <4>2. (c \o b)[i + 1] = b[(i + 1) - k]
          BY <2>4, <4>1
        <4>3. b[(i + 1) - k] = msgs[i]
          BY <2>2, <4>1 DEF b
        <4> QED BY <3>2, <4>2, <4>3
      <3> QED BY <3>1, <3>2
    <2>6. more = c \o b
      BY DEF InsertAt, a, b, c
    <2> HIDE DEF more
    <2> QED BY <2>4, <2>5, <2>6
  <1> HIDE DEF more
  <1>2. ASSUME NEW g \in Groups
        PROVE  SharesIn(more, d.id, g) >= SharesIn(msgs, d.id, g)
    <2>1. \A i \in DOMAIN msgs : \E j \in DOMAIN more : more[j] = msgs[i]
      <3>1. \A i \in 1 .. Len(msgs) :
               (IF i < k THEN i ELSE i + 1) \in 1 .. Len(msgs) + 1
        OBVIOUS
      <3> QED BY <1>1, <3>1
    <2>2. BroughtIn(msgs, d.id, g) \subseteq BroughtIn(more, d.id, g)
      BY <2>1 DEF BroughtIn
    <2>3. IndicesOf(BroughtIn(msgs, d.id, g))
             \subseteq IndicesOf(BroughtIn(more, d.id, g))
      BY <2>2 DEF IndicesOf
    <2>4. IsFiniteSet(IndicesOf(BroughtIn(more, d.id, g)))
          /\ SharesIn(more, d.id, g) \in Nat /\ SharesIn(msgs, d.id, g) \in Nat
      BY <1>1, OutcomeFacts
    <2>5. SharesIn(msgs, d.id, g) <= SharesIn(more, d.id, g)
      BY <2>3, <2>4, FS_Subset DEF SharesIn
    <2> QED BY <2>4, <2>5
  <1> QED BY <1>1, <1>2 DEF more

-----------------------------------------------------------------------------
(* The invariant *)

RestoreTypeOK ==
    /\ metadata \in Metadata /\ messages \in Seq(Messages)
    /\ result \in [Tags -> [wallet : {None, Err, TheWallet(metadata)},
                            errors : Seq(Nat)]]

\* Whatever found the key found shares enough for the backup and for the
\* metadata, and they are still there; and the End's outcome is that of the
\* messages there are, for none is added after it.
RestoreInv ==
    /\ RestoreTypeOK
    /\ \A tag \in Tags : Recovered(tag) =>
          \A g \in Groups :
              /\ Shares(g) >= Threshold(g)
              /\ Shares(g) >= ThresholdIn(metadata, g)
    /\ result["end"] # NotYet => result["end"] = Outcome(messages, metadata)

\* Shares in terms of the messages.
LEMMA SharesAre ==
  \A g : Shares(g) = SharesIn(messages, metadata.id, g)
  BY DEF Shares, SharesIn, IndicesOf, Brought, BroughtIn

LEMMA SharesAreNext ==
  \A g : Shares(g)' = SharesIn(messages', metadata'.id, g)
  BY DEF Shares, SharesIn, IndicesOf, Brought, BroughtIn

LEMMA CompleteIs ==
  Complete <=> CompleteFor(metadata)
  BY DEF Complete, CompleteFor, Groups, Threshold, ThresholdIn

LEMMA SufficientIs ==
  Sufficient <=> \A g \in Groups : Shares(g) >= ThresholdIn(metadata, g)
  BY DEF Sufficient, Groups, ThresholdIn

LEMMA InitHolds ==
  Init => RestoreInv
  <1> SUFFICES ASSUME Init PROVE RestoreInv
    OBVIOUS
  <1>1. NotYet.wallet = None /\ NotYet \in [wallet : {None, Err,
                                   TheWallet(metadata)}, errors : Seq(Nat)]
    BY DEF NotYet
  <1>2. RestoreTypeOK
    BY <1>1 DEF Init, RestoreTypeOK
  <1>3. \A tag \in Tags : result[tag] = NotYet
    BY DEF Init
  <1>4. \A tag \in Tags : ~Recovered(tag)
    BY <1>1, <1>3 DEF Recovered
  <1>5. "end" \in Tags
    BY DEF Tags
  <1> QED BY <1>2, <1>3, <1>4, <1>5 DEF RestoreInv

LEMMA SubmitKeeps ==
  ASSUME RestoreInv, NEW k \in 1 .. Len(messages) + 1, NEW m \in Messages,
         Submit(k, m)
  PROVE  RestoreInv'
  <1>1. /\ messages' = InsertAt(messages, k, m) /\ metadata' = metadata
        /\ result' = result /\ result["end"] = NotYet
    BY DEF Submit
  <1>2. metadata \in Metadata /\ messages \in Seq(Messages)
    BY DEF RestoreInv, RestoreTypeOK
  <1>3. /\ messages' \in Seq(Messages)
        /\ \A g \in Groups : SharesIn(messages', metadata.id, g) >=
                                SharesIn(messages, metadata.id, g)
    BY <1>1, <1>2, MoreMessages
  <1>4. \A g \in Groups : SharesIn(messages', metadata.id, g) \in Nat
                          /\ SharesIn(messages, metadata.id, g) \in Nat
    BY <1>2, <1>3, OutcomeFacts
  <1>5. \A g \in Groups :
           Threshold(g) \in Nat /\ ThresholdIn(metadata, g) \in Nat
    BY <1>2, ThresholdPositive, RestoreAssumption DEF ThresholdIn
  <1>6. RestoreTypeOK'
    BY <1>1, <1>2, <1>3 DEF RestoreInv, RestoreTypeOK
  <1>7. ASSUME NEW tag \in Tags, Recovered(tag)', NEW g \in Groups
        PROVE  Shares(g)' >= Threshold(g)
               /\ Shares(g)' >= ThresholdIn(metadata', g)
    <2>1. Recovered(tag)
      BY <1>1, <1>7 DEF Recovered
    <2>2. Shares(g) >= Threshold(g) /\ Shares(g) >= ThresholdIn(metadata, g)
      BY <2>1 DEF RestoreInv
    <2>3. Shares(g) = SharesIn(messages, metadata.id, g)
          /\ Shares(g)' = SharesIn(messages', metadata.id, g)
      BY <1>1, SharesAre, SharesAreNext
    <2> QED BY <1>1, <1>3, <1>4, <1>5, <2>2, <2>3
  <1>8. result'["end"] = NotYet
    BY <1>1
  <1> QED BY <1>6, <1>7, <1>8 DEF RestoreInv

LEMMA RestoreKeeps ==
  ASSUME RestoreInv, NEW tag \in Tags, KeyDataProviderRestore(tag)
  PROVE  /\ RestoreInv'
         /\ result'[tag] = Outcome(messages, metadata)
         /\ \A t \in Tags \ {tag} : result'[t] = result[t]
  <1>1. /\ messages' = messages /\ metadata' = metadata
        /\ result' = [result EXCEPT ![tag] = Outcome(messages, metadata)]
        /\ tag = "end" => result["threshold"] # NotYet
        /\ result[tag] = NotYet
    BY DEF KeyDataProviderRestore, Outcome
  <1>2. /\ metadata \in Metadata /\ messages \in Seq(Messages)
        /\ result \in [Tags -> [wallet : {None, Err, TheWallet(metadata)},
                                errors : Seq(Nat)]]
    BY DEF RestoreInv, RestoreTypeOK
  <1> DEFINE o == Outcome(messages, metadata)
  <1>3. /\ o \in [wallet : {Err, TheWallet(metadata)}, errors : Seq(Nat)]
        /\ o.wallet # Err => \A g \in Groups :
              /\ SharesIn(messages, metadata.id, g) >= Threshold(g)
              /\ SharesIn(messages, metadata.id, g) >= ThresholdIn(metadata, g)
    BY <1>2, OutcomeFacts
  <1> HIDE DEF o
  <1>4. /\ result'[tag] = o /\ \A t \in Tags \ {tag} : result'[t] = result[t]
    BY <1>1, <1>2 DEF o
  <1>5. RestoreTypeOK'
    <2>1. o \in [wallet : {None, Err, TheWallet(metadata)}, errors : Seq(Nat)]
      BY <1>3
    <2>2. result' = [result EXCEPT ![tag] = o]
      BY <1>1 DEF o
    <2> QED BY <1>1, <1>2, <2>1, <2>2 DEF RestoreTypeOK
  <1>6. ASSUME NEW t \in Tags, Recovered(t)', NEW g \in Groups
        PROVE  Shares(g)' >= Threshold(g)
               /\ Shares(g)' >= ThresholdIn(metadata', g)
    <2>1. Shares(g)' = SharesIn(messages, metadata.id, g)
          /\ Shares(g) = SharesIn(messages, metadata.id, g)
      BY <1>1, SharesAre, SharesAreNext
    <2>2. CASE t = tag
      <3>1. o.wallet # Err
        BY <1>4, <1>6, <2>2 DEF Recovered
      <3> QED BY <1>1, <1>3, <2>1, <3>1
    <2>3. CASE t # tag
      <3>1. Recovered(t)
        BY <1>4, <1>6, <2>3 DEF Recovered
      <3> QED BY <1>1, <2>1, <3>1 DEF RestoreInv
    <2> QED BY <2>2, <2>3
  <1>7. result'["end"] # NotYet =>
           result'["end"] = Outcome(messages', metadata')
    <2>1. CASE tag = "end"
      BY <1>1, <1>4, <2>1 DEF o
    <2>2. CASE tag # "end"
      <3>1. result'["end"] = result["end"]
        BY <1>4, <2>2 DEF Tags
      <3> QED BY <1>1, <3>1 DEF RestoreInv
    <2> QED BY <2>1, <2>2
  <1>8. RestoreInv'
    BY <1>5, <1>6, <1>7 DEF RestoreInv
  <1> QED BY <1>4, <1>8 DEF o

LEMMA NextKeeps ==
  RestoreInv /\ [Next]_vars => RestoreInv'
  <1> SUFFICES ASSUME RestoreInv, [Next]_vars PROVE RestoreInv'
    OBVIOUS
  <1>1. CASE Next
    BY <1>1, SubmitKeeps, RestoreKeeps DEF Next
  <1>2. CASE UNCHANGED vars
    <2>1. messages' = messages /\ metadata' = metadata /\ result' = result
      BY <1>2 DEF vars
    <2>2. \A g : Shares(g)' = Shares(g)
      BY <2>1, SharesAre, SharesAreNext
    <2>3. \A tag \in Tags : Recovered(tag)' <=> Recovered(tag)
      BY <2>1 DEF Recovered
    <2> QED BY <2>1, <2>2, <2>3 DEF RestoreInv, RestoreTypeOK
  <1> QED BY <1>1, <1>2

-----------------------------------------------------------------------------
(* Theorems *)

\* The invariant holds, for any splits, metadata and number of messages.
THEOREM RestoreCorrect == Spec => []RestoreInv
  BY InitHolds, NextKeeps, PTL DEF Spec

\* No key without the quorums of both groups (RecoverWallet against metadata
\* that nothing checks).
THEOREM QuorumsAreNeeded == Spec => []QuorumsNeeded
  <1>1. RestoreInv => QuorumsNeeded
    BY DEF RestoreInv, QuorumsNeeded
  <1> QED BY <1>1, RestoreCorrect, PTL

\* The End finds the key that the Threshold found.
THEOREM EndRecovers == Spec => []EndRecoversToo
  <1>1. RestoreInv => EndRecoversToo
    <2> SUFFICES ASSUME RestoreInv, Complete, Recovered("threshold"),
                        result["end"] # NotYet
                 PROVE  result["end"].wallet = result["threshold"].wallet
      BY DEF EndRecoversToo
    <2>1. "threshold" \in Tags
      BY DEF Tags
    <2>2. metadata \in Metadata /\ messages \in Seq(Messages)
      BY DEF RestoreInv, RestoreTypeOK
    <2>3. result["threshold"].wallet = TheWallet(metadata)
      BY <2>1 DEF RestoreInv, RestoreTypeOK, Recovered
    <2>4. \A g \in Groups : SharesIn(messages, metadata.id, g) >=
                               ThresholdIn(metadata, g)
      BY <2>1, SharesAre DEF RestoreInv
    <2>5. Outcome(messages, metadata).wallet = TheWallet(metadata)
      BY <2>2, <2>4, OutcomeFacts, CompleteIs
    <2> QED BY <2>3, <2>5 DEF RestoreInv
  <1> QED BY <1>1, RestoreCorrect, PTL

\* Who is not named in the End's status brought splits of use, that no other
\* signer is credited with (processKeySplitMessages).
THEOREM UnblamedUseful == Spec => []UnblamedAreUseful
  <1>1. RestoreInv => UnblamedAreUseful
    <2> DEFINE p == processKeySplitMessages(messages, metadata.id)
               id == metadata.id
               Credited == DOMAIN messages \ Range(result["end"].errors)
               SplitsOf(i) == Range(messages[i].splits)
    <2> SUFFICES ASSUME RestoreInv, result["end"] # NotYet,
                        NEW i \in Credited
                 PROVE  /\ SplitsOf(i) \subseteq
                              Brought("admin") \cup Brought("provider")
                        /\ \A j \in Credited \ {i} :
                              SplitsOf(i) \cap SplitsOf(j) = {}
      BY DEF UnblamedAreUseful
    <2>1. metadata \in Metadata /\ messages \in Seq(Messages)
      BY DEF RestoreInv, RestoreTypeOK
    <2>2. result["end"].errors = p.errors
      <3>1. result["end"] = Outcome(messages, metadata)
        BY DEF RestoreInv
      <3> QED BY <3>1 DEF Outcome
    <2>3. Collected(messages, id, Len(messages), p)
      BY <2>1, ProcessFacts
    <2>4. Len(messages) \in Nat /\ DOMAIN messages = 1 .. Len(messages)
      BY <2>1
    <2> HIDE DEF p
    <2>5. \A j \in Credited :
             /\ j \in 1 .. Len(messages) /\ Good(messages[j], id)
             /\ SplitsOf(j) \cap SplitsIn(messages, id, j - 1) = {}
      BY <2>2, <2>3, <2>4 DEF Collected
    <2>6. SplitsOf(i) \subseteq SplitsIn(messages, id, Len(messages))
      BY <2>5 DEF SplitsIn
    <2>7. SplitsOf(i) \subseteq Brought("admin") \cup Brought("provider")
      <3>1. \A g : Brought(g) = BroughtIn(messages, id, g)
        BY DEF Brought, BroughtIn
      <3>2. /\ BroughtIn(messages, id, "admin") =
                  {s \in SplitsIn(messages, id, Len(messages)) :
                      s.group = "admin"}
            /\ BroughtIn(messages, id, "provider") =
                  {s \in SplitsIn(messages, id, Len(messages)) :
                      s.group = "provider"}
            /\ \A s \in SplitsIn(messages, id, Len(messages)) : s \in Splits
        BY <2>1, BroughtAreSplits
      <3>3. \A s \in Splits : s.group \in {"admin", "provider"}
        BY SplitShape DEF Groups
      <3> QED BY <2>6, <3>1, <3>2, <3>3
    <2>8. ASSUME NEW j \in Credited, NEW k \in Credited, j < k
          PROVE  SplitsOf(j) \cap SplitsOf(k) = {}
      <3>1. j \in 1 .. k - 1
        BY <2>4, <2>5, <2>8
      <3>2. SplitsOf(j) \subseteq SplitsIn(messages, id, k - 1)
        BY <2>5, <3>1 DEF SplitsIn
      <3> QED BY <2>5, <3>2
    <2>9. ASSUME NEW j \in Credited \ {i}
          PROVE  SplitsOf(i) \cap SplitsOf(j) = {}
      <3>1. i < j \/ j < i
        BY <2>4, <2>5
      <3> QED BY <2>8, <3>1
    <2> QED BY <2>7, <2>9
  <1> QED BY <1>1, RestoreCorrect, PTL

\* Enough shares give the key, whatever else was brought.
THEOREM JunkIsHarmless == Spec => JunkHarmless
  <1> DEFINE Step == \A tag \in Tags :
                        result'[tag] # result[tag] /\ Complete /\ Sufficient =>
                            Recovered(tag)'
  <1>1. RestoreInv /\ [Next]_vars => [Step]_vars
    <2> SUFFICES ASSUME RestoreInv, Next, NEW t \in Tags,
                        result'[t] # result[t], Complete, Sufficient
                 PROVE  Recovered(t)'
      OBVIOUS
    <2>1. CASE \E k \in 1 .. Len(messages) + 1, m \in Messages : Submit(k, m)
      BY <2>1 DEF Submit
    <2>2. CASE \E tag \in Tags : KeyDataProviderRestore(tag)
      <3>1. KeyDataProviderRestore(t)
        BY <2>2, RestoreKeeps
      <3>2. result'[t] = Outcome(messages, metadata)
        BY <3>1, RestoreKeeps
      <3>3. metadata \in Metadata /\ messages \in Seq(Messages)
        BY DEF RestoreInv, RestoreTypeOK
      <3>4. \A g \in Groups : SharesIn(messages, metadata.id, g) >=
                                 ThresholdIn(metadata, g)
        BY SufficientIs, SharesAre
      <3>5. Outcome(messages, metadata).wallet = TheWallet(metadata)
        BY <3>3, <3>4, OutcomeFacts, CompleteIs
      <3> QED BY <3>2, <3>5, WalletNoError DEF Recovered
    <2> QED BY <2>1, <2>2 DEF Next
  <1> QED BY <1>1, RestoreCorrect, PTL DEF Spec, JunkHarmless
=============================================================================
