-------------------------- MODULE KeyBackupProofs --------------------------
(***************************************************************************)
(* Proofs about KeyBackup, for every list of weights, every width, every   *)
(* number of shares and every field.  The first part is about the provider *)
(* shares: how the rounding of weightsNormalization shares them out.  The  *)
(* second builds, from congruences, the polynomials of evalPolynomial,     *)
(* division by x - a, interpolation and the sum of CombineShamirShares, to *)
(* show that a quorum recovers the key and that a minority learns nothing. *)
(***************************************************************************)
EXTENDS KeyBackup, SequenceTheorems, FoldTheorems

AllShares == NormalizationConstant
uint16 == 0 .. Width - 1

\* The running totals, with the empty one.
PrefixAt(j) == IF j = 0 THEN 0 ELSE prefix[j]
MarkAt(j) == IF j = 0 THEN 0 ELSE marks[j]
AllWeight == prefix[Len(weights)]

Types ==
    /\ weights \in Seq(uint16)
    /\ pc \in {"sum", "normalize", "secret", "admin", "provider", "done",
               "error"}
    /\ i \in Nat \ {0}
    /\ sum \in uint16
    /\ total \in uint16
    /\ normalized \in [1 .. Len(weights) -> uint16]
    /\ splits \in [Groups -> Seq(SUBSET Nat)]
    /\ weightCounter \in Nat
    /\ prefix \in Seq(uint16)
    /\ marks \in Seq(0 .. AllShares)

\* prefix holds the sums of the weights so far, none above the last.
Summed(n) ==
    /\ Len(prefix) = n
    /\ \A j \in 1 .. n : prefix[j] = PrefixAt(j - 1) + weights[j]
    /\ \A j \in 1 .. n : prefix[j] <= PrefixAt(n)

\* normalized holds the differences of the marks.
Assigned ==
    /\ Len(marks) <= Len(weights)
    /\ \A j \in 1 .. Len(marks) : MarkAt(j) = MarkAt(j - 1) + normalized[j]
    /\ \A j \in 1 .. Len(weights) : j > Len(marks) => normalized[j] = 0

Summing ==
    /\ i <= Len(weights) + 1
    /\ Summed(i - 1)
    /\ sum = PrefixAt(i - 1)
    /\ total = AllShares
    /\ marks = << >>
    /\ \A j \in 1 .. Len(weights) : normalized[j] = 0

\* The shares left are at least in proportion to the weight left.
Normalizing ==
    /\ i <= Len(weights) + 1
    /\ Len(marks) = i - 1
    /\ sum = AllWeight - PrefixAt(i - 1)
    /\ total = AllShares - MarkAt(i - 1)
    /\ sum = 0 => total = 0
    /\ AllShares * sum <= total * AllWeight

\* All shares are assigned.
Exhausted == Len(marks) # 0 /\ marks[Len(marks)] = AllShares

\* Shares assigned to the first j providers.
Upto(j) == IF j <= Len(marks) THEN MarkAt(j) ELSE AllShares

\* The shares up to weightCounter are in one of the splits, and only in one.
Dealt(n) ==
    LET sp == splits["provider"]
    IN  /\ \A o \in 1 .. Len(sp) : sp[o] \subseteq 1 .. n
        /\ \A x \in 1 .. n : \E o \in 1 .. Len(sp) :
              x \in sp[o] /\ \A q \in 1 .. Len(sp) \ {o} : x \notin sp[q]

Dealing ==
    /\ i <= Len(weights) + 1
    /\ Len(splits["provider"]) = i - 1
    /\ weightCounter = Upto(i - 1)
    /\ Dealt(weightCounter)

IInv ==
    /\ Types
    /\ pc = "sum" => Summing
    /\ pc \in {"normalize", "secret", "admin", "provider", "done"} =>
         Summed(Len(weights)) /\ AllWeight > 0 /\ Len(weights) > 0
    /\ Assigned
    /\ NobodyShortened
    /\ pc = "normalize" => Normalizing
    /\ pc \in {"secret", "admin", "provider", "done"} => Exhausted
    /\ pc \in {"sum", "normalize", "secret", "admin"} =>
         splits["provider"] = << >>
    /\ pc \in {"sum", "normalize", "secret"} => weightCounter = 0
    /\ pc = "provider" => Dealing
    /\ pc = "done" => Len(splits["provider"]) = Len(weights) /\ Dealt(AllShares)
    /\ pc = "error" => marks = << >>

-----------------------------------------------------------------------------
(* Arithmetic *)

\* Multiplication keeps an order ...
LEMMA MulMono ==
    ASSUME NEW a \in Int, NEW b \in Int, NEW c \in Nat, a <= b
    PROVE  a * c <= b * c
OBVIOUS

\* ... and, by a positive factor, a strict one;
LEMMA MulMonoStrict ==
    ASSUME NEW a \in Int, NEW b \in Int, NEW c \in Nat, c > 0, a < b
    PROVE  a * c < b * c
OBVIOUS

\* so a positive factor may be cancelled.
LEMMA MulCancel ==
    ASSUME NEW a \in Int, NEW b \in Int, NEW c \in Nat, c > 0,
           a * c <= b * c
    PROVE  a <= b
BY MulMonoStrict

\* The same for a strict order.
LEMMA MulCancelStrict ==
    ASSUME NEW a \in Int, NEW b \in Int, NEW c \in Nat, c > 0,
           a * c < b * c
    PROVE  a < b
BY MulMono

\* The quotient of a division, rounded down.
LEMMA DivBounds ==
    ASSUME NEW a \in Nat, NEW b \in Nat, b > 0
    PROVE  /\ a \div b \in Nat
           /\ (a \div b) * b <= a
           /\ a < (a \div b + 1) * b
OBVIOUS

\* A value below the width is not wrapped.
LEMMA NoWrap ==
    ASSUME NEW x \in Nat, NEW m \in Nat, x < m
    PROVE  x % m = x
BY Z3

\* One weight w of the s that are left gets q of the t shares that are left:
\* not more than there are, all of them if it is the last, and if the shares
\* left were in proportion to the weight left, so they are afterwards, and q
\* is the exact proportion n / a of w or the integer below it.
LEMMA ShareStep ==
    ASSUME NEW w \in Nat, NEW t \in Nat, NEW s \in Nat, NEW q \in Nat,
           NEW n \in Nat, NEW a \in Nat,
           s > 0, w <= s, a > 0,
           q = (w * t) \div s,
           n * s <= t * a
    PROVE  /\ q <= t
           /\ w = s => q = t
           /\ n * (s - w) <= (t - q) * a
           /\ w * n < (q + 1) * a
<1>1. q * s <= w * t /\ w * t < (q + 1) * s
  <2>1. w * t \in Nat
    OBVIOUS
  <2>2. QED
    BY <2>1, DivBounds
<1>2. q <= t
  <2>1. w * t <= s * t
    BY MulMono
  <2>2. q * s <= t * s
    BY <1>1, <2>1
  <2>3. QED
    BY <2>2, MulCancel
<1>3. ASSUME w = s PROVE q = t
  <2>1. t * s < (q + 1) * s
    BY <1>1, <1>3
  <2>2. t < q + 1
    BY <2>1, MulCancelStrict
  <2>3. QED
    BY <1>2, <2>2
<1>4. n * (s - w) <= (t - q) * a
  <2>1. t * (s - w) <= (t - q) * s
    BY <1>1
  <2>2. (t * (s - w)) * a <= ((t - q) * s) * a
    <3>1. t * (s - w) \in Int /\ (t - q) * s \in Int
      OBVIOUS
    <3>2. QED
      BY <2>1, <3>1, MulMono
  <2>3. (n * s) * (s - w) <= (t * a) * (s - w)
    <3>1. n * s \in Int /\ t * a \in Int /\ s - w \in Nat
      OBVIOUS
    <3>2. QED
      BY <3>1, MulMono
  <2>4. (n * (s - w)) * s <= ((t - q) * a) * s
    BY <2>2, <2>3
  <2>5. n * (s - w) \in Int /\ (t - q) * a \in Int
    OBVIOUS
  <2>6. QED
    BY <2>4, <2>5, MulCancel
<1>5. w * n < (q + 1) * a
  <2>1. (n * s) * w <= (t * a) * w
    <3>1. n * s \in Int /\ t * a \in Int
      OBVIOUS
    <3>2. QED
      BY <3>1, MulMono
  <2>2. (w * t) * a < ((q + 1) * s) * a
    <3>1. w * t \in Int /\ (q + 1) * s \in Int
      OBVIOUS
    <3>2. QED
      BY <1>1, <3>1, MulMonoStrict
  <2>3. (w * n) * s < ((q + 1) * a) * s
    BY <2>1, <2>2
  <2>4. w * n \in Int /\ (q + 1) * a \in Int
    OBVIOUS
  <2>5. QED
    BY <2>3, <2>4, MulCancelStrict
<1>6. QED
  BY <1>2, <1>3, <1>4, <1>5

-----------------------------------------------------------------------------
(* The steps *)

\* normalized is a sequence as long as weights.
LEMMA NormalizedSeq ==
    ASSUME Types
    PROVE  /\ normalized \in Seq(uint16)
           /\ Len(normalized) = Len(weights)
<1>1. Len(weights) \in Nat
  BY DEF Types
<1>2. normalized \in Seq(uint16)
  <2>1. normalized \in [1 .. Len(weights) -> uint16]
    BY DEF Types
  <2>2. normalized \in UNION {[1 .. n -> uint16] : n \in Nat}
    BY <1>1, <2>1, Zenon
  <2> QED  BY <2>2, SeqDef, Zenon
<1>3. /\ DOMAIN normalized = 1 .. Len(weights)
      /\ DOMAIN normalized = 1 .. Len(normalized)
  BY <1>2, LenProperties DEF Types
<1> QED  BY <1>1, <1>2, <1>3, LenProperties

\* The constants that matter here.
LEMMA Constants ==
    /\ Width \in Nat /\ Width > 0
    /\ AllShares \in Nat /\ AllShares > 0 /\ AllShares < Width
BY BackupAssumption DEF AllShares

\* The loops start with nothing summed, assigned or dealt.
LEMMA Initially == Init => IInv
<1> SUFFICES ASSUME Init PROVE IInv
  OBVIOUS
<1> USE BackupAssumption
<1>1. Types
  <2>1. weights \in Seq(uint16) /\ Len(weights) \in Nat
    BY DEF Init, uint16
  <2> QED  BY <2>1 DEF Init, Types, uint16, AllShares
<1>2. Summing
  BY <1>1 DEF Init, Types, Summing, Summed, PrefixAt, AllShares
<1>3. Assigned
  BY <1>1 DEF Init, Types, Assigned, MarkAt
<1>4. NobodyShortened
  BY DEF Init, NobodyShortened
<1> QED
  BY <1>1, <1>2, <1>3, <1>4 DEF Init, IInv, Groups

\* AddWeight adds without wrapping, and records the sum.
LEMMA Adding ==
    ASSUME IInv, AddWeight
    PROVE  IInv'
<1> USE Constants
<1>0. Types /\ Summing /\ Assigned /\ pc = "sum"
  BY DEF IInv, AddWeight
<1>1. /\ i \in 1 .. Len(weights) /\ Len(weights) \in Nat
      /\ weights[i] \in uint16
  BY <1>0 DEF AddWeight, Types
<1>2. sum + weights[i] \in uint16 /\ sum' = sum + weights[i]
  <2>1. sum \in Nat /\ weights[i] \in Nat /\ sum < Width
    BY <1>0, <1>1 DEF Types, uint16
  <2>2. sum + weights[i] < Width
    BY <1>1, <2>1 DEF AddWeight, overflows
  <2>3. (sum + weights[i]) % Width = sum + weights[i]
    BY <2>1, <2>2, NoWrap
  <2>4. sum + weights[i] \in uint16
    BY <2>1, <2>2 DEF uint16
  <2>5. sum' = (sum + weights[i]) % Width
    BY DEF AddWeight
  <2> QED  BY <2>3, <2>4, <2>5
<1>3. /\ prefix' \in Seq(uint16)
      /\ Len(prefix') = i
      /\ prefix'[i] = sum'
      /\ \A j \in 1 .. i - 1 : prefix'[j] = prefix[j]
  <2>1. prefix \in Seq(uint16) /\ Len(prefix) = i - 1 /\ i \in Nat
    BY <1>0 DEF Types, Summing, Summed
  <2>2. prefix' = Append(prefix, sum') /\ sum' \in uint16
    BY <1>2 DEF AddWeight
  <2> QED  BY <2>1, <2>2
<1>4. Types'
  <2>1. i' \in Nat \ {0} /\ sum' \in uint16
    BY <1>0, <1>2 DEF AddWeight, Types
  <2> QED  BY <1>0, <1>3, <2>1 DEF AddWeight, Types, sharing
<1>5. Summing'
  <2>0. PICK k \in Nat : k = i /\ k > 0
    BY <1>0 DEF Types
  <2>1. /\ i' = k + 1 /\ i' - 1 = k
        /\ UNCHANGED <<weights, total, normalized, marks>>
    BY <2>0 DEF AddWeight
  <2>2. \A j \in 1 .. k : prefix'[j] = PrefixAt(j - 1)' + weights[j]
    BY <1>0, <1>1, <1>2, <1>3, <2>0 DEF Summing, Summed, PrefixAt, Types
  <2>3. \A j \in 1 .. k : prefix'[j] <= prefix'[k]
    <3>1. \A j \in 1 .. k - 1 : prefix[j] <= sum
      BY <1>0, <1>1, <2>0 DEF Summing, Summed, PrefixAt, Types
    <3>2. \A j \in 1 .. k - 1 : prefix[j] \in Int
      <4>1. prefix \in Seq(uint16) /\ Len(prefix) = k - 1
        BY <1>0, <2>0 DEF Types, Summing, Summed
      <4>2. \A x \in uint16 : x \in Int
        BY DEF uint16
      <4> QED  BY <4>1, <4>2
    <3>3. sum \in Nat /\ weights[k] \in Nat /\ sum <= sum + weights[k]
      BY <1>0, <1>1, <2>0 DEF Types, uint16
    <3>4. prefix'[k] = sum + weights[k]
      BY <1>2, <1>3, <2>0
    <3>5. \A j \in 1 .. k - 1 : prefix'[j] = prefix[j]
      BY <1>3, <2>0
    <3> QED  BY <3>1, <3>2, <3>3, <3>4, <3>5
  <2>4. Summed(k)'
    BY <1>3, <2>0, <2>1, <2>2, <2>3 DEF Summed, PrefixAt
  <2>5. sum' = PrefixAt(k)'
    BY <1>3, <2>0 DEF PrefixAt
  <2>6. i' <= Len(weights') + 1
    BY <1>1, <2>0, <2>1
  <2>7. Summed(i - 1)' /\ sum' = PrefixAt(i - 1)'
    BY <2>1, <2>4, <2>5 DEF Summed, PrefixAt
  <2> QED
    BY <1>0, <2>1, <2>6, <2>7 DEF Summing
<1>6. Assigned'
  BY <1>0 DEF AddWeight, Assigned, MarkAt
<1>7. NobodyShortened'
  BY <1>0 DEF AddWeight, Summing, NobodyShortened
<1> QED
  BY <1>0, <1>4, <1>5, <1>6, <1>7 DEF AddWeight, IInv, sharing

\* A refused list of weights leaves everything as it is.
LEMMA Refusing ==
    ASSUME IInv, RefuseWeights
    PROVE  IInv'
<1>1. Types' /\ Assigned' /\ NobodyShortened'
  BY DEF IInv, RefuseWeights, loop, sharing, history, Types, Assigned,
         MarkAt, NobodyShortened
<1> QED
  BY <1>1 DEF IInv, RefuseWeights, history, Summing

\* The sum of all weights is the last of prefix.
LEMMA SummingDone ==
    ASSUME IInv, SumDone
    PROVE  IInv'
<1> USE Constants
<1>0. Types /\ Summing /\ Assigned /\ pc = "sum"
  BY DEF IInv, SumDone
<1>1. Len(weights) \in Nat /\ i = Len(weights) + 1 /\ sum > 0
  <2>1. Len(weights) \in Nat /\ i \in Nat /\ sum \in Nat
    BY <1>0 DEF Types, uint16
  <2>2. i <= Len(weights) + 1 /\ i > Len(weights) /\ sum # 0
    BY <1>0 DEF SumDone, Summing
  <2> QED  BY <2>1, <2>2
<1>2. Summed(Len(weights)) /\ sum = PrefixAt(Len(weights))
  BY <1>0, <1>1 DEF Summing
<1>3. Len(weights) > 0 /\ sum = AllWeight
  BY <1>1, <1>2 DEF PrefixAt, AllWeight
<1>4. Summed(Len(weights))'
  BY <1>2 DEF SumDone, Summed, PrefixAt, history
<1>5. Normalizing'
  <2>1. sum \in Nat /\ AllShares \in Nat
    BY <1>0 DEF Types, uint16, AllShares
  <2>2. AllShares * sum <= total * AllWeight
    BY <1>0, <1>3, <2>1 DEF Summing
  <2>3. marks' = << >> /\ Len(marks') = 0
    BY <1>0 DEF SumDone, history, Summing
  <2> QED
    BY <1>0, <1>1, <1>3, <2>1, <2>2, <2>3
    DEF SumDone, Summing, Normalizing, history, PrefixAt, MarkAt, AllWeight
<1>6. Types' /\ Assigned' /\ NobodyShortened'
  BY DEF IInv, SumDone, sharing, history, Types, Assigned, MarkAt,
         NobodyShortened
<1> QED
  BY <1>0, <1>1, <1>3, <1>4, <1>5, <1>6
  DEF IInv, SumDone, sharing, history, AllWeight

\* NormalizeWeight takes its shares out of those left and keeps what is left
\* in proportion.
LEMMA NormalizingStep ==
    ASSUME IInv, NormalizeWeight
    PROVE  IInv'
<1> USE Constants
<1>0. /\ Types /\ Summed(Len(weights)) /\ Assigned /\ Normalizing
      /\ AllWeight > 0 /\ pc = "normalize" /\ NobodyShortened
  BY DEF IInv, NormalizeWeight
<1>k. PICK k \in Nat : k = i /\ k > 0
  BY <1>0 DEF Types
<1>1. /\ k \in 1 .. Len(weights) /\ Len(weights) \in Nat
      /\ weights[k] \in uint16 /\ sum # 0
  BY <1>0, <1>k DEF NormalizeWeight, Types
<1> DEFINE w == weights[k]
           q == (w * total) \div sum
<1>2. /\ w \in Nat /\ sum \in Nat /\ total \in Nat /\ sum > 0
      /\ sum < Width /\ total < Width
  BY <1>0, <1>1 DEF Types, uint16
<1>3. AllWeight \in Nat /\ PrefixAt(k - 1) \in Nat /\ prefix[k] \in Nat
  <2>1. prefix \in Seq(uint16) /\ Len(prefix) = Len(weights)
    BY <1>0 DEF Types, Summed
  <2>2. \A x \in uint16 : x \in Nat
    BY DEF uint16
  <2> QED  BY <1>1, <2>1, <2>2 DEF AllWeight, PrefixAt
<1>4. prefix[k] = PrefixAt(k - 1) + w /\ prefix[k] <= AllWeight
  BY <1>0, <1>1 DEF Summed, PrefixAt, AllWeight
<1>5. sum = AllWeight - PrefixAt(k - 1) /\ total = AllShares - MarkAt(k - 1)
  BY <1>0, <1>k DEF Normalizing, PrefixAt, MarkAt
<1>6. w <= sum
  BY <1>2, <1>3, <1>4, <1>5
<1>7. /\ q \in Nat /\ q <= total /\ (w = sum => q = total)
      /\ AllShares * (sum - w) <= (total - q) * AllWeight
      /\ w * AllShares < (q + 1) * AllWeight
  <2>1. q \in Nat
    BY <1>2, DivBounds
  <2>2. AllShares * sum <= total * AllWeight
    BY <1>0 DEF Normalizing
  <2> HIDE DEF w
  <2>3. QED
    BY <1>0, <1>2, <1>3, <1>6, <2>1, <2>2, ShareStep
<1>8. /\ sum' = sum - w /\ total' = total - q /\ q \in uint16
      /\ normalized' = [normalized EXCEPT ![k] = q]
  <2>1. q < Width /\ total - q \in Nat /\ total - q < Width
    BY <1>2, <1>7
  <2>2. sum - w \in Nat /\ sum - w < Width
    BY <1>2, <1>6
  <2>3. q % Width = q /\ (total - q) % Width = total - q
    BY <1>7, <2>1, NoWrap
  <2>4. (sum - w) % Width = sum - w
    BY <2>2, NoWrap
  <2>5. normalizedWeight(weights[i], total, sum) = q
    BY <1>k, <2>3 DEF normalizedWeight
  <2>6. q \in uint16
    BY <1>7, <2>1 DEF uint16
  <2> QED
    BY <1>k, <2>3, <2>4, <2>5, <2>6
    DEF NormalizeWeight, remainingSum, remainingTotal
<1>9. /\ i' = k + 1 /\ i' - 1 = k
      /\ UNCHANGED <<weights, pc, splits, weightCounter, prefix>>
      /\ marks' = Append(marks, AllShares - total')
  BY <1>k DEF NormalizeWeight, sharing, AllShares
<1> HIDE DEF q, w
<1>q. q \in Nat /\ q <= total /\ (w = sum => q = total)
  BY <1>7
<1>10. /\ MarkAt(k - 1) \in Nat /\ MarkAt(k - 1) <= AllShares
       /\ Len(marks) = k - 1 /\ marks \in Seq(0 .. AllShares)
  <2>1. Len(marks) = k - 1 /\ marks \in Seq(0 .. AllShares)
    BY <1>0, <1>k DEF Normalizing, Types
  <2> QED  BY <1>1, <2>1 DEF MarkAt
<1>11. /\ AllShares - total' = MarkAt(k - 1) + q
       /\ AllShares - total' \in 0 .. AllShares
       /\ total' = AllShares - (MarkAt(k - 1) + q)
  <2> DEFINE m == MarkAt(k - 1)
  <2>1. total' = total - q /\ total = AllShares - m
    BY <1>5, <1>8
  <2>2. m \in Nat /\ m <= AllShares /\ total \in Nat
    BY <1>2, <1>10
  <2>3. q \in Nat /\ q <= total
    BY <1>q
  <2> HIDE DEF m
  <2>4. /\ AllShares - total' = m + q
        /\ AllShares - total' \in 0 .. AllShares
        /\ total' = AllShares - (m + q)
    BY <2>1, <2>2, <2>3
  <2> QED  BY <2>4 DEF m
<1>13. /\ marks' \in Seq(0 .. AllShares)
       /\ Len(marks') = k
       /\ marks'[k] = MarkAt(k - 1) + q
       /\ \A j \in 1 .. k - 1 : marks'[j] = marks[j]
  <2> QED  BY <1>1, <1>9, <1>10, <1>11
<1>14. \A j \in 0 .. k - 1 : MarkAt(j)' = MarkAt(j)
  BY <1>13 DEF MarkAt
<1>15. /\ normalized' \in [1 .. Len(weights) -> uint16]
       /\ normalized'[k] = q
       /\ \A j \in 1 .. Len(weights) : j # k => normalized'[j] = normalized[j]
  <2> QED  BY <1>0, <1>1, <1>8 DEF Types
<1>16. Types'
  <2>1. sum' \in uint16 /\ total' \in uint16
    BY <1>2, <1>6, <1>7, <1>8 DEF uint16
  <2>2. i' \in Nat \ {0}
    BY <1>9
  <2> QED  BY <1>0, <1>9, <1>13, <1>15, <2>1, <2>2 DEF Types
<1>17. Assigned'
  <2>1. \A j \in 1 .. k : MarkAt(j)' = MarkAt(j - 1)' + normalized'[j]
    <3> SUFFICES ASSUME NEW j \in 1 .. k
                 PROVE  MarkAt(j)' = MarkAt(j - 1)' + normalized'[j]
      OBVIOUS
    <3>1. CASE j = k
      <4>1. MarkAt(k)' = marks'[k] /\ MarkAt(k - 1)' = MarkAt(k - 1)
        BY <1>1, <1>14 DEF MarkAt
      <4> QED  BY <1>13, <1>15, <3>1, <4>1
    <3>2. CASE j # k
      <4>1. j \in 1 .. Len(marks) /\ j - 1 \in 0 .. k - 1 /\ j \in 0 .. k - 1
        BY <1>10, <3>2
      <4>2. MarkAt(j) = MarkAt(j - 1) + normalized[j]
        BY <1>0, <4>1 DEF Assigned
      <4>3. normalized'[j] = normalized[j]
        BY <1>1, <1>15, <3>2
      <4> QED  BY <1>14, <4>1, <4>2, <4>3
    <3> QED  BY <3>1, <3>2
  <2>2. \A j \in 1 .. Len(weights) : j > k => normalized'[j] = 0
    BY <1>0, <1>1, <1>10, <1>15 DEF Assigned
  <2> QED  BY <1>1, <1>9, <1>13, <2>1, <2>2 DEF Assigned
<1>18. NobodyShortened'
  <2>1. ASSUME NEW j \in 1 .. k
        PROVE  weights[j] * AllShares < (normalized'[j] + 1) * AllWeight
    <3>1. CASE j = k
      BY <1>7, <1>15, <3>1 DEF w
    <3>2. CASE j # k
      <4>1. j \in 1 .. Len(marks)
        BY <1>10, <3>2
      <4>2. normalized'[j] = normalized[j]
        BY <1>1, <1>15, <3>2
      <4> QED
        BY <1>0, <4>1, <4>2 DEF NobodyShortened, AllShares, AllWeight
    <3> QED  BY <3>1, <3>2
  <2>2. AllWeight = prefix'[Len(weights')] /\ weights' = weights
    BY <1>9 DEF AllWeight
  <2> QED  BY <1>13, <2>1, <2>2 DEF NobodyShortened, AllShares
<1>19. Normalizing'
  <2>1. AllWeight' = AllWeight /\ PrefixAt(k)' = prefix[k]
    BY <1>1, <1>9 DEF AllWeight, PrefixAt
  <2>2. sum' = AllWeight' - PrefixAt(k)'
    BY <1>2, <1>3, <1>4, <1>5, <1>8, <2>1
  <2>3. total' = AllShares - MarkAt(k)'
    BY <1>1, <1>11, <1>13 DEF MarkAt
  <2>4. sum' = 0 => total' = 0
    BY <1>2, <1>7, <1>8
  <2>5. AllShares * sum' <= total' * AllWeight'
    BY <1>7, <1>8, <2>1
  <2>6. i' <= Len(weights') + 1 /\ Len(marks') = i' - 1
    BY <1>1, <1>9, <1>13
  <2>7. PrefixAt(i - 1)' = PrefixAt(k)' /\ MarkAt(i - 1)' = MarkAt(k)'
    BY <1>9 DEF PrefixAt, MarkAt
  <2> QED
    BY <2>2, <2>3, <2>4, <2>5, <2>6, <2>7 DEF Normalizing
<1>20. /\ Summed(Len(weights))' /\ AllWeight' = AllWeight
       /\ weights' = weights /\ pc' = "normalize"
  BY <1>0, <1>9 DEF Summed, PrefixAt, AllWeight
<1> QED
  BY <1>0, <1>1, <1>9, <1>16, <1>17, <1>18, <1>19, <1>20 DEF IInv

\* When the loop ends no weight is left, hence no share either.
LEMMA NormalizingDone ==
    ASSUME IInv, Normalized
    PROVE  IInv'
<1> USE Constants
<1>0. /\ Types /\ Summed(Len(weights)) /\ Assigned /\ Normalizing
      /\ AllWeight > 0 /\ Len(weights) > 0 /\ pc = "normalize"
  BY DEF IInv, Normalized
<1>1. Len(weights) \in Nat /\ AllWeight \in Nat
  <2>1. prefix \in Seq(uint16) /\ Len(prefix) = Len(weights)
    BY <1>0 DEF Types, Summed
  <2>2. \A x \in uint16 : x \in Nat
    BY DEF uint16
  <2>3. Len(weights) \in Nat
    BY <1>0 DEF Types
  <2> QED  BY <1>0, <2>1, <2>2, <2>3 DEF AllWeight
<1>2. total = 0
  <2>1. CASE sum = 0
    BY <1>0, <2>1 DEF Normalizing
  <2>2. CASE i > Len(weights)
    <3>1. i - 1 = Len(weights)
      BY <1>0, <1>1, <2>2 DEF Normalizing, Types
    <3>2. PrefixAt(i - 1) = AllWeight
      BY <1>0, <1>1, <3>1 DEF PrefixAt, AllWeight
    <3>3. sum = 0
      BY <1>0, <1>1, <3>2 DEF Normalizing
    <3> QED  BY <1>0, <3>3 DEF Normalizing
  <2> QED  BY <2>1, <2>2 DEF Normalized
<1>3. Exhausted
  <2>1. Len(marks) = i - 1 /\ total = AllShares - MarkAt(i - 1)
    BY <1>0 DEF Normalizing
  <2>2. i \in Nat /\ i > 0 /\ marks \in Seq(0 .. AllShares)
    BY <1>0 DEF Types
  <2>3. MarkAt(i - 1) \in Nat
    BY <2>1, <2>2 DEF MarkAt
  <2>4. MarkAt(i - 1) = AllShares
    BY <1>2, <2>1, <2>3
  <2> QED  BY <2>1, <2>2, <2>4 DEF MarkAt, Exhausted
<1>4. /\ Types' /\ Assigned' /\ NobodyShortened' /\ Exhausted'
      /\ Summed(Len(weights))' /\ AllWeight' = AllWeight
  BY <1>3 DEF IInv, Normalized, loop, sharing, history, Types, Assigned,
     MarkAt, NobodyShortened, Exhausted, Summed, PrefixAt, AllWeight
<1> QED
  BY <1>0, <1>4 DEF IInv, Normalized, loop, sharing, history

\* What the steps after weightsNormalization leave alone.
LEMMA Settled ==
    ASSUME IInv, pc \in {"secret", "admin", "provider", "done"},
           UNCHANGED <<weights, sum, total, normalized, history>>
    PROVE  /\ Assigned' /\ NobodyShortened' /\ Exhausted'
           /\ Summed(Len(weights))' /\ AllWeight' > 0 /\ Len(weights') > 0
<1>1. /\ Assigned /\ NobodyShortened /\ Exhausted /\ Summed(Len(weights))
      /\ AllWeight > 0 /\ Len(weights) > 0
  BY DEF IInv
<1>2. UNCHANGED <<prefix, marks>>
  BY DEF history
<1> QED
  BY <1>1, <1>2 DEF Assigned, MarkAt, NobodyShortened, Exhausted, Summed,
     PrefixAt, AllWeight

\* Cutting the key in two, and a part into shares, assigns no share.
LEMMA Sharing ==
    ASSUME IInv,
           \/ \E part \in Field : SplitSecret(part)
           \/ \E g \in Groups : \E c \in [1 .. degree(g) -> Field] :
                 SplitToShamirShares(g, c)
    PROVE  IInv'
<1>1. CASE \E part \in Field : SplitSecret(part)
  <2>1. /\ pc = "secret" /\ pc' = "admin" /\ i' = 1
        /\ UNCHANGED <<weights, sum, total, normalized, splits, weightCounter,
                       history>>
    BY <1>1 DEF SplitSecret
  <2>2. /\ Assigned' /\ NobodyShortened' /\ Exhausted'
        /\ Summed(Len(weights))' /\ AllWeight' > 0 /\ Len(weights') > 0
    BY <2>1, Settled
  <2>3. Types'
    BY <2>1 DEF IInv, Types, history
  <2> QED  BY <2>1, <2>2, <2>3 DEF IInv
<1>2. CASE \E g \in Groups : \E c \in [1 .. degree(g) -> Field] :
              SplitToShamirShares(g, c)
  <2>1. /\ pc \in {"admin", "provider"}
        /\ UNCHANGED <<pc, i, weights, sum, total, normalized, splits,
                       weightCounter, history>>
    BY <1>2 DEF SplitToShamirShares, Groups, loop
  <2>2. /\ Assigned' /\ NobodyShortened' /\ Exhausted'
        /\ Summed(Len(weights))' /\ AllWeight' > 0 /\ Len(weights') > 0
    BY <2>1, Settled
  <2>3. Types'
    BY <2>1 DEF IInv, Types, history
  <2>4. Dealing => Dealing'
    BY <2>1 DEF Dealing, Dealt, Upto, MarkAt, history
  <2> QED  BY <2>1, <2>2, <2>3, <2>4 DEF IInv
<1> QED  BY <1>1, <1>2

\* The admins' splits are other splits.
LEMMA AdminSplit ==
    ASSUME IInv, KeySplit("admin") \/ SplitDone("admin")
    PROVE  IInv'
<1>0. /\ pc = "admin" /\ Types /\ splits["provider"] = << >>
      /\ UNCHANGED <<weights, sum, total, normalized, history>>
  BY DEF IInv, KeySplit, SplitDone
<1>1. /\ Assigned' /\ NobodyShortened' /\ Exhausted'
      /\ Summed(Len(weights))' /\ AllWeight' > 0 /\ Len(weights') > 0
  BY <1>0, Settled
<1>2. CASE KeySplit("admin")
  <2>1. Admins \in Nat /\ i \in Nat /\ i > 0 /\ weightCounter \in Nat
    BY <1>0, BackupAssumption DEF Types
  <2>2. /\ i <= Len(Weights("admin")) /\ Len(Weights("admin")) = Admins
        /\ Weights("admin")[i] = 1
    BY <1>2, <2>1 DEF KeySplit, Weights
  <2>3. weightCounter' \in Nat /\ i' \in Nat \ {0}
    BY <1>2, <2>1, <2>2 DEF KeySplit
  <2>4. splits' \in [Groups -> Seq(SUBSET Nat)]
    <3>1. weightCounter + 1 .. weightCounter + Weights("admin")[i]
              \in SUBSET Nat
      BY <2>1, <2>2
    <3>2. splits["admin"] \in Seq(SUBSET Nat)
      BY <1>0 DEF Types, Groups
    <3>3. Append(splits["admin"],
               weightCounter + 1 .. weightCounter + Weights("admin")[i])
              \in Seq(SUBSET Nat)
      BY <3>1, <3>2, AppendProperties
    <3> QED  BY <1>0, <1>2, <3>3, Zenon DEF KeySplit, Types
  <2>5. splits'["provider"] = << >> /\ pc' = "admin"
    BY <1>0, <1>2 DEF KeySplit, Types, Groups
  <2>6. Types'
    BY <1>0, <2>3, <2>4, <2>5 DEF Types, history
  <2> QED  BY <1>1, <2>5, <2>6 DEF IInv
<1>3. CASE SplitDone("admin")
  <2>1. /\ pc' = "provider" /\ i' = 1 /\ weightCounter' = 0
        /\ UNCHANGED <<splits, marks>>
    BY <1>3 DEF SplitDone, history
  <2>2. Types'
    BY <1>0, <2>1 DEF Types, history
  <2>3. Dealing'
    <3>1. Len(marks) \in Nat /\ Len(weights) \in Nat
      BY <1>0 DEF Types
    <3>2. Upto(0)' = 0
      BY <2>1, <3>1 DEF Upto, MarkAt
    <3>3. Upto(i - 1)' = Upto(0)' /\ Dealt(weightCounter)' = Dealt(0)'
      BY <2>1 DEF Upto, Dealt, MarkAt
    <3>4. Dealt(0)'
      BY <1>0, <2>1 DEF Dealt
    <3> QED  BY <1>0, <2>1, <3>1, <3>2, <3>3, <3>4 DEF Dealing
  <2> QED  BY <1>1, <2>1, <2>2, <2>3 DEF IInv
<1> QED  BY <1>2, <1>3

\* The next slice follows the shares dealt so far.
LEMMA DealtGrows ==
    ASSUME NEW n \in Nat, NEW m \in Nat, Types, Dealt(n),
           splits'["provider"] =
               Append(splits["provider"], n + 1 .. n + m)
    PROVE  Dealt(n + m)'
<1> DEFINE sp == splits["provider"]
           new == n + 1 .. n + m
<1>1. sp \in Seq(SUBSET Nat) /\ new \in SUBSET Nat
  BY DEF Types, Groups
<1>2. PICK l \in Nat : l = Len(sp)
  BY <1>1
<1>3. /\ Len(splits'["provider"]) = l + 1
      /\ splits'["provider"][l + 1] = new
      /\ \A o \in 1 .. l : splits'["provider"][o] = sp[o]
  BY <1>1, <1>2
<1>4. /\ \A o \in 1 .. l : sp[o] \subseteq 1 .. n
      /\ \A x \in 1 .. n : \E o \in 1 .. l :
            x \in sp[o] /\ \A q \in 1 .. l \ {o} : x \notin sp[q]
  BY <1>2 DEF Dealt
<1> HIDE DEF sp
<1>5. ASSUME NEW o \in 1 .. l + 1
      PROVE  splits'["provider"][o] \subseteq 1 .. n + m
  <2>1. 1 .. n \subseteq 1 .. n + m /\ new \subseteq 1 .. n + m
    OBVIOUS
  <2>2. o = l + 1 \/ o \in 1 .. l
    OBVIOUS
  <2> HIDE DEF new
  <2> QED  BY <1>3, <1>4, <2>1, <2>2
<1>6. ASSUME NEW x \in 1 .. n + m
      PROVE  \E o \in 1 .. l + 1 :
                /\ x \in splits'["provider"][o]
                /\ \A q \in 1 .. l + 1 \ {o} : x \notin splits'["provider"][q]
  <2>1. CASE x \in 1 .. n
    <3>1. PICK o \in 1 .. l :
              x \in sp[o] /\ \A q \in 1 .. l \ {o} : x \notin sp[q]
      BY <1>4, <2>1
    <3>2. x \notin new
      BY <2>1
    <3>3. \A q \in 1 .. l + 1 : q = l + 1 \/ q \in 1 .. l
      OBVIOUS
    <3>4. o \in 1 .. l + 1 /\ x \in splits'["provider"][o]
      BY <1>3, <3>1
    <3>5. \A q \in 1 .. l + 1 \ {o} : x \notin splits'["provider"][q]
      BY <1>3, <3>1, <3>2, <3>3
    <3> QED  BY <3>4, <3>5
  <2>2. CASE x \notin 1 .. n
    <3>1. x \in new
      BY <2>2
    <3>2. \A q \in 1 .. l + 1 \ {l + 1} : q \in 1 .. l
      OBVIOUS
    <3>3. \A q \in 1 .. l + 1 \ {l + 1} : x \notin splits'["provider"][q]
      BY <1>3, <1>4, <2>2, <3>2
    <3>4. l + 1 \in 1 .. l + 1 /\ x \in splits'["provider"][l + 1]
      BY <1>3, <3>1
    <3> QED  BY <3>3, <3>4
  <2> QED  BY <2>1, <2>2
<1> QED  BY <1>3, <1>5, <1>6 DEF Dealt

\* A provider's split follows those of the providers before it, and the last
\* one ends at the last share.
LEMMA ProviderSplit ==
    ASSUME IInv, KeySplit("provider") \/ SplitDone("provider")
    PROVE  IInv'
<1> USE Constants
<1>0. /\ pc = "provider" /\ Types /\ Dealing /\ Assigned /\ Exhausted
      /\ UNCHANGED <<weights, sum, total, normalized, history>>
  BY DEF IInv, KeySplit, SplitDone
<1>1. /\ Assigned' /\ NobodyShortened' /\ Exhausted'
      /\ Summed(Len(weights))' /\ AllWeight' > 0 /\ Len(weights') > 0
  BY <1>0, Settled
<1>2. /\ Weights("provider") = normalized
      /\ Len(normalized) = Len(weights) /\ Len(weights) \in Nat
      /\ Len(marks) \in Nat /\ weightCounter \in Nat
      /\ marks \in Seq(0 .. AllShares)
  <2>1. Len(weights) \in Nat /\ Len(marks) \in Nat /\ weightCounter \in Nat
    BY <1>0 DEF Types
  <2> QED  BY <1>0, <2>1, NormalizedSeq DEF Weights, Types
<1>k. PICK k \in Nat : k = i /\ k > 0
  BY <1>0 DEF Types
<1>3. CASE KeySplit("provider")
  <2>1. k \in 1 .. Len(weights) /\ normalized[k] \in Nat
    <3>1. k \in 1 .. Len(weights)
      BY <1>2, <1>3, <1>k DEF KeySplit
    <3>2. normalized[k] \in uint16
      BY <1>0, <3>1 DEF Types
    <3> QED  BY <3>1, <3>2 DEF uint16
  <2>2. /\ pc' = "provider" /\ i' = k + 1
        /\ weightCounter' = weightCounter + normalized[k]
        /\ splits' = [splits EXCEPT !["provider"] = Append(@,
               weightCounter + 1 .. weightCounter + normalized[k])]
    BY <1>0, <1>2, <1>3, <1>k DEF KeySplit
  <2>3. splits'["provider"] = Append(splits["provider"],
               weightCounter + 1 .. weightCounter + normalized[k])
    BY <1>0, <2>2 DEF Types, Groups
  <2>4. splits' \in [Groups -> Seq(SUBSET Nat)]
    <3>1. weightCounter + 1 .. weightCounter + normalized[k] \in SUBSET Nat
      BY <1>2, <2>1
    <3>2. splits["provider"] \in Seq(SUBSET Nat)
      BY <1>0 DEF Types, Groups
    <3>3. Append(splits["provider"],
               weightCounter + 1 .. weightCounter + normalized[k])
              \in Seq(SUBSET Nat)
      BY <3>1, <3>2, AppendProperties
    <3> QED  BY <1>0, <2>2, <3>3, Zenon DEF Types
  <2>5. Types'
    <3>1. weightCounter' \in Nat /\ i' \in Nat \ {0}
      BY <1>2, <2>1, <2>2
    <3> QED  BY <1>0, <2>2, <2>4, <3>1 DEF Types, history
  <2>6. weightCounter' = Upto(k)
    <3>1. weightCounter = Upto(k - 1)
      BY <1>0, <1>k DEF Dealing
    <3>2. CASE k <= Len(marks)
      <4>1. MarkAt(k) = MarkAt(k - 1) + normalized[k]
        BY <1>0, <1>2, <1>k, <3>2 DEF Assigned
      <4> QED  BY <1>2, <2>1, <2>2, <3>1, <3>2, <4>1 DEF Upto
    <3>3. CASE k > Len(marks)
      <4>1. normalized[k] = 0
        BY <1>0, <2>1, <3>3 DEF Assigned
      <4>2. weightCounter = AllShares
        BY <1>0, <1>2, <2>1, <3>1, <3>3 DEF Upto, MarkAt, Exhausted
      <4> QED  BY <1>2, <2>2, <3>3, <4>1, <4>2 DEF Upto
    <3> QED  BY <1>2, <3>2, <3>3
  <2>7. Dealt(weightCounter)'
    <3>1. PICK n \in Nat : n = weightCounter
      BY <1>2
    <3>2. PICK m \in Nat : m = normalized[k]
      BY <2>1
    <3>3. Dealt(n)
      BY <1>0, <3>1 DEF Dealing
    <3>4. Dealt(n + m)'
      BY <1>0, <2>3, <3>1, <3>2, <3>3, DealtGrows
    <3>5. weightCounter' = n + m
      BY <2>2, <3>1, <3>2
    <3> QED  BY <3>4, <3>5 DEF Dealt
  <2>8. Dealing'
    <3>1. Len(splits'["provider"]) = k
      <4>1. splits["provider"] \in Seq(SUBSET Nat)
            /\ Len(splits["provider"]) = k - 1
        BY <1>0, <1>k DEF Types, Groups, Dealing
      <4> QED  BY <2>3, <4>1
    <3>2. Upto(i - 1)' = Upto(k)
      BY <1>0, <2>2 DEF Upto, MarkAt, history
    <3> QED
      BY <1>0, <1>2, <2>1, <2>2, <2>6, <2>7, <3>1, <3>2 DEF Dealing
  <2> QED  BY <1>1, <2>2, <2>5, <2>8 DEF IInv
<1>4. CASE SplitDone("provider")
  <2>1. /\ pc' = "done" /\ i' = 1 /\ weightCounter' = 0
        /\ UNCHANGED splits
    BY <1>4 DEF SplitDone
  <2>2. Types'
    BY <1>0, <2>1 DEF Types, history
  <2>3. i - 1 = Len(weights)
    BY <1>0, <1>2, <1>k, <1>4 DEF SplitDone, Dealing
  <2>4. weightCounter = AllShares
    <3>1. weightCounter = Upto(Len(weights))
      BY <1>0, <2>3 DEF Dealing
    <3>2. Len(marks) <= Len(weights) /\ Len(marks) # 0
      BY <1>0 DEF Assigned, Exhausted
    <3> QED
      BY <1>0, <1>2, <3>1, <3>2 DEF Upto, MarkAt, Exhausted
  <2>5. /\ Dealt(AllShares) /\ Len(splits["provider"]) = Len(weights)
    BY <1>0, <2>3, <2>4 DEF Dealing
  <2>6. Dealt(AllShares)' /\ Len(splits'["provider"]) = Len(weights')
    BY <1>0, <2>1, <2>5 DEF Dealt
  <2> QED  BY <1>1, <2>1, <2>2, <2>6 DEF IInv
<1> QED  BY <1>3, <1>4

-----------------------------------------------------------------------------
(* The theorems *)

\* No step of BackupWallet loses count of the shares: those assigned so far
\* and those left always add up to NormalizationConstant, and those left are
\* never less than in proportion to the weight left.
THEOREM KeyBackupInvariant == Spec => []IInv
<1>1. IInv /\ [Next]_vars => IInv'
  <2> SUFFICES ASSUME IInv, [Next]_vars PROVE IInv'
    OBVIOUS
  <2>1. CASE UNCHANGED vars
    BY <2>1 DEF IInv, vars, loop, sharing, history, Types, Summing, Summed,
       PrefixAt, AllWeight, Assigned, MarkAt, NobodyShortened, Normalizing,
       Exhausted, Dealing, Dealt, Upto
  <2>2. CASE AddWeight
    BY <2>2, Adding
  <2>3. CASE RefuseWeights
    BY <2>3, Refusing
  <2>4. CASE SumDone
    BY <2>4, SummingDone
  <2>5. CASE NormalizeWeight
    BY <2>5, NormalizingStep
  <2>6. CASE Normalized
    BY <2>6, NormalizingDone
  <2>7. CASE \E part \in Field : SplitSecret(part)
    BY <2>7, Sharing
  <2>8. CASE \E g \in Groups : \E c \in [1 .. degree(g) -> Field] :
                SplitToShamirShares(g, c)
    BY <2>8, Sharing
  <2>9. CASE \E g \in Groups : KeySplit(g) \/ SplitDone(g)
    BY <2>9, AdminSplit, ProviderSplit DEF Groups
  <2> QED
    BY <2>1, <2>2, <2>3, <2>4, <2>5, <2>6, <2>7, <2>8, <2>9 DEF Next
<1> QED  BY <1>1, Initially, PTL DEF Spec

\* However the weights round, every one of the shares goes to exactly one
\* provider: weightsNormalization assigns them all and SplitAndEncrypt's
\* slices neither overlap nor leave a gap.
THEOREM SharesArePartitioned == Spec => []SharesPartitioned
<1>1. IInv => SharesPartitioned
  <2> SUFFICES ASSUME IInv, pc = "done" PROVE SharesPartitioned
    BY DEF SharesPartitioned
  <2>1. Len(splits["provider"]) = Len(weights) /\ Dealt(AllShares)
    BY DEF IInv
  <2> QED  BY <2>1 DEF SharesPartitioned, Dealt, AllShares
<1> QED  BY <1>1, KeyBackupInvariant, PTL

\* No provider gets less than its exact proportion of the shares rounded
\* down, at whatever place of the signing policy it stands.
THEOREM NobodyIsShortened == Spec => []NobodyShortened
<1>1. IInv => NobodyShortened
  BY DEF IInv
<1> QED  BY <1>1, KeyBackupInvariant, PTL

-----------------------------------------------------------------------------
(* Coalitions *)

\* If every member gets more than its proportion less one share, the coalition
\* gets more than its proportion less one share per member.
LEMMA CoalitionBound ==
    ASSUME NEW S, IsFiniteSet(S), NEW a, NEW b, NEW n \in Nat, NEW A \in Nat,
           \A x \in S : a[x] \in Nat /\ b[x] \in Nat,
           \A x \in S : a[x] * n < (b[x] + 1) * A
    PROVE  SumOf(a, S) * n + Cardinality(S)
               <= (SumOf(b, S) + Cardinality(S)) * A
<1> DEFINE Q == {s \in SUBSET S : SumOf(a, s) * n + Cardinality(s)
                                    <= (SumOf(b, s) + Cardinality(s)) * A}
<1>1. {} \in Q
  <2>1. IsFiniteSet({}) /\ Cardinality({}) = 0
    BY FS_EmptySet
  <2>2. SumOf(a, {}) = 0 /\ SumOf(b, {}) = 0
    BY <2>1, SumFacts
  <2> QED  BY <2>1, <2>2
<1>2. ASSUME NEW s \in SUBSET S, NEW x \in S \ s, s \in Q
      PROVE  s \cup {x} \in Q
  <2>1. /\ SumOf(a, s \cup {x}) = a[x] + SumOf(a, s)
        /\ SumOf(a, s) \in Nat /\ a[x] \in Nat
    BY SumAdd
  <2>2. /\ SumOf(b, s \cup {x}) = b[x] + SumOf(b, s)
        /\ SumOf(b, s) \in Nat /\ b[x] \in Nat
    BY SumAdd
  <2>3. Cardinality(s \cup {x}) = Cardinality(s) + 1 /\ Cardinality(s) \in Nat
    BY FS_Subset, FS_AddElement, FS_CardinalityType
  <2>4. PICK p \in Nat, q \in Nat, c \in Nat, d \in Nat, e \in Nat :
           /\ p = SumOf(a, s) /\ q = SumOf(b, s) /\ c = Cardinality(s)
           /\ d = a[x] /\ e = b[x]
    BY <2>1, <2>2, <2>3
  <2>5. p * n + c <= (q + c) * A /\ d * n < (e + 1) * A
    BY <1>2, <2>4
  <2>6. (d + p) * n + (c + 1) <= ((e + q) + (c + 1)) * A
    <3>1. /\ (d + p) * n = d * n + p * n
          /\ ((e + q) + (c + 1)) * A = (e + 1) * A + (q + c) * A
      OBVIOUS
    <3>2. /\ d * n \in Nat /\ p * n \in Nat
          /\ (e + 1) * A \in Nat /\ (q + c) * A \in Nat
      OBVIOUS
    <3> QED  BY <2>5, <3>1, <3>2
  <2> QED  BY <2>1, <2>2, <2>3, <2>4, <2>6
<1>3. S \in Q
  <2> HIDE DEF Q
  <2> QED  BY <1>1, <1>2, FiniteInduction
<1> QED  BY <1>3

\* A slice of n shares.
IsSlice(s, n) == \E m \in Nat : s = m + 1 .. m + n

\* A split is a slice as large as the normalized weight of its owner, and
\* normalizing has used up all of the weight.
Sized ==
    \A o \in 1 .. Len(splits["provider"]) :
        IsSlice(splits["provider"][o], normalized[o])

UsedUp ==
    pc \in {"secret", "admin", "provider", "done"} =>
        PrefixAt(Len(marks)) = AllWeight

\* A slice of n consecutive indices has n elements.
LEMMA SliceSize ==
    ASSUME NEW s, NEW n \in Nat, IsSlice(s, n)
    PROVE  Cardinality(s) = n /\ IsFiniteSet(s)
<1>1. PICK m \in Nat : s = m + 1 .. m + n
  BY DEF IsSlice
<1>2. m + 1 \in Int /\ m + n \in Int
  OBVIOUS
<1>3. /\ IsFiniteSet(m + 1 .. m + n)
      /\ Cardinality(m + 1 .. m + n)
           = IF m + 1 > m + n THEN 0 ELSE (m + n) - (m + 1) + 1
  BY <1>2, FS_Interval
<1> QED  BY <1>1, <1>3

\* Every step leaves every split the slice its owner's weight asks for.
LEMMA SizedStep ==
    ASSUME IInv, Sized, [Next]_vars
    PROVE  Sized'
<1> USE Constants
<1>0. Types
  BY DEF IInv
<1>1. CASE KeySplit("provider")
  <2>1. Dealing /\ pc = "provider"
    BY <1>1 DEF KeySplit, IInv
  <2>2. PICK k \in Nat : k = i /\ k > 0 /\ Len(splits["provider"]) = k - 1
    BY <1>0, <2>1 DEF Types, Dealing
  <2>3. /\ k \in 1 .. Len(weights)
        /\ Weights("provider") = normalized
    BY <1>0, <1>1, <2>2, NormalizedSeq DEF KeySplit, Weights, Types
  <2>4. normalized[k] \in Nat /\ weightCounter \in Nat
    <3>1. normalized[k] \in uint16
      BY <1>0, <2>3 DEF Types
    <3> QED  BY <1>0, <3>1 DEF Types, uint16
  <2> DEFINE slice == weightCounter + 1 .. weightCounter + normalized[k]
             sp == splits["provider"]
  <2>5. splits'["provider"] = Append(sp, slice) /\ normalized' = normalized
    BY <1>0, <1>1, <2>2, <2>3 DEF KeySplit, Types, Groups
  <2>6. IsSlice(slice, normalized[k])
    BY <2>4 DEF IsSlice
  <2>7. sp \in Seq(SUBSET Nat) /\ slice \in SUBSET Nat
    BY <1>0, <2>4 DEF Types, Groups
  <2> HIDE DEF slice, sp
  <2>8. /\ Len(splits'["provider"]) = k
        /\ splits'["provider"][k] = slice
        /\ \A o \in 1 .. k - 1 : splits'["provider"][o] = sp[o]
    BY <2>2, <2>5, <2>7 DEF sp
  <2>9. \A o \in 1 .. k - 1 : IsSlice(sp[o], normalized[o])
    BY <2>2 DEF Sized, sp
  <2> QED  BY <2>2, <2>5, <2>6, <2>8, <2>9 DEF Sized
<1>2. CASE splits'["provider"] = splits["provider"]
           /\ normalized' = normalized
  BY <1>2 DEF Sized
<1>3. CASE splits'["provider"] = << >>
  BY <1>3 DEF Sized
<1>4. \/ KeySplit("provider")
      \/ splits'["provider"] = splits["provider"] /\ normalized' = normalized
      \/ splits'["provider"] = << >>
  <2>1. CASE AddWeight \/ RefuseWeights \/ SumDone \/ Normalized
    BY <2>1 DEF AddWeight, RefuseWeights, SumDone, Normalized, loop, sharing
  <2>2. CASE NormalizeWeight
    BY <2>2 DEF NormalizeWeight, sharing, IInv
  <2>3. CASE \E part \in Field : SplitSecret(part)
    BY <2>3 DEF SplitSecret
  <2>4. CASE \E g \in Groups : \E c \in [1 .. degree(g) -> Field] :
                SplitToShamirShares(g, c)
    BY <2>4 DEF SplitToShamirShares, loop
  <2>5. CASE KeySplit("admin")
    BY <1>0, <2>5 DEF KeySplit, Types, Groups
  <2>6. CASE \E g \in Groups : SplitDone(g)
    BY <2>6 DEF SplitDone
  <2>7. CASE UNCHANGED vars
    BY <2>7 DEF vars, loop, sharing
  <2> QED
    BY <2>1, <2>2, <2>3, <2>4, <2>5, <2>6, <2>7 DEF Next, Groups
<1> QED  BY <1>1, <1>2, <1>3, <1>4

\* Every step keeps UsedUp.
LEMMA UsedUpStep ==
    ASSUME IInv, UsedUp, [Next]_vars
    PROVE  UsedUp'
<1> USE Constants
<1>1. CASE Normalized
  <2>1. /\ pc = "normalize" /\ UNCHANGED <<weights, prefix, marks>>
        /\ Types /\ Normalizing
        /\ i > Len(weights) \/ sum = 0
        /\ Len(weights) > 0 /\ Summed(Len(weights))
    BY <1>1 DEF Normalized, history, IInv
  <2>2. Len(weights) \in Nat /\ i \in Nat /\ Len(marks) = i - 1
        /\ i <= Len(weights) + 1
    BY <2>1 DEF Types, Normalizing
  <2>3. CASE i > Len(weights)
    <3>1. Len(marks) = Len(weights)
      BY <2>2, <2>3
    <3> QED  BY <2>1, <2>2, <3>1 DEF UsedUp, PrefixAt, AllWeight
  <2>4. CASE sum = 0
    <3>1. AllWeight \in Nat /\ PrefixAt(i - 1) \in Nat
      <4>1. prefix \in Seq(uint16) /\ Len(prefix) = Len(weights)
        BY <2>1 DEF Types, Summed
      <4>2. \A j \in 1 .. Len(weights) : prefix[j] \in Nat
        BY <4>1 DEF uint16
      <4> QED  BY <2>1, <2>2, <4>2 DEF AllWeight, PrefixAt
    <3>2. PrefixAt(i - 1) = AllWeight
      BY <2>1, <2>4, <3>1 DEF Normalizing
    <3> QED  BY <2>1, <2>2, <3>2 DEF UsedUp, PrefixAt, AllWeight
  <2> QED  BY <2>1, <2>3, <2>4
<1>2. CASE ~Normalized
  <2>1. \/ pc' \in {"sum", "normalize", "error"}
        \/ /\ pc \in {"secret", "admin", "provider", "done"}
           /\ UNCHANGED <<weights, prefix, marks>>
    <3>1. CASE AddWeight \/ RefuseWeights \/ SumDone \/ NormalizeWeight
      BY <3>1 DEF AddWeight, RefuseWeights, SumDone, NormalizeWeight
    <3>2. CASE \E part \in Field : SplitSecret(part)
      BY <3>2 DEF SplitSecret, history
    <3>3. CASE \E g \in Groups : \E c \in [1 .. degree(g) -> Field] :
                  SplitToShamirShares(g, c)
      BY <3>3 DEF SplitToShamirShares, history, Groups
    <3>4. CASE \E g \in Groups : KeySplit(g) \/ SplitDone(g)
      BY <3>4 DEF KeySplit, SplitDone, history, Groups
    <3>5. CASE UNCHANGED vars
      BY <3>5 DEF vars, history, IInv, Types
    <3> QED  BY <1>2, <3>1, <3>2, <3>3, <3>4, <3>5 DEF Next
  <2> QED  BY <2>1 DEF UsedUp, PrefixAt, AllWeight
<1> QED  BY <1>1, <1>2

\* The last running total is the sum of the weights.
LEMMA WeightsSum ==
    ASSUME IInv, pc = "done"
    PROVE  /\ AllWeight = SumOf(weights, 1 .. Len(weights))
           /\ PrefixAt(Len(marks)) = SumOf(weights, 1 .. Len(marks))
           /\ AllWeight \in Nat
           /\ \A o \in 1 .. Len(weights) : weights[o] \in Nat
<1> USE Constants
<1>0. /\ Types /\ Summed(Len(weights)) /\ Len(weights) > 0 /\ Assigned
      /\ Len(weights) \in Nat /\ Len(marks) \in Nat
      /\ Len(marks) <= Len(weights)
  BY DEF IInv, Types, Assigned
<1>n. PICK n \in Nat : n = Len(weights)
  BY <1>0
<1>m. PICK m \in Nat : m = Len(marks) /\ m <= n
  BY <1>0, <1>n
<1>1. \A o \in 1 .. n : weights[o] \in Nat
  <2>1. \A o \in 1 .. n : weights[o] \in uint16
    BY <1>0, <1>n DEF Types
  <2> QED  BY <2>1 DEF uint16
<1> DEFINE f == [j \in 0 .. n |-> PrefixAt(j)]
<1>2. f[0] = 0
  BY DEF PrefixAt
<1>3. \A j \in 1 .. n : f[j] = f[j - 1] + weights[j]
  <2> TAKE j \in 1 .. n
  <2>1. prefix[j] = PrefixAt(j - 1) + weights[j]
    BY <1>0, <1>n DEF Summed
  <2>2. PrefixAt(j) = prefix[j]
    BY DEF PrefixAt
  <2>3. f[j] = PrefixAt(j) /\ f[j - 1] = PrefixAt(j - 1)
    OBVIOUS
  <2> QED  BY <2>1, <2>2, <2>3
<1>4. f[n] = PrefixAt(n) /\ f[m] = PrefixAt(m)
  BY <1>m
<1>5. PrefixAt(n) = AllWeight
  BY <1>0, <1>n DEF PrefixAt, AllWeight
<1> HIDE DEF f
<1>6. \A j \in 0 .. n : f[j] = SumOf(weights, 1 .. j)
  BY <1>1, <1>2, <1>3, RunningSum
<1>7. f[n] = SumOf(weights, 1 .. n) /\ f[m] = SumOf(weights, 1 .. m)
  BY <1>m, <1>6
<1>8. SumOf(weights, 1 .. n) \in Nat
  <2>1. IsFiniteSet(1 .. n)
    BY FS_Interval
  <2> QED  BY <1>1, <2>1, SumFacts
<1> QED  BY <1>n, <1>m, <1>1, <1>4, <1>5, <1>7, <1>8

\* The normalized weights add up to all of the shares.
LEMMA SharesSum ==
    ASSUME IInv, pc \in {"provider", "done"}
    PROVE  /\ SumOf(normalized, 1 .. Len(weights)) = AllShares
           /\ \A o \in 1 .. Len(weights) : normalized[o] \in Nat
<1> USE Constants
<1>0. /\ Types /\ Assigned /\ Exhausted
      /\ Len(weights) \in Nat /\ Len(marks) \in Nat
      /\ Len(marks) <= Len(weights) /\ Len(marks) # 0
  BY DEF IInv, Types, Assigned, Exhausted
<1>n. PICK n \in Nat : n = Len(weights)
  BY <1>0
<1>1. \A o \in 1 .. n : normalized[o] \in Nat
  <2>1. \A o \in 1 .. n : normalized[o] \in uint16
    BY <1>0, <1>n DEF Types
  <2> QED  BY <2>1 DEF uint16
<1> DEFINE f == [j \in 0 .. n |-> Upto(j)]
<1>2. f[0] = 0
  BY <1>0 DEF Upto, MarkAt
<1>3. \A j \in 1 .. n : f[j] = f[j - 1] + normalized[j]
  <2> TAKE j \in 1 .. n
  <2>1. f[j] = Upto(j) /\ f[j - 1] = Upto(j - 1)
    OBVIOUS
  <2>2. CASE j <= Len(marks)
    <3>1. MarkAt(j) = MarkAt(j - 1) + normalized[j]
      BY <1>0, <2>2 DEF Assigned
    <3> QED  BY <1>0, <2>1, <2>2, <3>1 DEF Upto
  <2>3. CASE j > Len(marks)
    <3>1. normalized[j] = 0
      BY <1>0, <1>n, <2>3 DEF Assigned
    <3>2. Upto(j) = AllShares
      BY <2>3 DEF Upto
    <3>3. Upto(j - 1) = AllShares
      BY <1>0, <2>3 DEF Upto, MarkAt, Exhausted
    <3> QED  BY <2>1, <3>1, <3>2, <3>3
  <2> QED  BY <1>0, <2>2, <2>3
<1>4. f[n] = AllShares
  BY <1>0, <1>n DEF Upto, MarkAt, Exhausted
<1> HIDE DEF f
<1>5. \A j \in 0 .. n : f[j] = SumOf(normalized, 1 .. j)
  BY <1>1, <1>2, <1>3, RunningSum
<1>6. f[n] = SumOf(normalized, 1 .. n)
  BY <1>5
<1> QED  BY <1>n, <1>1, <1>4, <1>6

\* If the first m of n numbers add up to what all do, the others are zero.
LEMMA NothingBeyond ==
    ASSUME NEW m \in Nat, NEW n \in Nat, m <= n, NEW w,
           \A q \in 1 .. n : w[q] \in Nat,
           SumOf(w, 1 .. n) = SumOf(w, 1 .. m), NEW o \in m + 1 .. n
    PROVE  w[o] = 0
<1> DEFINE S == 1 .. n
           T == 1 .. m
<1>1. IsFiniteSet(S)
  BY FS_Interval
<1>2. T \in SUBSET S /\ o \in S \ T /\ \A q \in S : w[q] \in Nat
      /\ SumOf(w, S) = SumOf(w, T)
  OBVIOUS
<1> HIDE DEF S, T
<1>3. /\ SumOf(w, T \cup {o}) = w[o] + SumOf(w, T)
      /\ SumOf(w, T) \in Nat /\ w[o] \in Nat
  BY <1>1, <1>2, SumAdd
<1>4. PICK U \in SUBSET S : U = T \cup {o}
  BY <1>2
<1>5. SumOf(w, U) <= SumOf(w, S)
  BY <1>1, <1>2, SumSplit
<1> QED  BY <1>2, <1>3, <1>4, <1>5

\* Nobody is shortened, those behind the last mark included: they weigh nothing.
LEMMA EachShare ==
    ASSUME IInv, UsedUp, pc = "done", NEW o \in 1 .. Len(weights)
    PROVE  weights[o] * AllShares < (normalized[o] + 1) * AllWeight
<1> USE Constants
<1>0. /\ NobodyShortened /\ AllWeight > 0 /\ Types /\ Assigned
      /\ Len(weights) \in Nat /\ Len(marks) \in Nat
      /\ Len(marks) <= Len(weights)
      /\ PrefixAt(Len(marks)) = AllWeight
  BY DEF IInv, Types, Assigned, UsedUp
<1>1. CASE o <= Len(marks)
  BY <1>0, <1>1 DEF NobodyShortened, AllShares, AllWeight
<1>2. CASE o > Len(marks)
  <2>1. normalized[o] = 0
    BY <1>0, <1>2 DEF Assigned
  <2>2. /\ AllWeight = SumOf(weights, 1 .. Len(weights))
        /\ AllWeight = SumOf(weights, 1 .. Len(marks))
        /\ AllWeight \in Nat
        /\ \A q \in 1 .. Len(weights) : weights[q] \in Nat
    BY <1>0, WeightsSum
  <2>3. weights[o] = 0
    <3>1. PICK m \in Nat, n \in Nat :
             m = Len(marks) /\ n = Len(weights) /\ m <= n /\ o \in m + 1 .. n
      BY <1>0, <1>2
    <3>2. SumOf(weights, 1 .. n) = SumOf(weights, 1 .. m)
          /\ \A q \in 1 .. n : weights[q] \in Nat
      BY <2>2, <3>1
    <3> QED  BY <3>1, <3>2, NothingBeyond
  <2> QED  BY <1>0, <2>1, <2>2, <2>3
<1> QED  BY <1>0, <1>1, <1>2

\* What a coalition of providers gets strays from its weight by less than one
\* share per member downwards, and per other provider upwards.
THEOREM CoalitionsFollowWeight == Spec => []SharesFollowWeight
<1>1. Init => Sized /\ UsedUp
  BY DEF Init, Sized, UsedUp, Groups
<1>2. IInv /\ Sized /\ UsedUp /\ [Next]_vars => Sized' /\ UsedUp'
  BY SizedStep, UsedUpStep
<1>3. IInv /\ Sized /\ UsedUp => SharesFollowWeight
  <2> SUFFICES ASSUME IInv, Sized, UsedUp, pc = "done",
                      NEW S \in SUBSET Owners("provider")
               PROVE  LET weight == MapThenSumSet(LAMBDA o : weights[o], S)
                          all == FoldSeq(+, 0, weights)
                          exact == weight * NormalizationConstant
                          given == SharesOf("provider", S) * all
                      IN  /\ S # {} => given > exact - Cardinality(S) * all
                          /\ S # Owners("provider") =>
                               given < exact
                                 + Cardinality(Owners("provider") \ S) * all
    BY DEF SharesFollowWeight
  <2> USE Constants
  <2>0. /\ Types /\ Len(weights) \in Nat
        /\ Len(splits["provider"]) = Len(weights)
        /\ splits["provider"] \in Seq(SUBSET Nat)
    BY DEF IInv, Types, Groups
  <2> DEFINE D == 1 .. Len(weights)
             R == D \ S
  <2>1. Owners("provider") = D /\ IsFiniteSet(D)
    <3>1. DOMAIN splits["provider"] = 1 .. Len(splits["provider"])
      BY <2>0
    <3> QED  BY <2>0, <3>1, FS_Interval DEF Owners
  <2>2. Held("provider") = normalized
    <3>1. normalized = [o \in D |-> normalized[o]]
      BY <2>0 DEF Types
    <3>2. \A o \in D : Cardinality(splits["provider"][o]) = normalized[o]
      <4>1. \A o \in D : IsSlice(splits["provider"][o], normalized[o])
        BY <2>0 DEF Sized
      <4>2. \A o \in D : normalized[o] \in Nat
        BY SharesSum
      <4> QED  BY <4>1, <4>2, SliceSize
    <3> QED  BY <2>1, <3>1, <3>2 DEF Held
  <2>3. /\ SumOf(weights, D) = AllWeight /\ AllWeight \in Nat
        /\ \A o \in D : weights[o] \in Nat
    BY WeightsSum
  <2>4. /\ SumOf(normalized, D) = AllShares
        /\ \A o \in D : normalized[o] \in Nat
    BY SharesSum
  <2>5. \A o \in D : weights[o] * AllShares < (normalized[o] + 1) * AllWeight
    BY EachShare
  <2>6. MapThenSumSet(LAMBDA o : weights[o], S) = SumOf(weights, S)
    BY Zenon DEF SumOf
  <2>7. FoldSeq(+, 0, weights) = AllWeight
    <3>1. DOMAIN weights = D
      BY <2>0 DEF Types
    <3>2. FoldSeq(+, 0, weights) = SumOf(weights, DOMAIN weights)
      BY Zenon DEF FoldSeq, FoldFunction, FoldFunctionOnSet, SumOf,
         MapThenSumSet
    <3> QED  BY <2>3, <3>1, <3>2
  <2>8. SharesOf("provider", S) = SumOf(normalized, S)
    BY <2>2, Zenon DEF SharesOf, SumOf, MapThenSumSet, MapThenFoldSet
  <2> HIDE DEF D
  <2>9. S \in SUBSET D /\ R \in SUBSET D
    BY <2>1
  <2>10. ASSUME NEW T \in SUBSET D
         PROVE  /\ SumOf(weights, T) \in Nat /\ SumOf(normalized, T) \in Nat
                /\ IsFiniteSet(T) /\ Cardinality(T) \in Nat
                /\ T # {} => Cardinality(T) > 0
                /\ SumOf(weights, T) * AllShares + Cardinality(T)
                     <= (SumOf(normalized, T) + Cardinality(T)) * AllWeight
    <3>1. IsFiniteSet(T) /\ Cardinality(T) \in Nat
          /\ (T # {} => Cardinality(T) > 0)
      BY <2>1, FS_Subset, FS_CardinalityType, FS_EmptySet
    <3>2. SumOf(weights, T) \in Nat /\ SumOf(normalized, T) \in Nat
      BY <2>3, <2>4, <3>1, SumFacts
    <3>3. /\ \A x \in T : weights[x] \in Nat /\ normalized[x] \in Nat
          /\ \A x \in T :
                weights[x] * AllShares < (normalized[x] + 1) * AllWeight
      BY <2>3, <2>4, <2>5
    <3>4. SumOf(weights, T) * AllShares + Cardinality(T)
              <= (SumOf(normalized, T) + Cardinality(T)) * AllWeight
      BY <2>3, <3>1, <3>3, CoalitionBound
    <3> QED  BY <3>1, <3>2, <3>4
  <2>11. /\ AllWeight = SumOf(weights, S) + SumOf(weights, R)
         /\ AllShares = SumOf(normalized, S) + SumOf(normalized, R)
    <3>1. SumOf(weights, D) = SumOf(weights, S) + SumOf(weights, D \ S)
      BY <2>1, <2>3, <2>9, SumSplit
    <3>2. SumOf(normalized, D)
              = SumOf(normalized, S) + SumOf(normalized, D \ S)
      BY <2>1, <2>4, <2>9, SumSplit
    <3> QED  BY <2>3, <2>4, <3>1, <3>2
  <2> HIDE DEF R
  <2>12. PICK w \in Nat, v \in Nat, p \in Nat, q \in Nat, c \in Nat,
              d \in Nat, a \in Nat, n \in Nat :
            /\ w = SumOf(weights, S) /\ v = SumOf(weights, R)
            /\ p = SumOf(normalized, S) /\ q = SumOf(normalized, R)
            /\ c = Cardinality(S) /\ d = Cardinality(R)
            /\ a = AllWeight /\ n = AllShares
    BY <2>3, <2>9, <2>10
  <2>13. /\ w * n + c <= (p + c) * a /\ v * n + d <= (q + d) * a
         /\ a = w + v /\ n = p + q
         /\ S # {} => c > 0
         /\ R # {} => d > 0
    BY <2>9, <2>10, <2>11, <2>12
  <2>14. c > 0 => p * a > w * n - c * a
    <3>1. (p + c) * a = p * a + c * a
      OBVIOUS
    <3>2. p * a \in Nat /\ c * a \in Nat /\ w * n \in Nat
      OBVIOUS
    <3> QED  BY <2>13, <3>1, <3>2
  <2>15. d > 0 => p * a < w * n + d * a
    <3>1. (q + d) * a = q * a + d * a
      OBVIOUS
    <3>2. p * a + q * a = w * n + v * n
      <4>1. p * a + q * a = n * a
        BY <2>13
      <4>2. w * n + v * n = n * a
        BY <2>13
      <4> QED  BY <4>1, <4>2
    <3>3. /\ p * a \in Nat /\ q * a \in Nat /\ d * a \in Nat
          /\ w * n \in Nat /\ v * n \in Nat
      OBVIOUS
    <3> QED  BY <2>13, <3>1, <3>2, <3>3
  <2>16. S # Owners("provider") => R # {}
    BY <2>1, <2>9 DEF R
  <2>17. Owners("provider") \ S = R
    BY <2>1 DEF R
  <2> QED
    BY <2>6, <2>7, <2>8, <2>12, <2>13, <2>14, <2>15, <2>16, <2>17
       DEF AllShares
<1> QED  BY <1>1, <1>2, <1>3, KeyBackupInvariant, PTL DEF Spec

-----------------------------------------------------------------------------
(* Arithmetic modulo Modulus *)

Cong(a, b) == \E q \in Int : a - b = q * Modulus

\* Elements of the field are integers, and remainders are elements of it.
LEMMA ModulusFacts ==
    /\ Modulus \in Nat /\ Modulus > 1
    /\ 0 \in Field /\ 1 \in Field
    /\ \A x \in Field : x \in Nat /\ x \in Int
    /\ \A x \in Int : x % Modulus \in Field
<1>1. Modulus \in Nat /\ Modulus > 1
  BY BackupAssumption, FieldAssumption
<1>2. ASSUME NEW x \in Int PROVE x % Modulus \in 0 .. Modulus - 1
  BY <1>1, Z3
<1> QED  BY <1>1, <1>2 DEF Field

\* Congruence is an equivalence.
LEMMA CongRefl ==
    ASSUME NEW a \in Int
    PROVE  Cong(a, a)
<1>1. a - a = 0 * Modulus
  BY ModulusFacts
<1> QED  BY <1>1 DEF Cong

\* Congruence is symmetric.
LEMMA CongSym ==
    ASSUME NEW a \in Int, NEW b \in Int, Cong(a, b)
    PROVE  Cong(b, a)
<1>1. PICK q \in Int : a - b = q * Modulus
  BY DEF Cong
<1>2. b - a = (-q) * Modulus /\ -q \in Int
  BY <1>1, ModulusFacts
<1> QED  BY <1>2 DEF Cong

\* Congruence is transitive.
LEMMA CongTrans ==
    ASSUME NEW a \in Int, NEW b \in Int, NEW c \in Int, Cong(a, b), Cong(b, c)
    PROVE  Cong(a, c)
<1>1. PICK q \in Int : a - b = q * Modulus
  BY DEF Cong
<1>2. PICK r \in Int : b - c = r * Modulus
  BY DEF Cong
<1>3. a - c = (q + r) * Modulus
  BY <1>1, <1>2, ModulusFacts
<1> QED  BY <1>3 DEF Cong

\* Sums and differences of congruent integers are congruent.
LEMMA CongAdd ==
    ASSUME NEW a \in Int, NEW b \in Int, NEW c \in Int, NEW d \in Int,
           Cong(a, b), Cong(c, d)
    PROVE  Cong(a + c, b + d) /\ Cong(a - c, b - d)
<1>1. PICK q \in Int : a - b = q * Modulus
  BY DEF Cong
<1>2. PICK r \in Int : c - d = r * Modulus
  BY DEF Cong
<1>3. (a + c) - (b + d) = (q + r) * Modulus
  BY <1>1, <1>2, ModulusFacts
<1>4. (a - c) - (b - d) = (q - r) * Modulus
  BY <1>1, <1>2, ModulusFacts
<1> QED  BY <1>3, <1>4 DEF Cong

\* Products of congruent integers are congruent.
LEMMA CongMul ==
    ASSUME NEW a \in Int, NEW b \in Int, NEW c \in Int, NEW d \in Int,
           Cong(a, b), Cong(c, d)
    PROVE  Cong(a * c, b * d)
<1>1. PICK q \in Int : a - b = q * Modulus
  BY DEF Cong
<1>2. PICK r \in Int : c - d = r * Modulus
  BY DEF Cong
<1>3. a * (c - d) = a * (r * Modulus) /\ (a - b) * d = (q * Modulus) * d
  BY <1>1, <1>2, ModulusFacts
<1>4. a * (c - d) + (a - b) * d = a * c - b * d
  OBVIOUS
<1>5. a * (r * Modulus) + (q * Modulus) * d = (a * r + q * d) * Modulus
  BY ModulusFacts
<1>6. a * c - b * d = (a * r + q * d) * Modulus /\ a * r + q * d \in Int
  BY <1>3, <1>4, <1>5
<1> QED  BY <1>6 DEF Cong

\* A remainder is congruent to the number, and only one field element is.
LEMMA CongMod ==
    ASSUME NEW a \in Int
    PROVE  Cong(a % Modulus, a) /\ Cong(a, a % Modulus)
<1>1. a = (Modulus * (a \div Modulus)) + (a % Modulus) /\ a \div Modulus \in Int
      /\ a % Modulus \in Int
  BY ModulusFacts, Z3
<1>2. a - (a % Modulus) = (a \div Modulus) * Modulus
  BY <1>1, ModulusFacts
<1>3. Cong(a, a % Modulus)
  BY <1>1, <1>2 DEF Cong
<1> QED  BY <1>1, <1>3, CongSym

\* Congruent elements of the field are the same.
LEMMA CongUnique ==
    ASSUME NEW a \in Field, NEW b \in Field, Cong(a, b)
    PROVE  a = b
<1>1. PICK q \in Int : a - b = q * Modulus
  BY DEF Cong
<1>2. a \in Nat /\ b \in Nat /\ a < Modulus /\ b < Modulus
  BY ModulusFacts DEF Field
<1>3. q < 1
  <2>1. CASE q >= 1
    <3>1. Modulus * 1 <= Modulus * q
      BY <2>1, ModulusFacts
    <3> QED  BY <1>1, <1>2, <3>1, ModulusFacts
  <2> QED  BY <2>1
<1>4. q > -1
  <2>1. CASE q <= -1
    <3>1. Modulus * q <= Modulus * (-1)
      BY <2>1, ModulusFacts
    <3> QED  BY <1>1, <1>2, <3>1, ModulusFacts
  <2> QED  BY <2>1
<1>5. q = 0
  BY <1>3, <1>4
<1> QED  BY <1>1, <1>2, <1>5, ModulusFacts

\* Congruent integers have the same remainder.
LEMMA CongIsEqual ==
    ASSUME NEW a \in Int, NEW b \in Int, Cong(a, b)
    PROVE  a % Modulus = b % Modulus
<1>1. a % Modulus \in Field /\ b % Modulus \in Field
  BY ModulusFacts
<1>2. a % Modulus \in Int /\ b % Modulus \in Int
  BY <1>1, ModulusFacts
<1>3. Cong(a % Modulus, b)
  BY <1>2, CongMod, CongTrans
<1>4. Cong(a % Modulus, b % Modulus)
  BY <1>2, <1>3, CongMod, CongTrans
<1> QED  BY <1>1, <1>4, CongUnique

-----------------------------------------------------------------------------
(* Products *)

ProductStep(w, f, s) ==
    IF s = {} THEN 1
    ELSE (w[CHOOSE x \in s : TRUE] * f[s \ {CHOOSE x \in s : TRUE}]) % Modulus

IsProduct(w, S, f) == f = [s \in SUBSET S |-> ProductStep(w, f, s)]

ProductFcn(w, S) == CHOOSE f : IsProduct(w, S, f)

ProductOp(w, S) == [z \in Field \X S |-> (w[z[2]] * z[1]) % Modulus]

\* Product is a fold.
LEMMA ProductIsFold ==
    ASSUME NEW S, IsFiniteSet(S), NEW w, \A x \in S : w[x] \in Int
    PROVE  /\ Product(w, S) = ProductFcn(w, S)[S]
           /\ IsFoldOf(S, Field, First(S), 1, ProductOp(w, S), ProductFcn(w, S))
           /\ \A a \in Field, x \in S :
                 /\ ProductOp(w, S)[<<a, x>>] = (w[x] * a) % Modulus
                 /\ ProductOp(w, S)[<<a, x>>] \in Field
<1> DEFINE ch == First(S)
           h == ProductOp(w, S)
<1>1. Product(w, S) = ProductFcn(w, S)[S]
  BY Zenon DEF Product, FoldSet, MapThenFoldSet, ProductFcn, IsProduct,
     ProductStep
<1>0. ASSUME NEW a \in Field, NEW x \in S
      PROVE  (w[x] * a) % Modulus \in Field
  <2>1. w[x] \in Int /\ a \in Int
    BY ModulusFacts
  <2>2. PICK n \in Int : n = w[x] * a
    BY <2>1
  <2> QED  BY <2>2, ModulusFacts
<1>2. h \in [Field \X S -> Field] /\ Chooses(ch, S)
  <2>1. ASSUME NEW z \in Field \X S PROVE h[z] \in Field
    BY <1>0 DEF ProductOp
  <2>2. h = [z \in Field \X S |-> h[z]]
    BY DEF ProductOp
  <2> HIDE DEF h
  <2>3. h \in [Field \X S -> Field]
    BY <2>1, <2>2
  <2> QED  BY <2>3, FirstChooses
<1>3. \A s \in SUBSET S : s # {} =>
         ch[s] = (CHOOSE x \in s : TRUE) /\ ch[s] \in S
  BY DEF First
<1>4. \A a \in Field, x \in S : h[<<a, x>>] = (w[x] * a) % Modulus
  BY DEF ProductOp
<1> HIDE DEF ch, h
<1>5. PICK f : IsFoldOf(S, Field, ch, 1, h, f)
  BY <1>2, ModulusFacts, FoldOfExists
<1>6. IsProduct(w, S, f)
  <2>1. ASSUME NEW s \in SUBSET S PROVE f[s] = ProductStep(w, f, s)
    <3>1. f[s] = FoldStep(ch, 1, h, f, s) /\ f[s \ {ch[s]}] \in Field
      BY <1>5 DEF IsFoldOf
    <3> QED  BY <1>3, <1>4, <3>1 DEF FoldStep, ProductStep
  <2>2. f = [s \in SUBSET S |-> f[s]]
    BY <1>5 DEF IsFoldOf
  <2> QED  BY <2>1, <2>2, Zenon DEF IsProduct
<1>7. PICK g : /\ g = ProductFcn(w, S)
               /\ g = [s \in SUBSET S |-> ProductStep(w, g, s)]
  BY <1>6, Zenon DEF ProductFcn, IsProduct
<1>8. g = [s \in SUBSET S |-> g[s]]
      /\ \A s \in SUBSET S : g[s] = ProductStep(w, g, s)
  BY <1>7
<1>9. \A s \in SUBSET S : s # {} /\ g[s \ {ch[s]}] \in Field =>
         g[s] = h[<<g[s \ {ch[s]}], ch[s]>>]
  <2> TAKE s \in SUBSET S
  <2> HAVE s # {} /\ g[s \ {ch[s]}] \in Field
  <2>1. g[s] = (w[ch[s]] * g[s \ {ch[s]}]) % Modulus
    BY <1>3, <1>8 DEF ProductStep
  <2> QED  BY <1>3, <1>4, <2>1
<1>10. g[{}] = 1
  BY <1>8 DEF ProductStep
<1>11. IsFoldOf(S, Field, ch, 1, h, g)
  <2>1. g = [s \in SUBSET S |-> g[s]] /\ 1 \in Field
    BY <1>8, ModulusFacts
  <2> QED  BY <1>2, <1>9, <1>10, <2>1, FoldTyped
<1> QED  BY <1>0, <1>1, <1>4, <1>7, <1>11 DEF ch, h

\* A product is an element of the field, and any factor can be taken out of it.
LEMMA ProductFacts ==
    ASSUME NEW S, IsFiniteSet(S), NEW w, \A x \in S : w[x] \in Int
    PROVE  /\ Product(w, S) \in Field
           /\ S = {} => Product(w, S) = 1
           /\ \A x \in S : Cong(Product(w, S), w[x] * Product(w, S \ {x}))
<1> DEFINE f == ProductFcn(w, S)
           ch == First(S)
           h == ProductOp(w, S)
<1>1. Product(w, S) = f[S] /\ IsFoldOf(S, Field, ch, 1, h, f)
  BY ProductIsFold
<1>2. \A a \in Field, x \in S :
         h[<<a, x>>] = (w[x] * a) % Modulus /\ h[<<a, x>>] \in Field
  BY ProductIsFold
<1>3. f[S] \in Field /\ (S = {} => f[S] = 1)
  BY <1>1 DEF IsFoldOf, FoldStep
<1> HIDE DEF f, ch, h
<1>c. Chooses(ch, S)
  BY FirstChooses DEF ch
<1>4. ASSUME NEW x \in S
      PROVE  f[S] = (w[x] * f[S \ {x}]) % Modulus /\ f[S \ {x}] \in Field
  <2>1. ASSUME NEW a \in Field, NEW y \in S, NEW z \in S
        PROVE  h[<<h[<<a, y>>], z>>] = h[<<h[<<a, z>>], y>>]
    <3>1. PICK u \in Int, v \in Int, b \in Int :
             u = w[y] /\ v = w[z] /\ b = a
      <4>1. w[y] \in Int /\ w[z] \in Int /\ a \in Int
        BY ModulusFacts
      <4> QED  BY <4>1
    <3>2. PICK m \in Int, n \in Int :
             /\ m = (u * b) % Modulus /\ Cong(m, u * b)
             /\ n = (v * b) % Modulus /\ Cong(n, v * b)
      <4>1. u * b \in Int /\ v * b \in Int
        OBVIOUS
      <4>2. Cong((u * b) % Modulus, u * b) /\ Cong((v * b) % Modulus, v * b)
        BY <4>1, CongMod
      <4>3. (u * b) % Modulus \in Int /\ (v * b) % Modulus \in Int
        BY <4>1, ModulusFacts
      <4> QED  BY <4>2, <4>3
    <3>3. Cong(v * m, v * (u * b)) /\ Cong(u * n, u * (v * b))
      <4>1. u * b \in Int /\ v * b \in Int /\ Cong(u, u) /\ Cong(v, v)
        BY CongRefl
      <4> QED  BY <3>2, <4>1, CongMul
    <3>4. Cong(v * m, u * n)
      <4>1. v * (u * b) = u * (v * b) /\ v * (u * b) \in Int
            /\ v * m \in Int /\ u * n \in Int
        OBVIOUS
      <4>2. Cong(v * (u * b), u * n)
        BY <3>3, <4>1, CongSym
      <4> QED  BY <3>3, <4>1, <4>2, CongTrans
    <3>5. (v * m) % Modulus = (u * n) % Modulus
      <4>1. v * m \in Int /\ u * n \in Int
        OBVIOUS
      <4> QED  BY <3>4, <4>1, CongIsEqual
    <3>6. h[<<a, y>>] = m /\ h[<<a, z>>] = n /\ m \in Field /\ n \in Field
      BY <1>2, <3>1, <3>2
    <3>7. h[<<m, z>>] = (v * m) % Modulus /\ h[<<n, y>>] = (u * n) % Modulus
      BY <1>2, <3>1, <3>6
    <3> QED  BY <3>5, <3>6, <3>7
  <2>2. \A s \in SUBSET S : \A y \in s : f[s] = h[<<f[s \ {y}], y>>]
    <3>1. Commutes(Field, S, h)
      BY <2>1 DEF Commutes
    <3> QED  BY <1>1, <1>c, <3>1, FoldAnyFirst
  <2>3. f[S] = h[<<f[S \ {x}], x>>]
    BY <2>2
  <2>4. f[S \ {x}] \in Field
    BY <1>1 DEF IsFoldOf
  <2> QED  BY <1>2, <2>3, <2>4
<1>5. ASSUME NEW x \in S PROVE Product(w, S \ {x}) = f[S \ {x}]
  <2> DEFINE T == S \ {x}
             g == ProductFcn(w, T)
  <2>1. IsFiniteSet(T) /\ T \in SUBSET S
    BY FS_Subset
  <2>2. /\ Product(w, T) = g[T]
        /\ IsFoldOf(T, Field, First(T), 1, ProductOp(w, T), g)
        /\ \A a \in Field, y \in T :
              ProductOp(w, T)[<<a, y>>] = (w[y] * a) % Modulus
    <3>1. \A y \in T : w[y] \in Int
      OBVIOUS
    <3> HIDE DEF T
    <3> QED  BY <2>1, <3>1, ProductIsFold
  <2>3. \A a \in Field, y \in T : h[<<a, y>>] = ProductOp(w, T)[<<a, y>>]
    BY <1>2, <2>1, <2>2
  <2>4. IsFoldOf(T, Field, ch, 1, ProductOp(w, T), g)
    BY <2>1, <2>2 DEF IsFoldOf, FoldStep, First, ch
  <2> HIDE DEF g, T
  <2>5. f[T] = g[T]
    BY <1>1, <1>c, <2>1, <2>3, <2>4, FoldLocal
  <2> QED  BY <2>2, <2>5 DEF T
<1>6. ASSUME NEW x \in S
      PROVE  Cong(Product(w, S), w[x] * Product(w, S \ {x}))
  <2>1. PICK u \in Int, p \in Int : u = w[x] /\ p = Product(w, S \ {x})
    <3>1. w[x] \in Int /\ Product(w, S \ {x}) \in Int
      <4>1. Product(w, S \ {x}) \in Field
        BY <1>4, <1>5
      <4> QED  BY <4>1, ModulusFacts
    <3> QED  BY <3>1
  <2>2. Product(w, S) = (u * p) % Modulus /\ u * p \in Int
    <3>1. Product(w, S) = (w[x] * f[S \ {x}]) % Modulus
      BY <1>1, <1>4
    <3>2. f[S \ {x}] = p
      BY <1>5, <2>1
    <3> QED  BY <2>1, <3>1, <3>2
  <2>3. Cong((u * p) % Modulus, u * p)
    BY <2>2, CongMod
  <2> QED  BY <2>1, <2>2, <2>3
<1> QED  BY <1>1, <1>3, <1>6

-----------------------------------------------------------------------------
(* Polynomials *)

\* evalPolynomial takes the coefficients one by one, from the last.
LEMMA EvalSteps ==
    ASSUME NEW n \in Nat, NEW c \in [1 .. n -> Field], NEW x \in Int
    PROVE  \E f : /\ f[n + 1] = 0
                  /\ \A k \in 1 .. n : f[k] = (f[k + 1] * x + c[k]) % Modulus
                  /\ \A k \in 1 .. n + 1 : f[k] \in Field
                  /\ evalPolynomial(c, x) = f[1]
<1> DEFINE S == 1 .. n
           ch == [s \in SUBSET S |-> Min(s)]
           h == [z \in Field \X S |-> (z[1] * x + c[z[2]]) % Modulus]
           Step(f, s) == IF s = {} THEN 0
                         ELSE (f[s \ {Min(s)}] * x + c[Min(s)]) % Modulus
           Is(f) == f = [s \in SUBSET S |-> Step(f, s)]
           it == CHOOSE f : Is(f)
<1>1. IsFiniteSet(S) /\ DOMAIN c = S
  BY FS_Interval
<1>2. evalPolynomial(c, x) = it[S]
  BY <1>1, Zenon DEF evalPolynomial, FoldRight, MapThenFoldSet
<1>3. \A s \in SUBSET S : ch[s] = Min(s) /\ (s # {} => Min(s) \in S)
  BY FirstPosition
<1>4. Chooses(ch, S)
  BY FirstPosition DEF Chooses
<1>5. ASSUME NEW a \in Field, NEW k \in S
      PROVE  (a * x + c[k]) % Modulus \in Field
  <2>1. c[k] \in Int /\ a \in Int
    BY ModulusFacts
  <2>2. a * x + c[k] \in Int
    BY <2>1
  <2> QED  BY <2>2, ModulusFacts
<1>6. h \in [Field \X S -> Field]
  <2>1. ASSUME NEW z \in Field \X S PROVE h[z] \in Field
    BY <1>5
  <2>2. h = [z \in Field \X S |-> h[z]]
    OBVIOUS
  <2> HIDE DEF h, S
  <2> QED  BY <2>1, <2>2
<1>7. \A a \in Field, k \in S : h[<<a, k>>] = (a * x + c[k]) % Modulus
  OBVIOUS
<1> HIDE DEF S, ch, h
<1>8. PICK f : IsFoldOf(S, Field, ch, 0, h, f)
  BY <1>1, <1>4, <1>6, ModulusFacts, FoldOfExists
<1>9. /\ f = [s \in SUBSET S |-> f[s]]
      /\ \A s \in SUBSET S : f[s] \in Field /\ f[s] = FoldStep(ch, 0, h, f, s)
  BY <1>8 DEF IsFoldOf
<1>10. Is(f)
  <2>1. ASSUME NEW s \in SUBSET S PROVE f[s] = Step(f, s)
    <3>1. f[s] = FoldStep(ch, 0, h, f, s) /\ f[s \ {Min(s)}] \in Field
      BY <1>9
    <3> QED  BY <1>3, <1>7, <3>1 DEF FoldStep
  <2> QED  BY <1>9, <2>1, Zenon
<1>11. Is(it)
  <2> HIDE DEF Is
  <2> QED  BY <1>10, Zenon
<1> HIDE DEF it
<1>12. /\ it = [s \in SUBSET S |-> it[s]]
       /\ \A s \in SUBSET S : it[s] = Step(it, s)
  BY <1>11
<1>13. IsFoldOf(S, Field, ch, 0, h, it)
  <2>1. it[{}] = 0 /\ 0 \in Field
    BY <1>12, ModulusFacts
  <2>2. \A s \in SUBSET S : s # {} /\ it[s \ {ch[s]}] \in Field =>
           it[s] = h[<<it[s \ {ch[s]}], ch[s]>>]
    <3> TAKE s \in SUBSET S
    <3> HAVE s # {} /\ it[s \ {ch[s]}] \in Field
    <3>1. it[s] = (it[s \ {ch[s]}] * x + c[ch[s]]) % Modulus
      BY <1>3, <1>12
    <3> QED  BY <1>3, <1>7, <3>1
  <2>3. it = [s \in SUBSET S |-> it[s]]
    BY <1>12
  <2> HIDE DEF Step
  <2> QED  BY <1>1, <1>4, <1>6, <2>1, <2>2, <2>3, FoldTyped
<1>14. \A s \in SUBSET S : it[s] \in Field
  BY <1>13 DEF IsFoldOf
<1> DEFINE g == [k \in 1 .. n + 1 |-> it[k .. n]]
<1>15. g[n + 1] = 0
  <2>1. n + 1 .. n = {} /\ n + 1 \in 1 .. n + 1
    OBVIOUS
  <2> QED  BY <1>12, <2>1
<1>16. ASSUME NEW k \in 1 .. n
       PROVE  g[k] = (g[k + 1] * x + c[k]) % Modulus
  <2>1. Min(k .. n) = k /\ (k .. n) \ {k} = k + 1 .. n
    BY FirstPosition
  <2>2. /\ k .. n \in SUBSET S /\ k .. n # {}
        /\ k \in 1 .. n + 1 /\ k + 1 \in 1 .. n + 1
    <3>1. k \in k .. n /\ k \in 1 .. n + 1 /\ k + 1 \in 1 .. n + 1
      OBVIOUS
    <3>2. \A y \in k .. n : y \in 1 .. n
      OBVIOUS
    <3> QED  BY <3>1, <3>2 DEF S
  <2>3. it[k .. n] = (it[k + 1 .. n] * x + c[k]) % Modulus
    BY <1>12, <2>1, <2>2
  <2> QED  BY <2>2, <2>3
<1>17. ASSUME NEW k \in 1 .. n + 1 PROVE g[k] \in Field
  <2>1. k .. n \in SUBSET S
    BY DEF S
  <2> QED  BY <1>14, <2>1
<1>18. g[1] = it[S]
  BY DEF S
<1> HIDE DEF g
<1> QED  BY <1>2, <1>15, <1>16, <1>17, <1>18

\* Horner's rule: one more coefficient in front.
LEMMA Horner ==
    ASSUME NEW n \in Nat, NEW c \in [1 .. n -> Field], NEW v \in Field,
           NEW x \in Int
    PROVE  /\ evalPolynomial(<<v>> \o c, x)
                  = (evalPolynomial(c, x) * x + v) % Modulus
           /\ evalPolynomial(c, x) \in Field
           /\ <<v>> \o c \in [1 .. n + 1 -> Field]
           /\ n = 0 => evalPolynomial(c, x) = 0
<1> DEFINE d == <<v>> \o c
<1>1. /\ d \in [1 .. n + 1 -> Field] /\ d[1] = v
      /\ \A k \in 1 .. n : d[k + 1] = c[k]
  <2>1. c \in Seq(Field) /\ Len(c) = n
    <3>1. c \in Seq(Field)
      <4>1. c \in UNION {[1 .. m -> Field] : m \in Nat}
        BY Zenon
      <4> QED  BY <4>1, SeqDef, Zenon
    <3>2. DOMAIN c = 1 .. n /\ DOMAIN c = 1 .. Len(c) /\ Len(c) \in Nat
      BY <3>1, LenProperties
    <3> QED  BY <3>1, <3>2
  <2>2. <<v>> \in Seq(Field) /\ Len(<<v>>) = 1 /\ <<v>>[1] = v
    OBVIOUS
  <2>3. /\ d \in Seq(Field) /\ Len(d) = 1 + n /\ 1 + n = n + 1
        /\ \A k \in 1 .. 1 + n :
              d[k] = IF k <= 1 THEN <<v>>[k] ELSE c[k - 1]
    BY <2>1, <2>2, ConcatProperties
  <2> HIDE DEF d
  <2>4. d \in [1 .. n + 1 -> Field]
    BY <2>3, LenProperties, ElementOfSeq
  <2>5. d[1] = v
    BY <2>2, <2>3
  <2>6. ASSUME NEW k \in 1 .. n PROVE d[k + 1] = c[k]
    <3>1. k + 1 \in 1 .. 1 + n /\ ~(k + 1 <= 1) /\ (k + 1) - 1 = k
      OBVIOUS
    <3> QED  BY <2>3, <3>1
  <2> QED  BY <2>4, <2>5, <2>6
<1> HIDE DEF d
<1>2. PICK f : /\ f[n + 1] = 0
               /\ \A k \in 1 .. n : f[k] = (f[k + 1] * x + c[k]) % Modulus
               /\ \A k \in 1 .. n + 1 : f[k] \in Field
               /\ evalPolynomial(c, x) = f[1]
  BY EvalSteps
<1>3. PICK g : /\ g[(n + 1) + 1] = 0
               /\ \A k \in 1 .. n + 1 : g[k] = (g[k + 1] * x + d[k]) % Modulus
               /\ evalPolynomial(d, x) = g[1]
  <2>1. n + 1 \in Nat
    OBVIOUS
  <2> QED  BY <1>1, <2>1, EvalSteps
<1> DEFINE Q == {j \in Nat : j <= n => g[(n + 1 - j) + 1] = f[n + 1 - j]}
<1>4. 0 \in Q
  BY <1>2, <1>3
<1>5. ASSUME NEW j \in Nat, j \in Q PROVE j + 1 \in Q
  <2> SUFFICES ASSUME j + 1 <= n
               PROVE  g[(n + 1 - (j + 1)) + 1] = f[n + 1 - (j + 1)]
    OBVIOUS
  <2>1. PICK k \in 1 .. n : k = n + 1 - (j + 1) /\ k + 1 = n + 1 - j
    OBVIOUS
  <2>2. g[(k + 1) + 1] = f[k + 1]
    BY <1>5, <2>1
  <2>3. g[k + 1] = (g[(k + 1) + 1] * x + d[k + 1]) % Modulus
    BY <1>3
  <2>4. g[k + 1] = f[k]
    BY <1>1, <1>2, <2>2, <2>3
  <2> QED  BY <2>1, <2>4
<1>6. n \in Q
  <2> HIDE DEF Q
  <2> QED  BY <1>4, <1>5, SetInduction
<1>7. g[2] = f[1]
  <2>1. (n + 1 - n) + 1 = 2 /\ n + 1 - n = 1
    OBVIOUS
  <2> QED  BY <1>6, <2>1
<1>8. g[1] = (g[2] * x + d[1]) % Modulus
  <2>1. 1 \in 1 .. n + 1 /\ 1 + 1 = 2
    OBVIOUS
  <2> QED  BY <1>3, <2>1
<1>9. evalPolynomial(c, x) \in Field /\ (n = 0 => evalPolynomial(c, x) = 0)
  BY <1>2
<1>10. evalPolynomial(d, x) = (evalPolynomial(c, x) * x + v) % Modulus
  BY <1>1, <1>2, <1>3, <1>7, <1>8
<1> QED  BY <1>1, <1>9, <1>10 DEF d

\* The functions that n coefficients give.
Poly(n) == {[x \in Field |-> evalPolynomial(c, x)] : c \in [1 .. n -> Field]}

\* A factor x and a constant more.
Longer(q, v) == [x \in Field |-> (q[x] * x + v) % Modulus]

\* Polynomials map the field to itself; without coefficients, to 0.
LEMMA PolyType ==
    ASSUME NEW n \in Nat, NEW p \in Poly(n)
    PROVE  /\ p \in [Field -> Field]
           /\ \A x \in Field : p[x] \in Int
           /\ n = 0 => \A x \in Field : p[x] = 0
<1>1. PICK c \in [1 .. n -> Field] : p = [x \in Field |-> evalPolynomial(c, x)]
  BY DEF Poly
<1>2. ASSUME NEW x \in Field
      PROVE  /\ evalPolynomial(c, x) \in Field
             /\ n = 0 => evalPolynomial(c, x) = 0
  <2>1. 0 \in Field /\ x \in Int
    BY ModulusFacts
  <2>2. /\ evalPolynomial(<<0>> \o c, x)
                = (evalPolynomial(c, x) * x + 0) % Modulus
        /\ evalPolynomial(c, x) \in Field
        /\ n = 0 => evalPolynomial(c, x) = 0
    BY <2>1, Horner
  <2> QED  BY <2>2
<1>3. \A x \in Field : p[x] \in Field /\ (n = 0 => p[x] = 0)
  BY <1>1, <1>2
<1>4. p \in [Field -> Field]
  BY <1>1, <1>3
<1>5. \A x \in Field : p[x] \in Int
  <2> TAKE x \in Field
  <2>1. p[x] \in Field
    BY <1>3
  <2> QED  BY <2>1, ModulusFacts, Zenon
<1>6. n = 0 => \A x \in Field : p[x] = 0
  BY <1>3
<1> QED  BY <1>4, <1>5, <1>6

\* Zero is the polynomial without coefficients.
LEMMA PolyZero == [x \in Field |-> 0] \in Poly(0)
<1>1. PICK c : c \in [1 .. 0 -> Field]
  <2>1. [k \in 1 .. 0 |-> 0] \in [1 .. 0 -> Field]
    OBVIOUS
  <2> QED  BY <2>1
<1>2. PICK p \in Poly(0) : p = [x \in Field |-> evalPolynomial(c, x)]
  BY <1>1 DEF Poly
<1>3. p \in [Field -> Field] /\ \A x \in Field : p[x] = 0
  BY PolyType
<1>4. p = [x \in Field |-> 0]
  BY <1>3
<1> QED  BY <1>4

\* A coefficient more, in front, is one more step of Horner's method.
LEMMA PolyLonger ==
    ASSUME NEW n \in Nat, NEW q \in Poly(n), NEW v \in Field
    PROVE  /\ Longer(q, v) \in Poly(n + 1)
           /\ \A x \in Field : Cong(Longer(q, v)[x], q[x] * x + v)
<1>1. PICK c \in [1 .. n -> Field] : q = [x \in Field |-> evalPolynomial(c, x)]
  BY DEF Poly
<1> DEFINE d == <<v>> \o c
<1>2. ASSUME NEW x \in Field
      PROVE  /\ evalPolynomial(d, x) = (q[x] * x + v) % Modulus
             /\ d \in [1 .. n + 1 -> Field]
  <2>1. x \in Int /\ q[x] = evalPolynomial(c, x)
    BY <1>1, ModulusFacts
  <2> QED  BY <2>1, Horner
<1>3. d \in [1 .. n + 1 -> Field]
  BY <1>2, ModulusFacts
<1> HIDE DEF d
<1>4. Longer(q, v) = [x \in Field |-> evalPolynomial(d, x)]
  BY <1>2 DEF Longer
<1>5. Longer(q, v) \in Poly(n + 1)
  BY <1>3, <1>4 DEF Poly
<1>6. ASSUME NEW x \in Field PROVE Cong(Longer(q, v)[x], q[x] * x + v)
  <2>1. x \in Int /\ v \in Int /\ q[x] \in Int
    BY PolyType, ModulusFacts
  <2>2. PICK m \in Int : m = q[x] * x + v
    BY <2>1
  <2>3. Longer(q, v)[x] = m % Modulus
    BY <2>2 DEF Longer
  <2> QED  BY <2>2, <2>3, CongMod
<1> QED  BY <1>5, <1>6

\* Every polynomial is a first coefficient and a shorter polynomial.
LEMMA PolyShorter ==
    ASSUME NEW n \in Nat, NEW p \in Poly(n + 1)
    PROVE  \E q \in Poly(n), v \in Field : p = Longer(q, v)
<1>1. PICK d \in [1 .. n + 1 -> Field] :
         p = [x \in Field |-> evalPolynomial(d, x)]
  BY DEF Poly
<1> DEFINE v == d[1]
           c == [k \in 1 .. n |-> d[k + 1]]
           q == [x \in Field |-> evalPolynomial(c, x)]
<1>2. v \in Field
  <2>1. 1 \in 1 .. n + 1
    OBVIOUS
  <2> QED  BY <2>1
<1>3. c \in [1 .. n -> Field]
  <2>1. \A k \in 1 .. n : k + 1 \in 1 .. n + 1
    OBVIOUS
  <2> QED  BY <2>1
<1>4. \A k \in 1 .. n : c[k] = d[k + 1]
  OBVIOUS
<1> HIDE DEF v, c
<1>5. q \in Poly(n)
  BY <1>3 DEF Poly
<1>6. <<v>> \o c = d
  <2>1. <<v>> \o c \in [1 .. n + 1 -> Field]
    <3>1. /\ evalPolynomial(<<v>> \o c, 0)
                  = (evalPolynomial(c, 0) * 0 + v) % Modulus
          /\ <<v>> \o c \in [1 .. n + 1 -> Field]
      BY <1>2, <1>3, Horner
    <3> QED  BY <3>1
  <2>2. c \in Seq(Field) /\ Len(c) = n
    <3>1. c \in Seq(Field)
      <4>1. c \in UNION {[1 .. m -> Field] : m \in Nat}
        BY <1>3, Zenon
      <4> QED  BY <4>1, SeqDef, Zenon
    <3>2. DOMAIN c = 1 .. n /\ DOMAIN c = 1 .. Len(c) /\ Len(c) \in Nat
      BY <1>3, <3>1, LenProperties
    <3> QED  BY <3>1, <3>2
  <2>3. <<v>> \in Seq(Field) /\ Len(<<v>>) = 1 /\ <<v>>[1] = v
    BY <1>2
  <2>4. \A k \in 1 .. 1 + n :
           (<<v>> \o c)[k] = IF k <= 1 THEN <<v>>[k] ELSE c[k - 1]
    BY <2>2, <2>3, ConcatProperties
  <2>5. ASSUME NEW k \in 1 .. n + 1 PROVE (<<v>> \o c)[k] = d[k]
    <3>1. CASE k = 1
      BY <2>3, <2>4, <3>1 DEF v
    <3>2. CASE k # 1
      <4>1. k \in 1 .. 1 + n /\ ~(k <= 1) /\ k - 1 \in 1 .. n
            /\ (k - 1) + 1 = k
        BY <3>2
      <4> QED  BY <1>4, <2>4, <4>1
    <3> QED  BY <3>1, <3>2
  <2>6. d = [k \in 1 .. n + 1 |-> d[k]]
        /\ <<v>> \o c = [k \in 1 .. n + 1 |-> (<<v>> \o c)[k]]
    BY <2>1
  <2> QED  BY <2>5, <2>6, Zenon
<1>7. p = Longer(q, v)
  <2>1. ASSUME NEW x \in Field
        PROVE  evalPolynomial(d, x) = (q[x] * x + v) % Modulus
    <3>1. x \in Int /\ q[x] = evalPolynomial(c, x)
      BY ModulusFacts
    <3> QED  BY <1>2, <1>3, <1>6, <3>1, Horner
  <2> QED  BY <1>1, <2>1 DEF Longer
<1> HIDE DEF q
<1> QED  BY <1>2, <1>5, <1>7

\* The algebra of a linear factor times a polynomial, by coefficients.
LEMMA LinearIdentity ==
    ASSUME NEW t \in Int, NEW u \in Int, NEW r \in Int, NEW s \in Int,
           NEW e \in Int, NEW x \in Int, NEW a \in Int, NEW c \in Int,
           NEW d \in Int,
           Cong(t, u * x + e), Cong(u, (x - a) * s + d), Cong(r, s * x + d),
           Cong(e, c - a * d)
    PROVE  Cong(t, (x - a) * r + c)
<1>1. PICK q1 \in Int : t - (u * x + e) = q1 * Modulus
  BY DEF Cong
<1>2. PICK q2 \in Int : u - ((x - a) * s + d) = q2 * Modulus
  BY DEF Cong
<1>3. PICK q3 \in Int : r - (s * x + d) = q3 * Modulus
  BY DEF Cong
<1>4. PICK q4 \in Int : e - (c - a * d) = q4 * Modulus
  BY DEF Cong
<1>m. PICK m \in Int : m = Modulus
  BY ModulusFacts
<1>5. /\ u = (x - a) * s + d + q2 * m /\ r = s * x + d + q3 * m
      /\ e = c - a * d + q4 * m
  BY <1>2, <1>3, <1>4, <1>m
<1>6. t = u * x + e + q1 * m
  BY <1>1, <1>m
<1>7. t = ((x - a) * s + d + q2 * m) * x + (c - a * d + q4 * m) + q1 * m
  BY <1>5, <1>6
<1>8. (x - a) * r + c = (x - a) * (s * x + d + q3 * m) + c
  BY <1>5
<1>9. (((x - a) * s + d + q2 * m) * x + (c - a * d + q4 * m) + q1 * m)
         - ((x - a) * (s * x + d + q3 * m) + c)
           = (q2 * x + q4 + q1 - (x - a) * q3) * m
  OBVIOUS
<1>10. t - ((x - a) * r + c) = (q2 * x + q4 + q1 - (x - a) * q3) * Modulus
       /\ q2 * x + q4 + q1 - (x - a) * q3 \in Int
  BY <1>7, <1>8, <1>9, <1>m
<1> QED  BY <1>10 DEF Cong

\* A linear factor makes a polynomial longer by one coefficient.
LEMMA LinearFactor ==
    ASSUME NEW n \in Nat, NEW r \in Poly(n), NEW a \in Field, NEW c \in Field
    PROVE  \E t \in Poly(n + 1) :
              \A x \in Field : Cong(t[x], (x - a) * r[x] + c)
<1> DEFINE Fits(t, s, d) == \A x \in Field : Cong(t[x], (x - a) * s[x] + d)
           Q == {m \in Nat : \A s \in Poly(m) : \A d \in Field :
                    \E t \in Poly(m + 1) : Fits(t, s, d)}
<1>1. 0 \in Q
  <2>1. ASSUME NEW s \in Poly(0), NEW d \in Field
        PROVE  \E t \in Poly(0 + 1) : Fits(t, s, d)
    <3>1. \A x \in Field : s[x] = 0 /\ x \in Int /\ a \in Int /\ d \in Int
      BY PolyType, ModulusFacts
    <3>2. Longer(s, d) \in Poly(0 + 1)
          /\ \A x \in Field : Cong(Longer(s, d)[x], s[x] * x + d)
      BY PolyLonger
    <3>3. Fits(Longer(s, d), s, d)
      <4> TAKE x \in Field
      <4>1. s[x] * x + d = (x - a) * s[x] + d
        BY <3>1
      <4> QED  BY <3>2, <4>1
    <3> HIDE DEF Fits
    <3> QED  BY <3>2, <3>3
  <2> HIDE DEF Fits
  <2> QED  BY <2>1
<1>2. ASSUME NEW m \in Nat, m \in Q PROVE m + 1 \in Q
  <2>1. ASSUME NEW s \in Poly(m + 1), NEW d \in Field
        PROVE  \E t \in Poly((m + 1) + 1) : Fits(t, s, d)
    <3>1. PICK s1 \in Poly(m), d1 \in Field : s = Longer(s1, d1)
      BY PolyShorter
    <3>2. PICK u \in Poly(m + 1) : Fits(u, s1, d1)
      <4> HIDE DEF Fits
      <4> QED  BY <1>2
    <3> DEFINE e == (d - a * d1) % Modulus
               t == Longer(u, e)
    <3>3. e \in Field /\ Cong(e, d - a * d1)
      <4>1. d - a * d1 \in Int
        BY ModulusFacts
      <4> QED  BY <4>1, ModulusFacts, CongMod
    <3> HIDE DEF e
    <3>4. m + 1 \in Nat
      OBVIOUS
    <3>5. t \in Poly((m + 1) + 1)
          /\ \A x \in Field : Cong(t[x], u[x] * x + e)
      BY <3>3, <3>4, PolyLonger
    <3>6. \A x \in Field : Cong(s[x], s1[x] * x + d1)
      BY <3>1, PolyLonger
    <3> HIDE DEF t
    <3>7. Fits(t, s, d)
      <4> TAKE x \in Field
      <4>1. /\ t[x] \in Int /\ u[x] \in Int /\ s[x] \in Int /\ s1[x] \in Int
        BY <3>4, <3>5, PolyType
      <4>2. /\ e \in Int /\ x \in Int /\ a \in Int /\ d \in Int /\ d1 \in Int
        BY <3>3, ModulusFacts
      <4>3. /\ Cong(t[x], u[x] * x + e) /\ Cong(u[x], (x - a) * s1[x] + d1)
            /\ Cong(s[x], s1[x] * x + d1) /\ Cong(e, d - a * d1)
        BY <3>2, <3>3, <3>5, <3>6
      <4> QED  BY <4>1, <4>2, <4>3, LinearIdentity
    <3> HIDE DEF Fits
    <3> QED  BY <3>5, <3>7
  <2> HIDE DEF Fits
  <2>2. m + 1 \in Nat
    OBVIOUS
  <2> QED  BY <2>1, <2>2
<1>3. n \in Q
  <2> HIDE DEF Q
  <2>1. Nat \subseteq Q
    BY <1>1, <1>2, SetInduction
  <2> QED  BY <2>1
<1> QED  BY <1>3

\* The algebra of dividing a polynomial by x - a, by coefficients.
LEMMA FactorIdentity ==
    ASSUME NEW px \in Int, NEW pa \in Int, NEW rx \in Int, NEW ra \in Int,
           NEW s \in Int, NEW q \in Int, NEW x \in Int, NEW a \in Int,
           NEW c \in Int,
           Cong(px, rx * x + c), Cong(pa, ra * a + c),
           Cong(rx, ra + (x - a) * s), Cong(q, s * x + ra)
    PROVE  Cong(px, pa + (x - a) * q)
<1>1. PICK q1 \in Int : px - (rx * x + c) = q1 * Modulus
  BY DEF Cong
<1>2. PICK q2 \in Int : pa - (ra * a + c) = q2 * Modulus
  BY DEF Cong
<1>3. PICK q3 \in Int : rx - (ra + (x - a) * s) = q3 * Modulus
  BY DEF Cong
<1>4. PICK q4 \in Int : q - (s * x + ra) = q4 * Modulus
  BY DEF Cong
<1>m. PICK m \in Int : m = Modulus
  BY ModulusFacts
<1>5. /\ pa = ra * a + c + q2 * m /\ rx = ra + (x - a) * s + q3 * m
      /\ q = s * x + ra + q4 * m
  BY <1>2, <1>3, <1>4, <1>m
<1>6. px = rx * x + c + q1 * m
  BY <1>1, <1>m
<1>7. px = (ra + (x - a) * s + q3 * m) * x + c + q1 * m
  BY <1>5, <1>6
<1>8. pa + (x - a) * q = (ra * a + c + q2 * m)
                           + (x - a) * (s * x + ra + q4 * m)
  BY <1>5
<1>9. ((ra + (x - a) * s + q3 * m) * x + c + q1 * m)
         - ((ra * a + c + q2 * m) + (x - a) * (s * x + ra + q4 * m))
           = (q3 * x + q1 - q2 - (x - a) * q4) * m
  OBVIOUS
<1>10. px - (pa + (x - a) * q) = (q3 * x + q1 - q2 - (x - a) * q4) * Modulus
       /\ q3 * x + q1 - q2 - (x - a) * q4 \in Int
  BY <1>7, <1>8, <1>9, <1>m
<1> QED  BY <1>10 DEF Cong

\* A polynomial less its value at a point has that point's linear factor.
LEMMA Factor ==
    ASSUME NEW n \in Nat, NEW p \in Poly(n + 1), NEW a \in Field
    PROVE  \E q \in Poly(n) :
              \A x \in Field : Cong(p[x], p[a] + (x - a) * q[x])
<1> DEFINE Fits(r, q) == \A x \in Field : Cong(r[x], r[a] + (x - a) * q[x])
           Q == {m \in Nat : \A r \in Poly(m + 1) : \E q \in Poly(m) :
                    Fits(r, q)}
<1>1. 0 \in Q
  <2>1. ASSUME NEW r \in Poly(0 + 1) PROVE \E q \in Poly(0) : Fits(r, q)
    <3>1. PICK q \in Poly(0), v \in Field : r = Longer(q, v)
      BY PolyShorter
    <3>2. \A x \in Field : q[x] = 0 /\ x \in Int /\ v \in Int
      BY PolyType, ModulusFacts
    <3>3. \A x \in Field : r[x] = v % Modulus
      BY <3>1, <3>2 DEF Longer
    <3>4. Fits(r, q)
      <4> TAKE x \in Field
      <4>1. v % Modulus \in Int
        BY <3>2, ModulusFacts
      <4>2. r[a] + (x - a) * q[x] = r[x] /\ r[x] \in Int
        BY <3>2, <3>3, <4>1
      <4> QED  BY <4>2, CongRefl
    <3> HIDE DEF Fits
    <3> QED  BY <3>4
  <2> HIDE DEF Fits
  <2> QED  BY <2>1
<1>2. ASSUME NEW m \in Nat, m \in Q PROVE m + 1 \in Q
  <2>1. ASSUME NEW p1 \in Poly((m + 1) + 1)
        PROVE  \E q \in Poly(m + 1) : Fits(p1, q)
    <3>0. m + 1 \in Nat
      OBVIOUS
    <3>1. PICK r \in Poly(m + 1), c \in Field : p1 = Longer(r, c)
      BY <3>0, PolyShorter
    <3>2. PICK s \in Poly(m) : Fits(r, s)
      <4> HIDE DEF Fits
      <4> QED  BY <1>2
    <3>3. r[a] \in Field
      BY <3>0, PolyType
    <3> DEFINE q == Longer(s, r[a])
    <3>4. q \in Poly(m + 1)
          /\ \A x \in Field : Cong(q[x], s[x] * x + r[a])
      BY <3>3, PolyLonger
    <3>5. \A x \in Field : Cong(p1[x], r[x] * x + c)
      BY <3>0, <3>1, PolyLonger
    <3> HIDE DEF q
    <3>6. Fits(p1, q)
      <4> TAKE x \in Field
      <4>1. /\ p1[x] \in Int /\ p1[a] \in Int /\ r[x] \in Int /\ r[a] \in Int
            /\ s[x] \in Int /\ q[x] \in Int
        BY <3>0, <3>4, PolyType
      <4>2. x \in Int /\ a \in Int /\ c \in Int
        BY ModulusFacts
      <4>3. /\ Cong(p1[x], r[x] * x + c) /\ Cong(p1[a], r[a] * a + c)
            /\ Cong(r[x], r[a] + (x - a) * s[x])
            /\ Cong(q[x], s[x] * x + r[a])
        BY <3>2, <3>4, <3>5
      <4> QED  BY <4>1, <4>2, <4>3, FactorIdentity
    <3> HIDE DEF Fits
    <3> QED  BY <3>4, <3>6
  <2> HIDE DEF Fits
  <2>2. m + 1 \in Nat
    OBVIOUS
  <2> QED  BY <2>1, <2>2
<1>3. n \in Q
  <2> HIDE DEF Q
  <2>1. Nat \subseteq Q
    BY <1>1, <1>2, SetInduction
  <2> QED  BY <2>1
<1> QED  BY <1>3

-----------------------------------------------------------------------------
(* Inverses *)

Invertible(d) == \E v \in Int : Cong(v * d, 1)

\* Different points have a difference with an inverse.
LEMMA DifferenceInvertible ==
    ASSUME NEW x \in Field, NEW y \in Field, x # y
    PROVE  Invertible(x - y)
<1>1. x \in Int /\ y \in Int /\ x - y \in Int
  BY ModulusFacts
<1> DEFINE d == (x - y) % Modulus
<1>2. d \in Field /\ d \in Int /\ Cong(d, x - y)
  BY <1>1, ModulusFacts, CongMod
<1>3. d # 0
  <2> SUFFICES ASSUME d = 0 PROVE FALSE
    OBVIOUS
  <2>1. Cong(0, x - y)
    BY <1>2
  <2> HIDE DEF d
  <2>2. Cong(0 + y, (x - y) + y)
    BY <1>1, <2>1, CongRefl, CongAdd
  <2>3. 0 + y = y /\ (x - y) + y = x
    BY <1>1
  <2> QED  BY <2>2, <2>3, CongUnique
<1> HIDE DEF d
<1>4. d \in 1 .. Modulus - 1
  BY <1>2, <1>3, ModulusFacts DEF Field
<1>5. PICK v \in Field : (d * v) % Modulus = 1
  BY <1>4, FieldAssumption
<1>6. v \in Int
  BY ModulusFacts
<1>7. Cong(v * d, 1)
  <2>1. PICK n \in Int : n = d * v /\ n = v * d
    BY <1>2, <1>6
  <2>2. Cong(n, n % Modulus)
    BY CongMod
  <2> QED  BY <1>5, <2>1, <2>2
<1>8. Cong(v * (x - y), v * d)
  BY <1>1, <1>2, <1>6, CongRefl, CongSym, CongMul
<1>9. Cong(v * (x - y), 1)
  <2>1. v * (x - y) \in Int /\ v * d \in Int
    BY <1>1, <1>2, <1>6
  <2> QED  BY <1>7, <1>8, <2>1, CongTrans
<1> QED  BY <1>6, <1>9 DEF Invertible

\* Products of what has an inverse have one.
LEMMA ProductInvertible ==
    ASSUME NEW a \in Int, NEW b \in Int, NEW c \in Int,
           Invertible(a), Invertible(b), Cong(c, a * b)
    PROVE  Invertible(c)
<1>1. PICK u \in Int : Cong(u * a, 1)
  BY DEF Invertible
<1>2. PICK v \in Int : Cong(v * b, 1)
  BY DEF Invertible
<1>3. Cong((u * a) * (v * b), 1 * 1)
  <2>1. u * a \in Int /\ v * b \in Int
    OBVIOUS
  <2> QED  BY <1>1, <1>2, <2>1, CongMul
<1>4. Cong((u * v) * c, (u * v) * (a * b))
  <2>1. u * v \in Int /\ a * b \in Int
    OBVIOUS
  <2> QED  BY <2>1, CongRefl, CongMul
<1>5. (u * v) * (a * b) = (u * a) * (v * b) /\ 1 * 1 = 1
  OBVIOUS
<1>6. Cong((u * v) * c, 1)
  <2>1. (u * v) * c \in Int /\ (u * v) * (a * b) \in Int
    OBVIOUS
  <2> QED  BY <1>3, <1>4, <1>5, <2>1, CongTrans
<1>7. u * v \in Int
  OBVIOUS
<1> QED  BY <1>6, <1>7 DEF Invertible

\* inverse finds the inverse, where there is one.
LEMMA InverseFacts ==
    ASSUME NEW d \in Field, Invertible(d)
    PROVE  inverse(d) \in Field /\ Cong(inverse(d) * d, 1)
<1>1. PICK v \in Int : Cong(v * d, 1)
  BY DEF Invertible
<1>2. d \in Int
  BY ModulusFacts
<1>3. PICK u \in Field : u \in Int /\ Cong(u, v)
  <2>1. v % Modulus \in Field /\ v % Modulus \in Int /\ Cong(v % Modulus, v)
    <3>1. v % Modulus \in Field
      BY ModulusFacts
    <3>2. v % Modulus \in Int
      BY <3>1, ModulusFacts
    <3> QED  BY <3>1, <3>2, CongMod
  <2> QED  BY <2>1
<1>4. Cong(u * d, 1)
  <2>1. Cong(u * d, v * d)
    BY <1>2, <1>3, CongRefl, CongMul
  <2>2. u * d \in Int /\ v * d \in Int
    BY <1>2, <1>3
  <2> QED  BY <1>1, <2>1, <2>2, CongTrans
<1>5. (u * d) % Modulus = 1
  <2>1. u * d \in Int
    BY <1>2, <1>3
  <2>2. (u * d) % Modulus = 1 % Modulus
    BY <1>4, <2>1, CongIsEqual
  <2>3. 1 % Modulus = 1
    BY ModulusFacts, Z3
  <2> QED  BY <2>2, <2>3
<1>6. inverse(d) \in Field /\ (inverse(d) * d) % Modulus = 1
  BY <1>5 DEF inverse
<1>7. Cong(inverse(d) * d, 1)
  <2>1. inverse(d) \in Int
    BY <1>6, ModulusFacts
  <2>2. PICK n \in Int : n = inverse(d) * d
    BY <1>2, <2>1
  <2>3. Cong(n, n % Modulus)
    BY CongMod
  <2> QED  BY <1>6, <2>2, <2>3
<1> QED  BY <1>6, <1>7

\* There is a polynomial with n coefficients through any n points.
LEMMA Interpolate ==
    ASSUME NEW n \in Nat, NEW K \in SUBSET Field, IsFiniteSet(K),
           Cardinality(K) <= n, NEW Y \in [Field -> Field]
    PROVE  \E q \in Poly(n) : \A k \in K : Cong(q[k], Y[k])
<1> DEFINE Through(q, L, Z) == \A k \in L : Cong(q[k], Z[k])
           Q == {m \in Nat : \A L \in SUBSET Field : \A Z \in [Field -> Field] :
                    IsFiniteSet(L) /\ Cardinality(L) <= m =>
                        \E q \in Poly(m) : Through(q, L, Z)}
<1>1. 0 \in Q
  <2>1. ASSUME NEW L \in SUBSET Field, NEW Z \in [Field -> Field],
               IsFiniteSet(L), Cardinality(L) <= 0
        PROVE  \E q \in Poly(0) : Through(q, L, Z)
    <3>1. L = {}
      BY <2>1, FS_CardinalityType, FS_EmptySet
    <3> QED  BY <3>1, PolyZero
  <2> HIDE DEF Through
  <2> QED  BY <2>1
<1>2. ASSUME NEW m \in Nat, m \in Q PROVE m + 1 \in Q
  <2>1. ASSUME NEW L \in SUBSET Field, NEW Z \in [Field -> Field],
               IsFiniteSet(L), Cardinality(L) <= m + 1
        PROVE  \E t \in Poly(m + 1) : Through(t, L, Z)
    <3>h. ASSUME NEW J \in SUBSET Field, NEW W \in [Field -> Field],
                 IsFiniteSet(J), Cardinality(J) <= m
          PROVE  \E q \in Poly(m) : Through(q, J, W)
      <4> HIDE DEF Through
      <4> QED  BY <1>2, <3>h
    <3>1. CASE L = {}
      <4>1. {} \in SUBSET Field /\ IsFiniteSet({}) /\ Cardinality({}) <= m
        BY FS_EmptySet
      <4>2. PICK q \in Poly(m) : Through(q, {}, Z)
        BY <3>h, <4>1
      <4>3. Longer(q, 0) \in Poly(m + 1)
        BY PolyLonger, ModulusFacts
      <4> QED  BY <3>1, <4>3
    <3>2. CASE L # {}
      <4>1. PICK a : a \in L
        BY <3>2
      <4>2. a \in Field /\ a \in Int /\ Z[a] \in Field /\ Z[a] \in Int
        BY <4>1, ModulusFacts
      <4> DEFINE J == L \ {a}
      <4>3. J \in SUBSET Field /\ IsFiniteSet(J) /\ Cardinality(J) <= m
        <5>1. Cardinality(J) = Cardinality(L) - 1 /\ IsFiniteSet(J)
          BY <2>1, <4>1, FS_RemoveElement
        <5>2. Cardinality(L) \in Nat
          BY <2>1, FS_CardinalityType
        <5> QED  BY <2>1, <5>1, <5>2
      <4> DEFINE slope(k, v) == (v * (Z[k] - Z[a])) % Modulus
                 Inv(k) == CHOOSE v \in Int : Cong(v * (k - a), 1)
                 W == [k \in Field |-> IF k = a THEN 0 ELSE slope(k, Inv(k))]
      <4>4. ASSUME NEW k \in Field, k # a
            PROVE  /\ W[k] \in Field
                   /\ Inv(k) \in Int /\ Cong(Inv(k) * (k - a), 1)
                   /\ Cong(W[k], Inv(k) * (Z[k] - Z[a]))
        <5>1. Invertible(k - a)
          BY <4>2, <4>4, DifferenceInvertible
        <5>2. Inv(k) \in Int /\ Cong(Inv(k) * (k - a), 1)
          BY <5>1 DEF Invertible
        <5>3. PICK v \in Int : v = Inv(k)
          BY <5>2
        <5>4. Z[k] \in Int
          BY ModulusFacts
        <5>5. PICK d \in Int : d = v * (Z[k] - Z[a])
          BY <4>2, <5>4
        <5>6. W[k] = d % Modulus
          BY <4>4, <5>3, <5>5
        <5>7. d % Modulus \in Field /\ Cong(d % Modulus, d)
          BY ModulusFacts, CongMod
        <5> HIDE DEF W, Inv
        <5> QED  BY <5>2, <5>3, <5>5, <5>6, <5>7
      <4>5. W \in [Field -> Field]
        <5>1. ASSUME NEW k \in Field PROVE W[k] \in Field
          <6>1. CASE k = a
            BY <6>1, ModulusFacts
          <6>2. CASE k # a
            BY <4>4, <6>2
          <6> QED  BY <6>1, <6>2
        <5>2. W = [k \in Field |-> W[k]]
          OBVIOUS
        <5> HIDE DEF W
        <5> QED  BY <5>1, <5>2
      <4> HIDE DEF W, Inv, J
      <4>6. PICK r \in Poly(m) : Through(r, J, W)
        BY <3>h, <4>3, <4>5
      <4>7. PICK t \in Poly(m + 1) :
               \A x \in Field : Cong(t[x], (x - a) * r[x] + Z[a])
        BY <4>2, LinearFactor
      <4>8. Through(t, L, Z)
        <5> TAKE k \in L
        <5>0. k \in Field /\ k \in Int /\ Z[k] \in Int
          BY ModulusFacts
        <5>1. t[k] \in Int /\ r[k] \in Int
          <6>1. m + 1 \in Nat
            OBVIOUS
          <6> QED  BY <5>0, <6>1, PolyType
        <5>2. Cong(t[k], (k - a) * r[k] + Z[a])
          BY <4>7, <5>0
        <5>3. CASE k = a
          <6>1. (k - a) * r[k] + Z[a] = Z[k]
            BY <4>2, <5>1, <5>3
          <6> QED  BY <5>2, <6>1
        <5>4. CASE k # a
          <6>1. Cong(r[k], W[k])
            BY <4>6, <5>4 DEF J
          <6>2. PICK w \in Int, v \in Int, d \in Int :
                   /\ w = W[k] /\ v = Inv(k) /\ d = Z[k] - Z[a]
                   /\ Cong(v * (k - a), 1) /\ Cong(w, v * d)
            <7>1. W[k] \in Field /\ Inv(k) \in Int
                  /\ Cong(Inv(k) * (k - a), 1)
                  /\ Cong(W[k], Inv(k) * (Z[k] - Z[a]))
              BY <4>4, <5>0, <5>4
            <7>2. W[k] \in Int /\ Z[k] - Z[a] \in Int
              <8>1. W[k] \in Int
                BY <7>1, ModulusFacts, Zenon
              <8> QED  BY <4>2, <5>0, <8>1
            <7> QED  BY <7>1, <7>2
          <6>3. PICK e \in Int : e = k - a
            BY <4>2, <5>0
          <6>4. Cong(r[k], v * d)
            <7>1. v * d \in Int
              OBVIOUS
            <7> QED  BY <5>1, <6>1, <6>2, <7>1, CongTrans
          <6>5. Cong(e * r[k], e * (v * d))
            <7>1. v * d \in Int
              OBVIOUS
            <7> QED  BY <5>1, <6>4, <7>1, CongRefl, CongMul
          <6>6. Cong((v * e) * d, 1 * d)
            <7>1. v * e \in Int
              OBVIOUS
            <7> QED  BY <6>2, <6>3, <7>1, CongRefl, CongMul
          <6>7. Cong(e * r[k], d)
            <7>1. e * (v * d) = (v * e) * d /\ 1 * d = d
              OBVIOUS
            <7>2. e * r[k] \in Int /\ (v * e) * d \in Int
              BY <5>1
            <7> QED  BY <6>5, <6>6, <7>1, <7>2, CongTrans
          <6>8. Cong(e * r[k] + Z[a], d + Z[a])
            <7>1. e * r[k] \in Int
              BY <5>1
            <7> QED  BY <4>2, <6>7, <7>1, CongRefl, CongAdd
          <6>9. d + Z[a] = Z[k] /\ e * r[k] + Z[a] \in Int
            BY <4>2, <5>0, <5>1, <6>2
          <6> QED  BY <5>0, <5>1, <5>2, <6>3, <6>8, <6>9, CongTrans
        <5> QED  BY <5>3, <5>4
      <4> HIDE DEF Through
      <4> QED  BY <4>8
    <3> QED  BY <3>1, <3>2
  <2> HIDE DEF Through
  <2>2. m + 1 \in Nat
    OBVIOUS
  <2> QED  BY <2>1, <2>2
<1>3. n \in Q
  <2> HIDE DEF Q
  <2>1. Nat \subseteq Q
    BY <1>1, <1>2, SetInduction
  <2> QED  BY <2>1
<1> QED  BY <1>3

-----------------------------------------------------------------------------
(* Lagrange interpolation *)

\* Sums are congruent if their terms are.
LEMMA SumLinear ==
    ASSUME NEW S, IsFiniteSet(S), NEW w, NEW u, NEW v,
           NEW c \in Int, NEW d \in Int,
           \A k \in S : w[k] \in Nat /\ u[k] \in Nat /\ v[k] \in Nat,
           \A k \in S : Cong(w[k], c * u[k] + d * v[k])
    PROVE  Cong(SumOf(w, S), c * SumOf(u, S) + d * SumOf(v, S))
<1> DEFINE Q == {s \in SUBSET S :
                    Cong(SumOf(w, s), c * SumOf(u, s) + d * SumOf(v, s))}
<1>1. {} \in Q
  <2>1. IsFiniteSet({})
    BY FS_EmptySet
  <2>2. SumOf(w, {}) = 0 /\ SumOf(u, {}) = 0 /\ SumOf(v, {}) = 0
    BY <2>1, SumFacts
  <2>3. c * SumOf(u, {}) + d * SumOf(v, {}) = 0
    BY <2>2
  <2>4. Cong(0, 0)
    BY CongRefl
  <2> QED  BY <2>2, <2>3, <2>4
<1>2. ASSUME NEW s \in SUBSET S, NEW x \in S \ s, s \in Q
      PROVE  s \cup {x} \in Q
  <2>1. /\ SumOf(w, s \cup {x}) = w[x] + SumOf(w, s)
        /\ SumOf(w, s) \in Nat /\ w[x] \in Nat
    BY SumAdd
  <2>2. /\ SumOf(u, s \cup {x}) = u[x] + SumOf(u, s)
        /\ SumOf(u, s) \in Nat /\ u[x] \in Nat
    BY SumAdd
  <2>3. /\ SumOf(v, s \cup {x}) = v[x] + SumOf(v, s)
        /\ SumOf(v, s) \in Nat /\ v[x] \in Nat
    BY SumAdd
  <2>a. PICK w1 \in Int, w2 \in Int : w1 = w[x] /\ w2 = SumOf(w, s)
    BY <2>1
  <2>b. PICK u1 \in Int, u2 \in Int : u1 = u[x] /\ u2 = SumOf(u, s)
    BY <2>2
  <2>4. PICK v1 \in Int, v2 \in Int : v1 = v[x] /\ v2 = SumOf(v, s)
    BY <2>3
  <2>5. Cong(w1, c * u1 + d * v1) /\ Cong(w2, c * u2 + d * v2)
    BY <1>2, <2>a, <2>b, <2>4
  <2>6. Cong(w1 + w2, (c * u1 + d * v1) + (c * u2 + d * v2))
    <3>1. c * u1 + d * v1 \in Int /\ c * u2 + d * v2 \in Int
      OBVIOUS
    <3> QED  BY <2>5, <3>1, CongAdd
  <2>7. (c * u1 + d * v1) + (c * u2 + d * v2)
           = c * (u1 + u2) + d * (v1 + v2)
    OBVIOUS
  <2> QED  BY <2>1, <2>2, <2>3, <2>a, <2>b, <2>4, <2>6, <2>7
<1>3. S \in Q
  <2> HIDE DEF Q
  <2> QED  BY <1>1, <1>2, FiniteInduction
<1> QED  BY <1>3

\* Different points of the field.
Different(X, D) ==
    /\ IsFiniteSet(D)
    /\ X \in [D -> Field]
    /\ \A j \in D, k \in D : j # k => X[j] # X[k]

Differences(X, k) == [j \in DOMAIN X |-> difference(X[j], X[k])]

\* The denominators of different points have inverses.
LEMMA DenominatorInvertible ==
    ASSUME NEW D, NEW X, Different(X, D), NEW k \in D, NEW T \in SUBSET D,
           k \notin T
    PROVE  /\ Product(Differences(X, k), T) \in Field
           /\ Invertible(Product(Differences(X, k), T))
<1> DEFINE w == Differences(X, k)
           Q == {s \in SUBSET T : Invertible(Product(w, s))}
<1>1. \A j \in D : w[j] \in Int /\ w[j] = X[j] - X[k]
  <2> TAKE j \in D
  <2>1. X[j] \in Field /\ X[k] \in Field /\ DOMAIN X = D
    BY DEF Different
  <2>2. X[j] \in Int /\ X[k] \in Int
    BY <2>1, ModulusFacts, Zenon
  <2> QED  BY <2>1, <2>2 DEF Differences, difference
<1>2. \A s \in SUBSET D : IsFiniteSet(s)
  BY FS_Subset DEF Different
<1>3. \A j \in T : Invertible(w[j])
  <2> TAKE j \in T
  <2>1. X[j] \in Field /\ X[k] \in Field /\ X[j] # X[k]
    BY DEF Different
  <2>2. Invertible(X[j] - X[k])
    BY <2>1, DifferenceInvertible
  <2> QED  BY <1>1, <2>2
<1> HIDE DEF w
<1>4. \A s \in SUBSET D : Product(w, s) \in Field /\ Product(w, s) \in Int
  <2> TAKE s \in SUBSET D
  <2>1. \A j \in s : w[j] \in Int
    BY <1>1
  <2>2. Product(w, s) \in Field
    BY <1>2, <2>1, ProductFacts
  <2> QED  BY <2>2, ModulusFacts
<1>5. {} \in Q
  <2>1. Product(w, {}) = 1
    BY <1>2, ProductFacts
  <2>2. Invertible(1)
    <3>1. Cong(1 * 1, 1)
      <4>1. 1 * 1 = 1
        OBVIOUS
      <4> QED  BY <4>1, CongRefl
    <3> QED  BY <3>1 DEF Invertible
  <2> QED  BY <2>1, <2>2
<1>6. ASSUME NEW s \in SUBSET T, NEW x \in T \ s, s \in Q
      PROVE  s \cup {x} \in Q
  <2> DEFINE u == s \cup {x}
  <2>1. u \in SUBSET T /\ u \ {x} = s /\ x \in u
    OBVIOUS
  <2> HIDE DEF u
  <2>2. Cong(Product(w, u), w[x] * Product(w, u \ {x}))
    <3>1. IsFiniteSet(u) /\ \A j \in u : w[j] \in Int
      BY <1>1, <1>2, <2>1
    <3> QED  BY <2>1, <3>1, ProductFacts
  <2>3. Invertible(w[x]) /\ Invertible(Product(w, s))
    BY <1>3, <1>6
  <2>4. w[x] \in Int /\ Product(w, s) \in Int /\ Product(w, u) \in Int
    BY <1>1, <1>4, <2>1
  <2>5. Invertible(Product(w, u))
    BY <2>1, <2>2, <2>3, <2>4, ProductInvertible
  <2> QED  BY <2>1, <2>5 DEF u
<1>7. T \in Q
  <2>1. IsFiniteSet(T)
    BY <1>2
  <2> HIDE DEF Q
  <2> QED  BY <1>5, <1>6, <2>1, FiniteInduction
<1> QED  BY <1>4, <1>7 DEF w

\* The factor of point k among the points S is a quotient.
IsBasis(X, S, k) ==
    LET n == Product(X, S \ {k})
        d == Product(Differences(X, k), S \ {k})
    IN  /\ n \in Int /\ d \in Int /\ inverse(d) \in Int
        /\ Cong(inverse(d) * d, 1)
        /\ basis(X, S, k) = n * inverse(d)
        /\ basis(X, S, k) \in Nat

\* The parts of a basis are what CombineShamirShares takes them for.
LEMMA BasisType ==
    ASSUME NEW D, NEW X, Different(X, D), NEW S \in SUBSET D, NEW k \in S
    PROVE  IsBasis(X, S, k)
<1> DEFINE p == Product(X, S \ {k})
           d == Product(Differences(X, k), S \ {k})
<1>1. p \in Field
  <2>1. IsFiniteSet(S \ {k})
    BY FS_Subset DEF Different
  <2>2. \A j \in S \ {k} : X[j] \in Field
    BY DEF Different
  <2>3. \A j \in S \ {k} : X[j] \in Int
    BY <2>2, ModulusFacts, Zenon
  <2> QED  BY <2>1, <2>3, ProductFacts
<1>2. d \in Field /\ Invertible(d)
  <2>1. S \ {k} \in SUBSET D /\ k \notin S \ {k} /\ k \in D
    OBVIOUS
  <2> QED  BY <2>1, DenominatorInvertible
<1>3. basis(X, S, k) = p * inverse(d)
  BY DEF basis, Differences
<1> HIDE DEF p, d
<1>4. inverse(d) \in Field /\ Cong(inverse(d) * d, 1)
  BY <1>2, InverseFacts
<1>5. p \in Nat /\ d \in Nat /\ inverse(d) \in Nat
  BY <1>1, <1>2, <1>4, ModulusFacts
<1>6. p * inverse(d) \in Nat
  BY <1>5
<1>7. p \in Int /\ d \in Int /\ inverse(d) \in Int
  BY <1>5
<1> QED  BY <1>3, <1>4, <1>6, <1>7, Zenon DEF p, d, IsBasis

\* Multiples of congruent integers are congruent.
LEMMA CongScale ==
    ASSUME NEW a \in Int, NEW b \in Int, NEW c \in Int, Cong(a, b)
    PROVE  Cong(c * a, c * b) /\ Cong(a * c, b * c)
BY CongRefl, CongMul

\* The algebra of one point more in numerator and denominator.
LEMMA BasisIdentity ==
    ASSUME NEW n \in Int, NEW n1 \in Int, NEW d \in Int, NEW d1 \in Int,
           NEW v \in Int, NEW v1 \in Int, NEW e \in Int, NEW xa \in Int,
           Cong(n, xa * n1), Cong(d, e * d1), Cong(v * d, 1), Cong(v1 * d1, 1)
    PROVE  Cong(e * (n * v), xa * (n1 * v1))
<1> DEFINE A == xa * n1
           B == e * (A * v)
           C == A * v1
<1>1. A \in Int /\ B \in Int /\ C \in Int /\ n * v \in Int /\ v * d \in Int
      /\ e * d1 \in Int /\ v1 * d1 \in Int /\ A * v \in Int
  OBVIOUS
<1>2. B * (v1 * d1) = C * (v * (e * d1)) /\ C = xa * (n1 * v1)
  OBVIOUS
<1>3. Cong(n, A)
  OBVIOUS
<1> HIDE DEF A
<1>4. Cong(n * v, A * v)
  BY <1>1, <1>3, CongScale
<1>5. Cong(e * (n * v), B)
  BY <1>1, <1>4, CongScale
<1> HIDE DEF B, C
<1>6. Cong(C * (v * d), C)
  <2>1. C * 1 = C
    BY <1>1
  <2>2. Cong(C * (v * d), C * 1)
    <3>1. 1 \in Int
      OBVIOUS
    <3> QED  BY <1>1, <3>1, CongScale, Zenon
  <2> QED  BY <2>1, <2>2
<1>7. Cong(B * (v1 * d1), B)
  <2>1. B * 1 = B
    BY <1>1
  <2>2. Cong(B * (v1 * d1), B * 1)
    <3>1. 1 \in Int
      OBVIOUS
    <3> QED  BY <1>1, <3>1, CongScale, Zenon
  <2> QED  BY <2>1, <2>2
<1>8. Cong(v * d, v * (e * d1))
  BY <1>1, CongScale
<1>9. v * (e * d1) \in Int
  BY <1>1
<1>10. Cong(C * (v * d), C * (v * (e * d1)))
  BY <1>1, <1>8, <1>9, CongScale
<1>11. C * (v * d) \in Int /\ C * (v * (e * d1)) \in Int /\ e * (n * v) \in Int
  BY <1>1, <1>9
<1>12. Cong(B, C * (v * (e * d1)))
  BY <1>1, <1>2, <1>7, <1>11, CongSym
<1>13. Cong(C * (v * (e * d1)), C)
  BY <1>1, <1>6, <1>10, <1>11, CongSym, CongTrans
<1>14. Cong(e * (n * v), C)
  <2>1. Cong(B, C)
    BY <1>1, <1>11, <1>12, <1>13, CongTrans
  <2> QED  BY <1>1, <1>5, <1>11, <2>1, CongTrans
<1> QED  BY <1>2, <1>14

\* What one point more does to the factor of another.
LEMMA BasisStep ==
    ASSUME NEW D, NEW X, Different(X, D), NEW S \in SUBSET D, NEW a \in S,
           NEW k \in S \ {a}
    PROVE  Cong((X[a] - X[k]) * basis(X, S, k), X[a] * basis(X, S \ {a}, k))
<1>0. PICK w, T : w = Differences(X, k) /\ T = S \ {a}
  OBVIOUS
<1>1. T \in SUBSET D /\ k \in T /\ (S \ {k}) \ {a} = T \ {k} /\ a \in S \ {k}
      /\ k \in S
  BY <1>0
<1>b. ASSUME NEW U \in SUBSET D, k \in U
      PROVE  /\ Product(X, U \ {k}) \in Int /\ Product(w, U \ {k}) \in Int
             /\ inverse(Product(w, U \ {k})) \in Int
             /\ Cong(inverse(Product(w, U \ {k})) * Product(w, U \ {k}), 1)
             /\ basis(X, U, k)
                  = Product(X, U \ {k}) * inverse(Product(w, U \ {k}))
  <2>1. IsBasis(X, U, k)
    BY <1>b, BasisType
  <2> QED  BY <1>0, <2>1 DEF IsBasis
<1>2. /\ Product(X, S \ {k}) \in Int /\ Product(w, S \ {k}) \in Int
      /\ inverse(Product(w, S \ {k})) \in Int
      /\ Cong(inverse(Product(w, S \ {k})) * Product(w, S \ {k}), 1)
      /\ basis(X, S, k)
           = Product(X, S \ {k}) * inverse(Product(w, S \ {k}))
  BY <1>1, <1>b
<1>3. /\ Product(X, T \ {k}) \in Int /\ Product(w, T \ {k}) \in Int
      /\ inverse(Product(w, T \ {k})) \in Int
      /\ Cong(inverse(Product(w, T \ {k})) * Product(w, T \ {k}), 1)
      /\ basis(X, T, k)
           = Product(X, T \ {k}) * inverse(Product(w, T \ {k}))
  BY <1>1, <1>b
<1>4. /\ \A j \in D : X[j] \in Int
      /\ \A j \in D : w[j] \in Int /\ w[j] = X[j] - X[k]
  <2>1. \A j \in D : X[j] \in Field
    BY DEF Different
  <2>2. \A j \in D : X[j] \in Int
    BY <2>1, ModulusFacts, Zenon
  <2>3. DOMAIN X = D /\ k \in D
    BY DEF Different
  <2> QED  BY <1>0, <2>2, <2>3 DEF Differences, difference
<1>5. IsFiniteSet(S \ {k})
  BY FS_Subset DEF Different
<1>6. Cong(Product(X, S \ {k}), X[a] * Product(X, (S \ {k}) \ {a}))
  <2>1. \A j \in S \ {k} : X[j] \in Int
    BY <1>4
  <2> QED  BY <1>1, <1>5, <2>1, ProductFacts
<1>7. Cong(Product(w, S \ {k}), w[a] * Product(w, (S \ {k}) \ {a}))
  <2>1. \A j \in S \ {k} : w[j] \in Int
    BY <1>4
  <2> QED  BY <1>1, <1>5, <2>1, ProductFacts
<1>8. a \in D /\ k \in D
  OBVIOUS
<1>9. PICK e \in Int, xa \in Int : e = X[a] - X[k] /\ xa = X[a] /\ w[a] = e
  BY <1>4, <1>8
<1>10. PICK n \in Int, d \in Int, v \in Int :
          /\ n = Product(X, S \ {k}) /\ d = Product(w, S \ {k})
          /\ v = inverse(Product(w, S \ {k}))
  BY <1>2
<1>11. PICK n1 \in Int, d1 \in Int, v1 \in Int :
          /\ n1 = Product(X, T \ {k}) /\ d1 = Product(w, T \ {k})
          /\ v1 = inverse(Product(w, T \ {k}))
  BY <1>3
<1>12. /\ Cong(n, xa * n1) /\ Cong(d, e * d1) /\ Cong(v * d, 1)
       /\ Cong(v1 * d1, 1)
  BY <1>1, <1>2, <1>3, <1>6, <1>7, <1>9, <1>10, <1>11
<1>13. Cong(e * (n * v), xa * (n1 * v1))
  BY <1>12, BasisIdentity
<1> QED  BY <1>0, <1>2, <1>3, <1>9, <1>10, <1>11, <1>13

\* The combination of the shares S with values Y.
Terms(X, S, Y) == [k \in S |-> Y[k] * basis(X, S, k)]
Combined(X, S, Y) == SumOf(Terms(X, S, Y), S)

\* What interpolation adds up are natural numbers.
LEMMA CombinedType ==
    ASSUME NEW D, NEW X, Different(X, D), NEW S \in SUBSET D,
           NEW Y, \A k \in S : Y[k] \in Field
    PROVE  /\ IsFiniteSet(S)
           /\ \A k \in S : /\ Terms(X, S, Y)[k] \in Nat
                           /\ Terms(X, S, Y)[k] = Y[k] * basis(X, S, k)
                           /\ Y[k] \in Int
                           /\ basis(X, S, k) \in Nat
           /\ Combined(X, S, Y) \in Nat
           /\ S = {} => Combined(X, S, Y) = 0
<1>1. IsFiniteSet(S)
  BY FS_Subset DEF Different
<1>2. ASSUME NEW k \in S
      PROVE  /\ Terms(X, S, Y)[k] \in Nat
             /\ Terms(X, S, Y)[k] = Y[k] * basis(X, S, k)
             /\ Y[k] \in Int /\ basis(X, S, k) \in Nat
  <2>1. Y[k] \in Nat
    BY ModulusFacts, Zenon
  <2>2. basis(X, S, k) \in Nat
    BY BasisType DEF IsBasis
  <2>3. Terms(X, S, Y)[k] = Y[k] * basis(X, S, k)
    BY DEF Terms
  <2> QED  BY <2>1, <2>2, <2>3
<1>3. Combined(X, S, Y) \in Nat /\ (S = {} => Combined(X, S, Y) = 0)
  BY <1>1, <1>2, SumFacts DEF Combined
<1> QED  BY <1>1, <1>2, <1>3

\* The values Y are a combination of the values U and V.
Linear(S, Y, c, U, d, V) ==
    \A k \in S : /\ Y[k] \in Field /\ U[k] \in Field /\ V[k] \in Field
                 /\ Cong(Y[k], c * U[k] + d * V[k])

\* The algebra of one term of a combination.
LEMMA LinearTerm ==
    ASSUME NEW y \in Int, NEW u \in Int, NEW v \in Int, NEW c \in Int,
           NEW d \in Int, NEW b \in Int, Cong(y, c * u + d * v)
    PROVE  Cong(y * b, c * (u * b) + d * (v * b))
<1>1. c * u + d * v \in Int
  OBVIOUS
<1>2. Cong(y * b, (c * u + d * v) * b)
  BY <1>1, CongScale
<1>3. (c * u + d * v) * b = c * (u * b) + d * (v * b)
  OBVIOUS
<1> QED  BY <1>2, <1>3

\* What is combined is linear in the values.
LEMMA CombinedLinear ==
    ASSUME NEW D, NEW X, Different(X, D), NEW S \in SUBSET D,
           NEW Y, NEW U, NEW V, NEW c \in Int, NEW d \in Int,
           Linear(S, Y, c, U, d, V)
    PROVE  Cong(Combined(X, S, Y), c * Combined(X, S, U) + d * Combined(X, S, V))
<1>0. /\ \A k \in S : Y[k] \in Field
      /\ \A k \in S : U[k] \in Field
      /\ \A k \in S : V[k] \in Field
  BY DEF Linear
<1>1. IsFiniteSet(S) /\ \A k \in S : /\ Terms(X, S, Y)[k] \in Nat
                           /\ Terms(X, S, Y)[k] = Y[k] * basis(X, S, k)
                           /\ Y[k] \in Int
                           /\ basis(X, S, k) \in Nat
  BY <1>0, CombinedType
<1>2. \A k \in S : /\ Terms(X, S, U)[k] \in Nat
                   /\ Terms(X, S, U)[k] = U[k] * basis(X, S, k)
                   /\ U[k] \in Int
  BY <1>0, CombinedType
<1>3. \A k \in S : /\ Terms(X, S, V)[k] \in Nat
                   /\ Terms(X, S, V)[k] = V[k] * basis(X, S, k)
                   /\ V[k] \in Int
  BY <1>0, CombinedType
<1>4. PICK w, u, v : w = Terms(X, S, Y) /\ u = Terms(X, S, U) /\ v = Terms(X, S, V)
  OBVIOUS
<1>5. \A k \in S : Cong(w[k], c * u[k] + d * v[k])
  <2> TAKE k \in S
  <2>1. Cong(Y[k], c * U[k] + d * V[k])
    BY DEF Linear
  <2>2. Y[k] \in Int /\ U[k] \in Int /\ V[k] \in Int /\ basis(X, S, k) \in Int
    BY <1>1, <1>2, <1>3
  <2>3. Cong(Y[k] * basis(X, S, k), c * (U[k] * basis(X, S, k))
               + d * (V[k] * basis(X, S, k)))
    BY <2>1, <2>2, LinearTerm
  <2> QED  BY <1>1, <1>2, <1>3, <1>4, <2>3
<1>6. \A k \in S : w[k] \in Nat /\ u[k] \in Nat /\ v[k] \in Nat
  BY <1>1, <1>2, <1>3, <1>4
<1>7. Cong(SumOf(w, S), c * SumOf(u, S) + d * SumOf(v, S))
  BY <1>1, <1>5, <1>6, SumLinear
<1> QED  BY <1>4, <1>7 DEF Combined

\* The algebra of one term of Shift.
LEMMA ShiftIdentity ==
    ASSUME NEW y \in Int, NEW z \in Int, NEW xa \in Int, NEW xk \in Int,
           NEW b \in Int, NEW b1 \in Int,
           Cong(y, (xk - xa) * z), Cong((xa - xk) * b, xa * b1)
    PROVE  Cong(y * b, (-xa) * (z * b1) + 0 * (z * b1))
<1>1. (xk - xa) * z \in Int /\ (xa - xk) * b \in Int /\ xa * b1 \in Int
      /\ -z \in Int
  OBVIOUS
<1>2. Cong(y * b, ((xk - xa) * z) * b)
  BY <1>1, CongScale
<1>3. Cong((-z) * ((xa - xk) * b), (-z) * (xa * b1))
  BY <1>1, CongScale
<1>4. ((xk - xa) * z) * b = (-z) * ((xa - xk) * b)
  OBVIOUS
<1>5. (-z) * (xa * b1) = (-xa) * (z * b1) + 0 * (z * b1)
  OBVIOUS
<1>6. y * b \in Int /\ ((xk - xa) * z) * b \in Int /\ (-z) * (xa * b1) \in Int
  OBVIOUS
<1> QED  BY <1>2, <1>3, <1>4, <1>5, <1>6, CongTrans

\* The values Y are the values Z with the linear factor of point a.
Shifted(X, S, a, Y, Z) ==
    \A k \in S : /\ Y[k] \in Field /\ Z[k] \in Field
                 /\ Cong(Y[k], (X[k] - X[a]) * Z[k])

\* Values with the factor x - a: the point a can be left out.
LEMMA Shift ==
    ASSUME NEW D, NEW X, Different(X, D), NEW S \in SUBSET D, NEW a \in S,
           NEW Y, NEW Z, Shifted(X, S, a, Y, Z)
    PROVE  Cong(Combined(X, S, Y), (-X[a]) * Combined(X, S \ {a}, Z))
<1>0. PICK T : T = S \ {a}
  OBVIOUS
<1>1. T \in SUBSET D /\ T \in SUBSET S
  BY <1>0
<1>2. /\ \A k \in S : Y[k] \in Field
      /\ \A k \in T : Z[k] \in Field
  BY <1>1 DEF Shifted
<1>3. PICK w, u : w = Terms(X, S, Y) /\ u = Terms(X, T, Z)
  OBVIOUS
<1>4. IsFiniteSet(S) /\ \A k \in S : /\ Terms(X, S, Y)[k] \in Nat
                           /\ Terms(X, S, Y)[k] = Y[k] * basis(X, S, k)
                           /\ Y[k] \in Int
                           /\ basis(X, S, k) \in Nat
  BY <1>2, CombinedType
<1>5. IsFiniteSet(T) /\ \A k \in T : /\ Terms(X, T, Z)[k] \in Nat
                           /\ Terms(X, T, Z)[k] = Z[k] * basis(X, T, k)
                           /\ Z[k] \in Int
                           /\ basis(X, T, k) \in Nat
  BY <1>1, <1>2, CombinedType
<1>6. \A k \in D : X[k] \in Int
  <2>1. \A k \in D : X[k] \in Field
    BY DEF Different
  <2> QED  BY <2>1, ModulusFacts, Zenon
<1>7. \A k \in T : Cong(w[k], (-X[a]) * u[k] + 0 * u[k])
  <2> TAKE k \in T
  <2>1. k \in S \ {a} /\ k \in S /\ k \in D /\ a \in D
    BY <1>0
  <2>2. Cong((X[a] - X[k]) * basis(X, S, k), X[a] * basis(X, T, k))
    BY <1>0, <2>1, BasisStep
  <2>3. Cong(Y[k], (X[k] - X[a]) * Z[k])
    BY <2>1 DEF Shifted
  <2>4. X[a] \in Int /\ X[k] \in Int /\ Y[k] \in Int /\ Z[k] \in Int
        /\ basis(X, S, k) \in Int /\ basis(X, T, k) \in Int
    BY <1>4, <1>5, <1>6, <2>1
  <2>5. Cong(Y[k] * basis(X, S, k), (-X[a]) * (Z[k] * basis(X, T, k))
               + 0 * (Z[k] * basis(X, T, k)))
    BY <2>2, <2>3, <2>4, ShiftIdentity
  <2> QED  BY <1>3, <1>4, <1>5, <2>1, <2>5
<1>8. PICK c \in Int : c = -X[a]
  BY <1>6
<1>9. \A k \in T : w[k] \in Nat /\ u[k] \in Nat /\ u[k] \in Nat
  BY <1>1, <1>3, <1>4, <1>5
<1>10. Cong(SumOf(w, T), c * SumOf(u, T) + 0 * SumOf(u, T))
  <2>1. \A k \in T : Cong(w[k], c * u[k] + 0 * u[k])
    BY <1>7, <1>8
  <2>2. 0 \in Int
    OBVIOUS
  <2> QED  BY <1>5, <1>9, <2>1, <2>2, SumLinear
<1>11. SumOf(w, S) = w[a] + SumOf(w, T)
  BY <1>0, <1>3, <1>4, SumFacts
<1>12. SumOf(w, T) \in Nat /\ SumOf(u, T) \in Nat
  BY <1>5, <1>9, SumFacts
<1>13. Cong(w[a], 0)
  <2>1. Cong(Y[a], (X[a] - X[a]) * Z[a]) /\ Z[a] \in Field
    BY DEF Shifted
  <2>2. X[a] \in Int /\ Z[a] \in Int /\ Y[a] \in Int /\ basis(X, S, a) \in Int
    BY <1>4, <1>6, <2>1, ModulusFacts
  <2>3. (X[a] - X[a]) * Z[a] = 0
    BY <2>2
  <2>z. PICK z \in Int : z = 0
    OBVIOUS
  <2>4. Cong(Y[a] * basis(X, S, a), z * basis(X, S, a))
    <3>1. Cong(Y[a], z)
      BY <2>1, <2>3, <2>z
    <3> QED  BY <2>2, <3>1, CongScale
  <2>5. z * basis(X, S, a) = 0
    BY <2>2, <2>z
  <2> QED  BY <1>3, <1>4, <2>4, <2>5
<1>14. PICK s1 \in Int, s2 \in Int : s1 = SumOf(w, T) /\ s2 = SumOf(u, T)
  BY <1>12
<1>15. w[a] \in Int
  BY <1>3, <1>4
<1>16. c * s2 + 0 * s2 = c * s2 /\ c * s2 \in Int
  OBVIOUS
<1>17. PICK z \in Int : z = 0
  OBVIOUS
<1>18. Cong(w[a] + s1, c * s2)
  <2>1. Cong(w[a] + s1, z + c * s2)
    BY <1>10, <1>13, <1>14, <1>15, <1>16, <1>17, CongAdd
  <2>2. z + c * s2 = c * s2
    BY <1>16, <1>17
  <2> QED  BY <2>1, <2>2
<1> QED  BY <1>0, <1>3, <1>8, <1>11, <1>14, <1>18 DEF Combined
\* The algebra of comparing the interpolations of x - a and x - b.
LEMMA Cancel ==
    ASSUME NEW c \in Int, NEW xa \in Int, NEW xb \in Int, NEW ya \in Int,
           NEW yb \in Int, Invertible(xb - xa),
           Cong(ya, (xb - xa) * c + 1 * yb), Cong(ya, -xa), Cong(yb, -xb)
    PROVE  Cong(c, 1)
<1>0. PICK e \in Int : e = xb - xa
  OBVIOUS
<1>1. PICK v \in Int : Cong(v * e, 1)
  BY <1>0 DEF Invertible
<1>2. PICK q1 \in Int : ya - (e * c + yb) = q1 * Modulus
  <2>1. (xb - xa) * c + 1 * yb = e * c + yb
    BY <1>0
  <2> QED  BY <2>1 DEF Cong
<1>3. PICK q2 \in Int : ya - (-xa) = q2 * Modulus
  BY DEF Cong
<1>4. PICK q3 \in Int : yb - (-xb) = q3 * Modulus
  BY DEF Cong
<1>m. PICK m \in Int : m = Modulus
  BY ModulusFacts
<1>5. e * c - e = (q2 - q1 - q3) * m
  <2>1. ya = (-xa) + q2 * m /\ yb = (-xb) + q3 * m /\ e * c = ya - yb - q1 * m
    BY <1>2, <1>3, <1>4, <1>m
  <2>2. PICK n \in Int : n = e * c
    OBVIOUS
  <2>3. n - e = q2 * m - q1 * m - q3 * m
    BY <1>0, <2>1, <2>2
  <2>4. q2 * m - q1 * m - q3 * m = (q2 - q1 - q3) * m
    OBVIOUS
  <2> QED  BY <2>2, <2>3, <2>4
<1>6. Cong(e * c, e)
  <2>1. q2 - q1 - q3 \in Int
    OBVIOUS
  <2> QED  BY <1>5, <1>m, <2>1 DEF Cong
<1>7. Cong(v * (e * c), v * e)
  <2>1. e * c \in Int
    OBVIOUS
  <2> QED  BY <1>6, <2>1, CongScale
<1>8. Cong((v * e) * c, c)
  <2>1. v * e \in Int /\ 1 \in Int
    OBVIOUS
  <2>2. Cong((v * e) * c, 1 * c)
    BY <1>1, <2>1, CongScale, Zenon
  <2>3. 1 * c = c
    OBVIOUS
  <2> QED  BY <2>2, <2>3
<1>9. v * (e * c) = (v * e) * c /\ (v * e) * c \in Int /\ v * e \in Int
  OBVIOUS
<1>10. Cong(c, v * e)
  BY <1>7, <1>8, <1>9, CongSym, CongTrans
<1> QED  BY <1>1, <1>9, <1>10, CongTrans

Ones(D) == [k \in D |-> 1]
Away(X, D, a) == [k \in D |-> (X[k] - X[a]) % Modulus]

\* Away(X, D, a) holds the values of x - a.
LEMMA AwayFacts ==
    ASSUME NEW D, NEW X, Different(X, D), NEW S \in SUBSET D, NEW a \in D
    PROVE  /\ Shifted(X, S, a, Away(X, D, a), Ones(D))
           /\ \A k \in D : X[k] \in Int /\ X[k] \in Field
           /\ \A k \in D : /\ Away(X, D, a)[k] \in Field
                           /\ Away(X, D, a)[k] \in Int
                           /\ Cong(Away(X, D, a)[k], X[k] - X[a])
<1>1. \A k \in D : X[k] \in Field
  BY DEF Different
<1>2. \A k \in D : X[k] \in Int
  BY <1>1, ModulusFacts, Zenon
<1>3. ASSUME NEW k \in D
      PROVE  /\ Away(X, D, a)[k] \in Field /\ Away(X, D, a)[k] \in Int
             /\ Cong(Away(X, D, a)[k], X[k] - X[a])
  <2>1. PICK n \in Int : n = X[k] - X[a]
    BY <1>2
  <2>2. Away(X, D, a)[k] = n % Modulus
    BY <2>1 DEF Away
  <2>3. n % Modulus \in Field
    BY ModulusFacts
  <2> QED  BY <2>1, <2>2, <2>3, ModulusFacts, CongMod
<1>4. ASSUME NEW k \in S
      PROVE  /\ Away(X, D, a)[k] \in Field /\ Ones(D)[k] \in Field
             /\ Cong(Away(X, D, a)[k], (X[k] - X[a]) * Ones(D)[k])
  <2>1. Ones(D)[k] = 1 /\ 1 \in Field /\ k \in D
    BY ModulusFacts DEF Ones
  <2>2. (X[k] - X[a]) * 1 = X[k] - X[a]
    BY <1>2, <2>1
  <2> QED  BY <1>3, <2>1, <2>2
<1>5. Shifted(X, S, a, Away(X, D, a), Ones(D))
  BY <1>4 DEF Shifted
<1> QED  BY <1>1, <1>2, <1>3, <1>5

\* x - a is x - b and a constant.
LEMMA AwayLinear ==
    ASSUME NEW D, NEW X, Different(X, D), NEW S \in SUBSET D, NEW a \in D,
           NEW b \in D
    PROVE  Linear(S, Away(X, D, a), X[b] - X[a], Ones(D), 1, Away(X, D, b))
<1>1. ASSUME NEW k \in S
      PROVE  /\ Away(X, D, a)[k] \in Field /\ Away(X, D, b)[k] \in Field
             /\ Ones(D)[k] \in Field
             /\ Cong(Away(X, D, a)[k], (X[b] - X[a]) * Ones(D)[k]
                                         + 1 * Away(X, D, b)[k])
  <2>1. Ones(D)[k] = 1 /\ 1 \in Field /\ k \in D
    BY ModulusFacts DEF Ones
  <2>2. /\ Away(X, D, a)[k] \in Field /\ Away(X, D, a)[k] \in Int
        /\ Cong(Away(X, D, a)[k], X[k] - X[a])
        /\ X[k] \in Int /\ X[a] \in Int /\ X[b] \in Int
    BY <2>1, AwayFacts
  <2>3. /\ Away(X, D, b)[k] \in Field /\ Away(X, D, b)[k] \in Int
        /\ Cong(Away(X, D, b)[k], X[k] - X[b])
    BY <2>1, AwayFacts
  <2>4. PICK ya \in Int, yb \in Int : ya = Away(X, D, a)[k] /\ yb = Away(X, D, b)[k]
    BY <2>2, <2>3
  <2>5. PICK xa \in Int, xb \in Int, xk \in Int : xa = X[a] /\ xb = X[b] /\ xk = X[k]
    BY <2>2
  <2>6. Cong(ya, xk - xa) /\ Cong(yb, xk - xb)
    BY <2>2, <2>3, <2>4, <2>5
  <2>7. PICK q1 \in Int : ya - (xk - xa) = q1 * Modulus
    BY <2>6 DEF Cong
  <2>8. PICK q2 \in Int : yb - (xk - xb) = q2 * Modulus
    BY <2>6 DEF Cong
  <2>9. ya - ((xb - xa) * 1 + 1 * yb) = (q1 - q2) * Modulus
    <3>1. (q1 - q2) * Modulus = q1 * Modulus - q2 * Modulus
      BY ModulusFacts
    <3>2. q1 * Modulus \in Int /\ q2 * Modulus \in Int
      BY ModulusFacts
    <3> QED  BY <2>7, <2>8, <3>1, <3>2
  <2>10. Cong(ya, (xb - xa) * 1 + 1 * yb)
    <3>1. q1 - q2 \in Int
      OBVIOUS
    <3> QED  BY <2>9, <3>1 DEF Cong
  <2> QED  BY <2>1, <2>2, <2>3, <2>4, <2>5, <2>10
<1> QED  BY <1>1 DEF Linear

\* Interpolation of 1 through one point.
LEMMA OneOfOne ==
    ASSUME NEW D, NEW X, Different(X, D), NEW a \in D
    PROVE  Cong(Combined(X, {a}, Ones(D)), 1)
<1>0. PICK S : S = {a}
  OBVIOUS
<1>1. S \in SUBSET D /\ a \in S /\ S \ {a} = {}
  BY <1>0
<1>2. IsBasis(X, S, a)
  BY <1>1, BasisType
<1>3. IsFiniteSet({})
  BY FS_EmptySet
<1>4. Product(X, {}) = 1 /\ Product(Differences(X, a), {}) = 1
  BY <1>3, ProductFacts
<1>5. /\ basis(X, S, a) = 1 * inverse(1) /\ Cong(inverse(1) * 1, 1)
      /\ inverse(1) \in Int
  BY <1>1, <1>2, <1>4 DEF IsBasis
<1>6. \A k \in S : Ones(D)[k] \in Field /\ Ones(D)[k] = 1
  BY <1>1, ModulusFacts DEF Ones
<1>7. /\ IsFiniteSet(S)
      /\ \A k \in S : /\ Terms(X, S, Ones(D))[k] \in Nat
                      /\ Terms(X, S, Ones(D))[k]
                            = Ones(D)[k] * basis(X, S, k)
                      /\ Ones(D)[k] \in Int
                      /\ basis(X, S, k) \in Nat
  BY <1>1, <1>6, CombinedType
<1>8. PICK w : w = Terms(X, S, Ones(D))
  OBVIOUS
<1>9. SumOf(w, S) = w[a] + SumOf(w, {}) /\ SumOf(w, {}) = 0 /\ w[a] \in Nat
  BY <1>1, <1>3, <1>7, <1>8, SumFacts
<1>10. w[a] = inverse(1) * 1
  BY <1>1, <1>5, <1>6, <1>7, <1>8
<1> QED  BY <1>0, <1>5, <1>8, <1>9, <1>10 DEF Combined

\* The factors of the points add up to 1.
LEMMA One ==
    ASSUME NEW D, NEW X, Different(X, D), NEW S \in SUBSET D, S # {}
    PROVE  Cong(Combined(X, S, Ones(D)), 1)
<1> DEFINE Q == {n \in Nat : \A s \in UpTo(D, n) :
                    s # {} => Cong(Combined(X, s, Ones(D)), 1)}
<1>0. IsFiniteSet(D)
  BY DEF Different
<1>1. 0 \in Q
  <2>1. UpTo(D, 0) = {{}}
    BY <1>0, SubsetsFinite DEF UpTo
  <2> QED  BY <2>1
<1>2. ASSUME NEW n \in Nat, n \in Q PROVE n + 1 \in Q
  <2>1. ASSUME NEW s \in UpTo(D, n + 1), s # {}
        PROVE  Cong(Combined(X, s, Ones(D)), 1)
    <3>1. PICK a \in s : TRUE
      BY <2>1
    <3>2. s \in SUBSET D /\ a \in D
      BY DEF UpTo
    <3>3. CASE s = {a}
      BY <3>2, <3>3, OneOfOne
    <3>4. CASE s # {a}
      <4>1. PICK b \in s : b # a
        BY <3>4
      <4>2. b \in D
        BY <3>2
      <4>3. ASSUME NEW c \in s, s \ {c} # {}
            PROVE  Cong(Combined(X, s, Away(X, D, c)), -X[c])
        <5>1. s \ {c} \in UpTo(D, n) /\ s \ {c} \in SUBSET D /\ c \in D
          BY <1>0, <3>2, SubsetsFinite DEF UpTo
        <5>2. Cong(Combined(X, s \ {c}, Ones(D)), 1)
          BY <1>2, <4>3, <5>1
        <5>3. Shifted(X, s, c, Away(X, D, c), Ones(D)) /\ X[c] \in Int
          BY <3>2, <5>1, AwayFacts
        <5>4. Cong(Combined(X, s, Away(X, D, c)),
                   (-X[c]) * Combined(X, s \ {c}, Ones(D)))
          BY <3>2, <5>3, Shift
        <5>5. Combined(X, s \ {c}, Ones(D)) \in Nat
          <6>1. \A k \in s \ {c} : Ones(D)[k] \in Field
            BY <5>1, ModulusFacts DEF Ones
          <6> QED  BY <5>1, <6>1, CombinedType
        <5>6. Combined(X, s, Away(X, D, c)) \in Nat
          <6>1. \A k \in s : Away(X, D, c)[k] \in Field
            BY <3>2, <5>1, AwayFacts
          <6> QED  BY <3>2, <6>1, CombinedType
        <5>7. PICK y \in Int, z \in Int, m \in Int :
                 /\ y = Combined(X, s, Away(X, D, c))
                 /\ z = Combined(X, s \ {c}, Ones(D)) /\ m = -X[c]
          BY <5>3, <5>5, <5>6
        <5>8. Cong(m * z, m * 1)
          <6>1. 1 \in Int /\ Cong(z, 1)
            BY <5>2, <5>7
          <6> QED  BY <6>1, CongScale, Zenon
        <5>9. m * 1 = m /\ m * z \in Int
          OBVIOUS
        <5>10. Cong(y, m)
          BY <5>4, <5>7, <5>8, <5>9, CongTrans
        <5> QED  BY <5>7, <5>10
      <4>4. Cong(Combined(X, s, Away(X, D, a)), -X[a])
        BY <4>1, <4>3
      <4>5. Cong(Combined(X, s, Away(X, D, b)), -X[b])
        BY <4>1, <4>3
      <4>6. X[a] \in Int /\ X[b] \in Int /\ X[a] \in Field /\ X[b] \in Field
            /\ X[b] - X[a] \in Int
        <5>1. \A k \in D : X[k] \in Int /\ X[k] \in Field
          BY <3>2, AwayFacts
        <5> QED  BY <3>2, <4>2, <5>1
      <4>7. Cong(Combined(X, s, Away(X, D, a)),
                 (X[b] - X[a]) * Combined(X, s, Ones(D))
                    + 1 * Combined(X, s, Away(X, D, b)))
        <5>1. Linear(s, Away(X, D, a), X[b] - X[a], Ones(D), 1, Away(X, D, b))
          BY <3>2, <4>2, AwayLinear
        <5>2. PICK e \in Int : e = X[b] - X[a]
          BY <4>6
        <5>3. Linear(s, Away(X, D, a), e, Ones(D), 1, Away(X, D, b))
          BY <5>1, <5>2
        <5>4. 1 \in Int
          OBVIOUS
        <5>5. Cong(Combined(X, s, Away(X, D, a)), e * Combined(X, s, Ones(D))
                    + 1 * Combined(X, s, Away(X, D, b)))
          BY <3>2, <5>3, <5>4, CombinedLinear, Zenon
        <5> QED  BY <5>2, <5>5
      <4>8. /\ Combined(X, s, Away(X, D, a)) \in Nat
            /\ Combined(X, s, Away(X, D, b)) \in Nat
            /\ Combined(X, s, Ones(D)) \in Nat
        <5>1. /\ \A k \in s : Away(X, D, a)[k] \in Field
              /\ \A k \in s : Away(X, D, b)[k] \in Field
          BY <3>2, <4>2, AwayFacts
        <5>2. \A k \in s : Ones(D)[k] \in Field
          BY <3>2, ModulusFacts DEF Ones
        <5> QED  BY <3>2, <5>1, <5>2, CombinedType
      <4>9. Invertible(X[b] - X[a])
        <5>1. X[b] # X[a]
          BY <3>2, <4>1, <4>2 DEF Different
        <5> QED  BY <4>6, <5>1, DifferenceInvertible
      <4>10. PICK c \in Int, ya \in Int, yb \in Int :
                /\ c = Combined(X, s, Ones(D))
                /\ ya = Combined(X, s, Away(X, D, a))
                /\ yb = Combined(X, s, Away(X, D, b))
        BY <4>8
      <4>11. /\ Cong(ya, (X[b] - X[a]) * c + 1 * yb)
             /\ Cong(ya, -X[a]) /\ Cong(yb, -X[b])
        BY <4>4, <4>5, <4>7, <4>10
      <4>12. Cong(c, 1)
        BY <4>6, <4>9, <4>11, Cancel
      <4> QED  BY <4>10, <4>12
    <3> QED  BY <3>3, <3>4
  <2>2. n + 1 \in Nat
    OBVIOUS
  <2> QED  BY <2>1, <2>2
<1>3. Cardinality(S) \in Q
  <2> HIDE DEF Q
  <2>1. Nat \subseteq Q
    BY <1>1, <1>2, SetInduction
  <2>2. Cardinality(S) \in Nat
    BY <1>0, SubsetsFinite
  <2> QED  BY <2>1, <2>2
<1>4. S \in UpTo(D, Cardinality(S))
  <2>1. Cardinality(S) \in Nat
    BY <1>0, SubsetsFinite
  <2> QED  BY <2>1 DEF UpTo
<1> QED  BY <1>3, <1>4
\* The values of p at the points X.
Along(X, D, p) == [k \in D |-> p[X[k]]]

\* The values of a polynomial at the points.
LEMMA AlongType ==
    ASSUME NEW D, NEW X, Different(X, D), NEW n \in Nat, NEW p \in Poly(n)
    PROVE  \A k \in D : /\ Along(X, D, p)[k] = p[X[k]]
                        /\ Along(X, D, p)[k] \in Field
                        /\ Along(X, D, p)[k] \in Int
                        /\ X[k] \in Field /\ X[k] \in Int
<1> TAKE k \in D
<1>1. X[k] \in Field
  BY DEF Different
<1>2. X[k] \in Int
  BY <1>1, ModulusFacts, Zenon
<1>3. p[X[k]] \in Field /\ p[X[k]] \in Int
  BY <1>1, PolyType
<1> QED  BY <1>1, <1>2, <1>3 DEF Along

\* The algebra of the step of Lagrange.
LEMMA LagrangeIdentity ==
    ASSUME NEW y \in Int, NEW pa \in Int, NEW o \in Int, NEW s \in Int,
           NEW xa \in Int, NEW t \in Int, NEW q0 \in Int, NEW p0 \in Int,
           Cong(y, pa * o + 1 * s), Cong(o, 1), Cong(s, (-xa) * t),
           Cong(t, q0), Cong(p0, pa + (0 - xa) * q0)
    PROVE  Cong(y, p0)
<1>1. PICK a1 \in Int : y - (pa * o + 1 * s) = a1 * Modulus
  BY DEF Cong
<1>2. PICK a2 \in Int : o - 1 = a2 * Modulus
  BY DEF Cong
<1>3. PICK a3 \in Int : s - (-xa) * t = a3 * Modulus
  BY DEF Cong
<1>4. PICK a4 \in Int : t - q0 = a4 * Modulus
  BY DEF Cong
<1>5. PICK a5 \in Int : p0 - (pa + (0 - xa) * q0) = a5 * Modulus
  BY DEF Cong
<1>m. PICK m \in Int : m = Modulus
  BY ModulusFacts
<1>6. o = 1 + a2 * m /\ t = q0 + a4 * m
  BY <1>2, <1>4, <1>m
<1>7. s = (-xa) * (q0 + a4 * m) + a3 * m
  BY <1>3, <1>6, <1>m
<1>8. y = pa * (1 + a2 * m) + ((-xa) * (q0 + a4 * m) + a3 * m) + a1 * m
  <2>1. y = pa * o + s + a1 * m
    BY <1>1, <1>m
  <2> QED  BY <1>6, <1>7, <2>1
<1>9. p0 = pa - xa * q0 + a5 * m
  <2>1. (0 - xa) * q0 = -(xa * q0)
    OBVIOUS
  <2> QED  BY <1>5, <1>m, <2>1
<1>10. (pa * (1 + a2 * m) + ((-xa) * (q0 + a4 * m) + a3 * m) + a1 * m)
           - (pa - xa * q0 + a5 * m)
         = (pa * a2 - xa * a4 + a3 + a1 - a5) * m
  OBVIOUS
<1>11. y - p0 = (pa * a2 - xa * a4 + a3 + a1 - a5) * Modulus
       /\ pa * a2 - xa * a4 + a3 + a1 - a5 \in Int
  BY <1>8, <1>9, <1>10, <1>m
<1> QED  BY <1>11 DEF Cong

\* As many points of a polynomial as it has coefficients give its value at 0.
LEMMA Lagrange ==
    ASSUME NEW D, NEW X, Different(X, D), NEW S \in SUBSET D, NEW n \in Nat,
           Cardinality(S) = n, NEW p \in Poly(n)
    PROVE  Cong(Combined(X, S, Along(X, D, p)), p[0])
<1> DEFINE Q == {m \in Nat : \A s \in SUBSET D : \A r \in Poly(m) :
                   Cardinality(s) = m => Cong(Combined(X, s, Along(X, D, r)), r[0])}
<1>0. IsFiniteSet(D)
  BY DEF Different
<1>1. 0 \in Q
  <2>1. ASSUME NEW s \in SUBSET D, NEW r \in Poly(0), Cardinality(s) = 0
        PROVE  Cong(Combined(X, s, Along(X, D, r)), r[0])
    <3>1. s = {}
      BY <1>0, <2>1, SubsetsFinite
    <3>2. r[0] = 0
      BY ModulusFacts, PolyType
    <3>3. Combined(X, s, Along(X, D, r)) = 0
      <4>1. \A k \in s : Along(X, D, r)[k] \in Field
        BY <3>1
      <4> QED  BY <3>1, <4>1, CombinedType
    <3> QED  BY <3>2, <3>3, CongRefl
  <2> QED  BY <2>1
<1>2. ASSUME NEW m \in Nat, m \in Q PROVE m + 1 \in Q
  <2>0. m + 1 \in Nat
    OBVIOUS
  <2>1. ASSUME NEW s \in SUBSET D, NEW r \in Poly(m + 1), Cardinality(s) = m + 1
        PROVE  Cong(Combined(X, s, Along(X, D, r)), r[0])
    <3>1. PICK a \in s : TRUE
      <4>1. s # {}
        BY <1>0, <2>1, SubsetsFinite
      <4> QED  BY <4>1
    <3>2. a \in D /\ s \ {a} \in SUBSET D /\ Cardinality(s \ {a}) = m
      BY <1>0, <2>1, SubsetsFinite
    <3>3. /\ \A k \in D : Along(X, D, r)[k] = r[X[k]]
          /\ \A k \in D : Along(X, D, r)[k] \in Field
          /\ \A k \in D : X[k] \in Field /\ X[k] \in Int
      BY <2>0, AlongType
    <3>4. PICK q \in Poly(m) :
             \A x \in Field : Cong(r[x], r[X[a]] + (x - X[a]) * q[x])
      <4>1. X[a] \in Field
        BY <3>2, <3>3
      <4> QED  BY <4>1, Factor
    <3>5. /\ \A k \in D : Along(X, D, q)[k] = q[X[k]]
          /\ \A k \in D : Along(X, D, q)[k] \in Field
          /\ \A k \in D : Along(X, D, q)[k] \in Int
      BY AlongType
    <3>6. Cong(Combined(X, s \ {a}, Along(X, D, q)), q[0])
      BY <1>2, <3>2
    <3>7. PICK Y : /\ \A k \in D : Y[k] \in Field /\ Y[k] \in Int
                   /\ \A k \in D : Cong(Y[k], (X[k] - X[a]) * q[X[k]])
      <4> DEFINE Z == [k \in D |-> ((X[k] - X[a]) * q[X[k]]) % Modulus]
      <4>1. ASSUME NEW k \in D
            PROVE  /\ Z[k] \in Field /\ Z[k] \in Int
                   /\ Cong(Z[k], (X[k] - X[a]) * q[X[k]])
        <5>1. X[k] \in Int /\ X[a] \in Int /\ q[X[k]] \in Int
          BY <3>2, <3>3, <3>5
        <5>2. PICK u \in Int : u = (X[k] - X[a]) * q[X[k]]
          BY <5>1
        <5>3. Z[k] = u % Modulus
          BY <5>2
        <5> QED  BY <5>2, <5>3, CongMod, ModulusFacts
      <4> HIDE DEF Z
      <4> QED  BY <4>1
    <3>8. Shifted(X, s, a, Y, Along(X, D, q))
      BY <3>5, <3>7 DEF Shifted
    <3>9. Cong(Combined(X, s, Y), (-X[a]) * Combined(X, s \ {a}, Along(X, D, q)))
      BY <3>8, Shift
    <3>10. PICK pa \in Int : pa = r[X[a]]
      BY <2>0, <3>2, <3>3, PolyType
    <3>11. Linear(s, Along(X, D, r), pa, Ones(D), 1, Y)
      <4>1. ASSUME NEW k \in s
            PROVE  Cong(Along(X, D, r)[k], pa * Ones(D)[k] + 1 * Y[k])
        <5>1. k \in D /\ Ones(D)[k] = 1
          BY DEF Ones
        <5>2. PICK y \in Int : y = Y[k]
          BY <3>7, <5>1
        <5>3. PICK e \in Int : e = (X[k] - X[a]) * q[X[k]]
          <6>1. X[k] \in Int /\ X[a] \in Int /\ q[X[k]] \in Int
            BY <3>2, <3>3, <3>5, <5>1
          <6> QED  BY <6>1
        <5>4. PICK v \in Int : v = r[X[k]]
          BY <2>0, <3>3, <5>1, PolyType
        <5>5. Cong(v, pa + e) /\ Cong(y, e)
          BY <3>3, <3>4, <3>7, <3>10, <5>1, <5>2, <5>3, <5>4
        <5>6. Cong(pa + e, pa + y)
          BY <5>5, CongRefl, CongSym, CongAdd
        <5>7. Cong(v, pa + y)
          <6>1. pa + e \in Int /\ pa + y \in Int
            OBVIOUS
          <6> QED  BY <5>5, <5>6, <6>1, CongTrans
        <5>8. pa * 1 + 1 * y = pa + y
          OBVIOUS
        <5> QED  BY <3>3, <5>1, <5>2, <5>4, <5>7, <5>8
      <4>2. \A k \in s : /\ Along(X, D, r)[k] \in Field /\ Ones(D)[k] \in Field
                         /\ Y[k] \in Field
        BY <3>3, <3>7, ModulusFacts DEF Ones
      <4> QED  BY <4>1, <4>2 DEF Linear
    <3>12. Cong(Combined(X, s, Along(X, D, r)),
                pa * Combined(X, s, Ones(D)) + 1 * Combined(X, s, Y))
      <4>1. 1 \in Int
        OBVIOUS
      <4> QED  BY <3>11, <4>1, CombinedLinear, Zenon
    <3>13. Cong(Combined(X, s, Ones(D)), 1)
      BY <3>1, One
    <3>14. /\ Combined(X, s, Along(X, D, r)) \in Nat
           /\ Combined(X, s, Ones(D)) \in Nat
           /\ Combined(X, s, Y) \in Nat
           /\ Combined(X, s \ {a}, Along(X, D, q)) \in Nat
      <4>1. /\ \A k \in s : Along(X, D, r)[k] \in Field
            /\ \A k \in s : Ones(D)[k] \in Field
            /\ \A k \in s : Y[k] \in Field
        BY <3>3, <3>7, ModulusFacts DEF Ones
      <4>2. \A k \in s \ {a} : Along(X, D, q)[k] \in Field
        BY <3>5
      <4>3. Combined(X, s \ {a}, Along(X, D, q)) \in Nat
        BY <3>2, <4>2, CombinedType
      <4> QED  BY <4>1, <4>3, CombinedType
    <3>15. 0 \in Field /\ X[a] \in Int /\ q[0] \in Int /\ r[0] \in Int
      <4>1. 0 \in Field
        BY ModulusFacts
      <4> QED  BY <2>0, <3>2, <3>3, <4>1, PolyType
    <3>16. Cong(r[0], pa + (0 - X[a]) * q[0])
      BY <3>4, <3>10, <3>15
    <3>17. PICK y \in Int, o \in Int : /\ y = Combined(X, s, Along(X, D, r))
                                       /\ o = Combined(X, s, Ones(D))
      BY <3>14
    <3>18. PICK u \in Int, t \in Int :
              /\ u = Combined(X, s, Y)
              /\ t = Combined(X, s \ {a}, Along(X, D, q))
      BY <3>14
    <3>19. /\ Cong(y, pa * o + 1 * u) /\ Cong(o, 1) /\ Cong(u, (-X[a]) * t)
           /\ Cong(t, q[0])
      BY <3>6, <3>9, <3>12, <3>13, <3>17, <3>18
    <3>20. Cong(y, r[0])
      BY <3>15, <3>16, <3>19, LagrangeIdentity
    <3> QED  BY <3>17, <3>20
  <2> QED  BY <2>0, <2>1
<1>3. n \in Q
  <2> HIDE DEF Q
  <2>1. Nat \subseteq Q
    BY <1>1, <1>2, SetInduction
  <2> QED  BY <2>1
<1> QED  BY <1>3

-----------------------------------------------------------------------------
(* The shares of the key *)

Dealers == {"admin", "provider", "done"}

\* How many shares a group has.
NumOf(g) == IF g = "admin" THEN Admins ELSE NormalizationConstant

\* The shares of a group are points of a polynomial through its part.
Through(g, p) ==
    p[0] = parts[g] /\ shares[g] = [k \in 1 .. NumOf(g) |-> p[k]]

Shared(g) == \E p \in Poly(Threshold(g)) : Through(g, p)

\* Every admin has the share of its number.
AdminsDealt ==
    /\ Len(splits["admin"]) <= Admins
    /\ \A o \in 1 .. Len(splits["admin"]) : IsSlice(splits["admin"][o], 1)
    /\ \A o \in 1 .. Len(splits["admin"]) : splits["admin"][o] = {o}

\* What the key went through so far: its parts add up to it, what is dealt of a
\* part comes from one polynomial, and nothing is dealt before its time.
KeyInv ==
    /\ secret \in Field
    /\ DOMAIN shares = Groups
    /\ pc \in {"sum", "normalize", "secret"} =>
         /\ splits["admin"] = << >>
         /\ \A g \in Groups : shares[g] = << >>
    /\ pc \in Dealers =>
         /\ \A g \in Groups : parts[g] \in Field
         /\ JoinSecret(parts["admin"], parts["provider"]) = secret
         /\ AdminsDealt
         /\ \A g \in Groups : shares[g] # << >> => Shared(g)
    /\ pc = "admin" => Len(splits["admin"]) = i - 1 /\ weightCounter = i - 1
    /\ pc = "done" => \A g \in Groups : shares[g] # << >>
    /\ pc = "provider" => shares["admin"] # << >>

\* Thresholds, numbers of shares and indices of the groups.
LEMMA GroupFacts ==
    ASSUME NEW g \in Groups
    PROVE  /\ Threshold(g) \in Nat /\ degree(g) \in Nat
           /\ degree(g) + 1 = Threshold(g)
           /\ NumOf(g) \in Nat /\ NumOf(g) < Modulus
           /\ \A k \in 1 .. NumOf(g) : k \in Field /\ k # 0 /\ index(k) = k
<1>1. CASE g = "admin"
  BY <1>1, BackupAssumption, FieldAssumption
  DEF Threshold, degree, NumOf, Field, index
<1>2. CASE g = "provider"
  BY <1>2, BackupAssumption, FieldAssumption
  DEF Threshold, degree, NumOf, Field, index
<1> QED  BY <1>1, <1>2 DEF Groups

\* The parts add up to the key.
LEMMA PartsJoin ==
    ASSUME NEW s \in Field, NEW part \in Field
    PROVE  /\ (s - part) % Modulus \in Field
           /\ JoinSecret(part, (s - part) % Modulus) = s
<1>1. s \in Int /\ part \in Int
  BY ModulusFacts
<1>2. PICK d \in Int : d = s - part
  BY <1>1
<1>3. PICK r \in Int : r = d % Modulus /\ r \in Field /\ Cong(r, d)
  BY <1>2, ModulusFacts, CongMod
<1>4. Cong(part + r, part + d)
  BY <1>1, <1>3, CongRefl, CongAdd
<1>5. part + d = s
  BY <1>1, <1>2
<1>6. PICK n \in Int : n = part + r /\ Cong(n, s)
  BY <1>1, <1>4, <1>5
<1>7. n % Modulus \in Field /\ n % Modulus \in Int /\ Cong(n % Modulus, n)
  BY ModulusFacts, CongMod
<1>8. Cong(n % Modulus, s)
  BY <1>1, <1>6, <1>7, CongTrans
<1>9. n % Modulus = s
  BY <1>7, <1>8, CongUnique
<1> QED  BY <1>2, <1>3, <1>6, <1>9 DEF JoinSecret

\* All the shares there are.
LEMMA NumShares ==
    ASSUME IInv, NEW g \in Groups, pc = g
    PROVE  numShares(g) = NumOf(g)
<1>1. numShares(g) = SumOf(Weights(g), DOMAIN Weights(g))
  BY Zenon DEF numShares, FoldSeq, FoldFunction, FoldFunctionOnSet, SumOf,
     MapThenSumSet
<1>2. CASE g = "admin"
  <2>n. PICK n \in Nat : n = Admins
    BY BackupAssumption
  <2>1. PICK w : w = [j \in 1 .. n |-> 1]
    OBVIOUS
  <2>2. Weights(g) = w /\ DOMAIN w = 1 .. n /\ \A j \in 1 .. n : w[j] = 1
    BY <1>2, <2>n, <2>1 DEF Weights
  <2>3. PICK f : f = [j \in 0 .. n |-> j]
    OBVIOUS
  <2>4. f[0] = 0 /\ (\A j \in 1 .. n : f[j] = f[j - 1] + w[j]) /\ f[n] = n
    BY <2>2, <2>3
  <2>5. \A j \in 1 .. n : w[j] \in Nat
    BY <2>2
  <2>6. \A j \in 0 .. n : f[j] = SumOf(w, 1 .. j)
    BY <2>4, <2>5, RunningSum
  <2>7. SumOf(w, 1 .. n) = n
    BY <2>4, <2>6
  <2> QED  BY <1>1, <1>2, <2>n, <2>2, <2>7 DEF NumOf
<1>3. CASE g = "provider"
  <2>1. SumOf(normalized, 1 .. Len(weights)) = AllShares
    BY <1>3, SharesSum
  <2>2. Weights(g) = normalized /\ DOMAIN normalized = 1 .. Len(weights)
    BY <1>3 DEF Weights, IInv, Types
  <2> QED  BY <1>1, <1>3, <2>1, <2>2 DEF NumOf, AllShares
<1> QED  BY <1>2, <1>3 DEF Groups

\* The shares of a polynomial through v.
LEMMA Evaluations ==
    ASSUME NEW g \in Groups, NEW v \in Field,
           NEW c \in [1 .. degree(g) -> Field]
    PROVE  \E p \in Poly(Threshold(g)) :
              /\ p[0] = v
              /\ [k \in 1 .. NumOf(g) |->
                    evalPolynomial(<<v>> \o c, index(k))]
                   = [k \in 1 .. NumOf(g) |-> p[k]]
<1> DEFINE e == <<v>> \o c
           p == [x \in Field |-> evalPolynomial(e, x)]
<1>0. degree(g) \in Nat /\ degree(g) + 1 = Threshold(g) /\ 0 \in Field
      /\ 0 \in Int /\ \A k \in 1 .. NumOf(g) : k \in Field /\ index(k) = k
  BY GroupFacts, ModulusFacts
<1>1. /\ evalPolynomial(e, 0) = (evalPolynomial(c, 0) * 0 + v) % Modulus
      /\ evalPolynomial(c, 0) \in Field
      /\ e \in [1 .. degree(g) + 1 -> Field]
  BY <1>0, Horner
<1>2. evalPolynomial(e, 0) = v
  <2>1. evalPolynomial(c, 0) \in Int /\ v \in Int
    BY <1>1, ModulusFacts
  <2>2. evalPolynomial(c, 0) * 0 + v = v
    BY <2>1
  <2>3. v % Modulus = v
    <3>1. v % Modulus \in Field /\ Cong(v % Modulus, v)
      BY <2>1, ModulusFacts, CongMod
    <3> QED  BY <3>1, CongUnique
  <2> QED  BY <1>1, <2>2, <2>3
<1> HIDE DEF e
<1>3. p \in Poly(Threshold(g))
  BY <1>0, <1>1 DEF Poly
<1>4. p[0] = v /\ \A k \in 1 .. NumOf(g) : p[k] = evalPolynomial(e, index(k))
  BY <1>0, <1>2
<1> HIDE DEF p
<1>5. [k \in 1 .. NumOf(g) |-> evalPolynomial(e, index(k))]
         = [k \in 1 .. NumOf(g) |-> p[k]]
  BY <1>4
<1> QED  BY <1>3, <1>4, <1>5 DEF e
\* KeyInv holds before anything is split.
LEMMA KeyInitially == Init => KeyInv
<1> SUFFICES ASSUME Init PROVE KeyInv
  OBVIOUS
<1>1. secret \in Field
  BY BackupAssumption DEF Init
<1>2. shares = [g \in Groups |-> << >>] /\ splits["admin"] = << >>
      /\ pc = "sum"
  BY DEF Init, Groups
<1> QED  BY <1>1, <1>2 DEF KeyInv, Dealers

\* What leaves the key, its parts, its shares and the admins' splits alone
\* leaves Shared and AdminsDealt alone.
LEMMA SharedKept ==
    ASSUME NEW g \in Groups, Shared(g), UNCHANGED <<parts, shares>>
    PROVE  Shared(g)'
BY DEF Shared, Through, NumOf, Poly, Threshold

\* Every admin gets the next share.
LEMMA DealingAdmins ==
    ASSUME IInv, KeyInv, KeySplit("admin")
    PROVE  /\ AdminsDealt'
           /\ Len(splits'["admin"]) = i' - 1 /\ weightCounter' = i' - 1
<1>0. /\ pc = "admin" /\ Types /\ AdminsDealt
      /\ Len(splits["admin"]) = i - 1 /\ weightCounter = i - 1
  BY DEF KeySplit, IInv, KeyInv, Dealers
<1>1. PICK k \in Nat : k = i /\ k > 0
  BY <1>0 DEF Types
<1>2. k \in 1 .. Admins /\ Admins \in Nat /\ Weights("admin")[k] = 1
  <2>1. Admins \in Nat /\ Weights("admin") = [j \in 1 .. Admins |-> 1]
    BY BackupAssumption DEF Weights
  <2>2. Len(Weights("admin")) = Admins
    BY <2>1
  <2> QED  BY <1>1, <2>1, <2>2 DEF KeySplit
<1>3. /\ splits' = [splits EXCEPT !["admin"] = Append(@,
              weightCounter + 1 .. weightCounter + Weights("admin")[i])]
      /\ weightCounter' = weightCounter + Weights("admin")[i]
      /\ i' = i + 1
  BY DEF KeySplit
<1>4. PICK sp : sp = splits["admin"] /\ sp \in Seq(SUBSET Nat)
  BY <1>0 DEF Types, Groups
<1>5. PICK slice \in SUBSET Nat : slice = (k - 1) + 1 .. (k - 1) + 1
  <2>1. (k - 1) + 1 .. (k - 1) + 1 \in SUBSET Nat
    BY <1>1
  <2> QED  BY <2>1
<1>6. splits'["admin"] = Append(sp, slice) /\ weightCounter' = k /\ i' = k + 1
  <2>1. splits'["admin"] = Append(splits["admin"],
              weightCounter + 1 .. weightCounter + Weights("admin")[i])
    BY <1>0, <1>3 DEF Types, Groups
  <2> QED  BY <1>0, <1>1, <1>2, <1>3, <1>4, <1>5, <2>1
<1>7. IsSlice(slice, 1) /\ slice = {k}
  <2>1. k - 1 \in Nat
    BY <1>1
  <2> QED  BY <1>5, <2>1 DEF IsSlice
<1>8. /\ Len(splits'["admin"]) = k /\ splits'["admin"][k] = slice
      /\ \A o \in 1 .. k - 1 : splits'["admin"][o] = sp[o]
  BY <1>0, <1>1, <1>4, <1>6
<1>9. \A o \in 1 .. k - 1 : IsSlice(sp[o], 1) /\ sp[o] = {o}
  BY <1>0, <1>1, <1>4 DEF AdminsDealt
<1>10. \A o \in 1 .. k : o \in 1 .. k - 1 \/ o = k
  OBVIOUS
<1>11. AdminsDealt'
  <2>1. \A o \in 1 .. k : IsSlice(splits'["admin"][o], 1)
                          /\ splits'["admin"][o] = {o}
    BY <1>7, <1>8, <1>9, <1>10
  <2> QED  BY <1>2, <1>8, <2>1 DEF AdminsDealt
<1> QED  BY <1>6, <1>8, <1>11

\* KeyInv is inductive.
LEMMA KeyStep ==
    ASSUME IInv, KeyInv, [Next]_vars
    PROVE  KeyInv'
<1>1. CASE \/ AddWeight \/ RefuseWeights \/ SumDone \/ NormalizeWeight
           \/ Normalized
  <2>1. /\ pc \in {"sum", "normalize"} /\ pc' \notin Dealers
        /\ UNCHANGED <<secret, parts, shares, splits>>
    BY <1>1 DEF AddWeight, RefuseWeights, SumDone, NormalizeWeight, Normalized,
       loop, sharing, Dealers
  <2> QED  BY <2>1 DEF KeyInv, Dealers
<1>2. CASE \E part \in Field : SplitSecret(part)
  <2>1. PICK part \in Field : SplitSecret(part)
    BY <1>2
  <2>2. /\ pc = "secret" /\ pc' = "admin" /\ i' = 1
        /\ parts' = [admin |-> part, provider |-> (secret - part) % Modulus]
        /\ UNCHANGED <<secret, shares, splits, weightCounter>>
    BY <2>1 DEF SplitSecret
  <2>3. /\ secret \in Field /\ DOMAIN shares = Groups
        /\ splits["admin"] = << >> /\ (\A g \in Groups : shares[g] = << >>)
        /\ weightCounter = 0
    BY <2>2 DEF KeyInv, IInv
  <2>4. /\ (secret - part) % Modulus \in Field
        /\ JoinSecret(part, (secret - part) % Modulus) = secret
    BY <2>3, PartsJoin
  <2>5. parts'["admin"] = part
        /\ parts'["provider"] = (secret - part) % Modulus
    BY <2>2
  <2>6. /\ \A g \in Groups : parts'[g] \in Field
        /\ JoinSecret(parts'["admin"], parts'["provider"]) = secret
    BY <2>4, <2>5 DEF Groups
  <2>7. AdminsDealt'
    BY <2>2, <2>3, BackupAssumption DEF AdminsDealt
  <2>8. Len(splits'["admin"]) = i' - 1 /\ weightCounter' = i' - 1
    BY <2>2, <2>3
  <2> QED  BY <2>2, <2>3, <2>6, <2>7, <2>8 DEF KeyInv, Dealers, JoinSecret
<1>3. CASE \E g \in Groups : \E c \in [1 .. degree(g) -> Field] :
              SplitToShamirShares(g, c)
  <2>1. PICK g \in Groups : \E c \in [1 .. degree(g) -> Field] :
              SplitToShamirShares(g, c)
    BY <1>3
  <2>2. PICK c \in [1 .. degree(g) -> Field] : SplitToShamirShares(g, c)
    BY <2>1
  <2>3. /\ pc = g /\ UNCHANGED <<pc, i, secret, parts, splits, weightCounter>>
        /\ shares' = [shares EXCEPT ![g] = [k \in 1 .. numShares(g) |->
              evalPolynomial(<<parts[g]>> \o c, index(k))]]
    BY <2>2 DEF SplitToShamirShares, loop
  <2>4. pc \in Dealers /\ DOMAIN shares = Groups
    BY <2>3 DEF KeyInv, Dealers, Groups
  <2>5. /\ \A h \in Groups : parts[h] \in Field
        /\ \A h \in Groups : shares[h] # << >> => Shared(h)
        /\ AdminsDealt
        /\ JoinSecret(parts["admin"], parts["provider"]) = secret
    BY <2>4 DEF KeyInv
  <2>6. numShares(g) = NumOf(g)
    BY <2>3, NumShares
  <2>7. PICK p \in Poly(Threshold(g)) :
           /\ p[0] = parts[g]
           /\ [k \in 1 .. NumOf(g) |->
                 evalPolynomial(<<parts[g]>> \o c, index(k))]
                = [k \in 1 .. NumOf(g) |-> p[k]]
    BY <2>5, Evaluations
  <2>8. shares'[g] = [k \in 1 .. NumOf(g) |-> p[k]]
    BY <2>3, <2>4, <2>6, <2>7
  <2>9. Shared(g)'
    BY <2>3, <2>7, <2>8 DEF Shared, Through, NumOf, Poly, Threshold
  <2>10. DOMAIN shares' = Groups /\ \A h \in Groups \ {g} : shares'[h] = shares[h]
    BY <2>3, <2>4
  <2>11. \A h \in Groups : shares'[h] # << >> => Shared(h)'
    <3> TAKE h \in Groups
    <3>1. CASE h = g
      BY <2>9, <3>1
    <3>2. CASE h # g
      BY <2>3, <2>5, <2>10, <3>2 DEF Shared, Through, NumOf, Poly, Threshold
    <3> QED  BY <3>1, <3>2
  <2>12. AdminsDealt'
    BY <2>3, <2>5 DEF AdminsDealt
  <2>13. pc' = "provider" => shares'["admin"] # << >>
    BY <2>3, <2>10 DEF KeyInv, Groups
  <2> QED
    BY <2>3, <2>4, <2>5, <2>10, <2>11, <2>12, <2>13
    DEF KeyInv, Dealers, JoinSecret, Groups
<1>4. CASE \E g \in Groups : KeySplit(g)
  <2>1. PICK g \in Groups : KeySplit(g)
    BY <1>4
  <2>2. pc = g /\ UNCHANGED <<pc, secret, parts, shares>> /\ pc \in Dealers
    BY <2>1 DEF KeySplit, Groups, Dealers
  <2>3. /\ \A h \in Groups : parts'[h] \in Field
        /\ JoinSecret(parts["admin"], parts["provider"])' = secret'
        /\ AdminsDealt
        /\ \A h \in Groups : shares[h] # << >> => Shared(h)
    BY <2>2 DEF KeyInv, JoinSecret
  <2>4. \A h \in Groups : shares'[h] # << >> => Shared(h)'
    BY <2>2, <2>3, SharedKept
  <2>5. AdminsDealt' /\ (pc' = "admin" =>
            Len(splits'["admin"]) = i' - 1 /\ weightCounter' = i' - 1)
    <3>1. CASE g = "admin"
      BY <2>1, <3>1, DealingAdmins
    <3>2. CASE g = "provider"
      <4>1. splits'["admin"] = splits["admin"]
        BY <2>1, <3>2 DEF KeySplit, IInv, Types, Groups
      <4> QED  BY <2>2, <2>3, <3>2, <4>1 DEF AdminsDealt
    <3> QED  BY <3>1, <3>2 DEF Groups
  <2> QED  BY <2>2, <2>3, <2>4, <2>5 DEF KeyInv, Dealers, Groups
<1>5. CASE \E g \in Groups : SplitDone(g)
  <2>1. PICK g \in Groups : SplitDone(g)
    BY <1>5
  <2>2. /\ pc = g /\ pc \in Dealers /\ pc' \in Dealers /\ pc' # "admin"
        /\ shares[g] # << >>
        /\ UNCHANGED <<secret, parts, shares, splits>>
        /\ pc' = "done" => g = "provider"
    BY <2>1 DEF SplitDone, Groups, Dealers
  <2>3. /\ \A h \in Groups : parts'[h] \in Field
        /\ JoinSecret(parts["admin"], parts["provider"])' = secret'
        /\ AdminsDealt
        /\ \A h \in Groups : shares[h] # << >> => Shared(h)
        /\ g = "provider" => shares["admin"] # << >>
    BY <2>2 DEF KeyInv, JoinSecret
  <2>4. \A h \in Groups : shares'[h] # << >> => Shared(h)'
    BY <2>2, <2>3, SharedKept
  <2>5. AdminsDealt'
    BY <2>2, <2>3 DEF AdminsDealt
  <2>6. /\ pc' = "provider" => shares'["admin"] # << >>
        /\ pc' = "done" => \A h \in Groups : shares'[h] # << >>
    BY <2>1, <2>2, <2>3 DEF SplitDone, Groups
  <2> QED  BY <2>2, <2>3, <2>4, <2>5, <2>6 DEF KeyInv, Dealers, Groups
<1>6. CASE UNCHANGED vars
  <2>1. UNCHANGED <<pc, i, secret, parts, shares, splits, weightCounter>>
    BY <1>6 DEF vars, loop, sharing
  <2>2. \A h \in Groups : Shared(h) => Shared(h)'
    BY <2>1, SharedKept
  <2>3. AdminsDealt => AdminsDealt'
    BY <2>1 DEF AdminsDealt
  <2> QED  BY <2>1, <2>2, <2>3 DEF KeyInv, JoinSecret, Dealers
<1> QED
  BY <1>1, <1>2, <1>3, <1>4, <1>5, <1>6 DEF Next
\* The splits of a group are slices of its shares that do not overlap.
Cut(g) ==
    /\ IsFiniteSet(Owners(g))
    /\ \A o \in Owners(g) : \E n \in Nat : IsSlice(splits[g][o], n)
    /\ \A o \in Owners(g) : splits[g][o] \subseteq 1 .. NumOf(g)
    /\ \A o \in Owners(g), q \in Owners(g) :
          o # q => splits[g][o] \cap splits[g][q] = {}

\* A finished backup has cut the shares of both groups.
LEMMA SplitsCut ==
    ASSUME IInv, Sized, KeyInv, pc = "done", NEW g \in Groups
    PROVE  Cut(g)
<1>0. Types /\ splits[g] \in Seq(SUBSET Nat)
  BY DEF IInv, Types
<1>1. PICK n \in Nat : n = Len(splits[g])
  BY <1>0
<1>2. Owners(g) = 1 .. n /\ IsFiniteSet(Owners(g))
  <2>1. Owners(g) = 1 .. n
    BY <1>0, <1>1 DEF Owners
  <2> QED  BY <2>1, FS_Interval
<1>3. CASE g = "admin"
  <2>1. AdminsDealt
    BY DEF KeyInv, Dealers
  <2>2. /\ n <= Admins /\ \A o \in 1 .. n : IsSlice(splits[g][o], 1)
        /\ \A o \in 1 .. n : splits[g][o] = {o}
    BY <1>1, <1>3, <2>1 DEF AdminsDealt
  <2>3. NumOf(g) = Admins /\ Admins \in Nat
    BY <1>3, BackupAssumption DEF NumOf
  <2>4. \A o \in 1 .. n : o \in 1 .. NumOf(g)
    BY <2>2, <2>3
  <2>5. \A o \in Owners(g) : \E m \in Nat : IsSlice(splits[g][o], m)
    BY <1>2, <2>2
  <2> QED  BY <1>2, <2>2, <2>4, <2>5 DEF Cut
<1>4. CASE g = "provider"
  <2>1. /\ n = Len(weights) /\ Dealt(AllShares) /\ NumOf(g) = AllShares
    BY <1>1, <1>4 DEF IInv, NumOf, AllShares
  <2>2. \A o \in 1 .. n : normalized[o] \in Nat
    BY <2>1, SharesSum
  <2>3. \A o \in Owners(g) : \E m \in Nat : IsSlice(splits[g][o], m)
    <3>1. \A o \in 1 .. n : IsSlice(splits[g][o], normalized[o])
      BY <1>1, <1>4 DEF Sized
    <3> QED  BY <1>2, <2>2, <3>1
  <2>4. /\ \A o \in 1 .. n : splits[g][o] \subseteq 1 .. NumOf(g)
        /\ \A x \in 1 .. NumOf(g) : \E o \in 1 .. n :
              x \in splits[g][o] /\ \A q \in 1 .. n \ {o} : x \notin splits[g][q]
    BY <1>1, <1>4, <2>1 DEF Dealt
  <2>5. \A o \in 1 .. n, q \in 1 .. n :
           o # q => splits[g][o] \cap splits[g][q] = {}
    BY <2>4
  <2> QED  BY <1>2, <2>3, <2>4, <2>5 DEF Cut
<1> QED  BY <1>3, <1>4 DEF Groups

\* The shares of a coalition are those of its members added up.
LEMMA HeldFacts ==
    ASSUME NEW g \in Groups, Cut(g), NEW S \in SUBSET Owners(g)
    PROVE  /\ SharesOf(g, S) = SumOf(Held(g), S)
           /\ IsFiniteSet(S)
           /\ \A o \in Owners(g) : /\ Held(g)[o] = Cardinality(splits[g][o])
                                   /\ Held(g)[o] \in Nat
                                   /\ IsFiniteSet(splits[g][o])
           /\ SharesOf(g, S) \in Nat
<1>1. SharesOf(g, S) = SumOf(Held(g), S)
  BY Zenon DEF SharesOf, SumOf
<1>2. IsFiniteSet(S)
  BY FS_Subset DEF Cut
<1>3. ASSUME NEW o \in Owners(g)
      PROVE  /\ Held(g)[o] = Cardinality(splits[g][o]) /\ Held(g)[o] \in Nat
             /\ IsFiniteSet(splits[g][o])
  <2>1. PICK n \in Nat : IsSlice(splits[g][o], n)
    BY DEF Cut
  <2>2. Cardinality(splits[g][o]) = n /\ IsFiniteSet(splits[g][o])
    BY <2>1, SliceSize
  <2> QED  BY <2>2 DEF Held
<1>4. SumOf(Held(g), S) \in Nat
  <2>1. \A o \in S : Held(g)[o] \in Nat
    BY <1>3
  <2> QED  BY <1>2, <2>1, SumFacts
<1> QED  BY <1>1, <1>2, <1>3, <1>4

\* What owners know of the shares of their group.
Known(g, S) == UNION {splits[g][o] : o \in S}

\* They know no more shares than they hold.
LEMMA KnownShares ==
    ASSUME NEW g \in Groups, Cut(g), NEW S \in SUBSET Owners(g)
    PROVE  /\ IsFiniteSet(Known(g, S))
           /\ Cardinality(Known(g, S)) <= SharesOf(g, S)
           /\ Cardinality(Known(g, S)) \in Nat
           /\ Known(g, S) \subseteq 1 .. NumOf(g)
<1> DEFINE w == Held(g)
           Q == {s \in SUBSET S : /\ IsFiniteSet(Known(g, s))
                                  /\ Cardinality(Known(g, s)) <= SumOf(w, s)}
<1>0. /\ IsFiniteSet(S)
      /\ \A o \in S : w[o] = Cardinality(splits[g][o]) /\ w[o] \in Nat
                      /\ IsFiniteSet(splits[g][o])
      /\ SharesOf(g, S) = SumOf(w, S)
  BY HeldFacts
<1> HIDE DEF w
<1>1. {} \in Q
  <2>1. Known(g, {}) = {}
    BY DEF Known
  <2>2. IsFiniteSet({}) /\ Cardinality({}) = 0
    BY FS_EmptySet
  <2>3. SumOf(w, {}) = 0
    BY <2>2, SumFacts
  <2> QED  BY <2>1, <2>2, <2>3
<1>2. ASSUME NEW s \in SUBSET S, NEW x \in S \ s, s \in Q
      PROVE  s \cup {x} \in Q
  <2>1. PICK A, B : A = Known(g, s) /\ B = splits[g][x]
    OBVIOUS
  <2>2. Known(g, s \cup {x}) = A \cup B
    BY <2>1 DEF Known
  <2>3. IsFiniteSet(A) /\ IsFiniteSet(B) /\ Cardinality(B) = w[x]
        /\ Cardinality(A) <= SumOf(w, s)
    BY <1>0, <1>2, <2>1
  <2>4. /\ IsFiniteSet(A \cup B) /\ Cardinality(A \cup B) \in Nat
        /\ Cardinality(A) \in Nat /\ Cardinality(B) \in Nat
        /\ Cardinality(A \cup B) <= Cardinality(A) + Cardinality(B)
    <3>1. /\ IsFiniteSet(A \cup B) /\ IsFiniteSet(A \cap B)
      BY <2>3, FS_Union, FS_Intersection
    <3>2. /\ Cardinality(A) \in Nat /\ Cardinality(B) \in Nat
          /\ Cardinality(A \cup B) \in Nat /\ Cardinality(A \cap B) \in Nat
      BY <2>3, <3>1, FS_CardinalityType
    <3>3. Cardinality(A \cup B)
             = Cardinality(A) + Cardinality(B) - Cardinality(A \cap B)
      BY <2>3, FS_Union
    <3> QED  BY <3>1, <3>2, <3>3
  <2>5. /\ SumOf(w, s \cup {x}) = w[x] + SumOf(w, s)
        /\ SumOf(w, s) \in Nat /\ w[x] \in Nat
    <3>1. \A o \in S : w[o] \in Nat
      BY <1>0
    <3> QED  BY <1>0, <3>1, SumAdd
  <2>6. Cardinality(A \cup B) <= SumOf(w, s \cup {x})
    BY <2>3, <2>4, <2>5
  <2> QED  BY <2>2, <2>4, <2>6
<1>3. S \in Q
  <2> HIDE DEF Q
  <2> QED  BY <1>0, <1>1, <1>2, FiniteInduction
<1>4. Known(g, S) \subseteq 1 .. NumOf(g)
  BY DEF Known, Cut
<1>5. Cardinality(Known(g, S)) \in Nat
  BY <1>3, FS_CardinalityType
<1> QED  BY <1>0, <1>3, <1>4, <1>5
\* The algebra of a polynomial through v and the known points.
LEMMA MinorityIdentity ==
    ASSUME NEW k \in Int, NEW v \in Int, NEW y \in Int, NEW u \in Int,
           NEW z \in Int, NEW q \in Int,
           Cong(u * k, 1), Cong(z, u * (y - v)), Cong(q, z)
    PROVE  Cong(q * k + v, y)
<1>1. PICK a1 \in Int : u * k - 1 = a1 * Modulus
  BY DEF Cong
<1>2. PICK a2 \in Int : z - u * (y - v) = a2 * Modulus
  BY DEF Cong
<1>3. PICK a3 \in Int : q - z = a3 * Modulus
  BY DEF Cong
<1>m. PICK m \in Int : m = Modulus
  BY ModulusFacts
<1>4. u * k = 1 + a1 * m /\ z = u * (y - v) + a2 * m /\ q = z + a3 * m
  BY <1>1, <1>2, <1>3, <1>m
<1>5. PICK e \in Int, n \in Int : e = y - v /\ n = u * k
  OBVIOUS
<1>6. q * k = n * e + (a2 + a3) * (m * k)
  <2>1. q = u * e + a2 * m + a3 * m
    BY <1>4, <1>5
  <2>2. q * k = (u * e + a2 * m + a3 * m) * k
    BY <2>1
  <2>3. (u * e + a2 * m + a3 * m) * k = (u * k) * e + (a2 + a3) * (m * k)
    OBVIOUS
  <2> QED  BY <1>5, <2>2, <2>3
<1>7. n * e = e + (a1 * e) * m
  <2>1. n = 1 + a1 * m
    BY <1>4, <1>5
  <2>2. (1 + a1 * m) * e = e + (a1 * e) * m
    OBVIOUS
  <2> QED  BY <2>1, <2>2
<1>8. q * k + v - y = (a1 * e + (a2 + a3) * k) * m
  <2>1. (a1 * e) * m + (a2 + a3) * (m * k) = (a1 * e + (a2 + a3) * k) * m
    OBVIOUS
  <2>2. PICK r \in Int, s \in Int, t \in Int :
           r = (a1 * e) * m /\ s = (a2 + a3) * (m * k) /\ t = q * k
    OBVIOUS
  <2>3. t = e + r + s
    BY <1>6, <1>7, <2>2
  <2>4. t + v - y = r + s
    BY <1>5, <2>3
  <2> QED  BY <2>1, <2>2, <2>4
<1>9. a1 * e + (a2 + a3) * k \in Int
  OBVIOUS
<1>10. (q * k + v) - y = (a1 * e + (a2 + a3) * k) * Modulus
  BY <1>8, <1>m
<1> QED  BY <1>9, <1>10, Zenon DEF Cong

\* Fewer shares than the threshold fit a polynomial through any value.
LEMMA AnyValueFits ==
    ASSUME NEW g \in Groups, NEW v \in Field, NEW K \in SUBSET (1 .. NumOf(g)),
           IsFiniteSet(K), Cardinality(K) <= degree(g),
           NEW y, \A k \in K : y[k] \in Field
    PROVE  \E s \in Sharings(g, v) : \A k \in K : s[k] = y[k]
<1>0. /\ degree(g) \in Nat /\ NumOf(g) \in Nat
      /\ \A k \in 1 .. NumOf(g) : k \in Field /\ k # 0 /\ index(k) = k
  BY GroupFacts
<1>1. v \in Int /\ 0 \in Field
  BY ModulusFacts
<1>2. ASSUME NEW k \in K PROVE \E u \in Int : Cong(u * k, 1)
  <2>1. k \in Field /\ k # 0 /\ k \in Int
    BY <1>0, ModulusFacts
  <2>2. Invertible(k - 0)
    BY <1>1, <2>1, DifferenceInvertible
  <2>3. k - 0 = k
    BY <2>1
  <2> QED  BY <2>2, <2>3 DEF Invertible
<1> DEFINE u(k) == CHOOSE r \in Int : Cong(r * k, 1)
           Y == [k \in Field |-> IF k \in K THEN (u(k) * (y[k] - v)) % Modulus
                                            ELSE 0]
<1>3. ASSUME NEW k \in K
      PROVE  /\ u(k) \in Int /\ Cong(u(k) * k, 1) /\ k \in Int /\ k \in Field
             /\ y[k] \in Int
             /\ Y[k] \in Field /\ Y[k] \in Int
             /\ Cong(Y[k], u(k) * (y[k] - v))
  <2>1. u(k) \in Int /\ Cong(u(k) * k, 1)
    BY <1>2
  <2>2. k \in Field /\ y[k] \in Field
    BY <1>0
  <2>3. k \in Int /\ y[k] \in Int
    BY <2>2, ModulusFacts, Zenon
  <2>4. Y[k] = (u(k) * (y[k] - v)) % Modulus
    BY <2>2
  <2> HIDE DEF u, Y
  <2>5. PICK n \in Int : n = u(k) * (y[k] - v)
    BY <1>1, <2>1, <2>3
  <2>6. n % Modulus \in Field /\ Cong(n % Modulus, n)
    BY ModulusFacts, CongMod
  <2> QED  BY <2>1, <2>2, <2>3, <2>4, <2>5, <2>6, ModulusFacts
<1>4. Y \in [Field -> Field]
  <2>1. ASSUME NEW k \in Field PROVE Y[k] \in Field
    <3>1. CASE k \in K
      BY <1>3, <3>1
    <3>2. CASE k \notin K
      BY <1>1, <3>2
    <3> QED  BY <3>1, <3>2
  <2>2. Y = [k \in Field |-> Y[k]]
    OBVIOUS
  <2> HIDE DEF Y
  <2> QED  BY <2>1, <2>2
<1> HIDE DEF u, Y
<1>5. PICK q \in Poly(degree(g)) : \A k \in K : Cong(q[k], Y[k])
  <2>1. K \in SUBSET Field
    BY <1>0
  <2> QED  BY <1>0, <1>4, <2>1, Interpolate
<1>6. PICK c \in [1 .. degree(g) -> Field] :
         q = [x \in Field |-> evalPolynomial(c, x)]
  BY DEF Poly
<1> DEFINE s == [k \in 1 .. NumOf(g) |-> evalPolynomial(<<v>> \o c, index(k))]
<1>7. s \in Sharings(g, v)
  BY DEF Sharings, NumOf
<1>8. ASSUME NEW k \in K PROVE s[k] = y[k]
  <2>1. k \in 1 .. NumOf(g) /\ index(k) = k /\ k \in Field /\ k \in Int
    BY <1>0, <1>3
  <2>2. q[k] = evalPolynomial(c, k) /\ q[k] \in Int
    BY <1>0, <1>6, <2>1, PolyType
  <2>3. evalPolynomial(<<v>> \o c, k) = (q[k] * k + v) % Modulus
    <3>1. evalPolynomial(<<v>> \o c, k)
             = (evalPolynomial(c, k) * k + v) % Modulus
      BY <1>0, <2>1, Horner
    <3> QED  BY <2>2, <3>1
  <2>4. Cong(q[k], Y[k]) /\ Y[k] \in Int /\ y[k] \in Int /\ y[k] \in Field
    BY <1>3, <1>5
  <2>5. Cong(q[k] * k + v, y[k])
    BY <1>1, <1>3, <2>1, <2>2, <2>4, MinorityIdentity
  <2>6. PICK n \in Int : n = q[k] * k + v
    BY <1>1, <2>1, <2>2
  <2>7. n % Modulus \in Field /\ n % Modulus \in Int /\ Cong(n % Modulus, n)
    BY ModulusFacts, CongMod
  <2>8. Cong(n % Modulus, y[k])
    BY <2>4, <2>5, <2>6, <2>7, CongTrans
  <2>9. n % Modulus = y[k]
    BY <2>4, <2>7, <2>8, CongUnique
  <2> QED  BY <2>1, <2>3, <2>6, <2>9
<1> HIDE DEF s
<1> QED  BY <1>7, <1>8

\* Owners of fewer shares than the threshold learn nothing of the key,
\* whatever the weights, thresholds, field and coefficients: their shares are
\* those of a polynomial through any value.
THEOREM MinoritiesLearnNothing == Spec => []MinorityLearnsNothing
<1>1. Init => Sized /\ KeyInv
  BY KeyInitially DEF Init, Sized, Groups
<1>2. IInv /\ Sized /\ KeyInv /\ [Next]_vars => Sized' /\ KeyInv'
  BY SizedStep, KeyStep
<1>3. IInv /\ Sized /\ KeyInv => MinorityLearnsNothing
  <2> SUFFICES ASSUME IInv, Sized, KeyInv, pc = "done", NEW g \in Groups,
                      NEW S \in SUBSET Owners(g),
                      SharesOf(g, S) < Threshold(g), NEW v \in Field
               PROVE  \E s \in Sharings(g, v) :
                         \A k \in Known(g, S) : s[k] = shares[g][k]
    BY DEF MinorityLearnsNothing, Possible, Known
  <2>1. Cut(g)
    BY SplitsCut
  <2>2. /\ IsFiniteSet(Known(g, S)) /\ Known(g, S) \subseteq 1 .. NumOf(g)
        /\ Cardinality(Known(g, S)) <= SharesOf(g, S)
        /\ Cardinality(Known(g, S)) \in Nat
    BY <2>1, KnownShares
  <2>3. SharesOf(g, S) \in Nat
    BY <2>1, HeldFacts
  <2>4. Cardinality(Known(g, S)) <= degree(g)
    BY <2>2, <2>3, GroupFacts
  <2>5. \A k \in Known(g, S) : shares[g][k] \in Field
    <3>1. Shared(g)
      BY DEF KeyInv, Dealers
    <3>2. PICK p \in Poly(Threshold(g)) :
             shares[g] = [k \in 1 .. NumOf(g) |-> p[k]]
      BY <3>1 DEF Shared, Through
    <3>3. p \in [Field -> Field] /\ \A k \in 1 .. NumOf(g) : k \in Field
      BY GroupFacts, PolyType
    <3> QED  BY <2>2, <3>2, <3>3
  <2> QED  BY <2>2, <2>4, <2>5, AnyValueFits
<1> QED  BY <1>1, <1>2, <1>3, KeyBackupInvariant, PTL DEF Spec

-----------------------------------------------------------------------------
(* Joining *)

Pt(g) == [x : 1 .. NumOf(g), y : Field]

\* Different points of the shares of g, at indices in I.
ArePoints(g, q, I) ==
    /\ q \in Seq(Pt(g))
    /\ \A k \in 1 .. Len(q) : q[k].y = shares[g][q[k].x] /\ q[k].x \in I
    /\ \A j, k \in 1 .. Len(q) : q[j].x = q[k].x => j = k

\* Points with different indices, one after the other.
LEMMA ConcatPoints ==
    ASSUME NEW g, NEW p, NEW I, ArePoints(g, p, I),
           NEW q, NEW J, ArePoints(g, q, J), I \cap J = {}
    PROVE  /\ ArePoints(g, p \o q, I \cup J)
           /\ Len(p \o q) = Len(p) + Len(q)
<1>0. PICK P : P = Pt(g)
  OBVIOUS
<1>1. p \in Seq(P) /\ q \in Seq(P)
  BY <1>0 DEF ArePoints
<1>2. PICK M \in Nat, N \in Nat : M = Len(p) /\ N = Len(q)
  BY <1>1
<1>3. PICK t : t = p \o q
  OBVIOUS
<1>4. /\ t \in Seq(P) /\ Len(t) = M + N
      /\ \A k \in 1 .. M + N : t[k] = IF k <= M THEN p[k] ELSE q[k - M]
  BY <1>1, <1>2, <1>3
<1>5. /\ \A k \in 1 .. M : p[k].y = shares[g][p[k].x] /\ p[k].x \in I
      /\ \A j, k \in 1 .. M : p[j].x = p[k].x => j = k
      /\ \A k \in 1 .. N : q[k].y = shares[g][q[k].x] /\ q[k].x \in J
      /\ \A j, k \in 1 .. N : q[j].x = q[k].x => j = k
  BY <1>2 DEF ArePoints
<1>6. \A k \in 1 .. M + N :
         \/ k \in 1 .. M /\ t[k] = p[k] /\ t[k].x \in I
         \/ k \notin 1 .. M /\ k - M \in 1 .. N /\ t[k] = q[k - M]
            /\ t[k].x \in J
  BY <1>4, <1>5
<1>7. \A k \in 1 .. M + N : t[k].y = shares[g][t[k].x] /\ t[k].x \in I \cup J
  BY <1>5, <1>6
<1>8. ASSUME NEW j \in 1 .. M + N, NEW k \in 1 .. M + N, t[j].x = t[k].x
      PROVE  j = k
  <2>1. CASE j \in 1 .. M
    <3>1. k \in 1 .. M /\ t[k] = p[k] /\ t[j] = p[j]
      BY <1>6, <1>8, <2>1
    <3> QED  BY <1>5, <1>8, <2>1, <3>1
  <2>2. CASE j \notin 1 .. M
    <3>1. /\ k - M \in 1 .. N /\ t[k] = q[k - M]
          /\ j - M \in 1 .. N /\ t[j] = q[j - M]
      BY <1>6, <1>8, <2>2
    <3>2. j - M = k - M
      BY <1>5, <1>8, <3>1
    <3> QED  BY <3>2
  <2> QED  BY <2>1, <2>2
<1>9. ArePoints(g, t, I \cup J)
  BY <1>0, <1>4, <1>7, <1>8 DEF ArePoints
<1> QED  BY <1>2, <1>3, <1>4, <1>9

\* The points of one split.
LEMMA SplitPoints ==
    ASSUME NEW g \in Groups, Cut(g), NEW o \in Owners(g),
           \A k \in 1 .. NumOf(g) : shares[g][k] \in Field
    PROVE  /\ ArePoints(g, Points(g, o), splits[g][o])
           /\ Len(Points(g, o)) = Held(g)[o]
<1>1. PICK n \in Nat : IsSlice(splits[g][o], n)
  BY DEF Cut
<1>2. PICK m \in Nat : splits[g][o] = m + 1 .. m + n
  BY <1>1 DEF IsSlice
<1>3. Cardinality(splits[g][o]) = n /\ Held(g)[o] = n
  BY <1>1, SliceSize DEF Held
<1>4. NumOf(g) \in Nat /\ \A k \in 1 .. NumOf(g) : index(k) = k
  BY GroupFacts
<1>5. ASSUME NEW k \in 1 .. n
      PROVE  /\ m + k \in 1 .. NumOf(g)
             /\ index(Min(splits[g][o]) + k - 1) = m + k
             /\ Min(splits[g][o]) + k - 1 = m + k
             /\ m + k \in splits[g][o]
  <2>1. Min(splits[g][o]) = m + 1
    <3>1. m + 1 \in splits[g][o] /\ \A x \in splits[g][o] : m + 1 <= x
      BY <1>2
    <3>2. \A x \in splits[g][o] : x \in Int
      BY <1>2
    <3>3. Min(splits[g][o]) \in splits[g][o]
          /\ \A x \in splits[g][o] : Min(splits[g][o]) <= x
      BY <3>1 DEF Min
    <3> QED  BY <3>1, <3>2, <3>3
  <2>2. Min(splits[g][o]) + k - 1 = m + k
    BY <2>1
  <2>3. m + k \in splits[g][o]
    BY <1>2
  <2>4. m + k \in 1 .. NumOf(g)
    BY <2>3 DEF Cut
  <2> QED  BY <1>4, <2>2, <2>3, <2>4
<1>6. PICK q : q = Points(g, o)
  OBVIOUS
<1>7. /\ DOMAIN q = 1 .. n
      /\ q = [k \in 1 .. n |-> [x |-> m + k, y |-> shares[g][m + k]]]
  <2>1. ASSUME NEW k \in 1 .. n
        PROVE  [x |-> index(Min(splits[g][o]) + k - 1),
                y |-> shares[g][Min(splits[g][o]) + k - 1]]
                  = [x |-> m + k, y |-> shares[g][m + k]]
    BY <1>5
  <2> QED  BY <1>3, <1>6, <2>1 DEF Points
<1>8. ASSUME NEW k \in 1 .. n
      PROVE  /\ q[k] \in Pt(g) /\ q[k].x = m + k
             /\ q[k].y = shares[g][m + k]
  <2>1. PICK u \in 1 .. NumOf(g), v \in Field : u = m + k /\ v = shares[g][m + k]
    BY <1>5
  <2>2. q[k] = [x |-> u, y |-> v]
    BY <1>7, <2>1
  <2>3. [x |-> u, y |-> v] \in Pt(g)
    BY DEF Pt
  <2> QED  BY <2>1, <2>2, <2>3
<1>9. q \in [1 .. n -> Pt(g)]
  BY <1>7, <1>8
<1>10. q \in Seq(Pt(g)) /\ Len(q) = n
  BY <1>9
<1>11. \A j, k \in 1 .. n : q[j].x = q[k].x => j = k
  BY <1>8
<1>12. ArePoints(g, q, splits[g][o])
  BY <1>5, <1>8, <1>10, <1>11 DEF ArePoints
<1> QED  BY <1>3, <1>6, <1>10, <1>12

\* The owners a, N of them, hold points of P.
OwnPoints(g, a, N, P) ==
    DOMAIN a = 1 .. N /\ \A n \in 1 .. N : Points(g, a[n]) \in Seq(P)

\* f[n] holds the points of the first n of the owners a.
Gathers(g, a, N, f) ==
    /\ f[0] = << >>
    /\ \A n \in 1 .. N : f[n] = f[n - 1] \o Points(g, a[n])
    /\ AllPoints(g, a) = f[N]

\* AllPoints takes the splits one by one.
LEMMA AllPointsSteps ==
    ASSUME NEW g, NEW P, NEW N \in Nat, NEW a, OwnPoints(g, a, N, P)
    PROVE  \E f : Gathers(g, a, N, f)
<1> USE DEF OwnPoints
<1> DEFINE A == Seq(P)
           h == [z \in A \X (1 .. N) |-> z[1] \o Points(g, a[z[2]])]
           Is(f) == f = [s \in SUBSET (1 .. N) |->
                           IF s = {} THEN << >>
                           ELSE f[s \ {Max(s)}] \o Points(g, a[Max(s)])]
           it == CHOOSE f : Is(f)
<1>2. AllPoints(g, a) = it[1 .. N]
  BY Zenon DEF AllPoints, FoldLeft, MapThenFoldSet
<1>3. h \in [A \X (1 .. N) -> A]
  <2>1. ASSUME NEW r \in A, NEW n \in 1 .. N
        PROVE  r \o Points(g, a[n]) \in A
    OBVIOUS
  <2>2. ASSUME NEW z \in A \X (1 .. N) PROVE h[z] \in A
    <3>1. z[1] \in A /\ z[2] \in 1 .. N
      OBVIOUS
    <3> HIDE DEF A
    <3> QED  BY <2>1, <3>1
  <2> HIDE DEF A
  <2> QED  BY <2>2
<1>4. PICK f : IsFold(N, A, << >>, h, f)
  <2>1. << >> \in A
    BY SMT
  <2> HIDE DEF h, A
  <2> QED  BY <1>3, <2>1, FoldExists
<1>5. /\ f \in [SUBSET (1 .. N) -> A]
      /\ \A s \in SUBSET (1 .. N) : f[s] = LeftStep(h, << >>, f, s)
  BY <1>4, Zenon DEF IsFold
<1>6. Is(f)
  <2>1. ASSUME NEW s \in SUBSET (1 .. N)
        PROVE  f[s] = IF s = {} THEN << >>
                      ELSE f[s \ {Max(s)}] \o Points(g, a[Max(s)])
    <3>1. CASE s = {}
      BY <1>5, <3>1 DEF LeftStep
    <3>2. CASE s # {}
      <4>1. Max(s) \in 1 .. N /\ f[s \ {Max(s)}] \in A
        BY <1>5, <3>2, LastPosition
      <4>2. f[s] = h[<<f[s \ {Max(s)}], Max(s)>>]
        BY <1>5, <3>2 DEF LeftStep
      <4> HIDE DEF A
      <4> QED  BY <3>2, <4>1, <4>2
    <3> QED  BY <3>1, <3>2
  <2>2. f = [s \in SUBSET (1 .. N) |-> f[s]]
    BY <1>5
  <2> QED  BY <2>1, <2>2, Zenon
<1>7. Is(it)
  <2> HIDE DEF Is
  <2> QED  BY <1>6, Zenon
<1>8. \A s \in SUBSET (1 .. N) :
         it[s] = IF s = {} THEN << >>
                 ELSE it[s \ {Max(s)}] \o Points(g, a[Max(s)])
  <2> HIDE DEF it
  <2> QED  BY <1>7
<1> DEFINE r == [n \in 0 .. N |-> it[1 .. n]]
<1> HIDE DEF it
<1>9. r[0] = << >> /\ r[N] = it[1 .. N]
  <2>1. 1 .. 0 = {} /\ 0 \in 0 .. N /\ N \in 0 .. N
    OBVIOUS
  <2>2. it[{}] = << >>
    BY <1>8
  <2> QED  BY <2>1, <2>2
<1>10. ASSUME NEW n \in 1 .. N
       PROVE  r[n] = r[n - 1] \o Points(g, a[n])
  <2>1. Max(1 .. n) = n /\ (1 .. n) \ {n} = 1 .. n - 1
    BY LastPosition
  <2>2. /\ 1 .. n \in SUBSET (1 .. N) /\ n \in 1 .. n
        /\ n \in 0 .. N /\ n - 1 \in 0 .. N
    OBVIOUS
  <2> QED  BY <1>8, <2>1, <2>2
<1>11. Gathers(g, a, N, r)
  <2> HIDE DEF r
  <2> QED  BY <1>2, <1>9, <1>10 DEF Gathers
<1> QED  BY <1>11
\* The points of owners who arrive in some order: as many as they hold.
LEMMA ArrivalPoints ==
    ASSUME NEW g \in Groups, Cut(g), NEW a \in Arrivals(g),
           \A k \in 1 .. NumOf(g) : shares[g][k] \in Field
    PROVE  /\ ArePoints(g, AllPoints(g, a), 1 .. NumOf(g))
           /\ Len(AllPoints(g, a)) = SharesOf(g, Range(a))
           /\ Range(a) \in SUBSET Owners(g)
<1>1. PICK S \in SUBSET Owners(g) : a \in SetToSeqs(S)
  BY DEF Arrivals
<1>2. IsFiniteSet(S)
  BY FS_Subset DEF Cut
<1>3. PICK N \in Nat : N = Cardinality(S)
  BY <1>2, FS_CardinalityType
<1>4. /\ a \in [1 .. N -> S]
      /\ \A j, k \in 1 .. N : j # k => a[j] # a[k]
  BY <1>1, <1>3 DEF SetToSeqs
<1>5. \A n \in 1 .. N : a[n] \in Owners(g)
  BY <1>4
<1>6. ASSUME NEW o \in Owners(g)
      PROVE  /\ ArePoints(g, Points(g, o), splits[g][o])
             /\ Len(Points(g, o)) = Held(g)[o]
             /\ Points(g, o) \in Seq(Pt(g))
             /\ splits[g][o] \subseteq 1 .. NumOf(g)
  BY SplitPoints DEF ArePoints, Cut
<1>7. PICK f : Gathers(g, a, N, f)
  <2>1. OwnPoints(g, a, N, Pt(g))
    BY <1>4, <1>5, <1>6 DEF OwnPoints
  <2> QED  BY <2>1, AllPointsSteps
<1> USE DEF Gathers
<1> DEFINE Of(n) == {a[k] : k \in 1 .. n}
           Good(n) == /\ ArePoints(g, f[n], Known(g, Of(n)))
                      /\ Len(f[n]) = SharesOf(g, Of(n))
           Q == {n \in Nat : n <= N => Good(n)}
<1>8. 0 \in Q
  <2>1. Of(0) = {}
    OBVIOUS
  <2>2. Known(g, {}) = {}
    BY DEF Known
  <2>3. SharesOf(g, {}) = 0
    <3>1. {} \in SUBSET Owners(g) /\ IsFiniteSet({})
      BY FS_EmptySet
    <3>2. SharesOf(g, {}) = SumOf(Held(g), {})
      BY <3>1, HeldFacts
    <3>3. SumOf(Held(g), {}) = 0
      BY <3>1, SumFacts
    <3> QED  BY <3>2, <3>3
  <2>4. ArePoints(g, << >>, {})
    BY DEF ArePoints
  <2> HIDE DEF Of
  <2>5. Good(0)
    BY <1>7, <2>1, <2>2, <2>3, <2>4
  <2> QED  BY <2>5
<1>9. ASSUME NEW n \in Nat, n \in Q PROVE n + 1 \in Q
  <2>1. ASSUME n + 1 <= N PROVE Good(n + 1)
    <3>1. Good(n) /\ n + 1 \in 1 .. N /\ (n + 1) - 1 = n
      <4> HIDE DEF Good
      <4> QED  BY <1>9, <2>1
    <3>2. PICK o \in Owners(g) : o = a[n + 1]
      BY <1>5, <3>1
    <3>3. f[n + 1] = f[n] \o Points(g, o)
      BY <1>7, <3>1, <3>2
    <3>4. Of(n + 1) = Of(n) \cup {o}
      <4>1. 1 .. n + 1 = (1 .. n) \cup {n + 1}
        OBVIOUS
      <4> QED  BY <3>2, <4>1
    <3>5. Of(n) \in SUBSET Owners(g) /\ o \notin Of(n)
      <4>1. \A k \in 1 .. n : k \in 1 .. N /\ k # n + 1
        BY <2>1
      <4> QED  BY <1>4, <1>5, <3>1, <3>2, <4>1
    <3>6. Known(g, Of(n)) \cap splits[g][o] = {}
      <4>1. \A q \in Of(n) : splits[g][q] \cap splits[g][o] = {}
        BY <3>5 DEF Cut
      <4> HIDE DEF Of
      <4> QED  BY <4>1 DEF Known
    <3>7. Known(g, Of(n + 1)) = Known(g, Of(n)) \cup splits[g][o]
      <4> HIDE DEF Of
      <4> QED  BY <3>4 DEF Known
    <3>8. SharesOf(g, Of(n + 1)) = Held(g)[o] + SharesOf(g, Of(n))
          /\ SharesOf(g, Of(n)) \in Nat /\ Held(g)[o] \in Nat
      <4>1. PICK s \in SUBSET Owners(g) : s = Of(n) /\ o \in Owners(g) \ s
        BY <3>5
      <4> HIDE DEF Of
      <4>2. s \cup {o} \in SUBSET Owners(g)
        OBVIOUS
      <4>3. /\ SharesOf(g, s) = SumOf(Held(g), s) /\ SharesOf(g, s) \in Nat
            /\ \A q \in Owners(g) : Held(g)[q] \in Nat
        BY HeldFacts
      <4>4. SharesOf(g, s \cup {o}) = SumOf(Held(g), s \cup {o})
        BY <4>2, HeldFacts
      <4>5. IsFiniteSet(Owners(g))
        BY DEF Cut
      <4>6. SumOf(Held(g), s \cup {o}) = Held(g)[o] + SumOf(Held(g), s)
        BY <4>1, <4>3, <4>5, SumAdd
      <4> QED  BY <3>4, <4>1, <4>3, <4>4, <4>6
    <3>9. /\ ArePoints(g, f[n + 1], Known(g, Of(n + 1)))
          /\ Len(f[n + 1]) = Len(f[n]) + Len(Points(g, o))
      <4>1. ArePoints(g, f[n], Known(g, Of(n)))
        BY <3>1
      <4>2. ArePoints(g, Points(g, o), splits[g][o])
        BY <1>6
      <4> HIDE DEF Of
      <4>3. /\ ArePoints(g, f[n] \o Points(g, o),
                         Known(g, Of(n)) \cup splits[g][o])
            /\ Len(f[n] \o Points(g, o)) = Len(f[n]) + Len(Points(g, o))
        BY <3>6, <4>1, <4>2, ConcatPoints
      <4> QED  BY <3>3, <3>7, <4>3
    <3> HIDE DEF Of
    <3>10. Len(f[n + 1]) = SharesOf(g, Of(n + 1))
      BY <1>6, <3>1, <3>8, <3>9
    <3> QED  BY <3>9, <3>10
  <2>2. n + 1 \in Nat
    OBVIOUS
  <2> HIDE DEF Good
  <2> QED  BY <2>1, <2>2
<1>10. Good(N)
  <2> HIDE DEF Good
  <2>1. Nat \subseteq Q
    <3> HIDE DEF Q
    <3> QED  BY <1>8, <1>9, SetInduction
  <2> QED  BY <2>1
<1>11. Of(N) = Range(a) /\ Range(a) \in SUBSET Owners(g)
  BY <1>4, <1>5 DEF Range
<1> HIDE DEF Of
<1>12. /\ ArePoints(g, AllPoints(g, a), Known(g, Range(a)))
       /\ Len(AllPoints(g, a)) = SharesOf(g, Range(a))
  BY <1>7, <1>10, <1>11
<1>13. Known(g, Range(a)) \subseteq 1 .. NumOf(g)
  BY <1>11, KnownShares
<1> QED  BY <1>11, <1>12, <1>13 DEF ArePoints

\* Points of a polynomial, as many as it has coefficients, give its value at 0.
LEMMA CombineGives ==
    ASSUME NEW g \in Groups, NEW p \in Poly(Threshold(g)), Through(g, p),
           NEW q, ArePoints(g, q, 1 .. NumOf(g)), Len(q) >= Threshold(g)
    PROVE  CombineShamirShares(SubSeq(q, 1, Threshold(g))) = p[0]
<1>0. PICK n \in Nat : n = Threshold(g)
  BY GroupFacts
<1>1. \A k \in 1 .. NumOf(g) : k \in Field
  BY GroupFacts
<1>2. PICK t : t = SubSeq(q, 1, n)
  OBVIOUS
<1>3. q \in Seq(Pt(g)) /\ Len(q) \in Nat /\ n <= Len(q)
  BY <1>0 DEF ArePoints
<1>4. /\ DOMAIN t = 1 .. n
      /\ \A k \in 1 .. n : t[k] = q[k] /\ k \in 1 .. Len(q)
  <2> DEFINE P == Pt(g)
  <2>1. q \in Seq(P)
    BY <1>3
  <2> HIDE DEF P
  <2>2. /\ SubSeq(q, 1, n) \in Seq(P) /\ Len(SubSeq(q, 1, n)) = n
        /\ \A k \in 1 .. n : SubSeq(q, 1, n)[k] = q[k]
    BY <1>3, <2>1
  <2> QED  BY <1>2, <1>3, <2>2
<1>5. PICK X : X = [k \in 1 .. n |-> t[k].x]
  OBVIOUS
<1>6. \A k \in 1 .. n : /\ X[k] = q[k].x /\ X[k] \in 1 .. NumOf(g)
                        /\ X[k] \in Field /\ t[k].y = shares[g][X[k]]
  BY <1>1, <1>4, <1>5 DEF ArePoints
<1>7. Different(X, 1 .. n)
  <2>1. IsFiniteSet(1 .. n)
    BY FS_Interval
  <2>2. X \in [1 .. n -> Field]
    BY <1>5, <1>6
  <2>3. \A j \in 1 .. n, k \in 1 .. n : j # k => X[j] # X[k]
    BY <1>4, <1>6 DEF ArePoints
  <2> QED  BY <2>1, <2>2, <2>3 DEF Different
<1>8. \A k \in 1 .. n : t[k].y = Along(X, 1 .. n, p)[k]
  <2> TAKE k \in 1 .. n
  <2>1. shares[g][X[k]] = p[X[k]]
    BY <1>6 DEF Through
  <2> QED  BY <1>6, <2>1 DEF Along
<1>9. PICK T : T = Terms(X, 1 .. n, Along(X, 1 .. n, p))
  OBVIOUS
<1>10. [k \in 1 .. n |-> t[k].y * basis(X, 1 .. n, k)] = T
  BY <1>8, <1>9 DEF Terms
<1>11. CombineShamirShares(t) = SumOf(T, 1 .. n) % Modulus
  <2>1. ~\E j, k \in 1 .. n : j # k /\ X[j] = X[k]
    BY <1>7 DEF Different
  <2> DEFINE Z(D) == [k \in D |-> t[k].x]
             Y(D) == [k \in D |-> t[k].y * basis(Z(D), D, k)]
  <2>2. CombineShamirShares(t) =
           IF \E j, k \in DOMAIN t : j # k /\ Z(DOMAIN t)[j] = Z(DOMAIN t)[k]
           THEN Err
           ELSE SumOf(Y(DOMAIN t), DOMAIN t) % Modulus
    BY Zenon DEF CombineShamirShares, SumOf
  <2>3. Z(DOMAIN t) = X /\ Y(DOMAIN t) = T
    BY <1>4, <1>5, <1>10, Zenon
  <2> HIDE DEF Z, Y
  <2> QED  BY <1>4, <2>1, <2>2, <2>3, Zenon
<1>12. SumOf(T, 1 .. n) = Combined(X, 1 .. n, Along(X, 1 .. n, p))
  BY <1>9 DEF Combined
<1>13. Cong(Combined(X, 1 .. n, Along(X, 1 .. n, p)), p[0])
  <2>1. Cardinality(1 .. n) = n /\ 1 .. n \in SUBSET (1 .. n)
    <3>1. Cardinality(1 .. n) = IF 1 > n THEN 0 ELSE n - 1 + 1
      BY FS_Interval
    <3> QED  BY <3>1
  <2> QED  BY <1>0, <1>7, <2>1, Lagrange
<1>14. PICK c \in Int : c = Combined(X, 1 .. n, Along(X, 1 .. n, p))
  <2>1. \A k \in 1 .. n : Along(X, 1 .. n, p)[k] \in Field
    BY <1>0, <1>7, AlongType
  <2>2. Combined(X, 1 .. n, Along(X, 1 .. n, p)) \in Nat
    BY <1>7, <2>1, CombinedType
  <2> QED  BY <2>2
<1>15. p[0] \in Field /\ p[0] \in Int
  BY <1>0, ModulusFacts, PolyType
<1>16. c % Modulus = p[0]
  <2>1. c % Modulus \in Field /\ c % Modulus \in Int /\ Cong(c % Modulus, c)
    BY ModulusFacts, CongMod
  <2>2. Cong(c % Modulus, p[0])
    BY <1>13, <1>14, <1>15, <2>1, CongTrans
  <2> QED  BY <1>15, <2>1, <2>2, CongUnique
<1> QED  BY <1>0, <1>2, <1>11, <1>12, <1>14, <1>16

\* What a group joins: its part, or an error.
LEMMA JoinGives ==
    ASSUME IInv, Sized, KeyInv, pc = "done", NEW g \in Groups,
           NEW a \in Arrivals(g)
    PROVE  /\ SharesOf(g, Range(a)) < Threshold(g) =>
                 JoinKeyShares(g, a) = Err
           /\ SharesOf(g, Range(a)) >= Threshold(g) =>
                 JoinKeyShares(g, a) = parts[g]
           /\ parts[g] # Err
           /\ SharesOf(g, Range(a)) \in Nat /\ Threshold(g) \in Nat
<1>1. Cut(g)
  BY SplitsCut
<1>2. Shared(g) /\ parts[g] \in Field
  BY DEF KeyInv, Dealers
<1>3. PICK p \in Poly(Threshold(g)) : Through(g, p)
  BY <1>2 DEF Shared
<1>4. \A k \in 1 .. NumOf(g) : shares[g][k] \in Field
  <2>1. p \in [Field -> Field] /\ \A k \in 1 .. NumOf(g) : k \in Field
    BY GroupFacts, PolyType
  <2> QED  BY <1>3, <2>1 DEF Through
<1>5. PICK q : q = AllPoints(g, a)
  OBVIOUS
<1>6. /\ ArePoints(g, q, 1 .. NumOf(g))
      /\ Len(q) = SharesOf(g, Range(a))
      /\ Range(a) \in SUBSET Owners(g)
  BY <1>1, <1>4, <1>5, ArrivalPoints
<1>7. SharesOf(g, Range(a)) \in Nat /\ Threshold(g) \in Nat
  BY <1>1, <1>6, HeldFacts, GroupFacts
<1>8. parts[g] # Err
  BY <1>2, ModulusFacts DEF Err
<1>9. JoinKeyShares(g, a) =
         IF Len(q) < Threshold(g) THEN Err
         ELSE CombineShamirShares(SubSeq(q, 1, Threshold(g)))
  BY <1>5 DEF JoinKeyShares
<1>10. Len(q) >= Threshold(g) =>
          CombineShamirShares(SubSeq(q, 1, Threshold(g))) = parts[g]
  <2> HAVE Len(q) >= Threshold(g)
  <2>1. CombineShamirShares(SubSeq(q, 1, Threshold(g))) = p[0]
    BY <1>3, <1>6, CombineGives
  <2> QED  BY <1>3, <2>1 DEF Through
<1> QED  BY <1>6, <1>7, <1>8, <1>9, <1>10

\* Owners with a threshold of shares in both groups recover the key, in any
\* order, and others get an error: for every key, split, list of weights and
\* field, Lagrange interpolation undoes what SplitToShamirShares did.
THEOREM QuorumsDoRecover == Spec => []QuorumsRecover
<1>1. Init => Sized /\ KeyInv
  BY KeyInitially DEF Init, Sized, Groups
<1>2. IInv /\ Sized /\ KeyInv /\ [Next]_vars => Sized' /\ KeyInv'
  BY SizedStep, KeyStep
<1>3. IInv /\ Sized /\ KeyInv => QuorumsRecover
  <2> SUFFICES ASSUME IInv, Sized, KeyInv, pc = "done"
               PROVE  QuorumsRecover
    BY DEF QuorumsRecover
  <2> DEFINE Join(g) == [a \in Arrivals(g) |-> JoinKeyShares(g, a)]
             Joined(g) == {Join(g)[a] : a \in
                 {b \in Arrivals(g) : SharesOf(g, Range(b)) >= Threshold(g)}}
  <2>1. ASSUME NEW g \in Groups, NEW a \in Arrivals(g)
        PROVE  SharesOf(g, Range(a)) < Threshold(g) <=> Join(g)[a] = Err
    BY JoinGives
  <2>2. ASSUME NEW g \in Groups, NEW y \in Joined(g) PROVE y = parts[g]
    <3>1. PICK a \in Arrivals(g) : /\ y = JoinKeyShares(g, a)
                                   /\ SharesOf(g, Range(a)) >= Threshold(g)
      OBVIOUS
    <3> QED  BY <3>1, JoinGives
  <2>3. JoinSecret(parts["admin"], parts["provider"]) = secret
    BY DEF KeyInv, Dealers
  <2>4. \A a \in Joined("admin"), p \in Joined("provider") :
           JoinSecret(a, p) = secret
    <3> TAKE a \in Joined("admin"), p \in Joined("provider")
    <3>1. "admin" \in Groups /\ "provider" \in Groups
      BY DEF Groups
    <3>2. a = parts["admin"] /\ p = parts["provider"]
      <4> HIDE DEF Joined
      <4> QED  BY <2>2, <3>1
    <3> QED  BY <2>3, <3>2
  <2>5. \A g \in Groups : \A a \in Arrivals(g) :
           SharesOf(g, Range(a)) < Threshold(g) <=> Join(g)[a] = Err
    <3> HIDE DEF Join
    <3> QED  BY <2>1
  <2> QED  BY <2>4, <2>5, Zenon DEF QuorumsRecover
<1> QED  BY <1>1, <1>2, <1>3, KeyBackupInvariant, PTL DEF Spec
=============================================================================
