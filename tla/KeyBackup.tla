----------------------------- MODULE KeyBackup -----------------------------
(***************************************************************************)
(* How a data-provider backup cuts a private key into shares (BackupWallet *)
(* in internal/wallets/backup).  The key is split into two parts that add  *)
(* up to it, one for the wallet's admins and one for the data providers,   *)
(* and each part into Shamir shares: one for every admin, and for the      *)
(* providers NormalizationConstant shares in proportion to the weights of  *)
(* the active signing policy.  The loops are taken step by step, in uint16 *)
(* where the code is.                                                      *)
(*                                                                         *)
(* The field is that of the integers modulo a small prime; random field    *)
(* elements are any elements.  What the holders do with their splits is    *)
(* in module KeyRestore.                                                   *)
(***************************************************************************)
EXTENDS Integers, Sequences, FiniteSets, SequencesExt, FiniteSetsExt

CONSTANTS Policies,                \* weight lists an active policy may have
          Width,                   \* 2^16 in the code
          NormalizationConstant,   \* 1000 in the code
          DataProvidersThreshold,  \* 666 in the code
          Admins,                  \* how many admins the wallet has
          AdminsThreshold,
          Modulus,                 \* the order of secp256k1 in the code
          PrivateKeys

Field == 0 .. Modulus - 1

ASSUME BackupAssumption ==
    /\ Width \in Nat \ {0}
    /\ Policies \subseteq Seq(0 .. Width - 1)
    /\ NormalizationConstant \in 1 .. Width - 1
    /\ DataProvidersThreshold \in 1 .. NormalizationConstant
    /\ Admins \in Nat
    /\ AdminsThreshold \in 1 .. Admins
    /\ Modulus \in Nat \ {0}
    /\ PrivateKeys \subseteq Field

\* Shares with different indices are different points of the field, and its
\* elements have inverses.
ASSUME FieldAssumption ==
    /\ NormalizationConstant < Modulus /\ Admins < Modulus
    /\ \A x \in 1 .. Modulus - 1 : \E y \in Field : (x * y) % Modulus = 1

VARIABLES weights,       \* signingPolicyWeights
          pc,
          i,             \* index of the loop
          sum, total,    \* of weightsNormalization
          normalized,    \* normalizedWeights
          secret,        \* the private key
          parts,         \* splitKey, by group
          shares,        \* Shamir shares by group: the value at x = 1, 2, ...
          splits,        \* by group and owner: the indices of its shares
          weightCounter,
          prefix,        \* sum after each weight (history)
          marks          \* shares assigned after each weight (history)

loop == <<i, sum, total, normalized>>
sharing == <<parts, shares, splits, weightCounter>>
history == <<prefix, marks>>
vars == <<weights, pc, loop, secret, sharing, history>>

Groups == {"admin", "provider"}

Init ==
    /\ weights \in Policies
    /\ pc = "sum"
    /\ i = 1
    /\ sum = 0
    /\ total = NormalizationConstant
    /\ normalized = [j \in 1 .. Len(weights) |-> 0]
    /\ secret \in PrivateKeys
    /\ parts = [g \in Groups |-> 0]
    /\ shares = [g \in Groups |-> << >>]
    /\ splits = [g \in Groups |-> << >>]
    /\ weightCounter = 0
    /\ prefix = << >>
    /\ marks = << >>

-----------------------------------------------------------------------------
(* weightsNormalization *)

overflowsLate(s, w) == w # 0 /\ s > Width - w                     \* mutant
overflows(s, w) == w # 0 /\ s >= Width - w

AddWeight ==
    /\ pc = "sum"
    /\ i <= Len(weights)
    /\ ~overflows(sum, weights[i])
    /\ sum' = (sum + weights[i]) % Width
    /\ prefix' = Append(prefix, sum')
    /\ i' = i + 1
    /\ UNCHANGED <<weights, pc, total, normalized, secret, sharing, marks>>

\* "overflow of weights", "total weight is zero"
RefuseWeights ==
    /\ pc = "sum"
    /\ IF i <= Len(weights) THEN overflows(sum, weights[i]) ELSE sum = 0
    /\ pc' = "error"
    /\ UNCHANGED <<weights, loop, secret, sharing, history>>

SumDone ==
    /\ pc = "sum"
    /\ i > Len(weights)
    /\ sum # 0
    /\ pc' = "normalize"
    /\ i' = 1
    /\ UNCHANGED <<weights, sum, total, normalized, secret, sharing, history>>

\* What a weight and its shares leave for the weights that follow.
wholeSum(s, w) == s                                               \* mutant
remainingSum(s, w) == (s - w) % Width

wholeTotal(t, n) == t                                             \* mutant
remainingTotal(t, n) == (t - n) % Width

normalizedOfAll(w, t, s) ==                                       \* mutant
    (w * NormalizationConstant) \div prefix[Len(weights)]
normalizedWeight(w, t, s) == ((w * t) \div s) % Width

NormalizeWeight ==
    /\ pc = "normalize"
    /\ i <= Len(weights)
    /\ sum # 0
    /\ LET n == normalizedWeight(weights[i], total, sum)
       IN  /\ sum' = remainingSum(sum, weights[i])
           /\ total' = remainingTotal(total, n)
           /\ normalized' = [normalized EXCEPT ![i] = n]
    /\ marks' = Append(marks, NormalizationConstant - total')
    /\ i' = i + 1
    /\ UNCHANGED <<weights, pc, secret, sharing, prefix>>

\* The loop ends early when only zero weights are left.
Normalized ==
    /\ pc = "normalize"
    /\ i > Len(weights) \/ sum = 0
    /\ pc' = "secret"
    /\ UNCHANGED <<weights, loop, secret, sharing, history>>

-----------------------------------------------------------------------------
(* SplitSecret, and SplitAndEncrypt for the admins and for the providers. *)

JoinSecret(a, p) == (a + p) % Modulus

SplitSecret(part) ==
    /\ pc = "secret"
    /\ parts' = [admin |-> part, provider |-> (secret - part) % Modulus]
    /\ pc' = "admin"
    /\ i' = 1
    /\ UNCHANGED <<weights, sum, total, normalized, secret, shares, splits,
                   weightCounter, history>>

Weights(g) ==
    IF g = "admin" THEN [j \in 1 .. Admins |-> 1] ELSE normalized

Threshold(g) ==
    IF g = "admin" THEN AdminsThreshold ELSE DataProvidersThreshold

numShares(g) == FoldSeq(+, 0, Weights(g))

\* Horner's method, from the last coefficient.
evalPolynomial(polynomial, x) ==
    FoldRight(LAMBDA c, r : (r * x + c) % Modulus, polynomial, 0)

\* X of the k-th share.
indexFrom0(k) == k - 1                                            \* mutant
index(k) == k

degreeLow(g) == Threshold(g) - 2                                  \* mutant
degree(g) == Threshold(g) - 1

\* Fewer shares than the threshold would be an error, and no backup.
moreShares(g) == Threshold(g) < numShares(g)                      \* mutant
enoughShares(g) == Threshold(g) <= numShares(g)

SplitToShamirShares(g, c) ==
    /\ pc = g
    /\ shares[g] = << >>
    /\ enoughShares(g)
    /\ shares' = [shares EXCEPT ![g] = [k \in 1 .. numShares(g) |->
           evalPolynomial(<<parts[g]>> \o c, index(k))]]
    /\ UNCHANGED <<weights, pc, loop, secret, parts, splits, weightCounter,
                   history>>

\* Every owner gets the next ones, as many as its weight.
KeySplit(g) ==
    /\ pc = g
    /\ shares[g] # << >>
    /\ i <= Len(Weights(g))
    /\ splits' = [splits EXCEPT ![g] = Append(@,
           weightCounter + 1 .. weightCounter + Weights(g)[i])]
    /\ weightCounter' = weightCounter + Weights(g)[i]
    /\ i' = i + 1
    /\ UNCHANGED <<weights, pc, sum, total, normalized, secret, parts, shares,
                   history>>

SplitDone(g) ==
    /\ pc = g
    /\ shares[g] # << >>
    /\ i > Len(Weights(g))
    /\ pc' = IF g = "admin" THEN "provider" ELSE "done"
    /\ i' = 1
    /\ weightCounter' = 0
    /\ UNCHANGED <<weights, sum, total, normalized, secret, parts, shares,
                   splits, history>>

Next ==
    \/ AddWeight \/ RefuseWeights \/ SumDone
    \/ NormalizeWeight \/ Normalized
    \/ \E part \in Field : SplitSecret(part)
    \/ \E g \in Groups :
         \/ \E c \in [1 .. degree(g) -> Field] : SplitToShamirShares(g, c)
         \/ KeySplit(g)
         \/ SplitDone(g)

\* BackupWallet is one call that waits for nobody.
Spec == Init /\ [][Next]_vars /\ WF_vars(Next)

-----------------------------------------------------------------------------
(* Joining, which RecoverWallet does for each group.  Err stands for the   *)
(* errors.                                                                 *)

Err == -1

inverse(d) == CHOOSE v \in Field : (v * d) % Modulus = 1

Product(w, S) == FoldSet(LAMBDA k, r : (w[k] * r) % Modulus, 1, S)

differenceBack(xj, xi) == xi - xj                                 \* mutant
difference(xj, xi) == xj - xi

\* What the y of the k-th of the shares S is multiplied by.
basis(X, S, k) ==
    LET numerator == Product(X, S \ {k})
        denominator == Product([j \in DOMAIN X |-> difference(X[j], X[k])],
                               S \ {k})
    IN  numerator * inverse(denominator)

\* Lagrange interpolation at 0 through the given points.
CombineShamirShares(points) ==
    LET N == DOMAIN points
        X == [k \in N |-> points[k].x]
        term == [k \in N |-> points[k].y * basis(X, N, k)]
    IN  IF \E j, k \in N : j # k /\ X[j] = X[k] THEN Err
        ELSE MapThenSumSet(LAMBDA k : term[k], N) % Modulus

\* The points in the split of owner o, in the order of their indices.
Points(g, o) ==
    [k \in 1 .. Cardinality(splits[g][o]) |->
        LET n == Min(splits[g][o]) + k - 1
        IN  [x |-> index(n), y |-> shares[g][n]]]

AllPoints(g, owners) ==
    FoldLeft(LAMBDA points, o : points \o Points(g, o), << >>, owners)

\* The first threshold points of those of the given owners, in their order.
JoinKeyShares(g, owners) ==
    LET all == AllPoints(g, owners)
    IN  IF Len(all) < Threshold(g) THEN Err
        ELSE CombineShamirShares(SubSeq(all, 1, Threshold(g)))

-----------------------------------------------------------------------------
(* Properties *)

Owners(g) == DOMAIN splits[g]
Held(g) == [o \in Owners(g) |-> Cardinality(splits[g][o])]
SharesOf(g, S) == MapThenSumSet(LAMBDA o : Held(g)[o], S)
Arrivals(g) == UNION {SetToSeqs(S) : S \in SUBSET Owners(g)}

\* Every backup that can be made is made: only weights that add up to nothing
\* or to more than a uint16 are refused, and whatever is rounded the provider
\* shares reach their threshold (weightsNormalization, SplitToShamirShares).
BackedUp ==
    <>(pc = IF FoldSeq(+, 0, weights) \in 1 .. Width - 1 THEN "done"
                                                          ELSE "error")

\* All of the NormalizationConstant shares go to exactly one provider each,
\* however the weights round (weightsNormalization hands down what a weight
\* leaves, SplitAndEncrypt cuts consecutive slices).
SharesPartitioned ==
    pc = "done" =>
        \A x \in 1 .. NormalizationConstant :
            \E o \in 1 .. Len(weights) :
                /\ x \in splits["provider"][o]
                /\ \A q \in 1 .. Len(weights) \ {o} :
                      x \notin splits["provider"][q]

\* A provider never gets less than its exact proportion rounded down: what
\* rounding takes from earlier providers is not taken from later ones.
NobodyShortened ==
    \A j \in 1 .. Len(marks) :
        weights[j] * NormalizationConstant
            < (normalized[j] + 1) * prefix[Len(weights)]

\* How far a coalition's shares may stray from its weight: by less than a share
\* for every member downwards and by less than a share for everybody else
\* upwards.  This bounds the weight that reaches DataProvidersThreshold.
SharesFollowWeight ==
    pc = "done" =>
        \A S \in SUBSET Owners("provider") :
            LET weight == MapThenSumSet(LAMBDA o : weights[o], S)
                all == FoldSeq(+, 0, weights)
                exact == weight * NormalizationConstant
                given == SharesOf("provider", S) * all
            IN  /\ S # {} => given > exact - Cardinality(S) * all
                /\ S # Owners("provider") =>
                     given < exact + Cardinality(Owners("provider") \ S) * all

\* Owners with a threshold of shares in both groups recover the key, whoever
\* they are and in whatever order their splits arrive; others get an error
\* (SplitSecret, SplitToShamirShares, JoinKeyShares, CombineShamirShares and
\* JoinSecret together).
QuorumsRecover ==
    pc = "done" =>
        LET Join(g) == [a \in Arrivals(g) |-> JoinKeyShares(g, a)]
            Joined(g) == {Join(g)[a] : a \in
                 {b \in Arrivals(g) : SharesOf(g, Range(b)) >= Threshold(g)}}
        IN  /\ \A g \in Groups : \A a \in Arrivals(g) :
                  SharesOf(g, Range(a)) < Threshold(g) <=> Join(g)[a] = Err
            /\ \A a \in Joined("admin"), p \in Joined("provider") :
                  JoinSecret(a, p) = secret

\* The shares that a polynomial of group g through v gives out.
Sharings(g, v) ==
    {[k \in 1 .. (IF g = "admin" THEN Admins ELSE NormalizationConstant) |->
        evalPolynomial(<<v>> \o c, index(k))] :
            c \in [1 .. degree(g) -> Field]}

Possible == [g \in Groups |-> [v \in Field |-> Sharings(g, v)]]

\* Fewer shares of one group tell nothing about the key, even to someone who
\* holds all of the other group: every value of the missing part, hence every
\* key, could have dealt the same shares (SplitSecret, SplitToShamirShares).
MinorityLearnsNothing ==
    pc = "done" =>
        \A g \in Groups : \A S \in SUBSET Owners(g) :
            SharesOf(g, S) < Threshold(g) =>
                LET known == UNION {splits[g][o] : o \in S}
                IN  \A v \in Field : \E s \in Possible[g][v] :
                        \A k \in known : s[k] = shares[g][k]

=============================================================================
