------------------------- MODULE AuthorizationProofs -------------------------
(***************************************************************************)
(* Proofs about what signatures admit: instructions (Admission) and        *)
(* signing policies (PolicyStorage), whose definitions share the weights   *)
(* of Authorization.                                                       *)
(*                                                                         *)
(* Instructions: for any requests, lists of signers, policies and wallets, *)
(* and any width of the weights.                                           *)
(*                                                                         *)
(* Policies: for any policies, signers, chain ids, concurrent readers,     *)
(* width of the epochs and number of updates below that width.  The stored *)
(* epochs are the initial one and those that follow it, one for each       *)
(* update, modulo the width (Consecutive).  As there are fewer updates     *)
(* than epochs, an update stores an epoch that was not stored, and what is *)
(* known of the stored ones stays true.                                    *)
(***************************************************************************)
EXTENDS Admission, PolicyStorage, FoldTheorems

-----------------------------------------------------------------------------
(* The admission of instructions. *)

\* The input was drawn from the sets, and accepted is the code's verdict on it.
Judged ==
    \/ input = NoInput /\ ~accepted
    \/ \E d \in Requests, signers \in SignerLists, p \in ActivePolicies :
          /\ input = [kind |-> "instruction", d |-> d, signers |-> signers,
                      p |-> p]
          /\ accepted <=> Admitted(d, signers, p)
    \/ \E d \in Requests, signers \in SignerLists, p \in ActivePolicies,
          w \in Wallets :
          /\ input = [kind |-> "wallet", d |-> d, signers |-> signers,
                      p |-> p, wallet |-> w]
          /\ ~d.fdc
          /\ accepted <=> /\ Admitted(d, signers, p)
                          /\ CheckMatchingCosigners(d.cosigners, w.cosigners,
                                      d.cosignersThreshold, w.threshold)

LEMMA JudgedAlways == AdmissionSpec => []Judged
  <1>1. AdmissionInit => Judged
    BY DEF AdmissionInit, Judged
  <1>2. Judged /\ [AdmissionNext]_admissionVars => Judged'
    <2> SUFFICES ASSUME Judged, [AdmissionNext]_admissionVars PROVE Judged'
      OBVIOUS
    <2>1. CASE UNCHANGED admissionVars
      BY <2>1 DEF Judged, admissionVars
    <2>2. ASSUME NEW d \in Requests, NEW signers \in SignerLists,
                 NEW p \in ActivePolicies, Instruct(d, signers, p)
          PROVE  Judged'
      BY <2>2 DEF Instruct, Judged
    <2>3. ASSUME NEW d \in Requests, NEW signers \in SignerLists,
                 NEW p \in ActivePolicies, NEW w \in Wallets,
                 UseWallet(d, signers, p, w)
          PROVE  Judged'
      BY <2>3 DEF UseWallet, Judged
    <2> QED BY <2>1, <2>2, <2>3 DEF AdmissionNext
  <1> QED BY <1>1, <1>2, PTL DEF AdmissionSpec

LEMMA JudgedInput ==
  ASSUME Judged, input # NoInput \/ accepted
  PROVE  /\ input.d \in Requests
         /\ input.signers \in SignerLists
         /\ input.p \in ActivePolicies
         /\ accepted => Admitted(input.d, input.signers, input.p)
         /\ input.kind = "instruction" =>
               (accepted <=> Admitted(input.d, input.signers, input.p))
         /\ input.kind = "wallet" =>
               /\ input.wallet \in Wallets
               /\ accepted => CheckMatchingCosigners(input.d.cosigners,
                                 input.wallet.cosigners,
                                 input.d.cosignersThreshold,
                                 input.wallet.threshold)
  <1>1. CASE \E d \in Requests, signers \in SignerLists, p \in ActivePolicies :
                /\ input = [kind |-> "instruction", d |-> d,
                            signers |-> signers, p |-> p]
                /\ accepted <=> Admitted(d, signers, p)
    BY <1>1
  <1>2. CASE \E d \in Requests, signers \in SignerLists, p \in ActivePolicies,
                w \in Wallets :
                /\ input = [kind |-> "wallet", d |-> d, signers |-> signers,
                            p |-> p, wallet |-> w]
                /\ ~d.fdc
                /\ accepted <=> /\ Admitted(d, signers, p)
                                /\ CheckMatchingCosigners(d.cosigners,
                                      w.cosigners, d.cosignersThreshold,
                                      w.threshold)
    BY <1>2
  <1> QED BY <1>1, <1>2 DEF Judged

----------------------------------------------------------------------------
(* Weights.                                                                *)

LEMMA WeightsTyped ==
  ASSUME NEW p \in ActivePolicies, NEW signers
  PROVE  /\ Weight(p, DOMAIN p.voters) \in Nat
         /\ Weight(p, VotersIn(p, signers)) \in Nat
         /\ Weight(p, VotersIn(p, signers)) <= Weight(p, DOMAIN p.voters)
         /\ WeightOfSigners(signers, p) \in Nat
         /\ WeightOfSigners(signers, p) <= Weight(p, VotersIn(p, signers))
         /\ TotalWeight(p) \in Nat /\ TotalWeight(p) < WeightMod
         /\ p.threshold \in Nat
         /\ Weight(p, DOMAIN p.voters) < WeightMod =>
               /\ TotalWeight(p) = Weight(p, DOMAIN p.voters)
               /\ WeightOfSigners(signers, p) = Weight(p, VotersIn(p, signers))
  <1>1. p.voters \in Seq(Addresses)
        /\ p.weights \in [DOMAIN p.voters -> 0 .. WeightMod - 1]
        /\ p.threshold \in 0 .. WeightMod - 1
    BY AdmissionAssumption
  <1>2. p.weights \in [DOMAIN p.voters -> Nat] /\ WeightMod \in Nat \ {0}
    BY <1>1, WeightAssumption
  <1> DEFINE all == Weight(p, DOMAIN p.voters)
             some == Weight(p, VotersIn(p, signers))
  <1>3. all \in Nat /\ some \in Nat /\ some <= all
    <2> DEFINE S == DOMAIN p.voters
               T == VotersIn(p, signers)
    <2>1. /\ IsFiniteSet(S) /\ T \in SUBSET S
          /\ \A k \in S : p.weights[k] \in Nat
      <3>1. S = 1 .. Len(p.voters) /\ Len(p.voters) \in Nat
        BY <1>1
      <3>2. IsFiniteSet(1 .. Len(p.voters))
        BY <3>1, FS_Interval
      <3> QED BY <1>2, <3>1, <3>2 DEF VotersIn
    <2>2. \A R : Weight(p, R) = SumOf(p.weights, R)
      BY Zenon DEF Weight, SumOf
    <2> HIDE DEF S, T
    <2>3. /\ SumOf(p.weights, S) \in Nat /\ SumOf(p.weights, T) \in Nat
          /\ SumOf(p.weights, T) <= SumOf(p.weights, S)
      BY <2>1, SumSplit
    <2> QED BY <2>2, <2>3 DEF S, T
  <1> HIDE DEF all, some
  <1>4. /\ some % WeightMod \in Nat /\ some % WeightMod <= some
        /\ all % WeightMod \in Nat /\ all % WeightMod < WeightMod
        /\ all < WeightMod => all % WeightMod = all /\ some % WeightMod = some
    <2>1. \A n \in Nat : /\ n % WeightMod \in 0 .. WeightMod - 1
                         /\ n % WeightMod <= n
                         /\ n < WeightMod => n % WeightMod = n
      BY <1>2, ModBound
    <2>2. all < WeightMod => some < WeightMod
      BY <1>2, <1>3
    <2>3. /\ some % WeightMod \in 0 .. WeightMod - 1
          /\ some % WeightMod <= some
          /\ some < WeightMod => some % WeightMod = some
      BY Zenon, <1>3, <2>1
    <2>4. /\ all % WeightMod \in 0 .. WeightMod - 1
          /\ all < WeightMod => all % WeightMod = all
      BY Zenon, <1>3, <2>1
    <2>5. \A n \in 0 .. WeightMod - 1 : n \in Nat /\ n < WeightMod
      BY <1>2
    <2> QED BY Zenon, <2>2, <2>3, <2>4, <2>5
  <1>5. TotalWeight(p) = all % WeightMod
        /\ WeightOfSigners(signers, p) = some % WeightMod
    BY DEF TotalWeight, WeightOfSigners, all, some
  <1> QED BY <1>1, <1>2, <1>3, <1>4, <1>5 DEF all, some

\* The share of an override, rounded down: exceeding it and exceeding the exact
\* share are the same.
LEMMA ShareRounded ==
  ASSUME NEW total \in Nat, NEW bips \in Nat, NEW signed \in Nat,
         bips < maxBIPS, total < WeightMod
  PROVE  /\ computeThreshold(total, bips) \in Nat
         /\ signed > computeThreshold(total, bips)
              <=> signed * maxBIPS > total * bips
  <1> DEFINE x == total * bips
             q == x \div 10000
  <1>1. x \in Nat
    OBVIOUS
  <1>2. x <= total * 10000
    BY DEF maxBIPS
  <1> HIDE DEF x
  <1>3. q \in Nat /\ q * 10000 <= x /\ x < (q + 1) * 10000
    BY <1>1
  <1> HIDE DEF q
  <1>4. q <= total
    BY <1>1, <1>2, <1>3
  <1>5. q % WeightMod = q
    <2>1. WeightMod \in Nat \ {0} /\ q < WeightMod
      BY <1>3, <1>4, WeightAssumption
    <2>2. \A n \in Nat : n < WeightMod => n % WeightMod = n
      BY <2>1, ModBound
    <2> QED BY <1>3, <2>1, <2>2
  <1>6. computeThreshold(total, bips) = q
    BY <1>5 DEF computeThreshold, maxBIPS, x, q
  <1>7. signed > q <=> signed * 10000 > x
    BY <1>1, <1>3
  <1> QED BY <1>3, <1>6, <1>7 DEF maxBIPS, x

\* An override that is not refused is of 40% up to below 100%, and below 50%
\* only with more than half of the cosigners.
LEMMA OverrideGuarded ==
  ASSUME NEW d \in Requests, NEW p \in ActivePolicies
  PROVE  /\ override(d, p) # Failed =>
               /\ d.thresholdBIPS < maxBIPS
               /\ override(d, p) = computeThreshold(TotalWeight(p),
                                                    d.thresholdBIPS)
               /\ \/ d.thresholdBIPS >= 5000
                  \/ d.cosignersThreshold * 2 > Len(d.cosigners)
         /\ d.thresholdBIPS >= 5000 /\ d.thresholdBIPS < maxBIPS =>
               override(d, p) = computeThreshold(TotalWeight(p),
                                                 d.thresholdBIPS)
  <1>1. /\ d.thresholdBIPS \in Nat /\ d.cosignersThreshold \in Nat
        /\ Len(d.cosigners) \in Nat
    BY AdmissionAssumption
  <1>2. maxBIPS \div 2 = 5000 /\ maxBIPS = 10000
        /\ fdcMinimumThresholdBIPS = 4000
    BY DEF maxBIPS, fdcMinimumThresholdBIPS
  <1> DEFINE share == computeThreshold(TotalWeight(p), d.thresholdBIPS)
             bad == \/ d.thresholdBIPS < 4000
                    \/ /\ d.thresholdBIPS < 5000
                       /\ d.cosignersThreshold * 2 <= Len(d.cosigners)
                    \/ d.thresholdBIPS >= 10000
  <1>3. override(d, p) = IF bad THEN Failed ELSE share
    BY <1>2 DEF override
  <1> HIDE DEF share
  <1>4. ~bad => /\ d.thresholdBIPS < 10000
                /\ \/ d.thresholdBIPS >= 5000
                   \/ d.cosignersThreshold * 2 > Len(d.cosigners)
    BY <1>1
  <1>5. d.thresholdBIPS >= 5000 /\ d.thresholdBIPS < 10000 => ~bad
    BY <1>1
  <1> HIDE DEF bad
  <1> QED BY <1>2, <1>3, <1>4, <1>5 DEF share

----------------------------------------------------------------------------
(* Cosigners.                                                              *)

LEMMA ListFinite ==
  ASSUME NEW s \in Seq(Addresses)
  PROVE  IsFiniteSet(DOMAIN s)
  BY FS_Interval

\* In a list without repetitions, positions and cosigners count the same.
LEMMA CosignersCounted ==
  ASSUME NEW cosigners \in Seq(Addresses), IsInjective(cosigners), NEW signers
  PROVE  LET at == {j \in DOMAIN cosigners : cosigners[j] \in Range(signers)}
         IN  /\ IsFiniteSet(CosignersAmong(signers, cosigners))
             /\ Cardinality(CosignersAmong(signers, cosigners))
                  = Cardinality(at)
  <1> DEFINE at == {j \in DOMAIN cosigners : cosigners[j] \in Range(signers)}
             C  == CosignersAmong(signers, cosigners)
             f  == [j \in at |-> cosigners[j]]
  <1>1. IsFiniteSet(at)
    <2>1. IsFiniteSet(DOMAIN cosigners)
      BY FS_Interval
    <2> QED BY <2>1, FS_Subset
  <1>2. C = {cosigners[j] : j \in at}
    BY DEF CosignersAmong, Range
  <1>3. f \in Surjection(at, C)
    BY <1>2 DEF Surjection
  <1>4. f \in Injection(at, C)
    BY <1>2 DEF Injection, IsInjective
  <1>5. IsFiniteSet(C) /\ Cardinality(C) = Cardinality(at)
    <2> HIDE DEF at, C, f
    <2> QED BY <1>1, <1>3, <1>4, FS_Surjection
  <1> QED BY <1>5

LEMMA CosignersEnough ==
  ASSUME NEW d \in Requests, NEW signers, NEW p,
         CheckThresholds(d, signers, p)
  PROVE  /\ IsFiniteSet(CosignersAmong(signers, d.cosigners))
         /\ Cardinality(CosignersAmong(signers, d.cosigners)) \in Nat
         /\ Cardinality(CosignersAmong(signers, d.cosigners))
               >= d.cosignersThreshold
  <1>1. d.cosigners \in Seq(Addresses) /\ IsInjective(d.cosigners)
    BY AdmissionAssumption DEF CheckThresholds, HasDuplicateAddresses
  <1> QED BY <1>1, CosignersCounted, FS_CardinalityType
          DEF CheckThresholds, checkCosigners

----------------------------------------------------------------------------
\* An instruction gets through only with a quorum of the policy, or with more
\* than the exact share its override names of the policy's TotalWeight: neither
\* repeated signers nor rounding nor the signers' weights modulo 2^16 make up
\* for missing weight.  TotalWeight itself is the total modulo 2^16.
THEOREM QuorumsAreReached == AdmissionSpec => []QuorumReached
  <1>1. Judged => QuorumReached
    <2> SUFFICES ASSUME Judged, accepted
                 PROVE  IF Overridden
                        THEN Signed * maxBIPS > TotalWeight(input.p)
                                                  * input.d.thresholdBIPS
                        ELSE Signed > input.p.threshold /\ input.p.threshold > 0
      BY DEF QuorumReached
    <2> DEFINE d == input.d
               p == input.p
               limit == dataProvidersThreshold(d, p)
               counted == WeightOfSigners(input.signers, p)
    <2>1. d \in Requests /\ p \in ActivePolicies
          /\ CheckThresholds(d, input.signers, p)
      BY JudgedInput DEF Admitted
    <2>2. /\ Signed \in Nat /\ counted \in Nat
          /\ TotalWeight(p) \in Nat /\ TotalWeight(p) < WeightMod
          /\ counted <= Signed
          /\ p.threshold \in Nat
      BY <2>1, WeightsTyped DEF Signed
    <2>3. limit # Failed /\ counted > limit
      BY <2>1 DEF CheckThresholds
    <2>4. CASE ~Overridden
      BY <2>2, <2>3, <2>4
      DEF Overridden, dataProvidersThreshold, policyThreshold
    <2>5. CASE Overridden
      <3>1. limit = override(d, p)
        BY <2>5 DEF Overridden, dataProvidersThreshold
      <3>2. d.thresholdBIPS < maxBIPS
            /\ limit = computeThreshold(TotalWeight(p), d.thresholdBIPS)
        BY <2>1, <2>3, <3>1, OverrideGuarded
      <3>3. d.thresholdBIPS \in Nat
        BY <2>1, AdmissionAssumption
      <3>4. Signed > computeThreshold(TotalWeight(p), d.thresholdBIPS)
        <4>1. computeThreshold(TotalWeight(p), d.thresholdBIPS) \in Nat
          BY <2>2, <3>2, <3>3, ShareRounded
        <4> QED BY <2>2, <2>3, <3>2, <4>1
      <3>5. Signed * maxBIPS > TotalWeight(p) * d.thresholdBIPS
        BY <2>2, <3>2, <3>3, <3>4, ShareRounded
      <3> QED BY <2>5, <3>5
    <2> QED BY <2>4, <2>5
  <1> QED BY <1>1, JudgedAlways, PTL

\* Rounding down refuses no one: more than the exact share of an override from
\* 50% up is enough.
THEOREM NobodyIsRefused == AdmissionSpec => []NobodyRefused
  <1>1. Judged => NobodyRefused
    <2>0. SUFFICES ASSUME Judged, input # NoInput,
                          input.kind = "instruction",
                          Overridden,
                          input.d.thresholdBIPS >= maxBIPS \div 2,
                          input.d.thresholdBIPS < maxBIPS,
                          Total < WeightMod,
                          Signed * maxBIPS > Total * input.d.thresholdBIPS,
                          input.d.cosignersThreshold = 0,
                          ~HasDuplicateAddresses(input.d.cosigners),
                          ~HasDuplicateAddresses(input.signers),
                          Range(input.signers) \subseteq Range(input.p.voters)
                   PROVE  accepted
      BY Zenon DEF NobodyRefused
    <2> DEFINE d == input.d
               p == input.p
               limit == dataProvidersThreshold(d, p)
               counted == WeightOfSigners(input.signers, p)
    <2>1. d \in Requests /\ p \in ActivePolicies
          /\ (accepted <=> Admitted(d, input.signers, p))
      BY <2>0, JudgedInput, Zenon
    <2>2. Signed \in Nat /\ Total \in Nat /\ TotalWeight(p) = Total
          /\ counted = Signed
      <3>1. Total < WeightMod
        BY <2>0
      <3> QED BY <2>1, <3>1, WeightsTyped DEF Signed, Total
    <2>3. d.thresholdBIPS >= 5000 /\ d.thresholdBIPS < maxBIPS
          /\ d.thresholdBIPS \in Nat
      BY <2>0, <2>1, AdmissionAssumption DEF maxBIPS
    <2>4. limit = computeThreshold(Total, d.thresholdBIPS)
      <3>1. limit = override(d, p)
        BY <2>0, Zenon DEF Overridden, dataProvidersThreshold
      <3> QED BY <2>1, <2>2, <2>3, <3>1, OverrideGuarded
    <2>5. limit \in Nat /\ counted > limit
      <3>2. Signed * maxBIPS > Total * d.thresholdBIPS /\ Total < WeightMod
        BY <2>0, Zenon
      <3>3. Signed > computeThreshold(Total, d.thresholdBIPS)
            /\ computeThreshold(Total, d.thresholdBIPS) \in Nat
        BY <2>2, <2>3, <3>2, ShareRounded
      <3> QED BY <2>2, <2>4, <3>3
    <2>6. limit # Failed
      BY <2>5 DEF Failed
    <2>7. checkCosigners(input.signers, d.cosigners, d.cosignersThreshold)
      <3>1. d.cosigners \in Seq(Addresses) /\ d.cosignersThreshold = 0
        BY <2>0, <2>1, AdmissionAssumption
      <3>2. IsFiniteSet(DOMAIN d.cosigners)
        BY <3>1, ListFinite
      <3> DEFINE at == {j \in DOMAIN d.cosigners :
                           d.cosigners[j] \in Range(input.signers)}
      <3>3. at \in SUBSET DOMAIN d.cosigners
        OBVIOUS
      <3> HIDE DEF at
      <3>4. Cardinality(at) \in Nat
        BY <3>2, <3>3, FS_Subset, FS_CardinalityType
      <3> QED BY <3>1, <3>4 DEF checkCosigners, at
    <2>8. /\ signaturesToSigners(input.signers)
          /\ ~HasDuplicateAddresses(d.cosigners)
          /\ Range(input.signers) \subseteq
                Range(d.cosigners) \cup Range(p.voters)
      BY <2>0, Zenon DEF signaturesToSigners
    <2>9. CheckThresholds(d, input.signers, p)
      BY <2>5, <2>6, <2>7, <2>8 DEF CheckThresholds
    <2> QED BY <2>1, <2>8, <2>9 DEF Admitted
  <1> QED BY <1>1, JudgedAlways, PTL

\* An FDC2 override never does without a majority, of the policy's TotalWeight
\* (its total modulo 2^16) or of the cosigners.
THEOREM MajorityIsSomewhere == AdmissionSpec => []MajoritySomewhere
  <1>1. Judged => MajoritySomewhere
    <2> SUFFICES ASSUME Judged, accepted, Overridden
                 PROVE  \/ 2 * Signed > TotalWeight(input.p)
                        \/ 2 * Cardinality(CosignersAmong(input.signers,
                                                          input.d.cosigners))
                              > Len(input.d.cosigners)
      BY DEF MajoritySomewhere
    <2> DEFINE d == input.d
               p == input.p
               limit == dataProvidersThreshold(d, p)
               among == Cardinality(CosignersAmong(input.signers, d.cosigners))
               total == TotalWeight(p)
    <2>1. d \in Requests /\ p \in ActivePolicies
          /\ CheckThresholds(d, input.signers, p)
      BY JudgedInput DEF Admitted
    <2>2. /\ Signed \in Nat /\ total \in Nat /\ total < WeightMod
          /\ WeightOfSigners(input.signers, p) \in Nat
          /\ WeightOfSigners(input.signers, p) <= Signed
      BY <2>1, WeightsTyped DEF Signed
    <2>3. limit # Failed /\ WeightOfSigners(input.signers, p) > limit
      BY <2>1 DEF CheckThresholds
    <2>4. limit = override(d, p)
      BY DEF Overridden, dataProvidersThreshold
    <2>5. /\ d.thresholdBIPS < maxBIPS
          /\ limit = computeThreshold(total, d.thresholdBIPS)
          /\ \/ d.thresholdBIPS >= 5000
             \/ d.cosignersThreshold * 2 > Len(d.cosigners)
      BY <2>1, <2>3, <2>4, OverrideGuarded
    <2>6. d.thresholdBIPS \in Nat /\ d.cosignersThreshold \in Nat
          /\ Len(d.cosigners) \in Nat
      BY <2>1, AdmissionAssumption
    <2>7. CASE d.thresholdBIPS >= 5000
      <3> HIDE DEF total
      <3>1. Signed * 10000 > total * d.thresholdBIPS
        <4>1. /\ computeThreshold(total, d.thresholdBIPS) \in Nat
              /\ Signed > computeThreshold(total, d.thresholdBIPS)
                   <=> Signed * 10000 > total * d.thresholdBIPS
          BY <2>2, <2>5, <2>6, ShareRounded DEF maxBIPS
        <4> QED BY <2>2, <2>3, <2>5, <4>1
      <3>2. total * d.thresholdBIPS >= total * 5000
        <4>1. \A a, b \in Nat : b >= 5000 => a * b >= a * 5000
          OBVIOUS
        <4> QED BY <2>2, <2>6, <2>7, <4>1
      <3>3. total * d.thresholdBIPS \in Nat
        BY <2>2, <2>6
      <3>4. 2 * Signed > total
        BY <2>2, <3>1, <3>2, <3>3
      <3> QED BY <3>4 DEF total
    <2>8. CASE d.cosignersThreshold * 2 > Len(d.cosigners)
      <3>1. among \in Nat /\ among >= d.cosignersThreshold
        BY <2>1, CosignersEnough
      <3> QED BY <2>6, <2>8, <3>1
    <2> QED BY <2>5, <2>7, <2>8
  <1> QED BY <1>1, JudgedAlways, PTL

\* What an instruction does with a wallet's key, enough different cosigners of
\* that wallet have signed.
THEOREM WalletCosignersDidSign == AdmissionSpec => []WalletCosignersSigned
  <1>1. Judged => WalletCosignersSigned
    <2> SUFFICES ASSUME Judged, accepted, input.kind = "wallet"
                 PROVE  Cardinality(CosignersAmong(input.signers,
                                                   input.wallet.cosigners))
                           >= input.wallet.threshold
      BY DEF WalletCosignersSigned
    <2> DEFINE d == input.d
               named == CosignersAmong(input.signers, d.cosigners)
               saved == CosignersAmong(input.signers, input.wallet.cosigners)
    <2>1. /\ d \in Requests /\ CheckThresholds(d, input.signers, input.p)
          /\ input.wallet \in Wallets
          /\ Range(d.cosigners) \subseteq Range(input.wallet.cosigners)
          /\ d.cosignersThreshold = input.wallet.threshold
      BY JudgedInput DEF Admitted, CheckMatchingCosigners
    <2>2. IsFiniteSet(named) /\ Cardinality(named) \in Nat
          /\ Cardinality(named) >= input.wallet.threshold
      BY <2>1, CosignersEnough
    <2>3. named \subseteq saved
      BY <2>1 DEF CosignersAmong
    <2>4. IsFiniteSet(saved)
      <3>1. input.wallet.cosigners \in Seq(Addresses)
        BY <2>1, AdmissionAssumption
      <3>2. IsFiniteSet(Range(input.wallet.cosigners))
        <4> DEFINE s == input.wallet.cosigners
        <4>1. IsFiniteSet(DOMAIN s)
          BY <3>1, ListFinite
        <4>2. s \in Surjection(DOMAIN s, Range(s))
          BY <3>1 DEF Surjection, Range
        <4> QED BY <4>1, <4>2, FS_Surjection
      <3> QED BY <3>2, FS_Intersection DEF CosignersAmong
    <2>5. Cardinality(saved) \in Nat /\ Cardinality(named) <= Cardinality(saved)
      BY <2>3, <2>4, FS_Subset, FS_CardinalityType
    <2>6. input.wallet.threshold \in Nat
      BY <2>1, AdmissionAssumption
    <2> QED BY <2>2, <2>5, <2>6
  <1> QED BY <1>1, JudgedAlways, PTL

-----------------------------------------------------------------------------
(* The storage of signing policies. *)

HasPolicy == active # NoPolicy

EpochAfter(k) == (initialPolicyID + k) % EpochMod

Types == TypeOK /\ reading \in [InfoReaders -> {-1, 0, chainID}]

\* Before the initial policy there is nothing.
Empty ==
    ~HasPolicy => /\ DOMAIN signingPolicies = {}
                  /\ initialPolicyHash = NoHash
                  /\ updates = 0

Initialised ==
    HasPolicy => /\ chainID # 0
                 /\ initialPolicyID \in DOMAIN signingPolicies
                 /\ initialPolicyHash =
                      ChainBoundHash(chainID, signingPolicies[initialPolicyID])
                 /\ active.rewardEpochID \in DOMAIN signingPolicies
                 /\ signingPolicies[active.rewardEpochID] = active

Consecutive ==
    HasPolicy => /\ DOMAIN signingPolicies =
                       {EpochAfter(k) : k \in 0 .. updates}
                 /\ active.rewardEpochID = EpochAfter(updates)

InfosStored ==
    (\E i \in infos : i.initialHash # NoHash) => HasPolicy

IInv == /\ Types /\ Empty /\ Initialised /\ Consecutive /\ ChainOfTrust
        /\ KeysAreOfActive /\ InfosStored /\ InfosTellOfStored

----------------------------------------------------------------------------
(* Epochs modulo their number. *)

\* Steps of less than a whole turn.
LEMMA ModTurn ==
  ASSUME NEW m \in Nat \ {0}, NEW a \in 0 .. m - 1, NEW k \in 0 .. m
  PROVE  (a + k) % m = IF a + k < m THEN a + k ELSE a + k - m
  <1>1. CASE a + k < m
    BY <1>1
  <1>2. CASE a + k >= m
    <2>1. a + k - m \in 0 .. m - 1
      BY <1>2
    <2>2. a + k = m * 1 + (a + k - m)
      OBVIOUS
    <2> QED BY <1>2, <2>1, <2>2
  <1> QED BY <1>1, <1>2

LEMMA EpochFacts ==
  ASSUME NEW i \in Epochs, NEW k \in 0 .. MaxUpdates
  PROVE  /\ (i + k) % EpochMod \in Epochs
         /\ k = 0 => (i + k) % EpochMod = i
         /\ (((i + k) % EpochMod) + 1) % EpochMod = (i + (k + 1)) % EpochMod
         /\ \A j \in 0 .. MaxUpdates :
               j # k => (i + j) % EpochMod # (i + k) % EpochMod
  <1>1. EpochMod \in Nat \ {0} /\ MaxUpdates \in Nat /\ MaxUpdates < EpochMod
    BY PolicyAssumption
  <1>2. i \in 0 .. EpochMod - 1
    BY DEF Epochs
  <1>3. \A j \in 0 .. EpochMod : (i + j) % EpochMod =
           IF i + j < EpochMod THEN i + j ELSE i + j - EpochMod
    BY <1>1, <1>2, ModTurn
  <1>4. k \in 0 .. EpochMod /\ k + 1 \in 0 .. EpochMod
    BY <1>1
  <1> DEFINE e == (i + k) % EpochMod
  <1>5. e = IF i + k < EpochMod THEN i + k ELSE i + k - EpochMod
    BY <1>3, <1>4
  <1>6. e \in 0 .. EpochMod - 1
    BY <1>1, <1>2, <1>4, <1>5
  <1>7. (e + 1) % EpochMod =
           IF e + 1 < EpochMod THEN e + 1 ELSE e + 1 - EpochMod
    <2>1. 1 \in 0 .. EpochMod
      BY <1>1
    <2> HIDE DEF e
    <2> QED BY <1>1, <1>6, <2>1, ModTurn
  <1>8. (i + (k + 1)) % EpochMod =
           IF i + (k + 1) < EpochMod THEN i + (k + 1)
           ELSE i + (k + 1) - EpochMod
    BY <1>3, <1>4
  <1>9. (e + 1) % EpochMod = (i + (k + 1)) % EpochMod
    <2> HIDE DEF e
    <2>1. (IF e + 1 < EpochMod THEN e + 1 ELSE e + 1 - EpochMod)
            = (IF i + (k + 1) < EpochMod THEN i + (k + 1)
               ELSE i + (k + 1) - EpochMod)
      BY <1>1, <1>2, <1>4, <1>5, <1>6
    <2> QED BY <1>7, <1>8, <2>1
  <1>10. ASSUME NEW j \in 0 .. MaxUpdates, j # k
         PROVE  (i + j) % EpochMod # (i + k) % EpochMod
    <2>1. (i + j) % EpochMod =
             IF i + j < EpochMod THEN i + j ELSE i + j - EpochMod
      BY <1>1, <1>3, <1>10
    <2> HIDE DEF e
    <2>2. (IF i + j < EpochMod THEN i + j ELSE i + j - EpochMod) # e
      BY <1>1, <1>2, <1>5, <1>10
    <2> QED BY <2>1, <2>2 DEF e
  <1>11. k = 0 => e = i
    <2> HIDE DEF e
    <2> QED BY <1>1, <1>2, <1>5
  <1> QED BY <1>6, <1>9, <1>10, <1>11 DEF Epochs

\* The epoch before the one after e is e.
LEMMA PreviousOfNext ==
  ASSUME NEW e \in Epochs
  PROVE  PreviousEpoch((e + 1) % EpochMod) = e
  <1>1. EpochMod \in Nat \ {0} /\ e \in 0 .. EpochMod - 1
    BY PolicyAssumption DEF Epochs
  <1>2. (e + 1) % EpochMod = IF e + 1 < EpochMod THEN e + 1
                             ELSE e + 1 - EpochMod
    <2>1. 1 \in 0 .. EpochMod
      BY <1>1
    <2> QED BY <1>1, <2>1, ModTurn
  <1> DEFINE n == (e + 1) % EpochMod
  <1>3. n \in 0 .. EpochMod - 1
    BY <1>1, <1>2
  <1> HIDE DEF n
  <1>4. (n + (EpochMod - 1)) % EpochMod =
           IF n + (EpochMod - 1) < EpochMod THEN n + (EpochMod - 1)
           ELSE n + (EpochMod - 1) - EpochMod
    <2>1. EpochMod - 1 \in 0 .. EpochMod
      BY <1>1
    <2> QED BY <1>1, <1>3, <2>1, ModTurn
  <1>5. n + EpochMod - 1 = n + (EpochMod - 1)
    BY <1>1, <1>3
  <1>6. (n + (EpochMod - 1)) % EpochMod = e
    BY <1>1, <1>2, <1>3, <1>4 DEF n
  <1>7. PreviousEpoch(n) = e
    BY <1>5, <1>6 DEF PreviousEpoch
  <1> QED BY <1>7 DEF n

----------------------------------------------------------------------------
LEMMA PolicyTyped ==
  ASSUME NEW p \in Policies
  PROVE  /\ p.rewardEpochID \in Epochs
         /\ p.voters \in Seq(Signers)
         /\ p.weights \in [DOMAIN p.voters -> Nat]
         /\ p.threshold \in Nat
         /\ Range(p.voters) \subseteq Signers
         /\ p # NoPolicy
  <1>1. IsPolicy(p) /\ EpochMod \in Nat
    BY PolicyAssumption
  <1>2. WeightMod \in Nat
    BY WeightAssumption
  <1>3. /\ p.rewardEpochID \in Epochs
        /\ p.voters \in Seq(Signers)
        /\ p.threshold \in Nat
    BY <1>1, <1>2 DEF IsPolicy
  <1>4. p.weights \in [DOMAIN p.voters -> Nat]
    BY <1>1, <1>2 DEF IsPolicy
  <1>5. Range(p.voters) \subseteq Signers
    BY <1>3 DEF Range
  <1>6. p # NoPolicy
    BY <1>1, <1>3 DEF NoPolicy, Epochs
  <1> QED BY <1>3, <1>4, <1>5, <1>6

LEMMA NoPolicyFields ==
  /\ NoPolicy.rewardEpochID = -1
  /\ Range(NoPolicy.voters) = {}
  BY DEF NoPolicy, Range

LEMMA InitIInv == Init => IInv
  <1> SUFFICES ASSUME Init PROVE IInv
    OBVIOUS
  <1>1. DOMAIN signingPolicies = {} /\ DOMAIN approvals = {}
    BY DEF Init, EmptyMap
  <1>2. 0 \in Epochs /\ 0 \in 0 .. MaxUpdates
    BY PolicyAssumption DEF Epochs
  <1>3. Types
    BY <1>1, <1>2 DEF Init, Types, TypeOK
  <1>4. Empty /\ Initialised /\ Consecutive
    BY <1>1 DEF Init, Empty, Initialised, Consecutive, HasPolicy
  <1>5. ChainOfTrust
    BY <1>1 DEF ChainOfTrust
  <1>6. KeysAreOfActive
    BY NoPolicyFields DEF Init, KeysAreOfActive
  <1>7. InfosStored /\ InfosTellOfStored
    BY DEF Init, InfosStored, InfosTellOfStored
  <1> QED BY <1>3, <1>4, <1>5, <1>6, <1>7 DEF IInv

----------------------------------------------------------------------------
(* The steps that leave the storage alone. *)

LEMMA SetChainIDIInv ==
  ASSUME IInv, NEW c \in ChainIDs, SetChainID(c)
  PROVE  IInv'
  <1>1. UNCHANGED <<active, activePublicKeys, signingPolicies,
                    initialPolicyID, initialPolicyHash, reading, infos,
                    approvals, updates>>
    BY DEF SetChainID, storage
  <1>2. ~HasPolicy
    BY DEF IInv, Initialised, SetChainID
  <1>3. Types'
    BY <1>1 DEF IInv, Types, TypeOK, SetChainID
  <1>4. (Empty /\ Initialised /\ Consecutive)'
    BY <1>1, <1>2
    DEF IInv, Empty, Initialised, Consecutive, HasPolicy, EpochAfter
  <1>5. (ChainOfTrust /\ KeysAreOfActive)'
    BY <1>1 DEF IInv, ChainOfTrust, KeysAreOfActive
  <1>6. (InfosStored /\ InfosTellOfStored)'
    BY <1>1, <1>2 DEF IInv, InfosStored, InfosTellOfStored, HasPolicy
  <1> QED BY <1>3, <1>4, <1>5, <1>6 DEF IInv

LEMMA ReadIInv ==
  ASSUME IInv, NEW r \in InfoReaders, TEEInfoRead(r)
  PROVE  IInv'
  <1>1. UNCHANGED <<active, activePublicKeys, signingPolicies,
                    initialPolicyID, initialPolicyHash, chainID, infos,
                    approvals, updates>>
    BY DEF TEEInfoRead, storage
  <1>2. Types'
    BY <1>1 DEF IInv, Types, TypeOK, TEEInfoRead
  <1>3. (Empty /\ Initialised /\ Consecutive)'
    BY <1>1 DEF IInv, Empty, Initialised, Consecutive, HasPolicy, EpochAfter
  <1>4. (ChainOfTrust /\ KeysAreOfActive)'
    BY <1>1 DEF IInv, ChainOfTrust, KeysAreOfActive
  <1>5. (InfosStored /\ InfosTellOfStored)'
    BY <1>1 DEF IInv, InfosStored, InfosTellOfStored, HasPolicy
  <1> QED BY <1>2, <1>3, <1>4, <1>5 DEF IInv

LEMMA RespondIInv ==
  ASSUME IInv, NEW r \in InfoReaders, TEEInfoRespond(r)
  PROVE  IInv'
  <1>1. UNCHANGED <<active, activePublicKeys, signingPolicies,
                    initialPolicyID, initialPolicyHash, chainID, approvals,
                    updates>>
    BY DEF TEEInfoRespond, storage
  <1>2. Types'
    BY <1>1 DEF IInv, Types, TypeOK, TEEInfoRespond
  <1>3. (Empty /\ Initialised /\ Consecutive)'
    BY <1>1 DEF IInv, Empty, Initialised, Consecutive, HasPolicy, EpochAfter
  <1>4. (ChainOfTrust /\ KeysAreOfActive)'
    BY <1>1 DEF IInv, ChainOfTrust, KeysAreOfActive
  <1>5. PICK new : new = Info(reading[r])
    OBVIOUS
  <1>6. infos' = infos \cup {new}
    BY <1>5 DEF TEEInfoRespond
  <1>7. new.initialHash = initialPolicyHash /\ new.initialID = initialPolicyID
    BY <1>5 DEF Info
  <1>8. new.initialHash # NoHash => HasPolicy
    BY <1>7 DEF IInv, Empty
  <1>9. HasPolicy => /\ new.activeID = active.rewardEpochID
                     /\ new.activeHash = ChainBoundHash(reading[r], active)
    BY <1>5 DEF Info, HasPolicy
  <1>10. reading[r] \in {0, chainID}
    BY DEF TEEInfoRespond, IInv, Types
  <1>11. HasPolicy =>
           /\ {new.initialID, new.activeID} \subseteq DOMAIN signingPolicies
           /\ new.initialHash = ChainBoundHash(chainID,
                                    signingPolicies[new.initialID])
           /\ new.activeHash \in
                 {ChainBoundHash(c, signingPolicies[new.activeID]) :
                     c \in {0, chainID}}
    BY <1>7, <1>9, <1>10 DEF IInv, Initialised
  <1>12. InfosStored'
    BY <1>1, <1>6, <1>8 DEF IInv, InfosStored, HasPolicy
  <1>13. InfosTellOfStored'
    BY <1>1, <1>6, <1>8, <1>11 DEF IInv, InfosTellOfStored
  <1> QED BY <1>2, <1>3, <1>4, <1>12, <1>13 DEF IInv

----------------------------------------------------------------------------
(* The two steps that store a policy. *)

\* A policy filed under an epoch that was not stored leaves the others alone.
LEMMA PutNew ==
  ASSUME IInv, NEW p \in Policies, SetActiveSigningPolicy(p)
  PROVE  /\ active' = p
         /\ DOMAIN signingPolicies' =
               DOMAIN signingPolicies \cup {p.rewardEpochID}
         /\ signingPolicies'[p.rewardEpochID] = p
         /\ \A e \in DOMAIN signingPolicies :
               e # p.rewardEpochID =>
                  signingPolicies'[e] = signingPolicies[e]
         /\ HasPolicy'
  BY PolicyTyped DEF SetActiveSigningPolicy, Put, HasPolicy

\* What was attested of stored policies stays true if they stay.
LEMMA InfosStay ==
  ASSUME IInv, UNCHANGED <<chainID, infos>>,
         \A e \in DOMAIN signingPolicies :
            /\ e \in DOMAIN signingPolicies'
            /\ signingPolicies'[e] = signingPolicies[e]
  PROVE  InfosTellOfStored'
  BY DEF IInv, InfosTellOfStored

\* Keys that pass are those of the voters.
LEMMA KeysOfVoters ==
  ASSUME NEW p \in Policies, NEW keys \in {q.voters : q \in Policies},
         processPolicyPublicKeys(keys, p)
  PROVE  Range(keys) = Range(p.voters)
  <1>1. p.voters \in Seq(Signers) /\ keys \in Seq(Signers)
    BY PolicyTyped
  <1>2. /\ DOMAIN keys = DOMAIN p.voters
        /\ \A i \in DOMAIN keys : keys[i] = p.voters[i]
    BY <1>1 DEF processPolicyPublicKeys
  <1> QED BY <1>2 DEF Range

LEMMA InitializeIInv ==
  ASSUME IInv, NEW p \in Policies, NEW keys \in {q.voters : q \in Policies},
         InitializePolicy(p, keys)
  PROVE  IInv'
  <1>1. /\ SetActiveSigningPolicy(p)
        /\ activePublicKeys' = Range(p.voters)
        /\ initialPolicyID' = p.rewardEpochID
        /\ initialPolicyHash' = ChainBoundHash(chainID, p)
        /\ chainID # 0 /\ ~HasPolicy
        /\ UNCHANGED <<chainID, reading, infos, approvals, updates>>
    BY KeysOfVoters DEF InitializePolicy, SetInitialPolicy,
                        SetActiveSigningPolicyPublicKeys, HasPolicy
  <1>2. /\ DOMAIN signingPolicies = {} /\ updates = 0
    BY <1>1 DEF IInv, Empty
  <1>3. /\ active' = p
        /\ DOMAIN signingPolicies' = {p.rewardEpochID}
        /\ signingPolicies'[p.rewardEpochID] = p
        /\ HasPolicy'
    BY <1>1, <1>2, PutNew
  <1>4. Types'
    BY <1>1, <1>3, PolicyTyped DEF IInv, Types, TypeOK
  <1>5. (Empty /\ Initialised)'
    BY <1>1, <1>3 DEF Empty, Initialised
  <1>6. Consecutive'
    <2>1. EpochAfter(0)' = p.rewardEpochID
      BY <1>1, PolicyTyped, EpochFacts, PolicyAssumption DEF EpochAfter
    <2>2. 0 .. updates' = {0}
      BY <1>1, <1>2
    <2> QED BY <1>1, <1>2, <1>3, <2>1, <2>2 DEF Consecutive
  <1>7. ChainOfTrust'
    BY <1>1, <1>3 DEF ChainOfTrust
  <1>8. KeysAreOfActive'
    BY <1>1, <1>3 DEF KeysAreOfActive
  <1>9. InfosStored'
    BY <1>3 DEF InfosStored
  <1>10. InfosTellOfStored'
    BY <1>1, <1>2, InfosStay
  <1> QED BY <1>4, <1>5, <1>6, <1>7, <1>8, <1>9, <1>10 DEF IInv

\* The epoch of an accepted update is not stored yet.
LEMMA UpdateIsNew ==
  ASSUME IInv, NEW p \in Policies, NEW signers, NEW keys,
         UpdatePolicy(p, signers, keys)
  PROVE  /\ HasPolicy /\ active \in Policies
         /\ p.rewardEpochID = (active.rewardEpochID + 1) % EpochMod
         /\ p.rewardEpochID = EpochAfter(updates + 1)
         /\ p.rewardEpochID \notin DOMAIN signingPolicies
         /\ updates \in Nat /\ updates + 1 \in 0 .. MaxUpdates
  <1>1. /\ HasPolicy /\ updates < MaxUpdates
        /\ p.rewardEpochID = (active.rewardEpochID + 1) % EpochMod
    BY DEF UpdatePolicy, processUpdatePolicyRequest, epochFollows, HasPolicy
  <1>2. /\ initialPolicyID \in Epochs /\ updates \in 0 .. MaxUpdates
        /\ active \in Policies
    BY <1>1 DEF IInv, Types, TypeOK, HasPolicy
  <1>3. updates \in Nat /\ updates + 1 \in 0 .. MaxUpdates
    BY <1>1, <1>2, PolicyAssumption
  <1>4. /\ DOMAIN signingPolicies = {EpochAfter(k) : k \in 0 .. updates}
        /\ active.rewardEpochID = EpochAfter(updates)
    BY <1>1 DEF IInv, Consecutive
  <1>5. p.rewardEpochID = EpochAfter(updates + 1)
    BY <1>1, <1>2, <1>4, EpochFacts DEF EpochAfter
  <1>6. \A k \in 0 .. updates : EpochAfter(k) # EpochAfter(updates + 1)
    <2> TAKE k \in 0 .. updates
    <2>1. k \in 0 .. MaxUpdates /\ k # updates + 1
      BY <1>2, <1>3, PolicyAssumption
    <2> QED BY <1>2, <1>3, <2>1, EpochFacts DEF EpochAfter
  <1> QED BY <1>1, <1>2, <1>3, <1>4, <1>5, <1>6

LEMMA UpdateIInv ==
  ASSUME IInv, NEW p \in Policies, NEW signers,
         NEW keys \in {q.voters : q \in Policies},
         UpdatePolicy(p, signers, keys)
  PROVE  IInv'
  <1>1. /\ SetActiveSigningPolicy(p)
        /\ activePublicKeys' = Range(p.voters)
        /\ updates' = updates + 1
        /\ approvals' = Put(approvals, p.rewardEpochID, Range(signers))
        /\ signedByVoters(p, signers)
        /\ UNCHANGED <<initialPolicyID, initialPolicyHash, chainID, reading,
                       infos>>
    BY KeysOfVoters DEF UpdatePolicy, SetActiveSigningPolicyPublicKeys,
                        processUpdatePolicyRequest
  <1>2. PICK new : new = p.rewardEpochID
    OBVIOUS
  <1>3. /\ HasPolicy /\ active \in Policies
        /\ new = (active.rewardEpochID + 1) % EpochMod
        /\ new = EpochAfter(updates + 1)
        /\ new \notin DOMAIN signingPolicies
        /\ updates \in Nat /\ updates + 1 \in 0 .. MaxUpdates
    BY <1>2, UpdateIsNew
  <1>4. /\ active' = p
        /\ DOMAIN signingPolicies' = DOMAIN signingPolicies \cup {new}
        /\ signingPolicies'[new] = p
        /\ \A e \in DOMAIN signingPolicies :
              signingPolicies'[e] = signingPolicies[e]
        /\ HasPolicy'
    BY <1>1, <1>2, <1>3, PutNew
  <1>5. new \in Epochs /\ Range(p.voters) \subseteq Signers
    BY <1>2, PolicyTyped
  <1>6. /\ DOMAIN approvals' = DOMAIN approvals \cup {new}
        /\ approvals'[new] = Range(signers)
        /\ \A e \in DOMAIN approvals : e # new => approvals'[e] = approvals[e]
    BY <1>1, <1>2 DEF Put
  <1>7. Types'
    BY <1>1, <1>2, <1>3, <1>4, <1>5, <1>6 DEF IInv, Types, TypeOK
  <1>8. (Empty /\ Initialised)'
    BY <1>1, <1>2, <1>3, <1>4 DEF IInv, Empty, Initialised
  <1>9. Consecutive'
    <2>1. 0 .. updates' = (0 .. updates) \cup {updates + 1}
      BY <1>1, <1>3
    <2>2. \A k : EpochAfter(k)' = EpochAfter(k)
      BY <1>1 DEF EpochAfter
    <2>3. DOMAIN signingPolicies = {EpochAfter(k) : k \in 0 .. updates}
      BY <1>3 DEF IInv, Consecutive
    <2>4. DOMAIN signingPolicies' = {EpochAfter(k) : k \in 0 .. updates'}
      BY <1>3, <1>4, <2>1, <2>3
    <2> QED BY <1>1, <1>2, <1>3, <1>4, <2>2, <2>4 DEF Consecutive, EpochAfter
  <1>10. KeysAreOfActive'
    BY <1>1, <1>4 DEF KeysAreOfActive
  <1>11. InfosStored'
    BY <1>4 DEF InfosStored
  <1>12. InfosTellOfStored'
    BY <1>1, <1>4, InfosStay
  <1>13. ChainOfTrust'
    <2>1. active.rewardEpochID \in DOMAIN signingPolicies
          /\ signingPolicies[active.rewardEpochID] = active
          /\ initialPolicyID \in DOMAIN signingPolicies
      BY <1>3 DEF IInv, Initialised
    <2>2. PreviousEpoch(new) = active.rewardEpochID
      BY <1>3, PolicyTyped, PreviousOfNext
    <2>3. Range(signers) \subseteq Range(active.voters)
          /\ WeightOfSigners(signers, active) > active.threshold
      BY <1>1 DEF signedByVoters
    <2> DEFINE Backers(q, S) == {i \in DOMAIN q.voters : q.voters[i] \in S}
    <2>4. Weight(active, Backers(active, Range(signers))) > active.threshold
      <3>1. /\ active.voters \in Seq(Signers)
            /\ active.weights \in [DOMAIN active.voters -> Nat]
            /\ active.threshold \in Nat
        BY <1>3, PolicyTyped
      <3>2. Backers(active, Range(signers)) = VotersIn(active, signers)
        BY DEF VotersIn
      <3> DEFINE T == VotersIn(active, signers)
      <3>3. Weight(active, T) \in Nat
        <4>1. /\ IsFiniteSet(DOMAIN active.voters)
              /\ T \in SUBSET DOMAIN active.voters
              /\ \A k \in DOMAIN active.voters : active.weights[k] \in Nat
          BY <3>1, FS_Interval DEF VotersIn
        <4>2. Weight(active, T) = SumOf(active.weights, T)
          BY Zenon DEF Weight, SumOf
        <4> HIDE DEF T
        <4>3. SumOf(active.weights, T) \in Nat
          BY <4>1, SumSplit
        <4> QED BY <4>2, <4>3
      <3>4. Weight(active, T) > active.threshold
        <4>1. WeightOfSigners(signers, active) = Weight(active, T) % WeightMod
          BY DEF WeightOfSigners
        <4> HIDE DEF T
        <4>2. Weight(active, T) % WeightMod \in Nat
              /\ Weight(active, T) % WeightMod <= Weight(active, T)
          BY <3>3, WeightAssumption, ModBound
        <4> QED BY <2>3, <3>1, <3>3, <4>1, <4>2
      <3> QED BY <3>2, <3>4
    <2> DEFINE Trusted(e, sp, ap) ==
                 /\ e \in DOMAIN ap
                 /\ PreviousEpoch(e) \in DOMAIN sp
                 /\ ap[e] \subseteq Range(sp[PreviousEpoch(e)].voters)
                 /\ Weight(sp[PreviousEpoch(e)],
                           Backers(sp[PreviousEpoch(e)], ap[e]))
                       > sp[PreviousEpoch(e)].threshold
    <2>5. \A e \in DOMAIN signingPolicies \ {initialPolicyID} :
             Trusted(e, signingPolicies, approvals)
      BY DEF IInv, ChainOfTrust
    <2>6. Trusted(new, signingPolicies', approvals')
      BY <1>4, <1>6, <2>1, <2>2, <2>3, <2>4
    <2>7. ASSUME NEW e \in DOMAIN signingPolicies \ {initialPolicyID}
          PROVE  Trusted(e, signingPolicies', approvals')
      <3>1. Trusted(e, signingPolicies, approvals)
        BY <2>5
      <3>2. e # new
        BY <1>3
      <3>3. approvals'[e] = approvals[e] /\ e \in DOMAIN approvals'
        BY <1>6, <3>1, <3>2
      <3>4. /\ PreviousEpoch(e) \in DOMAIN signingPolicies'
            /\ signingPolicies'[PreviousEpoch(e)]
                  = signingPolicies[PreviousEpoch(e)]
        BY <1>4, <3>1
      <3> QED BY <3>1, <3>3, <3>4
    <2>8. \A e \in DOMAIN signingPolicies' \ {initialPolicyID'} :
             Trusted(e, signingPolicies', approvals')
      <3> HIDE DEF Trusted
      <3> QED BY <1>1, <1>4, <2>6, <2>7
    <2> QED BY <2>8 DEF ChainOfTrust, PreviousEpoch
  <1> QED BY <1>7, <1>8, <1>9, <1>10, <1>11, <1>12, <1>13 DEF IInv

----------------------------------------------------------------------------
LEMMA StutterIInv == ASSUME IInv, UNCHANGED vars PROVE IInv'
  <1>1. /\ UNCHANGED <<active, activePublicKeys, signingPolicies>>
        /\ UNCHANGED <<initialPolicyID, initialPolicyHash, chainID>>
        /\ UNCHANGED <<reading, infos, approvals, updates>>
    BY DEF vars, storage
  <1>2. Types'
    BY <1>1 DEF IInv, Types, TypeOK
  <1>3. (Empty /\ Initialised)'
    BY <1>1 DEF IInv, Empty, Initialised, HasPolicy
  <1>4. Consecutive'
    BY <1>1 DEF IInv, Consecutive, HasPolicy, EpochAfter
  <1>5. ChainOfTrust'
    BY <1>1 DEF IInv, ChainOfTrust
  <1>6. (KeysAreOfActive /\ InfosStored)'
    BY <1>1 DEF IInv, KeysAreOfActive, InfosStored, HasPolicy
  <1>7. InfosTellOfStored'
    BY <1>1 DEF IInv, InfosTellOfStored
  <1> QED BY <1>2, <1>3, <1>4, <1>5, <1>6, <1>7 DEF IInv

LEMMA NextIInv == IInv /\ [Next]_vars => IInv'
  <1> SUFFICES ASSUME IInv, [Next]_vars PROVE IInv'
    OBVIOUS
  <1>1. ASSUME NEW c \in ChainIDs, SetChainID(c) PROVE IInv'
    BY <1>1, SetChainIDIInv
  <1>2. ASSUME NEW p \in Policies, NEW keys \in {q.voters : q \in Policies},
               InitializePolicy(p, keys)
        PROVE  IInv'
    BY <1>2, InitializeIInv
  <1>3. ASSUME NEW p \in Policies, NEW keys \in {q.voters : q \in Policies},
               NEW signers, UpdatePolicy(p, signers, keys)
        PROVE  IInv'
    BY <1>3, UpdateIInv
  <1>4. ASSUME NEW r \in InfoReaders, TEEInfoRead(r) PROVE IInv'
    BY <1>4, ReadIInv
  <1>5. ASSUME NEW r \in InfoReaders, TEEInfoRespond(r) PROVE IInv'
    BY <1>5, RespondIInv
  <1>6. CASE UNCHANGED vars
    BY <1>6, StutterIInv
  <1> QED BY <1>1, <1>2, <1>3, <1>4, <1>5, <1>6 DEF Next

LEMMA Invariance == Spec => []IInv
  BY InitIInv, NextIInv, PTL DEF Spec

\* The state has its type: every stored policy is filed under its own epoch.
THEOREM TypeCorrect == Spec => []TypeOK
  <1>1. IInv => TypeOK
    BY DEF IInv, Types
  <1> QED BY <1>1, Invariance, PTL

\* Every stored policy but the initial one was admitted by the voters of the
\* one before it, with more than its threshold of exact weight, although
\* UPDATE_POLICY adds the weights up modulo 2^16.
THEOREM TrustIsChained == Spec => []ChainOfTrust
  <1>1. IInv => ChainOfTrust
    BY DEF IInv
  <1> QED BY <1>1, Invariance, PTL

\* The stored public keys are those of the active policy's voters, whatever keys
\* are submitted with a policy.
THEOREM KeysOfActivePolicy == Spec => []KeysAreOfActive
  <1>1. IInv => KeysAreOfActive
    BY DEF IInv
  <1> QED BY <1>1, Invariance, PTL

\* What a TEE_INFO attested, read in two parts, belongs together and to stored
\* policies, for ever.
THEOREM InfosAreOfStored == Spec => []InfosTellOfStored
  <1>1. IInv => InfosTellOfStored
    BY DEF IInv
  <1> QED BY <1>1, Invariance, PTL

----------------------------------------------------------------------------
(* What a step does to the storage. *)

LEMMA StepKinds ==
  ASSUME IInv, [Next]_vars
  PROVE  \/ UNCHANGED <<active, signingPolicies, updates>>
         \/ \E p \in Policies, keys \in {q.voters : q \in Policies} :
               InitializePolicy(p, keys)
         \/ \E p \in Policies, keys \in {q.voters : q \in Policies},
               signers \in Submissions : UpdatePolicy(p, signers, keys)
  BY DEF Next, vars, storage, SetChainID, TEEInfoRead, TEEInfoRespond

\* "When a policy is added in the SigningPolicies map, it is never modified":
\* no step removes or replaces a stored policy.
THEOREM StoredPoliciesDoStay == Spec => StoredPoliciesStay
  <1> DEFINE Stay == \A e \in DOMAIN signingPolicies :
                        /\ e \in DOMAIN signingPolicies'
                        /\ signingPolicies'[e] = signingPolicies[e]
  <1>1. IInv /\ [Next]_vars => Stay
    <2> SUFFICES ASSUME IInv, [Next]_vars PROVE Stay
      OBVIOUS
    <2>1. CASE UNCHANGED <<active, signingPolicies, updates>>
      BY <2>1
    <2>2. ASSUME NEW p \in Policies, NEW keys, InitializePolicy(p, keys)
          PROVE  Stay
      BY <2>2 DEF InitializePolicy, SetInitialPolicy, IInv, Empty, HasPolicy
    <2>3. ASSUME NEW p \in Policies, NEW keys, NEW signers,
                 UpdatePolicy(p, signers, keys)
          PROVE  Stay
      <3>1. p.rewardEpochID \notin DOMAIN signingPolicies
        BY <2>3, UpdateIsNew
      <3>2. SetActiveSigningPolicy(p)
        BY <2>3 DEF UpdatePolicy
      <3> QED BY <3>1, <3>2, PutNew
    <2> QED BY <2>1, <2>2, <2>3, StepKinds
  <1>2. IInv /\ [Next]_vars => [Stay]_vars
    BY <1>1
  <1> QED BY <1>2, Invariance, PTL DEF Spec, StoredPoliciesStay

\* The storage implements what the rest of the node relies on: the epochs start
\* with any one and grow by the next one at a time, none is lost.
THEOREM EpochsImplemented == Spec => ImplementsEpochs
  <1>1. Init => Promised!EpochInit
    BY NoPolicyFields
    DEF Init, EmptyMap, Promised!EpochInit, Promised!NoEpoch
  <1>2. IInv /\ [Next]_vars => [Promised!EpochNext]_(Promised!epochVars)
    <2> SUFFICES ASSUME IInv, [Next]_vars
                 PROVE  [Promised!EpochNext]_(Promised!epochVars)
      OBVIOUS
    <2>1. CASE UNCHANGED <<active, signingPolicies, updates>>
      BY <2>1 DEF Promised!epochVars
    <2>2. ASSUME NEW p \in Policies, NEW keys, InitializePolicy(p, keys)
          PROVE  Promised!EpochNext
      <3>1. ~HasPolicy /\ SetActiveSigningPolicy(p) /\ UNCHANGED updates
        BY <2>2 DEF InitializePolicy, SetInitialPolicy, HasPolicy
      <3>2. active.rewardEpochID = -1 /\ DOMAIN signingPolicies = {}
        BY <3>1, NoPolicyFields DEF IInv, Empty, HasPolicy
      <3>3. active' = p /\ DOMAIN signingPolicies' = {p.rewardEpochID}
        BY <3>1, <3>2, PutNew
      <3>4. p.rewardEpochID \in Promised!Epochs
        BY PolicyTyped DEF Epochs, Promised!Epochs
      <3> QED BY <3>1, <3>2, <3>3, <3>4
              DEF Promised!EpochNext, Promised!Initialize, Promised!NoEpoch
    <2>3. ASSUME NEW p \in Policies, NEW keys, NEW signers,
                 UpdatePolicy(p, signers, keys)
          PROVE  Promised!EpochNext
      <3>1. /\ SetActiveSigningPolicy(p) /\ updates < MaxUpdates
            /\ updates' = updates + 1
        BY <2>3 DEF UpdatePolicy
      <3>2. /\ active \in Policies
            /\ p.rewardEpochID = (active.rewardEpochID + 1) % EpochMod
        BY <2>3, UpdateIsNew
      <3>3. active.rewardEpochID # -1
        BY <3>2, PolicyTyped, PolicyAssumption DEF Epochs
      <3>4. active' = p /\ DOMAIN signingPolicies' =
                             DOMAIN signingPolicies \cup {p.rewardEpochID}
        BY <3>1, PutNew
      <3> QED BY <3>1, <3>2, <3>3, <3>4
              DEF Promised!EpochNext, Promised!Advance, Promised!NoEpoch,
                  Promised!NextEpoch
    <2> QED BY <2>1, <2>2, <2>3, StepKinds
  <1> QED BY <1>1, <1>2, Invariance, PTL
          DEF Spec, ImplementsEpochs, Promised!EpochSpec
=============================================================================
