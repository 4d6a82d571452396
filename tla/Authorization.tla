--------------------------- MODULE Authorization ---------------------------
(***************************************************************************)
(* Who may make the node act: the weight of data providers and the count   *)
(* of cosigners an instruction needs (pkg/processorutils), and the weight  *)
(* of a set of signers under a signing policy (internal/policy).  These    *)
(* are pure functions of a request, its signers and a policy.              *)
(*                                                                         *)
(* A policy has voters and weights, two sequences of the same length, and  *)
(* a threshold.  Weights are uint16 and add up modulo WeightMod.           *)
(***************************************************************************)
EXTENDS Integers, Sequences, FiniteSets, SequencesExt

CONSTANTS WeightMod     \* 2^16 in the code

ASSUME WeightAssumption == WeightMod \in Nat \ {0}

maxBIPS == 10000
fdcMinimumThresholdBIPS == 4000

\* The weight of the voters at the given positions of a policy's list.
Weight(p, positions) == MapThenSumSet(LAMBDA i : p.weights[i], positions)

VotersIn(p, signers) ==
    {i \in DOMAIN p.voters : p.voters[i] \in Range(signers)}

\* A signer that is listed twice counts once.
WeightOfSigners(signers, p) == Weight(p, VotersIn(p, signers)) % WeightMod

\* voters.Set.TotalWeight of the shared library, a uint16.
TotalWeight(p) == Weight(p, DOMAIN p.voters) % WeightMod

HasDuplicateAddresses(list) == ~IsInjective(list)

computeThresholdCeil(total, bips) ==
    ((total * bips + maxBIPS - 1) \div maxBIPS) % WeightMod

computeThreshold(total, bips) == ((total * bips) \div maxBIPS) % WeightMod

\* The thresholds are results of calls that may fail: a value, or Failed.
Failed == -1

\* A policy whose threshold is zero taken at its word.
policyThresholdAny(p) == p.threshold

policyThreshold(p) == IF p.threshold = 0 THEN Failed ELSE p.threshold

overrideUnguarded(d, p) == computeThreshold(TotalWeight(p), d.thresholdBIPS)

\* The override an FDC2 request asks for by a non-zero thresholdBIPS.
override(d, p) ==
    IF \/ d.thresholdBIPS < fdcMinimumThresholdBIPS
       \/ /\ d.thresholdBIPS < maxBIPS \div 2
          /\ d.cosignersThreshold * 2 <= Len(d.cosigners)
       \/ d.thresholdBIPS >= maxBIPS
    THEN Failed
    ELSE computeThreshold(TotalWeight(p), d.thresholdBIPS)

dataProvidersThreshold(d, p) ==
    IF d.fdc /\ d.thresholdBIPS # 0 THEN override(d, p) ELSE policyThreshold(p)

CosignersAmong(signers, cosigners) == Range(cosigners) \cap Range(signers)

\* The code walks the list of cosigners, so a repeated one would count twice.
checkCosigners(signers, cosigners, threshold) ==
    Cardinality({j \in DOMAIN cosigners : cosigners[j] \in Range(signers)})
       >= threshold

\* Signatures by the same key are refused before anything is counted.
signaturesToSigners(signers) == ~HasDuplicateAddresses(signers)

\* Without the check on the list of cosigners.
CheckThresholdsRepeated(d, signers, p) ==
    /\ checkCosigners(signers, d.cosigners, d.cosignersThreshold)
    /\ dataProvidersThreshold(d, p) # Failed
    /\ WeightOfSigners(signers, p) > dataProvidersThreshold(d, p)
    /\ Range(signers) \subseteq Range(d.cosigners) \cup Range(p.voters)

CheckThresholds(d, signers, p) ==
    /\ ~HasDuplicateAddresses(d.cosigners)
    /\ checkCosigners(signers, d.cosigners, d.cosignersThreshold)
    /\ dataProvidersThreshold(d, p) # Failed
    /\ WeightOfSigners(signers, p) > dataProvidersThreshold(d, p)
    /\ Range(signers) \subseteq Range(d.cosigners) \cup Range(p.voters)

\* The cosigners an instruction names are those saved with a wallet.
CheckMatchingCosigners(expected, cosigners, expectedThreshold, threshold) ==
    /\ Range(expected) \subseteq Range(cosigners)
    /\ Len(expected) = Len(cosigners)
    /\ expectedThreshold = threshold
=============================================================================
