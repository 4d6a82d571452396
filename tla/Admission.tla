----------------------------- MODULE Admission -----------------------------
(***************************************************************************)
(* The admission of an instruction (preprocess), and of one that uses a    *)
(* wallet (loadPrivateKeys): a request, its signers, a policy and a wallet *)
(* are drawn, and the code's verdict is kept, to be compared with what it  *)
(* is meant to establish.                                                  *)
(***************************************************************************)
EXTENDS Authorization

CONSTANTS Addresses,
          Requests,       \* instructions that may arrive
          SignerLists,    \* who may have signed one
          ActivePolicies, \* policies that may be active
          Wallets,        \* [cosigners, threshold] saved with a wallet
          NoInput

ASSUME AdmissionAssumption ==
    /\ \A d \in Requests : /\ d.cosigners \in Seq(Addresses)
                           /\ d.cosignersThreshold \in Nat
                           /\ d.fdc \in BOOLEAN
                           /\ d.thresholdBIPS \in Nat
    /\ \A signers \in SignerLists : signers \in Seq(Addresses)
    /\ \A p \in ActivePolicies :
          /\ p.voters \in Seq(Addresses)
          /\ p.weights \in [DOMAIN p.voters -> 0 .. WeightMod - 1]
          /\ p.threshold \in 0 .. WeightMod - 1
    /\ \A w \in Wallets : w.cosigners \in Seq(Addresses) /\ w.threshold \in Nat

VARIABLES input, accepted

AdmissionInit == input = NoInput /\ accepted = FALSE

\* preprocess recovers the signers and checks the thresholds.
Admitted(d, signers, p) ==
    signaturesToSigners(signers) /\ CheckThresholds(d, signers, p)

Instruct(d, signers, p) ==
    /\ input' = [kind |-> "instruction", d |-> d, signers |-> signers, p |-> p]
    /\ accepted' = Admitted(d, signers, p)

\* An instruction for a wallet must also match the wallet's saved cosigners.
UseWallet(d, signers, p, w) ==
    /\ ~d.fdc
    /\ input' = [kind |-> "wallet", d |-> d, signers |-> signers, p |-> p,
                 wallet |-> w]
    /\ accepted' = /\ Admitted(d, signers, p)
                   /\ CheckMatchingCosigners(d.cosigners, w.cosigners,
                                             d.cosignersThreshold, w.threshold)

\* One instruction is judged.
AdmissionNext ==
    /\ input = NoInput
    /\ \E d \in Requests, signers \in SignerLists, p \in ActivePolicies :
          \/ Instruct(d, signers, p)
          \/ \E w \in Wallets : UseWallet(d, signers, p, w)

admissionVars == <<input, accepted>>

AdmissionSpec == AdmissionInit /\ [][AdmissionNext]_admissionVars

----------------------------------------------------------------------------
(* Properties.                                                             *)

Signed == Weight(input.p, VotersIn(input.p, input.signers))
Total == Weight(input.p, DOMAIN input.p.voters)
Overridden == input.d.fdc /\ input.d.thresholdBIPS # 0

\* CheckThresholds accepts only if the signing voters, each counted once and
\* without wrapping, outweigh the policy's non-zero threshold, or exceed the
\* exact share of TotalWeight an FDC2 override asks for, rounded or not.
\* TotalWeight is a uint16: the share is one of all the weight only in a policy
\* whose weights fit.  If they do not, it is a share of what is left of their
\* sum modulo WeightMod, and a minority gets through: voters with 8 of 9 + 8
\* pass an override of 50% if WeightMod is 16.
QuorumReached ==
    accepted =>
       IF Overridden
       THEN Signed * maxBIPS > TotalWeight(input.p) * input.d.thresholdBIPS
       ELSE Signed > input.p.threshold /\ input.p.threshold > 0

\* Rounding down refuses nobody the exact share would let through (the Relay's
\* rule): in a policy whose weights fit a uint16, voters beyond the share of an
\* override from 50% up to below 100% are enough when no cosigners are asked
\* for.  (If the weights do not fit, those of the signers may wrap to nothing.)
NobodyRefused ==
    /\ input # NoInput
    /\ input.kind = "instruction"
    /\ Overridden
    /\ input.d.thresholdBIPS >= maxBIPS \div 2
    /\ input.d.thresholdBIPS < maxBIPS
    /\ Total < WeightMod
    /\ Signed * maxBIPS > Total * input.d.thresholdBIPS
    /\ input.d.cosignersThreshold = 0
    /\ ~HasDuplicateAddresses(input.d.cosigners)
    /\ ~HasDuplicateAddresses(input.signers)
    /\ Range(input.signers) \subseteq Range(input.p.voters)
    => accepted

\* "One threshold should be above 50%": an override gets by only if more than
\* half of TotalWeight signed, or more than half of the cosigners named did.
\* As in QuorumReached that is half of the voting weight in a policy whose
\* weights fit a uint16, and may be less than half of it in another.
MajoritySomewhere ==
    accepted /\ Overridden =>
       \/ 2 * Signed > TotalWeight(input.p)
       \/ 2 * Cardinality(CosignersAmong(input.signers, input.d.cosigners))
             > Len(input.d.cosigners)

\* CheckThresholds counts the cosigners the instruction itself names; together
\* with CheckMatchingCosigners as many different cosigners of the wallet signed
\* as the wallet's own threshold says, even if its list holds repetitions.
WalletCosignersSigned ==
    accepted /\ input.kind = "wallet" =>
       Cardinality(CosignersAmong(input.signers, input.wallet.cosigners))
          >= input.wallet.threshold
=============================================================================
