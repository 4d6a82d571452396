---------------------------- MODULE RewardEpochs ----------------------------
(***************************************************************************)
(* What the policy storage promises to the rest of the node: the reward    *)
(* epochs whose signing policy is stored, and the active one.  The first   *)
(* policy may be of any epoch; from then on the active epoch moves by one  *)
(* step at a time, modulo the width of a uint32, and no epoch is lost.     *)
(* PolicyStorage implements this specification; WalletProcessor reads the  *)
(* two variables.                                                          *)
(***************************************************************************)
EXTENDS Integers

CONSTANTS EpochMod,        \* 2^32 in the code: RewardEpochID is a uint32
          MaxUpdates       \* bound on the number of policy updates

VARIABLES activeEpoch,     \* epoch of the active policy, or NoEpoch
          storedEpochs,    \* epochs whose policy is in the storage
          updates          \* updates so far (history)

epochVars == <<activeEpoch, storedEpochs, updates>>

NoEpoch == -1
Epochs == 0 .. EpochMod - 1

NextEpoch(e) == (e + 1) % EpochMod

EpochTypeOK == /\ activeEpoch \in Epochs \cup {NoEpoch}
               /\ storedEpochs \subseteq Epochs
               /\ updates \in 0 .. MaxUpdates

EpochInit == /\ activeEpoch = NoEpoch
             /\ storedEpochs = {}
             /\ updates = 0

Initialize(e) == /\ activeEpoch = NoEpoch
                 /\ activeEpoch' = e
                 /\ storedEpochs' = {e}
                 /\ UNCHANGED updates

Advance == /\ activeEpoch # NoEpoch
           /\ updates < MaxUpdates
           /\ activeEpoch' = NextEpoch(activeEpoch)
           /\ storedEpochs' = storedEpochs \cup {NextEpoch(activeEpoch)}
           /\ updates' = updates + 1

EpochNext == Advance \/ \E e \in Epochs : Initialize(e)

EpochSpec == EpochInit /\ [][EpochNext]_epochVars
=============================================================================
