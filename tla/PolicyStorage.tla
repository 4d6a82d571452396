--------------------------- MODULE PolicyStorage ---------------------------
(***************************************************************************)
(* The signing-policy storage (internal/policy/policy.go), the direct      *)
(* actions that write it (INITIALIZE_POLICY and UPDATE_POLICY in           *)
(* direct/policyutils), and TEE_INFO, which reads the node and then the    *)
(* storage and signs what it found (direct/getutils).                      *)
(*                                                                         *)
(* A policy is a record [rewardEpochID, voters, weights, threshold]; the   *)
(* hash of a policy bound to a chain is the pair of the two.  A signature  *)
(* over a policy is its signer: one that does not verify recovers to an    *)
(* address outside of every policy.  A public key is the address it hashes *)
(* to.                                                                     *)
(***************************************************************************)
EXTENDS Authorization

CONSTANTS Policies,        \* policies that may be submitted
          Signers,         \* addresses that may have signed an update
          MaxSignatures,   \* bound on the signatures of an update
          ChainIDs,        \* chain ids an operator may configure
          InfoReaders,     \* TEE_INFO handlers that may run at once
          EpochMod,        \* 2^32 in the code
          MaxUpdates       \* bound on the number of updates

VARIABLES active,            \* the active policy, or NoPolicy
          activePublicKeys,  \* addresses with a public key in the map
          signingPolicies,   \* stored policies by reward epoch
          initialPolicyID,
          initialPolicyHash, \* NoHash until initialised
          chainID,           \* node: configured chain id, 0 if unset
          reading,           \* TEE_INFO handlers: chain id they have read
          infos,             \* TEE_INFO responses (history)
          approvals,         \* signatures that admitted an epoch (history)
          updates            \* number of updates (history)

storage == <<active, activePublicKeys, signingPolicies, initialPolicyID,
             initialPolicyHash>>
vars == <<storage, chainID, reading, infos, approvals, updates>>

Epochs == 0 .. EpochMod - 1
NoPolicy == [rewardEpochID |-> -1, voters |-> << >>, weights |-> << >>,
             threshold |-> 0]
ChainBoundHash(chain, p) == <<chain, p>>
NoHash == ChainBoundHash(0, NoPolicy)

IsPolicy(p) == /\ p.rewardEpochID \in Epochs
               /\ p.voters \in Seq(Signers)
               /\ p.weights \in [DOMAIN p.voters -> 0 .. WeightMod - 1]
               /\ p.threshold \in 0 .. WeightMod - 1

ASSUME PolicyAssumption == /\ \A p \in Policies : IsPolicy(p)
                           /\ 0 \notin ChainIDs
                           /\ EpochMod \in Nat \ {0}
                           /\ MaxUpdates \in Nat
                           /\ MaxUpdates < EpochMod

Put(m, x, v) == [y \in DOMAIN m \cup {x} |-> IF y = x THEN v ELSE m[y]]
EmptyMap == [x \in {} |-> x]

\* The types of the state; a stored policy is filed under its own epoch.
TypeOK ==
    /\ active \in Policies \cup {NoPolicy}
    /\ activePublicKeys \subseteq Signers
    /\ DOMAIN signingPolicies \subseteq Epochs
    /\ \A e \in DOMAIN signingPolicies :
          /\ signingPolicies[e] \in Policies
          /\ signingPolicies[e].rewardEpochID = e
    /\ initialPolicyID \in Epochs
    /\ chainID \in ChainIDs \cup {0}
    /\ reading \in [InfoReaders -> ChainIDs \cup {0, -1}]
    /\ DOMAIN approvals \subseteq Epochs
    /\ updates \in 0 .. MaxUpdates

Init == /\ active = NoPolicy
        /\ activePublicKeys = {}
        /\ signingPolicies = EmptyMap
        /\ initialPolicyID = 0
        /\ initialPolicyHash = NoHash
        /\ chainID = 0
        /\ reading = [r \in InfoReaders |-> -1]
        /\ infos = {}
        /\ approvals = EmptyMap
        /\ updates = 0

----------------------------------------------------------------------------
\* The config server's SetChainID: once, and not to 0.
SetChainID(c) == /\ chainID = 0
                 /\ chainID' = c
                 /\ UNCHANGED <<storage, reading, infos, approvals, updates>>

\* The policy filed under the epoch it replaces.
SetActiveUnderOld(p) ==
    /\ active' = p
    /\ signingPolicies' = Put(signingPolicies, active.rewardEpochID, p)

SetActiveSigningPolicy(p) ==
    /\ active' = p
    /\ signingPolicies' = Put(signingPolicies, p.rewardEpochID, p)

\* The keys as they were submitted, by address.
SetActiveSigningPolicyPublicKeys(keys) == activePublicKeys' = Range(keys)

SetInitialPolicy(p, keys) ==
    /\ active = NoPolicy
    /\ initialPolicyID' = p.rewardEpochID
    /\ initialPolicyHash' = ChainBoundHash(chainID, p)
    /\ SetActiveSigningPolicy(p)
    /\ SetActiveSigningPolicyPublicKeys(keys)

\* Counting the keys only.
keysCounted(keys, p) == Len(keys) = Len(p.voters)

\* One key for each voter, in voter order.
processPolicyPublicKeys(keys, p) ==
    /\ Len(keys) = Len(p.voters)
    /\ \A i \in DOMAIN keys : keys[i] = p.voters[i]

\* An initial policy is installed as the operator submits it, once.
InitializePolicy(p, keys) ==
    /\ processPolicyPublicKeys(keys, p)
    /\ chainID # 0
    /\ SetInitialPolicy(p, keys)
    /\ UNCHANGED <<chainID, reading, infos, approvals, updates>>

\* Comparing only from below.
epochFollowsLoosely(p) == p.rewardEpochID # active.rewardEpochID

epochFollows(p) == p.rewardEpochID = (active.rewardEpochID + 1) % EpochMod

\* Checking signers against the policy they bring in.
signedByVotersOfNew(p, signers) ==
    /\ Range(signers) \subseteq Range(p.voters)
    /\ WeightOfSigners(signers, p) > p.threshold

\* One signature that is not of an active voter fails the whole update.
signedByVoters(p, signers) ==
    /\ Range(signers) \subseteq Range(active.voters)
    /\ WeightOfSigners(signers, active) > active.threshold

processUpdatePolicyRequest(p, signers) ==
    /\ active # NoPolicy
    /\ epochFollows(p)
    /\ chainID # 0
    /\ signedByVoters(p, signers)

UpdatePolicy(p, signers, keys) ==
    /\ updates < MaxUpdates
    /\ processUpdatePolicyRequest(p, signers)
    /\ processPolicyPublicKeys(keys, p)
    /\ SetActiveSigningPolicy(p)
    /\ SetActiveSigningPolicyPublicKeys(keys)
    /\ approvals' = Put(approvals, p.rewardEpochID, Range(signers))
    /\ updates' = updates + 1
    /\ UNCHANGED <<initialPolicyID, initialPolicyHash, chainID, reading, infos>>

\* TEE_INFO, first part: the node's info, with the chain id as it is now.
TEEInfoRead(r) == /\ reading[r] = -1
                  /\ reading' = [reading EXCEPT ![r] = chainID]
                  /\ UNCHANGED <<storage, chainID, infos, approvals, updates>>

\* The active hash next to the initial id.
InfoInitial(chain) ==
    [initialID |-> initialPolicyID, initialHash |-> initialPolicyHash,
     activeID  |-> initialPolicyID,
     activeHash |-> IF active = NoPolicy THEN initialPolicyHash
                    ELSE ChainBoundHash(chain, active)]

\* Storage.Info: without a policy the (empty) initial id and hash stand for
\* the active ones too.
Info(chain) ==
    [initialID |-> initialPolicyID, initialHash |-> initialPolicyHash,
     activeID  |-> IF active = NoPolicy THEN initialPolicyID
                   ELSE active.rewardEpochID,
     activeHash |-> IF active = NoPolicy THEN initialPolicyHash
                    ELSE ChainBoundHash(chain, active)]

\* TEE_INFO, second part: the storage's info under its read lock.
TEEInfoRespond(r) ==
    /\ reading[r] # -1
    /\ infos' = infos \cup {Info(reading[r])}
    /\ reading' = [reading EXCEPT ![r] = -1]
    /\ UNCHANGED <<storage, chainID, approvals, updates>>

Submissions == UNION {[1 .. n -> Signers] : n \in 0 .. MaxSignatures}

Next ==
    \/ \E c \in ChainIDs : SetChainID(c)
    \/ \E p \in Policies :
          \E keys \in {q.voters : q \in Policies} :
             \/ InitializePolicy(p, keys)
             \/ \E signers \in Submissions : UpdatePolicy(p, signers, keys)
    \/ \E r \in InfoReaders : TEEInfoRead(r) \/ TEEInfoRespond(r)

Spec == Init /\ [][Next]_vars

----------------------------------------------------------------------------
(* Properties.                                                             *)

PreviousEpoch(e) == (e + EpochMod - 1) % EpochMod

\* Every stored policy but the initial one was admitted by voters of the stored
\* policy of the epoch before it, whose weight, added up without wrapping and
\* each voter once, exceeds that policy's threshold.
ChainOfTrust ==
    \A e \in DOMAIN signingPolicies \ {initialPolicyID} :
       /\ e \in DOMAIN approvals
       /\ PreviousEpoch(e) \in DOMAIN signingPolicies
       /\ LET p == signingPolicies[PreviousEpoch(e)]
          IN  /\ approvals[e] \subseteq Range(p.voters)
              /\ Weight(p, {i \in DOMAIN p.voters :
                               p.voters[i] \in approvals[e]}) > p.threshold

\* "When a policy is added in the SigningPolicies map, it is never modified"
\* (policy.go), so a policy read under the lock can be used after it.
StoredPoliciesStay ==
    [][\A e \in DOMAIN signingPolicies :
          /\ e \in DOMAIN signingPolicies'
          /\ signingPolicies'[e] = signingPolicies[e]]_vars

\* The voters of a policy sign it, but not the public keys that are submitted
\* with it, and anybody may submit any.  Still each voter of the active policy
\* has its key and nobody else has one (processPolicyPublicKeys), so the shares
\* of a backup are encrypted to the providers they are for, and the internal
\* error of ActiveSigningPolicyPublicKeys does "never happen".
KeysAreOfActive == activePublicKeys = Range(active.voters)

\* What the rest of the node relies on.
Promised == INSTANCE RewardEpochs WITH
               activeEpoch  <- active.rewardEpochID,
               storedEpochs <- DOMAIN signingPolicies

\* The stored epochs start with any one and grow by the next one at a time.
ImplementsEpochs == Promised!EpochSpec

\* Whatever happens between its two reads, and however the policies move on
\* afterwards, the ids and hashes a TEE_INFO attests belong together and to
\* policies that are stored.  Only the chain the active hash is bound to may
\* be that of the first read, before the chain id was set (policy.go on Info
\* asks for "the one SetInitialPolicy was given").
InfosTellOfStored ==
    \A i \in infos : i.initialHash # NoHash =>
        /\ {i.initialID, i.activeID} \subseteq DOMAIN signingPolicies
        /\ i.initialHash = ChainBoundHash(chainID, signingPolicies[i.initialID])
        /\ i.activeHash \in {ChainBoundHash(c, signingPolicies[i.activeID]) :
                                c \in {0, chainID}}
=============================================================================
