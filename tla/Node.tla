-------------------------------- MODULE Node --------------------------------
(***************************************************************************)
(* The node's configuration (internal/node/node.go), written by the config *)
(* server's one-shot setters (internal/settings/config.go), and the list   *)
(* of machine paths, written by SET_MACHINE_PATH_LIST (direct/policyutils) *)
(* on the authority of governance.                                         *)
(*                                                                         *)
(* SET_MACHINE_PATH_LIST reads the node through several getters, each of   *)
(* which takes and releases the node's lock, before it takes the lock once *)
(* more to install the list.  The config server runs all the while, and so *)
(* may another SET_MACHINE_PATH_LIST.  A value from an environment         *)
(* variable is one that is set before anything else happens.               *)
(*                                                                         *)
(* A hash is the tuple of what is hashed.  A signature is its signer and   *)
(* the hash it was made over: checked against another hash it recovers to  *)
(* an address outside of every governance.                                 *)
(***************************************************************************)
EXTENDS Integers, FiniteSets, Sequences

CONSTANTS Addresses,       \* owners, governance signers, Safes, TEE managers
          Zero,            \* the zero address
          Extensions,      \* extension ids that may be configured
          DefaultExtension,
          ChainIDs,        \* chain ids that may be configured
          Governances,     \* governances that may be configured
          PathLists,       \* lists of machine paths
          Requests,        \* SET_MACHINE_PATH_LIST requests that may arrive
          Handlers         \* SET_MACHINE_PATH_LIST handlers at once

VARIABLES initialOwner,
          extensionID,     \* [set, value]
          chainID,         \* 0 if unset
          governance,      \* NoGovernance if unset
          machinePaths,
          machinePathNonce,
          setting,         \* handlers that run, and what they have read
          approval,        \* who approved the installed list (history)
          infos            \* what Info attested of the list (history)

config == <<initialOwner, extensionID, chainID, governance>>
list == <<machinePaths, machinePathNonce, approval>>
vars == <<config, list, setting, infos>>

NoGovernance == [set |-> FALSE, signers |-> << >>, threshold |-> 0,
                 safe |-> Zero, teeManager |-> Zero]
NoPaths == {}

SeqRange(s) == {s[i] : i \in DOMAIN s}
Put(m, x, v) == [y \in DOMAIN m \cup {x} |-> IF y = x THEN v ELSE m[y]]
Drop(m, x) == [y \in DOMAIN m \ {x} |-> m[y]]

\* The payload hash governance signs: MachinePathListDataHash in its envelope.
ListHash(chain, extension, nonce, paths) == <<chain, extension, nonce, paths>>

\* A request has paths, nonce, hash (that the signatures were made over),
\* signers, and safe: the set of its Safe approvals, one or none.  An approval
\* has safe, chain and owners (that its signatures are of), to, call (whether
\* the operation is a CALL) and data (the list hash its calldata names).
ASSUME NodeAssumption ==
    /\ Zero \in Addresses
    /\ 0 \notin ChainIDs
    /\ \A g \in Governances : g \in [set        : BOOLEAN,
                                    signers    : Seq(Addresses),
                                    threshold  : Nat,
                                    safe       : Addresses,
                                    teeManager : Addresses]
    /\ \A r \in Requests : /\ r.paths \in PathLists
                           /\ r.nonce \in Nat
                           /\ \A a1, a2 \in r.safe : a1 = a2

Init ==
    /\ initialOwner = Zero
    /\ extensionID = [set |-> FALSE, value |-> DefaultExtension]
    /\ chainID = 0
    /\ governance = NoGovernance
    /\ machinePaths = NoPaths
    /\ machinePathNonce = 0
    /\ setting = [h \in {} |-> h]
    /\ approval = [by |-> {}, hash |-> << >>]
    /\ infos = {}

----------------------------------------------------------------------------
(* The config server.  A setter that fails changes nothing.                *)

SetOwner(owner) ==
    /\ initialOwner = Zero
    /\ owner # Zero
    /\ initialOwner' = owner
    /\ UNCHANGED <<extensionID, chainID, governance, list, setting, infos>>

SetExtensionID(id) ==
    /\ ~extensionID.set
    /\ extensionID' = [set |-> TRUE, value |-> id]
    /\ UNCHANGED <<initialOwner, chainID, governance, list, setting, infos>>

SetChainID(c) ==
    /\ chainID = 0
    /\ c # 0
    /\ chainID' = c
    /\ UNCHANGED <<initialOwner, extensionID, governance, list, setting, infos>>

validGovernance(g) ==
    /\ g.threshold > 0
    /\ Len(g.signers) >= g.threshold
    /\ Zero \notin SeqRange(g.signers)
    /\ (g.safe = Zero) = (g.teeManager = Zero)

\* Replacing a governance that is set.
governanceAlways == TRUE

governanceFree == ~governance.set

SetGovernance(g) ==
    /\ governanceFree
    /\ validGovernance(g)
    /\ governance' = [g EXCEPT !.set = TRUE]
    /\ UNCHANGED <<initialOwner, extensionID, chainID, list, setting, infos>>

----------------------------------------------------------------------------
(* SET_MACHINE_PATH_LIST.  A handler verifies the signatures and, if they  *)
(* do not do and there is a Safe approval, that; next is its next read.    *)

Begin(h, r) ==
    /\ h \notin DOMAIN setting
    /\ setting' = Put(setting, h, [request |-> r, pass |-> "signatures",
                                   next |-> "governance",
                                   gov |-> NoGovernance, chain |-> 0])
    /\ UNCHANGED <<config, list, infos>>

\* An error in the first pass leads to the second if there is an approval.
Fail(h) ==
    setting' = IF setting[h].pass = "signatures" /\ setting[h].request.safe # {}
               THEN [setting EXCEPT ![h].pass = "safe", ![h].next = "governance"]
               ELSE Drop(setting, h)

At(h, step) == h \in DOMAIN setting /\ setting[h].next = step

Governance(h) ==
    /\ At(h, "governance")
    /\ IF governance.set
       THEN setting' = [setting EXCEPT
                          ![h].gov = [governance EXCEPT !.safe = Zero,
                                                        !.teeManager = Zero],
                          ![h].next = IF setting[h].pass = "safe"
                                      THEN "safe" ELSE "chain"]
       ELSE Fail(h)
    /\ UNCHANGED <<config, list, infos>>

GovernanceSafe(h) ==
    /\ At(h, "safe")
    /\ IF governance.safe # Zero
       THEN setting' = [setting EXCEPT
                          ![h].gov.safe = governance.safe,
                          ![h].gov.teeManager = governance.teeManager,
                          ![h].next = "chain"]
       ELSE Fail(h)
    /\ UNCHANGED <<config, list, infos>>

ChainID(h) ==
    /\ At(h, "chain")
    /\ IF chainID # 0
       THEN setting' = [setting EXCEPT ![h].chain = chainID,
                                       ![h].next = "extension"]
       ELSE Fail(h)
    /\ UNCHANGED <<config, list, infos>>

\* Every signature must be of a governance signer; different ones count.
verifyGovernanceSignatures(r, gov, hash) ==
    /\ r.signers # << >> => r.hash = hash
    /\ SeqRange(r.signers) \subseteq SeqRange(gov.signers)
    /\ Cardinality(SeqRange(r.signers)) >= gov.threshold

\* safe.Approval.Verify: the owners' signatures over the Safe transaction.
VerifyApproval(a, chain, safe, signers, threshold) ==
    /\ a.chain = chain
    /\ a.safe = safe
    /\ Cardinality(a.owners \cap signers) >= threshold

verifySafeApproval(r, gov, chain, hash) ==
    \E a \in r.safe :
       /\ a.to = gov.teeManager
       /\ a.call
       /\ a.data = hash
       /\ VerifyApproval(a, chain, gov.safe, SeqRange(gov.signers),
                         gov.threshold)

\* The extension id is the last thing read; then the authority is judged.
Verify(h) ==
    /\ At(h, "extension")
    /\ LET s    == setting[h]
           hash == ListHash(s.chain, extensionID.value, s.request.nonce,
                            s.request.paths)
       IN  IF \/ s.pass = "signatures"
                 /\ verifyGovernanceSignatures(s.request, s.gov, hash)
              \/ s.pass = "safe"
                 /\ verifySafeApproval(s.request, s.gov, s.chain, hash)
           THEN setting' = [setting EXCEPT ![h].next = "install"]
           ELSE Fail(h)
    /\ UNCHANGED <<config, list, infos>>

\* The signatures, or the owners of the Safe, that authorise a request.
Approvers(s) ==
    IF s.pass = "signatures" THEN SeqRange(s.request.signers)
    ELSE (UNION {a.owners : a \in s.request.safe})
             \cap SeqRange(s.gov.signers)

\* What they approved.
ApprovedHash(s) ==
    IF s.pass = "signatures" THEN s.request.hash
    ELSE CHOOSE d \in {a.data : a \in s.request.safe} : TRUE

newerOrSame(nonce) == nonce >= machinePathNonce

newer(nonce) == nonce > machinePathNonce

\* Node.SetMachinePathList under the lock; an older list is refused.
SetMachinePathList(h) ==
    /\ At(h, "install")
    /\ newer(setting[h].request.nonce)
    /\ machinePaths' = setting[h].request.paths
    /\ machinePathNonce' = setting[h].request.nonce
    /\ approval' = [by   |-> Approvers(setting[h]),
                    hash |-> ApprovedHash(setting[h])]
    /\ setting' = Drop(setting, h)
    /\ UNCHANGED <<config, infos>>

\* The list is not newer, or ctx has expired.
Abandon(h) ==
    /\ At(h, "install")
    /\ setting' = Drop(setting, h)
    /\ UNCHANGED <<config, list, infos>>

\* Node.Info hashes the list with the configuration of the moment.
Info ==
    /\ machinePathNonce # 0
    /\ infos' = infos \cup {ListHash(chainID, extensionID.value,
                                     machinePathNonce, machinePaths)}
    /\ UNCHANGED <<config, list, setting>>

----------------------------------------------------------------------------
Configure ==
    \/ \E a \in Addresses : SetOwner(a)
    \/ \E e \in Extensions : SetExtensionID(e)
    \/ \E c \in ChainIDs : SetChainID(c)
    \/ \E g \in Governances : SetGovernance(g)

Handle(h) ==
    \/ \E r \in Requests : Begin(h, r)
    \/ Governance(h)
    \/ GovernanceSafe(h)
    \/ ChainID(h)
    \/ Verify(h)
    \/ SetMachinePathList(h)
    \/ Abandon(h)

Next == Configure \/ Info \/ \E h \in Handlers : Handle(h)

Spec == Init /\ [][Next]_vars

----------------------------------------------------------------------------
(* Properties.                                                             *)

\* The installed list is one that enough different signers of the governance
\* the node has now approved, for the node's chain and for its extension, or
\* for the default one if the extension was named only later: reading the
\* configuration lock by lock never mixes two authorities.
ListGoverned ==
    machinePathNonce # 0 =>
       /\ approval.by \subseteq SeqRange(governance.signers)
       /\ Cardinality(approval.by) >= governance.threshold
       /\ governance.threshold > 0
       /\ \E e \in {extensionID.value, DefaultExtension} :
             approval.hash = ListHash(chainID, e, machinePathNonce, machinePaths)

\* A list nonce identifies a list: what Info attests under one nonce and
\* extension is one hash, even if two handlers install lists at once.
NonceIdentifiesList ==
    \A i, j \in infos : i[2] = j[2] /\ i[3] = j[3] => i = j
=============================================================================
