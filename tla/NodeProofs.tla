----------------------------- MODULE NodeProofs -----------------------------
(***************************************************************************)
(* Proofs about the node's configuration and its list of machine paths,    *)
(* for every set of governances, requests and concurrent handlers.         *)
(***************************************************************************)
EXTENDS Node, FiniteSetTheorems, TLAPS

GovernanceType == [set : BOOLEAN, signers : Seq(Addresses), threshold : Nat,
                   safe : Addresses, teeManager : Addresses]

HandlerType ==
    [request : Requests,
     pass    : {"signatures", "safe"},
     next    : {"governance", "safe", "chain", "extension", "install"},
     gov     : GovernanceType,
     chain   : ChainIDs \cup {0}]

Types ==
    /\ extensionID \in [set   : BOOLEAN,
                        value : Extensions \cup {DefaultExtension}]
    /\ chainID \in ChainIDs \cup {0}
    /\ governance \in GovernanceType
    /\ machinePathNonce \in Nat
    /\ setting \in [DOMAIN setting -> HandlerType]

\* A setting is written once: until then it has its default.
ConfigOnce ==
    /\ ~extensionID.set => extensionID.value = DefaultExtension
    /\ governance.set => governance.threshold > 0

\* by are signers enough of the node's governance, and hash is of the list for
\* the node's chain and for its extension or the default one.
Authorised(by, hash, nonce, paths) ==
    /\ governance.set
    /\ chainID # 0
    /\ by \subseteq SeqRange(governance.signers)
    /\ Cardinality(by) >= governance.threshold
    /\ \E e \in {extensionID.value, DefaultExtension} :
          hash = ListHash(chainID, e, nonce, paths)

\* What a handler has read still is what the node has.
HandlerCurrent(s) ==
    /\ s.next # "governance" => /\ governance.set
                                /\ s.gov.signers = governance.signers
                                /\ s.gov.threshold = governance.threshold
    /\ s.next \in {"extension", "install"} => chainID # 0 /\ s.chain = chainID
    /\ s.next = "install" => Authorised(Approvers(s), ApprovedHash(s),
                                        s.request.nonce, s.request.paths)

HandlersCurrent == \A h \in DOMAIN setting : HandlerCurrent(setting[h])

ListAuthorised ==
    machinePathNonce # 0 => Authorised(approval.by, approval.hash,
                                       machinePathNonce, machinePaths)

\* What was attested is of the node's chain, and of its list or an older one.
InfosOfLists ==
    /\ \A i \in infos :
          /\ chainID # 0
          /\ i = <<chainID, i[2], i[3], i[4]>>
          /\ i[3] \in Nat
          /\ i[3] <= machinePathNonce
          /\ i[3] = machinePathNonce => i[4] = machinePaths
    /\ \A i, j \in infos : i[3] = j[3] => i[4] = j[4]

IInv == Types /\ ConfigOnce /\ HandlersCurrent /\ ListAuthorised /\ InfosOfLists

LEMMA InitIInv == Init => IInv
  <1> SUFFICES ASSUME Init PROVE IInv
    OBVIOUS
  <1>1. NoGovernance \in GovernanceType
    BY NodeAssumption DEF NoGovernance, GovernanceType
  <1>2. Types
    BY <1>1 DEF Init, Types
  <1>3. ConfigOnce /\ HandlersCurrent /\ ListAuthorised /\ InfosOfLists
    BY DEF Init, ConfigOnce, HandlersCurrent, ListAuthorised, InfosOfLists,
           NoGovernance
  <1> QED BY <1>2, <1>3 DEF IInv

\* Writing a setting that was not set keeps what was authorised authorised.
LEMMA ConfigureKeepsAuthority ==
  ASSUME IInv, Configure,
         NEW by, NEW hash, NEW nonce, NEW paths,
         Authorised(by, hash, nonce, paths)
  PROVE  Authorised(by, hash, nonce, paths)'
  <1>1. CASE \E a \in Addresses : SetOwner(a)
    BY <1>1 DEF SetOwner, Authorised
  <1>2. CASE \E e \in Extensions : SetExtensionID(e)
    BY <1>2 DEF SetExtensionID, Authorised, IInv, ConfigOnce
  <1>3. CASE \E c \in ChainIDs : SetChainID(c)
    BY <1>3 DEF SetChainID, Authorised
  <1>4. CASE \E g \in Governances : SetGovernance(g)
    BY <1>4 DEF SetGovernance, governanceFree, Authorised
  <1> QED BY <1>1, <1>2, <1>3, <1>4 DEF Configure

LEMMA ConfigureTypes ==
  ASSUME IInv, Configure
  PROVE  Types' /\ ConfigOnce'
  <1>1. CASE \E a \in Addresses : SetOwner(a)
    BY <1>1 DEF SetOwner, IInv, Types, ConfigOnce, list
  <1>2. CASE \E e \in Extensions : SetExtensionID(e)
    BY <1>2 DEF SetExtensionID, IInv, Types, ConfigOnce, list
  <1>3. CASE \E c \in ChainIDs : SetChainID(c)
    BY <1>3 DEF SetChainID, IInv, Types, ConfigOnce, list
  <1>4. CASE \E g \in Governances : SetGovernance(g)
    <2>1. PICK g \in Governances : SetGovernance(g)
      BY <1>4
    <2>2. g \in GovernanceType
      BY NodeAssumption DEF GovernanceType
    <2>3. governance' \in GovernanceType /\ governance'.threshold > 0
      BY <2>1, <2>2 DEF SetGovernance, validGovernance, GovernanceType
    <2> QED BY <2>1, <2>3 DEF SetGovernance, IInv, Types, ConfigOnce, list
  <1> QED BY <1>1, <1>2, <1>3, <1>4 DEF Configure

LEMMA ConfigureIInv ==
  ASSUME IInv, Configure
  PROVE  IInv'
  <1>1. Types' /\ ConfigOnce'
    BY ConfigureTypes
  <1>2. UNCHANGED <<list, setting, infos>>
    BY DEF Configure, SetOwner, SetExtensionID, SetChainID, SetGovernance
  <1>3. HandlersCurrent'
    <2> SUFFICES ASSUME NEW h \in DOMAIN setting
                 PROVE  HandlerCurrent(setting[h])'
      BY <1>2 DEF HandlersCurrent
    <2>1. HandlerCurrent(setting[h])
      BY DEF IInv, HandlersCurrent
    <2>2. setting[h].next = "install" =>
            Authorised(Approvers(setting[h]), ApprovedHash(setting[h]),
                       setting[h].request.nonce, setting[h].request.paths)'
      BY <2>1, <1>2, ConfigureKeepsAuthority
      DEF HandlerCurrent, Approvers, ApprovedHash
    <2>3. governance.set => UNCHANGED governance
      BY DEF Configure, SetOwner, SetExtensionID, SetChainID, SetGovernance,
             governanceFree
    <2>4. chainID # 0 => UNCHANGED chainID
      BY DEF Configure, SetOwner, SetExtensionID, SetChainID, SetGovernance
    <2> QED BY <2>1, <2>2, <2>3, <2>4, <1>2
            DEF HandlerCurrent
  <1>4. ListAuthorised'
    BY <1>2, ConfigureKeepsAuthority DEF IInv, ListAuthorised, list
  <1>5. InfosOfLists'
    <2>1. chainID # 0 => UNCHANGED chainID
      BY DEF Configure, SetOwner, SetExtensionID, SetChainID, SetGovernance
    <2> QED BY <1>2, <2>1 DEF IInv, InfosOfLists, list
  <1> QED BY <1>1, <1>3, <1>4, <1>5 DEF IInv

----------------------------------------------------------------------------
(* A handler's step before it installs changes its own record only, so it  *)
(* preserves the invariant if that record is current afterwards.           *)

LEMMA HandlerIInv ==
  ASSUME IInv, UNCHANGED <<config, list, infos>>,
         NEW h, NEW s \in HandlerType, HandlerCurrent(s),
         setting' = Put(setting, h, s)
  PROVE  IInv'
  <1>1. Types'
    BY DEF IInv, Types, config, list, Put
  <1>2. HandlersCurrent'
    BY DEF IInv, HandlersCurrent, HandlerCurrent, Authorised, Put, config
  <1> QED BY <1>1, <1>2
          DEF IInv, ConfigOnce, ListAuthorised, InfosOfLists, Authorised,
              config, list

LEMMA DropIInv ==
  ASSUME IInv, UNCHANGED <<config, list, infos>>,
         NEW h, setting' = Drop(setting, h)
  PROVE  IInv'
  <1>1. Types'
    BY DEF IInv, Types, config, list, Drop
  <1>2. HandlersCurrent'
    BY DEF IInv, HandlersCurrent, HandlerCurrent, Authorised, Drop, config
  <1> QED BY <1>1, <1>2
          DEF IInv, ConfigOnce, ListAuthorised, InfosOfLists, Authorised,
              config, list

LEMMA FailIInv ==
  ASSUME IInv, UNCHANGED <<config, list, infos>>,
         NEW h \in DOMAIN setting, Fail(h)
  PROVE  IInv'
  <1>1. CASE setting' = Drop(setting, h)
    BY <1>1, DropIInv
  <1>2. CASE setting' = [setting EXCEPT ![h].pass = "safe",
                                        ![h].next = "governance"]
    <2> DEFINE s == [setting[h] EXCEPT !.pass = "safe", !.next = "governance"]
    <2>1. setting[h] \in HandlerType
      BY DEF IInv, Types
    <2>2. s \in HandlerType /\ HandlerCurrent(s)
      BY <2>1 DEF HandlerType, HandlerCurrent
    <2>3. setting' = Put(setting, h, s)
      BY <1>2 DEF IInv, Types, Put
    <2> QED BY <2>2, <2>3, HandlerIInv
  <1> QED BY <1>1, <1>2 DEF Fail

LEMMA BeginIInv ==
  ASSUME IInv, NEW h \in Handlers, NEW r \in Requests, Begin(h, r)
  PROVE  IInv'
  <1> DEFINE s == [request |-> r, pass |-> "signatures",
                   next |-> "governance", gov |-> NoGovernance, chain |-> 0]
  <1>1. NoGovernance \in GovernanceType
    BY NodeAssumption DEF NoGovernance, GovernanceType
  <1>2. s \in HandlerType /\ HandlerCurrent(s)
    BY <1>1 DEF HandlerType, HandlerCurrent
  <1> QED BY <1>2, HandlerIInv DEF Begin

LEMMA GovernanceIInv ==
  ASSUME IInv, NEW h \in Handlers, Governance(h)
  PROVE  IInv'
  <1>1. CASE ~governance.set
    BY <1>1, FailIInv DEF Governance, At
  <1>2. CASE governance.set
    <2> DEFINE s == [setting[h] EXCEPT
                       !.gov = [governance EXCEPT !.safe = Zero,
                                                  !.teeManager = Zero],
                       !.next = IF setting[h].pass = "safe"
                                THEN "safe" ELSE "chain"]
    <2>1. h \in DOMAIN setting /\ setting[h] \in HandlerType
      BY DEF Governance, At, IInv, Types
    <2>2. governance \in GovernanceType
      BY DEF IInv, Types
    <2>3. s \in HandlerType
      BY <2>1, <2>2, NodeAssumption DEF HandlerType, GovernanceType
    <2>4. HandlerCurrent(s)
      BY <1>2, <2>1, <2>2 DEF HandlerCurrent, HandlerType, GovernanceType
    <2>5. setting' = Put(setting, h, s)
      BY <1>2, <2>1 DEF Governance, IInv, Types, Put
    <2> QED BY <2>3, <2>4, <2>5, HandlerIInv DEF Governance
  <1> QED BY <1>1, <1>2

LEMMA GovernanceSafeIInv ==
  ASSUME IInv, NEW h \in Handlers, GovernanceSafe(h)
  PROVE  IInv'
  <1>1. CASE governance.safe = Zero
    BY <1>1, FailIInv DEF GovernanceSafe, At
  <1>2. CASE governance.safe # Zero
    <2> DEFINE s == [setting[h] EXCEPT !.gov.safe = governance.safe,
                                       !.gov.teeManager = governance.teeManager,
                                       !.next = "chain"]
    <2>1. h \in DOMAIN setting /\ setting[h] \in HandlerType
      BY DEF GovernanceSafe, At, IInv, Types
    <2>2. governance \in GovernanceType
      BY DEF IInv, Types
    <2>3. s \in HandlerType
      BY <2>1, <2>2 DEF HandlerType, GovernanceType
    <2>4. HandlerCurrent(setting[h]) /\ setting[h].next = "safe"
      BY <2>1 DEF IInv, HandlersCurrent, GovernanceSafe, At
    <2>5. HandlerCurrent(s)
      BY <2>1, <2>4 DEF HandlerCurrent, HandlerType, GovernanceType
    <2>6. setting' = Put(setting, h, s)
      BY <1>2, <2>1 DEF GovernanceSafe, IInv, Types, Put
    <2> QED BY <2>3, <2>5, <2>6, HandlerIInv DEF GovernanceSafe
  <1> QED BY <1>1, <1>2

LEMMA ChainIDIInv ==
  ASSUME IInv, NEW h \in Handlers, ChainID(h)
  PROVE  IInv'
  <1>1. CASE chainID = 0
    BY <1>1, FailIInv DEF ChainID, At
  <1>2. CASE chainID # 0
    <2> DEFINE s == [setting[h] EXCEPT !.chain = chainID, !.next = "extension"]
    <2>1. h \in DOMAIN setting /\ setting[h] \in HandlerType
      BY DEF ChainID, At, IInv, Types
    <2>2. s \in HandlerType
      BY <2>1 DEF HandlerType, IInv, Types
    <2>3. HandlerCurrent(setting[h]) /\ setting[h].next = "chain"
      BY <2>1 DEF IInv, HandlersCurrent, ChainID, At
    <2>4. HandlerCurrent(s)
      BY <1>2, <2>1, <2>3 DEF HandlerCurrent, HandlerType
    <2>5. setting' = Put(setting, h, s)
      BY <1>2, <2>1 DEF ChainID, IInv, Types, Put
    <2> QED BY <2>2, <2>4, <2>5, HandlerIInv DEF ChainID
  <1> QED BY <1>1, <1>2

\* Either verification leaves approvers that authorise the request.
LEMMA VerifiedAuthorises ==
  ASSUME IInv, NEW s \in HandlerType, HandlerCurrent(s),
         s.next = "extension",
         NEW hash,
         hash = ListHash(s.chain, extensionID.value, s.request.nonce,
                         s.request.paths),
         \/ s.pass = "signatures"
            /\ verifyGovernanceSignatures(s.request, s.gov, hash)
         \/ s.pass = "safe"
            /\ verifySafeApproval(s.request, s.gov, s.chain, hash)
  PROVE  Authorised(Approvers(s), ApprovedHash(s), s.request.nonce,
                    s.request.paths)
  <1>1. /\ governance.set
        /\ chainID # 0
        /\ s.chain = chainID
        /\ s.gov.signers = governance.signers
        /\ s.gov.threshold = governance.threshold
    BY DEF HandlerCurrent
  <1>2. governance.threshold \in Nat /\ governance.threshold > 0
    BY <1>1 DEF IInv, Types, ConfigOnce, GovernanceType
  <1>3. CASE /\ s.pass = "signatures"
             /\ verifyGovernanceSignatures(s.request, s.gov, hash)
    <2>1. s.request.signers # << >>
      <3> SUFFICES ASSUME s.request.signers = << >> PROVE FALSE
        OBVIOUS
      <3>1. SeqRange(s.request.signers) = {}
        BY DEF SeqRange
      <3>2. Cardinality(SeqRange(s.request.signers)) = 0
        BY <3>1, FS_EmptySet
      <3>3. Cardinality(SeqRange(s.request.signers)) >= governance.threshold
        BY <1>1, <1>3 DEF verifyGovernanceSignatures
      <3> QED BY <3>2, <3>3, <1>2
    <2> QED BY <2>1, <1>1, <1>3
            DEF verifyGovernanceSignatures, Authorised, Approvers, ApprovedHash
  <1>4. CASE /\ s.pass = "safe"
             /\ verifySafeApproval(s.request, s.gov, s.chain, hash)
    <2>1. PICK a \in s.request.safe :
             /\ a.data = hash
             /\ VerifyApproval(a, s.chain, s.gov.safe,
                               SeqRange(s.gov.signers), s.gov.threshold)
      BY <1>4 DEF verifySafeApproval
    <2>2. s.request.safe = {a}
      <3>1. s.request \in Requests
        BY DEF HandlerType
      <3> QED BY <3>1, NodeAssumption
    <2>3. UNION {b.owners : b \in s.request.safe} = a.owners
      BY <2>2
    <2>4. Approvers(s) = a.owners \cap SeqRange(governance.signers)
      <3>1. s.pass # "signatures"
        BY <1>4
      <3>2. Approvers(s) = (UNION {b.owners : b \in s.request.safe})
                             \cap SeqRange(s.gov.signers)
        BY <3>1, Zenon DEF Approvers
      <3> QED BY <3>2, <2>3, <1>1
    <2>5. {b.data : b \in s.request.safe} = {hash}
      BY <2>1, <2>2
    <2>6. ApprovedHash(s) = hash
      BY <2>5, <1>4 DEF ApprovedHash
    <2>7. Cardinality(Approvers(s)) >= governance.threshold
      BY <2>1, <2>4, <1>1 DEF VerifyApproval
    <2>8. hash = ListHash(chainID, extensionID.value, s.request.nonce,
                          s.request.paths)
      BY <1>1
    <2> QED BY <1>1, <2>4, <2>6, <2>7, <2>8 DEF Authorised
  <1> QED BY <1>3, <1>4

LEMMA VerifyIInv ==
  ASSUME IInv, NEW h \in Handlers, Verify(h)
  PROVE  IInv'
  <1> DEFINE old  == setting[h]
             hash == ListHash(old.chain, extensionID.value, old.request.nonce,
                              old.request.paths)
             fine == \/ old.pass = "signatures"
                        /\ verifyGovernanceSignatures(old.request, old.gov,
                                                      hash)
                     \/ old.pass = "safe"
                        /\ verifySafeApproval(old.request, old.gov, old.chain,
                                              hash)
  <1>1. CASE ~fine
    BY <1>1, FailIInv DEF Verify, At
  <1>2. CASE fine
    <2> DEFINE s == [old EXCEPT !.next = "install"]
    <2>1. h \in DOMAIN setting /\ old \in HandlerType
      BY DEF Verify, At, IInv, Types
    <2>2. HandlerCurrent(old) /\ old.next = "extension"
      BY <2>1 DEF IInv, HandlersCurrent, Verify, At
    <2>3. Authorised(Approvers(old), ApprovedHash(old), old.request.nonce,
                     old.request.paths)
      BY <1>2, <2>1, <2>2, VerifiedAuthorises
    <2>4. s \in HandlerType
      BY <2>1 DEF HandlerType
    <2>5. /\ s.request = old.request /\ s.pass = old.pass
          /\ s.gov = old.gov /\ s.chain = old.chain /\ s.next = "install"
      BY <2>1 DEF HandlerType
    <2>6. Approvers(s) = Approvers(old) /\ ApprovedHash(s) = ApprovedHash(old)
      BY <2>5 DEF Approvers, ApprovedHash
    <2>7. HandlerCurrent(s)
      <3> HIDE DEF s, old
      <3> QED BY <2>2, <2>3, <2>5, <2>6 DEF HandlerCurrent
    <2>8. setting' = Put(setting, h, s)
      BY <1>2, <2>1 DEF Verify, IInv, Types, Put
    <2> QED BY <2>4, <2>7, <2>8, HandlerIInv DEF Verify
  <1> QED BY <1>1, <1>2

----------------------------------------------------------------------------
LEMMA SetMachinePathListIInv ==
  ASSUME IInv, NEW h \in Handlers, SetMachinePathList(h)
  PROVE  IInv'
  <1> DEFINE s == setting[h]
  <1>1. h \in DOMAIN setting /\ s \in HandlerType /\ s.next = "install"
    BY DEF SetMachinePathList, At, IInv, Types
  <1>2. s.request.nonce \in Nat /\ s.request.nonce > machinePathNonce
    BY <1>1, NodeAssumption DEF SetMachinePathList, newer, HandlerType
  <1>3. Authorised(Approvers(s), ApprovedHash(s), s.request.nonce,
                   s.request.paths)
    BY <1>1 DEF IInv, HandlersCurrent, HandlerCurrent
  <1>4. UNCHANGED <<config, infos>>
    BY DEF SetMachinePathList
  <1>5. Types'
    BY <1>2, <1>4 DEF IInv, Types, SetMachinePathList, config, Drop
  <1>6. HandlersCurrent'
    BY <1>4 DEF IInv, HandlersCurrent, HandlerCurrent, Authorised,
                SetMachinePathList, Drop, config
  <1>7. ListAuthorised'
    BY <1>3, <1>4 DEF ListAuthorised, Authorised, SetMachinePathList, config
  <1>8. InfosOfLists'
    BY <1>2, <1>4 DEF IInv, Types, InfosOfLists, SetMachinePathList, config
  <1> QED BY <1>4, <1>5, <1>6, <1>7, <1>8 DEF IInv, ConfigOnce, config

LEMMA InfoIInv ==
  ASSUME IInv, Info
  PROVE  IInv'
  <1>1. UNCHANGED <<config, list, setting>>
    BY DEF Info
  <1>2. Types' /\ ConfigOnce' /\ HandlersCurrent' /\ ListAuthorised'
    BY <1>1 DEF IInv, Types, ConfigOnce, HandlersCurrent, HandlerCurrent,
                ListAuthorised, Authorised, config, list
  <1>3. chainID # 0
    BY DEF Info, IInv, ListAuthorised, Authorised
  <1> DEFINE new == ListHash(chainID, extensionID.value, machinePathNonce,
                             machinePaths)
  <1>4. /\ new = <<chainID, new[2], new[3], new[4]>>
        /\ new[3] = machinePathNonce /\ new[4] = machinePaths
    BY DEF ListHash
  <1>5. infos' = infos \cup {new}
    BY DEF Info
  <1>6. machinePathNonce \in Nat
    BY DEF IInv, Types
  <1>7. InfosOfLists'
    <2> HIDE DEF new
    <2> QED BY <1>1, <1>3, <1>4, <1>5, <1>6 DEF IInv, InfosOfLists, config, list
  <1> QED BY <1>2, <1>7 DEF IInv

\* The invariant behind both theorems, for every step.
LEMMA NextIInv == IInv /\ [Next]_vars => IInv'
  <1> SUFFICES ASSUME IInv, [Next]_vars PROVE IInv'
    OBVIOUS
  <1>1. CASE Configure
    BY <1>1, ConfigureIInv
  <1>2. CASE Info
    BY <1>2, InfoIInv
  <1>3. CASE \E h \in Handlers : Handle(h)
    <2>1. PICK h \in Handlers : Handle(h)
      BY <1>3
    <2>2. CASE \E r \in Requests : Begin(h, r)
      BY <2>2, BeginIInv
    <2>3. CASE Governance(h)
      BY <2>3, GovernanceIInv
    <2>4. CASE GovernanceSafe(h)
      BY <2>4, GovernanceSafeIInv
    <2>5. CASE ChainID(h)
      BY <2>5, ChainIDIInv
    <2>6. CASE Verify(h)
      BY <2>6, VerifyIInv
    <2>7. CASE SetMachinePathList(h)
      BY <2>7, SetMachinePathListIInv
    <2>8. CASE Abandon(h)
      BY <2>8, DropIInv DEF Abandon
    <2> QED BY <2>1, <2>2, <2>3, <2>4, <2>5, <2>6, <2>7, <2>8 DEF Handle
  <1>4. CASE UNCHANGED vars
    BY <1>4 DEF IInv, Types, ConfigOnce, HandlersCurrent, HandlerCurrent,
                ListAuthorised, InfosOfLists, Authorised, vars, config, list
  <1> QED BY <1>1, <1>2, <1>3, <1>4 DEF Next

LEMMA Invariance == Spec => []IInv
  BY InitIInv, NextIInv, PTL DEF Spec

\* However the reads of SET_MACHINE_PATH_LIST, the config server's setters and
\* other handlers interleave, the installed list is one that enough signers of
\* the node's governance approved for the node's chain.
THEOREM ListsAreGoverned == Spec => []ListGoverned
  <1>1. IInv => ListGoverned
    BY DEF IInv, ListAuthorised, Authorised, ConfigOnce, ListGoverned
  <1> QED BY <1>1, Invariance, PTL

\* What Info attests under one nonce and extension is one hash, for ever.
THEOREM NoncesIdentifyLists == Spec => []NonceIdentifiesList
  <1>1. IInv => NonceIdentifiesList
    <2> SUFFICES ASSUME IInv, NEW i \in infos, NEW j \in infos,
                        i[2] = j[2], i[3] = j[3]
                 PROVE  i = j
      BY DEF NonceIdentifiesList
    <2>1. i = <<chainID, i[2], i[3], i[4]>> /\ j = <<chainID, j[2], j[3], j[4]>>
      BY DEF IInv, InfosOfLists
    <2>2. i[4] = j[4]
      BY DEF IInv, InfosOfLists
    <2> QED BY <2>1, <2>2
  <1> QED BY <1>1, Invariance, PTL
=============================================================================
