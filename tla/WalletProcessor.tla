-------------------------- MODULE WalletProcessor --------------------------
(***************************************************************************)
(* The wallet instructions of one TEE node: KEY_GENERATE, KEY_DELETE,      *)
(* KEY_DATA_PROVIDER_RESTORE, KEY_DIRECT_BACKUP and KEY_DIRECT_RESTORE     *)
(* (internal/processors/instructions/walletutils), the instruction         *)
(* pipeline in front of them (internal/processors/instructions), the       *)
(* machine-path list and the signing-policy epochs they read, and the      *)
(* direct reads that sign or export what is stored (getutils).             *)
(*                                                                         *)
(* An instruction is relayed by a proxy, which may delay, reorder, repeat  *)
(* or withhold it; each queue worker runs a handler in a goroutine of its  *)
(* own, abandons it after a timeout, and a queue is not restricted to one  *)
(* kind of action, so any number of handlers run at once.  A handler here  *)
(* takes its steps where the code takes and releases a lock:               *)
(*    preprocess   policy storage read-locked: is the policy recent?       *)
(*    validate     node read-locked: does the machine-path list allow it?  *)
(*    the handler's section under the wallet storage's lock, at the start  *)
(*    of whose writes ctx.Err() is consulted.                              *)
(* Between two of them the context may expire and everything it has read   *)
(* may change.                                                             *)
(*                                                                         *)
(* Instructions are quorum-signed: those that fail CheckThresholds (module *)
(* Authorization) are not enumerated.                                      *)
(***************************************************************************)
EXTENDS WalletStorage

CONSTANTS Handlers,        \* handler goroutines that may run at once
          Self,            \* this node's TEE id
          Tees,            \* all TEE ids
          Instructions,    \* ids of the quorum-signed instructions
          DataFixed,       \* their signed content, by id
          PathLists,       \* governance-signed machine-path lists, by nonce
          OldBackups,      \* data-provider backups made by other TEEs
          EpochMod,        \* 2^32 in the code
          InitialEpochs,   \* epochs the initial policy may be of
          MaxUpdates       \* bound on the number of policy updates

VARIABLES store,           \* walletstorage.Storage
          activeEpoch,     \* policy.Storage: epoch of the active policy
          storedEpochs,    \* policy.Storage: epochs with a stored policy
          updates,         \* number of policy updates
          pathNonce,       \* node: nonce of the machine-path list, 0 if none
          running,         \* handlers that run, and how far they are
          drawn,           \* private keys generated and stored so far
          backups,         \* data-provider backups whose shares are out
          proofs,          \* key existence proofs signed (history)
          committed,       \* how often an instruction took effect (history)
          confirmed,       \* instructions with an accepted End (history)
          transfers        \* committed restores and direct backups (history)

epochState == <<activeEpoch, storedEpochs, updates>>
history == <<proofs, committed, confirmed, transfers>>
vars == <<store, epochState, pathNonce, running, drawn, backups, history>>

Policy == INSTANCE RewardEpochs

----------------------------------------------------------------------------
(* Instructions.  Fields an operation does not use are arbitrary.          *)

Ops == {"generate", "delete", "dpRestore", "directBackup", "directRestore"}
RestoreOps == {"dpRestore", "directRestore"}
NonceOps == RestoreOps \cup {"delete"}        \* those that write a nonce
DirectOps == {"directBackup", "directRestore"}
Tags == {"threshold", "end"}

\* WalletBackupID: the public key stands for the secret it belongs to.
BackupIDs == [tee : Tees, key : Keys, public : Secrets, epoch : Nat]

\* AdditionalFixedMessage: backup metadata, or the direct-backup envelope (its
\* signer, and the TEE and private key its ciphertext is for).
Attachments == [id : BackupIDs, signer : Tees, to : Tees, secret : Secrets]

InstructionSet ==
    [op        : Ops,
     tee       : Tees,      \* DataFixed.TeeID
     epoch     : Nat,       \* DataFixed.RewardEpochID
     key       : Keys,
     nonce     : Nat,       \* Nonce or DestinationNonce, of any width
     target    : Tees,      \* TeeId, TeePublicKey or DestinationTeePublicKey
     source    : Tees,      \* SourceTeeId
     listNonce : Nat,       \* MachinePathListNonce
     backupId  : BackupIDs,
     attached  : Attachments,
     valid     : BOOLEAN]   \* the configuration's counts, thresholds, algorithm

\* A machine path is a pair of sets of TEEs, a list a set of paths.
MachinePath == [sources : SUBSET Tees, destinations : SUBSET Tees]

ASSUME ProcessorAssumption ==
    /\ Self \in Tees
    /\ DataFixed \in [Instructions -> InstructionSet]
    /\ \A i \in Instructions : DataFixed[i].op \in RestoreOps =>
                                 DataFixed[i].key = DataFixed[i].backupId.key
    /\ PathLists \in Seq(SUBSET MachinePath)
    /\ OldBackups \subseteq BackupIDs
    /\ EpochMod \in Nat \ {0}
    /\ InitialEpochs \subseteq 0 .. EpochMod - 1
    /\ MaxUpdates \in Nat
    /\ MaxUpdates < EpochMod

RunType == [instr : Instructions, tag : Tags,
            stage : {"checked", "validated"},
            ctxErr : BOOLEAN,           \* ctx.Err() # nil
            seen : Nat,                 \* list nonce read by validate
            start : Nat]                \* list nonce when started (history)

TransferType == [instr : Instructions, list : Nat, start : Nat, epoch : Int]

\* The types of the state; a nonce written by a handler fits into a uint64.
TypeOK ==
    /\ IsStorage(store)
    /\ Policy!EpochTypeOK
    /\ pathNonce \in 0 .. Len(PathLists)
    /\ IsMap(running, Handlers, RunType)
    /\ drawn \in Nat
    /\ backups \subseteq BackupIDs
    /\ proofs \subseteq ExistenceProofs
    /\ committed \in [Instructions -> Nat]
    /\ confirmed \subseteq Instructions
    /\ transfers \subseteq TransferType

Init ==
    /\ store = InitializeStorage
    /\ Policy!EpochInit
    /\ pathNonce = 0
    /\ running = EmptyMap
    /\ drawn = 0
    /\ backups = OldBackups
    /\ proofs = {}
    /\ committed = [i \in Instructions |-> 0]
    /\ confirmed = {}
    /\ transfers = {}

----------------------------------------------------------------------------
(* The pipeline in front of the handlers.                                  *)

\* What the instruction handled by h says.
Data(h) == DataFixed[running[h].instr]

checkPolicyValidity(policyID, activePolicyID) ==
    ~(activePolicyID > 0 /\ policyID < activePolicyID - 1)

\* Process up to the call of the handler: the policy of the instruction's
\* epoch is stored and not too old, and the instruction is for this TEE.
preprocess(h, i, tag) ==
    /\ h \notin DOMAIN running
    /\ DataFixed[i].epoch \in storedEpochs
    /\ checkPolicyValidity(DataFixed[i].epoch, activeEpoch)
    /\ DataFixed[i].tee = Self
    /\ running' = Put(running, h, [instr |-> i, tag |-> tag,
                                   stage |-> "checked", ctxErr |-> FALSE,
                                   seen |-> 0, start |-> pathNonce])
    /\ UNCHANGED <<store, epochState, pathNonce, drawn, backups, history>>

\* The processing deadline passes; the goroutine goes on, abandoned or not.  The
\* End phases never look at their context.
Timeout(h) ==
    /\ h \in DOMAIN running
    /\ running[h].tag = "threshold"
    /\ ~running[h].ctxErr
    /\ running' = [running EXCEPT ![h].ctxErr = TRUE]
    /\ UNCHANGED <<store, epochState, pathNonce, drawn, backups, history>>

Paths == IF pathNonce = 0 THEN {} ELSE PathLists[pathNonce]

\* Source and destination taken from different paths.
pathAuthorizesAcross(paths, source, destination) ==
    /\ \E p \in paths : source \in p.sources
    /\ \E p \in paths : destination \in p.destinations

pathAuthorizes(paths, source, destination) ==
    \E p \in paths : source \in p.sources /\ destination \in p.destinations

IsUint64Unchecked(n) == n \in Nat

IsUint64(n) == n <= MaxUint64

CheckKeyGenerate(d) == d.target = Self /\ d.valid

checkKeyDelete(d) == d.target = Self /\ IsUint64(d.nonce)

\* keyRestoreDataCheck, then processKeySplitMessages and RecoverWallet: shares
\* of the backup named by the instruction exist and join to its private key.
keyRestoreDataCheck(d) ==
    /\ d.target = Self
    /\ d.attached.id = d.backupId
    /\ d.backupId.epoch <= d.epoch + 1
    /\ d.valid
    /\ IsUint64(d.nonce)
    /\ d.backupId \in backups

validateAcrossPaths(d) ==
    /\ d.backupId.tee = d.source
    /\ IsUint64(d.listNonce)
    /\ d.listNonce <= pathNonce
    /\ pathAuthorizesAcross(Paths, d.source, Self)
    /\ IsUint64(d.nonce)

validateKeyDirectRestoreRequest(d) ==
    /\ d.backupId.tee = d.source
    /\ IsUint64(d.listNonce)
    /\ d.listNonce <= pathNonce
    /\ pathAuthorizes(Paths, d.source, Self)
    /\ IsUint64(d.nonce)

\* The rest of KeyDirectRestore up to the wallet lock: envelope signature,
\* BackupID, epoch window, decryption and the derived public key.
checkEnvelope(d) ==
    /\ d.attached.signer = d.source
    /\ d.valid
    /\ d.attached.id = d.backupId
    /\ d.epoch \in {d.backupId.epoch, (d.backupId.epoch + 1) % EpochMod}
    /\ d.attached.to = Self
    /\ d.attached.secret = d.backupId.public

validateKeyDirectBackupRequest(d) ==
    /\ d.source = Self
    /\ IsUint64(d.listNonce)
    /\ d.listNonce = pathNonce
    /\ pathAuthorizes(Paths, Self, d.target)

Validates(d) ==
    \/ d.op = "generate"      /\ CheckKeyGenerate(d)
    \/ d.op = "delete"        /\ checkKeyDelete(d)
    \/ d.op = "dpRestore"     /\ keyRestoreDataCheck(d)
    \/ d.op = "directBackup"  /\ validateKeyDirectBackupRequest(d)
    \/ d.op = "directRestore" /\ validateKeyDirectRestoreRequest(d)
                              /\ checkEnvelope(d)

\* A handler's checks before it takes the wallet lock.
validate(h) ==
    /\ h \in DOMAIN running
    /\ running[h].stage = "checked"
    /\ Validates(Data(h))
    /\ running' = [running EXCEPT ![h].stage = "validated",
                                  ![h].seen = pathNonce]
    /\ UNCHANGED <<store, epochState, pathNonce, drawn, backups, history>>

----------------------------------------------------------------------------
(* The sections under the wallet storage's lock.  Return(h) ends the       *)
(* goroutine.                                                              *)

Return(h) == running' = Drop(running, h)

AtLock(h, op, tag) == /\ h \in DOMAIN running
                      /\ running[h].stage = "validated"
                      /\ Data(h).op = op
                      /\ running[h].tag = tag

Commit(i) == committed' = [committed EXCEPT ![i] = @ + 1]

Transfer(h) == [instr |-> running[h].instr, list |-> running[h].seen,
                start |-> running[h].start, epoch |-> activeEpoch]

\* Refusing a key only while it is stored.
CanGenerateIfAbsent(d) == ~WalletExists(store, d.key)

CanGenerate(d) == ~WalletExistsPermanent(store, d.key)

KeyGenerateThreshold(h) ==
    /\ AtLock(h, "generate", "threshold")
    /\ CanGenerate(Data(h))
    /\ ~running[h].ctxErr
    /\ LET d == Data(h)
           r == Store(store, d.key, [secret |-> drawn + 1, restored |-> FALSE])
       IN  /\ store' = r.store
           /\ IF r.ok
              THEN /\ drawn' = drawn + 1
                   /\ proofs' = proofs \cup {KeyExistenceProof(r.store, d.key)}
                   /\ Commit(running[h].instr)
              ELSE UNCHANGED <<drawn, proofs, committed>>
    /\ Return(h)
    /\ UNCHANGED <<epochState, pathNonce, backups, confirmed, transfers>>

\* The End phase returns a proof of whatever wallet is stored under the key.
KeyGenerateEnd(h) ==
    /\ AtLock(h, "generate", "end")
    /\ LET d == Data(h)
       IN  /\ WalletExists(store, d.key)
           /\ proofs' = proofs \cup {KeyExistenceProof(store, d.key)}
           /\ confirmed' = confirmed \cup {running[h].instr}
    /\ Return(h)
    /\ UNCHANGED <<store, epochState, pathNonce, drawn, backups, committed,
                   transfers>>

KeyDeleteThreshold(h) ==
    /\ AtLock(h, "delete", "threshold")
    /\ LET d == Data(h)
       IN  /\ CheckNonce(store, d.key, d.nonce)
           /\ ~running[h].ctxErr
           /\ store' = UpdateNonce(Remove(store, d.key), d.key, d.nonce)
           /\ Commit(running[h].instr)
    /\ Return(h)
    /\ UNCHANGED <<epochState, pathNonce, drawn, backups, proofs, confirmed,
                   transfers>>

\* Confirming although the nonce is still to be used.
DeleteConfirmedAbsent(d) == /\ WalletExistsPermanent(store, d.key)
                            /\ ~WalletExists(store, d.key)

DeleteConfirmed(d) == /\ WalletExistsPermanent(store, d.key)
                      /\ ~WalletExists(store, d.key)
                      /\ ~CheckNonce(store, d.key, d.nonce)

KeyDeleteEnd(h) ==
    /\ AtLock(h, "delete", "end")
    /\ DeleteConfirmed(Data(h))
    /\ confirmed' = confirmed \cup {running[h].instr}
    /\ Return(h)
    /\ UNCHANGED <<store, epochState, pathNonce, drawn, backups, proofs,
                   committed, transfers>>

CanRestore(d) == /\ ~WalletExists(store, d.key)
                 /\ \/ ~WalletExistsPermanent(store, d.key)
                    \/ CheckNonce(store, d.key, d.nonce)

\* The Threshold section of both restores, which is the same in both: the
\* wallet is stored, marked restored, then the nonce is written.
RestoreThreshold(h) ==
    /\ CanRestore(Data(h))
    /\ ~running[h].ctxErr
    /\ LET d == Data(h)
           r == Store(store, d.key,
                      [secret |-> d.backupId.public, restored |-> TRUE])
           s == UpdateNonce(r.store, d.key, d.nonce)
       IN  IF r.ok
           THEN /\ store' = s
                /\ proofs' = proofs \cup {KeyExistenceProof(s, d.key)}
                /\ Commit(running[h].instr)
                /\ transfers' = transfers \cup {Transfer(h)}
           ELSE /\ store' = r.store
                /\ UNCHANGED <<proofs, committed, transfers>>
    /\ Return(h)
    /\ UNCHANGED <<epochState, pathNonce, drawn, backups, confirmed>>

\* Confirming from any later nonce.
RestoreConfirmedLater(d) == /\ WalletExists(store, d.key)
                            /\ Nonce(store, d.key) >= d.nonce

RestoreConfirmed(d) == /\ WalletExists(store, d.key)
                       /\ Nonce(store, d.key) = d.nonce

RestoreEnd(h) ==
    /\ RestoreConfirmed(Data(h))
    /\ confirmed' = confirmed \cup {running[h].instr}
    /\ Return(h)
    /\ UNCHANGED <<store, epochState, pathNonce, drawn, backups, proofs,
                   committed, transfers>>

KeyDataProviderRestore(h) ==
    \/ AtLock(h, "dpRestore", "threshold") /\ RestoreThreshold(h)
    \/ AtLock(h, "dpRestore", "end") /\ RestoreEnd(h)

KeyDirectRestore(h) ==
    \/ AtLock(h, "directRestore", "threshold") /\ RestoreThreshold(h)
    \/ AtLock(h, "directRestore", "end") /\ RestoreEnd(h)

\* The wallet is copied under the read lock; the envelope leaves the node
\* unless the context has expired meanwhile.
KeyDirectBackup(h) ==
    /\ \/ AtLock(h, "directBackup", "threshold") /\ ~running[h].ctxErr
          /\ transfers' = transfers \cup {Transfer(h)}
          /\ UNCHANGED confirmed
       \/ AtLock(h, "directBackup", "end")
          /\ confirmed' = confirmed \cup {running[h].instr}
          /\ UNCHANGED transfers
    /\ WalletExists(store, Data(h).key)
    /\ Return(h)
    /\ UNCHANGED <<store, epochState, pathNonce, drawn, backups, proofs,
                   committed>>

\* The conditions under which a handler at the lock succeeds.
Accepts(h) ==
    LET d == Data(h)
        due == ~running[h].ctxErr
    IN  IF running[h].tag = "threshold"
        THEN CASE d.op = "generate"     -> due /\ CanGenerate(d)
               [] d.op = "delete"       -> /\ due
                                           /\ CheckNonce(store, d.key, d.nonce)
               [] d.op = "directBackup" -> due /\ WalletExists(store, d.key)
               [] OTHER                 -> due /\ CanRestore(d)
        ELSE CASE d.op = "delete"       -> DeleteConfirmed(d)
               [] d.op \in RestoreOps   -> RestoreConfirmed(d)
               [] OTHER                 -> WalletExists(store, d.key)

\* A handler that fails a check returns an error and changes nothing.  Too few
\* shares may come with a data-provider restore at any time.
Reject(h) ==
    /\ h \in DOMAIN running
    /\ \/ running[h].stage = "checked"
          /\ \/ ~Validates(Data(h))
             \/ Data(h).op = "dpRestore"
       \/ running[h].stage = "validated" /\ ~Accepts(h)
    /\ Return(h)
    /\ UNCHANGED <<store, epochState, pathNonce, drawn, backups, history>>

----------------------------------------------------------------------------
(* Direct actions.                                                         *)

InitializePolicy(e) ==
    /\ Policy!Initialize(e)
    /\ UNCHANGED <<store, pathNonce, running, drawn, backups, history>>

UpdatePolicy ==
    /\ Policy!Advance
    /\ UNCHANGED <<store, pathNonce, running, drawn, backups, history>>

\* A governance-signed list is installed if its nonce is higher.
SetMachinePathList(n) ==
    /\ n > pathNonce
    /\ pathNonce' = n
    /\ UNCHANGED <<store, epochState, running, drawn, backups, history>>

\* Proofs for all the requested keys, or an error: the payloads are built under
\* one read lock (the signatures added later cover those payloads).
KeysProof(requested) ==
    /\ requested \subseteq DOMAIN store.wallets
    /\ proofs' = proofs \cup {KeyExistenceProof(store, k) : k \in requested}
    /\ UNCHANGED <<store, epochState, pathNonce, running, drawn, backups,
                   committed, confirmed, transfers>>

\* Both storages are read-locked: wallet and active policy belong together.
TEEBackup(k) ==
    /\ WalletExists(store, k)
    /\ activeEpoch # Policy!NoEpoch
    /\ backups' = backups \cup {[tee |-> Self, key |-> k,
                                 public |-> store.wallets[k].secret,
                                 epoch |-> activeEpoch]}
    /\ UNCHANGED <<store, epochState, pathNonce, running, drawn, history>>

----------------------------------------------------------------------------
Handle(h) ==
    \/ \E i \in Instructions, tag \in Tags : preprocess(h, i, tag)
    \/ Timeout(h)
    \/ validate(h)
    \/ KeyGenerateThreshold(h)
    \/ KeyGenerateEnd(h)
    \/ KeyDeleteThreshold(h)
    \/ KeyDeleteEnd(h)
    \/ KeyDataProviderRestore(h)
    \/ KeyDirectRestore(h)
    \/ KeyDirectBackup(h)
    \/ Reject(h)

DirectAction ==
    \/ \E e \in InitialEpochs : InitializePolicy(e)
    \/ UpdatePolicy
    \/ \E n \in 1 .. Len(PathLists) : SetMachinePathList(n)
    \/ \E requested \in SUBSET Keys : KeysProof(requested)
    \/ \E k \in Keys : TEEBackup(k)

Next == DirectAction \/ \E h \in Handlers : Handle(h)

Spec == Init /\ [][Next]_vars

----------------------------------------------------------------------------
(* Properties.                                                             *)

\* If a wallet is stored, its status is the very object of the key's permanent
\* record (the comment on Storage, storage.go), no two keys share one, and the
\* nonce a proof reports is therefore the nonce replay protection compares.
StatusShared == StatusIsShared(store)

\* Replay protection: however often, late or concurrently an instruction is
\* delivered, KeyGenerate, KeyDelete and the restores let it take effect once.
AtMostOnce == \A i \in Instructions : committed[i] <= 1

\* Two signed existence proofs of the same key and nonce are the same proof: the
\* chain can tell by the nonce which private key the node holds.
ProofsUnambiguous ==
    \A p, q \in proofs : p.key = q.key /\ p.nonce = q.nonce => p = q

\* No other instruction that writes the key's nonce carries i's nonce.
SoleNonce(i) ==
    /\ DataFixed[i].nonce > 0
    /\ \A j \in Instructions :
          /\ DataFixed[j].op \in NonceOps
          /\ DataFixed[j].key = DataFixed[i].key
          /\ DataFixed[j].nonce = DataFixed[i].nonce
          => j = i

\* An accepted End of a restore confirms that its Threshold took effect, as
\* long as the contract gives every nonce of a key to one instruction.
RestoreEndConfirms ==
    \A i \in confirmed :
       DataFixed[i].op \in RestoreOps /\ SoleNonce(i) => committed[i] = 1

\* After an End was accepted the instruction can no longer take effect, even if
\* its Threshold was never delivered or still runs in an abandoned handler.
EndIsFinal ==
    [][\A i \in confirmed : committed'[i] = committed[i]]_vars

\* A permanent record is only there for a key some instruction stored: a Store
\* refused for lack of room leaves no record behind; and neither map outgrows
\* its limit.
RecordsEarned ==
    /\ \A k \in DOMAIN store.permanent : \E i \in Instructions :
          /\ DataFixed[i].key = k
          /\ DataFixed[i].op \in RestoreOps \cup {"generate"}
          /\ committed[i] > 0
    /\ Cardinality(DOMAIN store.wallets) <= MaxWallets
    /\ Cardinality(DOMAIN store.permanent) <= MaxPermanentWalletsStatus

\* The machine-path list with the given nonce pairs the two ends of a direct
\* transfer, and is no older than the handler's start and the quorum's view.
ListAllows(d, list, start) ==
    /\ list \in 1 .. Len(PathLists)
    /\ start <= list
    /\ d.listNonce <= list
    /\ IF d.op = "directBackup"
       THEN pathAuthorizes(PathLists[list], Self, d.target)
       ELSE pathAuthorizes(PathLists[list], d.source, Self)

\* A private key leaves or enters directly only along one path of one list that
\* was current while the handler ran, never on a list already replaced when the
\* handler started, and never on a list older than the one the quorum saw.
TransfersAuthorized ==
    \A t \in transfers : DataFixed[t.instr].op \in DirectOps =>
                            ListAllows(DataFixed[t.instr], t.list, t.start)

\* The storage seen from the chain: the nonce of a key, and what it holds.
KeyNonces == [k \in Keys |-> IF WalletExistsPermanent(store, k)
                             THEN Nonce(store, k) ELSE -1]

KeyHolds == [k \in Keys |-> IF WalletExists(store, k)
                            THEN {[secret   |-> store.wallets[k].secret,
                                   restored |-> store.wallets[k].restored]}
                            ELSE {}]

\* The storage implements the life of a key seen from the chain.
Lifecycle == INSTANCE KeyLifecycle WITH
                nonce <- KeyNonces, holds <- KeyHolds, attested <- proofs

\* Whatever the handlers interleave to, what is held under a key changes only
\* with a strictly higher nonce, and every proof tells what is held.
ImplementsLifecycle == Lifecycle!LifecycleSpec

\* docs/wallets.md on KeyGenerate's End phase: "confirms Threshold executed".
GenerateEndConfirms ==
    \A i \in confirmed : DataFixed[i].op = "generate" => committed[i] = 1

\* docs/backup-restore.md on Direct Restore: "the node's current reward epoch
\* must be the backup's epoch or one greater".
RestoredWithinWindow ==
    \A t \in transfers :
       DataFixed[t.instr].op = "directRestore" =>
          t.epoch - DataFixed[t.instr].backupId.epoch \in {0, 1}

----------------------------------------------------------------------------
(* The inductive invariant behind the properties above.                    *)

\* A handler that passed its checks may write its nonce into a status and
\* transfers along the list it has read, even if that is replaced by now.
HandlerSound(r, n) ==
    /\ r.start <= n
    /\ r.stage = "validated" =>
          LET d == DataFixed[r.instr]
          IN  /\ d.op \in NonceOps => IsUint64(d.nonce)
              /\ d.op \in DirectOps => ListAllows(d, r.seen, r.start)

HandlersSound == \A h \in DOMAIN running : HandlerSound(running[h], pathNonce)

\* Instruction i can no longer take effect.
Spent(i) ==
    /\ WalletExistsPermanent(store, DataFixed[i].key)
    /\ DataFixed[i].op \in NonceOps =>
          DataFixed[i].nonce <= Nonce(store, DataFixed[i].key)

DoneIsSpent ==
    \A i \in Instructions : committed[i] > 0 \/ i \in confirmed => Spent(i)

\* A proof is of the past, or of the wallet now stored.
ProofsCovered ==
    \A p \in proofs :
       /\ WalletExistsPermanent(store, p.key)
       /\ p.nonce <= Nonce(store, p.key)
       /\ p.nonce = Nonce(store, p.key) =>
             WalletExists(store, p.key) /\ p = KeyExistenceProof(store, p.key)

\* The nonce of a record is that of an instruction which took effect.
NonceHasOrigin ==
    \A k \in DOMAIN store.permanent :
       \/ Nonce(store, k) = 0
       \/ \E i \in Instructions : /\ DataFixed[i].op \in NonceOps
                                  /\ DataFixed[i].key = k
                                  /\ DataFixed[i].nonce = Nonce(store, k)
                                  /\ committed[i] > 0

IInv == /\ TypeOK
        /\ StatusShared
        /\ HandlersSound
        /\ TransfersAuthorized
        /\ DoneIsSpent
        /\ AtMostOnce
        /\ ProofsCovered
        /\ ProofsUnambiguous
        /\ NonceHasOrigin
        /\ RestoreEndConfirms
=============================================================================
