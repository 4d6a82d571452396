# A TLA+ model of tee-node

The TEE node of the Flare protocol-managed wallets (`src/`, Go) holds private
keys inside a trusted execution environment and uses them only on instructions
that a quorum of data providers has signed. This directory models the parts of
it that decide *whether* the node acts and *what* it then holds, attests and
gives away, checks them with TLC on small instances and proves the central
results with TLAPS for all instances.

Sections: [the system](#the-system), [modules](#modules),
[runs](#runs-and-what-they-show),
[divergences](#divergences-between-text-and-code), [proofs](#proofs),
[limits](#what-is-only-model-checked-and-what-is-not-modelled), [plan](#plan).

## The system

### Parts, state and operations

| part | source | state | operations |
|---|---|---|---|
| wallet storage | `internal/wallets/storage.go`, `pkg/wallets/keys.go` | active wallets; permanent status records; both maps point to the same status object; one RWMutex | Store, Remove, UpdateNonce, CheckNonce, Get |
| wallet instructions | `internal/processors/instructions/walletutils` | none of their own | KEY_GENERATE, KEY_DELETE, KEY_DATA_PROVIDER_RESTORE, KEY_DIRECT_BACKUP, KEY_DIRECT_RESTORE, each with a Threshold phase (the effect) and an End phase (confirmation and rewarding) |
| instruction pipeline | `internal/processors/instructions` | none | Process: policy of the instruction's epoch, its age, TEE id, distinct signers, thresholds, then the handler |
| thresholds | `pkg/processorutils` | none | CheckThresholds, CheckMatchingCosigners |
| policy storage | `internal/policy/policy.go` | active policy, its voters' public keys, stored policies, initial id and hash; one RWMutex | SetInitialPolicy, SetActiveSigningPolicy, SetActiveSigningPolicyPublicKeys, Info |
| policy actions | `internal/processors/direct/policyutils` | none | INITIALIZE_POLICY, UPDATE_POLICY, SET_MACHINE_PATH_LIST |
| node | `internal/node/node.go` | identity key, owner, extension id, chain id, governance, machine-path list; one RWMutex | one-shot setters, SetMachinePathList, getters, Info |
| config server | `internal/settings/config.go` | proxy URL | POST handlers calling the setters |
| direct reads | `internal/processors/direct/getutils` | none | TEE_INFO, KEY_INFO, KEY_PROOF, TEE_BACKUP |
| router | `internal/router` | routes; three endless queue workers | fetch with retries, process under a deadline, drain, sign and post |
| XRP signing | `instructions/signutils` | count of posting goroutines | SignXRPLPayment |
| backup | `internal/wallets/backup`, `pkg/wallets/backup` | none | BackupWallet (weights to share counts, two parts, Shamir shares), RecoverWallet |
| extension | `internal/extension`, the default processors | none | forward actions, POST /result; sign, decrypt and key endpoints |
| FDC2, VRF, registration, attestation | rest of `internal/processors`, `internal/attestation` | none | stateless computations on wallets, node and policy |

### How they interact

A proxy outside the enclave queues *actions*. Three workers (main, direct,
backup) fetch them; which kind of action travels in which queue is the proxy's
choice. A worker runs an action in a goroutine of its own, with a context that
expires after a deadline; if the goroutine does not return soon after, it is
abandoned and runs on. Instructions go through the pipeline to their handler;
direct actions go to their handler at once. Handlers share the wallet storage,
the policy storage and the node, each behind its own lock, and take the locks
one after the other. The config server writes the node concurrently.

In extension mode actions without a processor of their own are posted to an
extension, a service beside the node, which may act on them in its own time and
send results through the node's sign server.

A data-provider backup leaves the node as splits encrypted to admins and
providers. A restore is an instruction whose signers bring splits back, each in
a message of its own; the proxy collects them, and the node computes the key
once for the Threshold and again for the End, from what was collected by then.

The proxy is not trusted for delivery: it may delay, drop, repeat or reorder
what it relays. It cannot forge: an instruction carries the signatures of its
quorum, a policy those of its predecessor's voters, a machine-path list those of
governance. Nothing is persisted; a restarted node is a new node.

### What is hard

* Replay and reordering: only nonces and permanent records prevent a second
  effect, and nonces are compared under a lock taken after other checks.
* Timeouts: a handler past its deadline may still be about to write while the
  instruction is sent again.
* Two phases: an End may come before, during or without its Threshold.
* Aliasing: a wallet and its record must be the same status object.
* Limits: two maps with two limits, filled by one operation.
* Reads under several locks: lists, epochs and configuration may change between
  reading and acting.
* Arithmetic at the edge: uint16 weights, uint32 epochs, uint64 nonces, basis
  points rounded down and compared with `>`, weights scaled to share counts,
  share indices that start at 1.
* Input from many: a restore takes splits from signers who may bring anything,
  under metadata that only a quorum vouches for.

`PROJECT.json` lists these as hazards, each at its line with the properties that
would catch it going wrong, or with the reason why none does.

## Modules

| module | models | notes |
|---|---|---|
| `WalletStorage` | `storage.go`, `keys.go` | a data type: a storage value and operators on it; pointers are addresses in a heap of statuses |
| `WalletProcessor` | wallet instructions, pipeline, timeouts, direct actions on wallets | one action per handler phase; a handler's steps are its lock sections |
| `KeyLifecycle` | abstract | what the chain may rely on about one key: what is held changes only with a higher nonce, proofs tell what is held |
| `PolicyStorage` | `policy.go`, INITIALIZE_POLICY, UPDATE_POLICY, TEE_INFO | extends `Authorization` |
| `RewardEpochs` | abstract | the epochs stored: the first is free, then one step at a time; `PolicyStorage` implements it and `WalletProcessor` reads it |
| `Authorization` | thresholds, weights, cosigners, FDC2 override | pure operators |
| `Admission` | `preprocess`, `loadPrivateKeys` | extends `Authorization`: one request, its signers, a policy and a wallet are drawn, and the verdict is kept |
| `Node` | `node.go`, config server, SET_MACHINE_PATH_LIST | a handler's steps are the getters it calls |
| `Router` | `router.go`, `queue.go`, `SignResult`, the proxy URL, the default processors, POST /result | a worker and the goroutines it waits for or has abandoned, and the extension |
| `SignSchedule` | `SignXRPLPayment` and its goroutine | slots, posts and their statuses |
| `KeyBackup` | `BackupWallet`, `weightsNormalization`, `SplitAndEncrypt`, `shamir.go`, `split_key.go` | the loops step by step, in uint16 and in a small prime field |
| `KeyRestore` | `processKeySplitMessages`, `RecoverWallet`, both phases of KEY_DATA_PROVIDER_RESTORE up to the lock | shares are symbolic |
| `WalletProcessorProofs`, `NodeProofs`, `RouterProofs`, `SignScheduleProofs`, `KeyBackupProofs`, `KeyRestoreProofs` | | theorems about the module named |
| `AuthorizationProofs` | | theorems about `PolicyStorage` and `Admission`, which both extend `Authorization` |
| `FoldTheorems` | | lemmas about sums over finite sets and folds over sequences, for the proofs |
| `MCWallet`, `MCPolicy`, `MCAuthorization`, `MCNode`, `MCRouter`, `MCSchedule`, `MCKeyBackup`, `MCKeyRestore` | | instances for TLC |

`WalletProcessor` composes the wallet storage with the promise of the policy
storage (`RewardEpochs`) and the machine-path list of the node. That
`PolicyStorage` keeps this promise is the property `ImplementsEpochs` (proved);
that a list nonce identifies a list, which `PathLists` as a sequence takes for
granted, is `NonceIdentifiesList` of `Node` (proved); instructions are taken as
quorum-signed, which is what `Admission` is about. The backups of
`WalletProcessor` are ids; how one is cut is `KeyBackup`, and how a key comes
back from the splits of one is `KeyRestore`. The two meet in Lagrange
interpolation: `KeyRestore` takes for granted that enough points of one part
give that part, which `QuorumsRecover` says (proved), and that fewer give another
value. With real shares fewer points could hit the right value by chance, with
the probability of guessing the key (`MinorityLearnsNothing`, proved).

### State and actions against the code

*Wallet handlers.* `preprocess` is `Process` up to the handler's call;
`validate` is what a handler checks before it takes the wallet lock, with the
list nonce it has read in `seen`; `KeyGenerateThreshold`, `KeyDeleteThreshold`,
`RestoreThreshold`, ... are the sections under the lock. Every failing check is
`Reject`, which ends the goroutine and changes nothing. `Timeout` sets
`ctx.Err()` at any moment of a Threshold phase; whether the worker still waits
makes no difference to the state. A Threshold looks at its context once, just
before the first write, and so does the action.

*Workers.* `Router` sees a processor from outside, as its caller does: it looks
at its context once (or never: `SignXRPLPayment` does not), changes the state
some time later, and returns, fails before that, panics, or never comes back.
One iteration of the loop is `Poll`, one of the `Fetch...` actions, `Deadline`,
`Receive` or `Abandon`, `signAndPost` and possibly `PostFallback`. Deadline and
drain timer may fire at any time; when a result is there too, `select` takes
either, and so may the model. An error from the proxy does not tell whether it
received what was sent. `WalletProcessor` and `Router` meet in `Timeout` and
`CheckContext`: the first says what a late handler does to wallets, the second
what the proxy is told about it.

*Schedules.* In `SignSchedule` a call and the goroutine it starts are one
record. The two additions around the comparison with the cap are two steps, and
so are the end of the loop and the deferred function.

*Extension.* `mode` says which actions the router has processors for. A
forwarded action is posted once it has passed the checks; the processor ignores
its context, so the call goes on after the deadline. The extension acts while
the call waits or after it failed. It is assumed to name the action it answers,
and to report success only for what it acted on; `postResultHandler` signs
whatever it is given.

*Backups.* `KeyBackup` is one call, so its actions are the iterations of its
loops. `sum` and `total` are reduced modulo `Width` where the code has uint16.
The coefficients and the first part are any field elements. `prefix` and `marks`
remember the running sums for the properties. In `KeyRestore` the proxy inserts
messages anywhere in the list, since the End may list the signers in another
order; a message that cannot be decrypted or parsed is not `readable`; a split
carries whether the wallet key signed just this content. The metadata of the
instruction is one of several, of which one is that of the backup: a quorum may
sign any.

*Data.* A private key is a number, drawn in order; a public key is its private
key. Signatures are their signers; hashes are what is hashed. A data-provider
backup is its id, and shares of it can be brought if it was made (`backups`);
that too few come is a `Reject` possible at any time (`KeyRestore` says when).
An envelope of a direct backup is its signer, the TEE that can open it and the
key inside. Member counts, algorithms and encodings are one flag, `valid`.

*History.* `proofs`, `committed`, `confirmed`, `transfers` (and `approvals`,
`infos`, `approval`) record what was signed or accepted, for the properties;
no guard reads them.

*Mutants.* Next to some definitions stands a variant with a plausible slip
(`CheckNonceLax`, `StoreUnshared`, ...). No action uses one; they document which
detail of the code a property depends on, and `PROJECT.json` pairs each property
with the variant that breaks it.

## Runs and what they show

| run | config | distinct states | properties |
|---|---|---|---|
| lifecycle | `MCLifecycle.cfg` | 139 000 | `StatusShared`, `AtMostOnce`, `ProofsUnambiguous`, `RestoreEndConfirms`, `EndIsFinal` |
| capacity | `MCCapacity.cfg` | 93 000 | `TypeOK`, `RecordsEarned`, `ImplementsLifecycle` |
| direct | `MCDirect.cfg` | 190 000 | `TransfersAuthorized` |
| authorization | `MCAuthorization.cfg` | 50 000 | `QuorumReached`, `NobodyRefused`, `MajoritySomewhere`, `WalletCosignersSigned` |
| policy | `MCPolicy.cfg` | 12 400 | `TypeOK`, `ChainOfTrust`, `KeysAreOfActive`, `InfosTellOfStored`, `StoredPoliciesStay`, `ImplementsEpochs` |
| node | `MCNode.cfg` | 180 000 | `ListGoverned`, `NonceIdentifiesList` |
| router | `MCRouter.cfg` | 754 000 | `TypeOK`, `AnsweredOnce`, `SignedFailuresFlagged`, `Addressed`, `WorkerReturns` |
| schedule | `MCSchedule.cfg` | 135 000 | `CapHolds`, `SlotsCounted`, `StatusTells`, `SlotsReturn` |
| backup | `MCKeyBackup.cfg` | 123 000 | `SharesPartitioned`, `NobodyShortened`, `SharesFollowWeight`, `QuorumsRecover`, `MinorityLearnsNothing`, `BackedUp` |
| restore | `MCKeyRestore.cfg` | 180 000 | `QuorumsNeeded`, `EndRecoversToo`, `UnblamedAreUseful`, `JunkHarmless` |

*lifecycle* follows one key through a generate, two deletes and two restores,
one of a backup of its own and one of another TEE's. Two handlers are enough for
every race over one lock, since a handler's steps outside of the lock only read;
each may run any instruction any number of times. *capacity* has three keys, one
wallet slot and two records, so both limits refuse, alone and together; the
deleted key keeps its record. *direct* installs two lists that pair this node
first with its peer and then with a third TEE, crosswise, so that combining the
source of one path with the destination of another would authorise something
neither allows. *policy* wraps the epoch from 3 to 0 and contains a policy whose
weights sum up beyond the width; the public keys submitted with a policy are
those of the voters of any policy, since nobody signs them. *authorization* draws
one input per behaviour; the basis points are the boundaries of every comparison
in `dataProvidersThreshold`. One of its policies has the weights 9 and 8 at a
width of 16, so that its `TotalWeight` is 1, and the voter with 8 of the 17
passes an override of 50%: the code's share is one of `TotalWeight`, a uint16,
and so `QuorumReached` and `MajoritySomewhere` are stated. They are about all the
weight only where the weights of a policy fit a uint16, which nothing in `src/`
ensures (the shared library decodes policies); `NobodyRefused` is only stated
for policies whose weights do. *node* lets two handlers read while every setter may
fire between two reads; the requests are signed for either governance and either
extension, by one signer twice, with a stranger, for another chain, and two
lists with one nonce. *router* has one worker and two actions, so that an
abandoned goroutine goes on while the worker handles the next one; workers share
nothing but the configuration, which they only read, and one stands for all
three. Base mode has a processor that looks at its context and one that does
not; extension mode forwards. *schedule* has three calls for one slot and
`StatusMod = 5` with three entries, the longest schedule whose statuses fit.
*backup* takes all lists of up to three weights of at most 2, lists whose sum is
the largest that fits, and lists that overflow; 4 shares with a threshold of 3
keep the 2/3 of the code, and modulo 5 every polynomial and every first part can
be tried. *restore* has two backups of one key for three owners that are admins
and providers at once, one of them too light for a provider share. Two messages
can suffice, so that with three there is always room for one of any kind before,
between, after, or between Threshold and End; the metadata is the true one or
differs from it in one thing.

Bounds: `MaxUint64 = 5` with a nonce of 9 beyond it; `EpochMod = 4`;
`MaxUpdates` below `EpochMod`, since after 2^32 updates an epoch would be filed
over the first one; `WeightMod` 8 or 16. Handlers are symmetric; instructions
and keys are not, and no symmetry is used with a temporal property that could
be affected: the ones checked are action properties and refinements without
fairness. Deadlock is checked for wallets and the node, which can always accept
another request. `PolicyStorage` stops at its bound on updates and an
authorization behaviour is over after its one step, a backup is one call, and a
restore is over after its End.

Fairness: none is assumed for wallets, policies and the node, whose properties
are safety properties. `Router` assumes weak fairness of each worker's steps:
the loop is endless, the Go scheduler runs it again, the deadline and drain
timers fire and every HTTP call has a client timeout. Nothing is assumed of
processors: `WorkerReturns` holds if none ever returns. `SignSchedule` assumes
weak fairness of each goroutine: its sleeps are bounded by `MaxFeeScheduleTime`
and its posts by `ProxyTimeout`. Whether a post succeeds is never assumed.
`KeyBackup` assumes weak fairness of its steps: BackupWallet is a sequence of
bounded loops that waits for nobody (its randomness does not run dry).

What *backup* shows about rounding: the weights are scaled one after the other,
each to its proportion of what is left, so what is rounded away from one
provider goes to later ones. Nobody gets less than its proportion rounded down
and all 1000 shares are given out. A coalition can however end up with more than
its proportion, by less than one share for every provider outside of it: with
many providers 666 shares may be held by somewhat less than 66.6% of the weight.
`SharesFollowWeight` states both bounds.

What *restore* shows: no metadata makes a key recoverable from fewer shares than
the backup asked for, since the public key is compared in the end. The recovered
wallet has the admins and thresholds of the metadata, not of the backup; that
they are the same is up to the quorum that signs. A message with a duplicate and
a fresh split is named in the status, and its fresh split used all the same.

The log of a result, where a worker says that the state is unknown, is not
covered by the result's signature (`ActionResult.Hash` takes data, id, tag and
status): `SignedFailuresFlagged` is about what the node sends, not about what a
proxy may pass on. Nor does an unsigned result carry the flag: while the chain
id is not set, `SignResult` replaces the log, so the property is restricted to
signed results.

## Divergences between text and code

Two of these are runs that are expected to end in a violation.

| run | text | code |
|---|---|---|
| generate_end | `docs/wallets.md:31`: End "confirms Threshold executed" | `walletutils/processor.go:91` returns a proof of whatever is stored: a restored key confirms a generate that never ran |
| window | `docs/backup-restore.md:201`: "the node's current reward epoch must be the backup's epoch or one greater" | `walletutils/processor.go:567` compares with the instruction's epoch, which may lag by one |

The others were met while modelling and need no run:

* `policy.go:75` on `Info`: "chainID must match the one SetInitialPolicy was
  given"; `getutils/processor.go:46` reads it before, possibly when it is not set
  yet. `InfosTellOfStored` holds with this exception.
* `docs/configuration.md:14`: the governance threshold is of *distinct* signatures
  and "`<=` the number of signers"; `node.go:327` counts list entries, so a
  repeated signer makes a threshold nobody can reach, for good.
* `walletutils/processor.go:230`: an error after the messages are processed
  "implies that ether the shares are not sufficient, or that the shares have been
  tampered"; `CheckKeyShares` also fails when the metadata leaves out an admin
  whose split was brought. `JunkHarmless` and `EndRecoversToo` are therefore stated
  for metadata that names all admins (`Complete`).
* `docs/extensions.md:147`: POST /result "retries posting to the proxy for up to
  100 ms"; `server.go:263` sends one unsigned notice instead.
* `direct/default.go:26`: the context "should" cancel the call to the extension;
  the parameter is not used.

The same epoch lag lets a data-provider restore be signed under the policy
before the current one, where `docs/backup-restore.md:113` speaks of the current
one.

None contradicts a safety property above: a delayed restore is still signed by
a quorum, confirmed at most once and attested with its nonce.

## Proofs

TLC shows the properties on the instances above; the theorems here hold for
every value of the constants. TLC has checked every invariant named `IInv` on
the instances of the runs as well, and so it has `RestoreInv`.

Assumptions are the named ones of the modules, which TLC evaluates in the runs.
They say that limits are natural numbers and inputs are well-formed records, and
beyond that:

* `WalletProcessor`: the key of a restore is the key of its backup id;
* `PolicyStorage` and `WalletProcessor`: there are fewer updates than epochs,
  2^32 in the code. At one per reward epoch that is never reached; with more, a
  policy would be filed over the initial one and `StoredPoliciesStay` would fail;
* `SignSchedule`: `MaxFeeEntries + 1 < StatusMod` (51 < 256 in the code);
* `Node`: 0 is no chain id (the setter refuses it), and a request carries at most
  one Safe approval;
* `Router`: no URL the config server accepts is empty, and the processors that
  forward to the extension do not look at their context;
* `KeyBackup`: the field has more elements than there are shares, and every
  element but 0 has an inverse (`mustPrimeField`; secp256k1's order in the code);
* `KeyRestore`: no index is issued twice in a group (for the providers that is
  `SharesPartitioned` of `KeyBackup`, proved), and a split that the wallet key
  signed is one that BackupWallet made. Other splits may be anything.

### Wallets: `WalletProcessorProofs`

For any sets of keys, handlers, instructions and lists and any limits,

* `TypeCorrectness`, `SharedStatus`, `ReplayProtection`, `UnambiguousProofs`,
  `RestoreConfirmation`, `AuthorizedTransfers`, `EarnedRecords`: `Spec => []P`;
* `Finality`: `Spec => EndIsFinal`, an action property;
* `LifecycleImplemented`: `Spec => ImplementsLifecycle`, the refinement of
  `KeyLifecycle`.

The first part of the module states what each storage operation does to a
well-formed storage with shared statuses: it stays well-formed and shared, which
nonces it moves and in which direction, which records and wallets it adds. None
of the properties is inductive alone. The invariant `IInv` adds:

* `HandlersSound`: a handler past `validate` carries a nonce that fits and a
  list nonce whose list allowed the transfer, though it may be replaced since;
* `DoneIsSpent`: an instruction that took effect or was confirmed is *spent*:
  its key has a record and, if it carries a nonce, the record's nonce is at
  least that. A spent instruction stays spent because nonces of records never
  fall and records never vanish, and a spent instruction passes no Threshold.
  `AtMostOnce` and `EndIsFinal` follow;
* `ProofsCovered`: every proof is either of a nonce below the record's or is the
  proof of the wallet now stored. So a new proof can only repeat an old one or
  have a new nonce: `ProofsUnambiguous`;
* `NonceHasOrigin`: a non-zero nonce of a record was written by an instruction
  that took effect. If that nonce belongs to one instruction only, an End that
  reads it confirms that instruction: `RestoreEndConfirms`.

The step from the actions to these conjuncts goes through one lemma,
`StepKinds`: every step either keeps the storage and the commits or commits one
instruction, which then moves the nonce of its key up. The lemmas on the
conjuncts only distinguish these two kinds.

`EarnedRecords` needs that the domains of both maps are finite (`RecordsInv`),
since the limits are compared with their sizes before one key is added
(`RoomForOne`). `LifecycleImplemented` maps the nonce of a key to that of its
record (`KeyNonces`, -1 without one), what is held to the stored wallet
(`KeyHolds`) and the proofs to themselves. A commit is an `Enter` or a `Leave`
of the abstract key (`CommitsConsumes`), every other step attests stored wallets
or stutters (`KeepsAttests`). That the mapped nonce is the wallet's own is
`StatusShared`: with two status objects the refinement would fail.

### Policies: `AuthorizationProofs`, first part

For any policies, weights, voters and epoch width: `TypeCorrect`,
`TrustIsChained`, `KeysOfActivePolicy`, `InfosAreOfStored` (invariants),
`StoredPoliciesDoStay` (an action property) and `EpochsImplemented` (the
refinement of `RewardEpochs`). `IInv` adds that before the initial policy there
is nothing (`Empty`), that the active policy is the stored one of its epoch
(`Initialised`) and, the heart of it, `Consecutive`: the stored epochs are those
from the initial to the active one, as many as there were updates. So the next
epoch is not stored yet as long as the updates do not come round
(`UpdateIsNew`), nothing is overwritten, and what was attested or approved of a
stored policy stays true. `TrustIsChained` compares the weight as the code adds
it up, modulo 2^16, with the exact one: the sum over the signers wraps only
downwards (`ModBound` of `FoldTheorems`). `KeysOfActivePolicy` rests on
`processPolicyPublicKeys`: what is stored is what was submitted, which the voters
do not sign, and only keys that pass the comparison are the voters'
(`KeysOfVoters`).

### Instructions: `AuthorizationProofs`, second part

For any policy, request, list of signers and wallet: `QuorumsAreReached`,
`NobodyIsRefused`, `MajorityIsSomewhere`, `WalletCosignersDidSign`. The
invariant (`Judged`) only says that the verdict is the code's; the work is in
the lemmas about the operators: the signers' weights modulo 2^16 bound the exact
ones from below and are equal to them if all weights of the policy fit
(`WeightsTyped`), exceeding the share rounded down is exceeding the exact
share (`ShareRounded`), an override that passes has 40% and below 50% a majority
of cosigners (`OverrideGuarded`), and without repetitions positions in a list
count cosigners (`CosignersCounted`). The share and the majority in
`QuorumsAreReached` and `MajorityIsSomewhere` are of `TotalWeight`, the total
modulo 2^16; a policy with a larger total is not excluded, and there they may be
a minority of its weight.

### Node: `NodeProofs`

`ListsAreGoverned` and `NoncesIdentifyLists`, for any number of handlers that
read the configuration one lock at a time. The reason is that a setting is
written once (`ConfigOnce`): what a handler has read is still true when it uses
it (`HandlersCurrent`), and what was authorised stays so when another setting
is written (`ConfigureKeepsAuthority`), the extension's default value being the
one exception, which the property names. Nonces rise, so what was attested is of
the present list or of one with a smaller nonce (`InfosOfLists`).

### Router: `RouterProofs`

`TypeCorrect`, `EveryActionAnsweredOnce`, `SignedFailuresAreFlagged` and
`NothingSentNowhere`, for any number of workers, actions and runs in either
mode. `IInv` has one conjunct per kind of state: what a goroutine's result says
about its effect (`RunsOK`: a clean failure had none and will have none), what a
worker may still answer (`WorkersOK`), that no two workers answer for one run
(`RunsApart`), what was posted (`PostsOK`), and that a run has one post unless a
worker has it (`RunsAnswered`).

### Schedules: `SignScheduleProofs`

For any number of calls and any cap,

* `GoroutineCap` and `SlotsAreCounted`. The cap follows from the exact count: a
  call that finds its own addition within the cap has at most that many
  goroutines besides it, whatever calls are being refused. The step is one lemma
  on cardinalities per direction (`Joining`, `Leaving`);
* `Statuses`: `Spec => []StatusTells`, from `PostsKnown`: every post of the
  goroutine has the status `statusOf` gives for its number of transactions, and
  the assumption on `StatusMod` rules out a wrap.

### Backups: `KeyBackupProofs`

For any list of weights, any width and any number of shares that fits it:
`SharesArePartitioned`, `NobodyIsShortened` and
`CoalitionsFollowWeight`.

They follow from `IInv` (`KeyBackupInvariant`), a conjunction per phase of the
call. While weights are added no sum wraps. While they are scaled, the shares
assigned and left add up to all of them, and the shares left are at least in
proportion to the weight left (`AllShares * sum <= total * AllWeight`): this is
why nobody is shortened, and it is what one rounding has to preserve, which is
the lemma `ShareStep`. The last positive weight takes everything
(`sum = 0 => total = 0`), so all shares are assigned and enough for
the slices. While splits are cut, they are consecutive slices of the marks
(`Dealt`), which partition what was assigned.

`CoalitionsFollowWeight` sums this up over any set of providers: the lower bound
is `NobodyShortened` for every member (`CoalitionBound`), the upper one is the
lower one of the others, since the shares of all are `NormalizationConstant`
(`SharesSum`) and the weights of all are the sum of the list (`WeightsSum`). Two
more invariants say that a split has as many shares as its owner's normalized
weight and that scaling went through all of the weight (`Sized`, `UsedUp`).

`QuorumsDoRecover` and `MinoritiesLearnNothing` are about the key, for any
thresholds, any numbers of admins and shares and any modulus that
`FieldAssumption` allows: above the number of shares, and with an inverse for
every element but 0, as the order of secp256k1 has. They need a third invariant,
`KeyInv`: the two parts add up to the key, the shares of a part are the values
of one polynomial of degree below the threshold whose value at 0 is the part,
and every admin has the share of its number. `Sized` and `KeyInv` say of a
finished backup that its splits are disjoint slices of the shares (`SplitsCut`).
The rest is algebra over the operators of the model:

* congruences modulo `Modulus` (`CongAdd`, `CongMul`, `CongUnique`), products
  (`ProductFacts`) and the steps of `evalPolynomial` (`Horner`). `Poly(n)` are
  the functions that n coefficients give, so a polynomial is what it evaluates
  to, and nothing needs degrees or equality of coefficients;
* `Factor`: p(x) = p(a) + (x - a) q(x) with one coefficient less in q. From it,
  by induction on the number of points, `Interpolate`: n coefficients pass
  through any n points. A minority and the point 0 are no more points than there
  are coefficients, so that any value at 0 fits what the minority knows
  (`AnyValueFits`);
* `Lagrange`: what `CombineShamirShares` adds up for n points of a polynomial
  with n coefficients is its value at 0. Again by induction: the sum is linear in
  the values (`CombinedLinear`), the values of (x - a) q(x) need no point at a
  (`Shift`), and the factors of the points add up to 1 (`One`). The inductions
  are over sets (`SetInduction`), and `ModulusFacts` has what the prover is told
  of the field;
* `ArrivalPoints`: in any order of the splits, the points that are collected have
  different indices, lie on the polynomial and are as many as the shares held,
  which is why the first `Threshold` of them are enough (`CombineGives`).

TLC has checked `Sized`, `UsedUp` and `KeyInv` on the instance of the run, too.

### Restores: `KeyRestoreProofs`

For any backups, owners, thresholds, metadata, number and kind of messages:
`QuorumsAreNeeded`, `EndRecovers`, `UnblamedUseful` (invariants) and
`JunkIsHarmless` (an action property).

The handler folds over the messages, over the splits of a message, over the
splits of a group and over their points. Each fold is unrolled into its steps
(`ProcessSteps`, `AddSplitsSteps`, `OfGroupSteps`, `AllPointsSteps`), and an
induction over the steps says what it has collected:

* `ProcessFacts`: the splits of the good messages, each once; a position that is
  not reported has a good message, whose splits no earlier good one brought. A
  duplicate is found by its hash, which tells signed splits apart
  (`HashTellsApart`);
* `OfGroupFacts` and `AllPointsFacts`: the points of a group, all of one part of
  the key, at different indices, since splits of one group have different owners
  and no index is issued twice (`SharesDisjoint`). So there are as many points
  as shares were brought (`CountPoints`);
* `RecoverFacts`: RecoverWallet gives the key exactly if the threshold of the
  metadata is not below that of the backup and the shares reach it, in both
  groups; the first direction needs the public key, the second that the metadata
  names all admins.

With these the outcome is a function of how many shares there are
(`OutcomeFacts`), and one more message, wherever it is put, takes none away
(`MoreMessages`). The invariant `RestoreInv` says that who found the key found
shares enough for the backup *and* for the metadata; the second is what carries
`EndRecoversToo` from the Threshold to the End.

### Folds: `FoldTheorems`

Weights and shares are summed with `MapThenSumSet`, a recursive function on the
subsets of its argument. That there is such a function and what it computes is
proved by induction on the size of the subsets; since no prover here
instantiates a predicate, the induction is on *sets*: a set of naturals that
holds 0 and every successor holds all of them (`SetInduction`). From it follow
that any element may be taken out first (`SumAdd`), that a sum splits
(`SumSplit`), what a running sum computes (`RunningSum`) and that a sum with
reductions modulo 2^16 is never above the exact one (`ModBound`). `FoldLeft` is a
recursive function on sets of positions too; `FoldExists` says that there is one.
What is said of sums holds of any fold whose operation lets two elements swap
(`FoldAnyFirst`), which products modulo a prime are, too.

## What is only model-checked, and what is not modelled

Only model-checked is liveness (`WorkerReturns`, `SlotsReturn`, `BackedUp`),
which rests on fairness and `ENABLED`, outside of the installed provers' reach.

Not modelled: cryptography (signatures, ECIES, VRF), encodings and size limits,
the attestation token, registration, the endpoints by which an extension signs,
decrypts and lists keys (they only read), what holders do with a backup on their
side (`DecryptSplit`, `WalletBackup.Check`), rewarding data, and the delays,
keys and transactions of an XRP schedule. Each component and its status are
listed in `PROJECT.json`.

## Plan

1. Done: wallet storage, wallet instructions, authorization, policy storage,
   node configuration, router with extension mode, XRP schedules, backup and
   restore of keys; proofs for all of them.
2. `DirectTransfer`: two TEEs, each a `WalletProcessor`, with envelopes between
   them; which nodes can hold a key at which nonce.
