----------------------------- MODULE KeyRestore -----------------------------
(***************************************************************************)
(* How KEY_DATA_PROVIDER_RESTORE puts a key together from the splits that  *)
(* signers bring (KeyDataProviderRestore, processKeySplitMessages and      *)
(* RecoverWallet).  The action is computed twice, for the Threshold and    *)
(* for the End tag, from the messages the proxy has by then.               *)
(*                                                                         *)
(* Shares are symbolic: a point stands for what it was dealt from, and     *)
(* interpolation gives that part for enough points of it and another value *)
(* otherwise.  That real shares do so is checked in KeyBackup.  Storing    *)
(* the wallet is in WalletProcessor, as are the checks of the request.     *)
(***************************************************************************)
EXTENDS Naturals, Sequences, FiniteSets, SequencesExt

CONSTANTS Backups,        \* ids of backups of the one key, for the same owners
          AdminShares,    \* by admin: the indices of its shares
          ProviderShares, \* by provider
          AdminsThreshold, ProvidersThreshold,    \* of the backups
          Metadata,       \* what instructions carry as backup metadata
          Messages,       \* what signers may bring
          MaxMessages

Groups == {"admin", "provider"}
Issued(g) == IF g = "admin" THEN AdminShares ELSE ProviderShares
Threshold(g) == IF g = "admin" THEN AdminsThreshold ELSE ProvidersThreshold

\* The field the backups were made over, and the other known one.
FieldIDs == {"order", "above256"}

\* A KeySplit as BackupWallet made it: its shares, PartialWalletBackupID,
\* owner, and whether the wallet key signed just this for this chain.
KeySplit(id, g, o) ==
    [id |-> id, group |-> g, owner |-> o, shares |-> Issued(g)[o],
     signed |-> TRUE]

Splits == UNION {{KeySplit(id, g, o) : id \in Backups, o \in DOMAIN Issued(g)} :
                     g \in Groups}

\* What is brought: only what the wallet key did not sign can differ from those.
AllBrought == UNION {Range(m.splits) : m \in Messages}

\* No index is issued twice in a group (KeyBackup).
ASSUME RestoreAssumption ==
    /\ AdminsThreshold \in Nat \ {0} /\ ProvidersThreshold \in Nat \ {0}
    /\ \A g \in Groups : \A o \in DOMAIN Issued(g) :
          /\ Issued(g)[o] \in Seq(Nat) /\ IsInjective(Issued(g)[o])
          /\ \A p \in DOMAIN Issued(g) \ {o} :
                Range(Issued(g)[o]) \cap Range(Issued(g)[p]) = {}
    /\ \A m \in Messages : /\ m.readable \in BOOLEAN
                           /\ m.splits \in Seq(AllBrought)
    /\ \A s \in AllBrought :
          s.signed \in BOOLEAN /\ (s.signed => s \in Splits)
    /\ \A d \in Metadata : /\ d.id \in Backups
                           /\ d.adminsThreshold \in Nat
                           /\ d.providersThreshold \in Nat

VARIABLES metadata,  \* backupMetadata of the instruction
          messages,  \* the variable messages, in the order of the signers
          result     \* by submission tag: the outcome of the handler

vars == <<metadata, messages, result>>

\* Outcomes that are no wallet, and a value that is no part of the key.
Err == [error |-> TRUE]
None == [none |-> TRUE]
Junk == [junk |-> TRUE]

Tags == {"threshold", "end"}
NotYet == [wallet |-> None, errors |-> << >>]

Init ==
    /\ metadata \in Metadata
    /\ messages = << >>
    /\ result = [t \in Tags |-> NotYet]

-----------------------------------------------------------------------------
(* processKeySplitMessages *)

maxKeySplitsPerMessage == 2

anyID(s, id) == TRUE                                              \* mutant
matchesID(s, id) == s.id = id

\* A message stands or falls as a whole.
processKeySplitPlaintext(m, id) ==
    /\ Len(m.splits) \in 1 .. maxKeySplitsPerMessage
    /\ \A n \in DOMAIN m.splits :
          matchesID(m.splits[n], id) /\ m.splits[n].signed

\* The hash leaves the signature out.
HashForSigning(s) == <<s.id, s.group, s.owner, s.shares>>

neverDuplicate(acc, s) == FALSE                                   \* mutant
isDuplicate(acc, s) ==
    \E n \in DOMAIN acc.splits :
        HashForSigning(acc.splits[n]) = HashForSigning(s)

duplicateUnreported(acc, i, s) ==                                 \* mutant
    IF isDuplicate(acc, s) THEN acc
    ELSE [acc EXCEPT !.splits = Append(@, s)]
addSplit(acc, i, s) ==
    IF isDuplicate(acc, s) THEN [acc EXCEPT !.errors = Append(@, i)]
    ELSE [acc EXCEPT !.splits = Append(@, s)]

addSplits(acc, i, splits) ==
    FoldLeft(LAMBDA a, s : addSplit(a, i, s), acc, splits)

addMessage(acc, i, m, id) ==
    IF m.readable /\ processKeySplitPlaintext(m, id)
    THEN addSplits(acc, i, m.splits)
    ELSE [acc EXCEPT !.errors = Append(@, i)]

NoSplits == [splits |-> << >>, errors |-> << >>]

\* The splits to use, and the positions of errors, which are skipped.
processKeySplitMessages(msgs, id) ==
    FoldLeftDomain(LAMBDA acc, i : addMessage(acc, i, msgs[i], id), NoSplits,
                   msgs)

-----------------------------------------------------------------------------
(* RecoverWallet *)

CheckKeyShares(splits, d) ==
    /\ splits # << >>
    /\ \A n \in DOMAIN splits :
          /\ splits[n].id = splits[1].id
          /\ splits[n].group = splits[1].group
          /\ splits[n].group = "admin" => splits[n].owner \in d.admins
    /\ splits[1].id = d.id

Points(s) == [k \in DOMAIN s.shares |->
                 [part |-> [id |-> s.id, group |-> s.group],
                  x |-> s.shares[k]]]

\* Too few points, points of several parts or another field give some value,
\* which is not a part of the key.
CombineShamirShares(points, field) ==
    LET part == points[1].part
    IN  IF \E j, k \in DOMAIN points : j # k /\ points[j].x = points[k].x
        THEN Err
        ELSE IF /\ field = "order"
                /\ Len(points) >= Threshold(part.group)
                /\ \A k \in DOMAIN points : points[k].part = part
             THEN part
             ELSE Junk

addPoints(points, s) == points \o Points(s)

AllPoints(splits) == FoldLeft(addPoints, << >>, splits)

JoinKeyShares(splits, threshold, field) ==
    LET all == AllPoints(splits)
    IN  IF threshold = 0 \/ Len(all) < threshold THEN Err
        ELSE CombineShamirShares(SubSeq(all, 1, threshold), field)

JoinSecret(a, p) ==
    IF \E id \in Backups : /\ a = [id |-> id, group |-> "admin"]
                           /\ p = [id |-> id, group |-> "provider"]
    THEN "key" ELSE "junk"

\* The private key against PublicKey of the metadata.
anyKey(secret) == TRUE                                            \* mutant
matchesPublicKey(secret) == secret = "key"

addIfOf(g, of, s) == IF s.group = g THEN Append(of, s) ELSE of

OfGroup(splits, g) ==
    FoldLeft(LAMBDA of, s : addIfOf(g, of, s), << >>, splits)

RecoverWallet(splits, d) ==
    LET adminSplits == OfGroup(splits, "admin")
        providerSplits == OfGroup(splits, "provider")
        admin == JoinKeyShares(adminSplits, d.adminsThreshold, d.field)
        provider ==
            JoinKeyShares(providerSplits, d.providersThreshold, d.field)
        secret == JoinSecret(admin, provider)
    IN  IF /\ d.field \in FieldIDs
           /\ CheckKeyShares(adminSplits, d) /\ admin # Err
           /\ CheckKeyShares(providerSplits, d) /\ provider # Err
           /\ matchesPublicKey(secret)
        THEN [secret |-> secret, admins |-> d.admins,
              adminsThreshold |-> d.adminsThreshold]
        ELSE Err

-----------------------------------------------------------------------------
(* Actions *)

\* The proxy has the message of one more signer; the End may list the
\* messages in another order than the Threshold did.
Submit(k, m) ==
    /\ Len(messages) < MaxMessages
    /\ result["end"] = NotYet
    /\ messages' = InsertAt(messages, k, m)
    /\ UNCHANGED <<metadata, result>>

\* KeyDataProviderRestore up to the wallet lock.
KeyDataProviderRestore(tag) ==
    /\ result[tag] = NotYet
    /\ tag = "end" => result["threshold"] # NotYet
    /\ LET p == processKeySplitMessages(messages, metadata.id)
       IN  result' = [result EXCEPT ![tag] =
               [wallet |-> RecoverWallet(p.splits, metadata),
                errors |-> p.errors]]
    /\ UNCHANGED <<metadata, messages>>

Next ==
    \/ \E k \in 1 .. Len(messages) + 1, m \in Messages : Submit(k, m)
    \/ \E tag \in Tags : KeyDataProviderRestore(tag)

Spec == Init /\ [][Next]_vars

-----------------------------------------------------------------------------
(* Properties *)

Recovered(tag) == result[tag].wallet \notin {None, Err}

\* Splits of the backup restored in messages without a fault of any kind.
Brought(g) ==
    {s \in Splits :
        /\ s.id = metadata.id /\ s.group = g
        /\ \E i \in DOMAIN messages :
              LET m == messages[i]
              IN  /\ m.readable /\ Len(m.splits) \in {1, 2}
                  /\ \A n \in DOMAIN m.splits :
                        m.splits[n] \in Splits /\ m.splits[n].id = metadata.id
                  /\ \E n \in DOMAIN m.splits : m.splits[n] = s}

Shares(g) == Cardinality(UNION {Range(s.shares) : s \in Brought(g)})

\* A key is recovered only from shares of one backup that reach both of the
\* thresholds it was made with, whatever thresholds, admins or field the
\* instruction's metadata claims and whoever brings the shares
\* (keyRestoreDataCheck does not hold the metadata against the backup; the
\* public key at the end of RecoverWallet has to).
QuorumsNeeded ==
    \A tag \in Tags : Recovered(tag) =>
        \A g \in Groups : Shares(g) >= Threshold(g)

\* The metadata names every admin of the backup, and no lower thresholds.
Complete ==
    /\ metadata.field = "order"
    /\ DOMAIN AdminShares \subseteq metadata.admins
    /\ metadata.adminsThreshold >= AdminsThreshold
    /\ metadata.providersThreshold >= ProvidersThreshold

Sufficient ==
    /\ Shares("admin") >= metadata.adminsThreshold
    /\ Shares("provider") >= metadata.providersThreshold

\* Enough shares restore the key whatever else is brought and in whatever
\* order: unreadable messages, splits of other backups, changed splits,
\* splits brought twice, or more shares than needed ("An error beyond this
\* check implies that ether the shares are not sufficient, or ...").
JunkHarmless ==
    [][\A tag \in Tags :
          result'[tag] # result[tag] /\ Complete /\ Sufficient =>
              Recovered(tag)']_vars

\* The End finds the key again if the Threshold did: nothing that signers
\* bring between the two takes it away (the End's result is what they are
\* rewarded for).
EndRecoversToo ==
    Complete /\ Recovered("threshold") /\ result["end"] # NotYet =>
        result["end"].wallet = result["threshold"].wallet

\* A signer whose message the status does not name brought something of use:
\* its splits are valid, and no other signer is credited with one of them.
UnblamedAreUseful ==
    result["end"] # NotYet =>
        LET Credited == DOMAIN messages \ Range(result["end"].errors)
            SplitsOf(i) == Range(messages[i].splits)
            Useful == Brought("admin") \cup Brought("provider")
        IN  \A i \in Credited :
                /\ SplitsOf(i) \subseteq Useful
                /\ \A j \in Credited \ {i} : SplitsOf(i) \cap SplitsOf(j) = {}

=============================================================================
