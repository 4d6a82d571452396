------------------------------ MODULE MCWallet ------------------------------
(***************************************************************************)
(* Small instances of WalletProcessor.  Secret 1 is the first key the node *)
(* generates; secrets from 7 on were generated by another TEE.             *)
(***************************************************************************)
EXTENDS WalletProcessor, TLC

CONSTANTS tee, peer, third, k1, k2, k3

MCTees == {tee, peer, third}

NoBackup == [tee |-> tee, key |-> k1, public |-> 0, epoch |-> 0]
NoAttachment == [id |-> NoBackup, signer |-> tee, to |-> tee, secret |-> 0]

Blank == [op |-> "generate", tee |-> tee, epoch |-> 0, key |-> k1, nonce |-> 0,
          target |-> tee, source |-> tee, listNonce |-> 0,
          backupId |-> NoBackup, attached |-> NoAttachment, valid |-> TRUE]

Generate(k, e) == [Blank EXCEPT !.key = k, !.epoch = e]

Delete(k, n, e) == [Blank EXCEPT !.op = "delete", !.key = k, !.nonce = n,
                                 !.epoch = e]

Backup(t, k, s, e) == [tee |-> t, key |-> k, public |-> s, epoch |-> e]

Restore(b, n, e) ==
    [Blank EXCEPT !.op = "dpRestore", !.key = b.key, !.nonce = n, !.epoch = e,
                  !.backupId = b, !.attached.id = b]

DirectBackup(k, to, list, e) ==
    [Blank EXCEPT !.op = "directBackup", !.key = k, !.target = to,
                  !.listNonce = list, !.epoch = e]

DirectRestore(b, to, n, list, e) ==
    [Blank EXCEPT !.op = "directRestore", !.key = b.key, !.nonce = n,
                  !.epoch = e, !.source = b.tee, !.listNonce = list,
                  !.backupId = b,
                  !.attached = [id |-> b, signer |-> b.tee, to |-> to,
                                secret |-> b.public]]

NoLists == << >>

HandlerSymmetry == Permutations(Handlers)

\* One key: generated, deleted, restored from a backup of its own or from one
\* another TEE made, deleted again.
LifecycleBackups == {Backup(peer, k1, 7, 0)}
LifecycleData ==
    << Generate(k1, 0), Delete(k1, 1, 0), Restore(Backup(tee, k1, 1, 0), 2, 0),
       Delete(k1, 3, 0), Restore(Backup(peer, k1, 7, 0), 4, 0) >>

\* Three keys, room for one wallet and two records; a nonce wider than uint64.
CapacityData ==
    << Generate(k1, 0), Generate(k2, 0), Generate(k3, 0), Delete(k1, 1, 0),
       Restore(Backup(peer, k3, 7, 0), 2, 0), Delete(k2, 9, 0) >>
CapacityBackups == {Backup(peer, k3, 7, 0)}

\* Direct transfers while the epoch advances and governance replaces the list
\* that pairs this node with its peer by one that pairs each with a third TEE.
DirectLists ==
    << {[sources |-> {peer}, destinations |-> {tee}],
        [sources |-> {tee}, destinations |-> {peer}]},
       {[sources |-> {peer}, destinations |-> {third}],
        [sources |-> {third}, destinations |-> {tee}]} >>
DirectData ==
    << DirectRestore(Backup(peer, k1, 7, 0), tee, 1, 1, 0),
       DirectRestore(Backup(peer, k1, 7, 0), tee, 3, 2, 1),
       DirectBackup(k1, peer, 1, 1),
       DirectRestore(Backup(third, k1, 8, 1), tee, 4, 2, 1) >>
NoBackups == {}

\* A key that was restored before the instruction to generate it ran.
LateGenerateData ==
    << Generate(k1, 0), Restore(Backup(peer, k1, 7, 0), 2, 0) >>

\* Restores signed in epoch 0 or 1 of backups of epoch 0.
WindowData ==
    << DirectRestore(Backup(peer, k1, 7, 0), tee, 1, 1, 1),
       Restore(Backup(peer, k1, 7, 0), 1, 0) >>
=============================================================================
