--------------------------- MODULE WalletStorage ---------------------------
(***************************************************************************)
(* The wallet storage of the node (internal/wallets/storage.go), as a data *)
(* type: a storage value and the operations the handlers compose while     *)
(* they hold its RWMutex.                                                  *)
(*                                                                         *)
(* The two Go maps are functions with a varying domain.  The *WalletStatus *)
(* a wallet and its permanent record are meant to share is a pointer, so   *)
(* statuses live in a heap and are referred to by their address in it: two *)
(* holders of one address see each other's writes, two addresses do not.   *)
(* A status is its nonce; PausingNonce and StatusCode are reserved and     *)
(* never written.  Of a wallet only the private key and the restored flag  *)
(* are kept: the rest of it is copied along and never changes.             *)
(***************************************************************************)
EXTENDS Integers, FiniteSets, Sequences

CONSTANTS Keys,                       \* (walletID, keyID) pairs
          MaxWallets,                 \* settings.MaxWallets
          MaxPermanentWalletsStatus,  \* settings.MaxPermanentWalletsStatus
          MaxUint64                   \* 2^64 - 1 in the code

ASSUME LimitsAssumption == /\ MaxWallets \in Nat
                           /\ MaxPermanentWalletsStatus \in Nat
                           /\ MaxUint64 \in Nat

Uint64 == 0 .. MaxUint64
Secrets == Nat                        \* private keys

Wallet == [secret : Secrets, restored : BOOLEAN, status : Nat]

\* A Go map: a function on some of the keys in S, with values in T.
IsMap(m, S, T) == DOMAIN m \subseteq S /\ m \in [DOMAIN m -> T]

EmptyMap == [x \in {} |-> x]

Put(m, x, v) == [y \in DOMAIN m \cup {x} |-> IF y = x THEN v ELSE m[y]]

Drop(m, x) == [y \in DOMAIN m \ {x} |-> m[y]]

IsStorage(s) ==
    /\ s = [wallets |-> s.wallets, permanent |-> s.permanent, heap |-> s.heap]
    /\ IsMap(s.wallets, Keys, Wallet)
    /\ IsMap(s.permanent, Keys, Nat)
    /\ s.heap \in Seq(Uint64)

InitializeStorage ==
    [wallets |-> EmptyMap, permanent |-> EmptyMap, heap |-> << >>]

----------------------------------------------------------------------------
WalletExists(s, id) == id \in DOMAIN s.wallets

WalletExistsPermanent(s, id) == id \in DOMAIN s.permanent

\* The nonce of the permanent record; defined when there is one.
Nonce(s, id) == s.heap[s.permanent[id]]

\* CheckNonce returns nil: there is a record and the nonce is newer.
CheckNonceLax(s, id, nonce) ==
    WalletExistsPermanent(s, id) /\ nonce >= Nonce(s, id)

CheckNonce(s, id, nonce) ==
    WalletExistsPermanent(s, id) /\ nonce > Nonce(s, id)

UpdateNonce(s, id, nonce) ==
    IF WalletExistsPermanent(s, id)
    THEN [s EXCEPT !.heap[s.permanent[id]] = nonce]
    ELSE s

\* Forgetting the record together with the wallet.
RemoveWithRecord(s, id) == [s EXCEPT !.wallets = Drop(s.wallets, id),
                                     !.permanent = Drop(s.permanent, id)]

Remove(s, id) == [s EXCEPT !.wallets = Drop(s.wallets, id)]

\* The copy Store makes always carries a status object of its own.  If the
\* key has a permanent record the copy is pointed at the record's status (the
\* fresh object is garbage); otherwise the fresh object becomes the record.
Insert(s, id, w, ref) ==
    Put(s.wallets, id,
        [secret |-> w.secret, restored |-> w.restored, status |-> ref])

Recorded(s, id, w) ==
    IF WalletExistsPermanent(s, id)
    THEN [s EXCEPT !.wallets = Insert(s, id, w, s.permanent[id])]
    ELSE [wallets   |-> Insert(s, id, w, Len(s.heap) + 1),
          permanent |-> Put(s.permanent, id, Len(s.heap) + 1),
          heap      |-> Append(s.heap, 0)]

\* The fresh status object kept although a record exists.
RecordedUnshared(s, id, w) ==
    [wallets   |-> Insert(s, id, w, Len(s.heap) + 1),
     permanent |-> IF WalletExistsPermanent(s, id) THEN s.permanent
                   ELSE Put(s.permanent, id, Len(s.heap) + 1),
     heap      |-> Append(s.heap, 0)]

StoreUnshared(s, id, w) ==
    IF ~WalletExists(s, id)
    THEN [ok |-> TRUE, store |-> RecordedUnshared(s, id, w)]
    ELSE [ok |-> FALSE, store |-> s]

\* The record created before the limit on active wallets is checked.
StoreRecordFirst(s, id, w) ==
    IF WalletExists(s, id) THEN [ok |-> FALSE, store |-> s]
    ELSE IF Cardinality(DOMAIN s.wallets) >= MaxWallets
         THEN [ok |-> FALSE,
               store |-> [Recorded(s, id, w) EXCEPT !.wallets = s.wallets]]
         ELSE [ok |-> TRUE, store |-> Recorded(s, id, w)]

HasRoom(s, id) ==
    /\ Cardinality(DOMAIN s.wallets) < MaxWallets
    /\ \/ WalletExistsPermanent(s, id)
       \/ Cardinality(DOMAIN s.permanent) < MaxPermanentWalletsStatus

Store(s, id, w) ==
    IF ~WalletExists(s, id) /\ HasRoom(s, id)
    THEN [ok |-> TRUE, store |-> Recorded(s, id, w)]
    ELSE [ok |-> FALSE, store |-> s]

\* What KeyExistenceProof reports of a stored wallet: the nonce is read through
\* the wallet's own status pointer, not through the permanent record.
KeyExistenceProof(s, id) ==
    [key      |-> id,
     nonce    |-> s.heap[s.wallets[id].status],
     secret   |-> s.wallets[id].secret,
     restored |-> s.wallets[id].restored]

\* If a wallet is stored, its status is the very object of the key's permanent
\* record, and no two records are one object.
StatusIsShared(s) ==
    /\ \A k \in DOMAIN s.permanent : s.permanent[k] \in 1 .. Len(s.heap)
    /\ \A k \in DOMAIN s.wallets : /\ k \in DOMAIN s.permanent
                                   /\ s.wallets[k].status = s.permanent[k]
    /\ \A k, l \in DOMAIN s.permanent :
          s.permanent[k] = s.permanent[l] => k = l

ExistenceProofs == [key : Keys, nonce : Uint64, secret : Secrets,
                    restored : BOOLEAN]
=============================================================================
