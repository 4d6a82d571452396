----------------------- MODULE WalletProcessorProofs -----------------------
(***************************************************************************)
(* Proofs about WalletProcessor, for any instructions, lists of machine    *)
(* paths, number of handlers, and limits.                                  *)
(*                                                                         *)
(* Every step of the specification either leaves the storage alone or lets *)
(* one instruction take effect that is not spent, which moves its key to a *)
(* nonce and thereby spends it (StepKinds).  The invariants on histories   *)
(* are then proved from these two kinds of step alone.                     *)
(***************************************************************************)
EXTENDS WalletProcessor, FiniteSetTheorems, TLAPS

-----------------------------------------------------------------------------
(* What the operations of the wallet storage do to a storage value that is *)
(* well typed and whose wallets share their status with their record.  The *)
(* rest of the proofs use these facts instead of the definitions.          *)

Sound(s) == IsStorage(s) /\ StatusIsShared(s)

\* A key with a record has a nonce, and a stored wallet reports that nonce.
LEMMA NonceOfSound ==
    ASSUME NEW s, Sound(s)
    PROVE  /\ DOMAIN s.wallets \subseteq DOMAIN s.permanent
           /\ DOMAIN s.permanent \subseteq Keys
           /\ \A k \in DOMAIN s.permanent : Nonce(s, k) \in Uint64
           /\ \A k \in DOMAIN s.wallets :
                 /\ s.wallets[k] \in Wallet
                 /\ KeyExistenceProof(s, k) \in ExistenceProofs
                 /\ KeyExistenceProof(s, k).key = k
                 /\ KeyExistenceProof(s, k).nonce = Nonce(s, k)
<1>1. \A k \in DOMAIN s.permanent : s.permanent[k] \in DOMAIN s.heap
  BY DEF Sound, StatusIsShared, IsStorage
<1>2. \A r \in DOMAIN s.heap : s.heap[r] \in Uint64
  BY DEF Sound, IsStorage
<1>3. \A k \in DOMAIN s.wallets : /\ s.wallets[k] \in Wallet
                                  /\ k \in DOMAIN s.permanent
                                  /\ s.wallets[k].status = s.permanent[k]
  BY DEF Sound, StatusIsShared, IsStorage, IsMap
<1>4. DOMAIN s.permanent \subseteq Keys
  BY DEF Sound, IsStorage, IsMap
<1> QED
  BY <1>1, <1>2, <1>3, <1>4 DEF Nonce, KeyExistenceProof, ExistenceProofs, Wallet

\* Writing a nonce is seen through the record of that key and of no other.
LEMMA UpdateNonceSound ==
    ASSUME NEW s, Sound(s), NEW id \in DOMAIN s.permanent, NEW n \in Uint64
    PROVE  LET t == UpdateNonce(s, id, n)
           IN  /\ Sound(t)
               /\ t.wallets = s.wallets
               /\ t.permanent = s.permanent
               /\ \A k \in DOMAIN s.permanent :
                     Nonce(t, k) = IF k = id THEN n ELSE Nonce(s, k)
<1> DEFINE t == UpdateNonce(s, id, n)
           r == s.permanent[id]
<1>1. t = [s EXCEPT !.heap = [s.heap EXCEPT ![r] = n]]
  BY DEF UpdateNonce, WalletExistsPermanent
<1>2. s = [wallets |-> s.wallets, permanent |-> s.permanent, heap |-> s.heap]
  BY DEF Sound, IsStorage
<1>3. t = [wallets |-> s.wallets, permanent |-> s.permanent,
           heap |-> [s.heap EXCEPT ![r] = n]]
  BY <1>1, <1>2
<1>4. t.wallets = s.wallets /\ t.permanent = s.permanent
      /\ t.heap = [s.heap EXCEPT ![r] = n]
  BY <1>3
<1>5. s.heap \in Seq(Uint64) /\ r \in 1 .. Len(s.heap)
  BY DEF Sound, StatusIsShared, IsStorage
<1>6. t.heap \in Seq(Uint64) /\ Len(t.heap) = Len(s.heap)
  BY <1>4, <1>5
<1>7. Sound(t)
  BY <1>3, <1>4, <1>6 DEF Sound, IsStorage, StatusIsShared
<1>8. ASSUME NEW k \in DOMAIN s.permanent
      PROVE  Nonce(t, k) = IF k = id THEN n ELSE Nonce(s, k)
  <2>1. s.permanent[k] \in 1 .. Len(s.heap) /\ (k # id => s.permanent[k] # r)
    BY DEF Sound, StatusIsShared
  <2> QED
    BY <2>1, <1>4, <1>5 DEF Nonce
<1> QED
  BY <1>4, <1>7, <1>8

\* Removing a wallet leaves the records and the other wallets alone.
LEMMA RemoveSound ==
    ASSUME NEW s, Sound(s), NEW id
    PROVE  LET t == Remove(s, id)
           IN  /\ Sound(t)
               /\ t.permanent = s.permanent
               /\ t.heap = s.heap
               /\ DOMAIN t.wallets = DOMAIN s.wallets \ {id}
               /\ \A k \in DOMAIN t.wallets : t.wallets[k] = s.wallets[k]
<1> DEFINE t == Remove(s, id)
<1>1. s = [wallets |-> s.wallets, permanent |-> s.permanent, heap |-> s.heap]
  BY DEF Sound, IsStorage
<1>2. t = [wallets |-> Drop(s.wallets, id), permanent |-> s.permanent,
           heap |-> s.heap]
  BY <1>1 DEF Remove
<1>3. t.wallets = Drop(s.wallets, id) /\ t.permanent = s.permanent
      /\ t.heap = s.heap
  BY <1>2
<1>4. /\ DOMAIN t.wallets = DOMAIN s.wallets \ {id}
      /\ \A k \in DOMAIN t.wallets : t.wallets[k] = s.wallets[k]
  BY <1>3 DEF Drop
<1>5. IsMap(t.wallets, Keys, Wallet)
  BY <1>3, <1>4 DEF Sound, IsStorage, IsMap, Drop
<1>6. Sound(t)
  BY <1>2, <1>3, <1>4, <1>5 DEF Sound, IsStorage, StatusIsShared
<1> QED
  BY <1>3, <1>4, <1>6

\* Storing a wallet keeps the nonce of a key that has a record and starts the
\* nonce of a new key at 0.
LEMMA RecordedSound ==
    ASSUME NEW s, Sound(s), NEW id \in Keys, ~WalletExists(s, id),
           NEW w \in [secret : Secrets, restored : BOOLEAN]
    PROVE  LET t == Recorded(s, id, w)
           IN  /\ Sound(t)
               /\ DOMAIN t.wallets = DOMAIN s.wallets \cup {id}
               /\ t.wallets[id].secret = w.secret
               /\ t.wallets[id].restored = w.restored
               /\ \A k \in DOMAIN s.wallets : t.wallets[k] = s.wallets[k]
               /\ DOMAIN t.permanent = DOMAIN s.permanent \cup {id}
               /\ \A k \in DOMAIN t.permanent :
                     Nonce(t, k) = IF k \in DOMAIN s.permanent
                                   THEN Nonce(s, k) ELSE 0
<1> DEFINE t == Recorded(s, id, w)
<1>1. s = [wallets |-> s.wallets, permanent |-> s.permanent, heap |-> s.heap]
      /\ s.heap \in Seq(Uint64) /\ IsMap(s.wallets, Keys, Wallet)
      /\ IsMap(s.permanent, Keys, Nat)
  BY DEF Sound, IsStorage
<1>2. /\ \A k \in DOMAIN s.permanent : s.permanent[k] \in 1 .. Len(s.heap)
      /\ \A k \in DOMAIN s.wallets : /\ k \in DOMAIN s.permanent
                                     /\ s.wallets[k].status = s.permanent[k]
      /\ \A k, l \in DOMAIN s.permanent :
            s.permanent[k] = s.permanent[l] => k = l
  BY DEF Sound, StatusIsShared
<1>3. id \notin DOMAIN s.wallets
  BY DEF WalletExists
<1>4. ASSUME NEW r \in Nat
      PROVE  /\ IsMap(Insert(s, id, w, r), Keys, Wallet)
             /\ DOMAIN Insert(s, id, w, r) = DOMAIN s.wallets \cup {id}
             /\ Insert(s, id, w, r)[id].secret = w.secret
             /\ Insert(s, id, w, r)[id].restored = w.restored
             /\ Insert(s, id, w, r)[id].status = r
             /\ \A k \in DOMAIN s.wallets :
                   Insert(s, id, w, r)[k] = s.wallets[k]
  BY <1>1, <1>3 DEF Insert, Put, IsMap, Wallet
<1>5. CASE id \in DOMAIN s.permanent
  <2> DEFINE ref == s.permanent[id]
  <2>1. ref \in Nat
    BY <1>1, <1>5 DEF IsMap
  <2>2. t = [wallets |-> Insert(s, id, w, ref), permanent |-> s.permanent,
             heap |-> s.heap]
    BY <1>1, <1>5 DEF Recorded, WalletExistsPermanent
  <2>3. t.wallets = Insert(s, id, w, ref) /\ t.permanent = s.permanent
        /\ t.heap = s.heap
    BY <2>2
  <2> HIDE DEF t, ref
  <2>4. /\ IsMap(t.wallets, Keys, Wallet)
        /\ DOMAIN t.wallets = DOMAIN s.wallets \cup {id}
        /\ t.wallets[id].secret = w.secret
        /\ t.wallets[id].restored = w.restored
        /\ t.wallets[id].status = ref
        /\ \A k \in DOMAIN s.wallets : t.wallets[k] = s.wallets[k]
    BY <2>1, <2>3, <1>4
  <2>5. IsStorage(t)
    BY <2>2, <2>3, <2>4, <1>1 DEF IsStorage
  <2>6. StatusIsShared(t)
    BY <2>3, <2>4, <1>2, <1>5 DEF StatusIsShared, ref
  <2>7. \A k \in DOMAIN t.permanent :
           Nonce(t, k) = IF k \in DOMAIN s.permanent THEN Nonce(s, k) ELSE 0
    BY <2>3 DEF Nonce
  <2>8. DOMAIN t.permanent = DOMAIN s.permanent \cup {id}
    BY <2>3, <1>5
  <2> QED
    BY <2>4, <2>5, <2>6, <2>7, <2>8 DEF Sound, t
<1>6. CASE id \notin DOMAIN s.permanent
  <2> DEFINE ref == Len(s.heap) + 1
  <2>1. ref \in Nat
    BY <1>1
  <2>2. t = [wallets |-> Insert(s, id, w, ref),
             permanent |-> Put(s.permanent, id, ref),
             heap |-> Append(s.heap, 0)]
    BY <1>1, <1>6 DEF Recorded, WalletExistsPermanent
  <2>3. t.wallets = Insert(s, id, w, ref)
        /\ t.permanent = Put(s.permanent, id, ref)
        /\ t.heap = Append(s.heap, 0)
    BY <2>2
  <2>4. 0 \in Uint64
    BY LimitsAssumption DEF Uint64
  <2>5. /\ t.heap \in Seq(Uint64)
        /\ Len(t.heap) = ref
        /\ t.heap[ref] = 0
        /\ \A r \in 1 .. Len(s.heap) : t.heap[r] = s.heap[r]
    BY <2>3, <2>4, <1>1
  <2>6. /\ DOMAIN t.permanent = DOMAIN s.permanent \cup {id}
        /\ t.permanent[id] = ref
        /\ \A k \in DOMAIN s.permanent : t.permanent[k] = s.permanent[k]
        /\ IsMap(t.permanent, Keys, Nat)
    BY <2>1, <2>3, <1>1, <1>6 DEF Put, IsMap
  <2>7. \A k \in DOMAIN s.permanent : t.permanent[k] # ref
    BY <2>6, <1>1, <1>2
  <2>8. ref \in 1 .. Len(t.heap) /\ Len(s.heap) \in Nat
        /\ \A r \in 1 .. Len(s.heap) : r \in 1 .. Len(t.heap)
    BY <2>1, <2>5, <1>1
  <2> HIDE DEF t, ref
  <2>9. /\ IsMap(t.wallets, Keys, Wallet)
        /\ DOMAIN t.wallets = DOMAIN s.wallets \cup {id}
        /\ t.wallets[id].secret = w.secret
        /\ t.wallets[id].restored = w.restored
        /\ t.wallets[id].status = ref
        /\ \A k \in DOMAIN s.wallets : t.wallets[k] = s.wallets[k]
    BY <2>1, <2>3, <1>4
  <2>10. IsStorage(t)
    BY <2>2, <2>3, <2>5, <2>6, <2>9 DEF IsStorage
  <2>11. StatusIsShared(t)
    <3>1. \A k \in DOMAIN t.permanent : t.permanent[k] \in 1 .. Len(t.heap)
      BY <2>6, <2>8, <1>2
    <3>2. \A k \in DOMAIN t.wallets : /\ k \in DOMAIN t.permanent
                                      /\ t.wallets[k].status = t.permanent[k]
      BY <2>6, <2>9, <1>2
    <3>3. \A k, l \in DOMAIN t.permanent :
             t.permanent[k] = t.permanent[l] => k = l
      BY <2>6, <2>7, <1>2
    <3> QED
      BY <3>1, <3>2, <3>3 DEF StatusIsShared
  <2>12. \A k \in DOMAIN t.permanent :
           Nonce(t, k) = IF k \in DOMAIN s.permanent THEN Nonce(s, k) ELSE 0
    BY <2>5, <2>6, <1>2, <1>6 DEF Nonce
  <2> QED
    BY <2>6, <2>9, <2>10, <2>11, <2>12 DEF Sound, t
<1> QED
  BY <1>5, <1>6

\* What every change of the storage amounts to: key id has a record with nonce
\* n afterwards, and what is stored and attested of other keys is untouched.
Moves(s, t, id, n) ==
    /\ Sound(t)
    /\ DOMAIN t.permanent = DOMAIN s.permanent \cup {id}
    /\ Nonce(t, id) = n
    /\ \A k \in DOMAIN s.permanent \ {id} : Nonce(t, k) = Nonce(s, k)
    /\ DOMAIN t.wallets \ {id} = DOMAIN s.wallets \ {id}
    /\ \A k \in DOMAIN s.wallets \ {id} :
          KeyExistenceProof(t, k) = KeyExistenceProof(s, k)

\* It is enough to compare the wallets of the other keys: the rest of a proof
\* is the nonce of the record.
LEMMA MovesOtherProofs ==
    ASSUME NEW s, NEW t, NEW id, Sound(s), Sound(t),
           \A k \in DOMAIN s.permanent \ {id} : Nonce(t, k) = Nonce(s, k),
           DOMAIN t.wallets \ {id} = DOMAIN s.wallets \ {id},
           \A k \in DOMAIN s.wallets \ {id} : t.wallets[k] = s.wallets[k]
    PROVE  \A k \in DOMAIN s.wallets \ {id} :
              KeyExistenceProof(t, k) = KeyExistenceProof(s, k)
<1> SUFFICES ASSUME NEW k \in DOMAIN s.wallets \ {id}
             PROVE  KeyExistenceProof(t, k) = KeyExistenceProof(s, k)
  OBVIOUS
<1>1. k \in DOMAIN t.wallets /\ k \in DOMAIN s.permanent
  BY NonceOfSound
<1>2. KeyExistenceProof(t, k).nonce = KeyExistenceProof(s, k).nonce
  BY <1>1, NonceOfSound
<1>3. t.heap[t.wallets[k].status] = s.heap[s.wallets[k].status]
  BY <1>2 DEF KeyExistenceProof
<1> QED
  BY <1>3 DEF KeyExistenceProof

\* Storing a key that has no record starts it at nonce 0 (KeyGenerate).
LEMMA GenerateMoves ==
    ASSUME NEW s, Sound(s), NEW id \in Keys, ~WalletExistsPermanent(s, id),
           NEW w \in [secret : Secrets, restored : BOOLEAN]
    PROVE  /\ Moves(s, Recorded(s, id, w), id, 0)
           /\ WalletExists(Recorded(s, id, w), id)
<1> DEFINE t == Recorded(s, id, w)
<1>1. ~WalletExists(s, id) /\ id \notin DOMAIN s.permanent
  BY NonceOfSound DEF WalletExists, WalletExistsPermanent
<1>2. /\ Sound(t)
      /\ DOMAIN t.wallets = DOMAIN s.wallets \cup {id}
      /\ \A k \in DOMAIN s.wallets : t.wallets[k] = s.wallets[k]
      /\ DOMAIN t.permanent = DOMAIN s.permanent \cup {id}
      /\ \A k \in DOMAIN t.permanent :
            Nonce(t, k) = IF k \in DOMAIN s.permanent THEN Nonce(s, k) ELSE 0
  BY <1>1, RecordedSound
<1> HIDE DEF t
<1>3. \A k \in DOMAIN s.wallets \ {id} :
         KeyExistenceProof(t, k) = KeyExistenceProof(s, k)
  BY <1>2, MovesOtherProofs
<1> QED
  BY <1>1, <1>2, <1>3 DEF Moves, WalletExists, t

\* Storing a key and then writing its nonce leaves it at that nonce, whether or
\* not it had a record (both restores).
LEMMA RestoreMoves ==
    ASSUME NEW s, Sound(s), NEW id \in Keys, ~WalletExists(s, id),
           NEW w \in [secret : Secrets, restored : BOOLEAN], NEW n \in Uint64
    PROVE  LET t == UpdateNonce(Recorded(s, id, w), id, n)
           IN  Moves(s, t, id, n) /\ WalletExists(t, id)
<1> DEFINE u == Recorded(s, id, w)
           t == UpdateNonce(u, id, n)
<1>1. /\ Sound(u)
      /\ DOMAIN u.wallets = DOMAIN s.wallets \cup {id}
      /\ \A k \in DOMAIN s.wallets : u.wallets[k] = s.wallets[k]
      /\ DOMAIN u.permanent = DOMAIN s.permanent \cup {id}
      /\ \A k \in DOMAIN u.permanent :
            Nonce(u, k) = IF k \in DOMAIN s.permanent THEN Nonce(s, k) ELSE 0
  BY RecordedSound
<1> HIDE DEF u
<1>2. Sound(u) /\ id \in DOMAIN u.permanent
  BY <1>1
<1>3. /\ Sound(t)
      /\ t.wallets = u.wallets
      /\ t.permanent = u.permanent
      /\ \A k \in DOMAIN u.permanent :
            Nonce(t, k) = IF k = id THEN n ELSE Nonce(u, k)
  BY <1>2, UpdateNonceSound
<1> HIDE DEF t
<1>4. /\ \A k \in DOMAIN s.permanent \ {id} : Nonce(t, k) = Nonce(s, k)
      /\ DOMAIN t.wallets \ {id} = DOMAIN s.wallets \ {id}
      /\ \A k \in DOMAIN s.wallets \ {id} : t.wallets[k] = s.wallets[k]
  BY <1>1, <1>3
<1>5. \A k \in DOMAIN s.wallets \ {id} :
         KeyExistenceProof(t, k) = KeyExistenceProof(s, k)
  BY <1>3, <1>4, MovesOtherProofs
<1>6. id \in DOMAIN t.wallets /\ Nonce(t, id) = n
      /\ DOMAIN t.permanent = DOMAIN s.permanent \cup {id}
  BY <1>1, <1>3
<1> QED
  BY <1>3, <1>4, <1>5, <1>6 DEF Moves, WalletExists, t, u

\* Removing a wallet and then writing the nonce leaves its record at that nonce
\* (KeyDelete).
LEMMA DeleteMoves ==
    ASSUME NEW s, Sound(s), NEW id \in DOMAIN s.permanent, NEW n \in Uint64
    PROVE  LET t == UpdateNonce(Remove(s, id), id, n)
           IN  Moves(s, t, id, n) /\ ~WalletExists(t, id)
<1> DEFINE u == Remove(s, id)
           t == UpdateNonce(u, id, n)
<1>1. /\ Sound(u)
      /\ u.permanent = s.permanent
      /\ u.heap = s.heap
      /\ DOMAIN u.wallets = DOMAIN s.wallets \ {id}
      /\ \A k \in DOMAIN u.wallets : u.wallets[k] = s.wallets[k]
  BY RemoveSound
<1>2. \A k \in DOMAIN s.permanent : Nonce(u, k) = Nonce(s, k)
  BY <1>1 DEF Nonce
<1> HIDE DEF u
<1>3. /\ Sound(t)
      /\ t.wallets = u.wallets
      /\ t.permanent = u.permanent
      /\ \A k \in DOMAIN u.permanent :
            Nonce(t, k) = IF k = id THEN n ELSE Nonce(u, k)
  BY <1>1, UpdateNonceSound
<1> HIDE DEF t
<1>4. /\ \A k \in DOMAIN s.permanent \ {id} : Nonce(t, k) = Nonce(s, k)
      /\ DOMAIN t.wallets \ {id} = DOMAIN s.wallets \ {id}
      /\ \A k \in DOMAIN s.wallets \ {id} : t.wallets[k] = s.wallets[k]
  BY <1>1, <1>2, <1>3
<1>5. \A k \in DOMAIN s.wallets \ {id} :
         KeyExistenceProof(t, k) = KeyExistenceProof(s, k)
  BY <1>3, <1>4, MovesOtherProofs
<1>6. id \notin DOMAIN t.wallets /\ Nonce(t, id) = n
      /\ DOMAIN t.permanent = DOMAIN s.permanent \cup {id}
  BY <1>1, <1>3
<1> QED
  BY <1>3, <1>4, <1>5, <1>6 DEF Moves, WalletExists, t, u

-----------------------------------------------------------------------------
(* The processors.                                                         *)

\* The content of a quorum-signed instruction is well typed.
LEMMA DataTyped ==
    ASSUME NEW i \in Instructions
    PROVE  /\ DataFixed[i].op \in Ops
           /\ DataFixed[i].key \in Keys
           /\ DataFixed[i].nonce \in Nat
           /\ DataFixed[i].listNonce \in Nat
           /\ DataFixed[i].backupId.public \in Secrets
BY ProcessorAssumption DEF InstructionSet, BackupIDs

\* What a running handler knows is well typed.
LEMMA HandlerTyped ==
    ASSUME TypeOK, NEW h \in DOMAIN running
    PROVE  /\ h \in Handlers
           /\ running[h] \in RunType
           /\ running[h].instr \in Instructions
           /\ running[h].tag \in Tags
           /\ running[h].stage \in {"checked", "validated"}
           /\ running[h].ctxErr \in BOOLEAN
           /\ running[h].seen \in Nat
           /\ running[h].start \in Nat
BY DEF TypeOK, IsMap, RunType

\* Starting a goroutine.
LEMMA StartTyped ==
    ASSUME TypeOK, NEW h \in Handlers, NEW r \in RunType,
           running' = Put(running, h, r)
    PROVE  /\ IsMap(running', Handlers, RunType)
           /\ DOMAIN running' = DOMAIN running \cup {h}
           /\ running'[h] = r
           /\ \A g \in DOMAIN running \ {h} : running'[g] = running[g]
BY DEF TypeOK, IsMap, Put

\* Ending one.
LEMMA ReturnTyped ==
    ASSUME TypeOK, NEW h, Return(h)
    PROVE  /\ IsMap(running', Handlers, RunType)
           /\ DOMAIN running' = DOMAIN running \ {h}
           /\ \A g \in DOMAIN running' : running'[g] = running[g]
BY DEF TypeOK, IsMap, Return, Drop

\* A list that allows a transfer still does when the nonce of the current list
\* has moved up, and so a handler stays sound.
LEMMA HandlersStaySound ==
    ASSUME TypeOK, HandlersSound, pathNonce' \in Nat, pathNonce' >= pathNonce,
           DOMAIN running' \subseteq DOMAIN running,
           \A g \in DOMAIN running' : running'[g] = running[g]
    PROVE  HandlersSound'
<1> SUFFICES ASSUME NEW g \in DOMAIN running'
             PROVE  HandlerSound(running'[g], pathNonce')
  BY DEF HandlersSound
<1>1. HandlerSound(running[g], pathNonce) /\ running'[g] = running[g]
  BY DEF HandlersSound
<1>2. running[g].start \in Nat
  BY HandlerTyped
<1>3. pathNonce \in Nat
  BY DEF TypeOK
<1> QED
  BY <1>1, <1>2, <1>3 DEF HandlerSound
----------------------------------------------------------------------------
(* The two kinds of step.                                                  *)

\* The nonce that instruction i gives to its key.
NonceOf(i) == IF DataFixed[i].op = "generate" THEN 0 ELSE DataFixed[i].nonce

\* Instruction i brings a wallet in, for which there is room, and attests it.
Enters(i) ==
    LET id == DataFixed[i].key
    IN  /\ DataFixed[i].op \in RestoreOps \cup {"generate"}
        /\ ~WalletExists(store, id)
        /\ HasRoom(store, id)
        /\ WalletExists(store', id)
        /\ proofs' = proofs \cup {KeyExistenceProof(store', id)}

\* Instruction i removes the wallet of a key with a record, if there is one.
Leaves(i) ==
    LET id == DataFixed[i].key
    IN  /\ DataFixed[i].op = "delete"
        /\ WalletExistsPermanent(store, id)
        /\ ~WalletExists(store', id)
        /\ proofs' = proofs

\* Instruction i takes effect.
Commits(i) ==
    /\ i \in Instructions
    /\ DataFixed[i].op # "directBackup"
    /\ ~Spent(i)
    /\ Moves(store, store', DataFixed[i].key, NonceOf(i))
    /\ committed' = [committed EXCEPT ![i] = @ + 1]
    /\ Enters(i) \/ Leaves(i)
    /\ confirmed' = confirmed

\* Instruction i may be confirmed.
Confirms(i) ==
    /\ i \in Instructions
    /\ Spent(i)
    /\ DataFixed[i].op \in RestoreOps =>
          Nonce(store, DataFixed[i].key) = DataFixed[i].nonce

\* The storage is left alone; what is stored may be attested or confirmed.
Keeps ==
    /\ store' = store
    /\ committed' = committed
    /\ proofs \subseteq proofs'
    /\ \A p \in proofs' \ proofs :
          \E k \in DOMAIN store.wallets : p = KeyExistenceProof(store, k)
    /\ confirmed \subseteq confirmed'
    /\ \A i \in confirmed' \ confirmed : Confirms(i)

\* Storing what KeyGenerate or a restore brings: all of it or nothing.
LEMMA StoreOutcome ==
    ASSUME NEW s, NEW id, NEW w
    PROVE  LET r == Store(s, id, w)
           IN  \/ /\ r.ok /\ ~WalletExists(s, id) /\ HasRoom(s, id)
                  /\ r.store = Recorded(s, id, w)
               \/ ~r.ok /\ r.store = s
BY DEF Store

\* KeyGenerate's Threshold phase is of one of the two kinds.
LEMMA GenerateKind ==
    ASSUME TypeOK, StatusShared, HandlersSound, NEW h, KeyGenerateThreshold(h)
    PROVE  Keeps \/ \E i \in Instructions : Commits(i)
<1> DEFINE i == running[h].instr
           id == DataFixed[i].key
           w == [secret |-> drawn + 1, restored |-> FALSE]
           r == Store(store, id, w)
<1>1. h \in DOMAIN running /\ DataFixed[i].op = "generate"
  BY DEF KeyGenerateThreshold, AtLock, Data
<1>2. i \in Instructions /\ id \in Keys
  BY <1>1, HandlerTyped, DataTyped
<1>3. ~WalletExistsPermanent(store, id)
  BY DEF KeyGenerateThreshold, CanGenerate, Data
<1>4. Sound(store) /\ w \in [secret : Secrets, restored : BOOLEAN]
  BY DEF Sound, TypeOK, StatusShared, Secrets
<1>5. /\ store' = r.store
      /\ r.ok => /\ proofs' = proofs \cup {KeyExistenceProof(r.store, id)}
                 /\ committed' = [committed EXCEPT ![i] = @ + 1]
      /\ ~r.ok => proofs' = proofs /\ committed' = committed
      /\ confirmed' = confirmed
  BY DEF KeyGenerateThreshold, Commit, Data
<1>6. CASE r.ok
  <2>1. /\ store' = Recorded(store, id, w)
        /\ ~WalletExists(store, id) /\ HasRoom(store, id)
    BY <1>5, <1>6, StoreOutcome
  <2>2. Moves(store, store', id, 0) /\ WalletExists(store', id)
    BY <2>1, <1>2, <1>3, <1>4, GenerateMoves
  <2>3. proofs' = proofs \cup {KeyExistenceProof(store', id)}
    BY <1>5, <1>6
  <2>4. ~Spent(i) /\ NonceOf(i) = 0
    BY <1>1, <1>3 DEF Spent, NonceOf
  <2>5. Enters(i)
    BY <2>1, <2>2, <2>3, <1>1 DEF Enters
  <2> QED
    BY <2>2, <2>4, <2>5, <1>1, <1>2, <1>5, <1>6 DEF Commits
<1>7. CASE ~r.ok
  <2>1. store' = store
    BY <1>5, <1>7, StoreOutcome
  <2> QED
    BY <2>1, <1>5, <1>7 DEF Keeps
<1> QED
  BY <1>6, <1>7

\* KeyDelete's Threshold phase lets its instruction take effect.
LEMMA DeleteKind ==
    ASSUME TypeOK, StatusShared, HandlersSound, NEW h, KeyDeleteThreshold(h)
    PROVE  \E i \in Instructions : Commits(i)
<1> DEFINE i == running[h].instr
           id == DataFixed[i].key
           n == DataFixed[i].nonce
<1>1. /\ h \in DOMAIN running
      /\ DataFixed[i].op = "delete"
      /\ running[h].stage = "validated"
  BY DEF KeyDeleteThreshold, AtLock, Data
<1>2. i \in Instructions /\ id \in Keys /\ n \in Nat
  BY <1>1, HandlerTyped, DataTyped
<1>3. Sound(store)
  BY DEF Sound, TypeOK, StatusShared
<1>4. id \in DOMAIN store.permanent /\ n > Nonce(store, id)
  BY DEF KeyDeleteThreshold, CheckNonce, WalletExistsPermanent, Data
<1>5. n \in Uint64
  <2>1. HandlerSound(running[h], pathNonce)
    BY <1>1 DEF HandlersSound
  <2> QED
    BY <2>1, <1>1, <1>2, LimitsAssumption
       DEF HandlerSound, NonceOps, IsUint64, Uint64
<1>6. /\ store' = UpdateNonce(Remove(store, id), id, n)
      /\ committed' = [committed EXCEPT ![i] = @ + 1]
      /\ proofs' = proofs
      /\ confirmed' = confirmed
  BY DEF KeyDeleteThreshold, Commit, Data
<1>7. Moves(store, store', id, n) /\ Leaves(i)
  BY <1>1, <1>3, <1>4, <1>5, <1>6, DeleteMoves DEF Leaves, WalletExistsPermanent
<1>8. ~Spent(i) /\ NonceOf(i) = n
  <2>1. Nonce(store, id) \in Uint64
    BY <1>3, <1>4, NonceOfSound
  <2> QED
    BY <2>1, <1>1, <1>2, <1>4, LimitsAssumption
       DEF Spent, NonceOf, NonceOps, Uint64
<1> QED
  BY <1>1, <1>2, <1>6, <1>7, <1>8 DEF Commits

\* So does the Threshold phase of a restore, if there is room.
LEMMA RestoreKind ==
    ASSUME TypeOK, StatusShared, HandlersSound, NEW h \in DOMAIN running,
           running[h].stage = "validated", Data(h).op \in RestoreOps,
           RestoreThreshold(h)
    PROVE  Keeps \/ \E i \in Instructions : Commits(i)
<1> DEFINE i == running[h].instr
           id == DataFixed[i].key
           n == DataFixed[i].nonce
           w == [secret |-> DataFixed[i].backupId.public, restored |-> TRUE]
           r == Store(store, id, w)
<1>1. DataFixed[i].op \in RestoreOps
  BY DEF Data
<1>2. i \in Instructions /\ id \in Keys /\ n \in Nat
      /\ DataFixed[i].backupId.public \in Secrets
  BY HandlerTyped, DataTyped
<1>3. Sound(store) /\ w \in [secret : Secrets, restored : BOOLEAN]
  BY <1>2 DEF Sound, TypeOK, StatusShared
<1>4. /\ ~WalletExists(store, id)
      /\ \/ id \notin DOMAIN store.permanent
         \/ n > Nonce(store, id)
  BY DEF RestoreThreshold, CanRestore, CheckNonce, WalletExistsPermanent, Data
<1>5. n \in Uint64
  <2>1. HandlerSound(running[h], pathNonce)
    BY DEF HandlersSound
  <2> QED
    BY <2>1, <1>1, <1>2, LimitsAssumption
       DEF HandlerSound, NonceOps, IsUint64, Uint64
<1>6. /\ r.ok =>
            /\ store' = UpdateNonce(r.store, id, n)
            /\ proofs' = proofs \cup
                 {KeyExistenceProof(UpdateNonce(r.store, id, n), id)}
            /\ committed' = [committed EXCEPT ![i] = @ + 1]
      /\ ~r.ok => /\ store' = r.store
                  /\ proofs' = proofs
                  /\ committed' = committed
      /\ confirmed' = confirmed
  BY DEF RestoreThreshold, Commit, Data
<1>7. CASE r.ok
  <2>1. /\ store' = UpdateNonce(Recorded(store, id, w), id, n)
        /\ proofs' = proofs \cup {KeyExistenceProof(store', id)}
        /\ HasRoom(store, id)
    BY <1>6, <1>7, StoreOutcome
  <2>2. Moves(store, store', id, n) /\ WalletExists(store', id)
    BY <2>1, <1>2, <1>3, <1>4, <1>5, RestoreMoves
  <2>3. ~Spent(i) /\ NonceOf(i) = n
    <3>1. id \in DOMAIN store.permanent => Nonce(store, id) \in Uint64
      BY <1>3, NonceOfSound
    <3> QED
      BY <3>1, <1>1, <1>2, <1>4, LimitsAssumption
         DEF Spent, NonceOf, NonceOps, RestoreOps, Uint64, WalletExistsPermanent
  <2>4. Enters(i)
    BY <2>1, <2>2, <1>1, <1>4 DEF Enters
  <2> QED
    BY <2>2, <2>3, <2>4, <1>1, <1>2, <1>6, <1>7 DEF Commits, RestoreOps
<1>8. CASE ~r.ok
  <2>1. store' = store
    BY <1>6, <1>8, StoreOutcome
  <2> QED
    BY <2>1, <1>6, <1>8 DEF Keeps
<1> QED
  BY <1>7, <1>8
\* An accepted End confirms a spent instruction.
LEMMA EndKind ==
    ASSUME TypeOK, StatusShared, NEW h \in DOMAIN running,
           \/ Data(h).op \in {"generate", "directBackup"}
              /\ WalletExists(store, Data(h).key)
           \/ Data(h).op = "delete" /\ DeleteConfirmed(Data(h))
           \/ Data(h).op \in RestoreOps /\ RestoreConfirmed(Data(h))
    PROVE  Confirms(running[h].instr)
<1> DEFINE i == running[h].instr
           id == DataFixed[i].key
           n == DataFixed[i].nonce
<1>1. i \in Instructions /\ n \in Nat
  BY HandlerTyped, DataTyped
<1>2. Sound(store)
  BY DEF Sound, TypeOK, StatusShared
<1>3. /\ DOMAIN store.wallets \subseteq DOMAIN store.permanent
      /\ id \in DOMAIN store.permanent => Nonce(store, id) \in Nat
  BY <1>2, NonceOfSound, LimitsAssumption DEF Uint64
<1>4. CASE /\ DataFixed[i].op \in {"generate", "directBackup"}
           /\ WalletExists(store, id)
  BY <1>1, <1>3, <1>4 DEF Confirms, Spent, NonceOps, RestoreOps, WalletExists,
                          WalletExistsPermanent
<1>5. CASE DataFixed[i].op = "delete" /\ DeleteConfirmed(DataFixed[i])
  BY <1>1, <1>3, <1>5 DEF Confirms, Spent, NonceOps, RestoreOps,
                          DeleteConfirmed, CheckNonce, WalletExistsPermanent
<1>6. CASE DataFixed[i].op \in RestoreOps /\ RestoreConfirmed(DataFixed[i])
  BY <1>1, <1>3, <1>6 DEF Confirms, Spent, NonceOps, RestoreConfirmed,
                          WalletExists, WalletExistsPermanent
<1> QED
  BY <1>4, <1>5, <1>6 DEF Data

\* An action that ends with a confirmation leaves the storage alone.
LEMMA ConfirmedKeeps ==
    ASSUME NEW i, Confirms(i), store' = store, committed' = committed,
           \/ proofs' = proofs
           \/ \E k \in DOMAIN store.wallets :
                 proofs' = proofs \cup {KeyExistenceProof(store, k)},
           confirmed' = confirmed \cup {i}
    PROVE  Keeps
BY DEF Keeps

\* Every step of a handler is of one of the two kinds.
LEMMA HandleKinds ==
    ASSUME TypeOK, StatusShared, HandlersSound, NEW h \in Handlers, Handle(h)
    PROVE  Keeps \/ \E i \in Instructions : Commits(i)
<1> USE DEF history
<1>1. CASE \E i \in Instructions, tag \in Tags : preprocess(h, i, tag)
  BY <1>1 DEF preprocess, Keeps
<1>2. CASE Timeout(h)
  BY <1>2 DEF Timeout, Keeps
<1>3. CASE validate(h)
  BY <1>3 DEF validate, Keeps
<1>4. CASE KeyGenerateThreshold(h)
  BY <1>4, GenerateKind
<1>5. CASE KeyGenerateEnd(h)
  <2>1. h \in DOMAIN running /\ Data(h).op = "generate"
        /\ WalletExists(store, Data(h).key)
    BY <1>5 DEF KeyGenerateEnd, AtLock
  <2>2. Confirms(running[h].instr)
    BY <2>1, EndKind
  <2> QED
    BY <1>5, <2>2, ConfirmedKeeps DEF KeyGenerateEnd, WalletExists
<1>6. CASE KeyDeleteThreshold(h)
  BY <1>6, DeleteKind
<1>7. CASE KeyDeleteEnd(h)
  <2>1. h \in DOMAIN running /\ Data(h).op = "delete"
        /\ DeleteConfirmed(Data(h))
    BY <1>7 DEF KeyDeleteEnd, AtLock
  <2>2. Confirms(running[h].instr)
    BY <2>1, EndKind
  <2> QED
    BY <1>7, <2>2, ConfirmedKeeps DEF KeyDeleteEnd
<1>8. ASSUME h \in DOMAIN running, Data(h).op \in RestoreOps, RestoreEnd(h)
      PROVE  Keeps
  <2>1. Confirms(running[h].instr)
    BY <1>8, EndKind DEF RestoreEnd
  <2> QED
    BY <1>8, <2>1, ConfirmedKeeps DEF RestoreEnd
<1>9. CASE KeyDataProviderRestore(h)
  BY <1>9, <1>8, RestoreKind DEF KeyDataProviderRestore, AtLock, RestoreOps
<1>10. CASE KeyDirectRestore(h)
  BY <1>10, <1>8, RestoreKind DEF KeyDirectRestore, AtLock, RestoreOps
<1>11. CASE KeyDirectBackup(h)
  <2>1. h \in DOMAIN running /\ Data(h).op = "directBackup"
        /\ WalletExists(store, Data(h).key)
    BY <1>11 DEF KeyDirectBackup, AtLock
  <2>2. Confirms(running[h].instr)
    BY <2>1, EndKind
  <2>3. /\ store' = store
        /\ committed' = committed
        /\ proofs' = proofs
        /\ \/ confirmed' = confirmed
           \/ confirmed' = confirmed \cup {running[h].instr}
    BY <1>11 DEF KeyDirectBackup
  <2> QED
    BY <2>2, <2>3, ConfirmedKeeps DEF Keeps
<1>12. CASE Reject(h)
  BY <1>12 DEF Reject, Keeps
<1> QED
  BY <1>1, <1>2, <1>3, <1>4, <1>5, <1>6, <1>7, <1>9, <1>10, <1>11, <1>12
     DEF Handle

\* Every step is of one of the two kinds.
LEMMA StepKinds ==
    ASSUME TypeOK, StatusShared, HandlersSound, [Next]_vars
    PROVE  Keeps \/ \E i \in Instructions : Commits(i)
<1> USE DEF history
<1>1. CASE \E h \in Handlers : Handle(h)
  BY <1>1, HandleKinds
<1>2. CASE \E e \in InitialEpochs : InitializePolicy(e)
  BY <1>2 DEF InitializePolicy, Keeps
<1>3. CASE UpdatePolicy
  BY <1>3 DEF UpdatePolicy, Keeps
<1>4. CASE \E n \in 1 .. Len(PathLists) : SetMachinePathList(n)
  BY <1>4 DEF SetMachinePathList, Keeps
<1>5. CASE \E requested \in SUBSET Keys : KeysProof(requested)
  BY <1>5 DEF KeysProof, Keeps
<1>6. CASE \E k \in Keys : TEEBackup(k)
  BY <1>6 DEF TEEBackup, Keeps
<1>7. CASE UNCHANGED vars
  BY <1>7 DEF vars, Keeps
<1> QED
  BY <1>1, <1>2, <1>3, <1>4, <1>5, <1>6, <1>7 DEF Next, DirectAction
----------------------------------------------------------------------------
(* What the two kinds of step do to the histories.                         *)

\* A nonce never falls, and so an instruction that is spent stays spent; one
\* that takes effect becomes so.
LEMMA SpentStays ==
    ASSUME TypeOK, StatusShared, NEW i \in Instructions, Commits(i)
    PROVE  /\ \A k \in DOMAIN store.permanent :
                 k \in DOMAIN store'.permanent /\ Nonce(store, k) <= Nonce(store', k)
           /\ Spent(i)'
           /\ \A j \in Instructions : Spent(j) => Spent(j)'
<1> DEFINE id == DataFixed[i].key
<1>1. Sound(store)
  BY DEF Sound, TypeOK, StatusShared
<1>2. /\ DOMAIN store'.permanent = DOMAIN store.permanent \cup {id}
      /\ Nonce(store', id) = NonceOf(i)
      /\ \A k \in DOMAIN store.permanent \ {id} :
            Nonce(store', k) = Nonce(store, k)
  BY DEF Commits, Moves
<1>3. \A k \in DOMAIN store.permanent : Nonce(store, k) \in Nat
  BY <1>1, NonceOfSound, LimitsAssumption DEF Uint64
<1>4. DataFixed[i].nonce \in Nat /\ NonceOf(i) \in Nat
  BY DataTyped DEF NonceOf
<1>5. id \in DOMAIN store.permanent => Nonce(store, id) <= NonceOf(i)
  <2>1. DataFixed[i].op \in {"generate"} \cup NonceOps
    BY DataTyped DEF Commits, Ops, NonceOps, RestoreOps
  <2>2. ~Spent(i)
    BY DEF Commits
  <2> QED
    BY <2>1, <2>2, <1>3, <1>4
       DEF Spent, NonceOf, NonceOps, RestoreOps, WalletExistsPermanent
<1>6. \A k \in DOMAIN store.permanent :
         k \in DOMAIN store'.permanent /\ Nonce(store, k) <= Nonce(store', k)
  BY <1>2, <1>3, <1>5
<1>7. Spent(i)'
  BY <1>2, <1>4 DEF Spent, NonceOf, NonceOps, RestoreOps, WalletExistsPermanent
<1>8. ASSUME NEW j \in Instructions, Spent(j)
      PROVE  Spent(j)'
  <2>1. DataFixed[j].nonce \in Nat
    BY DataTyped
  <2>2. DataFixed[j].key \in DOMAIN store.permanent
    BY <1>8 DEF Spent, WalletExistsPermanent
  <2>3. Nonce(store', DataFixed[j].key) \in Nat
    BY <2>2, <1>2, <1>3, <1>4
  <2> QED
    BY <2>1, <2>2, <2>3, <1>3, <1>6, <1>8 DEF Spent, WalletExistsPermanent
<1> QED
  BY <1>6, <1>7, <1>8

\* An instruction takes effect at most once.
LEMMA DoneStep ==
    ASSUME TypeOK, StatusShared, DoneIsSpent, AtMostOnce,
           Keeps \/ \E i \in Instructions : Commits(i)
    PROVE  DoneIsSpent' /\ AtMostOnce'
<1>1. CASE Keeps
  <2>1. \A j \in Instructions : Spent(j)' <=> Spent(j)
    BY <1>1 DEF Keeps, Spent, WalletExistsPermanent, Nonce
  <2> QED
    BY <2>1, <1>1 DEF Keeps, Confirms, DoneIsSpent, AtMostOnce
<1>2. ASSUME NEW i \in Instructions, Commits(i)
      PROVE  DoneIsSpent' /\ AtMostOnce'
  <2>1. Spent(i)' /\ \A j \in Instructions : Spent(j) => Spent(j)'
    BY <1>2, SpentStays
  <2>2. committed \in [Instructions -> Nat]
    BY DEF TypeOK
  <2>3. /\ \A j \in Instructions \ {i} : committed'[j] = committed[j]
        /\ committed'[i] = committed[i] + 1
        /\ confirmed' = confirmed
    BY <1>2, <2>2 DEF Commits
  <2>4. committed[i] = 0
    BY <1>2, <2>2 DEF Commits, DoneIsSpent
  <2>5. DoneIsSpent'
    BY <2>1, <2>3 DEF DoneIsSpent
  <2>6. AtMostOnce'
    BY <2>2, <2>3, <2>4 DEF AtMostOnce
  <2> QED
    BY <2>5, <2>6
<1> QED
  BY <1>1, <1>2
\* Attesting what is stored agrees with everything attested before.
LEMMA ProofsStep ==
    ASSUME TypeOK, StatusShared, ProofsCovered, ProofsUnambiguous,
           Keeps \/ \E i \in Instructions : Commits(i)
    PROVE  ProofsCovered' /\ ProofsUnambiguous'
<1>1. Sound(store)
  BY DEF Sound, TypeOK, StatusShared
<1>2. \A p \in proofs : p.nonce \in Nat
  BY LimitsAssumption DEF TypeOK, ExistenceProofs, Uint64
<1>3. \A p \in proofs' \ proofs : \E k \in DOMAIN store'.wallets :
         p = KeyExistenceProof(store', k)
  BY DEF Keeps, Commits, Enters, Leaves, WalletExists
<1>4. ASSUME Sound(store'), NEW k \in DOMAIN store'.wallets,
             NEW p, p = KeyExistenceProof(store', k)
      PROVE  /\ p.key = k
             /\ k \in DOMAIN store'.permanent
             /\ p.nonce = Nonce(store', k)
             /\ p.nonce \in Nat
  BY <1>4, NonceOfSound, LimitsAssumption DEF Uint64
<1>5. Sound(store')
  <2>1. CASE Keeps
    BY <1>1, <2>1 DEF Keeps
  <2> QED
    BY <2>1 DEF Commits, Moves
<1>6. ASSUME NEW p \in proofs
      PROVE  /\ p.key \in DOMAIN store'.permanent
             /\ p.nonce <= Nonce(store', p.key)
             /\ p.nonce = Nonce(store', p.key) =>
                   /\ p.key \in DOMAIN store'.wallets
                   /\ p = KeyExistenceProof(store', p.key)
  <2>1. /\ p.key \in DOMAIN store.permanent
        /\ p.nonce <= Nonce(store, p.key)
        /\ p.nonce = Nonce(store, p.key) =>
              /\ p.key \in DOMAIN store.wallets
              /\ p = KeyExistenceProof(store, p.key)
    BY DEF ProofsCovered, WalletExists, WalletExistsPermanent
  <2>2. CASE Keeps
    BY <2>1, <2>2 DEF Keeps
  <2>3. ASSUME NEW i \in Instructions, Commits(i)
        PROVE  /\ p.key \in DOMAIN store'.permanent
               /\ p.nonce <= Nonce(store', p.key)
               /\ p.nonce = Nonce(store', p.key) =>
                     /\ p.key \in DOMAIN store'.wallets
                     /\ p = KeyExistenceProof(store', p.key)
    <3> DEFINE id == DataFixed[i].key
    <3>1. Moves(store, store', id, NonceOf(i))
      BY <2>3 DEF Commits
    <3>2. CASE p.key # id
      BY <2>1, <3>1, <3>2 DEF Moves
    <3>3. CASE p.key = id
      <4>1. Nonce(store, id) \in Nat /\ Nonce(store, id) <= Nonce(store', id)
            /\ id \in DOMAIN store'.permanent
        BY <1>1, <2>1, <2>3, <3>3, SpentStays, NonceOfSound, LimitsAssumption
           DEF Uint64
      <4>2. Nonce(store', id) = NonceOf(i) /\ NonceOf(i) \in Nat
        BY <3>1, DataTyped DEF Moves, NonceOf
      <4>3. Nonce(store, id) # NonceOf(i)
        <5>1. DataFixed[i].op \in {"generate"} \cup NonceOps
          BY <2>3, DataTyped DEF Commits, Ops, NonceOps, RestoreOps
        <5>2. ~Spent(i) /\ DataFixed[i].nonce \in Nat
          BY <2>3, DataTyped DEF Commits
        <5> QED
          BY <5>1, <5>2, <4>1, <2>1, <3>3
             DEF Spent, NonceOf, NonceOps, RestoreOps, WalletExistsPermanent
      <4>4. p.nonce < Nonce(store', id)
        BY <4>1, <4>2, <4>3, <2>1, <3>3, <1>2
      <4> QED
        BY <4>1, <4>2, <4>4, <3>3, <1>2
    <3> QED
      BY <3>2, <3>3
  <2> QED
    BY <2>2, <2>3
<1>7. ProofsCovered'
  <2> SUFFICES ASSUME NEW p \in proofs'
               PROVE  /\ p.key \in DOMAIN store'.permanent
                      /\ p.nonce <= Nonce(store', p.key)
                      /\ p.nonce = Nonce(store', p.key) =>
                            /\ p.key \in DOMAIN store'.wallets
                            /\ p = KeyExistenceProof(store', p.key)
    BY DEF ProofsCovered, WalletExists, WalletExistsPermanent
  <2>1. CASE p \in proofs
    BY <2>1, <1>6
  <2>2. CASE p \notin proofs
    <3>1. PICK k \in DOMAIN store'.wallets : p = KeyExistenceProof(store', k)
      BY <2>2, <1>3
    <3>2. /\ p.key = k
          /\ k \in DOMAIN store'.permanent
          /\ p.nonce = Nonce(store', k)
          /\ p.nonce \in Nat
      BY <3>1, <1>4, <1>5
    <3> QED
      BY <3>1, <3>2
  <2> QED
    BY <2>1, <2>2
<1>8. ProofsUnambiguous'
  <2> SUFFICES ASSUME NEW p \in proofs', NEW q \in proofs',
                      p.key = q.key, p.nonce = q.nonce
               PROVE  p = q
    BY DEF ProofsUnambiguous
  <2>1. CASE p \in proofs /\ q \in proofs
    BY <2>1 DEF ProofsUnambiguous
  <2>2. ASSUME NEW r \in proofs' \ proofs
        PROVE  r = KeyExistenceProof(store', r.key)
               /\ r.nonce = Nonce(store', r.key)
    BY <1>3, <1>4, <1>5
  <2>3. \A r \in proofs' : r.nonce = Nonce(store', r.key) =>
                              r = KeyExistenceProof(store', r.key)
    BY <1>7 DEF ProofsCovered
  <2>4. CASE p \notin proofs \/ q \notin proofs
    BY <2>2, <2>3, <2>4
  <2> QED
    BY <2>1, <2>4
<1> QED
  BY <1>7, <1>8

\* The nonce of a record stays accounted for, and with it what an accepted End
\* of a restore confirms.
LEMMA OriginStep ==
    ASSUME TypeOK, StatusShared, DoneIsSpent, AtMostOnce, NonceHasOrigin,
           RestoreEndConfirms, Keeps \/ \E i \in Instructions : Commits(i)
    PROVE  NonceHasOrigin' /\ RestoreEndConfirms'
<1>1. committed \in [Instructions -> Nat]
  BY DEF TypeOK
<1>2. ASSUME Keeps
      PROVE  NonceHasOrigin' /\ RestoreEndConfirms'
  <2>1. NonceHasOrigin'
    BY <1>2 DEF Keeps, NonceHasOrigin, Nonce
  <2>2. ASSUME NEW i \in confirmed' \ confirmed,
               DataFixed[i].op \in RestoreOps, SoleNonce(i)
        PROVE  committed[i] = 1
    <3>1. /\ i \in Instructions
          /\ DataFixed[i].key \in DOMAIN store.permanent
          /\ Nonce(store, DataFixed[i].key) = DataFixed[i].nonce
      BY <1>2, <2>2 DEF Keeps, Confirms, Spent, WalletExistsPermanent
    <3>2. DataFixed[i].nonce # 0
      BY <3>1, <2>2, DataTyped DEF SoleNonce
    <3>3. PICK j \in Instructions : /\ DataFixed[j].op \in NonceOps
                                    /\ DataFixed[j].key = DataFixed[i].key
                                    /\ DataFixed[j].nonce = DataFixed[i].nonce
                                    /\ committed[j] > 0
      BY <3>1, <3>2 DEF NonceHasOrigin
    <3>4. j = i
      BY <2>2, <3>3 DEF SoleNonce
    <3> QED
      BY <3>1, <3>3, <3>4, <1>1 DEF AtMostOnce
  <2>3. RestoreEndConfirms'
    BY <1>2, <2>2 DEF Keeps, RestoreEndConfirms, SoleNonce
  <2> QED
    BY <2>1, <2>3
<1>3. ASSUME NEW i \in Instructions, Commits(i)
      PROVE  NonceHasOrigin' /\ RestoreEndConfirms'
  <2> DEFINE id == DataFixed[i].key
  <2>1. /\ DOMAIN store'.permanent = DOMAIN store.permanent \cup {id}
        /\ Nonce(store', id) = NonceOf(i)
        /\ \A k \in DOMAIN store.permanent \ {id} :
              Nonce(store', k) = Nonce(store, k)
    BY <1>3 DEF Commits, Moves
  <2>2. /\ \A j \in Instructions : committed'[j] >= committed[j]
        /\ committed'[i] > 0
        /\ \A j \in Instructions \ {i} : committed'[j] = committed[j]
    BY <1>1, <1>3 DEF Commits
  <2>3. DataFixed[i].op \in {"generate"} \cup NonceOps
    BY <1>3, DataTyped DEF Commits, Ops, NonceOps, RestoreOps
  <2>4. ASSUME NEW k \in DOMAIN store'.permanent
        PROVE  \/ Nonce(store', k) = 0
               \/ \E j \in Instructions : /\ DataFixed[j].op \in NonceOps
                                          /\ DataFixed[j].key = k
                                          /\ DataFixed[j].nonce = Nonce(store', k)
                                          /\ committed'[j] > 0
    <3>1. CASE k = id
      BY <2>1, <2>2, <2>3, <3>1 DEF NonceOf
    <3>2. CASE k # id
      <4>1. k \in DOMAIN store.permanent /\ Nonce(store', k) = Nonce(store, k)
        BY <2>1, <3>2
      <4>2. \/ Nonce(store, k) = 0
            \/ \E j \in Instructions : /\ DataFixed[j].op \in NonceOps
                                       /\ DataFixed[j].key = k
                                       /\ DataFixed[j].nonce = Nonce(store, k)
                                       /\ committed[j] > 0
        BY <4>1 DEF NonceHasOrigin
      <4>3. \A j \in Instructions : committed[j] > 0 => committed'[j] > 0
        BY <2>2, <1>1
      <4> QED
        BY <4>1, <4>2, <4>3
    <3> QED
      BY <3>1, <3>2
  <2>5. NonceHasOrigin'
    BY <2>4 DEF NonceHasOrigin
  <2>6. i \notin confirmed /\ confirmed' = confirmed
    BY <1>3 DEF Commits, DoneIsSpent
  <2>7. confirmed \subseteq Instructions
    BY DEF TypeOK
  <2>8. RestoreEndConfirms'
    BY <2>2, <2>6, <2>7 DEF RestoreEndConfirms, SoleNonce
  <2> QED
    BY <2>5, <2>8
<1> QED
  BY <1>2, <1>3
----------------------------------------------------------------------------
(* Types, handlers and transfers.                                          *)

\* The part of TypeOK that the two kinds of step say nothing about.
RestTyped == /\ Policy!EpochTypeOK
             /\ pathNonce \in 0 .. Len(PathLists)
             /\ IsMap(running, Handlers, RunType)
             /\ drawn \in Nat
             /\ backups \subseteq BackupIDs
             /\ transfers \subseteq TransferType

\* The storage and the histories of what it holds stay well typed.
LEMMA KindsTyped ==
    ASSUME TypeOK, StatusShared, Keeps \/ \E i \in Instructions : Commits(i)
    PROVE  /\ IsStorage(store')
           /\ StatusIsShared(store')
           /\ proofs' \subseteq ExistenceProofs
           /\ committed' \in [Instructions -> Nat]
           /\ confirmed' \subseteq Instructions
<1>1. Sound(store)
  BY DEF Sound, TypeOK, StatusShared
<1>2. Sound(store')
  <2>1. CASE Keeps
    BY <1>1, <2>1 DEF Keeps
  <2> QED
    BY <2>1 DEF Commits, Moves
<1>3. \A p \in proofs' \ proofs : \E k \in DOMAIN store'.wallets :
         p = KeyExistenceProof(store', k)
  BY DEF Keeps, Commits, Enters, Leaves, WalletExists
<1>4. \A k \in DOMAIN store'.wallets :
         KeyExistenceProof(store', k) \in ExistenceProofs
  BY <1>2, NonceOfSound
<1>5. proofs' \subseteq ExistenceProofs
  BY <1>3, <1>4 DEF TypeOK
<1>6. committed' \in [Instructions -> Nat]
  BY DEF TypeOK, Keeps, Commits
<1>7. confirmed' \subseteq Instructions
  BY DEF TypeOK, Keeps, Commits, Confirms
<1> QED
  BY <1>2, <1>5, <1>6, <1>7 DEF Sound

\* A handler that returns, with or without a transfer.
LEMMA ReturnRest ==
    ASSUME TypeOK, HandlersSound, TransfersAuthorized,
           NEW h \in DOMAIN running, Return(h),
           UNCHANGED <<epochState, pathNonce, backups>>, drawn' \in Nat,
           \/ transfers' = transfers
           \/ /\ running[h].stage = "validated"
              /\ transfers' = transfers \cup {Transfer(h)}
    PROVE  RestTyped' /\ HandlersSound' /\ TransfersAuthorized'
<1>1. /\ activeEpoch' = activeEpoch
      /\ storedEpochs' = storedEpochs
      /\ updates' = updates
      /\ pathNonce' = pathNonce
      /\ backups' = backups
  BY DEF epochState
<1>2. pathNonce \in Nat
  BY DEF TypeOK
<1>3. Policy!EpochTypeOK'
  BY <1>1 DEF TypeOK, Policy!EpochTypeOK
<1>4. /\ IsMap(running', Handlers, RunType)
      /\ DOMAIN running' \subseteq DOMAIN running
      /\ \A g \in DOMAIN running' : running'[g] = running[g]
  BY ReturnTyped
<1>5. HandlersSound'
  BY <1>1, <1>2, <1>4, HandlersStaySound
<1>6. activeEpoch \in Int
  BY ProcessorAssumption
     DEF TypeOK, Policy!EpochTypeOK, Policy!Epochs, Policy!NoEpoch
<1>7. Transfer(h) \in TransferType
  BY <1>6, HandlerTyped DEF Transfer, TransferType
<1>8. RestTyped'
  BY <1>1, <1>3, <1>4, <1>7 DEF RestTyped, TypeOK
<1>9. ASSUME running[h].stage = "validated",
             DataFixed[running[h].instr].op \in DirectOps
      PROVE  ListAllows(DataFixed[running[h].instr], running[h].seen,
                        running[h].start)
  BY <1>9 DEF HandlersSound, HandlerSound
<1>10. /\ Transfer(h).instr = running[h].instr
       /\ Transfer(h).list = running[h].seen
       /\ Transfer(h).start = running[h].start
  BY DEF Transfer
<1>11. TransfersAuthorized'
  BY <1>9, <1>10 DEF TransfersAuthorized
<1> QED
  BY <1>5, <1>8, <1>11

\* A handler that goes on knowing r.
LEMMA GoOnRest ==
    ASSUME TypeOK, HandlersSound, TransfersAuthorized,
           UNCHANGED <<epochState, pathNonce, backups, drawn, transfers>>,
           NEW h \in Handlers, NEW r \in RunType, HandlerSound(r, pathNonce),
           \/ running' = Put(running, h, r)
           \/ h \in DOMAIN running /\ running' = [running EXCEPT ![h] = r]
    PROVE  RestTyped' /\ HandlersSound' /\ TransfersAuthorized'
<1>1. /\ activeEpoch' = activeEpoch
      /\ storedEpochs' = storedEpochs
      /\ updates' = updates
      /\ pathNonce' = pathNonce
      /\ backups' = backups
      /\ drawn' = drawn
      /\ transfers' = transfers
  BY DEF epochState
<1>2. Policy!EpochTypeOK'
  BY <1>1 DEF TypeOK, Policy!EpochTypeOK
<1>3. /\ IsMap(running', Handlers, RunType)
      /\ DOMAIN running' = DOMAIN running \cup {h}
      /\ running'[h] = r
      /\ \A g \in DOMAIN running \ {h} : running'[g] = running[g]
  <2>1. CASE running' = Put(running, h, r)
    BY <2>1, StartTyped
  <2>2. CASE h \in DOMAIN running /\ running' = [running EXCEPT ![h] = r]
    BY <2>2 DEF TypeOK, IsMap
  <2> QED
    BY <2>1, <2>2
<1>4. RestTyped'
  BY <1>1, <1>2, <1>3 DEF RestTyped, TypeOK
<1>5. HandlersSound'
  BY <1>1, <1>3 DEF HandlersSound
<1>6. TransfersAuthorized'
  BY <1>1 DEF TransfersAuthorized
<1> QED
  BY <1>4, <1>5, <1>6
\* The checks before the wallet lock establish what a validated handler relies
\* on under it.
LEMMA ValidateSound ==
    ASSUME TypeOK, HandlersSound, NEW h \in DOMAIN running, Validates(Data(h))
    PROVE  HandlerSound([running[h] EXCEPT !.stage = "validated",
                                           !.seen = pathNonce], pathNonce)
<1> DEFINE d == DataFixed[running[h].instr]
           r == [running[h] EXCEPT !.stage = "validated", !.seen = pathNonce]
<1>1. running[h].start \in Nat /\ running[h].start <= pathNonce
  BY HandlerTyped DEF HandlersSound, HandlerSound
<1>2. /\ r.start = running[h].start
      /\ r.seen = pathNonce
      /\ r.instr = running[h].instr
  BY HandlerTyped DEF RunType
<1>3. d.op \in NonceOps => IsUint64(d.nonce)
  BY DEF Validates, Data, NonceOps, RestoreOps, checkKeyDelete,
         keyRestoreDataCheck, validateKeyDirectRestoreRequest
<1>4. d.listNonce \in Nat
  BY HandlerTyped, DataTyped
<1>5. pathNonce \in 0 .. Len(PathLists) /\ Len(PathLists) \in Nat
  BY ProcessorAssumption DEF TypeOK
<1>6. CASE d.op = "directBackup"
  <2>1. d.listNonce = pathNonce /\ pathAuthorizes(Paths, Self, d.target)
    BY <1>6 DEF Validates, Data, validateKeyDirectBackupRequest
  <2>2. pathNonce # 0 /\ Paths = PathLists[pathNonce]
    BY <2>1 DEF Paths, pathAuthorizes
  <2>3. ListAllows(d, pathNonce, running[h].start)
    BY <2>1, <2>2, <1>1, <1>4, <1>5, <1>6 DEF ListAllows
  <2> QED
    BY <2>3, <1>1, <1>2, <1>3 DEF HandlerSound
<1>7. CASE d.op = "directRestore"
  <2>1. d.listNonce <= pathNonce /\ pathAuthorizes(Paths, d.source, Self)
    BY <1>7 DEF Validates, Data, validateKeyDirectRestoreRequest
  <2>2. pathNonce # 0 /\ Paths = PathLists[pathNonce]
    BY <2>1 DEF Paths, pathAuthorizes
  <2>3. ListAllows(d, pathNonce, running[h].start)
    BY <2>1, <2>2, <1>1, <1>4, <1>5, <1>7 DEF ListAllows
  <2> QED
    BY <2>3, <1>1, <1>2, <1>3 DEF HandlerSound
<1>8. CASE d.op \notin DirectOps
  BY <1>1, <1>2, <1>3, <1>8 DEF HandlerSound
<1> QED
  BY <1>6, <1>7, <1>8 DEF DirectOps

\* A step of a handler keeps types, handlers and transfers in order.
LEMMA HandleRest ==
    ASSUME TypeOK, HandlersSound, TransfersAuthorized,
           NEW h \in Handlers, Handle(h)
    PROVE  RestTyped' /\ HandlersSound' /\ TransfersAuthorized'
<1> USE DEF history
<1>0. drawn \in Nat
  BY DEF TypeOK
<1>1. ASSUME NEW i \in Instructions, NEW tag \in Tags, preprocess(h, i, tag)
      PROVE  RestTyped' /\ HandlersSound' /\ TransfersAuthorized'
  <2> DEFINE r == [instr |-> i, tag |-> tag, stage |-> "checked",
                   ctxErr |-> FALSE, seen |-> 0, start |-> pathNonce]
  <2>1. r \in RunType /\ HandlerSound(r, pathNonce)
    BY DEF TypeOK, RunType, HandlerSound
  <2>2. running' = Put(running, h, r)
        /\ UNCHANGED <<epochState, pathNonce, backups, drawn, transfers>>
    BY <1>1 DEF preprocess
  <2> QED
    BY <2>1, <2>2, GoOnRest
<1>2. CASE Timeout(h)
  <2> DEFINE r == [running[h] EXCEPT !.ctxErr = TRUE]
  <2>1. h \in DOMAIN running /\ running' = [running EXCEPT ![h] = r]
        /\ UNCHANGED <<epochState, pathNonce, backups, drawn, transfers>>
    BY <1>2 DEF Timeout
  <2>2. r \in RunType
    BY <2>1, HandlerTyped DEF RunType
  <2>3. /\ r.start = running[h].start
        /\ r.stage = running[h].stage
        /\ r.instr = running[h].instr
        /\ r.seen = running[h].seen
    BY <2>1, HandlerTyped DEF RunType
  <2>4. HandlerSound(r, pathNonce)
    BY <2>1, <2>3 DEF HandlersSound, HandlerSound
  <2> QED
    BY <2>1, <2>2, <2>4, GoOnRest
<1>3. CASE validate(h)
  <2> DEFINE r == [running[h] EXCEPT !.stage = "validated", !.seen = pathNonce]
  <2>1. h \in DOMAIN running /\ running' = [running EXCEPT ![h] = r]
        /\ UNCHANGED <<epochState, pathNonce, backups, drawn, transfers>>
    BY <1>3 DEF validate
  <2>2. r \in RunType
    <3>1. pathNonce \in Nat
      BY DEF TypeOK
    <3> QED
      BY <2>1, <3>1, HandlerTyped DEF RunType
  <2>3. HandlerSound(r, pathNonce)
    BY <1>3, <2>1, ValidateSound DEF validate
  <2> QED
    BY <2>1, <2>2, <2>3, GoOnRest
<1>4. CASE KeyGenerateThreshold(h)
  <2>1. /\ h \in DOMAIN running
        /\ Return(h)
        /\ UNCHANGED <<epochState, pathNonce, backups>>
        /\ transfers' = transfers
    BY <1>4 DEF KeyGenerateThreshold, AtLock
  <2>2. drawn' \in Nat
    BY <1>0, <1>4 DEF KeyGenerateThreshold
  <2> QED
    BY <2>1, <2>2, ReturnRest
<1>5. CASE KeyGenerateEnd(h)
  BY <1>0, <1>5, ReturnRest DEF KeyGenerateEnd, AtLock
<1>6. CASE KeyDeleteThreshold(h)
  BY <1>0, <1>6, ReturnRest DEF KeyDeleteThreshold, AtLock
<1>7. CASE KeyDeleteEnd(h)
  BY <1>0, <1>7, ReturnRest DEF KeyDeleteEnd, AtLock
<1>8. ASSUME h \in DOMAIN running, running[h].stage = "validated",
             RestoreThreshold(h) \/ RestoreEnd(h)
      PROVE  RestTyped' /\ HandlersSound' /\ TransfersAuthorized'
  <2>1. /\ Return(h)
        /\ UNCHANGED <<epochState, pathNonce, backups>>
        /\ drawn' = drawn
        /\ transfers' = transfers \/ transfers' = transfers \cup {Transfer(h)}
    BY <1>8 DEF RestoreThreshold, RestoreEnd
  <2> QED
    BY <1>0, <1>8, <2>1, ReturnRest
<1>9. CASE KeyDataProviderRestore(h)
  BY <1>8, <1>9 DEF KeyDataProviderRestore, AtLock
<1>10. CASE KeyDirectRestore(h)
  BY <1>8, <1>10 DEF KeyDirectRestore, AtLock
<1>11. CASE KeyDirectBackup(h)
  BY <1>0, <1>11, ReturnRest DEF KeyDirectBackup, AtLock
<1>12. CASE Reject(h)
  BY <1>0, <1>12, ReturnRest DEF Reject
<1> QED
  BY <1>1, <1>2, <1>3, <1>4, <1>5, <1>6, <1>7, <1>9, <1>10, <1>11, <1>12
     DEF Handle
\* So does every step.
LEMMA StepRest ==
    ASSUME TypeOK, HandlersSound, TransfersAuthorized, [Next]_vars
    PROVE  RestTyped' /\ HandlersSound' /\ TransfersAuthorized'
<1> USE DEF history, epochState
<1>1. CASE \E h \in Handlers : Handle(h)
  BY <1>1, HandleRest
<1>2. RestTyped /\ pathNonce \in Nat
  BY DEF RestTyped, TypeOK
<1>3. ASSUME running' = running, pathNonce' = pathNonce, transfers' = transfers
      PROVE  HandlersSound' /\ TransfersAuthorized'
  BY <1>2, <1>3, HandlersStaySound DEF TransfersAuthorized
<1>4. ASSUME NEW e \in InitialEpochs, InitializePolicy(e)
      PROVE  RestTyped' /\ HandlersSound' /\ TransfersAuthorized'
  <2>1. Policy!EpochTypeOK'
    BY <1>2, <1>4, ProcessorAssumption
       DEF InitializePolicy, Policy!Initialize, RestTyped, Policy!EpochTypeOK,
           Policy!Epochs
  <2> QED
    BY <2>1, <1>2, <1>3, <1>4 DEF InitializePolicy, RestTyped
<1>5. CASE UpdatePolicy
  <2>1. Policy!EpochTypeOK'
    <3>1. /\ activeEpoch \in 0 .. EpochMod - 1
          /\ activeEpoch' = (activeEpoch + 1) % EpochMod
          /\ storedEpochs' = storedEpochs \cup {(activeEpoch + 1) % EpochMod}
          /\ updates' = updates + 1
          /\ updates < MaxUpdates
      BY <1>2, <1>5 DEF UpdatePolicy, Policy!Advance, Policy!NextEpoch,
                        RestTyped, Policy!EpochTypeOK, Policy!Epochs
    <3>2. (activeEpoch + 1) % EpochMod \in 0 .. EpochMod - 1
      BY <3>1, ProcessorAssumption
    <3>3. updates' \in 0 .. MaxUpdates
      BY <3>1, <1>2, ProcessorAssumption DEF RestTyped, Policy!EpochTypeOK
    <3> QED
      BY <3>1, <3>2, <3>3, <1>2
         DEF RestTyped, Policy!EpochTypeOK, Policy!Epochs
  <2> QED
    BY <2>1, <1>2, <1>3, <1>5 DEF UpdatePolicy, RestTyped
<1>6. ASSUME NEW n \in 1 .. Len(PathLists), SetMachinePathList(n)
      PROVE  RestTyped' /\ HandlersSound' /\ TransfersAuthorized'
  <2>1. /\ pathNonce' = n
        /\ n > pathNonce
        /\ running' = running
        /\ transfers' = transfers
        /\ UNCHANGED <<epochState, drawn, backups>>
    BY <1>6 DEF SetMachinePathList
  <2>2. pathNonce' \in 0 .. Len(PathLists) /\ pathNonce' >= pathNonce
    BY <2>1, <1>2, ProcessorAssumption
  <2>3. pathNonce' \in Nat
    BY <2>2
  <2>4. HandlersSound'
    BY <2>1, <2>2, <2>3, HandlersStaySound
  <2>5. TransfersAuthorized'
    BY <2>1 DEF TransfersAuthorized
  <2>6. Policy!EpochTypeOK'
    BY <2>1, <1>2 DEF RestTyped, Policy!EpochTypeOK
  <2> QED
    BY <2>1, <2>2, <2>4, <2>5, <2>6, <1>2 DEF RestTyped
<1>7. ASSUME NEW requested \in SUBSET Keys, KeysProof(requested)
      PROVE  RestTyped' /\ HandlersSound' /\ TransfersAuthorized'
  <2>1. Policy!EpochTypeOK'
    BY <1>2, <1>7 DEF KeysProof, RestTyped, Policy!EpochTypeOK
  <2> QED
    BY <2>1, <1>2, <1>3, <1>7 DEF KeysProof, RestTyped
<1>8. ASSUME NEW k \in Keys, TEEBackup(k)
      PROVE  RestTyped' /\ HandlersSound' /\ TransfersAuthorized'
  <2>1. Policy!EpochTypeOK'
    BY <1>2, <1>8 DEF TEEBackup, RestTyped, Policy!EpochTypeOK
  <2>2. store.wallets[k].secret \in Secrets /\ activeEpoch \in Nat
    BY <1>2, <1>8, ProcessorAssumption
       DEF TEEBackup, WalletExists, TypeOK, IsStorage, IsMap, Wallet,
           RestTyped, Policy!EpochTypeOK, Policy!Epochs
  <2>3. backups' \subseteq BackupIDs
    BY <2>2, <1>2, <1>8, ProcessorAssumption
       DEF TEEBackup, BackupIDs, RestTyped
  <2> QED
    BY <2>1, <2>3, <1>2, <1>3, <1>8 DEF TEEBackup, RestTyped
<1>9. CASE UNCHANGED vars
  <2>1. Policy!EpochTypeOK'
    BY <1>2, <1>9 DEF vars, RestTyped, Policy!EpochTypeOK
  <2> QED
    BY <2>1, <1>2, <1>3, <1>9 DEF vars, RestTyped
<1> QED
  BY <1>1, <1>4, <1>5, <1>6, <1>7, <1>8, <1>9 DEF Next, DirectAction

----------------------------------------------------------------------------
(* The theorems.                                                           *)

\* A node that has just started satisfies the invariant.
LEMMA InitIInv == Init => IInv
<1> SUFFICES ASSUME Init PROVE IInv
  OBVIOUS
<1> USE DEF Init
<1>1. /\ store.wallets = EmptyMap
      /\ store.permanent = EmptyMap
      /\ store.heap = << >>
      /\ store = [wallets |-> store.wallets, permanent |-> store.permanent,
                  heap |-> store.heap]
  BY DEF InitializeStorage
<1>2. DOMAIN EmptyMap = {} /\ \A S, T : IsMap(EmptyMap, S, T)
  BY DEF EmptyMap, IsMap
<1>3. IsStorage(store)
  BY <1>1, <1>2 DEF IsStorage
<1>4. Policy!EpochTypeOK
  BY ProcessorAssumption
     DEF Policy!EpochInit, Policy!EpochTypeOK, Policy!NoEpoch
<1>5. TypeOK
  BY <1>2, <1>3, <1>4, ProcessorAssumption DEF TypeOK
<1>6. StatusShared
  BY <1>1, <1>2 DEF StatusShared, StatusIsShared
<1>7. HandlersSound /\ TransfersAuthorized /\ ProofsCovered
      /\ ProofsUnambiguous /\ RestoreEndConfirms
  BY <1>2 DEF HandlersSound, TransfersAuthorized, ProofsCovered,
              ProofsUnambiguous, RestoreEndConfirms
<1>8. DoneIsSpent /\ AtMostOnce
  BY DEF DoneIsSpent, AtMostOnce
<1>9. NonceHasOrigin
  BY <1>1, <1>2 DEF NonceHasOrigin
<1> QED
  BY <1>5, <1>6, <1>7, <1>8, <1>9 DEF IInv

\* Every step preserves it.
LEMMA StepIInv == IInv /\ [Next]_vars => IInv'
<1> SUFFICES ASSUME IInv, [Next]_vars PROVE IInv'
  OBVIOUS
<1>1. /\ TypeOK
      /\ StatusShared
      /\ HandlersSound
      /\ TransfersAuthorized
      /\ DoneIsSpent
      /\ AtMostOnce
      /\ ProofsCovered
      /\ ProofsUnambiguous
      /\ NonceHasOrigin
      /\ RestoreEndConfirms
  BY DEF IInv
<1>2. Keeps \/ \E i \in Instructions : Commits(i)
  BY <1>1, StepKinds
<1>3. RestTyped' /\ HandlersSound' /\ TransfersAuthorized'
  BY <1>1, StepRest
<1>4. TypeOK' /\ StatusShared'
  BY <1>1, <1>2, <1>3, KindsTyped DEF TypeOK, RestTyped, StatusShared
<1>5. DoneIsSpent' /\ AtMostOnce'
  BY <1>1, <1>2, DoneStep
<1>6. ProofsCovered' /\ ProofsUnambiguous'
  BY <1>1, <1>2, ProofsStep
<1>7. NonceHasOrigin' /\ RestoreEndConfirms'
  BY <1>1, <1>2, OriginStep
<1> QED
  BY <1>3, <1>4, <1>5, <1>6, <1>7 DEF IInv

\* The invariant holds whatever the handlers and direct actions interleave to.
THEOREM Invariance == Spec => []IInv
BY InitIInv, StepIInv, PTL DEF Spec

\* The storage, the handlers and all histories are well typed; in particular no
\* nonce wider than 64 bits reaches a wallet status.
THEOREM TypeCorrectness == Spec => []TypeOK
<1>1. IInv => TypeOK
  BY DEF IInv
<1> QED
  BY <1>1, Invariance, PTL

\* A stored wallet and its permanent record share one status object.
THEOREM SharedStatus == Spec => []StatusShared
<1>1. IInv => StatusShared
  BY DEF IInv
<1> QED
  BY <1>1, Invariance, PTL

\* No instruction takes effect twice, however often it is delivered and however
\* its handlers overlap.
THEOREM ReplayProtection == Spec => []AtMostOnce
<1>1. IInv => AtMostOnce
  BY DEF IInv
<1> QED
  BY <1>1, Invariance, PTL

\* Two signed existence proofs with one key and nonce are the same proof.
THEOREM UnambiguousProofs == Spec => []ProofsUnambiguous
<1>1. IInv => ProofsUnambiguous
  BY DEF IInv
<1> QED
  BY <1>1, Invariance, PTL

\* An accepted End of a restore with a nonce of its own confirms its Threshold.
THEOREM RestoreConfirmation == Spec => []RestoreEndConfirms
<1>1. IInv => RestoreEndConfirms
  BY DEF IInv
<1> QED
  BY <1>1, Invariance, PTL

\* Direct transfers follow one path of one list that was current while they ran.
THEOREM AuthorizedTransfers == Spec => []TransfersAuthorized
<1>1. IInv => TransfersAuthorized
  BY DEF IInv
<1> QED
  BY <1>1, Invariance, PTL

\* After an accepted End an instruction never takes effect any more.
THEOREM Finality == Spec => EndIsFinal
<1>1. IInv /\ [Next]_vars => [\A i \in confirmed : committed'[i] = committed[i]]_vars
  <2> SUFFICES ASSUME IInv, [Next]_vars, NEW i \in confirmed
               PROVE  committed'[i] = committed[i]
    OBVIOUS
  <2>1. /\ TypeOK
        /\ StatusShared
        /\ HandlersSound
        /\ DoneIsSpent
    BY DEF IInv
  <2>2. Keeps \/ \E j \in Instructions : Commits(j)
    BY <2>1, StepKinds
  <2>3. i \in Instructions /\ Spent(i) /\ committed \in [Instructions -> Nat]
    BY <2>1 DEF TypeOK, DoneIsSpent
  <2> QED
    BY <2>2, <2>3 DEF Keeps, Commits
<1> QED
  BY <1>1, Invariance, PTL DEF Spec, EndIsFinal
----------------------------------------------------------------------------
(* The limits of the storage. *)

\* For the induction: the two maps are finite, as sets with a cardinality.
RecordsInv == /\ RecordsEarned
              /\ IsFiniteSet(DOMAIN store.wallets)
              /\ IsFiniteSet(DOMAIN store.permanent)

\* One more element, where there was room for it.
LEMMA RoomForOne ==
    ASSUME NEW S, IsFiniteSet(S), NEW x, NEW n \in Nat, Cardinality(S) <= n,
           x \in S \/ Cardinality(S) < n
    PROVE  IsFiniteSet(S \cup {x}) /\ Cardinality(S \cup {x}) <= n
<1>1. Cardinality(S) \in Nat
  BY FS_CardinalityType
<1> QED
  BY <1>1, FS_AddElement

\* A wallet comes in only where there is room, and its record is earned by the
\* instruction that brings it; a delete makes the storage no larger.
LEMMA RecordsStep ==
    ASSUME TypeOK, StatusShared, RecordsInv,
           Keeps \/ \E i \in Instructions : Commits(i)
    PROVE  RecordsInv'
<1>1. CASE Keeps
  BY <1>1 DEF Keeps, RecordsInv, RecordsEarned
<1>2. ASSUME NEW i \in Instructions, Commits(i) PROVE RecordsInv'
  <2> DEFINE id == DataFixed[i].key
             W == DOMAIN store.wallets
             P == DOMAIN store.permanent
  <2>1. /\ IsFiniteSet(W) /\ Cardinality(W) <= MaxWallets
        /\ IsFiniteSet(P) /\ Cardinality(P) <= MaxPermanentWalletsStatus
        /\ MaxWallets \in Nat /\ MaxPermanentWalletsStatus \in Nat
    BY LimitsAssumption DEF RecordsInv, RecordsEarned
  <2>2. /\ DOMAIN store'.permanent = P \cup {id}
        /\ DOMAIN store'.wallets \ {id} = W \ {id}
        /\ Enters(i) \/ Leaves(i)
    BY <1>2 DEF Commits, Moves
  <2>3. /\ committed \in [Instructions -> Nat]
        /\ committed' = [committed EXCEPT ![i] = committed[i] + 1]
    BY <1>2 DEF TypeOK, Commits
  <2>4. \A j \in Instructions : committed[j] > 0 => committed'[j] > 0
    BY <2>3
  <2>5. committed'[i] > 0
    BY <2>3
  <2>6. CASE Enters(i)
    <3>1. /\ id \notin W /\ Cardinality(W) < MaxWallets
          /\ id \in P \/ Cardinality(P) < MaxPermanentWalletsStatus
          /\ DOMAIN store'.wallets = W \cup {id}
          /\ DataFixed[i].op \in RestoreOps \cup {"generate"}
      BY <2>2, <2>6
         DEF Enters, HasRoom, WalletExists, WalletExistsPermanent
    <3>2. /\ IsFiniteSet(W \cup {id})
          /\ Cardinality(W \cup {id}) <= MaxWallets
      BY <2>1, <3>1, RoomForOne
    <3>3. /\ IsFiniteSet(P \cup {id})
          /\ Cardinality(P \cup {id}) <= MaxPermanentWalletsStatus
      BY <2>1, <3>1, RoomForOne
    <3>4. \A k \in P \cup {id} : \E j \in Instructions :
             /\ DataFixed[j].key = k
             /\ DataFixed[j].op \in RestoreOps \cup {"generate"}
             /\ committed'[j] > 0
      BY <2>4, <2>5, <3>1 DEF RecordsInv, RecordsEarned
    <3> QED
      BY <2>2, <3>1, <3>2, <3>3, <3>4 DEF RecordsInv, RecordsEarned
  <2>7. CASE Leaves(i)
    <3>1. id \in P /\ DOMAIN store'.wallets = W \ {id}
      BY <2>2, <2>7 DEF Leaves, WalletExists, WalletExistsPermanent
    <3>2. DOMAIN store'.permanent = P
      BY <2>2, <3>1
    <3>3. IsFiniteSet(W \ {id}) /\ Cardinality(W \ {id}) <= Cardinality(W)
          /\ Cardinality(W) \in Nat /\ Cardinality(W \ {id}) \in Nat
      <4>1. W \ {id} \subseteq W
        OBVIOUS
      <4> QED
        BY <2>1, <4>1, FS_Subset, FS_CardinalityType
    <3>4. Cardinality(W \ {id}) <= MaxWallets
      BY <2>1, <3>3
    <3>5. \A k \in P : \E j \in Instructions :
             /\ DataFixed[j].key = k
             /\ DataFixed[j].op \in RestoreOps \cup {"generate"}
             /\ committed'[j] > 0
      BY <2>4 DEF RecordsInv, RecordsEarned
    <3> QED
      BY <2>1, <3>1, <3>2, <3>3, <3>4, <3>5 DEF RecordsInv, RecordsEarned
  <2> QED
    BY <2>2, <2>6, <2>7
<1> QED
  BY <1>1, <1>2

\* A permanent record is earned, and neither map outgrows its limit.
THEOREM EarnedRecords == Spec => []RecordsEarned
<1>1. Init => RecordsInv
  <2> SUFFICES ASSUME Init PROVE RecordsInv
    OBVIOUS
  <2>1. DOMAIN store.wallets = {} /\ DOMAIN store.permanent = {}
    BY DEF Init, InitializeStorage, EmptyMap
  <2>2. IsFiniteSet({}) /\ Cardinality({}) = 0
    BY FS_EmptySet
  <2> QED
    BY <2>1, <2>2, LimitsAssumption DEF RecordsInv, RecordsEarned
<1>2. IInv /\ RecordsInv /\ [Next]_vars => RecordsInv'
  BY StepKinds, RecordsStep DEF IInv
<1>3. RecordsInv => RecordsEarned
  BY DEF RecordsInv
<1> QED
  BY <1>1, <1>2, <1>3, Invariance, PTL DEF Spec
----------------------------------------------------------------------------
(* The refinement of KeyLifecycle.                                         *)

\* A proof is what the abstract specification makes of nonce and holding.
LEMMA ProofIsOf ==
    ASSUME NEW s, Sound(s), NEW k \in DOMAIN s.wallets
    PROVE  KeyExistenceProof(s, k) =
              [key |-> k, nonce |-> Nonce(s, k),
               secret |-> s.wallets[k].secret,
               restored |-> s.wallets[k].restored]
<1>1. KeyExistenceProof(s, k).nonce = Nonce(s, k)
  BY NonceOfSound
<1> QED
  BY <1>1 DEF KeyExistenceProof

\* Where the storage is left alone, some of the wallets held are attested.
LEMMA KeepsAttests ==
    ASSUME TypeOK, StatusShared, Keeps
    PROVE  Lifecycle!LifecycleNext
<1> DEFINE K == {k \in DOMAIN store.wallets :
                    KeyExistenceProof(store, k) \in proofs'}
           Attested(k) == {Lifecycle!ProofOf(k, KeyNonces[k], w) :
                              w \in KeyHolds[k]}
<1>1. Sound(store)
  BY DEF Sound, TypeOK, StatusShared
<1>2. K \subseteq Keys /\ \A k \in K : WalletExists(store, k)
      /\ WalletExistsPermanent(store, k)
  BY <1>1, NonceOfSound DEF WalletExists, WalletExistsPermanent
<1>3. \A k \in K : Attested(k) = {KeyExistenceProof(store, k)}
  <2> SUFFICES ASSUME NEW k \in K
               PROVE  Attested(k) = {KeyExistenceProof(store, k)}
    OBVIOUS
  <2>1. /\ KeyNonces[k] = Nonce(store, k)
        /\ KeyHolds[k] = {[secret   |-> store.wallets[k].secret,
                           restored |-> store.wallets[k].restored]}
    BY <1>2 DEF KeyNonces, KeyHolds
  <2>2. KeyExistenceProof(store, k) =
           [key |-> k, nonce |-> Nonce(store, k),
            secret |-> store.wallets[k].secret,
            restored |-> store.wallets[k].restored]
    BY <1>1, ProofIsOf
  <2> QED
    BY <2>1, <2>2 DEF Lifecycle!ProofOf
<1>4. \A k \in K : KeyHolds[k] # {}
  BY <1>2 DEF KeyHolds
<1>5. proofs' = proofs \cup UNION {Attested(k) : k \in K}
  <2> HIDE DEF Attested
  <2>1. UNION {Attested(k) : k \in K} = {KeyExistenceProof(store, k) : k \in K}
    BY <1>3
  <2>2. proofs' = proofs \cup {KeyExistenceProof(store, k) : k \in K}
    BY DEF Keeps
  <2> QED
    BY <2>1, <2>2
<1>6. UNCHANGED <<KeyNonces, KeyHolds>>
  BY DEF Keeps, KeyNonces, KeyHolds
<1>7. Lifecycle!Attest(K)
  BY <1>4, <1>5, <1>6 DEF Lifecycle!Attest
<1>8. K \in SUBSET Keys
  BY <1>2
<1> QED
  BY <1>7, <1>8 DEF Lifecycle!LifecycleNext

\* An instruction that takes effect moves the nonce of its key up and leaves the
\* other keys alone.
LEMMA CommitsConsumes ==
    ASSUME TypeOK, StatusShared, NEW i \in Instructions, Commits(i)
    PROVE  /\ DataFixed[i].key \in Keys
           /\ Lifecycle!Consume(DataFixed[i].key)
           /\ KeyNonces'[DataFixed[i].key] = Nonce(store', DataFixed[i].key)
           /\ \A k \in Keys \ {DataFixed[i].key} : KeyHolds'[k] = KeyHolds[k]
<1> DEFINE id == DataFixed[i].key
<1>1. Sound(store) /\ Moves(store, store', id, NonceOf(i))
  BY DEF Sound, TypeOK, StatusShared, Commits
<1>2. /\ id \in Keys /\ DataFixed[i].nonce \in Nat
      /\ DataFixed[i].op \in {"generate"} \cup NonceOps
      /\ ~Spent(i) /\ NonceOf(i) \in Nat
  BY DataTyped DEF Commits, NonceOf, Ops, NonceOps, RestoreOps
<1>3. /\ DOMAIN store'.permanent = DOMAIN store.permanent \cup {id}
      /\ Nonce(store', id) = NonceOf(i)
      /\ \A k \in DOMAIN store.permanent \ {id} :
            Nonce(store', k) = Nonce(store, k)
      /\ DOMAIN store'.wallets \ {id} = DOMAIN store.wallets \ {id}
      /\ \A k \in DOMAIN store.wallets \ {id} :
            KeyExistenceProof(store', k) = KeyExistenceProof(store, k)
  BY <1>1 DEF Moves
<1>4. id \in DOMAIN store.permanent =>
         Nonce(store, id) \in Nat /\ Nonce(store, id) < NonceOf(i)
  <2> SUFFICES ASSUME id \in DOMAIN store.permanent
               PROVE  Nonce(store, id) \in Nat /\ Nonce(store, id) < NonceOf(i)
    OBVIOUS
  <2>1. Nonce(store, id) \in Nat
    BY <1>1, NonceOfSound, LimitsAssumption DEF Uint64
  <2> QED
    BY <2>1, <1>2 DEF Spent, NonceOf, NonceOps, RestoreOps,
                      WalletExistsPermanent
<1>5. /\ KeyNonces[id] < NonceOf(i)
      /\ KeyNonces'[id] = NonceOf(i)
  BY <1>2, <1>3, <1>4 DEF KeyNonces, WalletExistsPermanent
<1>6. \A k \in Keys \ {id} : KeyNonces'[k] = KeyNonces[k]
  BY <1>3 DEF KeyNonces, WalletExistsPermanent
<1>7. \A k \in Keys \ {id} : KeyHolds'[k] = KeyHolds[k]
  <2> SUFFICES ASSUME NEW k \in Keys \ {id} PROVE KeyHolds'[k] = KeyHolds[k]
    OBVIOUS
  <2>1. k \in DOMAIN store.wallets <=> k \in DOMAIN store'.wallets
    BY <1>3
  <2>2. k \in DOMAIN store.wallets =>
           /\ store'.wallets[k].secret = store.wallets[k].secret
           /\ store'.wallets[k].restored = store.wallets[k].restored
    BY <1>3 DEF KeyExistenceProof
  <2> QED
    BY <2>1, <2>2 DEF KeyHolds, WalletExists
<1>8. KeyNonces' = [KeyNonces EXCEPT ![id] = KeyNonces'[id]]
  <2>1. /\ KeyNonces = [k \in Keys |-> KeyNonces[k]]
        /\ KeyNonces' = [k \in Keys |-> KeyNonces'[k]]
    BY DEF KeyNonces
  <2> QED
    BY <2>1, <1>2, <1>6
<1>9. KeyNonces[id] \in Int
  BY <1>2, <1>4 DEF KeyNonces, WalletExistsPermanent
<1>10. Lifecycle!Consume(id)
  BY <1>2, <1>5, <1>8, <1>9 DEF Lifecycle!Consume
<1> QED
  BY <1>2, <1>3, <1>5, <1>7, <1>10

\* It is seen as a wallet that enters or leaves.
LEMMA CommitsSeen ==
    ASSUME TypeOK, StatusShared, NEW i \in Instructions, Commits(i)
    PROVE  Lifecycle!LifecycleNext
<1> DEFINE id == DataFixed[i].key
           w == [secret   |-> store'.wallets[id].secret,
                 restored |-> store'.wallets[id].restored]
<1>1. /\ id \in Keys
      /\ Lifecycle!Consume(id)
      /\ KeyNonces'[id] = Nonce(store', id)
      /\ \A k \in Keys \ {id} : KeyHolds'[k] = KeyHolds[k]
  BY CommitsConsumes
<1>2. /\ KeyHolds = [k \in Keys |-> KeyHolds[k]]
      /\ KeyHolds' = [k \in Keys |-> KeyHolds'[k]]
  BY DEF KeyHolds
<1>3. Sound(store') /\ (Enters(i) \/ Leaves(i))
  BY DEF Commits, Moves
<1>4. CASE Enters(i)
  <2>1. /\ ~WalletExists(store, id) /\ WalletExists(store', id)
        /\ proofs' = proofs \cup {KeyExistenceProof(store', id)}
    BY <1>4 DEF Enters
  <2>2. KeyHolds[id] = {} /\ KeyHolds'[id] = {w}
    BY <1>1, <2>1 DEF KeyHolds
  <2>3. KeyHolds' = [KeyHolds EXCEPT ![id] = {w}]
    BY <1>1, <1>2, <2>2
  <2>4. KeyExistenceProof(store', id) =
           Lifecycle!ProofOf(id, KeyNonces'[id], w)
    <3>1. KeyExistenceProof(store', id) =
             [key |-> id, nonce |-> Nonce(store', id),
              secret |-> store'.wallets[id].secret,
              restored |-> store'.wallets[id].restored]
      BY <1>3, <2>1, ProofIsOf DEF WalletExists
    <3> QED
      BY <3>1, <1>1 DEF Lifecycle!ProofOf
  <2>5. proofs' = proofs \cup {Lifecycle!ProofOf(id, KeyNonces'[id], w)}
    BY <2>1, <2>4
  <2> HIDE DEF w
  <2>6. Lifecycle!Enter(id)
    BY <1>1, <2>2, <2>3, <2>5 DEF Lifecycle!Enter
  <2> QED
    BY <1>1, <2>6 DEF Lifecycle!LifecycleNext
<1>5. CASE Leaves(i)
  <2>1. /\ WalletExistsPermanent(store, id) /\ ~WalletExists(store', id)
        /\ proofs' = proofs
    BY <1>5 DEF Leaves
  <2>2. KeyNonces[id] # Lifecycle!Never
    <3>1. Sound(store)
      BY DEF Sound, TypeOK, StatusShared
    <3>2. Nonce(store, id) \in Nat
      BY <2>1, <3>1, NonceOfSound, LimitsAssumption
         DEF Uint64, WalletExistsPermanent
    <3> QED
      BY <1>1, <2>1, <3>2 DEF KeyNonces, Lifecycle!Never
  <2>3. KeyHolds'[id] = {}
    BY <1>1, <2>1 DEF KeyHolds
  <2>4. KeyHolds' = [KeyHolds EXCEPT ![id] = {}]
    BY <1>1, <1>2, <2>3
  <2>5. Lifecycle!Leave(id)
    BY <1>1, <2>1, <2>2, <2>4 DEF Lifecycle!Leave
  <2> QED
    BY <1>1, <2>5 DEF Lifecycle!LifecycleNext
<1> QED
  BY <1>3, <1>4, <1>5

\* Seen from the chain, handlers that interleave in any way only let wallets
\* enter and leave with a strictly higher nonce, and attest what is held.
THEOREM LifecycleImplemented == Spec => ImplementsLifecycle
<1>1. Init => Lifecycle!LifecycleInit
  <2> SUFFICES ASSUME Init PROVE Lifecycle!LifecycleInit
    OBVIOUS
  <2>1. DOMAIN store.wallets = {} /\ DOMAIN store.permanent = {} /\ proofs = {}
    BY DEF Init, InitializeStorage, EmptyMap
  <2>2. /\ KeyNonces = [k \in Keys |-> Lifecycle!Never]
        /\ KeyHolds = [k \in Keys |-> {}]
    BY <2>1 DEF KeyNonces, KeyHolds, WalletExists, WalletExistsPermanent,
                Lifecycle!Never
  <2> QED
    BY <2>1, <2>2 DEF Lifecycle!LifecycleInit
<1>2. IInv /\ [Next]_vars => [Lifecycle!LifecycleNext]_(Lifecycle!lifecycleVars)
  <2> SUFFICES ASSUME IInv, [Next]_vars PROVE Lifecycle!LifecycleNext
    OBVIOUS
  <2>1. TypeOK /\ StatusShared /\ HandlersSound
    BY DEF IInv
  <2> QED
    BY <2>1, StepKinds, KeepsAttests, CommitsSeen
<1> QED
  BY <1>1, <1>2, Invariance, PTL
     DEF Spec, ImplementsLifecycle, Lifecycle!LifecycleSpec
=============================================================================
