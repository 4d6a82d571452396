---------------------------- MODULE KeyLifecycle ----------------------------
(***************************************************************************)
(* What the node promises about one wallet key, seen from the chain: which *)
(* private key it holds, at which nonce, and which existence proofs it has *)
(* signed.  Every change of what is held comes with a higher nonce, and    *)
(* that includes the first: a key never seen has nonce -1.  The locks,     *)
(* pointers, permanent records, handlers and limits of the implementation  *)
(* do not appear here.                                                     *)
(***************************************************************************)
EXTENDS Integers

CONSTANTS Keys

VARIABLES nonce,     \* the nonce of a key, -1 if it never was stored
          holds,     \* the set of the wallets held under a key: one or none
          attested   \* the existence proofs signed

lifecycleVars == <<nonce, holds, attested>>

Never == -1

ProofOf(k, n, w) ==
    [key |-> k, nonce |-> n, secret |-> w.secret, restored |-> w.restored]

LifecycleInit == /\ nonce = [k \in Keys |-> Never]
                 /\ holds = [k \in Keys |-> {}]
                 /\ attested = {}

\* The nonce of k moves up, by any amount; the other keys are left alone.
Consume(k) == /\ nonce'[k] > nonce[k]
              /\ nonce' = [nonce EXCEPT ![k] = nonce'[k]]

\* A wallet is generated or restored, and attested.
Enter(k) == /\ holds[k] = {}
            /\ Consume(k)
            /\ \E w \in holds'[k] :
                  /\ holds' = [holds EXCEPT ![k] = {w}]
                  /\ attested' = attested \cup {ProofOf(k, nonce'[k], w)}

\* A delete that is accepted, whether or not a wallet is there.
Leave(k) == /\ nonce[k] # Never
            /\ Consume(k)
            /\ holds' = [holds EXCEPT ![k] = {}]
            /\ UNCHANGED attested

Attest(K) == /\ \A k \in K : holds[k] # {}
             /\ attested' = attested \cup
                   UNION {{ProofOf(k, nonce[k], w) : w \in holds[k]} : k \in K}
             /\ UNCHANGED <<nonce, holds>>

LifecycleNext ==
    \/ \E k \in Keys : Enter(k) \/ Leave(k)
    \/ \E K \in SUBSET Keys : Attest(K)

LifecycleSpec == LifecycleInit /\ [][LifecycleNext]_lifecycleVars
=============================================================================
