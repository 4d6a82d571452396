---------------------------- MODULE SignSchedule ----------------------------
(***************************************************************************)
(* SignXRPLPayment at Threshold (instructions/signutils/processor.go): all *)
(* transactions of the fee schedule are signed at once, a slot is reserved *)
(* and a goroutine is started that posts ever longer prefixes of them, one *)
(* per entry, while the call returns and the router posts its own result   *)
(* of status 2.  The number of goroutines is capped; the count is kept by  *)
(* atomic additions, and an addition that went too far is taken back by    *)
(* another.                                                                *)
(*                                                                         *)
(* A call and the goroutine it starts are one record: calls come from the  *)
(* queue workers and from processors these have abandoned.  Delays, keys   *)
(* and transactions are left out: a post is its status and how many        *)
(* transactions it has.  The End phase does nothing.                       *)
(***************************************************************************)
EXTENDS Naturals, Sequences, FiniteSets

CONSTANTS Calls,               \* calls, and goroutines, at the same time
          MaxSignGoroutines,
          MaxFeeEntries,
          StatusMod            \* 256: a status is a uint8

ASSUME ScheduleAssumption ==
    /\ IsFiniteSet(Calls)
    /\ MaxSignGoroutines \in Nat
    /\ MaxFeeEntries \in Nat
    /\ StatusMod \in Nat /\ 2 < StatusMod /\ MaxFeeEntries + 1 < StatusMod

VARIABLES activeRoutines,
          call,                \* pc, len(entries), index of the next entry
          due,                 \* calls whose result the router has not posted
          posts                \* what each call had posted (history)

vars == <<activeRoutines, call, due, posts>>

NoCall == [pc |-> "idle", entries |-> 0, next |-> 0]

Init ==
    /\ activeRoutines = 0
    /\ call = [c \in Calls |-> NoCall]
    /\ due = {}
    /\ posts = [c \in Calls |-> {}]

At(c, pc) == call[c].pc = pc
Goto(c, pc) == call' = [call EXCEPT ![c].pc = pc]

-----------------------------------------------------------------------------
(* The call. *)

fits(n) == n > 0 /\ n <= MaxFeeEntries

\* Parsed, checked and signed; the URL and the chain id are known.
Sign(c, n) ==
    /\ At(c, "idle") /\ c \notin due
    /\ fits(n)
    /\ call' = [call EXCEPT ![c] = [pc |-> "signed", entries |-> n, next |-> 0]]
    /\ posts' = [posts EXCEPT ![c] = {}]
    /\ UNCHANGED <<activeRoutines, due>>

overCapLate(n) == n > MaxSignGoroutines + 1                       \* mutant
overCap(n) == n > MaxSignGoroutines

\* The addition yields the new count; on success the goroutine is started and
\* the call returns.
Reserve(c) ==
    /\ At(c, "signed")
    /\ activeRoutines' = activeRoutines + 1
    /\ IF overCap(activeRoutines + 1)
       THEN Goto(c, "over") /\ UNCHANGED due
       ELSE Goto(c, "live") /\ due' = due \cup {c}
    /\ UNCHANGED posts

TakeBack(c) ==
    /\ At(c, "over")
    /\ activeRoutines' = activeRoutines - 1
    /\ Goto(c, "idle")
    /\ UNCHANGED <<due, posts>>

\* Process turns the empty message into status 2 and the router posts it, at
\* any time before, between or after the posts of the goroutine.
PostDeferred(c) ==
    /\ c \in due
    /\ due' = due \ {c}
    /\ posts' = [posts EXCEPT ![c] = @ \cup {[status |-> 2, txs |-> 0]}]
    /\ UNCHANGED <<activeRoutines, call>>

-----------------------------------------------------------------------------
(* The goroutine. *)

statusOfEarly(i, n) == IF i < n - 1 THEN (2 + i) % StatusMod ELSE 1 \* mutant
statusOf(i, n) == IF i < n - 1 THEN (3 + i) % StatusMod ELSE 1

\* An entry that could not be posted is not tried again: the next has it too.
afterPostRetry(i, err) == IF err THEN i ELSE i + 1                \* mutant
afterPost(i, err) == i + 1

\* The proxy may have the post whether or not the call returns an error.
PostEntry(c) ==
    /\ At(c, "live")
    /\ call[c].next < call[c].entries
    /\ Goto(c, "posting")
    /\ posts' = [posts EXCEPT ![c] =
                   @ \cup {[status |-> statusOf(call[c].next, call[c].entries),
                            txs |-> call[c].next + 1]}]
    /\ UNCHANGED <<activeRoutines, due>>

PostReturns(c, err) ==
    /\ At(c, "posting")
    /\ call' = [call EXCEPT ![c].pc = "live",
                            ![c].next = afterPost(call[c].next, err)]
    /\ UNCHANGED <<activeRoutines, due, posts>>

\* The deferred function runs however the loop ends.
exitOfLoopOnly(early) == IF early THEN "idle" ELSE "exiting"      \* mutant
exitOf(early) == "exiting"

\* All entries were posted, or marshaling, hashing or signing failed, or it
\* panicked.
Leave(c) ==
    /\ At(c, "live")
    /\ Goto(c, exitOf(call[c].next < call[c].entries))
    /\ UNCHANGED <<activeRoutines, due, posts>>

Release(c) ==
    /\ At(c, "exiting")
    /\ activeRoutines' = activeRoutines - 1
    /\ Goto(c, "idle")
    /\ UNCHANGED <<due, posts>>

\* What a goroutine, or a call about to be refused, does by itself.
Proceed(c) ==
    \/ TakeBack(c)
    \/ PostEntry(c)
    \/ \E err \in BOOLEAN : PostReturns(c, err)
    \/ Leave(c)
    \/ Release(c)

\* The entries a call may bring: up to one too many.
Next ==
    \E c \in Calls :
        \/ \E n \in 0 .. MaxFeeEntries + 1 : Sign(c, n)
        \/ Reserve(c)
        \/ PostDeferred(c)
        \/ Proceed(c)

\* A goroutine sleeps at most MaxFeeScheduleTime and a post returns within
\* ProxyTimeout.  That a post succeeds is not assumed.
Fairness == \A c \in Calls : WF_vars(Proceed(c))

Spec == Init /\ [][Next]_vars /\ Fairness

-----------------------------------------------------------------------------
(* Properties *)

\* The state has its type; the count is never negative.
TypeOK ==
    /\ activeRoutines \in Nat
    /\ call \in [Calls -> [pc : {"idle", "signed", "over",
                                 "live", "posting", "exiting"},
                           entries : 0 .. MaxFeeEntries,
                           next : 0 .. MaxFeeEntries]]
    /\ due \subseteq Calls
    /\ posts \in [Calls -> SUBSET [status : 0 .. StatusMod - 1,
                                   txs : 0 .. MaxFeeEntries]]

Routines == {c \in Calls : call[c].pc \in {"live", "posting", "exiting"}}
Over == {c \in Calls : call[c].pc = "over"}

\* No more than MaxSignGoroutines goroutines exist, whatever calls race for the
\* last slot (activeRoutines.Add and the comparison after it).
CapHolds == Cardinality(Routines) <= MaxSignGoroutines

\* No slot is lost or given back twice: the count is the number of goroutines
\* and of calls about to take theirs back (the deferred Add(-1), on every way
\* out of the loop).  A leaked slot would in time refuse every payment.
SlotsCounted == activeRoutines = Cardinality(Routines) + Cardinality(Over)

\* Status 1 comes with all transactions and only then; within one call a status
\* tells how many there are; none of the goroutine's is that of a failure or of
\* the router's deferred result (3 + uint8(i)).
StatusTells ==
    \A c \in Calls : \A p, q \in posts[c] :
        /\ p.txs > 0 => /\ p.status \notin {0, 2}
                        /\ p.status = 1 <=> p.txs = call[c].entries
        /\ p.status = q.status => p.txs = q.txs

\* A goroutine ends and its slot is free again although every post may fail.
SlotsReturn == \A c \in Calls : At(c, "live") ~> At(c, "idle")
=============================================================================
