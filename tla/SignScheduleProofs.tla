------------------------- MODULE SignScheduleProofs -------------------------
(***************************************************************************)
(* Proofs about SignSchedule, for any number of calls, any cap and any     *)
(* number of fee entries that a status byte has room for.                  *)
(***************************************************************************)
EXTENDS SignSchedule, FiniteSetTheorems, TLAPS

\* What is known of a post: the router's has no transactions, the goroutine's
\* has as many as entries were started on, and the status that goes with them.
PostsKnown ==
    \A c \in Calls : \A p \in posts[c] :
        \/ p.txs = 0 /\ p.status = 2
        \/ /\ p.txs \in 1 .. call[c].entries
           /\ p.status = statusOf(p.txs - 1, call[c].entries)

\* A goroutine that waits for a post has an entry left.
PostingHasEntry ==
    \A c \in Calls : At(c, "posting") => call[c].next < call[c].entries

\* The inductive invariant.
IInv ==
    TypeOK /\ SlotsCounted /\ CapHolds /\ PostsKnown /\ PostingHasEntry

-----------------------------------------------------------------------------
(* Counting *)

\* The sets that SlotsCounted counts are finite.
LEMMA FiniteSlots ==
    /\ IsFiniteSet(Routines) /\ Cardinality(Routines) \in Nat
    /\ IsFiniteSet(Over) /\ Cardinality(Over) \in Nat
<1>1. Routines \subseteq Calls /\ Over \subseteq Calls
  BY DEF Routines, Over
<1> QED  BY <1>1, ScheduleAssumption, FS_Subset, FS_CardinalityType

\* A call that takes a slot adds one to the set it joins.
LEMMA Joining ==
    ASSUME NEW S, IsFiniteSet(S), NEW c, c \notin S
    PROVE  Cardinality(S \cup {c}) = Cardinality(S) + 1
BY FS_AddElement

\* A call that leaves takes one away, and there was one.
LEMMA Leaving ==
    ASSUME NEW S, IsFiniteSet(S), NEW c \in S
    PROVE  /\ Cardinality(S \ {c}) = Cardinality(S) - 1
           /\ Cardinality(S) > 0
<1>1. Cardinality(S \ {c}) = Cardinality(S) - 1
  BY FS_RemoveElement
<1>2. IsFiniteSet(S \ {c}) /\ Cardinality(S \ {c}) \in Nat
  BY FS_RemoveElement, FS_CardinalityType
<1>3. Cardinality(S) \in Nat
  BY FS_CardinalityType
<1> QED  BY <1>1, <1>2, <1>3

\* A status below the modulus is not wrapped.
LEMMA NoWrap ==
    ASSUME NEW x \in Nat, NEW m \in Nat, x < m
    PROVE  x % m = x
BY Z3

\* The status of entry i of n: 1 if it is the last, and otherwise 3 + i.
LEMMA StatusValue ==
    ASSUME NEW n \in 0 .. MaxFeeEntries, NEW k \in 1 .. n
    PROVE  statusOf(k - 1, n) = IF k = n THEN 1 ELSE k + 2
<1>1. n \in Nat /\ k \in Nat /\ k <= n /\ n <= MaxFeeEntries
  BY ScheduleAssumption
<1>2. CASE k = n
  BY <1>1, <1>2 DEF statusOf
<1>3. CASE k # n
  <2>1. k - 1 < n - 1 /\ 3 + (k - 1) = k + 2
    BY <1>1, <1>3
  <2>2. k + 2 \in Nat /\ StatusMod \in Nat /\ k + 2 < StatusMod
    BY <1>1, <1>3, ScheduleAssumption
  <2>3. (k + 2) % StatusMod = k + 2
    BY <2>2, NoWrap
  <2> QED  BY <2>1, <2>3, <1>3 DEF statusOf
<1> QED  BY <1>2, <1>3

-----------------------------------------------------------------------------
(* Slots *)

\* No action makes the count wrong or starts a goroutine beyond the cap.
LEMMA SlotsStep ==
    ASSUME TypeOK, SlotsCounted, CapHolds, [Next]_vars
    PROVE  activeRoutines' \in Nat /\ SlotsCounted' /\ CapHolds'
<1> USE FiniteSlots
<1>1. MaxSignGoroutines \in Nat /\ activeRoutines \in Nat
  BY ScheduleAssumption DEF TypeOK
<1>3. CASE Routines' = Routines /\ Over' = Over
            /\ activeRoutines' = activeRoutines
  BY <1>1, <1>3 DEF SlotsCounted, CapHolds
<1>4. ASSUME NEW c \in Calls, NEW n \in 0 .. MaxFeeEntries + 1, Sign(c, n)
      PROVE  Routines' = Routines /\ Over' = Over
              /\ activeRoutines' = activeRoutines
  BY <1>4 DEF Sign, At, Routines, Over, TypeOK
<1>5. ASSUME NEW c \in Calls, PostDeferred(c)
      PROVE  Routines' = Routines /\ Over' = Over
              /\ activeRoutines' = activeRoutines
  BY <1>5 DEF PostDeferred, Routines, Over
<1>6. ASSUME NEW c \in Calls, PostEntry(c)
      PROVE  Routines' = Routines /\ Over' = Over
              /\ activeRoutines' = activeRoutines
  BY <1>6 DEF PostEntry, At, Goto, Routines, Over, TypeOK
<1>7. ASSUME NEW c \in Calls, NEW err \in BOOLEAN, PostReturns(c, err)
      PROVE  Routines' = Routines /\ Over' = Over
              /\ activeRoutines' = activeRoutines
  BY <1>7 DEF PostReturns, At, Routines, Over, TypeOK
<1>8. ASSUME NEW c \in Calls, Leave(c)
      PROVE  Routines' = Routines /\ Over' = Over
              /\ activeRoutines' = activeRoutines
  BY <1>8 DEF Leave, At, Goto, exitOf, Routines, Over, TypeOK
<1>9. CASE UNCHANGED vars
  BY <1>9, <1>3 DEF vars, Routines, Over
<1>10. ASSUME NEW c \in Calls, Reserve(c), overCap(activeRoutines + 1)
       PROVE  activeRoutines' \in Nat /\ SlotsCounted' /\ CapHolds'
  <2>1. /\ activeRoutines' = activeRoutines + 1
        /\ Over' = Over \cup {c} /\ c \notin Over
        /\ Routines' = Routines
    BY <1>10 DEF Reserve, At, Goto, Over, Routines, TypeOK
  <2>2. Cardinality(Over') = Cardinality(Over) + 1
    BY <2>1, Joining
  <2> QED  BY <2>1, <2>2, <1>1 DEF SlotsCounted, CapHolds
<1>11. ASSUME NEW c \in Calls, Reserve(c), ~overCap(activeRoutines + 1)
       PROVE  activeRoutines' \in Nat /\ SlotsCounted' /\ CapHolds'
  <2>1. /\ activeRoutines' = activeRoutines + 1
        /\ Over' = Over
        /\ Routines' = Routines \cup {c} /\ c \notin Routines
    BY <1>11 DEF Reserve, At, Goto, Over, Routines, TypeOK
  <2>2. Cardinality(Routines') = Cardinality(Routines) + 1
    BY <2>1, Joining
  <2>3. activeRoutines + 1 <= MaxSignGoroutines
    BY <1>11, <1>1 DEF overCap
  <2> QED  BY <2>1, <2>2, <2>3, <1>1 DEF SlotsCounted, CapHolds
<1>12. ASSUME NEW c \in Calls, TakeBack(c)
       PROVE  activeRoutines' \in Nat /\ SlotsCounted' /\ CapHolds'
  <2>1. /\ activeRoutines' = activeRoutines - 1
        /\ Over' = Over \ {c} /\ c \in Over
        /\ Routines' = Routines
    BY <1>12 DEF TakeBack, At, Goto, Over, Routines, TypeOK
  <2>2. Cardinality(Over') = Cardinality(Over) - 1 /\ Cardinality(Over) > 0
    BY <2>1, Leaving
  <2> QED  BY <2>1, <2>2, <1>1 DEF SlotsCounted, CapHolds
<1>13. ASSUME NEW c \in Calls, Release(c)
       PROVE  activeRoutines' \in Nat /\ SlotsCounted' /\ CapHolds'
  <2>1. /\ activeRoutines' = activeRoutines - 1
        /\ Over' = Over
        /\ Routines' = Routines \ {c} /\ c \in Routines
    BY <1>13 DEF Release, At, Goto, Over, Routines, TypeOK
  <2>2. Cardinality(Routines') = Cardinality(Routines) - 1
         /\ Cardinality(Routines) > 0
    BY <2>1, Leaving
  <2> QED  BY <2>1, <2>2, <1>1 DEF SlotsCounted, CapHolds
<1> QED
  BY <1>3, <1>4, <1>5, <1>6, <1>7, <1>8, <1>9, <1>10, <1>11, <1>12, <1>13
     DEF Next, Proceed

-----------------------------------------------------------------------------
(* Types and posts *)

\* Every action keeps the types; the count is SlotsStep's business.
LEMMA TypeStep ==
    ASSUME TypeOK, SlotsCounted, CapHolds, PostingHasEntry, [Next]_vars
    PROVE  TypeOK'
<1>0. activeRoutines' \in Nat
  BY SlotsStep
<1>1. MaxFeeEntries \in Nat /\ StatusMod \in Nat /\ 2 < StatusMod
       /\ MaxFeeEntries + 1 < StatusMod
  BY ScheduleAssumption
<1>2. ASSUME NEW c \in Calls, NEW n \in 0 .. MaxFeeEntries + 1, Sign(c, n)
      PROVE  TypeOK'
  <2>1. n \in 0 .. MaxFeeEntries
    BY <1>1, <1>2 DEF Sign, fits
  <2> QED  BY <1>0, <1>1, <1>2, <2>1 DEF Sign, TypeOK
<1>3. ASSUME NEW c \in Calls, Reserve(c)
      PROVE  TypeOK'
  BY <1>0, <1>3 DEF Reserve, Goto, TypeOK
<1>4. ASSUME NEW c \in Calls, TakeBack(c)
      PROVE  TypeOK'
  BY <1>0, <1>4 DEF TakeBack, Goto, TypeOK
<1>5. ASSUME NEW c \in Calls, PostDeferred(c)
      PROVE  TypeOK'
  <2>1. [status |-> 2, txs |-> 0] \in [status : 0 .. StatusMod - 1,
                                       txs : 0 .. MaxFeeEntries]
    BY <1>1
  <2> QED  BY <1>0, <1>5, <2>1 DEF PostDeferred, TypeOK
<1>6. ASSUME NEW c \in Calls, PostEntry(c)
      PROVE  TypeOK'
  <2> DEFINE p == [status |-> statusOf(call[c].next, call[c].entries),
                   txs |-> call[c].next + 1]
  <2>1. /\ call[c].entries \in 0 .. MaxFeeEntries
        /\ call[c].next \in 0 .. MaxFeeEntries
        /\ call[c].next < call[c].entries
    BY <1>6 DEF PostEntry, TypeOK
  <2>2. call[c].next + 1 \in 1 .. call[c].entries
    BY <1>1, <2>1
  <2>3. statusOf(call[c].next, call[c].entries) \in 0 .. StatusMod - 1
    <3> DEFINE k == call[c].next + 1
    <3>1. k - 1 = call[c].next /\ k \in 1 .. call[c].entries
      BY <1>1, <2>1, <2>2
    <3>2. statusOf(k - 1, call[c].entries)
            = IF k = call[c].entries THEN 1 ELSE k + 2
      BY <2>1, <3>1, StatusValue
    <3>3. (IF k = call[c].entries THEN 1 ELSE k + 2) \in 0 .. StatusMod - 1
      BY <1>1, <2>1, <3>1
    <3> QED  BY <3>1, <3>2, <3>3
  <2>4. p \in [status : 0 .. StatusMod - 1, txs : 0 .. MaxFeeEntries]
    BY <1>1, <2>1, <2>2, <2>3
  <2>5. posts' = [posts EXCEPT ![c] = @ \cup {p}]
    BY <1>6 DEF PostEntry
  <2> QED  BY <1>0, <1>6, <2>4, <2>5 DEF PostEntry, Goto, TypeOK
<1>7. ASSUME NEW c \in Calls, NEW err \in BOOLEAN, PostReturns(c, err)
      PROVE  TypeOK'
  <2>1. call[c].next + 1 \in 0 .. MaxFeeEntries
    BY <1>1, <1>7 DEF PostReturns, PostingHasEntry, TypeOK
  <2> QED  BY <1>0, <1>7, <2>1 DEF PostReturns, afterPost, TypeOK
<1>8. ASSUME NEW c \in Calls, Leave(c)
      PROVE  TypeOK'
  BY <1>0, <1>8 DEF Leave, Goto, exitOf, TypeOK
<1>9. ASSUME NEW c \in Calls, Release(c)
      PROVE  TypeOK'
  BY <1>0, <1>9 DEF Release, Goto, TypeOK
<1>10. CASE UNCHANGED vars
  BY <1>10 DEF vars, TypeOK
<1> QED
  BY <1>2, <1>3, <1>4, <1>5, <1>6, <1>7, <1>8, <1>9, <1>10 DEF Next, Proceed

\* Every action keeps what is known of the posts.
LEMMA PostsStep ==
    ASSUME TypeOK, PostsKnown, PostingHasEntry, [Next]_vars
    PROVE  PostsKnown' /\ PostingHasEntry'
<1>1. ASSUME NEW c \in Calls, NEW n \in 0 .. MaxFeeEntries + 1, Sign(c, n)
      PROVE  PostsKnown' /\ PostingHasEntry'
  BY <1>1 DEF Sign, At, PostsKnown, PostingHasEntry, TypeOK
<1>2. ASSUME NEW c \in Calls, PostDeferred(c)
      PROVE  PostsKnown' /\ PostingHasEntry'
  BY <1>2 DEF PostDeferred, At, PostsKnown, PostingHasEntry, TypeOK
<1>3. ASSUME NEW c \in Calls, PostEntry(c)
      PROVE  PostsKnown' /\ PostingHasEntry'
  <2>1. /\ call[c].next \in Nat /\ call[c].entries \in Nat
        /\ call[c].next < call[c].entries
        /\ call' = [call EXCEPT ![c].pc = "posting"]
    BY <1>3, ScheduleAssumption DEF PostEntry, Goto, TypeOK
  <2>2. PostingHasEntry'
    BY <2>1 DEF PostingHasEntry, At, TypeOK
  <2>3. ASSUME NEW d \in Calls, NEW p \in posts'[d]
        PROVE  \/ p.txs = 0 /\ p.status = 2
               \/ /\ p.txs \in 1 .. call[d].entries
                  /\ p.status = statusOf(p.txs - 1, call[d].entries)
    <3>1. CASE p \in posts[d]
      BY <3>1 DEF PostsKnown
    <3>2. CASE p \notin posts[d]
      <4>1. d = c /\ p = [status |-> statusOf(call[c].next, call[c].entries),
                          txs |-> call[c].next + 1]
        BY <1>3, <2>3, <3>2 DEF PostEntry, TypeOK
      <4>2. p.txs - 1 = call[c].next /\ p.txs \in 1 .. call[c].entries
        BY <2>1, <4>1
      <4> QED  BY <4>1, <4>2
    <3> QED  BY <3>1, <3>2
  <2>4. \A d \in Calls : call'[d].entries = call[d].entries
    BY <2>1 DEF TypeOK
  <2>5. PostsKnown'
    BY <2>3, <2>4 DEF PostsKnown, statusOf
  <2> QED  BY <2>2, <2>5
<1>4. ASSUME posts' = posts,
             \A d \in Calls : /\ call'[d].entries = call[d].entries
                              /\ call'[d].pc = "posting" => UNCHANGED call[d]
      PROVE  PostsKnown' /\ PostingHasEntry'
  BY <1>4 DEF PostsKnown, PostingHasEntry, At, statusOf
<1>5. ASSUME NEW c \in Calls, Reserve(c)
      PROVE  PostsKnown' /\ PostingHasEntry'
  BY <1>4, <1>5 DEF Reserve, Goto, TypeOK
<1>6. ASSUME NEW c \in Calls, TakeBack(c)
      PROVE  PostsKnown' /\ PostingHasEntry'
  BY <1>4, <1>6 DEF TakeBack, Goto, TypeOK
<1>7. ASSUME NEW c \in Calls, NEW err \in BOOLEAN, PostReturns(c, err)
      PROVE  PostsKnown' /\ PostingHasEntry'
  BY <1>4, <1>7 DEF PostReturns, TypeOK
<1>8. ASSUME NEW c \in Calls, Leave(c)
      PROVE  PostsKnown' /\ PostingHasEntry'
  BY <1>4, <1>8 DEF Leave, Goto, exitOf, TypeOK
<1>9. ASSUME NEW c \in Calls, Release(c)
      PROVE  PostsKnown' /\ PostingHasEntry'
  BY <1>4, <1>9 DEF Release, Goto, TypeOK
<1>10. CASE UNCHANGED vars
  BY <1>10 DEF vars, PostsKnown, PostingHasEntry, At, statusOf
<1> QED
  BY <1>1, <1>2, <1>3, <1>5, <1>6, <1>7, <1>8, <1>9, <1>10 DEF Next, Proceed

\* What is known of the posts says what a status tells.
LEMMA PostsTell ==
    ASSUME TypeOK, PostsKnown
    PROVE  StatusTells
<1> SUFFICES ASSUME NEW c \in Calls, NEW p \in posts[c], NEW q \in posts[c]
             PROVE  /\ p.txs > 0 => /\ p.status \notin {0, 2}
                                    /\ p.status = 1 <=> p.txs = call[c].entries
                    /\ p.status = q.status => p.txs = q.txs
  BY DEF StatusTells
<1>1. call[c].entries \in 0 .. MaxFeeEntries /\ call[c].entries \in Nat
  BY ScheduleAssumption DEF TypeOK
<1>2. ASSUME NEW r \in posts[c]
      PROVE  \/ r.txs = 0 /\ r.status = 2
             \/ /\ r.txs \in 1 .. call[c].entries
                /\ r.status = IF r.txs = call[c].entries THEN 1 ELSE r.txs + 2
  BY <1>1, <1>2, StatusValue DEF PostsKnown
<1> QED  BY <1>1, <1>2

-----------------------------------------------------------------------------
(* Theorems *)

\* The inductive invariant holds in every state.
THEOREM Invariance == Spec => []IInv
<1>1. Init => IInv
  <2> SUFFICES ASSUME Init PROVE IInv
    OBVIOUS
  <2>1. TypeOK
    BY ScheduleAssumption DEF Init, NoCall, TypeOK
  <2>2. Routines = {} /\ Over = {}
    BY DEF Init, NoCall, Routines, Over
  <2>3. SlotsCounted /\ CapHolds
    BY <2>2, FS_EmptySet, ScheduleAssumption DEF Init, SlotsCounted, CapHolds
  <2>4. PostsKnown /\ PostingHasEntry
    BY DEF Init, NoCall, At, PostsKnown, PostingHasEntry
  <2> QED  BY <2>1, <2>3, <2>4 DEF IInv
<1>2. IInv /\ [Next]_vars => IInv'
  BY SlotsStep, TypeStep, PostsStep DEF IInv
<1> QED  BY <1>1, <1>2, PTL DEF Spec

\* No more goroutines than MaxSignGoroutines exist at any time, however many
\* calls race for the slots (SignXRPLPayment).
THEOREM GoroutineCap == Spec => []CapHolds
<1>1. IInv => CapHolds
  BY DEF IInv
<1> QED  BY <1>1, Invariance, PTL

\* The counter counts the goroutines and the calls being refused, so that no
\* slot is lost and none is given twice (SignXRPLPayment).
THEOREM SlotsAreCounted == Spec => []SlotsCounted
<1>1. IInv => SlotsCounted
  BY DEF IInv
<1> QED  BY <1>1, Invariance, PTL

\* The status of what is posted tells how many transactions it has, for every
\* schedule of at most MaxFeeEntries (the goroutine of SignXRPLPayment).
THEOREM Statuses == Spec => []StatusTells
<1>1. IInv => StatusTells
  BY PostsTell DEF IInv
<1> QED  BY <1>1, Invariance, PTL
=============================================================================
