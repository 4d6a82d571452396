---------------------------- MODULE RouterProofs ----------------------------
(***************************************************************************)
(* Proofs about the queue workers, for any number of workers, runs,        *)
(* actions and URLs.                                                       *)
(***************************************************************************)
EXTENDS Router, FiniteSetTheorems, SequenceTheorems, TLAPS

WorkerType ==
    [pc : {"idle", "fetching", "waiting", "draining", "posting", "recovering",
           "fallback"},
     attempt : 0 .. QueueFetchRetries,
     url : URLs \cup {NoURL},
     run : 0 .. Len(runs),
     result : Results]

RunType ==
    [action : Actions, expired : BOOLEAN, committed : BOOLEAN,
     reported : BOOLEAN,
     phase : {"running", "checked", "committed", "returned"},
     result : Results]

PostType == [result : Results, signed : BOOLEAN]

Flags == {"unknown", "panic", "extension"}

\* A goroutine that has returned without effect, and will have none.
Settled(x) ==
    x.phase = "returned" /\ ~x.committed /\ x.result.log # "extension"

\* The goroutine of run r: a clean failure is one that has no effect.
RunOK(x, r) ==
    /\ x.result.run = r
    /\ x.phase = "running" => ~x.committed
    /\ x.phase = "checked" /\ x.action \notin Forwarded => ~x.committed
    /\ x.phase # "returned" => x.result = ok(r)
    /\ x.result.status = 0 => x.result.log \in Flags \/ Settled(x)

RunsOK == \A r \in Runs : RunOK(runs[r], r)

\* A failure reported for a run is flagged, or the run has no effect.
Flagged(result) ==
    result.status = 0 /\ result.run # NoRun =>
       /\ result.run \in Runs
       /\ result.log \in Flags \/ Settled(runs[result.run])

WorkerOK(x) ==
    /\ x.pc \in {"idle", "fetching"} => x.run = NoRun
    /\ x.pc \in {"waiting", "draining"} => x.run # NoRun
    /\ x.pc \in {"posting", "recovering"} => x.result.run = x.run
    /\ x.pc # "idle" => proxyURL # NoURL
    /\ x.pc = "fallback" => x.url # NoURL
    /\ Flagged(x.result)

WorkersOK == \A w \in Workers : WorkerOK(worker[w])

\* No two workers answer for one run.
RunsApart ==
    \A w, v \in Workers :
        w # v /\ worker[w].run # NoRun => worker[w].run # worker[v].run

PostsOK ==
    \A i \in DOMAIN posts :
       /\ posts[i].result.run \in Runs
       /\ posts[i].signed => Flagged(posts[i].result)

Answering(x) == x.pc \in {"waiting", "draining", "posting", "recovering"}

RunsAnswered ==
    \A r \in Runs : IF Pending(r) THEN PostsOf(r) = {}
                    ELSE \E i \in DOMAIN posts : PostsOf(r) = {i}

IInv == /\ TypeOK /\ RunsOK /\ WorkersOK /\ RunsApart /\ PostsOK
        /\ RunsAnswered /\ ~nowhere

LEMMA TypeOKParts ==
  TypeOK <=> /\ mode \in Modes
             /\ proxyURL \in URLs \cup {NoURL}
             /\ chainID \in BOOLEAN
             /\ worker \in [Workers -> WorkerType]
             /\ runs \in Seq(RunType)
             /\ posts \in Seq(PostType)
             /\ nowhere \in BOOLEAN
  BY DEF TypeOK, WorkerType, RunType, PostType

LEMMA IdleOK ==
  ASSUME Len(runs) \in Nat
  PROVE  /\ Idle \in WorkerType
         /\ Idle.run = NoRun /\ Idle.pc = "idle"
         /\ WorkerOK(Idle)
  <1>1. errorResult(NoRun, "") \in Results
        /\ errorResult(NoRun, "").run = NoRun
    BY DEF errorResult, Results, Logs, NoRun
  <1>2. 0 \in 0 .. QueueFetchRetries /\ NoRun \in 0 .. Len(runs)
    BY RouterAssumption DEF NoRun
  <1> QED BY <1>1, <1>2 DEF Idle, WorkerType, WorkerOK, Flagged

LEMMA InitIInv == Init => IInv
  <1> SUFFICES ASSUME Init PROVE IInv
    OBVIOUS
  <1>1. Idle \in WorkerType /\ Idle.run = NoRun /\ Idle.pc = "idle"
        /\ WorkerOK(Idle)
    <2>1. Len(runs) = 0
      BY DEF Init
    <2> QED BY <2>1, IdleOK
  <1>2. TypeOK
    <2>1. worker \in [Workers -> WorkerType]
      BY <1>1 DEF Init
    <2>2. runs \in Seq(RunType) /\ posts \in Seq(PostType)
      BY DEF Init
    <2> QED BY <2>1, <2>2, TypeOKParts DEF Init
  <1>3. Runs = {} /\ DOMAIN posts = {}
    BY DEF Init, Runs
  <1>4. RunsOK /\ PostsOK /\ RunsAnswered /\ ~nowhere
    BY <1>3 DEF Init, RunsOK, PostsOK, RunsAnswered
  <1>5. WorkersOK
    BY <1>1 DEF Init, WorkersOK
  <1>6. RunsApart
    BY <1>1 DEF Init, RunsApart
  <1> QED BY <1>2, <1>4, <1>5, <1>6 DEF IInv

----------------------------------------------------------------------------
(* The config server. *)

LEMMA ConfigIInv ==
  ASSUME IInv,
         UNCHANGED <<mode, worker, runs, posts, nowhere>>,
         proxyURL' \in URLs \/ UNCHANGED proxyURL,
         chainID' \in BOOLEAN
  PROVE  IInv'
  <1>1. TypeOK'
    BY DEF IInv, TypeOK
  <1>2. WorkersOK'
    BY RouterAssumption DEF IInv, WorkersOK, WorkerOK, Flagged, Runs
  <1>3. RunsAnswered'
    BY DEF IInv, RunsAnswered, Pending, PostsOf, Runs, At
  <1> QED BY <1>1, <1>2, <1>3
          DEF IInv, RunsOK, RunsApart, PostsOK, Flagged, Runs

----------------------------------------------------------------------------
(* A goroutine's step, or the extension's on its action, replaces one      *)
(* record of runs by one that is as good, and keeps a settled run settled. *)

LEMMA RunReplaced ==
  ASSUME IInv, NEW r \in Runs, NEW x \in RunType,
         RunOK(x, r),
         Settled(runs[r]) => Settled(x),
         runs' = [runs EXCEPT ![r] = x],
         UNCHANGED <<config, worker, posts, nowhere>>
  PROVE  IInv'
  <1>1. /\ Len(runs') = Len(runs) /\ Len(runs) \in Nat
        /\ Runs' = Runs
        /\ runs' \in Seq(RunType)
    BY TypeOKParts, ExceptSeq DEF IInv, Runs
  <1>2. \A q \in Runs : runs'[q] = IF q = r THEN x ELSE runs[q]
    BY TypeOKParts, LenProperties DEF IInv, Runs
  <1>3. \A q \in Runs : Settled(runs[q]) => Settled(runs'[q])
    BY <1>2
  <1>4. ASSUME NEW result, Flagged(result) PROVE Flagged(result)'
    BY <1>1, <1>3, <1>4 DEF Flagged, NoRun, Settled
  <1>5. TypeOK'
    BY <1>1, TypeOKParts DEF IInv, config, TypeOK, RunType
  <1>6. RunsOK'
    BY <1>1, <1>2 DEF IInv, RunsOK
  <1>7. WorkersOK'
    BY <1>4 DEF IInv, WorkersOK, WorkerOK, config
  <1>8. PostsOK'
    BY <1>1, <1>4 DEF IInv, PostsOK
  <1>9. RunsAnswered'
    BY <1>1 DEF IInv, RunsAnswered, Pending, PostsOf, At
  <1> QED BY <1>5, <1>6, <1>7, <1>8, <1>9 DEF IInv, RunsApart

LEMMA RunTyped ==
  ASSUME IInv, NEW r \in Runs
  PROVE  /\ runs[r] \in RunType /\ RunOK(runs[r], r) /\ r \in DOMAIN runs
         /\ r \in Nat \ {0}
  BY TypeOKParts, ElementOfSeq, LenProperties DEF IInv, RunsOK, Runs

LEMMA CheckContextIInv ==
  ASSUME IInv, NEW r \in Runs, CheckContext(r)
  PROVE  IInv'
  <1> DEFINE x == [runs[r] EXCEPT !.phase = "checked"]
  <1>1. runs[r] \in RunType /\ RunOK(runs[r], r) /\ runs[r].phase = "running"
    BY RunTyped DEF CheckContext, InPhase
  <1>2. x \in RunType /\ RunOK(x, r) /\ ~Settled(runs[r])
    BY <1>1 DEF RunType, RunOK, Settled, ok
  <1>3. runs' = [runs EXCEPT ![r] = x]
    BY DEF CheckContext
  <1> QED BY <1>2, <1>3, RunReplaced DEF CheckContext

LEMMA CommitIInv ==
  ASSUME IInv, NEW r \in Runs, Commit(r)
  PROVE  IInv'
  <1> DEFINE x == [runs[r] EXCEPT !.phase = "committed", !.committed = TRUE]
  <1>1. runs[r] \in RunType /\ RunOK(runs[r], r) /\ runs[r].phase = "checked"
    BY RunTyped DEF Commit, InPhase
  <1>2. x \in RunType /\ RunOK(x, r) /\ ~Settled(runs[r])
    BY <1>1 DEF RunType, RunOK, Settled, ok
  <1>3. runs' = [runs EXCEPT ![r] = x]
    BY DEF Commit
  <1> QED BY <1>2, <1>3, RunReplaced DEF Commit

\* Whatever ends a goroutine, its result says so or it has had no effect.
LEMMA ReturnIInv ==
  ASSUME IInv, NEW r \in Runs, NEW result \in Results, Return(r, result),
         runs[r].phase # "returned",
         result.run = r,
         result.status = 0 => \/ result.log \in Flags
                              \/ ~runs[r].committed /\ result.log # "extension"
  PROVE  IInv'
  <1> DEFINE x == [runs[r] EXCEPT !.phase = "returned", !.result = result]
  <1>1. runs[r] \in RunType
    BY RunTyped
  <1>2. x \in RunType /\ RunOK(x, r) /\ ~Settled(runs[r])
    BY <1>1 DEF RunType, RunOK, Settled
  <1>3. runs' = [runs EXCEPT ![r] = x]
    BY DEF Return
  <1> QED BY <1>2, <1>3, RunReplaced DEF Return

LEMMA ResultTypes ==
  ASSUME NEW r \in Nat
  PROVE  /\ ok(r) \in Results
         /\ \A log \in Logs : errorResult(r, log) \in Results
         /\ ExtensionResults(r) \subseteq Results
  <1>1. ok(r) \in Results
    BY DEF ok, Results, Logs
  <1>2. \A log \in Logs : errorResult(r, log) \in Results
    BY DEF errorResult, Results
  <1>3. ExtensionResults(r) \subseteq Results
    <2>1. {0, 2, 3} \subseteq 0 .. 3 /\ {"extension"} \subseteq Logs
      BY DEF Logs
    <2> QED BY <2>1 DEF ExtensionResults, Results
  <1> QED BY <1>1, <1>2, <1>3

LEMMA RunStepIInv ==
  ASSUME IInv, NEW r \in Runs, RunStep(r)
  PROVE  IInv'
  <1>1. /\ runs[r] \in RunType /\ RunOK(runs[r], r) /\ r \in Nat
        /\ ok(r) \in Results
        /\ errorResult(r, "error") \in Results
        /\ errorResult(r, "panic") \in Results
        /\ ExtensionResults(r) \subseteq Results
    BY RunTyped, ResultTypes DEF Logs
  <1>2. CASE CheckContext(r)
    BY <1>2, CheckContextIInv
  <1>3. CASE Commit(r)
    BY <1>3, CommitIInv
  <1>4. CASE PostActionToExtension(r)
    <2>1. runs[r].phase # "returned"
      BY <1>4 DEF PostActionToExtension, InPhase
    <2>2. CASE Return(r, ok(r))
      <3>1. ok(r).run = r /\ ok(r).status # 0
        BY DEF ok
      <3> QED BY <1>1, <2>1, <2>2, <3>1, ReturnIInv
    <2>3. ASSUME NEW result \in ExtensionResults(r), Return(r, result)
          PROVE  IInv'
      <3>1. result.run = r /\ result.log \in Flags
        BY DEF ExtensionResults, Flags
      <3> QED BY <1>1, <2>1, <2>3, <3>1, ReturnIInv
    <2> QED BY <1>4, <2>2, <2>3 DEF PostActionToExtension
  <1>5. CASE Succeed(r)
    <2>1. ok(r).run = r /\ ok(r).status # 0
      BY DEF ok
    <2> QED BY <1>1, <1>5, <2>1, ReturnIInv DEF Succeed, InPhase
  <1>6. CASE Fail(r)
    <2>1. runs[r].phase # "returned" /\ ~runs[r].committed
      BY <1>1, <1>6 DEF Fail, InPhase, RunOK, forwarded
    <2>2. /\ errorResult(r, "error").run = r
          /\ errorResult(r, "error").log # "extension"
      BY DEF errorResult
    <2> QED BY <1>1, <1>6, <2>1, <2>2, ReturnIInv DEF Fail
  <1>7. CASE Panic(r)
    <2>1. /\ errorResult(r, "panic").run = r
          /\ errorResult(r, "panic").log \in Flags
      BY DEF errorResult, Flags
    <2> QED BY <1>1, <1>7, <2>1, ReturnIInv DEF Panic, InPhase
  <1> QED BY <1>2, <1>3, <1>4, <1>5, <1>6, <1>7 DEF RunStep

LEMMA ExtensionStepIInv ==
  ASSUME IInv, NEW r \in Runs, ExtensionStep(r)
  PROVE  IInv'
  <1>1. runs[r] \in RunType /\ RunOK(runs[r], r)
    BY RunTyped
  <1>2. CASE ExtensionActs(r)
    <2> DEFINE x == [runs[r] EXCEPT !.committed = TRUE]
    <2>1. runs[r].phase = "checked" \/ runs[r].result.log = "extension"
      BY <1>2 DEF ExtensionActs, InPhase
    <2>2. runs[r].action \in Forwarded
      BY <1>2 DEF ExtensionActs, forwarded
    <2>5. ok(r).status # 0 /\ ok(r).log # "extension"
      BY DEF ok
    <2>6. ~Settled(runs[r]) /\ runs[r].phase # "running"
      BY <1>1, <2>1, <2>5 DEF RunOK, Settled
    <2>7. x \in RunType /\ x.phase = runs[r].phase
          /\ x.action = runs[r].action /\ x.result = runs[r].result
      BY <1>1 DEF RunType
    <2>8. runs[r].result.status = 0 => runs[r].result.log \in Flags
      BY <1>1, <2>6 DEF RunOK
    <2>3. x \in RunType /\ RunOK(x, r) /\ ~Settled(runs[r])
      BY <1>1, <2>2, <2>6, <2>7, <2>8 DEF RunOK
    <2>4. runs' = [runs EXCEPT ![r] = x]
      BY <1>2 DEF ExtensionActs
    <2> QED BY <1>2, <2>3, <2>4, RunReplaced DEF ExtensionActs
  <1>3. CASE postResultHandler(r)
    <2> DEFINE x == [runs[r] EXCEPT !.reported = TRUE]
    <2>1. x \in RunType /\ RunOK(x, r) /\ (Settled(runs[r]) => Settled(x))
      BY <1>1 DEF RunType, RunOK, Settled
    <2>2. runs' = [runs EXCEPT ![r] = x]
      BY <1>3 DEF postResultHandler
    <2>3. UNCHANGED nowhere
      BY <1>3 DEF postResultHandler, configured, IInv, TypeOK
    <2> QED BY <1>3, <2>1, <2>2, <2>3, RunReplaced DEF postResultHandler
  <1> QED BY <1>2, <1>3 DEF ExtensionStep

----------------------------------------------------------------------------
(* A worker.  Most of its steps only replace its record, by one that       *)
(* answers for the same run.                                               *)

LEMMA WorkerReplaced ==
  ASSUME IInv, NEW w \in Workers, NEW x \in WorkerType,
         WorkerOK(x), x.run = worker[w].run,
         x.run # NoRun => (Answering(x) <=> Answering(worker[w])),
         worker' = [worker EXCEPT ![w] = x],
         UNCHANGED <<config, runs, posts, nowhere>>
  PROVE  IInv'
  <1>1. worker \in [Workers -> WorkerType]
    BY TypeOKParts DEF IInv
  <1>2. worker' \in [Workers -> WorkerType]
    BY <1>1
  <1>3. TypeOK'
    BY <1>2, TypeOKParts DEF IInv, config, TypeOK, WorkerType
  <1>4. WorkersOK'
    BY <1>1 DEF IInv, WorkersOK, WorkerOK, Flagged, Runs, config
  <1>5. RunsApart'
    BY <1>1 DEF IInv, RunsApart
  <1>6. \A r \in Runs : Pending(r)' <=> Pending(r)
    BY <1>1 DEF Pending, At, Answering, Runs, NoRun
  <1>7. RunsAnswered'
    BY <1>6 DEF IInv, RunsAnswered, PostsOf, Runs
  <1> QED BY <1>3, <1>4, <1>5, <1>7
          DEF IInv, RunsOK, PostsOK, Flagged, Runs

LEMMA WorkerTyped ==
  ASSUME IInv, NEW w \in Workers
  PROVE  /\ worker \in [Workers -> WorkerType]
         /\ worker[w] \in WorkerType /\ WorkerOK(worker[w])
         /\ worker[w].run \in Nat
         /\ Len(runs) \in Nat
         /\ worker[w].run # NoRun => worker[w].run \in Runs
  <1>1. worker \in [Workers -> WorkerType] /\ Len(runs) \in Nat
    BY TypeOKParts, LenProperties DEF IInv
  <1>2. worker[w] \in WorkerType /\ WorkerOK(worker[w])
    BY <1>1 DEF IInv, WorkersOK
  <1> QED BY <1>1, <1>2 DEF WorkerType, Runs, NoRun

LEMMA PollIInv ==
  ASSUME IInv, NEW w \in Workers, Poll(w)
  PROVE  IInv'
  <1> DEFINE x == [worker[w] EXCEPT !.pc = "fetching"]
  <1>1. worker[w] \in WorkerType /\ WorkerOK(worker[w])
        /\ worker[w].pc = "idle"
    BY WorkerTyped DEF Poll, At
  <1>2. x \in WorkerType /\ WorkerOK(x) /\ x.run = worker[w].run
        /\ x.run = NoRun
    BY <1>1 DEF WorkerType, WorkerOK, Poll, configured
  <1>3. worker' = [worker EXCEPT ![w] = x]
    BY DEF Poll, Goto
  <1> QED BY <1>2, <1>3, WorkerReplaced DEF Poll

LEMMA FetchIInv ==
  ASSUME IInv, NEW w \in Workers,
         FetchTimeout(w) \/ FetchError(w) \/ FetchNothing(w)
  PROVE  IInv'
  <1>1. worker[w] \in WorkerType /\ WorkerOK(worker[w])
        /\ worker[w].pc = "fetching" /\ worker[w].run = NoRun
    BY WorkerTyped DEF FetchTimeout, FetchError, FetchNothing, At, WorkerOK
  <1>2. UNCHANGED <<config, runs, posts, nowhere>>
    BY DEF FetchTimeout, FetchError, FetchNothing
  <1>3. CASE FetchTimeout(w)
    <2> DEFINE x == [worker[w] EXCEPT !.attempt = @ + 1]
    <2>1. worker[w].attempt + 1 \in 0 .. QueueFetchRetries
      BY <1>1, <1>3, RouterAssumption DEF FetchTimeout, mayRetry, WorkerType
    <2>2. x \in WorkerType /\ WorkerOK(x) /\ x.run = NoRun
      BY <1>1, <2>1 DEF WorkerType, WorkerOK
    <2>3. worker' = [worker EXCEPT ![w] = x]
      BY <1>3 DEF FetchTimeout
    <2> QED BY <1>1, <1>2, <2>2, <2>3, WorkerReplaced
  <1>4. CASE FetchError(w)
    <2> DEFINE x == [worker[w] EXCEPT !.pc = "posting",
                                      !.result = errorResult(NoRun, "fetch")]
    <2>1. errorResult(NoRun, "fetch") \in Results
          /\ errorResult(NoRun, "fetch").run = NoRun
      BY DEF errorResult, Results, Logs, NoRun
    <2>2. x \in WorkerType /\ WorkerOK(x) /\ x.run = NoRun
      BY <1>1, <2>1 DEF WorkerType, WorkerOK, Flagged
    <2>3. worker' = [worker EXCEPT ![w] = x]
      BY <1>4 DEF FetchError, Answer
    <2> QED BY <1>1, <1>2, <2>2, <2>3, WorkerReplaced
  <1>5. CASE FetchNothing(w)
    <2>1. Idle \in WorkerType /\ Idle.run = NoRun /\ WorkerOK(Idle)
      BY IdleOK, WorkerTyped
    <2> QED BY <1>1, <1>2, <1>5, <2>1, WorkerReplaced DEF FetchNothing
  <1> QED BY <1>3, <1>4, <1>5

\* What a worker that has fetched an action answers with.
LEMMA AnswerIInv ==
  ASSUME IInv, NEW w \in Workers, NEW pc \in {"posting", "recovering"},
         NEW result \in Results, Answer(w, pc, result),
         UNCHANGED <<config, runs, posts, nowhere>>,
         worker[w].run # NoRun => Answering(worker[w]),
         worker[w].pc # "idle",
         result.run = worker[w].run,
         Flagged(result)
  PROVE  IInv'
  <1> DEFINE x == [worker[w] EXCEPT !.pc = pc, !.result = result]
  <1>1. worker[w] \in WorkerType /\ WorkerOK(worker[w])
    BY WorkerTyped
  <1>2. x \in WorkerType /\ x.run = worker[w].run /\ x.result = result
        /\ x.pc = pc
    BY <1>1 DEF WorkerType
  <1>3. WorkerOK(x) /\ Answering(x)
    BY <1>1, <1>2 DEF WorkerOK, Answering
  <1>4. worker' = [worker EXCEPT ![w] = x]
    BY DEF Answer
  <1> QED BY <1>2, <1>3, <1>4, WorkerReplaced

LEMMA ReceiveIInv ==
  ASSUME IInv, NEW w \in Workers, Receive(w)
  PROVE  IInv'
  <1> DEFINE r == worker[w].run
  <1>1. r \in Runs /\ Answering(worker[w]) /\ worker[w].pc # "idle"
    BY WorkerTyped DEF Receive, At, Answering, WorkerOK
  <1>2. runs[r] \in RunType /\ RunOK(runs[r], r)
    BY <1>1, RunTyped
  <1>3. runs[r].result \in Results /\ runs[r].result.run = r
        /\ Flagged(runs[r].result)
    BY <1>1, <1>2 DEF RunType, RunOK, Flagged
  <1> QED BY <1>1, <1>3, AnswerIInv DEF Receive

LEMMA AbandonIInv ==
  ASSUME IInv, NEW w \in Workers, Abandon(w)
  PROVE  IInv'
  <1> DEFINE r == worker[w].run
  <1>1. r \in Runs /\ Answering(worker[w]) /\ worker[w].pc # "idle"
        /\ r \in Nat
    BY WorkerTyped DEF Abandon, drained, At, Answering, WorkerOK
  <1>2. abandonedResult(r) \in Results /\ abandonedResult(r).run = r
        /\ abandonedResult(r).log \in Flags
    BY <1>1 DEF abandonedResult, errorResult, Results, Logs, Flags
  <1>3. Flagged(abandonedResult(r))
    BY <1>1, <1>2 DEF Flagged
  <1> QED BY <1>1, <1>2, <1>3, AnswerIInv DEF Abandon

LEMMA RecoverPanicIInv ==
  ASSUME IInv, NEW w \in Workers, RecoverPanic(w)
  PROVE  IInv'
  <1> DEFINE r == worker[w].run
             result == errorResult(r, "panic")
  <1>1. /\ r # NoRun => r \in Runs /\ Answering(worker[w])
        /\ worker[w].pc # "idle" /\ r \in Nat
    BY WorkerTyped DEF RecoverPanic, At, Answering, WorkerOK
  <1>2. result \in Results /\ result.run = r /\ result.log \in Flags
    BY <1>1 DEF errorResult, Results, Logs, Flags
  <1>3. Flagged(result)
    BY <1>1, <1>2 DEF Flagged
  <1> QED BY <1>1, <1>2, <1>3, AnswerIInv DEF RecoverPanic

----------------------------------------------------------------------------
(* The three steps of a worker that change more than its record. *)

LEMMA DeadlineIInv ==
  ASSUME IInv, NEW w \in Workers, Deadline(w)
  PROVE  IInv'
  <1> DEFINE r == worker[w].run
             x == [runs[r] EXCEPT !.expired = TRUE]
             y == [worker[w] EXCEPT !.pc = "draining"]
  <1>1. r \in Runs /\ worker[w] \in WorkerType /\ WorkerOK(worker[w])
        /\ worker[w].pc = "waiting"
        /\ worker \in [Workers -> WorkerType]
    BY WorkerTyped DEF Deadline, At, WorkerOK
  <1>2. runs[r] \in RunType /\ RunOK(runs[r], r)
    BY <1>1, RunTyped
  <1>3. x \in RunType /\ RunOK(x, r) /\ (Settled(runs[r]) <=> Settled(x))
    BY <1>2 DEF RunType, RunOK, Settled
  <1>4. y.run = r /\ y.pc = "draining" /\ y.result = worker[w].result
        /\ y.url = worker[w].url /\ y \in WorkerType
    BY <1>1 DEF WorkerType
  <1>5. runs' = [runs EXCEPT ![r] = x] /\ worker' = [worker EXCEPT ![w] = y]
    BY DEF Deadline, Goto
  <1>6. UNCHANGED <<config, posts, nowhere>>
    BY DEF Deadline
  <1>7. /\ Len(runs') = Len(runs) /\ Len(runs) \in Nat
        /\ Runs' = Runs
        /\ runs' \in Seq(RunType)
    BY <1>1, <1>3, <1>5, TypeOKParts, ExceptSeq DEF IInv, Runs
  <1>8. \A q \in Runs : runs'[q] = IF q = r THEN x ELSE runs[q]
    BY <1>5, TypeOKParts, LenProperties DEF IInv, Runs
  <1> HIDE DEF x, y
  <1>9. ASSUME NEW result, Flagged(result) PROVE Flagged(result)'
    <2>1. \A q \in Runs : Settled(runs[q]) => Settled(runs'[q])
      BY <1>3, <1>8
    <2> QED BY <1>7, <1>9, <2>1 DEF Flagged, NoRun, Settled
  <1>10. TypeOK'
    <2>1. worker' \in [Workers -> WorkerType]
      BY <1>1, <1>4, <1>5
    <2> QED BY <1>6, <1>7, <2>1, TypeOKParts
            DEF IInv, config, TypeOK, RunType, WorkerType
  <1>11. RunsOK'
    BY <1>3, <1>7, <1>8 DEF IInv, RunsOK
  <1>12. WorkersOK'
    <2>1. WorkerOK(y)
      BY <1>1, <1>4 DEF WorkerOK
    <2> QED BY <1>1, <1>5, <1>6, <1>9, <2>1
            DEF IInv, WorkersOK, WorkerOK, config
  <1>13. PostsOK'
    BY <1>6, <1>7, <1>9 DEF IInv, PostsOK
  <1>14. RunsApart'
    BY <1>1, <1>4, <1>5 DEF IInv, RunsApart
  <1>15. \A q \in Runs : Pending(q)' <=> Pending(q)
    BY <1>1, <1>4, <1>5 DEF Pending, At
  <1>16. RunsAnswered'
    BY <1>6, <1>7, <1>15 DEF IInv, RunsAnswered, PostsOf
  <1> QED BY <1>6, <1>10, <1>11, <1>12, <1>13, <1>14, <1>16 DEF IInv

\* A new run has no posts, and its number is no other worker's.
LEMMA FetchActionIInv ==
  ASSUME IInv, NEW w \in Workers, NEW a \in mode, FetchAction(w, a)
  PROVE  IInv'
  <1>0. PICK r : r = Len(runs) + 1
    OBVIOUS
  <1> DEFINE x == [action |-> a, phase |-> "running", expired |-> FALSE,
                   committed |-> FALSE, reported |-> FALSE, result |-> ok(r)]
             y == [worker[w] EXCEPT !.pc = "waiting", !.run = r]
  <1>1. /\ worker \in [Workers -> WorkerType]
        /\ worker[w] \in WorkerType /\ WorkerOK(worker[w])
        /\ worker[w].pc = "fetching" /\ worker[w].run = NoRun
        /\ Len(runs) \in Nat
    BY WorkerTyped DEF FetchAction, At, WorkerOK
  <1>2. a \in Actions
    BY RouterAssumption DEF IInv, TypeOK
  <1>3. ok(r) \in Results /\ ok(r).run = r /\ ok(r).status # 0
    <2>1. ok(r).run = r /\ ok(r).status # 0
      BY DEF ok
    <2>2. r \in Nat
      BY <1>0, <1>1
    <2> QED BY <2>1, <2>2, ResultTypes
  <1>4. x \in RunType /\ RunOK(x, r)
    BY <1>2, <1>3 DEF RunType, RunOK
  <1>5. runs' = Append(runs, x) /\ worker' = [worker EXCEPT ![w] = y]
    BY <1>0 DEF FetchAction
  <1>6. UNCHANGED <<config, posts, nowhere>>
    BY DEF FetchAction
  <1>7. y.run = r /\ y.pc = "waiting" /\ y.result = worker[w].result
        /\ y.url = worker[w].url
    BY <1>1 DEF WorkerType
  <1> HIDE DEF x
  <1>8. runs \in Seq(RunType)
    BY TypeOKParts DEF IInv
  <1>9. /\ runs' \in Seq(RunType) /\ Len(runs') = r
        /\ runs'[r] = x
        /\ \A q \in Runs : runs'[q] = runs[q]
    BY <1>0, <1>4, <1>5, <1>8, AppendProperties DEF Runs
  <1>10. Runs' = Runs \cup {r} /\ r \notin Runs
    BY <1>0, <1>1, <1>9 DEF Runs
  <1>11. ASSUME NEW result, Flagged(result) PROVE Flagged(result)'
    BY <1>9, <1>10, <1>11 DEF Flagged, NoRun, Settled
  <1>12. TypeOK'
    <2>1. \A v \in Workers : worker'[v] \in WorkerType'
      <3> TAKE v \in Workers
      <3>1. worker[v] \in WorkerType
        BY <1>1
      <3>2. worker[v].run \in 0 .. Len(runs')
        BY <3>1, <1>0, <1>1, <1>9 DEF WorkerType
      <3>3. worker[v] \in WorkerType'
        BY <3>1, <3>2 DEF WorkerType
      <3>4. r \in 0 .. Len(runs')
        BY <1>0, <1>1, <1>9
      <3>5. v = w => y \in WorkerType'
        BY <3>3, <3>4 DEF WorkerType
      <3> QED BY <3>3, <3>5, <1>1, <1>5
    <2>2. worker' \in [Workers -> WorkerType']
      BY <2>1, <1>1, <1>5
    <2> QED BY <1>6, <1>9, <2>2, TypeOKParts
            DEF IInv, config, TypeOK, RunType, WorkerType
  <1>13. RunsOK'
    BY <1>4, <1>9, <1>10 DEF IInv, RunsOK
  <1>14. WorkersOK'
    <2> SUFFICES ASSUME NEW v \in Workers PROVE WorkerOK(worker[v])'
      BY DEF WorkersOK
    <2>1. PICK old : old = worker[v].result
      OBVIOUS
    <2>2. WorkerOK(worker[v]) /\ Flagged(old)
      BY <2>1 DEF IInv, WorkersOK, WorkerOK
    <2>3. Flagged(old)'
      BY <2>2, <1>11
    <2>4. worker'[v].result = old
      BY <2>1, <1>1, <1>5, <1>7
    <2>5. r # NoRun
      BY <1>0, <1>1 DEF NoRun
    <2>6. CASE v = w
      <3>1. worker'[v] = y
        BY <2>6, <1>1, <1>5
      <3> HIDE DEF y
      <3> QED BY <2>3, <2>4, <2>5, <3>1, <1>1, <1>6, <1>7 DEF WorkerOK, config
    <2>7. CASE v # w
      <3>1. worker'[v] = worker[v]
        BY <2>7, <1>1, <1>5
      <3> QED BY <2>2, <2>3, <2>4, <3>1, <1>6 DEF WorkerOK, config
    <2> QED BY <2>6, <2>7
  <1>15. PostsOK'
    BY <1>6, <1>10, <1>11 DEF IInv, PostsOK
  <1>16. \A v \in Workers : worker[v].run \in 0 .. Len(runs)
    BY <1>1 DEF WorkerType
  <1>17. RunsApart'
    <2> HIDE DEF y
    <2> QED BY <1>0, <1>1, <1>5, <1>7, <1>16 DEF IInv, RunsApart
  <1>18. Pending(r)' /\ PostsOf(r)' = {}
    <2>1. PostsOf(r)' = {}
      BY <1>6, <1>10 DEF IInv, PostsOK, PostsOf
    <2>2. worker'[w] = y
      BY <1>1, <1>5
    <2> HIDE DEF y
    <2> QED BY <2>1, <2>2, <1>7 DEF Pending, At
  <1>19. \A q \in Runs : Pending(q)' <=> Pending(q)
    <2> HIDE DEF y
    <2> QED BY <1>1, <1>5, <1>7, <1>10 DEF Pending, At
  <1>20. RunsAnswered'
    <2> QED BY <1>6, <1>10, <1>18, <1>19 DEF IInv, RunsAnswered, PostsOf
  <1> QED BY <1>6, <1>12, <1>13, <1>14, <1>15, <1>17, <1>20 DEF IInv

\* What is posted names the worker's run, which then is answered; a failed post
\* is followed by a notice that names none.
LEMMA signAndPostIInv ==
  ASSUME IInv, NEW w \in Workers, signAndPost(w)
  PROVE  IInv'
  <1>1. PICK r : r = worker[w].run
    OBVIOUS
  <1>2. PICK response : response = SignResult(worker[w].result)
    OBVIOUS
  <1>3. PICK y : /\ worker' = [worker EXCEPT ![w] = y]
                 /\ \/ y = Idle
                    \/ y = [worker[w] EXCEPT !.pc = "fallback",
                                             !.url = proxyURL]
    BY DEF signAndPost
  <1>4. UNCHANGED <<config, runs>>
    BY DEF signAndPost
  <1>5. /\ worker \in [Workers -> WorkerType]
        /\ worker[w] \in WorkerType /\ WorkerOK(worker[w])
        /\ worker[w].pc \in {"posting", "recovering"}
        /\ worker[w].result \in Results
        /\ worker[w].result.run = r
        /\ r # NoRun => r \in Runs
        /\ Answering(worker[w])
        /\ proxyURL # NoURL /\ Len(runs) \in Nat
    BY <1>1, WorkerTyped DEF signAndPost, At, WorkerOK, WorkerType, Answering
  <1>6. /\ response \in PostType
        /\ response.result.run = r
        /\ response.signed => Flagged(response.result)
    BY <1>2, <1>5
    DEF SignResult, PostType, Results, Logs, IInv, TypeOK, WorkerOK
  <1>7. /\ UNCHANGED nowhere
        /\ posts' = IF r = NoRun THEN posts ELSE Append(posts, response)
    BY <1>2, <1>5, <1>6
    DEF signAndPost, PostActionResponse, IInv, TypeOK, SignResult
  <1>8. /\ y \in WorkerType /\ WorkerOK(y) /\ ~Answering(y)
        /\ y.run = NoRun \/ y.run = r
    <2>1. CASE y = Idle
      BY <2>1, <1>5, IdleOK DEF Answering
    <2>2. CASE y = [worker[w] EXCEPT !.pc = "fallback", !.url = proxyURL]
      BY <2>2, <1>1, <1>5 DEF WorkerType, WorkerOK, Answering, IInv, TypeOK
    <2> QED BY <1>3, <2>1, <2>2
  <1>9. posts \in Seq(PostType) /\ Runs' = Runs
    BY <1>4, TypeOKParts DEF IInv, Runs
  <1>10. TypeOK'
    <2>1. worker' \in [Workers -> WorkerType]
      BY <1>3, <1>5, <1>8
    <2>2. posts' \in Seq(PostType)
      BY <1>6, <1>7, <1>9, AppendProperties
    <2> QED BY <1>4, <1>7, <2>1, <2>2, TypeOKParts
            DEF IInv, config, TypeOK, PostType, WorkerType
  <1>11. WorkersOK'
    BY <1>3, <1>4, <1>5, <1>8
    DEF IInv, WorkersOK, WorkerOK, Flagged, Runs, config
  <1>12. RunsApart'
    BY <1>1, <1>3, <1>5, <1>8 DEF IInv, RunsApart
  <1>13. /\ r = NoRun => DOMAIN posts' = DOMAIN posts
         /\ r # NoRun => DOMAIN posts' = DOMAIN posts \cup {Len(posts) + 1}
         /\ \A i \in DOMAIN posts : posts'[i] = posts[i]
         /\ r # NoRun => posts'[Len(posts) + 1] = response
         /\ Len(posts) + 1 \notin DOMAIN posts
    BY <1>6, <1>7, <1>9, AppendProperties, LenProperties
  <1>14. PostsOK'
    BY <1>4, <1>5, <1>6, <1>9, <1>13 DEF IInv, PostsOK, Flagged
  <1>15. \A q \in Runs : q # r => (Pending(q)' <=> Pending(q))
    BY <1>1, <1>3, <1>5, <1>8 DEF Pending, At, Runs, NoRun
  <1>16. r # NoRun => Pending(r) /\ ~Pending(r)'
    BY <1>1, <1>3, <1>5, <1>8 DEF IInv, RunsApart, Pending, At, Answering
  <1>17. \A q \in Runs : q # r => PostsOf(q)' = PostsOf(q)
    BY <1>6, <1>13 DEF PostsOf
  <1>18. r # NoRun => PostsOf(r)' = {Len(posts) + 1}
    <2> SUFFICES ASSUME r # NoRun PROVE PostsOf(r)' = {Len(posts) + 1}
      OBVIOUS
    <2>1. PostsOf(r) = {}
      BY <1>5, <1>16 DEF IInv, RunsAnswered
    <2> QED BY <2>1, <1>6, <1>13 DEF PostsOf
  <1>19. RunsAnswered'
    <2> SUFFICES ASSUME NEW q \in Runs
                 PROVE  IF Pending(q)' THEN PostsOf(q)' = {}
                        ELSE \E i \in DOMAIN posts' : PostsOf(q)' = {i}
      BY <1>9 DEF RunsAnswered
    <2>1. CASE q # r
      BY <2>1, <1>13, <1>15, <1>17 DEF IInv, RunsAnswered
    <2>2. CASE q = r
      <3>1. r # NoRun
        BY <2>2 DEF Runs, NoRun
      <3> QED BY <2>2, <3>1, <1>13, <1>16, <1>18
    <2> QED BY <2>1, <2>2
  <1>20. RunsOK' /\ ~nowhere'
    BY <1>4, <1>7 DEF IInv, RunsOK, Runs
  <1> QED BY <1>10, <1>11, <1>12, <1>14, <1>19, <1>20 DEF IInv

\* The notice names no action and goes to the URL of the failed post.
LEMMA PostFallbackIInv ==
  ASSUME IInv, NEW w \in Workers, PostFallback(w)
  PROVE  IInv'
  <1>1. /\ worker \in [Workers -> WorkerType]
        /\ worker[w].pc = "fallback" /\ WorkerOK(worker[w])
        /\ Len(runs) \in Nat
    BY WorkerTyped DEF PostFallback, At
  <1>2. UNCHANGED <<config, runs, posts, nowhere>>
    BY <1>1 DEF PostFallback, PostActionResponse, fallback, errorResult,
                WorkerOK, IInv, TypeOK
  <1>3. worker' = [worker EXCEPT ![w] = Idle]
    BY DEF PostFallback
  <1>4. Idle \in WorkerType /\ Idle.run = NoRun /\ Idle.pc = "idle"
        /\ WorkerOK(Idle)
    BY <1>1, IdleOK
  <1>5. TypeOK'
    <2>1. worker' \in [Workers -> WorkerType]
      BY <1>1, <1>3, <1>4
    <2> QED BY <1>2, <2>1, TypeOKParts DEF IInv, config, TypeOK, WorkerType
  <1>6. WorkersOK'
    BY <1>1, <1>2, <1>3, <1>4
    DEF IInv, WorkersOK, WorkerOK, Flagged, Runs, config
  <1>7. RunsApart'
    BY <1>1, <1>3, <1>4 DEF IInv, RunsApart
  <1>8. \A q \in Runs : Pending(q)' <=> Pending(q)
    BY <1>1, <1>3, <1>4 DEF Pending, At, Runs
  <1>9. RunsAnswered'
    BY <1>2, <1>8 DEF IInv, RunsAnswered, PostsOf, Runs
  <1> QED BY <1>2, <1>5, <1>6, <1>7, <1>9
          DEF IInv, RunsOK, PostsOK, Flagged, Runs

----------------------------------------------------------------------------
LEMMA NextIInv == IInv /\ [Next]_vars => IInv'
  <1> SUFFICES ASSUME IInv, [Next]_vars PROVE IInv'
    OBVIOUS
  <1>1. ASSUME NEW u \in URLs, SetProxyURL(u) PROVE IInv'
    BY <1>1, ConfigIInv DEF SetProxyURL, IInv, TypeOK
  <1>2. CASE SetChainID
    BY <1>2, ConfigIInv DEF SetChainID
  <1>3. ASSUME NEW w \in Workers, WorkerStep(w) PROVE IInv'
    <2>1. CASE Poll(w)
      BY <2>1, PollIInv
    <2>2. CASE FetchTimeout(w) \/ FetchError(w) \/ FetchNothing(w)
      BY <2>2, FetchIInv
    <2>3. CASE \E a \in mode : FetchAction(w, a)
      BY <2>3, FetchActionIInv
    <2>4. CASE Deadline(w)
      BY <2>4, DeadlineIInv
    <2>5. CASE Receive(w)
      BY <2>5, ReceiveIInv
    <2>6. CASE Abandon(w)
      BY <2>6, AbandonIInv
    <2>7. CASE RecoverPanic(w)
      BY <2>7, RecoverPanicIInv
    <2>8. CASE signAndPost(w)
      BY <2>8, signAndPostIInv
    <2>9. CASE PostFallback(w)
      BY <2>9, PostFallbackIInv
    <2> QED BY <1>3, <2>1, <2>2, <2>3, <2>4, <2>5, <2>6, <2>7, <2>8, <2>9
            DEF WorkerStep
  <1>4. ASSUME NEW r \in Runs, RunStep(r) \/ ExtensionStep(r) PROVE IInv'
    BY <1>4, RunStepIInv, ExtensionStepIInv
  <1>5. CASE UNCHANGED vars
    BY <1>5, ConfigIInv DEF vars, config, IInv, TypeOK
  <1> QED BY <1>1, <1>2, <1>3, <1>4, <1>5 DEF Next

LEMMA Invariance == Spec => []IInv
  BY InitIInv, NextIInv, PTL DEF Spec

\* Every state of the router has its type; no worker polls more often than
\* fetchActionWithRetry allows.
THEOREM TypeCorrect == Spec => []TypeOK
  <1>1. IInv => TypeOK
    BY DEF IInv
  <1> QED BY <1>1, Invariance, PTL

\* Whatever of processor, worker, signing and posting fails, an action that was
\* fetched is answered by name once, and not while a worker still has it.
THEOREM EveryActionAnsweredOnce == Spec => []AnsweredOnce
  <1>1. IInv => AnsweredOnce
    <2> SUFFICES ASSUME IInv, NEW r \in Runs
                 PROVE  Cardinality(PostsOf(r)) = IF Pending(r) THEN 0 ELSE 1
      BY DEF AnsweredOnce
    <2>1. CASE Pending(r)
      BY <2>1, FS_EmptySet DEF IInv, RunsAnswered
    <2>2. CASE ~Pending(r)
      <3>1. PICK i \in DOMAIN posts : PostsOf(r) = {i}
        BY <2>2 DEF IInv, RunsAnswered
      <3> QED BY <2>2, <3>1, FS_Singleton
    <2> QED BY <2>1, <2>2
  <1> QED BY <1>1, Invariance, PTL

\* A signed failure of an action that takes effect, before or after the answer,
\* carries a flag: only a goroutine that had no effect fails without.
THEOREM SignedFailuresAreFlagged == Spec => []SignedFailuresFlagged
  <1>1. IInv => SignedFailuresFlagged
    <2> SUFFICES ASSUME IInv, NEW i \in DOMAIN posts,
                        posts[i].signed, posts[i].result.status = 0,
                        runs[posts[i].result.run].committed
                 PROVE  posts[i].result.log \in Flags
      BY DEF SignedFailuresFlagged, Flags
    <2>1. posts[i].result.run \in Runs /\ Flagged(posts[i].result)
      BY DEF IInv, PostsOK
    <2> QED BY <2>1 DEF Flagged, Settled, Runs, NoRun
  <1> QED BY <1>1, Invariance, PTL

\* No result and no notice goes to an empty URL, though signAndPost reads the
\* URL anew and does not look at it.
THEOREM NothingSentNowhere == Spec => []Addressed
  <1>1. IInv => Addressed
    BY DEF IInv, Addressed
  <1> QED BY <1>1, Invariance, PTL
=============================================================================
