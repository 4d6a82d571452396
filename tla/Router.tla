------------------------------- MODULE Router -------------------------------
(***************************************************************************)
(* The queue workers of internal/router.  A worker polls its queue at the  *)
(* proxy (internal/router/queue), runs the action it gets in a goroutine   *)
(* under a deadline, and posts the result, signed.  When the deadline      *)
(* passes it waits for the goroutine a little longer and then abandons it; *)
(* the goroutine runs on.  When the post fails it posts a notice, unsigned *)
(* and without an action id.  Meanwhile the config server may replace the  *)
(* proxy's URL and set the chain id, which every signature needs.          *)
(*                                                                         *)
(* What a processor computes is not modelled here, only what its caller    *)
(* can see: it looks at its context once (or never, if its action is in    *)
(* CtxBlind), then changes the state, then returns; it may fail before it  *)
(* has changed anything, panic anywhere, or never return.                  *)
(*                                                                         *)
(* In extension mode (NewForwardRouter) the default processors hand        *)
(* actions to an extension, a separate service.  It acts on them in its    *)
(* own time, and may send results of its own through the sign server.      *)
(***************************************************************************)
EXTENDS Naturals, Sequences, FiniteSets

CONSTANTS Workers,            \* one per queue: main, direct, backup
          Actions,            \* what the proxy may hand out, repeatedly
          CtxBlind,           \* actions whose processor ignores its context
          Forwarded,          \* actions for the extension
          Modes,              \* the actions a router may have processors for
          URLs,               \* proxy URLs that pass ValidateProxyURL
          NoURL,              \* the empty URL
          QueueFetchRetries,
          MaxRuns             \* bound: actions fetched in a behaviour

ASSUME RouterAssumption ==
    /\ Forwarded \subseteq CtxBlind /\ CtxBlind \subseteq Actions
    /\ Modes \subseteq SUBSET Actions
    /\ NoURL \notin URLs
    /\ QueueFetchRetries \in Nat
    /\ MaxRuns \in Nat

VARIABLES mode,               \* the actions with a processor
          proxyURL,
          chainID,            \* whether the chain id is set
          worker,             \* pc, attempt, url of a failed post, run, result
          runs,               \* the goroutines of processWithTimeout
          posts,              \* workers' posts that name an action (history)
          nowhere             \* results posted to the empty URL (history)

config == <<mode, proxyURL, chainID>>
vars == <<config, worker, runs, posts, nowhere>>

NoRun == 0
Runs == 1 .. Len(runs)
Logs == {"", "error", "panic", "unknown", "fetch", "post",
         "unsigned", "extension"}

\* A result says whether it worked and, if not, why; run stands for the action
\* id, and NoRun for the zero id.
Results == [run : Nat, status : 0 .. 3, log : Logs]
ok(r) == [run |-> r, status |-> 1, log |-> ""]

\* With a nil action the fields that name it are left zero.
errorResult(r, log) == [run |-> r, status |-> 0, log |-> log]

Idle == [pc |-> "idle", attempt |-> 0, url |-> NoURL, run |-> NoRun,
         result |-> errorResult(NoRun, "")]

Init ==
    /\ mode \in Modes
    /\ proxyURL \in URLs \cup {NoURL}
    /\ chainID \in BOOLEAN
    /\ worker = [w \in Workers |-> Idle]
    /\ runs = << >>
    /\ posts = << >>
    /\ nowhere = FALSE

At(w, pcs) == worker[w].pc \in pcs
Goto(w, pc) == worker' = [worker EXCEPT ![w].pc = pc]

\* Hand a result to signAndPost.
Answer(w, pc, result) ==
    worker' = [worker EXCEPT ![w].pc = pc, ![w].result = result]

-----------------------------------------------------------------------------
(* The config server. *)

\* The handler validates the URL, so it never becomes empty again.
SetProxyURL(u) ==
    /\ proxyURL' = u
    /\ UNCHANGED <<mode, chainID, worker, runs, posts, nowhere>>

SetChainID ==
    /\ ~chainID
    /\ chainID' = TRUE
    /\ UNCHANGED <<mode, proxyURL, worker, runs, posts, nowhere>>

-----------------------------------------------------------------------------
(* A worker: serveQueueIteration. *)

configuredAlways(url) == TRUE                                     \* mutant
configured(url) == url # NoURL

\* Without a URL the worker sleeps and looks again, which changes nothing.
Poll(w) ==
    /\ At(w, {"idle"})
    /\ configured(proxyURL)
    /\ Goto(w, "fetching")
    /\ UNCHANGED <<config, runs, posts, nowhere>>

mayRetryOnceMore(attempt) == attempt <= QueueFetchRetries         \* mutant
mayRetry(attempt) == attempt < QueueFetchRetries

FetchTimeout(w) ==
    /\ At(w, {"fetching"})
    /\ mayRetry(worker[w].attempt)
    /\ worker' = [worker EXCEPT ![w].attempt = @ + 1]
    /\ UNCHANGED <<config, runs, posts, nowhere>>

\* Any other error, at any attempt, or a timeout at the last one.
FetchError(w) ==
    /\ At(w, {"fetching"})
    /\ Answer(w, "posting", errorResult(NoRun, "fetch"))
    /\ UNCHANGED <<config, runs, posts, nowhere>>

\* The queue is empty: no action, or one with the zero id.
FetchNothing(w) ==
    /\ At(w, {"fetching"})
    /\ worker' = [worker EXCEPT ![w] = Idle]
    /\ UNCHANGED <<config, runs, posts, nowhere>>

FetchAction(w, a) ==
    /\ At(w, {"fetching"})
    /\ Len(runs) < MaxRuns
    /\ runs' = Append(runs, [action |-> a, phase |-> "running",
                             expired |-> FALSE, committed |-> FALSE,
                             reported |-> FALSE,
                             result |-> ok(Len(runs) + 1)])
    /\ worker' = [worker EXCEPT ![w].pc = "waiting", ![w].run = Len(runs) + 1]
    /\ UNCHANGED <<config, posts, nowhere>>

\* The context expires and the worker starts to wait for the drain timer.  If
\* the result is there as well, select takes either; it is then received while
\* draining.
Deadline(w) ==
    /\ At(w, {"waiting"})
    /\ Goto(w, "draining")
    /\ runs' = [runs EXCEPT ![worker[w].run].expired = TRUE]
    /\ UNCHANGED <<config, posts, nowhere>>

Receive(w) ==
    /\ At(w, {"waiting", "draining"})
    /\ runs[worker[w].run].phase = "returned"
    /\ Answer(w, "posting", runs[worker[w].run].result)
    /\ UNCHANGED <<config, runs, posts, nowhere>>

\* The drain timer fires whatever the goroutine does.
drainedOnReturn(w) ==                                             \* mutant
    At(w, {"draining"}) /\ runs[worker[w].run].phase = "returned"
drained(w) == At(w, {"draining"})

abandonedAsFailed(r) == errorResult(r, "error")                   \* mutant
abandonedResult(r) == errorResult(r, "unknown")

Abandon(w) ==
    /\ drained(w)
    /\ Answer(w, "posting", abandonedResult(worker[w].run))
    /\ UNCHANGED <<config, runs, posts, nowhere>>

\* A panic of the worker itself, recovered by the deferred function, which
\* answers for the action if one was fetched.  A panic in there would end the
\* process.
RecoverPanic(w) ==
    /\ At(w, {"fetching", "posting"})
    /\ Answer(w, "recovering", errorResult(worker[w].run, "panic"))
    /\ UNCHANGED <<config, runs, posts, nowhere>>

\* Without a chain id there is no signature, and the log says so instead of
\* what it said; the status stays.
SignResult(result) ==
    [result |-> IF chainID THEN result ELSE [result EXCEPT !.log = "unsigned"],
     signed |-> chainID]

\* The proxy may have received the response whether or not the call returned
\* an error.
PostActionResponse(url, response) ==
    /\ nowhere' = (nowhere \/ url = NoURL)
    /\ posts' = IF response.result.run = NoRun THEN posts
                                               ELSE Append(posts, response)

\* signAndPost reads the URL again: it may not be the one polled.  An error of
\* the call does not tell whether the proxy has the result.
signAndPost(w) ==
    /\ At(w, {"posting", "recovering"})
    /\ PostActionResponse(proxyURL, SignResult(worker[w].result))
    /\ \E err \in BOOLEAN :
         worker' = IF err THEN [worker EXCEPT ![w].pc = "fallback",
                                              ![w].url = proxyURL]
                          ELSE [worker EXCEPT ![w] = Idle]
    /\ UNCHANGED <<config, runs>>

fallbackNamed(w) == errorResult(worker[w].run, "post")            \* mutant
fallback(w) == errorResult(NoRun, "post")

\* The notice goes to the URL of the failed post and is not repeated.
PostFallback(w) ==
    /\ At(w, {"fallback"})
    /\ PostActionResponse(worker[w].url,
                          [result |-> fallback(w), signed |-> FALSE])
    /\ worker' = [worker EXCEPT ![w] = Idle]
    /\ UNCHANGED <<config, runs>>

WorkerStep(w) ==
    \/ Poll(w)
    \/ FetchTimeout(w) \/ FetchError(w) \/ FetchNothing(w)
    \/ \E a \in mode : FetchAction(w, a)
    \/ Deadline(w) \/ Receive(w) \/ Abandon(w) \/ RecoverPanic(w)
    \/ signAndPost(w) \/ PostFallback(w)

-----------------------------------------------------------------------------
(* A goroutine: process, and the processor it calls.  The one of a worker  *)
(* that waits and one that was abandoned take the same steps.              *)

InPhase(r, phases) == runs[r].phase \in phases
forwarded(r) == runs[r].action \in Forwarded

\* "timeout check before changing state": the state changes some time later.
CheckContext(r) ==
    /\ InPhase(r, {"running"})
    /\ runs[r].expired => runs[r].action \in CtxBlind
    /\ runs' = [runs EXCEPT ![r].phase = "checked"]
    /\ UNCHANGED <<config, worker, posts, nowhere>>

\* Every processor that changes the state reads the chain id before.
Commit(r) ==
    /\ InPhase(r, {"checked"})
    /\ ~forwarded(r)
    /\ chainID
    /\ runs' = [runs EXCEPT ![r].phase = "committed", ![r].committed = TRUE]
    /\ UNCHANGED <<config, worker, posts, nowhere>>

\* The channel has room for the result, so nobody needs to receive it.
Return(r, result) ==
    /\ runs' = [runs EXCEPT ![r].phase = "returned", ![r].result = result]
    /\ UNCHANGED <<config, worker, posts, nowhere>>

Succeed(r) == InPhase(r, {"committed"}) /\ Return(r, ok(r))

\* An action that is malformed, has no processor, or that its processor refuses;
\* an expired context, a missing chain id, a limit reached.
Fail(r) ==
    /\ InPhase(r, IF forwarded(r) THEN {"running"} ELSE {"running", "checked"})
    /\ Return(r, errorResult(r, "error"))

Panic(r) ==
    /\ InPhase(r, {"running", "checked", "committed"})
    /\ Return(r, errorResult(r, "panic"))

\* What the call to the extension may give: an error (0), the extension's word
\* that it is at work (2), or DeadlineExceeded for no answer in time (3).
ExtensionResults(r) ==
    [run : {r}, status : {0, 2, 3}, log : {"extension"}]

\* Once checked, a forwarded action is posted to the extension, and whatever
\* the call returns is the result.
PostActionToExtension(r) ==
    /\ InPhase(r, {"checked"})
    /\ forwarded(r)
    /\ \/ \E result \in ExtensionResults(r) : Return(r, result)
       \/ runs[r].committed /\ Return(r, ok(r))

RunStep(r) ==
    \/ CheckContext(r) \/ Commit(r) \/ PostActionToExtension(r)
    \/ Succeed(r) \/ Fail(r) \/ Panic(r)

-----------------------------------------------------------------------------
(* The extension, of which little is assumed: it acts only on actions that *)
(* were posted to it, and reports success for those it has acted on.       *)

\* It may act while the processor waits or after the call has failed.
ExtensionActs(r) ==
    /\ forwarded(r)
    /\ ~runs[r].committed
    /\ InPhase(r, {"checked"}) \/ runs[r].result.log = "extension"
    /\ runs' = [runs EXCEPT ![r].committed = TRUE]
    /\ UNCHANGED <<config, worker, posts, nowhere>>

\* The sign server refuses a result when there is no URL or no signature, and
\* otherwise posts it signed; the notice after an error names no action.
postResultHandler(r) ==
    /\ forwarded(r)
    /\ runs[r].committed
    /\ ~runs[r].reported
    /\ configured(proxyURL)
    /\ chainID
    /\ runs' = [runs EXCEPT ![r].reported = TRUE]
    /\ nowhere' = (nowhere \/ proxyURL = NoURL)
    /\ UNCHANGED <<config, worker, posts>>

ExtensionStep(r) == ExtensionActs(r) \/ postResultHandler(r)

Next ==
    \/ \E u \in URLs : SetProxyURL(u)
    \/ SetChainID
    \/ \E w \in Workers : WorkerStep(w)
    \/ \E r \in Runs : RunStep(r) \/ ExtensionStep(r)

\* A worker is always scheduled again and its timers and HTTP timeouts fire.
\* Nothing is assumed of processors, extension, proxy or config server.
Fairness == \A w \in Workers : WF_vars(WorkerStep(w))

Spec == Init /\ [][Next]_vars /\ Fairness

-----------------------------------------------------------------------------
(* Properties *)

\* The state has its type; in particular a worker polls at most
\* 1 + QueueFetchRetries times before it reports (fetchActionWithRetry).
TypeOK ==
    /\ mode \in Modes
    /\ proxyURL \in URLs \cup {NoURL}
    /\ chainID \in BOOLEAN
    /\ worker \in [Workers -> [pc : {"idle", "fetching", "waiting", "draining",
                                     "posting", "recovering", "fallback"},
                               attempt : 0 .. QueueFetchRetries,
                               url : URLs \cup {NoURL},
                               run : 0 .. Len(runs), result : Results]]
    /\ runs \in Seq([action : Actions, expired : BOOLEAN, committed : BOOLEAN,
                     reported : BOOLEAN,
                     phase : {"running", "checked", "committed", "returned"},
                     result : Results])
    /\ posts \in Seq([result : Results, signed : BOOLEAN])
    /\ nowhere \in BOOLEAN

\* Some worker has fetched the action of r and has not answered it yet.
Pending(r) ==
    \E w \in Workers :
        worker[w].run = r
          /\ At(w, {"waiting", "draining", "posting", "recovering"})

PostsOf(r) == {i \in DOMAIN posts : posts[i].result.run = r}

\* Every action fetched is answered by name once and only once, whichever of
\* processor, worker, signing and posting fails (processWithTimeout,
\* serveQueueIteration and its recovery, signAndPost and its fallback): the
\* proxy never has to choose between two results of one delivery.  What an
\* extension sends through the sign server comes on top, by design, and so do
\* the posts of the goroutine that signs payments (SignSchedule).
AnsweredOnce ==
    \A r \in Runs : Cardinality(PostsOf(r)) = IF Pending(r) THEN 0 ELSE 1

\* A failure that is signed and posted for an action which has taken effect, or
\* takes effect later in an abandoned goroutine, does not look like a clean one
\* (processWithTimeout: "an error that explicitly flags the state as unknown";
\* the default processors: "extension error").
\* Unsigned results lose the flag (SignResult), and the signature covers the
\* status but not the log (ActionResult.Hash).
SignedFailuresFlagged ==
    \A i \in DOMAIN posts :
        LET p == posts[i].result
        IN  posts[i].signed /\ p.status = 0 /\ runs[p.run].committed =>
                p.log \in {"unknown", "panic", "extension"}

\* Nothing is sent to an empty URL: signAndPost reads it again and does not
\* check it, but a worker only gets there once it was set (serveQueueIteration)
\* and the config server never empties it (proxyHandler).
Addressed == ~nowhere

\* The queue keeps moving: a worker comes back to its queue whatever processors,
\* proxy and config server do, even if no goroutine ever returns
\* (processWithTimeout, ActionDrainTimeout).
WorkerReturns == \A w \in Workers : []<>(worker[w].pc = "idle")
=============================================================================
