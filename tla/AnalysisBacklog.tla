-------------------------- MODULE AnalysisBacklog ---------------------------
(***************************************************************************)
(* How tokens come to be analysed (apps/worker/src/index.ts, analyzeJob.ts, *)
(* apps/api/src/queue.ts): discovery hands over what it found, a loop walks *)
(* the backlog by holder count, readers ask for a token, and all three put  *)
(* jobs on one queue, which the worker serves a few at a time.  A worker    *)
(* that found no Redis when it started runs the loops' tokens in line.      *)
(***************************************************************************)
EXTENDS Integers, FiniteSets

CONSTANTS
    Tokens,         \* contracts that may get a row
    Rank,           \* a number for each: the most held token has the lowest
    Nameless,       \* those with neither name nor symbol
    Broken,         \* those whose analysis always throws
    BatchSize,      \* ANALYSIS_BACKFILL_BATCH
    Concurrency,    \* ANALYSIS_CONCURRENCY
    Attempts,       \* of a job (3)
    Offered,        \* bound: tokens discovery offers,
    Asked,          \* and those readers ask for
    MaxFaults       \* bound: other failures, and restarts of the worker

VARIABLES
    known,          \* tokens with a row
    done,           \* those with analysisUpdatedAt
    inline,         \* the worker has no queue
    jobs,           \* per kind and token, the job of this hour
    cachedEvents,   \* the shared read of the confirmed events
    faults

vars == <<known, done, inline, jobs, cachedEvents, faults>>

Kinds == {"recent", "backfill", "asked"}
JobStates == {"none", "waiting", "reading", "scoring", "failed"}
NoJob == [state |-> "none", tries |-> 0]
Waiting == [state |-> "waiting", tries |-> Attempts]

Active == {"reading", "scoring"}
InState(k, states) == {t \in Tokens : jobs[k][t].state \in states}

Init ==
    /\ known = {} /\ done = {} /\ inline \in BOOLEAN
    /\ jobs = [k \in Kinds |-> [t \in Tokens |-> NoJob]]
    /\ cachedEvents = "none" /\ faults = 0

Fails == faults < MaxFaults /\ faults' = faults + 1

\* A jobId that is still there, waiting, running or failed, is not added again.
Added(k, batch) ==
    [jobs EXCEPT ![k] = [t \in Tokens |->
        IF t \in batch /\ jobs[k][t] = NoJob THEN Waiting ELSE jobs[k][t]]]

\* add() errors are swallowed: the token is left for the next poll.
Queue(k, batch) ==
    \/ jobs' = Added(k, batch) /\ faults' = faults
    \/ /\ ~inline /\ Fails
       /\ \E kept \in SUBSET batch : kept # batch /\ jobs' = Added(k, kept)

\* In line, a loop is busy until its last token is done.
LoopFree(k) == inline => InState(k, {"waiting"} \union Active) = {}

-----------------------------------------------------------------------------
(* Where jobs come from.                                                    *)

\* A row is created; nothing else happens to it here.
Discover(t) ==
    /\ t \notin known
    /\ known' = known \union {t}
    /\ UNCHANGED <<done, inline, jobs, cachedEvents, faults>>

\* The arc-discovery loop, for the candidates its poll returned.
OfferFound(found) ==
    /\ LoopFree("recent")
    /\ Queue("recent", found)
    /\ UNCHANGED <<known, done, inline, cachedEvents>>

Backlog == (known \ done) \ Nameless
Batch ==
    {t \in Backlog : Cardinality({u \in Backlog : Rank[u] < Rank[t]}) < BatchSize}

\* The analysis-backfill loop.
Backfill ==
    /\ LoopFree("backfill") /\ Batch # {}
    /\ Queue("backfill", Batch)
    /\ UNCHANGED <<known, done, inline, cachedEvents>>

\* enqueueAnalysis; the API has a queue of its own, served or not.
Ask(t) ==
    /\ jobs' = Added("asked", {t}) /\ jobs' # jobs
    /\ UNCHANGED <<known, done, inline, cachedEvents, faults>>

-----------------------------------------------------------------------------
(* A job.                                                                   *)

Running == {r \in Kinds \X Tokens : jobs[r[1]][r[2]].state \in Active}

\* In line, a loop takes its tokens one at a time, the batch in its order.
Turn(k, t) ==
    IF inline
    THEN /\ k # "asked" /\ InState(k, Active) = {}
         /\ k = "backfill" => \A u \in InState(k, {"waiting"}) : Rank[t] <= Rank[u]
    ELSE Cardinality(Running) < Concurrency

\* confirmedRiskEvents: the read that is cached, be it pending, or a new one.
Start(k, t) ==
    /\ jobs[k][t].state = "waiting" /\ Turn(k, t)
    /\ jobs' = [jobs EXCEPT ![k][t].state =
                    IF cachedEvents = "read" THEN "scoring" ELSE "reading"]
    /\ cachedEvents' = IF cachedEvents = "read" THEN "read" ELSE "reading"
    /\ UNCHANGED <<known, done, inline, faults>>

\* Mutant: a token that throws ends the loop's batch.
BatchOver(k, t, j) ==
    IF inline THEN [u \in Tokens |-> NoJob]
    ELSE IF j[t].tries > 1 THEN [j EXCEPT ![t] = [state |-> "waiting", tries |-> @.tries - 1]]
    ELSE [j EXCEPT ![t].state = "failed"]

\* Mutant: attempts are counted but never end.
RetriesForever(k, t, j) ==
    IF inline THEN [j EXCEPT ![t] = NoJob]
    ELSE [j EXCEPT ![t] = [state |-> "waiting", tries |-> @.tries - 1]]

\* The job of t failed: in line the error is caught and the next token's turn
\* comes; a queued job waits for another attempt, and after the last one it
\* stays failed for an hour.
AfterFailure(k, t, j) ==
    IF inline THEN [j EXCEPT ![t] = NoJob]
    ELSE IF j[t].tries > 1 THEN [j EXCEPT ![t] = [state |-> "waiting", tries |-> @.tries - 1]]
    ELSE [j EXCEPT ![t].state = "failed"]

\* The read answers for every job that shares it.
EventsRead ==
    /\ cachedEvents = "reading" /\ cachedEvents' = "read"
    /\ jobs' = [k \in Kinds |-> [t \in Tokens |->
                  IF jobs[k][t].state = "reading" THEN [jobs[k][t] EXCEPT !.state = "scoring"]
                  ELSE jobs[k][t]]]
    /\ UNCHANGED <<known, done, inline, faults>>

\* It throws for every one of them, and is forgotten.
EventsFail ==
    /\ cachedEvents = "reading" /\ Fails
    /\ cachedEvents' = "none"
    /\ jobs' = [k \in Kinds |-> [t \in Tokens |->
                  IF jobs[k][t].state = "reading" THEN AfterFailure(k, t, jobs[k])[t]
                  ELSE jobs[k][t]]]
    /\ UNCHANGED <<known, done, inline>>

\* EVENTS_TTL_MS are over.
EventsExpire ==
    /\ cachedEvents = "read" /\ cachedEvents' = "none"
    /\ UNCHANGED <<known, done, inline, jobs, faults>>

\* analyzeToken and persistAnalysisResult.
Finish(k, t) ==
    /\ jobs[k][t].state = "scoring"
    /\ \/ /\ t \notin Broken /\ faults' = faults
          /\ known' = known \union {t} /\ done' = done \union {t}
          /\ jobs' = [jobs EXCEPT ![k][t] = NoJob]
       \/ /\ IF t \in Broken THEN faults' = faults ELSE Fails
          /\ jobs' = [jobs EXCEPT ![k] = AfterFailure(k, t, @)]
          /\ UNCHANGED <<known, done>>
    /\ UNCHANGED <<inline, cachedEvents>>

\* The hour of the ids turns, and failed jobs are removed after one.
HourTurns ==
    /\ \E k \in Kinds : InState(k, {"failed"}) # {}
    /\ jobs' = [k \in Kinds |-> [t \in Tokens |->
                  IF jobs[k][t].state = "failed" THEN NoJob ELSE jobs[k][t]]]
    /\ UNCHANGED <<known, done, inline, cachedEvents, faults>>

\* The worker restarts and looks for Redis again: the queue keeps its jobs, a
\* running one goes back to it; what ran in line is gone.
Restart(withoutRedis) ==
    /\ Fails
    /\ inline' = withoutRedis /\ cachedEvents' = "none"
    /\ jobs' = [k \in Kinds |-> [t \in Tokens |->
                  IF inline /\ k # "asked" THEN NoJob
                  ELSE IF jobs[k][t].state \in Active THEN [jobs[k][t] EXCEPT !.state = "waiting"]
                  ELSE jobs[k][t]]]
    /\ UNCHANGED <<known, done>>

-----------------------------------------------------------------------------
Next ==
    \/ \E t \in Tokens : Discover(t) \/ (t \in Asked /\ Ask(t))
    \/ \E found \in SUBSET (Offered \intersect (known \ done)) : found # {} /\ OfferFound(found)
    \/ \E k \in Kinds, t \in Tokens : Start(k, t) \/ Finish(k, t)
    \/ Backfill \/ EventsRead \/ EventsFail \/ EventsExpire \/ HourTurns
    \/ \E r \in BOOLEAN : Restart(r)

Spec == Init /\ [][Next]_vars

\* The loops poll, reads answer, the clock runs, and the queue is first in,
\* first out.
FairSpec ==
    /\ Spec
    /\ WF_vars(Backfill) /\ WF_vars(EventsRead) /\ WF_vars(HourTurns)
    /\ \A k \in Kinds, t \in Tokens : WF_vars(Finish(k, t))
    /\ \A t \in Tokens : SF_vars(Start("backfill", t))
-----------------------------------------------------------------------------
(* Properties.                                                              *)

\* Every variable has its type.
TypeOK ==
    /\ known \in SUBSET Tokens /\ done \in SUBSET known /\ inline \in BOOLEAN
    /\ jobs \in [Kinds -> [Tokens -> [state : JobStates, tries : 0 .. Attempts]]]
    /\ cachedEvents \in {"none", "reading", "read"}

\* "One token that always fails does not hold up the rest of the backlog
\* forever": as long as fewer tokens than a batch always fail, every other
\* named token is analysed in the end, with a queue or without.
BacklogDrains ==
    Cardinality(Broken \ Nameless) < BatchSize =>
        \A t \in Tokens \ (Broken \union Nameless) : t \in known ~> t \in done
=============================================================================
