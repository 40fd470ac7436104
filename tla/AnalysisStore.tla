--------------------------- MODULE AnalysisStore ---------------------------
(***************************************************************************)
(* How the analyses of one token reach the database                        *)
(* (packages/db/src/analysis.ts and evidence.ts), while reviewers decide   *)
(* over the rows (apps/api/src/routes/admin.ts).                           *)
(*                                                                         *)
(* The worker and the API both persist results.  Within a process the      *)
(* writes of a token are queued; between processes nothing serialises      *)
(* them.  A write is a sequence of statements and transactions at READ     *)
(* COMMITTED, and may fail, or its process be killed, before each.  The    *)
(* writes no property tells apart (simulation, graph and bytecode edges,   *)
(* wallet) take no step: failing in one of them is failing before the next *)
(* step.                                                                   *)
(***************************************************************************)
EXTENDS Integers

CONSTANTS
    Procs,        \* processes that persist results: the API and the worker
    Findings,     \* what detectors can report
    Keys,         \* category::name, under which a finding is stored
    KeyOf,        \* the key of each finding
    Categories,   \* risk categories
    CategoryOf,   \* the category of each key
    ClassOf,      \* EVENT_CLASS_BY_CATEGORY
    Results,      \* what an analysis may come back with
    MaxRuns,      \* bound: analyses that are persisted
    MaxFaults,    \* bound: failed writes and kills
    AdminPoints,  \* where every run must stand for a reviewer to act
    NoProc        \* the process of a run that has not been submitted

Runs == 1..MaxRuns
NoResult == [meta |-> FALSE, produced |-> {}, loud |-> {}, complete |-> {}]

\* meta: the metadata probe answered.  produced: the findings the run scored;
\* loud: those of high or critical severity.  complete: the categories that
\* were read end to end.
ResultType == [meta : BOOLEAN, produced : SUBSET Findings, loud : SUBSET Findings,
               complete : SUBSET Categories]

Stages == {"none", "queued", "metadata", "review", "delete", "lock", "replace", "holders",
           "pools", "events", "refresh", "links", "record", "verdict", "done", "failed"}

ASSUME StoreAssumption ==
    /\ MaxRuns \in Nat /\ MaxFaults \in Nat
    /\ KeyOf \in [Findings -> Keys] /\ CategoryOf \in [Keys -> Categories]
    /\ DOMAIN ClassOf = Categories
    /\ Results \subseteq ResultType /\ \A x \in Results : x.loud \subseteq x.produced
    /\ AdminPoints \subseteq Stages
    /\ NoProc \notin Procs

VARIABLES
    meta,      \* whether the token's metadata is known
    findings,  \* Finding rows
    events,    \* RiskEvent rows
    child,     \* the run whose holders, pools and links are stored
    recorded,  \* the run of the latest AnalysisRun row
    verdict,   \* the run the token's grade and analysisUpdatedAt come from
    run,       \* the persistAnalysisResult calls, in the order of their submission
    faults,    \* failures so far
    said       \* history variable: what the committed runs said of each key

rows == <<meta, findings, events, child, recorded, verdict>>
vars == <<rows, run, faults, said>>

\* A finding row is identified by the run that created it and what it was
\* created for; shows is the finding it displays, as of run seen.
RowType == [born : Runs, for : Findings, shows : Findings, seen : Runs,
            manual : BOOLEAN, retired : BOOLEAN]
Statuses == {"pending", "confirmed", "rejected"}
EventType == [born : Runs, title : Keys, status : Statuses, resolved : BOOLEAN, proof : Runs]

Id(x) == <<x.born, x.for>>
IdType == Runs \X Findings
Key(x) == KeyOf[x.for]
SameEvent(e, f) == e.born = f.born /\ e.title = f.title
Reviewed(e) == e.status \in {"confirmed", "rejected"}

-----------------------------------------------------------------------------
RunType == [pc : Stages, by : Procs \union {NoProc}, result : ResultType, known : BOOLEAN,
            reviewed : SUBSET IdType, doomed : SUBSET IdType, open : SUBSET EventType]

At(pc, by, result, known, reviewed, doomed, open) ==
    [pc |-> pc, by |-> by, result |-> result, known |-> known, reviewed |-> reviewed,
     doomed |-> doomed, open |-> open]

\* A run moves to its next stage, with or without something it has read.
Goes(r, pc) == run' = [run EXCEPT ![r] =
    At(pc, @.by, @.result, @.known, @.reviewed, @.doomed, @.open)]
Ends(r, pc) == run' = [run EXCEPT ![r] = At(pc, @.by, NoResult, FALSE, {}, {}, {})]

Ended(r) == run[r].pc \in {"done", "failed"}
Writing(r) == run[r].pc \notin {"none", "queued", "done", "failed"}

TypeOK ==
    /\ meta \in BOOLEAN
    /\ findings \subseteq RowType
    /\ events \subseteq EventType
    /\ child \in [{"holders", "pools", "links"} -> 0..MaxRuns]
    /\ recorded \in 0..MaxRuns
    /\ verdict \in 0..MaxRuns
    /\ run \in [Runs -> RunType]
    /\ faults \in Nat
    /\ said \in [scored : SUBSET Findings, latest : [Keys -> 0..MaxRuns],
                 absent : [Keys -> BOOLEAN], quiet : [Keys -> BOOLEAN]]

Init ==
    /\ meta = FALSE
    /\ findings = {} /\ events = {}
    /\ child = [c \in {"holders", "pools", "links"} |-> 0]
    /\ recorded = 0 /\ verdict = 0
    /\ run = [r \in Runs |-> At("none", NoProc, NoResult, FALSE, {}, {}, {})]
    /\ faults = 0
    /\ said = [scored |-> {}, latest |-> [k \in Keys |-> 0],
               absent |-> [k \in Keys |-> FALSE], quiet |-> [k \in Keys |-> FALSE]]

-----------------------------------------------------------------------------
(* persistAnalysisResult: the queue of a process.                           *)

Submit(r, p, result) ==
    /\ run[r].pc = "none" /\ \A q \in Runs : q < r => run[q].pc # "none"
    /\ run' = [run EXCEPT ![r] = At("queued", p, result, FALSE, {}, {}, {})]
    /\ UNCHANGED <<rows, faults, said>>

\* Mutant: a failed run fails the queue behind it.
AfterSuccess(r) == \A q \in Runs : q < r /\ run[q].by = run[r].by => run[q].pc = "done"

\* Mutant: no queue.
AtOnce(r) == TRUE

\* The queued tail swallows rejection.
MyTurn(r) == \A q \in Runs : q < r /\ run[q].by = run[r].by => Ended(q)

-----------------------------------------------------------------------------
(* writeAnalysisResult.                                                     *)

\* The token row is read, then upserted: nulls do not replace what was known.
ReadToken(r) ==
    /\ run[r].pc = "queued" /\ MyTurn(r)
    /\ run' = [run EXCEPT ![r] = At("metadata", @.by, @.result, meta, {}, {}, {})]
    /\ UNCHANGED <<rows, faults, said>>

\* Mutant: what the probe returned replaces what was known.
Probed(r) == run[r].result.meta

Carried(r) == run[r].result.meta \/ run[r].known

\* Mutant: the verdict is stamped with the metadata.
VerdictFirst(r) == verdict' = r

UpsertVerdict(r) == UNCHANGED verdict

WriteToken(r) ==
    /\ run[r].pc = "metadata"
    /\ meta' = Carried(r)
    /\ UpsertVerdict(r)
    /\ Goes(r, "review")
    /\ UNCHANGED <<findings, events, child, recorded, faults, said>>

\* The findings transaction.  It reads the reviewed rows...
ReadReviewed(r) ==
    /\ run[r].pc = "review"
    /\ LET reviewed == {Id(x) : x \in {y \in findings : y.manual}}
       IN  run' = [run EXCEPT ![r] =
                     At("delete", @.by, @.result, @.known, reviewed, {}, {})]
    /\ UNCHANGED <<rows, faults, said>>

\* Mutant: rows are deleted by source alone.
AnyRow(x) == TRUE

Deletable(x) == ~x.manual

\* ...deletes the others, as the statement finds them: rows of its snapshot,
\* which it waits for if another transaction holds them, and which it checks
\* again once it has them...
BeginDelete(r) ==
    /\ run[r].pc = "delete"
    /\ LET doomed == {Id(x) : x \in {y \in findings : Deletable(y)}}
       IN  run' = [run EXCEPT ![r] =
                     At("lock", @.by, @.result, @.known, @.reviewed, doomed, {})]
    /\ UNCHANGED <<rows, faults, said>>

Locked(i) == \E q \in Runs : run[q].pc = "replace" /\ i \in run[q].doomed

FinishDelete(r) ==
    /\ run[r].pc = "lock"
    /\ \A i \in run[r].doomed : ~Locked(i)
    /\ LET doomed == {Id(x) : x \in {y \in findings : Deletable(y) /\ Id(y) \in run[r].doomed}}
       IN  run' = [run EXCEPT ![r] =
                     At("replace", @.by, @.result, @.known, @.reviewed, doomed, {})]
    /\ UNCHANGED <<rows, faults, said>>

ProducedKeys(r) == {KeyOf[f] : f \in run[r].result.produced}

\* Mutant: any category may retire a row.
Unproduced(r, k) == k \notin ProducedKeys(r)

\* A finding is missing from a list that would have held it.
Lapsed(r, k) == k \notin ProducedKeys(r) /\ CategoryOf[k] \in run[r].result.complete

\* Mutant: firing again does not clear the retirement.
StaysRetired(x, r, last) ==
    IF Id(x) \notin run[r].reviewed THEN x
    ELSE IF Key(x) \in ProducedKeys(r) THEN [x EXCEPT !.shows = last[Key(x)], !.seen = r]
    ELSE [x EXCEPT !.retired = @ \/ Lapsed(r, Key(x))]

\* A reviewed row is refreshed by every finding of its key, so the last one
\* stands; without any it is retired, if its category could be read.
Refreshed(x, r, last) ==
    IF Id(x) \notin run[r].reviewed THEN x
    ELSE IF Key(x) \in ProducedKeys(r)
         THEN [x EXCEPT !.shows = last[Key(x)], !.seen = r, !.retired = FALSE]
    ELSE [x EXCEPT !.retired = @ \/ Lapsed(r, Key(x))]

\* Findings no reviewed row stands for.
Fresh(r) == {f \in run[r].result.produced : \A i \in run[r].reviewed : KeyOf[i[2]] # KeyOf[f]}

\* ...and refreshes, retires and creates rows.  last: of each key, the finding
\* that comes last in the scorer's order.
ReplaceFindings(r, last) ==
    /\ run[r].pc = "replace"
    /\ \A k \in ProducedKeys(r) : last[k] \in run[r].result.produced /\ KeyOf[last[k]] = k
    /\ findings' = {Refreshed(x, r, last) : x \in {y \in findings : Id(y) \notin run[r].doomed}}
                     \union {[born |-> r, for |-> f, shows |-> f, seen |-> r, manual |-> FALSE,
                              retired |-> FALSE] : f \in Fresh(r)}
    /\ said' = [scored |-> run[r].result.produced,
                latest |-> [k \in Keys |-> IF k \in ProducedKeys(r) THEN r ELSE said.latest[k]],
                absent |-> [k \in Keys |->
                              k \notin ProducedKeys(r)
                                /\ (said.absent[k] \/ CategoryOf[k] \in run[r].result.complete)],
                quiet  |-> said.quiet]
    /\ Goes(r, "holders")
    /\ UNCHANGED <<meta, events, child, recorded, verdict, faults>>

\* The holders, the pools and the cross-chain links are replaced one
\* transaction after the other.
Replace(r, c, next) ==
    /\ run[r].pc = c
    /\ child' = [child EXCEPT ![c] = r]
    /\ Goes(r, next)
    /\ UNCHANGED <<meta, findings, events, recorded, verdict, faults, said>>

\* persistAutomaticRiskEvents reads the token's events...
ReadEvents(r) ==
    /\ run[r].pc = "events"
    /\ run' = [run EXCEPT ![r] = At("refresh", @.by, @.result, @.known, {}, {}, events)]
    /\ UNCHANGED <<rows, faults, said>>

LoudKeys(r) == {KeyOf[f] : f \in run[r].result.loud}

\* Where a title is duplicated the oldest row is the one that is refreshed.
Oldest(e, open) == \A f \in open : f.title = e.title => e.born <= f.born

\* Mutant: one category of the class is enough.
SomeRead(r, k) == \E c \in Categories : ClassOf[c] = ClassOf[CategoryOf[k]]
                                          /\ c \in run[r].result.complete

\* A class is closed only if every category that can produce it was read.  The
\* class of a title is that of its key: a name has one category, and the findings
\* that open events carry evidence, so requireEvidence moves none of them.
AllRead(r, k) == \A c \in Categories : ClassOf[c] = ClassOf[CategoryOf[k]]
                                         => c \in run[r].result.complete

\* Mutant: reviewed events are refreshed like the others.
RefreshAny(r, e, now) ==
    IF e.title \in LoudKeys(r)
    THEN IF ~Oldest(e, run[r].open) THEN now ELSE [now EXCEPT !.proof = r, !.resolved = FALSE]
    ELSE [now EXCEPT !.resolved = @ \/ (~e.resolved /\ AllRead(r, e.title))]

\* What the run writes to the row it read as e.
EventAfter(r, e, now) ==
    IF e.title \in LoudKeys(r)
    THEN IF ~Oldest(e, run[r].open) THEN now
         ELSE IF Reviewed(e) THEN [now EXCEPT !.resolved = @ /\ ~e.resolved]
         ELSE [now EXCEPT !.proof = r, !.resolved = FALSE]
    ELSE [now EXCEPT !.resolved = @ \/ (~e.resolved /\ AllRead(r, e.title))]

\* Mutant: every loud finding opens an event.
EveryTitle(r) == LoudKeys(r)

NewTitles(r) == {k \in LoudKeys(r) : \A e \in run[r].open : e.title # k}

\* Mutant: the column's default is left to decide.
DefaultStatus == "none"

CreatedStatus == "pending"

\* ...and writes what follows from them, in one transaction.
WriteEvents(r) ==
    LET open == run[r].open
        read == {e \in events : \E f \in open : SameEvent(e, f)}
    IN  /\ run[r].pc = "refresh"
        /\ events' = (events \ read)
             \union {EventAfter(r, CHOOSE f \in open : SameEvent(e, f), e) : e \in read}
             \union {[born |-> r, title |-> k, status |-> CreatedStatus, resolved |-> FALSE,
                      proof |-> r] : k \in NewTitles(r)}
        /\ said' = [said EXCEPT !.quiet = [k \in Keys |->
                      k \notin LoudKeys(r)
                        /\ (said.quiet[k] \/ CategoryOf[k] \in run[r].result.complete)]]
        /\ run' = [run EXCEPT ![r] = At("links", @.by, @.result, @.known, {}, {}, {})]
        /\ UNCHANGED <<meta, findings, child, recorded, verdict, faults>>

RecordRun(r) ==
    /\ run[r].pc = "record"
    /\ recorded' = r
    /\ Goes(r, "verdict")
    /\ UNCHANGED <<meta, findings, events, child, verdict, faults, said>>

WriteVerdict(r) ==
    /\ run[r].pc = "verdict"
    /\ verdict' = r
    /\ Ends(r, "done")
    /\ UNCHANGED <<meta, findings, events, child, recorded, faults, said>>

Write(r) ==
    \/ ReadToken(r) \/ WriteToken(r)
    \/ ReadReviewed(r) \/ BeginDelete(r) \/ FinishDelete(r)
    \/ \E last \in [Keys -> Findings] : ReplaceFindings(r, last)
    \/ Replace(r, "holders", "pools") \/ Replace(r, "pools", "events")
    \/ ReadEvents(r) \/ WriteEvents(r)
    \/ Replace(r, "links", "record")
    \/ RecordRun(r) \/ WriteVerdict(r)

\* A statement throws: its transaction is rolled back, the run rejects.
Fail(r) ==
    /\ Writing(r) /\ faults < MaxFaults
    /\ faults' = faults + 1
    /\ Ends(r, "failed")
    /\ UNCHANGED <<rows, said>>

\* A process dies, and its queue with it.
Kill(p) ==
    /\ \E r \in Runs : run[r].by = p /\ Writing(r)
    /\ faults < MaxFaults /\ faults' = faults + 1
    /\ run' = [r \in Runs |-> IF run[r].by = p /\ ~Ended(r)
                              THEN At("failed", p, NoResult, FALSE, {}, {}, {}) ELSE run[r]]
    /\ UNCHANGED <<rows, said>>

-----------------------------------------------------------------------------
(* The reviewers.                                                           *)

MayReview == \A r \in Runs : run[r].pc \in AdminPoints

\* POST /admin/findings/:id/override.  A row another transaction has deleted
\* but not committed makes the update wait, and then find nothing.
Override(x) ==
    /\ MayReview /\ ~x.manual /\ ~Locked(Id(x))
    /\ findings' = (findings \ {x}) \union {[x EXCEPT !.manual = TRUE]}
    /\ UNCHANGED <<meta, events, child, recorded, verdict, run, faults, said>>

\* POST /admin/events/:id/review.
ReviewEvent(e, status) ==
    /\ MayReview /\ e.status # status
    /\ events' = (events \ {e}) \union {[e EXCEPT !.status = status]}
    /\ UNCHANGED <<meta, findings, child, recorded, verdict, run, faults, said>>

Next ==
    \/ \E r \in Runs, p \in Procs, x \in Results : Submit(r, p, x)
    \/ \E r \in Runs : Write(r) \/ Fail(r)
    \/ \E p \in Procs : Kill(p)
    \/ \E x \in findings : Override(x)
    \/ \E e \in events, s \in Statuses : ReviewEvent(e, s)

Spec == Init /\ [][Next]_vars

\* A statement that was issued is answered or throws.
FairSpec == Spec /\ \A r \in Runs : WF_vars(Write(r))

-----------------------------------------------------------------------------
(* Properties.                                                              *)

\* "Reviewed rows survive": no analysis, failure or race between processes
\* removes a reviewer's decision.
DecisionsSurvive ==
    [][\A x \in findings : x.manual => \E y \in findings' : Id(y) = Id(x) /\ y.manual]_vars

\* "A measurement that no longer holds" is marked, one that does hold is not:
\* whatever runs and reviewers raced, the findings of the last committed run
\* are each shown by a row of their key that is not retired.
ScoredIsShown ==
    \A f \in said.scored : \E x \in findings : Key(x) = KeyOf[f] /\ ~x.retired

\* "One failed run does not fail the next": every queued write is carried out
\* or rejected.
QueueDrains == \A r \in Runs : run[r].pc = "queued" ~> Ended(r)

\* A reviewed row shows what the last run that produced its finding measured,
\* and is retired exactly if a later one could tell that it is gone.
ReviewedRowsAreCurrent ==
    \A x \in findings : x.manual =>
        x.seen = said.latest[Key(x)] /\ (x.retired <=> said.absent[Key(x)])

\* "A finding with no row can never be reviewed or overridden": every finding
\* the last committed run scored is shown by a row.
EveryFindingHasRow == \A f \in said.scored : \E x \in findings : x.shows = f

\* "The feed keeps one row per distinct finding."
OneEventPerTitle == \A e, f \in events : e.title = f.title => e = f

\* "Closing an event on it would report an outage as the risk having ended":
\* an event is resolved only if the last run that could tell found it quiet.
ResolvedOnEvidence == \A e \in events : e.resolved => said.quiet[e.title]

\* "Rewriting the detail or evidence underneath a reviewer's decision would
\* leave it standing on proof nobody looked at."
ReviewStandsOnItsProof ==
    [][\A e \in events : Reviewed(e) =>
          \E f \in events' : SameEvent(e, f) /\ f.proof = e.proof]_vars

\* The grade and the freshness stamp "only ever describe a run whose children
\* all landed": what is stored is of that run, or of a later one.
VerdictOverLandedChildren ==
    verdict <= recorded /\ \A c \in DOMAIN child : verdict <= child[c]

\* "Never wipe known metadata with nulls from a partial or failed probe."
MetadataKept == [][meta => meta']_vars

=============================================================================
