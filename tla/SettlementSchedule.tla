------------------------- MODULE SettlementSchedule -------------------------
(***************************************************************************)
(* Which rows of the ledger a settlement run asks Circle about             *)
(* (apps/worker/src/bridgeSettlementIndexer.ts): at most Batch of the      *)
(* unconfirmed ones, by their age and by how long they were left alone.    *)
(* lastCheckedAt is @updatedAt, so whoever writes a row moves it: the check *)
(* itself, and the feed with every refresh, for the rows it shows.  What a *)
(* check reads and writes is in BridgeLedger, which lets a run select any  *)
(* unconfirmed rows.                                                        *)
(***************************************************************************)
EXTENDS Integers, FiniteSets, Sequences, SequencesExt

CONSTANTS
    Burns,
    Fed,            \* those whose rows the feed writes with every refresh
    Batch,          \* 25
    MaxFaults       \* bound: runs that reject, restarts

VARIABLES
    age,            \* of the burn, by observedAt
    order,          \* the unconfirmed rows, by lastCheckedAt
    since,          \* of each of them, what has passed since lastCheckedAt
    confirmed,      \* the other rows
    lanes,          \* rows the running run, and rejected ones, have yet to check
    running,        \* the loop awaits a run
    faults

vars == <<age, order, since, confirmed, lanes, running, faults>>

Ages == {"day", "week", "old"}

\* Less than an hour, up to a day, a day or more.
Spans == 0 .. 2
Stored == Range(order) \union confirmed

Init ==
    /\ age = [b \in Burns |-> "day"] /\ order = <<>> /\ since = [b \in Burns |-> 0]
    /\ confirmed = {} /\ lanes = [run |-> {}, stray |-> {}] /\ running = FALSE
    /\ faults = 0

Fails == faults < MaxFaults /\ faults' = faults + 1

-----------------------------------------------------------------------------
(* The clock and the other writers.                                         *)

\* A new row: of today from the feed or the Solana indexer, of any day from a
\* backfill.
Store(b, a) ==
    /\ b \notin Stored
    /\ order' = Append(order, b) /\ age' = [age EXCEPT ![b] = a]
    /\ UNCHANGED <<since, confirmed, lanes, running, faults>>

Older(b) ==
    /\ b \in Range(order) /\ age[b] # "old"
    /\ age' = [age EXCEPT ![b] = IF @ = "day" THEN "week" ELSE "old"]
    /\ UNCHANGED <<order, since, confirmed, lanes, running, faults>>

\* Rows that were left alone for longer are ahead in the order, and a row is
\* never left alone for longer than its burn is old.
TimePasses(b) ==
    /\ b \in Range(order) /\ since[b] < 2
    /\ \A i, j \in DOMAIN order : i < j /\ order[j] = b => since[order[i]] > since[b]
    /\ since[b] = 1 => age[b] # "day"
    /\ since' = [since EXCEPT ![b] = @ + 1]
    /\ UNCHANGED <<age, order, confirmed, lanes, running, faults>>

\* The order without a row, which is in it once.
Without(b) ==
    IF b \in Range(order) THEN RemoveAt(order, CHOOSE i \in DOMAIN order : order[i] = b)
    ELSE order

\* Any update of an unconfirmed row.
Touch(b) ==
    /\ order' = Append(Without(b), b)
    /\ since' = [since EXCEPT ![b] = 0]

\* Those of the newest burns that the feed upserts; an upsert with an empty
\* update, as the backfills have, moves nothing.
FeedWrites(b) ==
    /\ b \in Fed \intersect Range(order)
    /\ Touch(b)
    /\ UNCHANGED <<age, confirmed, lanes, running, faults>>

-----------------------------------------------------------------------------
(* A run.                                                                   *)

\* Burns of a day are asked about always, of a week by the hour, others by the
\* day.
Due(b) ==
    \/ age[b] = "day"
    \/ age[b] = "week" /\ since[b] >= 1
    \/ since[b] = 2

DueAt == {i \in DOMAIN order : Due(order[i])}

\* Mutant: the rows seen last are asked about first.
LatestFirst == {order[i] : i \in {j \in DueAt : Cardinality({k \in DueAt : k > j}) < Batch}}

\* The rows that are due, those left alone for longest first.
Selection == {order[i] : i \in {j \in DueAt : Cardinality({k \in DueAt : k < j}) < Batch}}

Select ==
    /\ ~running
    /\ running' = TRUE /\ lanes' = [lanes EXCEPT !.run = Selection]
    /\ UNCHANGED <<age, order, since, confirmed, faults>>

Outcomes == {"minted", "pending", "noted"}

\* checkRow with one of its updates: the mint, another status, or only a note.  A
\* lane that a rejected run left behind may take a confirmation back.
Check(k, b, outcome) ==
    /\ b \in lanes[k]
    /\ lanes' = [lanes EXCEPT ![k] = @ \ {b}]
    /\ IF outcome = "minted" \/ (outcome = "noted" /\ b \in confirmed)
       THEN /\ confirmed' = confirmed \union {b}
            /\ order' = Without(b)
            /\ since' = [since EXCEPT ![b] = 0]
       ELSE confirmed' = confirmed \ {b} /\ Touch(b)
    /\ UNCHANGED <<age, running, faults>>

\* The update and the note of the catch both throw: the row stays where it is;
\* the run rejects, and its other lanes go on.
CheckThrows(k, b) ==
    /\ b \in lanes[k] /\ Fails
    /\ IF k = "run"
       THEN /\ running' = FALSE
            /\ lanes' = [run |-> {}, stray |-> lanes.stray \union (lanes.run \ {b})]
       ELSE UNCHANGED running /\ lanes' = [lanes EXCEPT ![k] = @ \ {b}]
    /\ UNCHANGED <<age, order, since, confirmed>>

\* The health row is written, or its write throws.
EndRun ==
    /\ running /\ lanes.run = {}
    /\ running' = FALSE
    /\ UNCHANGED <<age, order, since, confirmed, lanes, faults>>

WorkerRestarts ==
    /\ Fails /\ running' = FALSE /\ lanes' = [run |-> {}, stray |-> {}]
    /\ UNCHANGED <<age, order, since, confirmed>>

CheckAny(k, b) == \E outcome \in Outcomes : Check(k, b, outcome)

Next ==
    \/ \E b \in Burns :
          \/ \E a \in Ages : Store(b, a)
          \/ Older(b) \/ TimePasses(b) \/ FeedWrites(b)
          \/ \E k \in {"run", "stray"} : CheckAny(k, b) \/ CheckThrows(k, b)
    \/ Select \/ EndRun \/ WorkerRestarts

Spec == Init /\ [][Next]_vars

\* The loop runs for ever, every check ends, and time passes.
FairSpec ==
    /\ Spec
    /\ WF_vars(Select) /\ WF_vars(EndRun)
    /\ \A b \in Burns : WF_vars(CheckAny("run", b)) /\ WF_vars(TimePasses(b))
-----------------------------------------------------------------------------
(* Properties.                                                              *)

\* Every variable has its type; an unconfirmed row is in the order once.
TypeOK ==
    /\ age \in [Burns -> Ages] /\ since \in [Burns -> Spans]
    /\ order \in Seq(Burns \ confirmed) /\ confirmed \in SUBSET Burns
    /\ \A i, j \in DOMAIN order : order[i] = order[j] => i = j
    /\ lanes \in [run : SUBSET Burns, stray : SUBSET Burns] /\ running \in BOOLEAN

\* "A fresh burn waits hours behind history that cannot move" (lines 106-108)
\* without the classes; with them and the limit, no row may be left out for ever:
\* one that nobody else writes is asked about again and again until it is
\* confirmed, whatever its age and however often the feed moves others.
NoRowForgotten ==
    \A b \in Burns \ Fed : b \in Stored ~> (since[b] = 0 \/ b \in confirmed)
=============================================================================
