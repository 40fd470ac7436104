---------------------------- MODULE CctpHistory -----------------------------
(***************************************************************************)
(* The backfill of one source of CCTP burns: the walk of its history, page *)
(* by page and newest first, and the cursor it resumes from.               *)
(*                                                                         *)
(*   "evm"     apps/worker/src/evmCctpBackfill.ts (scanOne), and           *)
(*             scripts/backfill-cctp.mjs, which an operator runs by hand   *)
(*             and which writes the same cursor;                           *)
(*   "solana"  apps/worker/src/solanaCctpIndexer.ts, which re-reads the    *)
(*             newest signatures on every run as well, asks Circle about   *)
(*             each, and retires those whose answer is final.              *)
(*                                                                         *)
(* Transactions are numbered by age, 1 the oldest.  Of a burn's row only   *)
(* its existence matters here; its status is BridgeLedger's.               *)
(***************************************************************************)
EXTENDS Integers, FiniteSets, FiniteSetsExt

CONSTANTS
    Scripts,    \* the runs of scripts/backfill-cctp.mjs
    Old,        \* how many transactions there are when the walk begins
    MaxTip,     \* bound: how many there ever are
    Page,       \* transactions of a page of history
    Recent,     \* newest signatures read by every Solana run
    Memory,     \* RESOLVED_MEMORY
    MaxFaults,  \* bound: answers that fail and runs that are cut short
    Kinds       \* what the transactions may be

Txs == 1..MaxTip
History == 1..Old
Scanners == {"worker"} \union Scripts
Kind == {"burn", "other", "failed"}

ASSUME HistoryAssumption ==
    /\ Old \in Nat \ {0} /\ MaxTip \in Nat /\ Old <= MaxTip
    /\ Page \in Nat \ {0} /\ Recent \in Nat /\ Memory \in Nat /\ MaxFaults \in Nat
    /\ Kinds \subseteq [Txs -> Kind]
    /\ "worker" \notin Scripts

VARIABLES
    source,   \* "evm" or "solana"
    kind,     \* an Arc-bound burn, any other transaction, or a failed one
    tip,      \* the newest transaction
    indexed,  \* the burns Circle has indexed
    age,      \* by the ledger's clock: not stamped yet, within RESOLVE_GRACE_MS, past it
    rows,     \* transactions with a BridgeTransferRow
    saved,    \* the IndexerCursor row; cursor 0 is null
    scan,     \* the run of each scanner
    heard,    \* history variable: signatures Circle has answered about, or that failed
    faults

world == <<source, kind, tip, indexed, age>>
vars == <<source, kind, tip, indexed, age, rows, saved, scan, heard, faults>>

Idle == [at |-> "idle", cursor |-> 0, page |-> {}, shown |-> {}, timed |-> {},
         todo |-> {}, unread |-> {}, retired |-> {}, next |-> 0]

ScanType ==
    [at : {"idle", "fetch", "work", "done"}, cursor : 0..MaxTip, page : SUBSET Txs,
     shown : SUBSET Txs, timed : SUBSET Txs, todo : SUBSET Txs, unread : SUBSET Txs,
     retired : SUBSET Txs, next : 0..MaxTip]

SavedType == [cursor : 0..MaxTip, exhausted : BOOLEAN, resolved : SUBSET Txs]

TypeOK ==
    /\ source \in {"evm", "solana"} /\ kind \in Kinds
    /\ tip \in Old..MaxTip
    /\ indexed \in SUBSET Txs
    /\ age \in [Txs -> {"untimed", "young", "old"}]
    /\ rows \in SUBSET Txs
    /\ saved \in SavedType
    /\ scan \in [Scanners -> ScanType]
    /\ heard \in SUBSET Txs
    /\ faults \in 0..MaxFaults

Burns == {i \in Txs : kind[i] = "burn"}

\* No cursor yet; or, on an EVM source, one that the rule of low-yield pages
\* left behind: exhausted, with pages to go.
Init ==
    /\ source \in {"evm", "solana"} /\ kind \in Kinds
    /\ tip = Old
    /\ \E settled \in (IF source = "evm" THEN {Old} ELSE 0..Old) :
          /\ age = [i \in Txs |-> IF i <= settled THEN "old" ELSE "untimed"]
          /\ indexed = {i \in Burns : i <= settled}
    /\ \/ /\ saved = [cursor |-> 0, exhausted |-> FALSE, resolved |-> {}]
          /\ rows = {}
       \/ /\ source = "evm"
          /\ \E c \in 2..Old :
                /\ saved = [cursor |-> c, exhausted |-> TRUE, resolved |-> {}]
                /\ rows = {i \in Burns : i \in c..Old}
    /\ scan = [p \in Scanners |-> Idle]
    /\ heard = {} /\ faults = 0

-----------------------------------------------------------------------------
(* The source and Circle.  Circle indexes a burn well within the time after *)
(* which the indexer takes "no message" as final.                           *)

Arrive ==
    /\ tip < MaxTip /\ tip' = tip + 1
    /\ UNCHANGED <<source, kind, indexed, age, rows, saved, scan, heard, faults>>

Ripen(i) ==
    /\ \/ age[i] = "untimed" /\ age' = [age EXCEPT ![i] = "young"]
       \/ /\ age[i] = "young" /\ (i \in Burns => i \in indexed)
          /\ \A j \in 1..i - 1 : age[j] = "old"
          /\ age' = [age EXCEPT ![i] = "old"]
    /\ UNCHANGED <<source, kind, tip, indexed, rows, saved, scan, heard, faults>>

CircleIndexes(i) ==
    /\ i \in Burns \ indexed /\ indexed' = indexed \union {i}
    /\ UNCHANGED <<source, kind, tip, age, rows, saved, scan, heard, faults>>

\* A page: the newest transactions below a cursor, or at all.
Top(cursor) == IF cursor = 0 THEN tip ELSE cursor - 1
Bottom(cursor) == IF Top(cursor) > Page THEN Top(cursor) - Page + 1 ELSE 1
PageAt(cursor) == Bottom(cursor)..Top(cursor)

-----------------------------------------------------------------------------
(* A scanner starts from the stored cursor.  A run may be cut short before  *)
(* it has saved anything: a request or a statement throws, or the process   *)
(* is killed.                                                               *)

\* Mutant: the flag alone stops a source.
ExhaustedFlag == saved.exhausted

Exhausted == saved.exhausted /\ saved.cursor = 0

Start(p) ==
    /\ scan[p].at = "idle"
    /\ p = "worker" => ~(source = "evm" /\ Exhausted)
    /\ p \in Scripts => source = "evm"
    /\ scan' = [scan EXCEPT ![p] = [Idle EXCEPT !.at = "fetch", !.cursor = saved.cursor]]
    /\ UNCHANGED <<world, rows, saved, heard, faults>>

\* The worker will start over; a script ends.
Ended(p) == [Idle EXCEPT !.at = IF p = "worker" THEN "idle" ELSE "done"]

CutShort(p) ==
    /\ scan[p].at \in {"fetch", "work"}
    /\ faults < MaxFaults /\ faults' = faults + 1
    /\ scan' = [scan EXCEPT ![p] = Ended(p)]
    /\ UNCHANGED <<world, rows, saved, heard>>

-----------------------------------------------------------------------------
(* An EVM source: scanOne, and scan of the script.                          *)

\* The explorer names the next page, unless this one ends the history.
FetchPage(p) ==
    LET c == scan[p].cursor IN
    /\ source = "evm" /\ scan[p].at = "fetch"
    /\ scan' = [scan EXCEPT ![p] =
         [@ EXCEPT !.at = "work", !.page = PageAt(c), !.todo = PageAt(c) \intersect Burns,
                   !.next = IF Bottom(c) > 1 THEN Bottom(c) ELSE 0]]
    /\ UNCHANGED <<world, rows, saved, heard, faults>>

StoreBurn(p) ==
    /\ source = "evm" /\ scan[p].at = "work"
    /\ \E i \in scan[p].todo :
          /\ \A j \in scan[p].todo : j <= i
          /\ rows' = rows \union {i}
          /\ scan' = [scan EXCEPT ![p].todo = @ \ {i}]
    /\ UNCHANGED <<world, saved, heard, faults>>

\* The script goes on with the page it has the cursor of in memory, unless it
\* has read its fill (CCTP_BACKFILL_MAX_PAGES, or 20 pages without a burn).
SavePage(p) ==
    LET next == scan[p].next
        goOn == [Idle EXCEPT !.at = "fetch", !.cursor = next]
    IN
    /\ source = "evm" /\ scan[p].at = "work" /\ scan[p].todo = {}
    /\ saved' = [saved EXCEPT !.cursor = next, !.exhausted = next = 0]
    /\ \/ scan' = [scan EXCEPT ![p] = Ended(p)]
       \/ p \in Scripts /\ next # 0 /\ scan' = [scan EXCEPT ![p] = goOn]
    /\ UNCHANGED <<world, rows, heard, faults>>

-----------------------------------------------------------------------------
(* The Solana source: runSolanaCctpIndexer.                                 *)

\* Mutant: the page is taken not to be empty.
LastOfPage(c) == IF PageAt(c) = {} THEN -1 ELSE Bottom(c)

\* historical.at(-1)?.signature ?? before
NextBefore(c) == IF PageAt(c) = {} THEN c ELSE Bottom(c)

\* The newest signatures and a page of history, less those already resolved.
ListSignatures ==
    LET c == scan["worker"].cursor
        shown == {i \in 1..tip : i > tip - Recent} \union PageAt(c)
    IN
    /\ source = "solana" /\ scan["worker"].at = "fetch"
    /\ scan' = [scan EXCEPT !["worker"] =
         [@ EXCEPT !.at = "work", !.page = PageAt(c), !.shown = shown,
                   !.timed = {i \in shown : age[i] # "untimed"},
                   !.todo = shown \ saved.resolved,
                   !.next = NextBefore(c)]]
    /\ UNCHANGED <<world, rows, saved, heard, faults>>

\* Mutant: a signature without a time counts as one of 1970.
CanRetireUntimed(i) == kind[i] = "failed" \/ i \notin scan["worker"].timed \/ age[i] = "old"

\* canRetireSignature: the time is the one the listing gave.
CanRetire(i) == kind[i] = "failed" \/ (i \in scan["worker"].timed /\ age[i] = "old")

\* Circle did not answer, or not with 200 or 404.
Unread(i) ==
    /\ kind[i] # "failed" /\ faults < MaxFaults /\ faults' = faults + 1
    /\ scan' = [scan EXCEPT !["worker"].todo = @ \ {i}, !["worker"].unread = @ \union {i}]
    /\ UNCHANGED <<rows, heard>>

Ingested(i) ==
    /\ i \in indexed /\ rows' = rows \union {i} /\ heard' = heard \union {i}
    /\ scan' = [scan EXCEPT !["worker"].todo = @ \ {i}]
    /\ UNCHANGED faults

\* No message for Arc, or a failed transaction.
Skipped(i) ==
    /\ i \notin indexed /\ heard' = heard \union {i}
    /\ scan' = [scan EXCEPT !["worker"].todo = @ \ {i},
                            !["worker"].retired = IF CanRetire(i) THEN @ \union {i} ELSE @]
    /\ UNCHANGED <<rows, faults>>

\* The lanes take the signatures in order and finish in any.
AskCircle(i) ==
    /\ source = "solana" /\ scan["worker"].at = "work" /\ i \in scan["worker"].todo
    /\ Unread(i) \/ Ingested(i) \/ Skipped(i)
    /\ UNCHANGED <<world, saved>>

\* Mutant: the cursor moves whatever was read.
Never == FALSE

\* historyIncomplete
HistoryIncomplete == scan["worker"].page \intersect scan["worker"].unread # {}

\* The last Memory of the resolved signatures.  Those of this run are moved to
\* the end first, so that the others are evicted before any of them.
Kept(resolved) ==
    IF Cardinality(resolved) <= Memory THEN {resolved}
    ELSE {R \in kSubset(Memory, resolved) :
             LET shown == resolved \intersect scan["worker"].shown
             IN  R \subseteq shown \/ shown \subseteq R}

SaveSignatures ==
    LET run == scan["worker"] IN
    /\ source = "solana" /\ run.at = "work" /\ run.todo = {}
    /\ \E kept \in Kept(saved.resolved \union run.retired) :
          saved' = [cursor |-> IF HistoryIncomplete THEN run.cursor ELSE run.next,
                    exhausted |-> FALSE, resolved |-> kept]
    /\ scan' = [scan EXCEPT !["worker"] = Ended("worker")]
    /\ UNCHANGED <<world, rows, heard, faults>>

-----------------------------------------------------------------------------

Evm(p) == FetchPage(p) \/ StoreBurn(p) \/ SavePage(p)

Solana == ListSignatures \/ SaveSignatures \/ \E i \in Txs : AskCircle(i)

Worker == Start("worker") \/ CutShort("worker") \/ Evm("worker") \/ Solana

World == source = "solana" /\ \E i \in 1..tip : Ripen(i) \/ CircleIndexes(i)

Next ==
    \/ Arrive
    \/ World
    \/ Worker
    \/ \E p \in Scripts : Start(p) \/ CutShort(p) \/ Evm(p)

\* The worker's loop re-arms its timer after every run, and each request and
\* statement has an end; nobody need run the script.
Spec == Init /\ [][Next]_vars
FairSpec == Spec /\ WF_vars(Worker)

-----------------------------------------------------------------------------
(* What the walk promises.                                                  *)

Behind(i) == IF saved.cursor = 0 THEN saved.exhausted ELSE i >= saved.cursor

Passed == {i \in History : Behind(i)}

Answered == {i \in History : IF source = "evm" THEN i \in Burns => i \in rows ELSE i \in heard}

\* The cursor passes no transaction that was not answered for: on an EVM source
\* that its burns have rows, on Solana that Circle said something of it; under
\* failures, kills, and a script that drives the same cursor
\* (evmCctpBackfill.ts 47-54, solanaCctpIndexer.ts 144-147).
Promise == INSTANCE PageCursor WITH History <- History, answered <- Answered, passed <- Passed

CursorPromise == Promise!Spec

\* Retiring is permanent (solanaCctpIndexer.ts 91-98): no burn is ever retired.
NoBurnRetired ==
    source = "solana" =>
        Burns \intersect (saved.resolved \union scan["worker"].retired) = {}

\* Every burn that was there to be found when the walk began ends up with a
\* row: all of an EVM source, whatever flag an older version left, and what
\* Circle had indexed of Solana.
HistoryIndexed ==
    \A i \in History : (i \in Burns /\ (source = "evm" \/ i \in indexed)) => <>(i \in rows)

\* What the comment at solanaCctpIndexer.ts 84-88 says: a signature Circle has
\* no message for yet "has to be asked again", so a burn without a row is still
\* ahead of the cursor or among the signatures every run reads.
AskedAgain ==
    \A i \in Burns : i \in Passed /\ i \notin rows => i > tip - Recent

=============================================================================
