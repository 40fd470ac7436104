--------------------------- MODULE HolderIndexer ---------------------------
(***************************************************************************)
(* The observed-Arc holder indexer of the worker process                   *)
(* (apps/worker/src/observedArcHolderIndexer.ts).                          *)
(*                                                                         *)
(* Chain 5042 has no explorer, so the worker rebuilds every token's holder *)
(* set from Transfer logs: it scans from where its cursor stands, folds    *)
(* the deltas onto the rows it stored, compares the top of the fold with   *)
(* balanceOf at the latest block, stores the rows and the published        *)
(* holderCount in one transaction, and then, in a second write, moves the  *)
(* cursor.  The chain grows under it, every RPC may fail, and the process  *)
(* may be killed between any two of these steps.                           *)
(*                                                                         *)
(* A token's history is chosen in Init and revealed block by block, as     *)
(* cumulative sums, so "the logs of blocks i..j" is a difference.          *)
(***************************************************************************)
EXTENDS Integers, FiniteSets

CONSTANTS
    Tokens,         \* the tokens of chain 5042 in the inventory
    Addrs,          \* addresses other than zero; numbers, as they break ties
    Histories,      \* the histories a token may turn out to have
    MaxBlock,       \* bound: the highest block that is ever mined
    LogRange,       \* MAX_LOG_RANGE: blocks in one eth_getLogs window
    RunRange,       \* MAX_RANGE_PER_RUN: blocks one attempt may scan
    BatchSize,      \* TOKENS_PER_RUN
    VerifyTop,      \* 5 in the code: holders compared with balanceOf
    FallbackLimit,  \* BALANCE_OF_FALLBACK_LIMIT
    MaxFaults,      \* bound: RPC and database failures, and kills, in all
    FaultPoints,    \* the program points at which an attempt may be cut short
    NoToken         \* no token is being indexed

Blocks == 0..MaxBlock

\* A stored holder set: an address without a row has balance 0.
RowSet == [Addrs -> Nat]
NoRows == [a \in Addrs |-> 0]

\* deploy: the first block with code.  bal: balanceOf at the end of a block.
\* logged: the running sum of the Transfer events up to the end of a block.
IsHistory(h) ==
    /\ h.deploy \in Nat
    /\ h.bal \in [Blocks -> RowSet]
    /\ h.logged \in [Blocks -> [Addrs -> Int]]
    /\ \A b \in Blocks : b < h.deploy => h.bal[b] = NoRows /\ h.logged[b] = NoRows

ASSUME ParameterAssumption ==
    /\ Addrs \subseteq Nat
    /\ MaxBlock \in Nat \ {0}
    /\ LogRange \in Nat \ {0} /\ RunRange \in Nat \ {0} /\ BatchSize \in Nat \ {0}
    /\ VerifyTop \in Nat /\ FallbackLimit \in Nat /\ MaxFaults \in Nat

ASSUME TokensAssumption ==
    IsFiniteSet(Tokens) /\ IsFiniteSet(Addrs) /\ NoToken \notin Tokens

ASSUME HistoryAssumption == \A h \in Histories : IsHistory(h)

Points == {"pick", "scan", "verify", "fallback", "commit", "cursor"}

ASSUME FaultAssumption == FaultPoints \subseteq Points

VARIABLES
    head,         \* the latest block of the chain
    ledger,       \* each token's history, of which blocks 0..head have happened
    rows,         \* TokenHolder rows of each token
    holderCount,  \* Token.holderCount, -1 while it is null
    countAt,      \* history variable: the block holderCount was computed for
    deployKnown,  \* whether Token.deployBlock is stored
    cursor,       \* IndexerCursor: lastBlock and the CursorMeta
    turn,         \* tokens by IndexerCursor.lastAt: 1 is the least recent
    healthy,      \* DataSourceHealth.healthy of the index
    pc,           \* where the single indexing loop stands
    run,          \* runObservedArcHolderIndexer: the batch and its counters
    tok,          \* the token indexToken works on
    scan,         \* indexToken's local variables
    faults        \* failures so far

store == <<rows, holderCount, countAt, deployKnown, cursor, turn, healthy>>
vars == <<head, ledger, store, pc, run, tok, scan, faults>>

-----------------------------------------------------------------------------
(* Pure helpers.                                                            *)

Holders(f) == {a \in Addrs : f[a] > 0}

\* rankHolders drops what is not positive.
Positive(f) == [a \in Addrs |-> IF f[a] > 0 THEN f[a] ELSE 0]

\* The order of rankHolders: larger balances first, then by address.
Outranks(f, a, b) == f[a] > f[b] \/ (f[a] = f[b] /\ a < b)
Place(f, a) == Cardinality({b \in Holders(f) : Outranks(f, b, a)})
Top(f, n) == {a \in Holders(f) : Place(f, a) < n}

\* What eth_getLogs over i..j adds up to.
Deltas(h, i, j) == [a \in Addrs |-> h.logged[j][a] - h.logged[i - 1][a]]

\* Where scanTransfers may stop: before its first window when that one could
\* not be read, or at the end of a window of the contiguous clean prefix.
ScanEnds(i, j) == {i - 1} \union {e \in i..j : e = j \/ (e - i + 1) % LogRange = 0}

\* A history whose Transfer events describe its balances: not fee-on-transfer,
\* not rebasing.
Faithful(t) == ledger[t].logged = ledger[t].bal

NoRun == [batch |-> {}, head |-> 0, considered |-> 0, failed |-> 0, forward |-> 0]
ScanOf(from, resumed) ==
    [from |-> from, resumed |-> resumed, scannedTo |-> 0, fold |-> NoRows,
     checked |-> 0, answered |-> 0, source |-> "transfer_logs"]
NoScan == ScanOf(0, FALSE)

\* Mutant: stored rows are folded onto even by a scan from the deploy block.
CarryOverAlways(t, resumed) == rows[t]

CarryOver(t, resumed) == IF resumed THEN rows[t] ELSE NoRows

\* Mutant: negative balances are kept.
FoldUnranked(carryOver, deltas) == [a \in Addrs |-> carryOver[a] + deltas[a]]

FoldBalances(carryOver, deltas) == Positive([a \in Addrs |-> carryOver[a] + deltas[a]])

\* Mutant: a sample of the holder set is resumed from.
ResumableSample(t) == cursor[t].lastBlock > 0

\* Stored rows may only be carried forward when they are the whole balance set.
Resumable(t) == cursor[t].lastBlock > 0 /\ cursor[t].source # "balance_of"

\* Mutant: only errors count against a run.
NoErrorsRun(r) == r.considered > 0 /\ r.failed < r.considered

IsCleanRun(r) ==
    /\ r.considered > 0
    /\ r.failed < r.considered
    /\ r.forward > 0

-----------------------------------------------------------------------------
CursorType == [lastBlock : Blocks, complete : BOOLEAN,
               source : {"none", "transfer_logs", "balance_of"}]
RunType == [batch : SUBSET Tokens, head : Blocks, considered : Nat, failed : Nat,
            forward : Nat]
ScanType == [from : Nat, resumed : BOOLEAN, scannedTo : Blocks, fold : RowSet,
             checked : Nat, answered : Nat, source : {"transfer_logs", "balance_of"}]

TypeOK ==
    /\ head \in Blocks
    /\ DOMAIN ledger = Tokens /\ \A t \in Tokens : IsHistory(ledger[t])
    /\ rows \in [Tokens -> RowSet]
    /\ holderCount \in [Tokens -> Int]
    /\ countAt \in [Tokens -> Blocks]
    /\ deployKnown \in [Tokens -> BOOLEAN]
    /\ cursor \in [Tokens -> CursorType]
    /\ turn \in [Tokens -> Int]
    /\ healthy \in BOOLEAN
    /\ pc \in {"idle"} \union Points
    /\ run \in RunType
    /\ tok \in Tokens \union {NoToken}
    /\ scan \in ScanType
    /\ faults \in Nat

Init ==
    /\ head = 1
    /\ ledger \in [Tokens -> Histories]
    /\ rows = [t \in Tokens |-> NoRows]
    /\ holderCount = [t \in Tokens |-> -1]
    /\ countAt = [t \in Tokens |-> 0]
    /\ deployKnown = [t \in Tokens |-> FALSE]
    /\ cursor = [t \in Tokens |-> [lastBlock |-> 0, complete |-> FALSE, source |-> "none"]]
    /\ turn \in [Tokens -> 1..Cardinality(Tokens)]
    /\ \A t, u \in Tokens : t # u => turn[t] # turn[u]
    /\ healthy = FALSE
    /\ pc = "idle"
    /\ run = NoRun
    /\ tok = NoToken
    /\ scan = NoScan
    /\ faults = 0

Fault == faults < MaxFaults /\ faults' = faults + 1

-----------------------------------------------------------------------------
(* The environment.                                                         *)

Mine ==
    /\ head < MaxBlock
    /\ head' = head + 1
    /\ UNCHANGED <<ledger, store, pc, run, tok, scan, faults>>

-----------------------------------------------------------------------------
(* runObservedArcHolderIndexer.                                             *)

\* Mutant: only the success path moves a token.
TouchOnSuccess(t) ==
    IF pc # "cursor" THEN UNCHANGED turn
    ELSE turn' = [u \in Tokens |->
                    IF u = t THEN Cardinality(Tokens)
                    ELSE IF turn[u] > turn[t] THEN turn[u] - 1 ELSE turn[u]]

\* Every outcome writes the cursor's lastAt, which puts the token last.
Touch(t) ==
    turn' = [u \in Tokens |->
                IF u = t THEN Cardinality(Tokens)
                ELSE IF turn[u] > turn[t] THEN turn[u] - 1 ELSE turn[u]]

\* The head is read once per run and the batch is fixed by orderByAttempt.
StartRun ==
    /\ pc = "idle"
    /\ LET batch == {t \in Tokens : turn[t] <= BatchSize}
       IN  run' = [batch |-> batch, head |-> head, considered |-> Cardinality(batch),
                   failed |-> 0, forward |-> 0]
    /\ pc' = "pick"
    /\ UNCHANGED <<head, ledger, store, tok, scan, faults>>

\* The health row written when the batch is done.
FinishRun ==
    /\ pc = "pick" /\ run.batch = {}
    /\ healthy' = IsCleanRun(run)
    /\ pc' = "idle" /\ run' = NoRun
    /\ UNCHANGED <<head, ledger, rows, holderCount, countAt, deployKnown, cursor, turn,
                   tok, scan, faults>>

IsNext(t) == t \in run.batch /\ \A u \in run.batch : turn[t] <= turn[u]

\* indexToken is done with t, adding to the counters of the run.
Return(t, failed, forward) ==
    /\ run' = [batch |-> run.batch \ {t}, head |-> run.head, considered |-> run.considered,
               failed |-> run.failed + failed, forward |-> run.forward + forward]
    /\ pc' = "pick" /\ tok' = NoToken /\ scan' = NoScan

Skip(t) == Return(t, 0, 0)
Forward(t) == Return(t, 0, 1)

-----------------------------------------------------------------------------
(* indexToken, step by step.                                                *)

\* findDeployBlock answers when the contract has code at the head but not yet
\* at block 1; a stored Token.deployBlock needs no search.
DeployFound(t) == deployKnown[t] \/ ledger[t].deploy \in 2..run.head

ScanFrom(t) == IF Resumable(t) THEN cursor[t].lastBlock + 1 ELSE ledger[t].deploy

DeployUnknown(t) ==
    /\ pc = "pick" /\ IsNext(t)
    /\ ~Resumable(t) /\ ~deployKnown[t]
    /\ \/ ~DeployFound(t) /\ UNCHANGED faults
       \/ Fault                             \* no archive state: same answer
    /\ Touch(t) /\ Skip(t)
    /\ UNCHANGED <<head, ledger, rows, holderCount, countAt, deployKnown, cursor, healthy>>

UpToDate(t) ==
    /\ pc = "pick" /\ IsNext(t)
    /\ Resumable(t) \/ DeployFound(t)
    /\ ScanFrom(t) > run.head
    /\ Touch(t) /\ Forward(t)
    /\ UNCHANGED <<head, ledger, rows, holderCount, countAt, deployKnown, cursor, healthy,
                   faults>>

BeginScan(t) ==
    /\ pc = "pick" /\ IsNext(t)
    /\ Resumable(t) \/ DeployFound(t)
    /\ ScanFrom(t) <= run.head
    /\ deployKnown' = [deployKnown EXCEPT ![t] = @ \/ ~Resumable(t)]
    /\ scan' = ScanOf(ScanFrom(t), Resumable(t))
    /\ tok' = t /\ pc' = "scan"
    /\ UNCHANGED <<head, ledger, rows, holderCount, countAt, cursor, turn, healthy, run,
                   faults>>

\* scanTransfers up to block e, then foldBalances and rankHolders.  Only a
\* scan that reached the run's head can be compared with balanceOf.
ScanTransfers(e) ==
    LET cap  == scan.from + RunRange - 1
        last == IF run.head < cap THEN run.head ELSE cap
    IN  /\ pc = "scan"
        /\ e \in ScanEnds(scan.from, last) /\ e >= scan.from
        /\ IF e < last THEN Fault ELSE UNCHANGED faults
        /\ scan' = [scan EXCEPT !.scannedTo = e,
                      !.fold = FoldBalances(CarryOver(tok, scan.resumed),
                                            Deltas(ledger[tok], scan.from, e))]
        /\ pc' = IF e >= run.head THEN "verify" ELSE "commit"
        /\ UNCHANGED <<head, ledger, store, run, tok>>

Checked(answers) ==
    [from |-> scan.from, resumed |-> scan.resumed, scannedTo |-> scan.scannedTo,
     fold |-> scan.fold, checked |-> scan.checked + 1,
     answered |-> scan.answered + answers, source |-> scan.source]

\* balanceOf of the next holder of the top, read at "latest".
VerifyHolder(a) ==
    /\ pc = "verify" /\ scan.checked < VerifyTop
    /\ a \in Holders(scan.fold) /\ Place(scan.fold, a) = scan.checked
    /\ \/ /\ Fault                                            \* no answer
          /\ scan' = Checked(0) /\ UNCHANGED pc
       \/ /\ ledger[tok].bal[head][a] = scan.fold[a]
          /\ scan' = Checked(1)
          /\ UNCHANGED <<pc, faults>>
       \/ /\ ledger[tok].bal[head][a] # scan.fold[a]
          /\ pc' = "fallback" /\ UNCHANGED <<scan, faults>>
    /\ UNCHANGED <<head, ledger, store, run, tok>>

VerifyDone ==
    /\ pc = "verify"
    /\ scan.checked >= VerifyTop \/ scan.checked >= Cardinality(Holders(scan.fold))

Verified ==
    /\ VerifyDone
    /\ scan.answered > 0 \/ Holders(scan.fold) = {}
    /\ pc' = "commit"
    /\ UNCHANGED <<head, ledger, store, run, tok, scan, faults>>

VerificationUnavailable ==
    /\ VerifyDone
    /\ scan.answered = 0 /\ Holders(scan.fold) # {}
    /\ Touch(tok) /\ Skip(tok)
    /\ UNCHANGED <<head, ledger, rows, holderCount, countAt, deployKnown, cursor, healthy,
                   faults>>

\* The top of the fold is re-read from the contract.  If more than a quarter
\* does not answer, the cursor is reset; the stored rows stay.
Fallback(unread) ==
    LET candidates == Top(scan.fold, FallbackLimit) IN
    /\ pc = "fallback"
    /\ unread \subseteq candidates
    /\ IF unread = {} THEN UNCHANGED faults ELSE Fault
    /\ IF 4 * Cardinality(unread) > Cardinality(candidates)
       THEN /\ cursor' = [cursor EXCEPT ![tok].lastBlock = 0]
            /\ Touch(tok) /\ Skip(tok)
       ELSE /\ scan' = [scan EXCEPT !.source = "balance_of",
                          !.fold = [a \in Addrs |-> IF a \in candidates \ unread
                                                    THEN ledger[tok].bal[head][a] ELSE 0]]
            /\ pc' = "commit"
            /\ UNCHANGED <<cursor, turn, run, tok>>
    /\ UNCHANGED <<head, ledger, rows, holderCount, countAt, deployKnown, healthy>>

Complete == scan.scannedTo >= run.head

\* Mutant: a leading slice of the holders is stored.
LeadingSlice(f) == [a \in Addrs |-> IF a \in Top(f, FallbackLimit) THEN f[a] ELSE 0]

\* The whole fold is stored, as it is the base of the next one.
StoredRows(f) == f

\* The transaction: the rows are replaced, and the count is published when the
\* scan reached the head and the rows are the whole holder set.
Commit ==
    /\ pc = "commit"
    /\ rows' = [rows EXCEPT ![tok] = StoredRows(scan.fold)]
    /\ IF Complete /\ scan.source = "transfer_logs"
       THEN /\ holderCount' = [holderCount EXCEPT ![tok] = Cardinality(Holders(scan.fold))]
            /\ countAt' = [countAt EXCEPT ![tok] = scan.scannedTo]
       ELSE UNCHANGED <<holderCount, countAt>>
    /\ pc' = "cursor"
    /\ UNCHANGED <<head, ledger, deployKnown, cursor, turn, healthy, run, tok, scan, faults>>

\* writeCursor, after the transaction and not part of it.
WriteCursor ==
    /\ pc = "cursor"
    /\ cursor' = [cursor EXCEPT ![tok] = [lastBlock |-> scan.scannedTo,
                                          complete |-> Complete, source |-> scan.source]]
    /\ Touch(tok) /\ Forward(tok)
    /\ UNCHANGED <<head, ledger, rows, holderCount, countAt, deployKnown, healthy, faults>>

\* Anything that throws is caught per token: markCursorError touches the
\* cursor, keeping its meta and lastBlock, unless that write fails as well.
Throw(t) ==
    /\ pc \in FaultPoints
    /\ IF pc = "pick" THEN IsNext(t) ELSE t = tok
    /\ Fault
    /\ Touch(t) \/ UNCHANGED turn
    /\ Return(t, 1, 0)
    /\ UNCHANGED <<head, ledger, rows, holderCount, countAt, deployKnown, cursor, healthy>>

\* The process is killed and restarted: the database is all that survives.
Kill ==
    /\ pc \in FaultPoints
    /\ Fault
    /\ pc' = "idle" /\ run' = NoRun /\ tok' = NoToken /\ scan' = NoScan
    /\ UNCHANGED <<head, ledger, store>>

-----------------------------------------------------------------------------
Indexer ==
    \/ StartRun \/ FinishRun
    \/ \E t \in Tokens : DeployUnknown(t) \/ UpToDate(t) \/ BeginScan(t)
    \/ \E e \in Blocks : ScanTransfers(e)
    \/ \E a \in Addrs : VerifyHolder(a)
    \/ Verified \/ VerificationUnavailable
    \/ \E unread \in SUBSET Addrs : Fallback(unread)
    \/ Commit \/ WriteCursor
    \/ \E t \in Tokens : Throw(t)
    \/ Kill

Next == Mine \/ Indexer

Spec == Init /\ [][Next]_vars

\* The worker's loop re-arms its timer after every run, whatever its outcome.
FairSpec == Spec /\ WF_vars(Indexer)

-----------------------------------------------------------------------------
(* Properties.                                                              *)

HoldersAt(t, b) == Cardinality(Holders(ledger[t].bal[b]))

\* Rows are only ever carried forward as "the whole balance set" of the block
\* the cursor names: between two attempts, a resumable cursor stands at the
\* block whose balances are stored (a token whose events describe it).
CarriedRowsAreWhole ==
    \A t \in Tokens :
        Faithful(t) /\ Resumable(t) /\ ~(pc = "cursor" /\ tok = t)
            => rows[t] = ledger[t].bal[cursor[t].lastBlock]

\* The comment on holderCount: "served as an onchain figure".  A published
\* count is the number of holders at the block it was computed for, however
\* many capped, failed, interrupted or restarted scans led to it.
PublishedCountIsTrue ==
    \A t \in Tokens :
        Faithful(t) /\ holderCount[t] # -1 => holderCount[t] = HoldersAt(t, countAt[t])

\* Rows and count are read together by the API.  When the cursor reports a
\* complete index from logs, the published count is the number of rows, for
\* every token, faithful or not.
CountMatchesRows ==
    \A t \in Tokens :
        cursor[t].complete /\ cursor[t].source = "transfer_logs" /\ ~(pc = "cursor" /\ tok = t)
            => holderCount[t] = Cardinality(Holders(rows[t]))

\* isCleanRun's comment: a run of nothing but skips must not be published as
\* healthy "over zero holder rows": some token has been indexed by then.
HealthyOnceIndexed ==
    healthy => \E t \in Tokens : cursor[t].source # "none"

\* "Least recently attempted first, so no token is starved": every token is
\* attempted again and again, even beside tokens that can never be indexed.
NoTokenStarved ==
    \A t \in Tokens : []<>(turn[t] = Cardinality(Tokens))

\* A mismatch resets to a full rescan, which a cap may split over many runs;
\* once failures stop and the chain is quiet, every deployed faithful token
\* ends with the published count of the last block.
EventuallyPublished ==
    \A t \in Tokens :
        <>[](Faithful(t) /\ ledger[t].deploy \in 2..head
                => holderCount[t] = HoldersAt(t, head) /\ countAt[t] = head)

=============================================================================
