--------------------------- MODULE BridgeLedger ----------------------------
(***************************************************************************)
(* The ledger of Arc-bound CCTP burns (BridgeTransferRow) and the writers  *)
(* of its status column: the bridge feed of the API                        *)
(* (apps/api/src/routes/bridge.ts), and in the worker the settlement check *)
(* (bridgeSettlementIndexer.ts), the EVM history backfill                  *)
(* (evmCctpBackfill.ts) and the Solana indexer (solanaCctpIndexer.ts).     *)
(*                                                                         *)
(* Each reads Circle, and the settlement check Arc as well, some steps     *)
(* before it writes; none holds anything across its reads and its write.   *)
(* The rows' other columns tell no property apart.                         *)
(***************************************************************************)
EXTENDS Integers

CONSTANTS
    EvmBurns,     \* burns on the EVM sources, which the feed and the backfill list
    SolanaBurns,  \* burns the Solana indexer finds
    MaxThrows     \* bound: settlement runs that reject

Burns == EvmBurns \union SolanaBurns

\* A settlement run that rejects leaves its other lanes in flight while the
\* next run starts: generation k has been left behind once throws > k.
Generations == 0..MaxThrows

ASSUME LedgerAssumption == MaxThrows \in Nat /\ EvmBurns \intersect SolanaBurns = {}

VARIABLES
    circle,  \* what Circle says of each burn
    arc,     \* the forwarded mint of each burn on Arc
    status,  \* the status column, "none" where there is no row
    feed,    \* the refresh of the bridge feed that is in flight
    check,   \* the settlement checks in flight, by generation
    settle,  \* the current settlement run
    health,  \* the bridge_settlement row
    sol,     \* the Solana indexer's work in flight
    throws   \* settlement runs that rejected

world == <<circle, arc>>
worker == <<check, settle, sol>>
vars == <<circle, arc, status, feed, check, settle, health, sol, throws>>

CircleStates == {"absent", "pending", "complete", "attested"}
ArcStates == {"none", "forwarded", "minted", "reverted"}
Statuses == {"waiting", "ready", "confirmed", "unavailable"}

Idle == [at |-> "idle", status |-> "waiting"]
FeedType == [at : {"idle", "ask", "upsert", "update"}, status : Statuses]
CheckType == [at : {"idle", "ask", "mint", "write", "note"}, status : Statuses]
SolType == [at : {"idle", "upsert", "update"}, status : Statuses]

TypeOK ==
    /\ circle \in [Burns -> CircleStates]
    /\ arc \in [Burns -> ArcStates]
    /\ status \in [Burns -> Statuses \union {"none"}]
    /\ feed \in [Burns -> FeedType]
    /\ check \in [Generations -> [Burns -> CheckType]]
    /\ settle \in [active : BOOLEAN, problems : BOOLEAN, due : SUBSET Burns]
    /\ health \in [healthy : BOOLEAN, due : SUBSET Burns]
    /\ sol \in [Burns -> SolType]
    /\ throws \in 0..MaxThrows + 1

Init ==
    /\ circle = [b \in Burns |-> "absent"]
    /\ arc = [b \in Burns |-> "none"]
    /\ status = [b \in Burns |-> "none"]
    /\ feed = [b \in Burns |-> Idle]
    /\ check = [k \in Generations |-> [b \in Burns |-> Idle]]
    /\ settle = [active |-> FALSE, problems |-> FALSE, due |-> {}]
    /\ health = [healthy |-> FALSE, due |-> {}]
    /\ sol = [b \in Burns |-> Idle]
    /\ throws = 0

At(at, s) == [at |-> at, status |-> s]

-----------------------------------------------------------------------------
(* The world: Circle indexes and attests a burn, its relayer forwards it,   *)
(* Arc mines the mint.                                                      *)

Attest(b) ==
    /\ \/ circle[b] = "absent" /\ circle' = [circle EXCEPT ![b] = "pending"]
       \/ circle[b] = "pending" /\ circle' = [circle EXCEPT ![b] = "complete"]
       \/ circle[b] = "complete" /\ circle' = [circle EXCEPT ![b] = "attested"]
    /\ UNCHANGED <<arc, status, feed, worker, health, throws>>

Settle(b) ==
    /\ \/ arc[b] = "none" /\ circle[b] # "absent" /\ arc' = [arc EXCEPT ![b] = "forwarded"]
       \/ /\ arc[b] = "forwarded"
          /\ \E outcome \in {"minted", "reverted"} : arc' = [arc EXCEPT ![b] = outcome]
    /\ UNCHANGED <<circle, status, feed, worker, health, throws>>

\* What Circle may answer now: nothing usable, that it has no message (404, or
\* an empty list), or the message's state.
Answers(b) ==
    {"error"} \union (IF circle[b] = "absent" THEN {"missing", "empty"} ELSE {circle[b]})

Complete(answer) == answer \in {"complete", "attested"}

-----------------------------------------------------------------------------
(* GET /bridge-watch: loadBridgeWatch.                                      *)

\* One refresh is in flight at a time.  The candidates are the newest burns of
\* the source pages that could be read.
StartRefresh(candidates) ==
    /\ \A b \in Burns : feed[b].at = "idle"
    /\ feed' = [b \in Burns |-> IF b \in candidates THEN At("ask", "waiting") ELSE Idle]
    /\ UNCHANGED <<world, status, worker, health, throws>>

\* Mutant: any message counts.
AnyMessage(answer) ==
    IF answer = "error" THEN "unavailable"
    ELSE IF answer \in {"missing", "empty"} THEN "waiting" ELSE "ready"

\* circleStatus, where the status column is concerned.
FeedStatus(answer) ==
    IF answer = "error" THEN "unavailable" ELSE IF answer = "attested" THEN "ready" ELSE "waiting"

FeedAsk(b) ==
    /\ feed[b].at = "ask"
    /\ \E answer \in Answers(b) : feed' = [feed EXCEPT ![b] = At("upsert", FeedStatus(answer))]
    /\ UNCHANGED <<world, status, worker, health, throws>>

\* Mutant: a refresh that could not reach Circle is written like any other.
AlwaysWrites(s) == "update"

\* A refresh that could not reach Circle only creates the row.
AfterUpsert(s) == IF s = "unavailable" THEN "idle" ELSE "update"

\* The burns are written once all of them have been asked about.
FeedUpsert(b) ==
    /\ feed[b].at = "upsert" /\ \A c \in Burns : feed[c].at # "ask"
    /\ status' = [status EXCEPT ![b] = IF @ = "none" THEN feed[b].status ELSE @]
    /\ feed' = [feed EXCEPT ![b] = At(AfterUpsert(feed[b].status), feed[b].status)]
    /\ UNCHANGED <<world, worker, health, throws>>

\* Mutant: the guard of the update is dropped.
AnyRow(b) == TRUE

\* updateMany where status is not arc_mint_confirmed.
Unconfirmed(b) == status[b] # "confirmed"

FeedUpdate(b) ==
    /\ feed[b].at = "update"
    /\ status' = [status EXCEPT ![b] = IF Unconfirmed(b) THEN feed[b].status ELSE @]
    /\ feed' = [feed EXCEPT ![b] = Idle]
    /\ UNCHANGED <<world, worker, health, throws>>

\* A statement throws: the other burns are written all the same.
FeedFails(b) ==
    /\ feed[b].at \in {"upsert", "update"}
    /\ feed' = [feed EXCEPT ![b] = Idle]
    /\ UNCHANGED <<world, status, worker, health, throws>>

ApiRestarts ==
    /\ feed' = [b \in Burns |-> Idle]
    /\ UNCHANGED <<world, status, worker, health, throws>>

-----------------------------------------------------------------------------
(* runBridgeSettlementIndexer.                                              *)

\* due is a history variable: the selected burns whose mint could be confirmed
\* before the run began.
Due(b) == circle[b] # "absent" /\ arc[b] = "minted"

\* The rows' age and last check, and the run's limit, decide which unconfirmed
\* rows are selected; here any of them may be.
StartSettlement(batch) ==
    /\ ~settle.active /\ throws \in Generations
    /\ \A b \in batch : status[b] \notin {"none", "confirmed"}
    /\ check' = [check EXCEPT ![throws] =
                   [b \in Burns |-> IF b \in batch THEN At("ask", "waiting") ELSE Idle]]
    /\ settle' = [active |-> TRUE, problems |-> FALSE, due |-> {b \in batch : Due(b)}]
    /\ UNCHANGED <<world, status, feed, health, sol, throws>>

Check(k, b, at, s) == check' = [check EXCEPT ![k][b] = At(at, s)]

\* An outcome counts towards the run that is still being awaited.
Counts(k, problem) ==
    settle' = [settle EXCEPT !.problems = @ \/ (k = throws /\ problem)]

\* checkRow: Circle answers.  A response that is not OK is a failure, a missing
\* message is not; a message that was forwarded takes a look at Arc.
CheckAsk(k, b) ==
    /\ check[k][b].at = "ask"
    /\ \E answer \in Answers(b) :
          IF answer \in {"error", "missing", "empty"}
          THEN Check(k, b, "note", "waiting") /\ Counts(k, answer # "empty")
          ELSE /\ Check(k, b, IF arc[b] = "none" THEN "write" ELSE "mint",
                        IF Complete(answer) THEN "ready" ELSE "waiting")
               /\ UNCHANGED settle
    /\ UNCHANGED <<world, status, feed, health, sol, throws>>

\* Mutant: having been forwarded is taken for having been minted.
Forwarded(b) == {TRUE}

\* Mutant: an unreadable destination looks like a pending one.
NeverUnread(readable) == FALSE

Unverified(readable) == ~readable

\* arcMintSucceeded, where it can be read: executed, or not, or not yet.
MintSucceeded(b) == {arc[b] = "minted"}

CheckMint(k, b) ==
    /\ check[k][b].at = "mint"
    /\ \E readable \in BOOLEAN, minted \in MintSucceeded(b) :
          /\ Check(k, b, "write", IF readable /\ minted THEN "confirmed" ELSE check[k][b].status)
          /\ Counts(k, Unverified(readable))
    /\ UNCHANGED <<world, status, feed, health, sol, throws>>

\* The update is by id alone.
CheckWrite(k, b) ==
    /\ check[k][b].at = "write"
    /\ status' = [status EXCEPT ![b] = check[k][b].status]
    /\ Check(k, b, "idle", "waiting")
    /\ UNCHANGED <<world, feed, settle, health, sol, throws>>

\* It throws, and the catch goes on to note the failure.
CheckWriteFails(k, b) ==
    /\ check[k][b].at = "write"
    /\ Check(k, b, "note", "waiting") /\ Counts(k, TRUE)
    /\ UNCHANGED <<world, status, feed, health, sol, throws>>

\* Only the detail is written, which keeps the status the row has.
CheckNote(k, b) ==
    /\ check[k][b].at = "note"
    /\ Check(k, b, "idle", "waiting")
    /\ UNCHANGED <<world, status, feed, settle, health, sol, throws>>

\* It throws too, and so does the note of the catch: the run rejects, and its
\* other lanes go on.
CheckNoteFails(k, b) ==
    /\ check[k][b].at = "note"
    /\ Check(k, b, "idle", "waiting")
    /\ throws \in Generations
    /\ IF k = throws
       THEN throws' = throws + 1 /\ settle' = [active |-> FALSE, problems |-> FALSE, due |-> {}]
       ELSE UNCHANGED <<throws, settle>>
    /\ UNCHANGED <<world, status, feed, health, sol>>

PublishHealth ==
    /\ settle.active /\ \A b \in Burns : check[throws][b].at = "idle"
    /\ health' = [healthy |-> ~settle.problems, due |-> settle.due]
    /\ settle' = [active |-> FALSE, problems |-> FALSE, due |-> {}]
    /\ UNCHANGED <<world, status, feed, check, sol, throws>>

-----------------------------------------------------------------------------
(* The backfills.                                                           *)

\* scanOne: a burn found in a page of history gets a row if it has none.
Backfill(b) ==
    /\ status' = [status EXCEPT ![b] = IF @ = "none" THEN "waiting" ELSE @]
    /\ UNCHANGED <<world, feed, worker, health, throws>>

\* ingest: only a burn Circle has a message for gets a row.
IngestAsk(b) ==
    /\ sol[b].at = "idle"
    /\ \E answer \in Answers(b) \ {"error", "missing", "empty"} :
          sol' = [sol EXCEPT ![b] = At("upsert", IF Complete(answer) THEN "ready" ELSE "waiting")]
    /\ UNCHANGED <<world, status, feed, check, settle, health, throws>>

IngestUpsert(b) ==
    /\ sol[b].at = "upsert"
    /\ status' = [status EXCEPT ![b] = IF @ = "none" THEN sol[b].status ELSE @]
    /\ sol' = [sol EXCEPT ![b] = IF sol[b].status = "ready" THEN At("update", "ready") ELSE Idle]
    /\ UNCHANGED <<world, feed, check, settle, health, throws>>

IngestUpdate(b) ==
    /\ sol[b].at = "update"
    /\ status' = [status EXCEPT ![b] = IF Unconfirmed(b) THEN "ready" ELSE @]
    /\ sol' = [sol EXCEPT ![b] = Idle]
    /\ UNCHANGED <<world, feed, check, settle, health, throws>>

\* A statement throws: the page is read again.
IngestFails(b) ==
    /\ sol[b].at # "idle"
    /\ sol' = [sol EXCEPT ![b] = Idle]
    /\ UNCHANGED <<world, status, feed, check, settle, health, throws>>

WorkerRestarts ==
    /\ check' = [k \in Generations |-> [b \in Burns |-> Idle]]
    /\ settle' = [active |-> FALSE, problems |-> FALSE, due |-> {}]
    /\ sol' = [b \in Burns |-> Idle]
    /\ UNCHANGED <<world, status, feed, health, throws>>

-----------------------------------------------------------------------------

Feed(b) == FeedAsk(b) \/ FeedUpsert(b) \/ FeedUpdate(b) \/ FeedFails(b)

CheckRow(k, b) ==
    \/ CheckAsk(k, b) \/ CheckMint(k, b) \/ CheckWrite(k, b) \/ CheckWriteFails(k, b)
    \/ CheckNote(k, b) \/ CheckNoteFails(k, b)

Ingest(b) == IngestAsk(b) \/ IngestUpsert(b) \/ IngestUpdate(b) \/ IngestFails(b)

Next ==
    \/ \E b \in Burns : Attest(b) \/ Settle(b)
    \/ \E candidates \in SUBSET EvmBurns : StartRefresh(candidates)
    \/ \E b \in EvmBurns : Feed(b) \/ Backfill(b)
    \/ \E batch \in SUBSET Burns : StartSettlement(batch)
    \/ \E k \in Generations, b \in Burns : CheckRow(k, b)
    \/ PublishHealth
    \/ \E b \in SolanaBurns : Ingest(b)
    \/ ApiRestarts \/ WorkerRestarts

Spec == Init /\ [][Next]_vars

-----------------------------------------------------------------------------
(* Properties.                                                              *)

\* "Arc destination mint confirmed" is only said of a mint Arc executed.
ConfirmedIsMinted == \A b \in Burns : status[b] = "confirmed" => arc[b] = "minted"

\* A row says that the attestation is ready only once Circle has completed the
\* message, whoever wrote it and however late.
ReadyIsComplete == \A b \in Burns : status[b] = "ready" => Complete(circle[b])

\* "A refresh that could not reach Circle must not replace a status that was
\* read from a real answer."
UnavailableReplacesNothing ==
    [][\A b \in Burns : status[b] \in {"waiting", "ready", "confirmed"}
                          => status'[b] # "unavailable"]_vars

\* "Never walk a row back from a mint that settlement verification already
\* confirmed onchain."
ConfirmedForever ==
    [][\A b \in Burns : status[b] = "confirmed" => status'[b] = "confirmed"]_vars

\* As long as no settlement run has rejected and left lanes behind, no writer
\* walks a row back from a confirmed mint.
ConfirmedWhileRunsResolve ==
    [][throws = 0 => \A b \in Burns : status[b] = "confirmed" => status'[b] = "confirmed"]_vars

\* A run that is "published as a healthy verification pass" confirmed every
\* selected burn whose mint could be read when it began.
HealthyMeansSettled ==
    throws = 0 /\ health.healthy => \A b \in health.due : status[b] = "confirmed"

=============================================================================
