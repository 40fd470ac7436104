# A TLA+ model of RiskHound

RiskHound rates the risk of tokens on the Arc chains. Three processes share one
database: the **API** (`apps/api`), the **worker** (`apps/worker`) and the
**web** front end (`apps/web`, which only renders what the API answers). The
packages `db`, `analysis`, `chain` and `shared` are libraries of the first two.
In production the database is PostgreSQL at READ COMMITTED; Redis, for the
analysis queue, is optional.

What can go wrong here is rarely in one function. Nearly every figure the
product shows is assembled over minutes from sources that fail, by loops that
are interrupted, into rows that other loops and human reviewers write as well.
The comments in the code state, often at length, what must survive that. This
project models those components and checks and proves what the comments claim.

Paths below are relative to `src/`.

## 1. Inventory

| Component | State it keeps | Operations | Interacts with | Hard behaviour |
|---|---|---|---|---|
| Observed-Arc holder indexer (`apps/worker/src/observedArcHolderIndexer.ts`) | `TokenHolder` rows, `Token.holderCount`, `deployBlock`, one `IndexerCursor` per token, a health row | batch selection, deploy search, log scan, fold, balanceOf comparison, fallback, transaction, cursor | Arc RPC, API (reads), observed inventory (second writer) | growth of the chain during a scan, failing windows, caps, kills between two writes |
| Ledger of CCTP burns (`BridgeTransferRow`) | status of each burn | bridge feed, settlement check, EVM backfill, Solana ingest | Circle Iris, Arc RPC, Blockscout, Solana RPC | four writers in two processes, reads long before writes, runs that reject with lanes in flight |
| CCTP history (`evmCctpBackfill.ts`, `solanaCctpIndexer.ts`, `scripts/backfill-cctp.mjs`) | page cursors, resolved signatures | page, ingest, retire, advance | the ledger | cursor against unread items, two owners of one cursor |
| Settlement schedule (`bridgeSettlementIndexer.ts`) | `lastCheckedAt` | selection of at most 25 rows | feed (touches the same column) | starvation |
| Analysis persistence (`packages/db/src/analysis.ts`) | token, findings, holders, pools, links, edges, runs, verdict, a queue per token and process | `persistAnalysisResult` | worker, API, reviewers | partial failure, two processes, reviewers inside a run |
| Automatic risk events (`packages/db/src/evidence.ts`) | `RiskEvent` rows | refresh, resolve, create | persistence, reviewers, alerts | read before transaction, absence as evidence |
| Review (`apps/api/src/routes/admin.ts`) | manual columns, audit log | override, event review | persistence | stale row ids, races |
| Analysis backlog and queue (`apps/worker/src/index.ts`, `apps/api/src/queue.ts`) | BullMQ jobs | schedule, retry | persistence | starvation, deduplication by hour |
| Arc discovery (`apps/worker/src/arcDiscovery.ts`) | block and pair cursors, tokens, health | inventory, block scan, pair logs | explorer, RPC, backlog | contiguous prefix under failure |
| Alerts (`apps/worker/src/alerts.ts`) | `Alert` rows | page the watchlist, emit | events, users | pagination, deduplication, six hour window |
| Robinhood indexer (`apps/worker/src/robinhoodIndexer.ts`) | events, wallets | drain lanes, find-then-create | events | duplicates |
| Observed inventory (`observedMainnetIndexer.ts`, `routes/observed-mainnet.ts`) | tokens, read cache | page, upsert | holder indexer | second writer |
| API caches (`routes/bridge.ts`, `routes/meta.ts`, `analyzeJob.ts`) | snapshot, promise in flight, backoff | read, refresh | all readers | stale answers, single flight |
| Scoring, holder signals, cross-chain, graph, dex, liquidity, contract, deployer (`packages/analysis`, `packages/shared`) | none | pure functions | persistence | caps, ties, missing data |
| Path search (`routes/graph.ts`) | none | bounded breadth-first search | graph edges | budgets |
| Sessions (`services/auth.ts`) | used nonces of the process | challenge, verify | API | single use |
| Chain clients, schema, web, simulator contract, scripts | - | I/O, declarations, rendering | - | - |

What makes each correct:

* **Holder indexer** - a published count is the number of holders of a block;
  stored rows are a whole balance set whenever a fold continues from them; the
  index is never healthy over nothing; no token is starved; when failures stop,
  every count catches up.
* **Ledger** - a status only says what Circle and Arc have said; a confirmation
  is not walked back; a failed read replaces nothing; a healthy settlement pass
  has settled what could be.
* **CCTP history** - a cursor only passes items that were stored or finally
  answered; all history is indexed in the end; one owner per cursor.
* **Settlement schedule** - an unconfirmed row is checked again and again, as
  long as the page does not keep touching it.
* **Persistence, events, review** - decisions survive; each finding has a row;
  each title one event; reviewed proof is not rewritten; outages retire and
  resolve nothing; grade and timestamp describe landed children.
* **Backlog, discovery** - every token is discovered and analysed in the end;
  a block is only passed when its creations were stored.
* **Alerts** - each condition alerts each watcher, however many watch.
* **Robinhood indexer** - a signal of a day is filed once.
* **Caches, contract page** - one refresh at a time, given up whatever its
  outcome; errors are not cached; an outage is not an absence.
* **Analysis and scoring** - whatever reads fail, a verdict rests on facts: no
  critical level without one, no low level that was not earned, a proven trap is
  critical and an unproven one a visible gap, and a category called complete
  shows all there is.

`PROJECT.json` lists every component with its status, and the hazards by line.

## 2. Modules

| Module | What it is |
|---|---|
| `HolderIndexer` | the holder indexer over a chain that grows |
| `MCHolderIndexer` | histories of small chains, for TLC |
| `HolderIndexerProofs` | its theorems |
| `AnalysisStore` | persistence of analyses, risk events and reviewers, over several processes |
| `MCAnalysisStore` | small result sets, for TLC |
| `AnalysisStoreProofs` | its theorems |
| `BridgeLedger` | the CCTP ledger and its writers |
| `MCBridgeLedger` | its instance |
| `BridgeLedgerProofs` | its theorems |
| `PageCursor` | what a backfill promises: its cursor passes only what was answered for |
| `CctpHistory` | the walks of the EVM and Solana history, which implement `PageCursor` |
| `MCCctpHistory` | its instances |
| `CctpHistoryProofs` | its theorems |
| `SettlementSchedule` | which rows a settlement run takes, over a column other writers move |
| `AnalysisInputs` | the facts of a token and which reads of them answer |
| `ContractSignals`, `DexProbe`, `HolderSignals`, `CreatorHistory` | the analyzers, as operators over the two |
| `RiskScoring` | findings to levels, scores and confidence |
| `TokenAnalysis` | `analyzeToken`, which composes them |
| `MCTokenAnalysis` | 28 tokens and 36 ways for their reads to fail |
| `TokenAnalysisProofs` | its theorems, and what they need of sums over finite sets |
| `ArcDiscovery` | the discovery poll over a chain that grows |
| `AnalysisBacklog` | how tokens come to be analysed: the loops, the queue, the inline mode |
| `AlertEngine` | the alert tick over an edited watchlist |
| `RobinhoodIndexer` | a pass of the Robinhood chain |
| `RobinhoodIndexerProofs` | its theorems |
| `ContractPage` | overlapping requests for one observed contract |
| `ContractPageProofs` | its theorems |
| `BridgeWatch` | the shared snapshot of the bridge page |
| `Worker` | all from `SettlementSchedule` on, composed |
| `MCWorker` | its instances, for TLC |
| `WorkerProofs` | its theorems |

In each of them an action is what the code does between two points at which
something else can happen: from one awaited call that reads or writes shared
state to the next. A failing call is the early return, the `catch` or the
rejection the code has for it. Definitions whose comment begins with "Mutant:"
are plausible mistakes in the definition that follows them; they are used by no
action, and each is there to show that a property would notice.

### HolderIndexer

| Model | Code |
|---|---|
| `rows`, `holderCount`, `deployKnown`, `cursor`, `turn`, `healthy` | `TokenHolder`, `Token.holderCount`, `Token.deployBlock`, `IndexerCursor` (`lastBlock`, `metaJson`), the order of `IndexerCursor.lastAt`, `DataSourceHealth` |
| `pc`, `run`, `tok`, `scan` | where the one loop stands, its counters and `indexToken`'s locals; a kill forgets them |
| `StartRun`, `FinishRun` | `runObservedArcHolderIndexer` before and after its loop over the batch |
| `DeployUnknown`, `UpToDate`, `BeginScan` | `indexToken` 330-366 |
| `ScanTransfers` | `scanTransfers`, `foldBalances`, `rankHolders` |
| `VerifyHolder`, `Verified`, `VerificationUnavailable`, `Fallback` | 397-453 |
| `Commit`, `WriteCursor` | 474-511 and 513-524: two writes |
| `Throw`, `Kill` | `markCursorError` in the `catch` of 554-557; the process dies |
| `head`, `ledger`, `Mine` | the Arc chain: external |

A token's whole history is chosen in `Init` as cumulative sums per block, the
logged ones apart from the balances, because a fee-on-transfer or rebasing token
moves balances without a `Transfer`. The logs of blocks i..j are then a
difference, and "the holders at block b" can be stated. `source = "balance_of"`
in the cursor stands for `holdersComplete: false`, which is written exactly
with it. `countAt` is a history variable. A token's creator, percentages and
labels are left out. The model is of a deployment without an explorer for chain
5042 (`OBSERVED_ARC_EXPLORER_URL` unset), which is what the indexer is for; with
one, the inventory writes `holderCount` too.

### AnalysisStore

| Model | Code |
|---|---|
| `run[r]` | one call of `persistAnalysisResult`: its stage, process, result, and what it has read |
| `Submit`, `MyTurn` | the queue per token (`tokenWrites`), which is one process's |
| `ReadToken`, `WriteToken` | 137-187: read, merge, upsert |
| `ReadReviewed`, `BeginDelete`, `FinishDelete`, `ReplaceFindings` | the findings transaction 214-304 |
| `Replace` | the holders, pools and links transactions |
| `ReadEvents`, `WriteEvents` | `persistAutomaticRiskEvents`: the read, then one transaction |
| `RecordRun`, `WriteVerdict` | 462-474 |
| `Fail`, `Kill` | a statement throws; a process dies with its queue |
| `Override`, `ReviewEvent` | the two review routes of `admin.ts` |

The findings transaction is modelled at READ COMMITTED, statement by statement,
because two processes and the reviewers meet in it: the delete takes the rows of
its snapshot, waits for rows another transaction has locked, checks its
condition again on what it then finds (`BeginDelete`, `FinishDelete`), and what
it deleted stays locked until the transaction commits (`Locked`). The inserts
and updates after it touch rows nobody else can see or has locked, so they are
one step with the commit. A transaction that writes without reading is one
step. `said` is a history variable: what committed runs reported of each key.
A finding is identified by a number, a row by the run and finding it was created
for; severities are "loud" or not. A title has one category and one event class.
The code stores the class per row and could move a finding without evidence to
`data_gaps` between two runs (`requireEvidence`), but no analyzer yields such a
finding at high or critical severity: each attaches the address, pair,
transaction or event it is about, and each name is used in one category.

### BridgeLedger

| Model | Code |
|---|---|
| `status` | `BridgeTransferRow.status`: `waiting_for_circle`, `attestation_ready`, `arc_mint_confirmed`, `status_unavailable` |
| `feed`, `StartRefresh`, `FeedAsk`, `FeedUpsert`, `FeedUpdate`, `FeedFails` | `loadBridgeWatch` 487-573 |
| `check`, `settle`, `StartSettlement`, `CheckAsk` ... `PublishHealth` | `runBridgeSettlementIndexer` and `checkRow` |
| `throws`, generations of `check` | a run that rejects leaves its lanes behind while the loop starts the next |
| `Backfill` | the upsert of `scanOne`, also of `scripts/backfill-cctp.mjs` |
| `sol`, `IngestAsk`, `IngestUpsert`, `IngestUpdate`, `IngestFails` | `ingest` of the Solana indexer |
| `ApiRestarts`, `WorkerRestarts` | whatever is in flight is gone |
| `circle`, `arc`, `Attest`, `Settle`, `Answers` | Circle Iris and the Arc chain: external |

What the model simplifies: the selection of rows by age and `lastCheckedAt` and
the limit of 25 are "any subset of the unconfirmed rows"; a refresh that failed
has no late writes of its own when the next one starts (there are at least 30 s
between them); a failing note and the failing note of its `catch` are one step,
`CheckNoteFails`; there is one worker and one API process; amounts, recipients
and detail texts are left out.

### CctpHistory

| Model | Code |
|---|---|
| `saved` | the `IndexerCursor` row of the source: page cursor (0 is null), `exhausted`, `resolved` |
| `scan[p]` | what a run has in memory: the worker's, or one of `scripts/backfill-cctp.mjs` |
| `Start`, `CutShort` | the read of the row; a request or statement throws, or the process dies |
| `FetchPage`, `StoreBurn`, `SavePage` | `scanOne`, and the loop of the script's `scan` |
| `ListSignatures`, `AskCircle`, `SaveSignatures` | `runSolanaCctpIndexer`; `AskCircle` is `ingest` and what `drain` does with its result |
| `CanRetire`, `HistoryIncomplete`, `Kept` | `canRetireSignature`, `historyIncomplete`, the cap of `resolved` |
| `tip`, `age`, `indexed`, `Top`, `Bottom`, `PageAt` | the ledgers, their paging, and Circle's index: external |

`source`, fixed in `Init`, says which of the two walks a behaviour is of; they
share their shape and nothing else. Transactions are numbered by age. `Init`
includes a cursor that an older version left marked exhausted with pages to go.
`PageCursor` is the abstract specification: `Answered` is "a burn has its row"
on an EVM source and "Circle has said something of it" on Solana, and `Passed`
is what the stored cursor has left behind; the cursor may be set back, as the
script does, but never over something unanswered. `heard` is a history variable.
The two listings of a Solana run are one step; its lanes may answer in any
order, and those of a run that was cut short do nothing more (they could only
store rows the next run stores); the evicted of `resolved` are any of those not
on the page; the health rows are left out.

### SettlementSchedule

| Model | Code |
|---|---|
| `age`, `since`, `order` | `observedAt` and `lastCheckedAt` as the `where` and the `orderBy` of 109-120 see them |
| `Select`, `Check`, `CheckThrows`, `EndRun` | `runBridgeSettlementIndexer`, with a whole `checkRow` as one step |
| `Store`, `FeedWrites` | the inserts of the ledger's writers; the feed's upsert of the rows it shows |
| `Older`, `TimePasses` | the clock: external |

`lastCheckedAt` is Prisma's `@updatedAt`, so every non-empty update of a row
moves it. The backfills' upserts have an empty update and move nothing. Age and
time are classes, the ones the query tells apart. A run that rejects leaves lanes
behind (`lanes.stray`). `BridgeLedger` lets a run take any unconfirmed rows,
which this selection is an instance of.

### TokenAnalysis and its analyzers

| Model | Code |
|---|---|
| `facts`, `answer` | what the token is, and whether each read fails, answers, or stops before the end of its list: external |
| `ContractSignals` | `analyzeContract`: six reads merged, last writer wins; selectors, owner, proxy, supply |
| `Error`, `Refusals`, `Failures`, `IsRevert` | `isRevert` 86-112: what an error carries, how a revert and a failing node look to the client, and what the code makes of it |
| `DexProbe` | `analyzeApexiSwap`: pair, reserves, quote, the round trip, LP holders |
| `slot` | `baseSlotCache`, kept between analyses and forgotten a while after a failure; `ProbedElsewhere` is another analysis' probe that ends late and overwrites it |
| `HolderSignals` | `analyzeHolders`, `analyzeLiquidity` |
| `CreatorHistory` | `buildDeployerProfile`, `compareCrossChain`, `buildFundingGraph` |
| `RiskScoring` | `buildRiskReport`, `packages/shared/src/risk.ts` |
| `Begin`, `ReadPrologue`, `SettleAnalyzers`, `AnalyzerThrows`, `CompareCreator`, `Publish`, `Return`, `SlotExpires` | `analyzeToken` between its awaits; `CompareCreator` has the comparison that throws (320-329) |
| `KeptEdges` | `prioritizeEdges`: exactly `EdgeLimit` edges; which of those tied at the limit is left open |

A read that answers tells the truth; which reads answer is fixed when an analysis
begins, since they are made once. Findings are a name, a category and a
severity; what they say, bytecode scanning beyond the selectors it finds, taxes
and timelines are left out. Holders are a handful of accounts with shares in
percent. "The same token with every read answering" is the reference the
completeness properties compare with.

An error has a code, possibly the name of a transport error, and a set of
wordings its message matches: of a transport error, of a revert, and of the
node's URL, which every message quotes. A call throws one such error. If the
token refused, its shape is the token's `refusal`, one of five: with code 3, with
revert wording only, with transport wording beside it (a reason is the token's to
choose), wrapped in an HTTP error, or with wording nobody knows. If the node
failed, it is any of four, the same for the calls of one analysis. `isRevert`
recognises the first two refusals and none of the others, which is what
`packages/analysis/src/dex.test.ts` 53-65 asserts; so the promise for a trap
(`TrapIsCaught`) is in two parts: critical for an answer that proves the revert, a
visible gap and an incomplete category for one that does not.

### ArcDiscovery

| Model | Code |
|---|---|
| `rows`, `named`, `cursor`, `pairCursor`, `inventory` | `Token` rows and their names, `arc_token_discovery`, `arc_apexiswap_pairs`, the health row of the inventory |
| `ReadHead`, `ScanPairs` | the head from the explorer or the node; the pair log |
| `ListPage`, `StorePage`, `ListFails` | the explorer's inventory: a lookup, then `createMany`, which another writer may make fail |
| `BeginScan`, `ScanBlock`, `UnreadBlock`, `Commit` | the blocks since the cursor |
| `Abort` | a write outside the scans throws, or the worker dies |
| `InventoryAges`, `NewBlock`, `Analyse` | time, the chain, and analyses that write the same rows: external |

`start` and `codeless` are history variables: where the scan behind the cursor
began, and which creations were passed over because their code read answered
null. Blocks are fetched in batches but walked in order, so one block is a step.

### AnalysisBacklog

`known` and `done` are the tokens with a row and with `analysisUpdatedAt`;
`jobs` is, for the two loops and the API's request, the job of this hour per
token. `Discover`, `OfferFound`, `Backfill` and `Ask` put jobs there; `Start`,
`EventsRead`, `EventsFail` and `Finish` are a job with its attempts; `HourTurns`
is the change of the hour in the job id together with the removal of failed jobs.
`inline` is a worker that found no Redis when it started: its loops run their
tokens one after the other and are busy meanwhile. `Offered` and `Asked` bound
the tokens that come from discovery and from readers; any may be in the backlog. `cachedEvents` is the read of
the confirmed events that concurrent jobs share. `Broken` tokens always throw.

### AlertEngine

`ReadEvents` and `Page` are a tick: the recent confirmed events are read once,
then the watchlist is paged by the id of its last row, and each alert is upserted
under its key. `AddWatch` and `DropWatch` are the routes of `watch.ts`, `Review`
is `admin.ts`, `Age` the six hours, `Reanalyse` an analysis. An emit that fails
is reported and skipped; `Abort` is a read that throws.

### RobinhoodIndexer

`Begin`, `ListPage` and `Finish` are the pass; `Take`, `ReadCreation`,
`StoreWallet`, `ReadHolders`, `CreateHeavy`, `ReadTransactions` and
`CreateSerial` are the awaits of one lane over one token. The find of
`createRhEvent` is a step before its create, as other lanes run in between. Calls
about a creator are memoised for a pass with their errors. `repeated` is a
history variable: what the shifting pages listed twice.

### ContractPage

| Model | Code |
|---|---|
| `request[q]` | the locals of one request of `GET /observed-mainnet/tokens/:address` |
| `Ask` | the stored row is read |
| `ExplorerAnswers`, `ExplorerSilent` | the explorer's three pages, or none: then a cached read that is fresh |
| `ReadNode`, `cache` | code and metadata calls; `rpcReadCache` with its age and its cap |
| `StoreLive`, `StoreView` | what is written back, and the answer |
| `Throws`, `ApiRestarts` | errors; the cache is lost |
| `StorePage`, `StoreCreator` | the inventory and the holder index, which write the same row |
| `Deploy`, `Tick` | the chain and the clock: external |

### BridgeWatch

`Ask` is the route of `/bridge-watch`: a snapshot that is there is served, an
expired one starts a refresh behind the reader, and without one the reader waits
for the refresh all share, or is refused within the backoff. `Loaded` and
`LoadFails` end it; `Expire`, `BackoffEnds` and `ApiRestarts` are the clock and
the process.

### Worker

The worker's `loop`s and the API's routes share no memory, only tables, and what
others write into a part's tables is an action of that part. So `Worker` puts
the parts into one specification without multiplying their states: `part`, chosen
initially, moves, and the others rest (`Rest`). The analysis is extended, the
other parts are instances with constants of their own, since the chains have
different tokens and page limits. The properties of `Worker` are those of the
parts, and so are its assumptions: positive limits, finite watchlists, numbers
for intervals. `MCWorker` gives the constants values.

## 3. What TLC checks

| Run | Instance | What it shows |
|---|---|---|
| `holder_index` | one token, 3 addresses, 5 blocks, windows of 1 block, 2 per run, `VerifyTop` 1, `FallbackLimit` 2, 2 faults anywhere but between transaction and cursor; and two tokens in batches of one; fair | `TypeOK`, `CarriedRowsAreWhole`, `PublishedCountIsTrue`, `CountMatchesRows`, `HealthyOnceIndexed`, `NoTokenStarved`, `EventuallyPublished` |
| `holder_crash` | as `holder_index`, with kills in the gap too | **violates** `PublishedCountIsTrue` |
| `analysis_store` | one process, three runs, one fault, reviewers between the transactions, fair | `TypeOK`, `ReviewedRowsAreCurrent`, `OneEventPerTitle`, `ResolvedOnEvidence`, `VerdictOverLandedChildren`, `ReviewStandsOnItsProof`, `MetadataKept`, `QueueDrains` |
| `analysis_races` | two processes, three runs, one fault, reviewers anywhere | `ScoredIsShown`, `DecisionsSurvive` |
| `analysis_funders` | two findings of one key | **violates** `EveryFindingHasRow` |
| `analysis_review` | reviewers anywhere | **violates** `ReviewStandsOnItsProof` |
| `bridge_ledger` | one EVM and one Solana burn, all writers, one rejected run, restarts | `ConfirmedIsMinted`, `ReadyIsComplete`, `HealthyMeansSettled`, `ConfirmedWhileRunsResolve`, `UnavailableReplacesNothing` |
| `bridge_overlap` | two EVM burns, one rejected run and the next | **violates** `ConfirmedForever` |
| `cctp_history` | three transactions and an arrival, pages of 2, newest 1, memory 1, one script, 2 faults, fair | `TypeOK`, `NoBurnRetired`, `CursorPromise` (refinement of `PageCursor`), `HistoryIndexed` |
| `cctp_asked_again` | four transactions, no faults | **violates** `AskedAgain` |
| `analysis_complete` | the tokens and failing reads of `MCTokenAnalysis` | **violates** `CompleteIsExamined` |
| `worker` | the parts of `Worker` as `MCWorker` bounds them, fair | of the analysis `CriticalIsFounded`, `LowIsEarned`, `TrapIsCaught`, `CompleteIsExact`, `HopsCountEvidence`; `NoCreationSkipped` and `DiscoveryCatchesUp`; `BacklogDrains`; `WatchersHear`; `OneEventADay`; `AbsenceIsRead`; `FeedComesBack`; `NoRowForgotten`; `WorkerTypeOK` over all |

**Bounds.** `holder_index`: five blocks with two per run make three capped
attempts for a cold token, so a fold is continued twice; windows of one block
let a scan be cut at every block; with one verified holder of up to three the
comparison misses disagreements further down, as five of many do; two addresses
in a fallback of three holders make it a proper sample; two faults allow a
failed fallback whose rescan fails. The histories are all paths of three moves
from one distribution, a rebasing token and one that mints silently.
`analysis_*`: three runs are what it takes to review, retire, and fire again;
the one fault can hit before any statement; the results make a finding seen,
gone, less severe, or unreadable. `bridge_ledger`: the properties speak of one
row at a time and no writer reads one row to write another, so one burn of each
kind is enough, except for the lanes of a run, which `bridge_overlap` needs two
burns for. `cctp_history`: three transactions make a full page and a last one
that is not, so the walk has a middle and an end; fewer newest signatures than a
page holds, as 20 and 40 are; a memory of one makes every eviction happen.
`worker`: the analysis is of 28 tokens that differ from an ordinary one in what
some finding is about, or in how their reverts look, under 36 outcomes of its
reads - each one failing alone, in each of four ways,
the pairs that stand in for or follow each other, each list cut short - with and
without the round trip; three wallets, the pair and a burn address, of which the
two largest count, make ties, exclusions and cuts happen. A graph keeps 10 edges
(40 in the code), which one of the tokens exceeds; both numbers meet
`EdgeAssumption`: more than two edges per compared address, and one. Discovery has three
tokens of which two share a block, two listed on two pages and one paired, with
one block per poll and one fault. The backlog has three tokens for a batch of two: one that always
fails comes first, and the last of the ranking is offered by nobody and asked for
by nobody, so it is only reached through the batch; one job at a time, two
attempts, a fault. Alerts: two watchers on two pages, two events of which a tick
takes one, a fault. Robinhood: three tokens, two lanes, pages of one that shift,
a fault. Contract page: two overlapping requests for one contract, without an
explorer and with one that gives either of two views, one tick against a window
of one, a cache of one and a fault. Bridge page: two readers, two faults. Schedule: three
rows, one of them fed, a run takes one, a fault. The proofs remove all these
bounds for the safety properties they cover.

**Fairness.** `holder_index` assumes weak fairness of the indexing loop as a
whole, since the worker's `loop` re-arms its timer after every run, whatever its
outcome (`apps/worker/src/index.ts` 27-38), and every RPC and query has a
timeout. It does not assume that any call succeeds: faults are bounded instead,
so "once failures stop". `QueueDrains` assumes weak fairness of each run's next
statement: one that was issued is answered or throws. A run waiting for another
transaction's locks is not assumed to proceed until they are released.
`HistoryIndexed` assumes weak fairness of the worker, with failures bounded; the
script owes nothing, and may stop half-way. In `worker` the loops are weakly fair
for the same reason as the holder index's: `Poll`, `Backfill`, `ReadEvents`,
`Page`, `Select`, `EndRun`. So is what was issued and has a timeout or an end:
`Finish`, `EventsRead`, `Loaded`, a `Check`. And the clock: `InventoryAges`,
`HourTurns`, `BackoffEnds`, `TimePasses`. A waiting job of the backlog is strongly
fair, `Start("backfill", t)`, because BullMQ's queue is first in, first out and
the other kinds cannot pass it for ever. `FeedComesBack` assumes that its readers
keep asking, as an open page does: the snapshot is only renewed when somebody
asks. Nothing is assumed of users, reviewers, the chain's growth, the feed's
refreshes (which move rows of the schedule), or the success of any call.

**Deadlock.** The instances of `AnalysisStore` stop when all their runs have
ended, and an EVM source has no more steps once it is exhausted
(`CHECK_DEADLOCK FALSE`); elsewhere deadlock is checked.

**The violations.** Each contradicts a comment of the code, quoted in
`PROJECT.json`:

1. *A crash between rows and cursor* (`holder_crash`). The transaction and the
   cursor are two writes. Killed in between, the next run folds the same blocks
   again; when the five largest balances agree by chance, or the error is below
   them, the wrong count is published.
2. *Findings that share a name* (`analysis_funders`). Rows are matched by
   `category::name`, which two funder groups have in common: once one of them is
   reviewed, the other loses its row.
3. *A review during a run* (`analysis_review`). The events are read before the
   transaction that rewrites them, so a decision made in between has its
   evidence replaced.
4. *Lanes of a rejected run* (`bridge_overlap`). The settlement update has no
   guard; a lane left over from a rejected run can undo the confirmation the
   next run wrote.
5. *A signature Circle had not indexed yet* (`cctp_asked_again`). It is not
   retired, but the first run's cursor moves past it, and outside the newest 20
   it is not asked about again.
6. *Complete but not examined* (`analysis_complete`). The completeness flag of a
   category counts the reads of the analyzer that owns it, not those it leans on
   through others: an unread `owner()`, transfer page, pair, creator, supply, or
   a list cut short leaves the category "complete" with findings missing or, for
   an unread pair, invented. `CompleteIsExact` is what the flags do promise: the
   whole truth once those reads answered too (`LeansOnAnswered` names them).
   `market_behavior` is left out of it. The category has no entry among the flags
   and no analyzer, so it is always published as complete, which the comment at
   `packages/analysis/src/pipeline.ts` 349-351 warns of; there is nothing a model
   could compare it with.

## 4. What is proved

All proofs are checked by TLAPS, for every value of the constants that the
named assumptions of the modules allow (finite token and address sets, histories
that start with no balances, positive bounds; `KeyOf`, `CategoryOf` and
`ClassOf` functions of the right domains; disjoint burns).

* **`HolderIndexerProofs`** - `TypeCorrect` and `HealthIsEarned`, wherever the
  worker is killed; `CarriedRowsWhole`, `PublishedCountTrue` and
  `CountAndRowsAgree` under `Spared(Tokens)`: no attempt is cut short between
  the transaction and the cursor write. The hypothesis is not a convenience:
  `holder_crash` shows the theorems false without it. It is stated token by
  token: `DamageStaysWithItsToken` is the same promise for any set of tokens
  whose own attempts are spared, whatever happens to the others of the same
  batches, so what a crash spoils is one token's. The inductive invariant, over
  such a set, says, of the attempt in progress,
  that its scan continues the cursor or starts at the deploy block (`WorkOK`),
  that its fold is the balance set of the block it reached (`FoldOK`), and that
  after the transaction the rows are that fold (`CommitOK`); and that a stored
  deploy block has code (`DeployOK`). The key step is that carrying a whole set
  of block m and adding the logs m+1..n gives the whole set of block n.
* **`AnalysisStoreProofs`** - for any number of processes, runs, findings and
  faults. Without further hypotheses, reviewers acting at any point:
  `TypeCorrect`, `ScoredShown`, `DecisionsKept`, `QueueInvariant` (no two writes
  of one process overlap), `EventsDistinct` (no event is opened twice). The
  invariant needs that rows of different runs have different identities
  (`IdsOK`), that no two transactions hold the same row (`LocksOK`), and that
  what a transaction read as reviewed is still there and reviewed (`ReadsOK`),
  which holds because nothing clears or deletes a decision.

  The other promises of the store are false in general, which the code concedes,
  and each theorem names what it takes:

  | Theorem | Property | Hypothesis |
  |---|---|---|
  | `ReviewStands` | `ReviewStandsOnItsProof` | `NoReviewInRefresh`: no review between the read of the events and their write |
  | `MetadataKeptSerially` | `MetadataKept` | `[]Serial`: no two runs are being written |
  | `OneEventSerially`, `ResolvedSerially` | `OneEventPerTitle`, `ResolvedOnEvidence` | `[]Serial` |
  | `ReviewedRowsSerially` | `ReviewedRowsAreCurrent` | `[]Serial` and `NoOverrideInTransaction` |
  | `VerdictLanded` | `VerdictOverLandedChildren` | `OneProcess` |

  `analysis_review` shows that `ReviewStands` needs its hypothesis. `Serial` is
  a condition on the behaviour: two processes that persist one token at
  different times meet it. `QueueSerializes` proves it for `OneProcess`, from
  `QueueInvariant`, so that `OneProcessStore` states the same promises with no
  word about overlapping. The invariants say what a run has read and not yet
  used: the metadata (`KnownOK`), the review of each event (`StatusOK`), which
  events there are and whether they are closed (`TitlesOK`), the reviewed and
  the deletable rows (`TransactionOK`); then every row is current, reviewed or
  not (`RowsCurrent`). For the verdict, what a run has stored is what is there
  while it goes on, and the stored verdict is of a run that ended (`LandedOK`):
  as runs of a process end in order, later ones only replace its children.
* **`BridgeLedgerProofs`** - `ConfirmedTrue`, `ReadyTrue`, `HealthEarned`,
  `ConfirmationsKept`, `AnswersKept`, for any burns and any number of rejected
  runs. The
  invariant carries the truth of the statuses to the values in flight
  (`FlightOK`: a check about to write "confirmed" has seen the mint), says that
  until a run rejects only one generation of checks is active (`AloneOK`) and
  never holds a confirmed row (`LanesOK`), and that a due burn is confirmed,
  about to be, or counted as a problem (`DueOK`). For `AnswersKept`, only a row
  that is being created carries the status of no answer (`AnswersOK`).
  `OnlyChecksWalkBack` says who is to blame once a run has rejected: rows stay,
  and nothing but the write of a settlement check takes a confirmation back -
  never the feed, a backfill or the Solana indexer, whose updates are guarded.
  `bridge_overlap` shows that such a write is possible.
* **`CctpHistoryProofs`** - `TypeCorrect`, `BurnsStay`, `CursorKeepsPromise` (the
  refinement of `PageCursor`), for histories and pages of any size, any number
  of scripts and any failures, under `HistoryAssumption`. The invariant says of
  every cursor, stored or in some scanner's memory, that it has passed only what
  was answered for (`CursorOK`); that of a page being worked through, whatever
  the next cursor would pass was answered for, is still to be done, or was not
  read (`WorkOK`); that the resolved were answered for (`ResolvedOK`); and that
  burns past the window are indexed (`AgeOK`), which is Circle's part. Since the
  script's cursors are covered too, it does not matter which of the two owners
  of the row writes last.

* **`ContractPageProofs`** - `AbsenceHolds`: `AbsenceIsRead` for any addresses,
  requests, fields, explorer, a natural `Ttl` and a positive `CacheMax`. The
  invariant says of every remembered read that found no code that it is at least
  as old as the code, and carries that to the requests that took one.
  `TypeCorrect`: among the types, that the cache keeps within `CacheMax`, which
  it makes room for before it grows.
* **`RobinhoodIndexerProofs`** - `FiledOnce`: `OneEventADay` for any number of
  lanes and tokens and natural `PageSize`. Nothing locks the find and the create;
  what saves the event is that a pass hands every token to one lane. The
  invariant says that two lanes hold the same token, or a lane holds one that is
  still to come, only if it was listed twice; and that what a lane did not find
  is still not there. `TypeCorrect` for the rest of its variables.
* **`TokenAnalysisProofs`** - `TrapCaught`, `HopsTrue`, `CriticalFounded`,
  `LowEarned`, `CompleteExact`, `TypeCorrect`: for every set of tokens, holder
  lists, events, page budgets and outcomes of the reads, from the named
  assumptions of `TokenAnalysis` and `HolderSignals` alone (a finite set of
  accounts, a creator among them, selectors the table knows, a known shape of
  refusal, shares that are natural numbers, and room in a graph for the edges of the compared addresses).
  There are two invariants. `IInv` follows a trap's answer to
  the report, where it becomes the critical finding or the gap (`TrapOK`), and the
  creator's past to the graph. `Collected` says, stage by stage, that every
  variable is what the analyzers make of the token and its answers, and that the
  report's level is `Verdict` of all findings. Then:

  * `TrapCaught`: which of the two a trap becomes is decided by its refusal alone
    (`TrapProven`), whatever the node throws for other calls.
  * `HopsTrue`: every link shows an event or is one of two identities of one of at
    most `Candidates + 2` addresses (`LinkOK`, `RankedOK`, `LookedFew`). So at
    most `EdgeLimit` edges can stand at or before the one from the creator to its
    funder, and it is kept (`FundingKept`); that is what `EdgeAssumption` is for.
  * A level is a weighted sum over sets of findings. The statements about such
    sums are proved for every finite set, of a set without a smaller
    counterexample, strict inclusion being well-founded on finite sets: sums
    exist and are unique, they split off an element, they are monotone, and a
    score lies between the bounds of its categories.
  * `CriticalFounded`: without a critical finding each category scores at most
    70, so the overall score stays below the critical threshold; and each
    analyzer's critical finding has its fact (`Rated`). Of a list cut short the
    shares are at most those of the whole list (`ListedClosed`).
  * `LowEarned`: the liquidity and the round trip findings of anything unread or
    unsold weigh at least 45, which is more than the lowest level admits.
  * `CompleteExact`: for each category, its findings are the same function of
    the reads that the completeness flag and `LeansOnAnswered` cover.

* **`WorkerProofs`** - the promises of the parts of `Worker`, as the `worker` run
  checks them and for every value of the constants its assumptions allow:
  `WorkerTypes` (`WorkerTypeOK`), `CreationsScanned` (`NoCreationSkipped`),
  `SignalsFiledOnce` (`OneEventADay`), `AbsenceWasRead` (`AbsenceIsRead`). The
  inductive invariant is the conjunction of the parts' own (`WorkerInv`);
  whichever part moves, each makes a step of its own or rests (`OneMoves`), so
  each keeps its conjunct. The analysis, the contract page and the Robinhood
  indexer bring theirs from the modules above. The others are here:

  * Discovery: between the scan's first block and the next one to read,
    everything is stored or codeless; a stored cursor has a scan behind it that
    began at `start`; and a scan continues the cursor or has none to continue.
  * The bridge feed: one load runs while the shared promise is set, and none
    else (`OneRefresh`).
  * The queue and the settlement schedule: their types are inductive. That an
    unconfirmed row is in the order once is one of them, and takes the lemma on
    `Without`.
  * `LongestAskedFirst`: what a settlement run takes are unconfirmed rows, at
    most `RowsPerRun`, and a due row is passed over only for as many others that were
    left alone for longer. It is the safety half of `NoRowForgotten`.
  * `NobodyIsPassedOver`: a page of the alert tick that is reported whole leaves
    an alert for all that is due to each watcher it moves past, however the
    watchlist is edited between pages, unless the row at the cursor was deleted.
    It is the safety half of `WatchersHear`. Both rest on `FirstOf`: of the first
    n elements of a finite set of numbers there are at most n, and an element
    is left out only for n smaller ones.

**Only model-checked**: the liveness properties (`NoTokenStarved`,
`EventuallyPublished`, `QueueDrains`, `HistoryIndexed`, `DiscoveryCatchesUp`,
`BacklogDrains`, `WatchersHear`, `FeedComesBack`, `NoRowForgotten`), since the
prover handles neither ENABLED nor fairness; and what the runs that expect a
violation show. Every safety property of a passing run is a theorem, under the hypotheses named above. TLC
evaluates the assumptions of a module in the runs that extend it.

**Known limits of those properties.** `ReviewedRowsAreCurrent` does not hold when
an override lands inside the findings transaction, and `MetadataKept` and
`OneEventPerTitle` not across two processes; the comment at
`packages/db/src/analysis.ts` 107-112 concedes the latter. `ScoredIsShown`,
`DecisionsSurvive` and `EventsDistinct` are what remains true in general.
`CriticalIsFounded` excepts a token that has a pair which could not be read: its
pool then counts as a holder. `TrapIsCaught` promises a critical level only for
refusals `isRevert` recognises; one without code 3 whose text reads like a
transport error, that came with an HTTP error or has unknown wording is, as the
code intends, never more than a gap. `CompleteIsExact` leaves `market_behavior` out. `NoCreationSkipped` excepts creations whose code read
answered null, which `packages/chain/src/rpc.ts` 190-194 admits. `BacklogDrains`
is for fewer always-failing tokens than a batch: as many hold the backlog up for
good. `WatchersHear` is for events that stay among the recent ones: a review
that takes six hours alerts nobody. `OneEventADay` excepts tokens the shifting
pages listed twice. `NoRowForgotten` excepts the rows the feed keeps writing:
they move to the end of the order with every refresh, and between a day and a
week old they are not even due. On the contract page, `StoreLive` writes back
fields as the request found them, over what was stored meanwhile, the explorer's
view replaces a known creator by nothing, and an explorer that gives no supply
leaves concentration out of the level; the model has these steps and no property
excludes them.

## 5. Not modelled

The web front end renders and keeps no shared state. Chain clients are I/O: the
components that use them model their failures. Explorer text decoding, address
formatting, amounts and wording are data no property tells apart. The simulator
contract keeps no state. Scripts other than the backfill run once, by hand.
Health rows that nothing reads back (`evm_cctp_history`, `solana_cctp`, the
Robinhood explorer's) are left out. The paging and health row of the observed
inventory, the listing of observed contracts, token search and the other routes
are single reads or writes. The cache of `routes/meta.ts`, the path search of
`routes/graph.ts` and the sign-in nonces are small and come last in the plan.
Hazards without a property are listed with the reason in `PROJECT.json`: the
deployer written back by the holder index, and a burst of more than 20 Solana
signatures between two polls.

## 6. Plan

1. `LogScan` - the windows of `scanTransfers` and the blocks of discovery as
   implementations of one abstract "contiguous prefix" specification.
2. `GraphPath` - the bounded search against a reference definition;
   sign-in nonces.
3. Proof: that the statuses of a `SettlementSchedule` and its lanes are a
   behaviour of `BridgeLedger`, whose runs may take any unconfirmed rows.
