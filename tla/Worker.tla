------------------------------- MODULE Worker --------------------------------
(***************************************************************************)
(* The worker's loops, the analysis they run and two reads of the API.  The *)
(* loops main starts (apps/worker/src/index.ts) and the routes share no     *)
(* memory: every behaviour here moves one part and leaves the others at     *)
(* rest; what others write into a part's tables is an action of that part.  *)
(***************************************************************************)
EXTENDS TokenAnalysis

\* Each part's constants are described in its module.  Chains have tokens and
\* page limits of their own.  TokenStates, EventsTaken and RowsPerRun are the
\* Signals and Take of the alert engine and the Batch of the settlement schedule.
CONSTANTS
    ArcTokens, CreatedAt, PairedAt, Listing, MaxHead, FirstWindow, PairWindow, PerPoll, ArcPages,
    QueueTokens, Rank, Nameless, Broken, BatchSize, Concurrency, Attempts, Offered, Asked,
    Ids, Item, Events, Names, Grave, Weak, TokenStates, WatchPage, EventsTaken,
    RobinhoodTokens, RobinhoodCreator, Concentrated, Serial, Lanes, PageSize, RobinhoodPages,
    Addresses, Fields, Proxies, Indexed, Views, Requests, Explorers, Ttl, CacheMax, MaxTicks,
    Readers,
    Burns, Fed, RowsPerRun,
    MaxFaults,      \* bound: what fails in a part
    FeedFaults      \* and in the feed

\* Intervals and limits are numbers; a cache has room and a block scan a chain.
ASSUME DiscoveryAssumption == FirstWindow \in Nat /\ PerPoll \in Nat /\ MaxHead \in Nat \ {0}
ASSUME QueueAssumption == Attempts \in Nat
ASSUME WatchAssumption ==
    /\ Ids \subseteq Nat \ {0} /\ IsFiniteSet(Ids)
    /\ WatchPage \in Nat \ {0}
    /\ TokenStates \subseteq SUBSET {"high_risk", "critical_risk", "cannot_sell", "linked_creator"}
ASSUME RobinhoodAssumption == PageSize \in Nat
ASSUME PageAssumption == Ttl \in Nat /\ CacheMax \in Nat \ {0} /\ MaxTicks \in Nat
ASSUME ScheduleAssumption == RowsPerRun \in Nat \ {0}

VARIABLES
    part,           \* the one that moves
    faults,
    head, rows, named, cursor, pairCursor, inventory, poll, start, codeless,
    known, done, inline, jobs, cachedEvents,
    watches, status, recent, token, alerts, tick,
    listing, pass, lane, events, wallets, unreadCreators, repeated,
    configured, deployed, row, cache, request, reply, ticks,
    snapshot, inFlight, loads, blocked, reader,
    age, order, since, confirmed, lanes, running

analysisVars == vars
discoveryVars == <<head, rows, named, cursor, pairCursor, inventory, poll, start, codeless>>
backlogVars == <<known, done, inline, jobs, cachedEvents>>
alertVars == <<watches, status, recent, token, alerts, tick>>
passVars == <<listing, pass, lane, events, wallets, unreadCreators, repeated>>
pageVars == <<configured, deployed, row, cache, request, reply, ticks>>
feedVars == <<snapshot, inFlight, loads, blocked, reader>>
settlementVars == <<age, order, since, confirmed, lanes, running>>
workerVars == <<part, faults, analysisVars, discoveryVars, backlogVars, alertVars, passVars,
                pageVars, feedVars, settlementVars>>

Discovery == INSTANCE ArcDiscovery WITH Tokens <- ArcTokens, MaxPages <- ArcPages
AnalysisLoop == INSTANCE AnalysisBacklog WITH Tokens <- QueueTokens
Engine == INSTANCE AlertEngine WITH Signals <- TokenStates, Take <- EventsTaken
Robinhood == INSTANCE RobinhoodIndexer WITH
    Tokens <- RobinhoodTokens, Creator <- RobinhoodCreator, MaxPages <- RobinhoodPages
Page == INSTANCE ContractPage
Feed == INSTANCE BridgeWatch WITH MaxFaults <- FeedFaults
Settlement == INSTANCE SettlementSchedule WITH Batch <- RowsPerRun

-----------------------------------------------------------------------------

Parts == {"analysis", "discovery", "backlog", "alerts", "robinhood", "page", "feed", "settlement"}

WorkerInit ==
    /\ part \in Parts
    /\ Init /\ Discovery!Init /\ AnalysisLoop!Init /\ Engine!Init /\ Robinhood!Init /\ Page!Init
    /\ Feed!Init /\ Settlement!Init
    /\ part # "backlog" => ~inline
    /\ part # "page" => configured = CHOOSE e \in Explorers : TRUE

Analysis == Next /\ UNCHANGED <<part, faults, discoveryVars, backlogVars, alertVars, passVars,
                               pageVars, feedVars, settlementVars>>

Rest(moved) ==
    /\ UNCHANGED <<part, analysisVars>>
    /\ moved # "discovery" => UNCHANGED discoveryVars
    /\ moved # "backlog" => UNCHANGED backlogVars
    /\ moved # "alerts" => UNCHANGED alertVars
    /\ moved # "robinhood" => UNCHANGED passVars
    /\ moved # "page" => UNCHANGED pageVars
    /\ moved # "feed" => UNCHANGED feedVars
    /\ moved # "settlement" => UNCHANGED settlementVars

WorkerNext ==
    \/ part = "analysis" /\ Analysis
    \/ part = "discovery" /\ Discovery!Next /\ Rest("discovery")
    \/ part = "backlog" /\ AnalysisLoop!Next /\ Rest("backlog")
    \/ part = "alerts" /\ Engine!Next /\ Rest("alerts")
    \/ part = "robinhood" /\ Robinhood!Next /\ Rest("robinhood")
    \/ part = "page" /\ Page!Next /\ Rest("page")
    \/ part = "feed" /\ Feed!Next /\ Rest("feed")
    \/ part = "settlement" /\ Settlement!Next /\ Rest("settlement")

\* The fairness of each part, for the part that moves.
WorkerFairness ==
    /\ WF_discoveryVars(part = "discovery" /\ Discovery!Poll)
    /\ WF_discoveryVars(part = "discovery" /\ Discovery!InventoryAges)
    /\ WF_backlogVars(part = "backlog" /\ AnalysisLoop!Backfill)
    /\ WF_backlogVars(part = "backlog" /\ AnalysisLoop!EventsRead)
    /\ WF_backlogVars(part = "backlog" /\ AnalysisLoop!HourTurns)
    /\ \A k \in AnalysisLoop!Kinds, t \in QueueTokens :
          WF_backlogVars(part = "backlog" /\ AnalysisLoop!Finish(k, t))
    /\ \A t \in QueueTokens : SF_backlogVars(part = "backlog" /\ AnalysisLoop!Start("backfill", t))
    /\ WF_alertVars(part = "alerts" /\ Engine!ReadEvents)
    /\ WF_alertVars(part = "alerts" /\ Engine!Page)
    /\ WF_feedVars(part = "feed" /\ Feed!Loaded)
    /\ WF_feedVars(part = "feed" /\ Feed!BackoffEnds)
    /\ \A r \in Readers : WF_feedVars(part = "feed" /\ Feed!Ask(r))
    /\ WF_settlementVars(part = "settlement" /\ Settlement!Select)
    /\ WF_settlementVars(part = "settlement" /\ Settlement!EndRun)
    /\ \A b \in Burns :
          /\ WF_settlementVars(part = "settlement" /\ Settlement!CheckAny("run", b))
          /\ WF_settlementVars(part = "settlement" /\ Settlement!TimePasses(b))

WorkerSafety == WorkerInit /\ [][WorkerNext]_workerVars

WorkerSpec == WorkerSafety /\ WorkerFairness
-----------------------------------------------------------------------------
(* Properties of the parts, while whichever of them moves.  Each is stated   *)
(* and explained in the part's module.                                      *)

\* Every variable of every part has its type.
WorkerTypeOK ==
    TypeOK /\ Discovery!TypeOK /\ AnalysisLoop!TypeOK /\ Engine!TypeOK /\ Robinhood!TypeOK
    /\ Page!TypeOK /\ Feed!TypeOK /\ Settlement!TypeOK

\* runArcDiscovery leaves no creation behind its cursor.
NoCreationSkipped == Discovery!NoCreationSkipped

\* A token ahead of discovery's cursor is stored, a listed one named, in the end.
DiscoveryCatchesUp == part = "discovery" => Discovery!DiscoveryCatchesUp

\* A token that always fails does not hold up the analysis backlog.
BacklogDrains == part = "backlog" => AnalysisLoop!BacklogDrains

\* Whoever goes on watching is alerted in the end.
WatchersHear == part = "alerts" => Engine!WatchersHear

\* The lanes of the Robinhood indexer file a signal once a day.
OneEventADay == Robinhood!OneEventADay

\* A contract page takes no outage for an absence.
AbsenceIsRead == Page!AbsenceIsRead

\* No row of the ledger is left out of the settlement runs for ever.
NoRowForgotten == part = "settlement" => Settlement!NoRowForgotten

\* The feed is renewed again and again.
FeedComesBack == part = "feed" => Feed!FeedComesBack
=============================================================================
