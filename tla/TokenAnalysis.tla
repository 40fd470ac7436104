--------------------------- MODULE TokenAnalysis ----------------------------
(***************************************************************************)
(* analyzeToken (packages/analysis/src/pipeline.ts): the reads that start  *)
(* together, the analyzers that need the contract's answers, the creator's *)
(* history on the other chain, and the report published over all of them.  *)
(*                                                                         *)
(* One analysis after another runs in the process; what it remembers       *)
(* between them is the base token's balance slot.  Each is run on any      *)
(* token, with any of its reads failing.                                   *)
(***************************************************************************)
EXTENDS ContractSignals, DexProbe, HolderSignals, CreatorHistory

CONSTANTS
    FactSet,        \* the tokens an analysis may be asked for
    AnswerSet,      \* which reads answer it
    OptionSet,      \* [skipCrossChain, skipSimulation] as callers pass them
    GraphRows       \* 12: holders the graph draws

ASSUME AccountsAssumption ==
    /\ Accounts \subseteq Nat /\ IsFiniteSet(Accounts)
    /\ Nobody \notin Accounts
    /\ \A f \in FactSet : f.creator \in Wallets

\* The dispatcher shows risks of SELECTOR_RISKS; a share is a whole percentage.
ASSUME FactsAssumption ==
    /\ FactSet # {}
    /\ \A f \in FactSet : /\ f.selectors \subseteq DOMAIN SelectorRisks
                          /\ f.creatorIn \subseteq {"address", "creation"}
                          /\ f.refusal \in Refusals
                          /\ f.share \in [Accounts -> Nat]

\* Every address compared is drawn twice at most, and the creation once: the
\* graph has room for them and for the creator's funder.
ASSUME EdgeAssumption ==
    Candidates \in Nat /\ EdgeLimit \in Nat /\ EdgeLimit > 2 * (Candidates + 2) + 1

ASSUME AnswersAssumption ==
    /\ AnswerSet \subseteq Answers
    /\ OptionSet \subseteq [skipCrossChain : BOOLEAN, skipSimulation : BOOLEAN]

VARIABLES
    stage,      \* how far the analysis is
    facts,      \* the token it is run on
    answer,     \* how its reads end
    options,    \* AnalyzeTokenOptions
    slot,       \* baseSlotCache, kept by the process
    contract,   \* what analyzeContract returned
    dex,        \* what analyzeApexiSwap returned, or a rejected promise
    holders,    \* what analyzeHolders returned
    found,      \* allFindings
    compared,   \* what compareCrossChain returned
    report      \* the report, with the graph

vars == <<stage, facts, answer, options, slot, contract, dex, holders, found, compared, report>>
locals == <<facts, answer, options, contract, dex, holders, found, compared, report>>

Stages == {"idle", "reading", "settling", "comparing", "scoring", "published"}

NoContract == [deployer |-> Nobody, supply |-> FALSE, codeRead |-> FALSE, failed |-> FALSE,
               findings |-> {}]
NoDex == [pair |-> FALSE, sim |-> NoSimulation, lpRead |-> FALSE, lpTop |-> 0, thrown |-> TRUE]
NoHolders == [ranked |-> {}, dataComplete |-> FALSE, linksRead |-> FALSE, findings |-> {}]
NoReport == [overall |-> "none", confidence |-> "low", findings |-> {},
             complete |-> [c \in ScoredCategories |-> FALSE], hops |-> <<>>, linked |-> FALSE]

NoToken == CHOOSE f \in FactSet : TRUE

Init ==
    /\ stage = "idle" /\ slot = "unknown"
    /\ facts = NoToken /\ answer = AllAnswered
    /\ options = [skipCrossChain |-> FALSE, skipSimulation |-> FALSE]
    /\ contract = NoContract /\ dex = NoDex /\ holders = NoHolders
    /\ found = {} /\ compared = NotCompared /\ report = NoReport

-----------------------------------------------------------------------------
(* The steps of one analysis.                                               *)

Begin(f, a, o) ==
    /\ stage = "idle"
    /\ facts' = f /\ answer' = a /\ options' = o
    /\ stage' = "reading"
    /\ UNCHANGED <<slot, contract, dex, holders, found, compared, report>>

\* The slot is only resolved on the way to a round trip.
SlotAfter(f, a, o, s) ==
    IF Executes(f, a, o.skipSimulation) THEN ResolveBaseBalanceSlot(a, s) ELSE s

DexAnswer(f, a, o, s, lost) ==
    LET d == AnalyzeApexiSwap(f, a, o.skipSimulation, SlotAfter(f, a, o, s), lost)
    IN  [pair |-> d.pair, sim |-> d.sim, lpRead |-> d.lpRead, lpTop |-> d.lpTop,
         thrown |-> FALSE]

DexGap(d) == When(d.thrown, Gap("dex-unavailable", "medium"))

\* Promise.all over the health probes, the contract, the dex and the transfer
\* page; a node that fails may do so in any way.  A malformed LP holder row
\* makes analyzeApexiSwap throw, which is caught and becomes a gap.
ReadPrologue ==
    /\ stage = "reading"
    /\ contract' = AnalyzeContract(facts, answer)
    /\ slot' = SlotAfter(facts, answer, options, slot)
    /\ \/ \E lost \in Failures : dex' = DexAnswer(facts, answer, options, slot, lost)
       \/ PairRead(facts, answer) /\ Answered(answer, "lpHolders") /\ dex' = NoDex
    /\ found' = contract'.findings \union DexGap(dex')
    /\ stage' = "settling"
    /\ UNCHANGED <<facts, answer, options, holders, compared, report>>

\* Mutant: any pair that was found closes the gap.
PairClosesGap(f, a, d) ==
    (AnalyzeLiquidity(f, a) \ When(d.pair, LiquidityUnknown))
        \union When(d.pair /\ d.lpTop >= 50,
                    TokenFinding("lp-control", "liquidity",
                                 IF d.lpTop >= 90 THEN "critical" ELSE "high"))

\* A pair closes the liquidity gap only when its LP set was read; a single
\* owner of half the LP supply is a finding.
LiquidityFindings(f, a, d) ==
    (AnalyzeLiquidity(f, a) \ When(d.pair /\ d.lpRead, LiquidityUnknown))
        \union When(d.pair /\ d.lpTop >= 50,
                    TokenFinding("lp-control", "liquidity",
                                 IF d.lpTop >= 90 THEN "critical" ELSE "high"))

NoCreator(deployer) == When(deployer = Nobody, Gap("deployer-unknown", "medium"))

\* Holders, liquidity and deployer run together once the contract is known.
SettleAnalyzers ==
    /\ stage = "settling"
    /\ holders' = AnalyzeHolders(facts, answer, contract.deployer, contract.supply, dex.pair)
    /\ found' = found \union holders'.findings \union LiquidityFindings(facts, answer, dex)
                      \union NoCreator(contract.deployer)
    /\ stage' = "comparing"
    /\ UNCHANGED <<facts, answer, options, slot, contract, dex, compared, report>>

\* An analyzer that throws ends the analysis; nothing is published.
AnalyzerThrows ==
    /\ stage = "settling"
    /\ stage' = "idle"
    /\ facts' = NoToken /\ answer' = AllAnswered
    /\ options' = [skipCrossChain |-> FALSE, skipSimulation |-> FALSE]
    /\ contract' = NoContract /\ dex' = NoDex /\ found' = {}
    /\ UNCHANGED <<slot, holders, compared, report>>

Compares == ~options.skipCrossChain /\ contract.deployer # Nobody

\* The creator, its funder and the five largest holders are compared; what a
\* malformed row throws is caught, and nothing of the comparison is kept.
CompareCreator ==
    /\ stage = "comparing"
    /\ \/ Compares /\ compared' = CompareCrossChain(facts, answer, contract.deployer,
                            ComparedAddresses(contract.deployer, FirstFunder(facts, answer),
                                Largest(facts, holders.ranked, Candidates)))
       \/ Compares /\ compared' = ComparisonThrown
       \/ ~Compares /\ compared' = NotCompared
    /\ found' = found \union compared'.findings
    /\ stage' = "scoring"
    /\ UNCHANGED <<facts, answer, options, slot, contract, dex, holders, report>>

\* dataSources: an RPC that is not configured, and an explorer that was not
\* asked, are not used; a source is healthy when its probe answered.  The
\* explorer of a comparison that threw is listed again, as unhealthy.
UsedSources ==
    {"head"} \union When(facts.rpc, "node") \union When(Compares, "abroadHead")
        \union When(compared.thrown, "abroadAgain")
HealthySources == {s \in UsedSources \ {"abroadAgain"} : Answered(answer, s)}

\* The round trip's hint: none when it was skipped, or the dex read threw.
SimulationHint == IF options.skipSimulation \/ dex.thrown THEN {} ELSE {dex.sim}

\* The label of the creator's profile, if there is a creator.
ProfileLabel ==
    IF contract.deployer = Nobody THEN "none" ELSE HistoryLabel(facts, answer)

\* Mutant: a category without an incomplete flag of its own is complete.
AssumedComplete(c) ==
    CASE c = "contract"             -> ~contract.failed
      [] c = "holder_concentration" -> holders.dataComplete
      [] c = "deployer_history"     -> ProfileLabel # "unknown"
      [] OTHER                      -> TRUE

\* analyzerCompleteness; market_behavior has no entry and keeps the default.
AnalyzerComplete(c) ==
    CASE c = "contract"             -> ~contract.failed /\ contract.codeRead
      [] c = "owner_admin"          -> contract.codeRead
      [] c = "buy_sell"             -> SimulationHint # {} /\ dex.sim.complete
      [] c = "liquidity"            -> dex.lpRead
      [] c = "holder_concentration" -> holders.dataComplete
      [] c = "insider_links"        -> holders.linksRead
      [] c = "deployer_history"     -> ProfileLabel \in {"limited_history", "established"}
      [] c = "cross_chain"          -> compared.complete
      [] c = "market_behavior"      -> TRUE

GraphHolders ==
    {h \in Largest(facts, holders.ranked, GraphRows) : ~IsService(h, dex.pair)}

ProfileFunder == IF contract.deployer = Nobody THEN Nobody ELSE FirstFunder(facts, answer)

\* buildFundingGraph over what was collected: its edges, and the distances over
\* the ones that are kept.
DrawnEdges == GraphEdges(contract.deployer, ProfileFunder, GraphHolders, compared.links)

Hops(kept) ==
    HopsToRisk(GraphWallets(contract.deployer, ProfileFunder, GraphHolders, compared.links),
               kept, compared.links)

\* buildRiskReport, the graph and the detail record.
Publish ==
    /\ stage = "scoring"
    /\ \E kept \in KeptEdges(DrawnEdges) :
       LET scored == BuildRiskReport(found, SimulationHint, ProfileLabel, UsedSources,
                         HealthySources, [c \in ScoredCategories |-> AnalyzerComplete(c)])
       IN  report' = [overall |-> scored.overall, confidence |-> scored.confidence,
                      findings |-> scored.findings, complete |-> scored.complete,
                      hops |-> Hops(kept), linked |-> \E l \in compared.links : l.events # {}]
    /\ stage' = "published"
    /\ UNCHANGED <<facts, answer, options, slot, contract, dex, holders, found, compared>>

\* The caller has the result; the next analysis starts from nothing.
Return ==
    /\ stage = "published"
    /\ stage' = "idle"
    /\ facts' = NoToken /\ answer' = AllAnswered
    /\ options' = [skipCrossChain |-> FALSE, skipSimulation |-> FALSE]
    /\ contract' = NoContract /\ dex' = NoDex /\ holders' = NoHolders
    /\ found' = {} /\ compared' = NotCompared /\ report' = NoReport
    /\ UNCHANGED slot

\* Sixty seconds pass since the discovery failed.
SlotExpires ==
    /\ slot = "failed"
    /\ slot' = ExpiredSlot(slot)
    /\ UNCHANGED <<stage, locals>>

\* Other analyses of the process use the slot too.  One of their probes, begun
\* before the slot was known, ends and overwrites what the process remembers,
\* whatever that is by now.  Only ReadPrologue reads the slot, so the write is
\* taken between analyses.
ProbedElsewhere ==
    /\ stage = "idle"
    /\ slot' \in {"resolved", "failed"}
    /\ UNCHANGED <<stage, locals>>

-----------------------------------------------------------------------------
Next ==
    \/ \E f \in FactSet, a \in AnswerSet, o \in OptionSet : Begin(f, a, o)
    \/ ReadPrologue \/ SettleAnalyzers \/ CompareCreator \/ Publish \/ Return
    \/ AnalyzerThrows \/ SlotExpires \/ ProbedElsewhere

Spec == Init /\ [][Next]_vars
-----------------------------------------------------------------------------
(* Properties.                                                              *)

Published == stage = "published"

\* Every variable has its type; the report says something of each category.
TypeOK ==
    /\ stage \in Stages /\ slot \in SlotStates
    /\ facts \in FactSet /\ answer \in Answers
    /\ options \in [skipCrossChain : BOOLEAN, skipSimulation : BOOLEAN]
    /\ contract.deployer \in Wallets \union {Nobody}
    /\ holders.ranked \subseteq Accounts
    /\ report.overall \in Levels \union {"none"}
    /\ report.confidence \in {"low", "medium", "high"}
    /\ DOMAIN report.complete = ScoredCategories
    /\ \A x \in found : x.category \in Categories /\ x.severity \in Severities

\* The same token with every read answering and nothing skipped.
WholeContract == AnalyzeContract(facts, AllAnswered)
WholeDex == DexAnswer(facts, AllAnswered, [skipSimulation |-> FALSE], "resolved", Unknown)
WholeHolders == AnalyzeHolders(facts, AllAnswered, WholeContract.deployer,
                               WholeContract.supply, WholeDex.pair)
WholeFound ==
    WholeContract.findings \union WholeHolders.findings
        \union LiquidityFindings(facts, AllAnswered, WholeDex)
        \union SimulationFindings({WholeDex.sim})
        \union DeployerFindings(HistoryLabel(facts, AllAnswered))
        \union CompareCrossChain(facts, AllAnswered, WholeContract.deployer,
                  ComparedAddresses(WholeContract.deployer, FirstFunder(facts, AllAnswered),
                                    Largest(facts, WholeHolders.ranked, Candidates))).findings

Examined(c) == InCategory(report.findings, c) = InCategory(WholeFound, c)

\* "A category is only called complete when the reads behind it actually
\* answered" (pipeline.ts:348): a category published as complete shows what an
\* analysis with every read answering would show.
CompleteIsExamined ==
    Published => \A c \in ScoredCategories : report.complete[c] => Examined(c)

\* The reads of other analyzers a category leans on without counting them.  No
\* analyzer examines market_behavior, which is published as complete all the
\* same: there is nothing its flag could promise.
LeansOnAnswered(c) ==
    CASE c = "owner_admin"          -> Answered(answer, "owner")
      [] c = "liquidity"            -> Answered(answer, "transfers")
      [] c = "holder_concentration" -> dex.pair = WholeDex.pair
      [] c = "insider_links"        -> /\ dex.pair = WholeDex.pair
                                       /\ contract.deployer = WholeContract.deployer
                                       /\ contract.supply = WholeContract.supply
      [] c = "cross_chain"          -> Whole(answer, "holders") /\ Whole(answer, "deployer")
      [] c = "market_behavior"      -> FALSE
      [] OTHER                      -> TRUE

\* What the flags do promise: a complete category is the whole truth about the
\* token, once the reads it takes from other analyzers answered as well.
CompleteIsExact ==
    Published => \A c \in ScoredCategories :
        report.complete[c] /\ LeansOnAnswered(c) => Examined(c)

OwnersShare ==
    ShareSum(facts, Largest(facts, {h \in Owners(facts) : ~IsService(h, facts.pair # "none")},
                            TopHolders))

\* "A failed read is a gap, and a gap is never a critical verdict"
\* (contract.ts:308): whichever reads fail, a critical verdict rests on a fact
\* of the token.  One exception: while the pair a token has could not be read,
\* its pool counts as a holder.
CriticalIsFounded ==
    Published /\ report.overall = "critical_risk" =>
        \/ ~facts.code \/ "upgradeable" \in facts.selectors
        \/ facts.pair = "live" /\ facts.quotes /\ ~facts.sells
        \/ facts.lpTop >= 90
        \/ facts.share[facts.creator] >= 50
        \/ \E e \in facts.events : e.status = "confirmed" /\ e.class = "confirmed_malicious"
        \/ OwnersShare >= 95
        \/ facts.pair # "none" /\ ~dex.pair

\* "Unknown sell risk must not be treated as safe" (scoring.ts:96): the lowest
\* level is only given to a token whose LP set was read and which did sell,
\* unless the caller left the round trip out.
LowIsEarned ==
    Published /\ report.overall = "low_detected_risk" =>
        /\ dex.lpRead
        /\ options.skipSimulation \/ (dex.sim.sells = "yes" /\ facts.sells)

\* Refusals that say beyond doubt that the call reverted.
ProvenReverts == {CodedRevert, BareRevert}

\* "Only positive evidence of a revert may become a cannot-sell verdict, so
\* anything unrecognised is treated as not tested" (dex.ts:84): a token that
\* quotes a buy and refuses the sale, once its round trip got an answer, is
\* critical if the answer proves the revert, whatever else failed; if not, its
\* report says that selling was not tested and leaves the category incomplete.
TrapIsCaught ==
    Published /\ facts.pair = "live" /\ facts.quotes /\ ~facts.sells
        /\ Executes(facts, answer, options.skipSimulation) /\ ~dex.thrown
        /\ slot = "resolved" /\ Answered(answer, "trip") =>
            IF facts.refusal \in ProvenReverts THEN report.overall = "critical_risk"
            ELSE /\ ~report.complete["buy_sell"]
                 /\ \E x \in report.findings : x.name = "sim-incomplete"

\* "A definitive same-address link ... is identity, not distance zero from a
\* risk address" (graph.ts:132): some wallet stands at distance 0 exactly when
\* the report shows a reviewed event of another chain, and then the creator does,
\* and its first funder at most one hop away: the edge between them is kept
\* however many the graph loses to its limit.
HopsCountEvidence ==
    Published =>
        LET shown == \E x \in report.findings : x.name = "creator-history-risk"
        IN  /\ shown <=> report.linked
            /\ shown <=> \E w \in DOMAIN report.hops : report.hops[w] = 0
            /\ shown => /\ report.hops[contract.deployer] = 0
                        /\ ProfileFunder # Nobody => report.hops[ProfileFunder] <= 1
=============================================================================
