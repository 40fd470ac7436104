--------------------------- MODULE HolderSignals ----------------------------
(***************************************************************************)
(* analyzeHolders and analyzeLiquidity (packages/analysis/src/holders.ts,  *)
(* liquidity.ts): concentration of the circulating supply, the deployer's  *)
(* share, same-block recipients, common funders, and liquidity removals.   *)
(***************************************************************************)
EXTENDS AnalysisInputs, RiskScoring

CONSTANTS
    TopHolders,     \* 10 in the code: holders whose shares are added up
    Candidates,     \* 5: holders whose funding is looked up
    PageRows        \* rows of a holder list that was cut short

ASSUME ListAssumption == PageRows \in Nat

Owners(f) == {h \in Accounts : f.share[h] > 0}

\* The order of `ranked`: larger balances first.
Ahead(f, x, y) == f.share[x] > f.share[y] \/ (f.share[x] = f.share[y] /\ x < y)
Largest(f, S, n) == {x \in S : Cardinality({y \in S : Ahead(f, y, x)}) < n}

\* getAllTokenHolders: every row, the rows up to the page budget, or none.
Listed(f, a) ==
    CASE Whole(a, "holders")     -> Owners(f)
      [] a["holders"] = "part"   -> Largest(f, Owners(f), PageRows)
      [] OTHER                   -> {}

\* Labelled known_service: known addresses, and the pair when it was read.
IsService(h, poolKnown) == KnownService(h) \/ (poolKnown /\ h = PairAccount)

Circulating(f, a, poolKnown) == {h \in Listed(f, a) : ~IsService(h, poolKnown)}

ShareSum(f, S) == SumFunctionOnSet(f.share, S)

\* Every share is null without the supply: 0 stands for a null percentage.
TopPct(f, a, poolKnown, supply) ==
    IF supply THEN ShareSum(f, Largest(f, Circulating(f, a, poolKnown), TopHolders)) ELSE 0

DeployerPct(f, a, deployer, supply) ==
    IF supply /\ deployer \in Listed(f, a) THEN f.share[deployer] ELSE 0

ConcentrationFindings(pct) ==
    When(pct >= 80, TokenFinding("conc-top10", "holder_concentration",
                                 IF pct >= 95 THEN "critical" ELSE "high"))

DeployerShareFindings(pct) ==
    When(pct >= 20, TokenFinding("dep-hold", "insider_links",
                                 IF pct >= 50 THEN "critical" ELSE "high"))

\* Three distinct recipients in one block; only the first such block counts.
BundleFindings(f, a) ==
    When(Answered(a, "transfers") /\ f.recipients >= 3,
         TokenFinding("block-bundle", "insider_links", "medium"))

FundingCandidates(f, a, poolKnown) == Largest(f, Circulating(f, a, poolKnown), Candidates)

\* One failed lookup loses the scan; with nobody to look up nothing can fail.
FunderScanComplete(f, a, poolKnown) ==
    Answered(a, "funders") \/ FundingCandidates(f, a, poolKnown) = {}

FundedBy(f, a, poolKnown, w) ==
    {h \in FundingCandidates(f, a, poolKnown) \intersect Wallets : f.funder[h] = w}

\* Two holders with one earliest observed funder; the pair's account has none.
FunderFindings(f, a, poolKnown, supply) ==
    {Finding("common-funder", w, "insider_links",
             IF supply /\ ShareSum(f, FundedBy(f, a, poolKnown, w)) >= 30
             THEN "high" ELSE "medium") :
        w \in {v \in Wallets : FunderScanComplete(f, a, poolKnown)
                                 /\ Cardinality(FundedBy(f, a, poolKnown, v)) >= 2}}

\* A list, a positive supply, and the end of the list.
HolderDataComplete(f, a, supply) ==
    Listed(f, a) # {} /\ supply /\ Whole(a, "holders")

HolderGaps(f, a, poolKnown, supply) ==
    When(~Answered(a, "transfers"), Gap("transfer-history-gap", "medium"))
        \union When(~FunderScanComplete(f, a, poolKnown), Gap("funder-scan-gap", "medium"))
        \union When(~HolderDataComplete(f, a, supply), Gap("holder-gap", "medium"))

AnalyzeHolders(f, a, deployer, supply, poolKnown) ==
    [ranked       |-> Listed(f, a),
     dataComplete |-> HolderDataComplete(f, a, supply),
     linksRead    |-> /\ Whole(a, "holders") /\ Answered(a, "transfers")
                      /\ FunderScanComplete(f, a, poolKnown),
     findings     |-> ConcentrationFindings(TopPct(f, a, poolKnown, supply))
                        \union DeployerShareFindings(DeployerPct(f, a, deployer, supply))
                        \union BundleFindings(f, a)
                        \union FunderFindings(f, a, poolKnown, supply)
                        \union HolderGaps(f, a, poolKnown, supply)]

\* analyzeLiquidity knows no pool; the pipeline corrects the first finding.
LiquidityUnknown == TokenFinding("liq-unknown", "liquidity", "medium")

AnalyzeLiquidity(f, a) ==
    {LiquidityUnknown}
        \union When(Answered(a, "transfers") /\ f.removes >= 2,
                    TokenFinding("liq-removes", "liquidity", "high"))
=============================================================================
