--------------------------- MODULE CreatorHistory ---------------------------
(***************************************************************************)
(* The creator's past: buildDeployerProfile and compareCrossChain          *)
(* (packages/analysis/src/deployer.ts, crosschain.ts), and the relation    *)
(* graph drawn from them (graph.ts).                                       *)
(***************************************************************************)
EXTENDS AnalysisInputs, RiskScoring

CONSTANT EdgeLimit      \* 40 in the code: edges a graph keeps

\* The history is complete when the page left no cursor open.
HistoryComplete(a) == Whole(a, "deployer")

\* An unread history supports neither label.
HistoryLabel(f, a) ==
    IF ~HistoryComplete(a) THEN "unknown"
    ELSE IF f.aged THEN "established" ELSE "limited_history"

\* Only the oldest inbound transfer of a whole history is the first funder.
FirstFunder(f, a) == IF HistoryComplete(a) THEN f.funder[f.creator] ELSE Nobody

-----------------------------------------------------------------------------
(* compareCrossChain.                                                       *)

\* The creator, its first funder and the largest holders, each once, without
\* known services.
ComparedAddresses(deployer, funder, holders) ==
    {x \in ({deployer, funder} \ {Nobody}) \union holders : ~KnownService(x)}

\* Only a reviewed event of another chain that shows its evidence counts.
RelatedRiskEvents(f, x) ==
    {e \in f.events : /\ e.wallet = x /\ e.status = "confirmed"
                      /\ e.class # "insufficient_evidence" /\ e.shown}

HistoryRisk(f, x) ==
    When(RelatedRiskEvents(f, x) # {},
         Finding("creator-history-risk", x, "cross_chain",
                 IF \E e \in RelatedRiskEvents(f, x) : e.class = "confirmed_malicious"
                 THEN "critical" ELSE "high"))

\* Wallets are looked up on the other chain; a 404 is an answer.
SeenAbroad(f, a, x) ==
    /\ Answered(a, "abroadAddress")
    /\ x \in Wallets /\ f.abroad[x] # "absent"

DeployedAbroad(f, a, x) ==
    Answered(a, "abroadTxs") /\ x \in Wallets /\ f.abroad[x] = "deployed"

\* chain is the one the link starts from.
Link(strength, chain, from, to, events) ==
    [strength |-> strength, chain |-> chain, from |-> from, to |-> to, events |-> events]

\* A reviewed event links to the creator; identity links an address to itself,
\* once because it was seen and once because it deployed.
LinksOf(f, a, deployer, x) ==
    {Link("strong", "abroad", x, deployer, {e}) : e \in RelatedRiskEvents(f, x)}
        \union When(SeenAbroad(f, a, x), Link("definitive", "arc", x, x, {}))
        \union When(DeployedAbroad(f, a, x), Link("definitive", "abroad", x, x, {}))

CompareCrossChain(f, a, deployer, addresses) ==
    [links    |-> UNION {LinksOf(f, a, deployer, x) : x \in addresses},
     findings |-> UNION {HistoryRisk(f, x) : x \in addresses},
     complete |-> Answered(a, "abroadTxs") /\ Answered(a, "abroadAddress"),
     thrown   |-> FALSE]

NotCompared == [links |-> {}, findings |-> {}, complete |-> FALSE, thrown |-> FALSE]
ComparisonThrown == [links |-> {}, findings |-> {}, complete |-> FALSE, thrown |-> TRUE]

-----------------------------------------------------------------------------
(* buildFundingGraph.                                                       *)

StrengthRank == [definitive |-> 0, strong |-> 1, medium |-> 2]

\* of: the link an edge is drawn for, if any.
Edge(strength, source, target, of) ==
    [strength |-> strength, source |-> source, target |-> target, of |-> of]

\* The token is the node Nobody, which no wallet is.
GraphEdges(deployer, funder, holders, links) ==
    When(deployer # Nobody, Edge("definitive", deployer, Nobody, {}))
        \union When(deployer # Nobody /\ funder # Nobody, Edge("strong", funder, deployer, {}))
        \union {Edge("medium", h, Nobody, {}) : h \in holders}
        \union {Edge(l.strength, l.from, l.to, {l}) : l \in links}

GraphWallets(deployer, funder, holders, links) ==
    ({deployer} \union (IF deployer = Nobody THEN {} ELSE {funder}) \union holders
        \union {l.from : l \in links} \union {l.to : l \in links}) \ {Nobody}

\* prioritizeEdges sorts by strength and keeps the order of equals, in which the
\* creation and the funding of the creator come first.
Precedes(d, e) ==
    \/ StrengthRank[d.strength] < StrengthRank[e.strength]
    \/ d.strength = e.strength /\ d.of = {} /\ e.of # {}

\* The first EdgeLimit edges.  Which of the edges tied at the limit those are
\* follows the order of holders and links; it is left open.
KeptEdges(edges) ==
    LET sure == {e \in edges : Cardinality({d \in edges : ~Precedes(e, d)}) <= EdgeLimit}
        tied == {e \in edges \ sure : Cardinality({d \in edges : Precedes(d, e)}) < EdgeLimit}
    IN  {sure \union some : some \in
            {t \in SUBSET tied : tied = {} \/ Cardinality(sure \union t) = EdgeLimit}}

\* Mutant: any definitive or strong link ends at a risk address.
LinkedAddresses(links) == {l.from : l \in links} \union {l.to : l \in links}

\* Only links that point at a reviewed event count as risk; being the same
\* wallet on another chain does not.
RiskAddresses(links) ==
    LET risky == {l \in links : l.events # {} /\ l.strength \in {"definitive", "strong"}}
    IN  {l.from : l \in risky} \union {l.to : l \in risky}

\* Hops to risk, over the edges the caller receives; 2 stands for null.
HopsToRisk(wallets, kept, links) ==
    [w \in wallets |->
        IF w \in RiskAddresses(links) THEN 0
        ELSE IF \E e \in kept :
                  \/ e.source = w /\ e.target \in RiskAddresses(links)
                  \/ e.target = w /\ e.source \in RiskAddresses(links)
        THEN 1 ELSE 2]
=============================================================================
