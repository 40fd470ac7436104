----------------------------- MODULE RiskScoring -----------------------------
(***************************************************************************)
(* The verdict over a set of findings (packages/analysis/src/scoring.ts    *)
(* and packages/shared/src/risk.ts): which findings the report adds by     *)
(* itself, the score of a category, the overall level and the confidence.  *)
(* Scores are whole percents, as Math.round leaves them.                   *)
(***************************************************************************)
EXTENDS Integers, FiniteSets, FiniteSetsExt

Severities == {"info", "low", "medium", "high", "critical"}

SeverityRank ==
    [info |-> 1, low |-> 2, medium |-> 3, high |-> 4, critical |-> 5]

SeverityWeight ==
    [info |-> 5, low |-> 20, medium |-> 45, high |-> 70, critical |-> 95]

ScoredCategories ==
    {"contract", "owner_admin", "buy_sell", "liquidity", "holder_concentration",
     "insider_links", "deployer_history", "cross_chain", "market_behavior"}

Categories == ScoredCategories \union {"data_gaps"}

\* A finding: `of` tells findings of one name apart, `shown` says whether it
\* has evidence attached.
Finding(name, of, category, severity) ==
    [name |-> name, of |-> of, category |-> category, severity |-> severity,
     shown |-> TRUE]

TokenFinding(name, category, severity) == Finding(name, 0, category, severity)
Gap(name, severity) == TokenFinding(name, "data_gaps", severity)

InCategory(findings, c) == {x \in findings : x.category = c}

\* The set containing x if the condition holds.
When(condition, x) == IF condition THEN {x} ELSE {}

\* A finding that points at nothing is reported as a gap, at its severity.
RequireEvidence(x) == IF x.shown THEN x ELSE [x EXCEPT !.category = "data_gaps"]

IsTrap(sim) == sim.buys = "yes" /\ sim.sells = "no"

\* sim is the round trip's hint, or the empty set when there was none.
SimulationFindings(sim) ==
    IF sim = {} THEN {}
    ELSE LET s == CHOOSE s \in sim : TRUE IN
         IF IsTrap(s) THEN {TokenFinding("sim-honeypot", "buy_sell", "critical")}
         ELSE When(~s.complete, TokenFinding("sim-incomplete", "buy_sell", "medium"))

DeployerFindings(label) ==
    When(label = "limited_history",
         TokenFinding("deployer-limited", "deployer_history", "low"))
    \union When(label = "unknown", Gap("deployer-history-unknown", "low"))

WeightSum(findings) == SumFunction([x \in findings |-> SeverityWeight[x.severity]])

WorstWeight(findings) == Max({SeverityWeight[x.severity] : x \in findings})

\* Math.round(max * 0.7 + avg * 0.3)
ScoreFromFindings(findings) ==
    IF findings = {} THEN 0
    ELSE LET n      == Cardinality(findings)
             tenths == 7 * n * WorstWeight(findings) + 3 * WeightSum(findings)
         IN  (tenths + 5 * n) \div (10 * n)

\* avg >= n is compared as sum >= 9 n.  The two tests that could return
\* insufficient_data need a gap score of 60, with no finding, or no high one.
AggregateOverall(score, hasCritical) ==
    LET worst == Max({score[c] : c \in ScoredCategories})
        sum   == SumFunctionOnSet(score, ScoredCategories)
        n     == Cardinality(ScoredCategories)
        AtLeast(top, average) == worst >= top \/ sum >= average * n
    IN  CASE hasCritical -> "critical_risk"
          [] ~hasCritical /\ worst = 0 /\ score["data_gaps"] >= 80 -> "insufficient_data"
          [] OTHER -> IF AtLeast(90, 75) THEN "critical_risk"
                      ELSE IF AtLeast(70, 55) THEN "high_risk"
                      ELSE IF AtLeast(40, 30) THEN "caution"
                      ELSE IF score["data_gaps"] >= 60 THEN "insufficient_data"
                      ELSE "low_detected_risk"

Levels == {"low_detected_risk", "caution", "high_risk", "critical_risk",
           "insufficient_data"}

\* Sources are the two sets of the ones used: all, and the healthy among them.
ConfidenceFromSources(used, healthy, incomplete) ==
    LET u == Cardinality(used)
        h == Cardinality(healthy)
    IN  IF u = 0 THEN "low"
        ELSE IF 10 * h >= 9 * u /\ incomplete = 0 THEN "high"
        ELSE IF 10 * h >= 6 * u /\ incomplete <= 2 THEN "medium"
        ELSE "low"

\* buildRiskReport.  `complete` maps every scored category to what its analyzer
\* reported.
BuildRiskReport(findings, sim, label, used, healthy, complete) ==
    LET checked == {RequireEvidence(x) :
                      x \in findings \union SimulationFindings(sim) \union DeployerFindings(label)}
        score   == [c \in Categories |-> ScoreFromFindings(InCategory(checked, c))]
        critical == \E x \in checked : x.severity = "critical" /\ x.shown
        gaps    == {c \in ScoredCategories : ~complete[c]}
    IN  [overall    |-> AggregateOverall(score, critical),
         confidence |-> ConfidenceFromSources(used, healthy, Cardinality(gaps)),
         findings   |-> checked,
         complete   |-> complete]
=============================================================================
