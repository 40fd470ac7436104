------------------------ MODULE TokenAnalysisProofs ------------------------
(***************************************************************************)
(* What a report may claim, for every token, whichever reads fail and      *)
(* whatever the process remembers: a critical verdict rests on a fact, the *)
(* lowest level was earned, a proven trap is critical and an unproven one  *)
(* is a gap, a complete category shows the whole truth, and the distances  *)
(* of the graph agree with the findings.  The scores are sums over sets of *)
(* findings, so the middle part is about sums over finite sets.            *)
(***************************************************************************)
EXTENDS TokenAnalysis, FiniteSetTheorems, TLAPS

RiskName == "creator-history-risk"

\* What every finding but those of the creator's past looks like.
Common(x) == x.shown /\ x.name # RiskName

(***************************************************************************)
(* The first inductive invariant.                                          *)
(***************************************************************************)

\* The round trip of a trap got an answer.
TrapSeen ==
    /\ facts.pair = "live" /\ facts.quotes /\ ~facts.sells
    /\ Executes(facts, answer, options.skipSimulation) /\ ~dex.thrown
    /\ slot = "resolved" /\ Answered(answer, "trip")

\* It proves the trap, or says that selling was not tested.
TrapOK ==
    stage \in {"settling", "comparing", "scoring"} /\ TrapSeen =>
        /\ facts.refusal \in ProvenReverts => IsTrap(dex.sim)
        /\ facts.refusal \notin ProvenReverts => ~IsTrap(dex.sim) /\ dex.sim.complete = FALSE

FactsOK == facts \in FactSet

\* Until the creators are compared, nothing speaks of their past.
FoundOK == stage \in {"settling", "comparing"} => \A x \in found : Common(x)

RankedOK == stage \in {"comparing", "scoring"} => holders.ranked \subseteq Accounts

\* The addresses a comparison looks at, and how one is linked to itself.
Looked ==
    ComparedAddresses(contract.deployer, FirstFunder(facts, answer),
                      Largest(facts, holders.ranked, Candidates))

Identity(chain, x) == Link("definitive", chain, x, x, {})

\* A link shows an event and ends at the creator, or is an identity.
LinkOK(l) ==
    \/ /\ l.events # {} /\ l.strength = "strong"
       /\ l.to = contract.deployer /\ contract.deployer # Nobody
    \/ \E x \in Looked : l \in {Identity("arc", x), Identity("abroad", x)}

\* The findings and the links of a comparison come from the same events.
ComparedOK ==
    stage = "scoring" =>
        /\ \A x \in found : x.shown
        /\ (\E x \in found : x.name = RiskName) <=> (\E l \in compared.links : l.events # {})
        /\ \A l \in compared.links : LinkOK(l)

IInv ==
    TrapOK /\ FactsOK /\ FoundOK /\ RankedOK /\ ComparedOK /\ TrapIsCaught /\ HopsCountEvidence

-----------------------------------------------------------------------------
(* Findings.                                                                *)

LEMMA CommonFinding ==
    ASSUME NEW name, name # RiskName, NEW of, NEW category, NEW severity
    PROVE Common(Finding(name, of, category, severity))
  BY DEF Common, Finding

LEMMA CommonToken ==
    ASSUME NEW name, name # RiskName, NEW category, NEW severity
    PROVE /\ Common(TokenFinding(name, category, severity))
          /\ Common(Gap(name, severity))
  BY CommonFinding DEF TokenFinding, Gap

LEMMA ContractFindings ==
    ASSUME NEW f \in FactSet, NEW a
    PROVE \A x \in AnalyzeContract(f, a).findings : Common(x)
  <1>1. \A x \in CodeFindings(f, a) : Common(x)
    <2>1. Common(Gap("no-code", "critical")) /\ Common(Gap("code-unreadable", "medium"))
        BY CommonToken DEF RiskName
    <2> QED
        BY <2>1 DEF CodeFindings, When
  <1>2. \A x \in SourceFindings(f, a) : Common(x)
    <2>1. /\ Common(TokenFinding("unverified", "contract", "medium"))
          /\ Common(TokenFinding("proxy", "contract", "high"))
        BY CommonToken DEF RiskName
    <2> QED
        BY <2>1 DEF SourceFindings, When
  <1>3. \A x \in SelectorFindings(f, a) : Common(x)
    <2> SUFFICES ASSUME NEW x \in SelectorFindings(f, a) PROVE Common(x)
        OBVIOUS
    <2>1. PICK s \in f.selectors :
              x = TokenFinding(s, SelectorRisks[s].category, SelectorRisks[s].severity)
        BY DEF SelectorFindings
    <2>2. s # RiskName
        BY FactsAssumption DEF SelectorRisks, RiskName
    <2> QED
        BY <2>1, <2>2, CommonToken
  <1>4. \A x \in OwnerFindings(f, a) : Common(x)
    <2>1. /\ Common(TokenFinding("owner-active", "owner_admin", "medium"))
          /\ Common(TokenFinding("owner-renounced", "owner_admin", "info"))
          /\ Common(Gap("owner-unknown", "medium"))
        BY CommonToken DEF RiskName
    <2> QED
        BY <2>1 DEF OwnerFindings
  <1> QED
      BY <1>1, <1>2, <1>3, <1>4 DEF AnalyzeContract

LEMMA HolderFindings ==
    ASSUME NEW f, NEW a, NEW deployer, NEW supply, NEW poolKnown
    PROVE \A x \in AnalyzeHolders(f, a, deployer, supply, poolKnown).findings : Common(x)
  <1>1. \A pct : \A x \in ConcentrationFindings(pct) \union DeployerShareFindings(pct) : Common(x)
    <2>1. \A s : /\ Common(TokenFinding("conc-top10", "holder_concentration", s))
                 /\ Common(TokenFinding("dep-hold", "insider_links", s))
        BY CommonToken DEF RiskName
    <2> QED
        BY <2>1 DEF ConcentrationFindings, DeployerShareFindings, When
  <1>2. \A x \in BundleFindings(f, a) : Common(x)
    <2>1. Common(TokenFinding("block-bundle", "insider_links", "medium"))
        BY CommonToken DEF RiskName
    <2> QED
        BY <2>1 DEF BundleFindings, When
  <1>3. \A x \in FunderFindings(f, a, poolKnown, supply) : Common(x)
    <2>1. \A w, s : Common(Finding("common-funder", w, "insider_links", s))
        BY CommonFinding DEF RiskName
    <2> QED
        BY <2>1 DEF FunderFindings
  <1>4. \A x \in HolderGaps(f, a, poolKnown, supply) : Common(x)
    <2>1. /\ Common(Gap("transfer-history-gap", "medium")) /\ Common(Gap("funder-scan-gap", "medium"))
          /\ Common(Gap("holder-gap", "medium"))
        BY CommonToken DEF RiskName
    <2> QED
        BY <2>1 DEF HolderGaps, When
  <1> QED
      BY <1>1, <1>2, <1>3, <1>4 DEF AnalyzeHolders

LEMMA PoolFindings ==
    ASSUME NEW f, NEW a, NEW d
    PROVE \A x \in LiquidityFindings(f, a, d) : Common(x)
  <1>1. \A s : /\ Common(TokenFinding("lp-control", "liquidity", s))
               /\ Common(TokenFinding("liq-unknown", "liquidity", s))
               /\ Common(TokenFinding("liq-removes", "liquidity", s))
      BY CommonToken DEF RiskName
  <1> QED
      BY <1>1 DEF LiquidityFindings, AnalyzeLiquidity, LiquidityUnknown, When

LEMMA HintFindings ==
    ASSUME NEW sim PROVE \A x \in SimulationFindings(sim) : Common(x)
  <1>1. /\ Common(TokenFinding("sim-honeypot", "buy_sell", "critical"))
        /\ Common(TokenFinding("sim-incomplete", "buy_sell", "medium"))
      BY CommonToken DEF RiskName
  <1> QED
      BY <1>1 DEF SimulationFindings, When

LEMMA LabelFindings ==
    ASSUME NEW label PROVE \A x \in DeployerFindings(label) : Common(x)
  <1>1. /\ Common(TokenFinding("deployer-limited", "deployer_history", "low"))
        /\ Common(Gap("deployer-history-unknown", "low"))
      BY CommonToken DEF RiskName
  <1> QED
      BY <1>1 DEF DeployerFindings, When

-----------------------------------------------------------------------------
(* The comparison.                                                          *)

\* A finding about a wallet's past and a link that carries an event exist for
\* the same wallets.
LEMMA OneStory ==
    ASSUME NEW f, NEW a, NEW deployer, NEW addresses
    PROVE LET c == CompareCrossChain(f, a, deployer, addresses)
          IN  /\ \A x \in c.findings : x.shown /\ x.name = RiskName
              /\ c.findings # {} <=> \E l \in c.links : l.events # {}
              /\ \A l \in c.links :
                    \/ l.events # {} /\ l.strength = "strong" /\ l.to = deployer
                    \/ \E x \in addresses : l \in {Identity("arc", x), Identity("abroad", x)}
  <1> DEFINE links    == UNION {LinksOf(f, a, deployer, x) : x \in addresses}
             findings == UNION {HistoryRisk(f, x) : x \in addresses}
             c        == CompareCrossChain(f, a, deployer, addresses)
  <1>1. c.links = links /\ c.findings = findings
      BY DEF CompareCrossChain
  <1>2. \A x \in addresses : HistoryRisk(f, x) # {} <=> RelatedRiskEvents(f, x) # {}
      BY DEF HistoryRisk, When
  <1>3. \A x \in findings : x.shown /\ x.name = RiskName
    <2>1. \A w : \A x \in HistoryRisk(f, w) : x.shown /\ x.name = RiskName
        BY DEF HistoryRisk, When, Finding, RiskName
    <2> QED
        BY <2>1
  <1>4. ASSUME NEW w \in addresses, NEW l \in LinksOf(f, a, deployer, w)
        PROVE \/ /\ l.events # {} /\ l.strength = "strong" /\ l.to = deployer
                 /\ RelatedRiskEvents(f, w) # {}
              \/ l.events = {} /\ l \in {Identity("arc", w), Identity("abroad", w)}
    <2>1. CASE \E e \in RelatedRiskEvents(f, w) : l = Link("strong", "abroad", w, deployer, {e})
        BY <2>1 DEF Link
    <2>2. CASE l \in {Identity("arc", w), Identity("abroad", w)}
        BY <2>2 DEF Identity, Link
    <2> QED
        BY <1>4, <2>1, <2>2 DEF LinksOf, When, Identity
  <1>5. ASSUME NEW w \in addresses, NEW e \in RelatedRiskEvents(f, w)
        PROVE \E l \in links : l.events # {}
    <2>1. Link("strong", "abroad", w, deployer, {e}) \in LinksOf(f, a, deployer, w)
        BY DEF LinksOf
    <2>2. Link("strong", "abroad", w, deployer, {e}).events # {}
        BY DEF Link
    <2> QED
        BY <2>1, <2>2
  <1>6. \A l \in links : \E w \in addresses : l \in LinksOf(f, a, deployer, w)
      OBVIOUS
  <1>7. findings # {} <=> \E w \in addresses : HistoryRisk(f, w) # {}
      OBVIOUS
  <1> HIDE DEF links, findings, c
  <1> QED
      BY <1>1, <1>2, <1>3, <1>4, <1>5, <1>6, <1>7 DEF c

-----------------------------------------------------------------------------
(* The graph: the edge between the creator and its funder is never cut.      *)

\* The values a function takes on a finite set are finitely many.
LEMMA ImageFinite ==
    ASSUME NEW S, IsFiniteSet(S), NEW f PROVE IsFiniteSet({f[x] : x \in S})
  <1> DEFINE T == {f[x] : x \in S}
             g == [x \in S |-> f[x]]
  <1>1. g \in Surjection(S, T)
      BY DEF Surjection
  <1> QED
      BY <1>1, FS_Surjection

LEMMA WhenFinite == \A condition, x : IsFiniteSet(When(condition, x))
  BY FS_EmptySet, FS_Singleton DEF When

LEMMA UnionFinite ==
    ASSUME NEW S, NEW T, IsFiniteSet(S), IsFiniteSet(T) PROVE IsFiniteSet(S \union T)
  BY FS_Union

LEMMA SubsetFinite ==
    ASSUME NEW T, IsFiniteSet(T), NEW S, S \subseteq T PROVE IsFiniteSet(S)
  BY FS_Subset

LEMMA AccountsFinite == IsFiniteSet(Accounts) /\ IsFiniteSet(Wallets)
  <1>1. Wallets \subseteq Accounts
      BY DEF Accounts
  <1> QED
      BY <1>1, AccountsAssumption, SubsetFinite

\* Larger balances first: the order is transitive.
LEMMA AheadTransitive ==
    ASSUME NEW f \in FactSet, NEW x \in Accounts, NEW y \in Accounts, NEW z \in Accounts,
           Ahead(f, z, y), Ahead(f, y, x)
    PROVE  Ahead(f, z, x)
  <1>1. /\ f.share[x] \in Nat /\ f.share[y] \in Nat /\ f.share[z] \in Nat
        /\ x \in Nat /\ y \in Nat /\ z \in Nat
      BY FactsAssumption, AccountsAssumption
  <1> QED
      BY <1>1 DEF Ahead

\* The first n of a ranking are n at most.
LEMMA LargestFew ==
    ASSUME NEW f \in FactSet, NEW S, S \subseteq Accounts, NEW n \in Nat
    PROVE  IsFiniteSet(Largest(f, S, n)) /\ Cardinality(Largest(f, S, n)) <= n
  <1> DEFINE Before(x) == {y \in S : Ahead(f, y, x)}
             L == Largest(f, S, n)
             r == [x \in L |-> Cardinality(Before(x))]
  <1>1. \A x \in S : IsFiniteSet(Before(x)) /\ Cardinality(Before(x)) \in Nat
    <2>1. IsFiniteSet(S)
        BY AccountsFinite, SubsetFinite
    <2> QED
        BY <2>1, SubsetFinite, FS_CardinalityType
  <1>2. \A x \in L : x \in S /\ Cardinality(Before(x)) < n
      BY DEF Largest
  <1>3. ASSUME NEW x \in S, NEW y \in S, Ahead(f, x, y)
        PROVE  Cardinality(Before(x)) < Cardinality(Before(y))
    <2>1. Before(x) \subseteq Before(y)
        BY <1>3, AheadTransitive
    <2>2. x \in Before(y) /\ x \notin Before(x)
      <3>1. f.share[x] \in Nat /\ x \in Nat
          BY FactsAssumption, AccountsAssumption
      <3> QED
          BY <1>3, <3>1 DEF Ahead
    <2> HIDE DEF Before
    <2>3. Cardinality(Before(x)) <= Cardinality(Before(y))
        BY <1>1, <2>1, FS_Subset
    <2>4. Cardinality(Before(x)) # Cardinality(Before(y))
        BY <1>1, <2>1, <2>2, FS_Subset
    <2> QED
        BY <1>1, <2>3, <2>4
  <1>4. \A x, y \in S : x = y \/ Ahead(f, x, y) \/ Ahead(f, y, x)
    <2>1. \A x \in S : f.share[x] \in Nat /\ x \in Nat
        BY FactsAssumption, AccountsAssumption
    <2> QED
        BY <2>1 DEF Ahead
  <1> HIDE DEF Before, L
  <1>5. r \in [L -> 0 .. (n - 1)]
      BY <1>1, <1>2
  <1>6. \A x, y \in L : r[x] = r[y] => x = y
    <2> SUFFICES ASSUME NEW x \in L, NEW y \in L, r[x] = r[y] PROVE x = y
        OBVIOUS
    <2>1. x \in S /\ y \in S /\ Cardinality(Before(x)) = Cardinality(Before(y))
        BY <1>2
    <2>2. Cardinality(Before(x)) \in Nat
        BY <1>1, <2>1
    <2> QED
        BY <1>3, <1>4, <2>1, <2>2
  <1>7. r \in Injection(L, 0 .. (n - 1))
      BY <1>5, <1>6 DEF Injection, IsInjective
  <1>8. IsFiniteSet(0 .. (n - 1)) /\ Cardinality(0 .. (n - 1)) = n
      BY FS_Interval
  <1> HIDE DEF r
  <1> QED
      BY <1>7, <1>8, FS_Injection DEF L

\* One more element makes a set larger by one at most.
LEMMA OneMore ==
    ASSUME NEW S, IsFiniteSet(S), NEW n \in Nat, Cardinality(S) <= n, NEW x
    PROVE  IsFiniteSet(S \union {x}) /\ Cardinality(S \union {x}) <= n + 1
  <1>1. Cardinality(S) \in Nat
      BY FS_CardinalityType
  <1>2. /\ IsFiniteSet(S \union {x})
        /\ Cardinality(S \union {x}) = IF x \in S THEN Cardinality(S) ELSE Cardinality(S) + 1
      BY FS_AddElement
  <1> QED
      BY <1>1, <1>2

\* The creator, its funder and the holders compared are few.
LEMMA LookedFew ==
    ASSUME FactsOK, holders.ranked \subseteq Accounts
    PROVE  IsFiniteSet(Looked) /\ Cardinality(Looked) <= Candidates + 2
  <1> DEFINE L == Largest(facts, holders.ranked, Candidates)
             M == L \union {contract.deployer}
             N == M \union {FirstFunder(facts, answer)}
  <1>1. Candidates \in Nat
      BY EdgeAssumption
  <1>2. IsFiniteSet(L) /\ Cardinality(L) <= Candidates
      BY <1>1, LargestFew DEF FactsOK
  <1>3. Looked \subseteq N
      BY DEF Looked, ComparedAddresses
  <1> HIDE DEF L
  <1>4. IsFiniteSet(M) /\ Cardinality(M) <= Candidates + 1
      BY <1>1, <1>2, OneMore
  <1> HIDE DEF M
  <1>5. IsFiniteSet(N) /\ Cardinality(N) <= Candidates + 2
    <2>1. Candidates + 1 \in Nat /\ (Candidates + 1) + 1 = Candidates + 2
        BY <1>1
    <2> QED
        BY <1>4, <2>1, OneMore
  <1> HIDE DEF N
  <1>6. IsFiniteSet(Looked) /\ Cardinality(Looked) <= Cardinality(N)
      BY <1>3, <1>5, FS_Subset
  <1> QED
      BY <1>1, <1>5, <1>6, FS_CardinalityType

\* The edges an identity is drawn as.
IdentityEdges(chain) == {Edge("definitive", x, x, {Identity(chain, x)}) : x \in Looked}

LEMMA IdentityFew ==
    ASSUME IsFiniteSet(Looked), NEW chain
    PROVE  IsFiniteSet(IdentityEdges(chain)) /\ Cardinality(IdentityEdges(chain)) <= Cardinality(Looked)
  <1> DEFINE g == [x \in Looked |-> Edge("definitive", x, x, {Identity(chain, x)})]
             T == IdentityEdges(chain)
  <1>1. g \in Surjection(Looked, T)
      BY DEF Surjection, IdentityEdges
  <1> HIDE DEF g, T
  <1>2. IsFiniteSet(T) /\ Cardinality(T) <= Cardinality(Looked)
      BY <1>1, FS_Surjection
  <1> QED
      BY <1>2 DEF T

\* Only the creation and the identities of the addresses compared come before the
\* funding of the creator, and the graph has room for them all.
LEMMA FundingKept ==
    ASSUME FactsOK, holders.ranked \subseteq Accounts, \A l \in compared.links : LinkOK(l),
           ProfileFunder # Nobody, NEW kept \in KeptEdges(DrawnEdges)
    PROVE  Edge("strong", ProfileFunder, contract.deployer, {}) \in kept
  <1> DEFINE e == Edge("strong", ProfileFunder, contract.deployer, {})
             made == Edge("definitive", contract.deployer, Nobody, {})
             A == IdentityEdges("arc")
             B == IdentityEdges("abroad")
             D == {d \in DrawnEdges : ~Precedes(e, d)}
             few == ((A \union B) \union {made}) \union {e}
  <1>1. contract.deployer # Nobody
      BY DEF ProfileFunder
  <1>2. e \in DrawnEdges
      BY <1>1 DEF DrawnEdges, GraphEdges, When
  <1>3. ASSUME NEW d \in DrawnEdges PROVE d \in few \/ Precedes(e, d)
    <2>1. CASE d = made \/ d = e
        BY <2>1
    <2>2. CASE \E h : d = Edge("medium", h, Nobody, {})
        BY <2>2 DEF Precedes, Edge, StrengthRank
    <2>3. ASSUME NEW l \in compared.links, d = Edge(l.strength, l.from, l.to, {l})
          PROVE  d \in few \/ Precedes(e, d)
      <3>1. CASE l.strength = "strong"
          BY <2>3, <3>1 DEF Precedes, Edge
      <3>2. CASE \E x \in Looked : l \in {Identity("arc", x), Identity("abroad", x)}
        <4>1. PICK x \in Looked : l \in {Identity("arc", x), Identity("abroad", x)}
            BY <3>2
        <4>2. l.strength = "definitive" /\ l.from = x /\ l.to = x
            BY <4>1 DEF Identity, Link
        <4> QED
            BY <2>3, <4>1, <4>2 DEF IdentityEdges
      <3> QED
          BY <2>3, <3>1, <3>2 DEF LinkOK
    <2> QED
        BY <1>3, <2>1, <2>2, <2>3 DEF DrawnEdges, GraphEdges, When
  <1>4. D \subseteq few
      BY <1>3
  <1>5. Cardinality(D) <= EdgeLimit
    <2>1. /\ IsFiniteSet(Looked) /\ Cardinality(Looked) <= Candidates + 2
          /\ Cardinality(Looked) \in Nat
        BY LookedFew, FS_CardinalityType
    <2>2. /\ IsFiniteSet(A) /\ Cardinality(A) <= Candidates + 2 /\ Cardinality(A) \in Nat
          /\ IsFiniteSet(B) /\ Cardinality(B) <= Candidates + 2 /\ Cardinality(B) \in Nat
      <3>1. IsFiniteSet(A) /\ Cardinality(A) <= Cardinality(Looked)
          BY <2>1, IdentityFew
      <3>2. IsFiniteSet(B) /\ Cardinality(B) <= Cardinality(Looked)
          BY <2>1, IdentityFew
      <3> HIDE DEF A, B
      <3>3. Cardinality(A) \in Nat /\ Cardinality(B) \in Nat
          BY <3>1, <3>2, FS_CardinalityType
      <3> QED
          BY <2>1, <3>1, <3>2, <3>3, EdgeAssumption
    <2> HIDE DEF A, B, made, e
    <2>3. IsFiniteSet(A \union B) /\ Cardinality(A \union B) <= 2 * (Candidates + 2)
      <3>1. /\ IsFiniteSet(A \union B)
            /\ Cardinality(A \union B) = Cardinality(A) + Cardinality(B) - Cardinality(A \cap B)
          BY <2>2, FS_Union
      <3>2. Cardinality(A \cap B) \in Nat
          BY <2>2, FS_Intersection, FS_CardinalityType
      <3> QED
          BY <2>2, <3>1, <3>2, EdgeAssumption
    <2>4. /\ IsFiniteSet((A \union B) \union {made})
          /\ Cardinality((A \union B) \union {made}) <= 2 * (Candidates + 2) + 1
      <3>1. 2 * (Candidates + 2) \in Nat
          BY EdgeAssumption
      <3> QED
          BY <2>3, <3>1, OneMore
    <2>5. IsFiniteSet(few) /\ Cardinality(few) <= 2 * (Candidates + 2) + 2
      <3>1. /\ 2 * (Candidates + 2) + 1 \in Nat
            /\ (2 * (Candidates + 2) + 1) + 1 = 2 * (Candidates + 2) + 2
          BY EdgeAssumption
      <3> QED
          BY <2>4, <3>1, OneMore
    <2> HIDE DEF few, D
    <2>6. /\ IsFiniteSet(D) /\ Cardinality(D) <= Cardinality(few)
          /\ Cardinality(D) \in Nat /\ Cardinality(few) \in Nat
        BY <1>4, <2>5, FS_Subset, FS_CardinalityType
    <2> QED
        BY <2>5, <2>6, EdgeAssumption
  <1> HIDE DEF e
  <1>6. e \in {x \in DrawnEdges :
                 Cardinality({d \in DrawnEdges : ~Precedes(x, d)}) <= EdgeLimit}
      BY <1>2, <1>5
  <1> QED
      BY <1>6 DEF KeptEdges, e

-----------------------------------------------------------------------------
(* The steps.                                                               *)

LEMMA Initially == Init => IInv
  BY FactsAssumption DEF Init, IInv, NoToken, TrapOK, FactsOK, FoundOK, RankedOK, ComparedOK,
         TrapIsCaught, HopsCountEvidence, Published

\* Outside an analysis only the token matters.
LEMMA Outside ==
    ASSUME stage' \in {"idle", "reading"}, FactsOK' PROVE IInv'
  BY DEF IInv, TrapOK, FoundOK, RankedOK, ComparedOK, TrapIsCaught, HopsCountEvidence, Published

LEMMA OutsideKeeps ==
    IInv /\ (\/ \E f \in FactSet, a \in AnswerSet, o \in OptionSet : Begin(f, a, o)
             \/ AnalyzerThrows
             \/ Return
             \/ ProbedElsewhere) => IInv'
  <1>1. NoToken \in FactSet
      BY FactsAssumption DEF NoToken
  <1>2. ASSUME \E f \in FactSet, a \in AnswerSet, o \in OptionSet : Begin(f, a, o) PROVE IInv'
      BY <1>2, Outside DEF Begin, FactsOK
  <1>3. ASSUME AnalyzerThrows \/ Return PROVE IInv'
      BY <1>1, <1>3, Outside DEF AnalyzerThrows, Return, FactsOK
  <1>4. ASSUME IInv, ProbedElsewhere PROVE IInv'
      BY <1>4, Outside DEF ProbedElsewhere, locals, IInv, FactsOK
  <1> QED
      BY <1>2, <1>3, <1>4

\* A quote, a resolved slot and a sale that reverts: the refusal decides.
LEMMA TrapProven ==
    ASSUME NEW f, f.refusal \in Refusals, NEW a, NEW skip, NEW lost,
           f.pair = "live", f.quotes, ~f.sells, Executes(f, a, skip), Answered(a, "trip")
    PROVE LET sim == Simulation(f, a, skip, "resolved", lost)
          IN  /\ f.refusal \in ProvenReverts => IsTrap(sim)
              /\ f.refusal \notin ProvenReverts => ~IsTrap(sim) /\ sim.complete = FALSE
  <1> DEFINE sold == IF IsRevert(f.refusal) THEN "no" ELSE "unknown"
  <1>1. PairRead(f, a) /\ Quoted(f, a) /\ HasLiquidity(f)
      BY DEF Executes, HasLiquidity
  <1>2. CanBuy(f, a, lost) = "yes"
      BY <1>1 DEF CanBuy
  <1>3. RoundTrip(f, a, "resolved", lost) = sold
      BY DEF RoundTrip, Thrown
  <1>4. f.refusal \in ProvenReverts <=> IsRevert(f.refusal)
    <2>1. IsRevert(CodedRevert) /\ IsRevert(BareRevert)
        BY DEF IsRevert, CodedRevert, BareRevert, Error
    <2>2. ~IsRevert(QuotedRevert) /\ ~IsRevert(WrappedRevert) /\ ~IsRevert(UnwordedRevert)
        BY DEF IsRevert, QuotedRevert, WrappedRevert, UnwordedRevert, Error
    <2> QED
        BY <2>1, <2>2 DEF Refusals, ProvenReverts
  <1> HIDE DEF sold
  <1>5. Simulation(f, a, skip, "resolved", lost)
            = [buys |-> "yes", sells |-> sold, complete |-> sold = "yes"]
      BY <1>1, <1>2, <1>3 DEF Simulation
  <1>6. sold = IF f.refusal \in ProvenReverts THEN "no" ELSE "unknown"
      BY <1>4 DEF sold
  <1>7. CASE f.refusal \in ProvenReverts
      BY <1>5, <1>6, <1>7 DEF IsTrap
  <1>8. CASE f.refusal \notin ProvenReverts
    <2>1. Simulation(f, a, skip, "resolved", lost)
              = [buys |-> "yes", sells |-> "unknown", complete |-> FALSE]
        BY <1>5, <1>6, <1>8
    <2> QED
        BY <1>8, <2>1 DEF IsTrap
  <1> QED
      BY <1>7, <1>8

LEMMA ReadPrologueKeeps == IInv /\ ReadPrologue => IInv'
  <1> SUFFICES ASSUME IInv, ReadPrologue PROVE IInv'
      OBVIOUS
  <1>1. stage' = "settling" /\ UNCHANGED <<facts, answer, options>> /\ facts \in FactSet
      BY DEF ReadPrologue, IInv, FactsOK
  <1>2. FoundOK'
    <2>1. Common(Gap("dex-unavailable", "medium"))
        BY CommonToken DEF RiskName
    <2>2. \A d : \A x \in DexGap(d) : Common(x)
        BY <2>1 DEF DexGap, When
    <2>3. \A x \in contract'.findings : Common(x)
        BY <1>1, ContractFindings DEF ReadPrologue
    <2> QED
        BY <2>2, <2>3 DEF ReadPrologue, FoundOK
  <1>3. TrapOK'
    <2> SUFFICES ASSUME TrapSeen'
                 PROVE  /\ facts.refusal \in ProvenReverts => IsTrap(dex'.sim)
                        /\ facts.refusal \notin ProvenReverts
                             => ~IsTrap(dex'.sim) /\ dex'.sim.complete = FALSE
        BY <1>1 DEF TrapOK
    <2>1. slot' = "resolved" /\ ~dex'.thrown
        BY DEF TrapSeen
    <2>2. NoDex.thrown
        BY DEF NoDex
    <2>3. PICK lost \in Failures : dex' = DexAnswer(facts, answer, options, slot, lost)
        BY <2>1, <2>2 DEF ReadPrologue
    <2>4. SlotAfter(facts, answer, options, slot) = "resolved"
        BY <2>1 DEF ReadPrologue
    <2>5. dex'.sim = Simulation(facts, answer, options.skipSimulation, "resolved", lost)
        BY <2>3, <2>4 DEF DexAnswer, AnalyzeApexiSwap
    <2>6. /\ facts.pair = "live" /\ facts.quotes /\ ~facts.sells
          /\ Executes(facts, answer, options.skipSimulation) /\ Answered(answer, "trip")
        BY <1>1 DEF TrapSeen
    <2>7. facts.refusal \in Refusals
        BY <1>1, FactsAssumption
    <2> QED
        BY <2>5, <2>6, <2>7, TrapProven
  <1> QED
      BY <1>1, <1>2, <1>3 DEF IInv, FactsOK, RankedOK, ComparedOK, TrapIsCaught,
                              HopsCountEvidence, Published

LEMMA SettleAnalyzersKeeps == IInv /\ SettleAnalyzers => IInv'
  <1> SUFFICES ASSUME IInv, SettleAnalyzers PROVE IInv'
      OBVIOUS
  <1>1. /\ stage = "settling" /\ stage' = "comparing"
        /\ UNCHANGED <<facts, answer, options, slot, contract, dex>>
      BY DEF SettleAnalyzers
  <1>2. FoundOK'
    <2>1. Common(Gap("deployer-unknown", "medium"))
        BY CommonToken DEF RiskName
    <2>2. \A x \in NoCreator(contract.deployer) : Common(x)
        BY <2>1 DEF NoCreator, When
    <2>3. \A x \in holders'.findings : Common(x)
        BY HolderFindings DEF SettleAnalyzers
    <2>4. \A x \in found : Common(x)
        BY <1>1 DEF IInv, FoundOK
    <2> QED
        BY <2>2, <2>3, <2>4, PoolFindings DEF SettleAnalyzers, FoundOK
  <1>3. TrapOK'
      BY <1>1 DEF IInv, TrapOK, TrapSeen
  <1>4. RankedOK'
      BY DEF SettleAnalyzers, RankedOK, AnalyzeHolders, Listed, Owners, Largest
  <1> QED
      BY <1>1, <1>2, <1>3, <1>4 DEF IInv, FactsOK, ComparedOK, TrapIsCaught,
                                    HopsCountEvidence, Published

LEMMA CompareCreatorKeeps == IInv /\ CompareCreator => IInv'
  <1> SUFFICES ASSUME IInv, CompareCreator PROVE IInv'
      OBVIOUS
  <1>1. /\ stage = "comparing" /\ stage' = "scoring"
        /\ found' = found \union compared'.findings
        /\ UNCHANGED <<facts, answer, options, slot, contract, dex, holders>>
      BY DEF CompareCreator
  <1>2. \A x \in found : Common(x)
      BY <1>1 DEF IInv, FoundOK
  <1>3. /\ \A x \in compared'.findings : x.shown /\ x.name = RiskName
        /\ compared'.findings # {} <=> \E l \in compared'.links : l.events # {}
        /\ \A l \in compared'.links : LinkOK(l)
    <2>1. CASE compared'.links = {} /\ compared'.findings = {}
        BY <2>1
    <2>2. CASE Compares /\ compared' = CompareCrossChain(facts, answer, contract.deployer, Looked)
      <3>1. contract.deployer # Nobody
          BY <2>2 DEF Compares
      <3> HIDE DEF Looked
      <3> QED
          BY <2>2, <3>1, OneStory DEF LinkOK
    <2> QED
        BY <2>1, <2>2 DEF CompareCreator, NotCompared, ComparisonThrown, Looked
  <1>4. ComparedOK'
    <2>1. \A l : LinkOK(l)' <=> LinkOK(l)
        BY <1>1 DEF LinkOK, Looked
    <2> QED
        BY <1>1, <1>2, <1>3, <2>1 DEF ComparedOK, Common
  <1>5. TrapOK' /\ RankedOK'
      BY <1>1 DEF IInv, TrapOK, TrapSeen, RankedOK
  <1> QED
      BY <1>1, <1>4, <1>5 DEF IInv, FactsOK, FoundOK, TrapIsCaught, HopsCountEvidence, Published

\* Findings with evidence are reported as they are.
LEMMA Reported ==
    ASSUME NEW findings, NEW sim, NEW label, NEW used, NEW healthy, NEW complete,
           \A x \in findings : x.shown
    PROVE LET r == BuildRiskReport(findings, sim, label, used, healthy, complete)
          IN  /\ r.findings = findings \union SimulationFindings(sim) \union DeployerFindings(label)
              /\ r.complete = complete
              /\ (\E x \in r.findings : x.severity = "critical" /\ x.shown)
                    => r.overall = "critical_risk"
  <1> DEFINE raw     == findings \union SimulationFindings(sim) \union DeployerFindings(label)
             checked == {RequireEvidence(x) : x \in raw}
             score   == [c \in Categories |-> ScoreFromFindings(InCategory(checked, c))]
             critical == \E x \in checked : x.severity = "critical" /\ x.shown
             r == BuildRiskReport(findings, sim, label, used, healthy, complete)
  <1>1. \A x \in raw : x.shown
      BY HintFindings, LabelFindings DEF Common
  <1>2. \A x \in raw : RequireEvidence(x) = x
      BY <1>1 DEF RequireEvidence
  <1> HIDE DEF raw
  <1>3. checked = raw
      BY <1>2
  <1>4. /\ r.findings = checked /\ r.complete = complete
        /\ r.overall = AggregateOverall(score, critical)
      BY DEF BuildRiskReport, raw
  <1>5. \A s : AggregateOverall(s, TRUE) = "critical_risk"
      BY DEF AggregateOverall
  <1>6. critical => r.overall = "critical_risk"
      BY <1>4, <1>5
  <1> QED
      BY <1>3, <1>4, <1>6 DEF raw

\* Distance 0 is a link with an event, at both its ends.
LEMMA Distances ==
    ASSUME NEW W, NEW E, NEW L
    PROVE \A w \in W : HopsToRisk(W, E, L)[w] = 0 <=> w \in RiskAddresses(L)
  BY DEF HopsToRisk

LEMMA PublishKeeps == IInv /\ Publish => IInv'
  <1> SUFFICES ASSUME IInv, Publish PROVE IInv'
      OBVIOUS
  <1> DEFINE complete == [c \in ScoredCategories |-> AnalyzerComplete(c)]
             scored == BuildRiskReport(found, SimulationHint, ProfileLabel, UsedSources,
                           HealthySources, complete)
             wallets == GraphWallets(contract.deployer, ProfileFunder, GraphHolders, compared.links)
  <1>1. /\ stage = "scoring" /\ stage' = "published"
        /\ UNCHANGED <<facts, answer, options, slot, contract, dex, holders, found, compared>>
      BY DEF Publish
  <1>2. /\ \A x \in found : x.shown
        /\ (\E x \in found : x.name = RiskName) <=> (\E l \in compared.links : l.events # {})
        /\ \A l \in compared.links : LinkOK(l)
        /\ FactsOK /\ holders.ranked \subseteq Accounts
      BY <1>1 DEF IInv, ComparedOK, RankedOK
  <1>3. PICK kept \in KeptEdges(DrawnEdges) :
            report' = [overall |-> scored.overall, confidence |-> scored.confidence,
                       findings |-> scored.findings, complete |-> scored.complete,
                       hops |-> HopsToRisk(wallets, kept, compared.links),
                       linked |-> \E l \in compared.links : l.events # {}]
      BY DEF Publish, Hops
  <1> HIDE DEF complete
  <1>4. /\ scored.findings = found \union SimulationFindings(SimulationHint)
                                   \union DeployerFindings(ProfileLabel)
        /\ scored.complete = complete
        /\ (\E x \in scored.findings : x.severity = "critical" /\ x.shown)
              => scored.overall = "critical_risk"
      BY <1>2, Reported
  <1> HIDE DEF scored, wallets
  <1>5. TrapIsCaught'
    <2> SUFFICES ASSUME TrapSeen
                 PROVE  IF facts.refusal \in ProvenReverts
                        THEN report'.overall = "critical_risk"
                        ELSE /\ ~report'.complete["buy_sell"]
                             /\ \E x \in report'.findings : x.name = "sim-incomplete"
        BY <1>1 DEF TrapIsCaught, TrapSeen, Published
    <2>1. /\ facts.refusal \in ProvenReverts => IsTrap(dex.sim)
          /\ facts.refusal \notin ProvenReverts => ~IsTrap(dex.sim) /\ dex.sim.complete = FALSE
        BY <1>1 DEF IInv, TrapOK
    <2>2. ~options.skipSimulation /\ ~dex.thrown
        BY DEF TrapSeen, Executes
    <2>3. SimulationHint = {dex.sim}
        BY <2>2 DEF SimulationHint
    <2>4. (CHOOSE s \in {dex.sim} : TRUE) = dex.sim
        OBVIOUS
    <2>5. CASE facts.refusal \in ProvenReverts
      <3>1. SimulationFindings(SimulationHint)
                = {TokenFinding("sim-honeypot", "buy_sell", "critical")}
          BY <2>1, <2>3, <2>4, <2>5 DEF SimulationFindings
      <3>2. LET x == TokenFinding("sim-honeypot", "buy_sell", "critical")
            IN  x.severity = "critical" /\ x.shown
          BY DEF TokenFinding, Finding
      <3> QED
          BY <1>3, <1>4, <2>5, <3>1, <3>2
    <2>6. CASE facts.refusal \notin ProvenReverts
      <3>1. SimulationFindings(SimulationHint)
                = {TokenFinding("sim-incomplete", "buy_sell", "medium")}
          BY <2>1, <2>3, <2>4, <2>6 DEF SimulationFindings, When
      <3>2. TokenFinding("sim-incomplete", "buy_sell", "medium").name = "sim-incomplete"
          BY DEF TokenFinding, Finding
      <3>3. \E x \in report'.findings : x.name = "sim-incomplete"
          BY <1>3, <1>4, <3>1, <3>2
      <3>4. ~AnalyzerComplete("buy_sell")
          BY <2>1, <2>6 DEF AnalyzerComplete
      <3>5. ~report'.complete["buy_sell"]
          BY <1>3, <1>4, <3>4 DEF complete, ScoredCategories
      <3> QED
          BY <2>6, <3>3, <3>5
    <2> QED
        BY <2>5, <2>6
  <1>6. HopsCountEvidence'
    <2> DEFINE shown == \E x \in report'.findings : x.name = RiskName
    <2>1. shown <=> \E x \in found : x.name = RiskName
        BY <1>3, <1>4, HintFindings, LabelFindings DEF Common
    <2>2. report'.linked <=> \E l \in compared.links : l.events # {}
        BY <1>3
    <2>3. DOMAIN report'.hops = wallets
        BY <1>3 DEF HopsToRisk
    <2>4. \A w \in wallets : report'.hops[w] = 0 <=> w \in RiskAddresses(compared.links)
        BY <1>3, Distances
    <2>5. \A w \in RiskAddresses(compared.links) : \E l \in compared.links : l.events # {}
        BY DEF RiskAddresses
    <2>6. ASSUME NEW l \in compared.links, l.events # {}
          PROVE contract.deployer \in RiskAddresses(compared.links) /\ contract.deployer \in wallets
      <3>1. l.strength = "strong" /\ l.to = contract.deployer /\ contract.deployer # Nobody
          BY <1>2, <2>6 DEF LinkOK, Identity, Link
      <3> QED
          BY <2>6, <3>1 DEF RiskAddresses, wallets, GraphWallets
    <2>7. shown <=> report'.linked
        BY <1>2, <2>1, <2>2
    <2>8. shown <=> \E w \in wallets : report'.hops[w] = 0
        BY <2>2, <2>4, <2>5, <2>6, <2>7
    <2>9. shown => report'.hops[contract.deployer] = 0
        BY <2>2, <2>4, <2>6, <2>7
    <2>10. ASSUME shown, ProfileFunder # Nobody PROVE report'.hops[ProfileFunder] <= 1
      <3> DEFINE e == Edge("strong", ProfileFunder, contract.deployer, {})
      <3>1. contract.deployer \in RiskAddresses(compared.links)
          BY <2>2, <2>6, <2>7, <2>10
      <3>2. e \in kept
          BY <1>2, <1>3, <2>10, FundingKept
      <3>3. e.source = ProfileFunder /\ e.target = contract.deployer
          BY DEF Edge
      <3>4. ProfileFunder \in wallets
          BY <2>10 DEF wallets, GraphWallets, ProfileFunder
      <3>5. report'.hops[ProfileFunder] \in {0, 1}
        <4> HIDE DEF e
        <4> QED
            BY <1>3, <3>1, <3>2, <3>3, <3>4 DEF HopsToRisk
      <3> QED
          BY <3>5
    <2>11. ProfileFunder' = ProfileFunder /\ contract' = contract
        BY <1>1 DEF ProfileFunder
    <2> QED
        BY <1>1, <2>3, <2>7, <2>8, <2>9, <2>10, <2>11 DEF HopsCountEvidence, RiskName
  <1> QED
      BY <1>1, <1>2, <1>5, <1>6 DEF IInv, FactsOK, TrapOK, FoundOK, RankedOK, ComparedOK

\* A slot that is forgotten was a failed one.
LEMMA SlotExpiresKeeps == IInv /\ SlotExpires => IInv'
  <1> SUFFICES ASSUME IInv, SlotExpires PROVE IInv'
      OBVIOUS
  <1>1. slot' = "unknown" /\ UNCHANGED <<stage, facts, answer, options, contract, dex, holders,
                                         found, compared, report>>
      BY DEF SlotExpires, locals, ExpiredSlot
  <1>2. TrapOK' /\ TrapIsCaught'
      BY <1>1 DEF TrapOK, TrapSeen, TrapIsCaught
  <1>3. ComparedOK'
    <2>1. \A l : LinkOK(l)' <=> LinkOK(l)
        BY <1>1 DEF LinkOK, Looked
    <2> QED
        BY <1>1, <2>1 DEF IInv, ComparedOK
  <1>4. HopsCountEvidence'
      BY <1>1 DEF IInv, HopsCountEvidence, Published, ProfileFunder
  <1> QED
      BY <1>1, <1>2, <1>3, <1>4 DEF IInv, FactsOK, FoundOK, RankedOK

LEMMA Inductive == IInv /\ [Next]_vars => IInv'
  <1> SUFFICES ASSUME IInv, [Next]_vars PROVE IInv'
      OBVIOUS
  <1>1. CASE Next
      BY <1>1, OutsideKeeps, ReadPrologueKeeps, SettleAnalyzersKeeps, CompareCreatorKeeps,
         PublishKeeps, SlotExpiresKeeps DEF Next
  <1>2. CASE UNCHANGED vars
    <2>1. UNCHANGED vars /\ UNCHANGED <<stage, facts, answer, options, slot, contract, dex, holders,
                                       found, compared, report>>
        BY <1>2 DEF vars
    <2>2. ComparedOK'
      <3>1. \A l : LinkOK(l)' <=> LinkOK(l)
          BY <2>1 DEF LinkOK, Looked
      <3> QED
          BY <2>1, <3>1 DEF IInv, ComparedOK
    <2>3. HopsCountEvidence'
        BY <2>1 DEF IInv, HopsCountEvidence, Published, ProfileFunder
    <2> QED
        BY <2>1, <2>2, <2>3 DEF IInv, TrapOK, TrapSeen, FactsOK, FoundOK, RankedOK, TrapIsCaught,
                                Published
  <1> QED
      BY <1>1, <1>2

\* For every token: whatever else failed, a token that quotes a buy and refuses
\* the sale is critical once the round trip got an answer that proves the revert;
\* an answer that does not prove it is reported as a sale that was not tested,
\* and leaves the category incomplete (isRevert, executeRoundTrip, its findings
\* and aggregateOverall).
THEOREM TrapCaught ==
    Spec => []TrapIsCaught
  <1>1. IInv => TrapIsCaught
      BY DEF IInv
  <1> QED
      BY <1>1, Initially, Inductive, PTL DEF Spec

\* For every token and every set of events: the graph puts a wallet at distance 0
\* exactly when the report shows a reviewed event, and then the creator, and its
\* first funder within one hop whatever edges the graph lost to its limit
\* (compareCrossChain, its findings, prioritizeEdges and hopsToRisk of
\* buildFundingGraph).
THEOREM HopsTrue ==
    Spec => []HopsCountEvidence
  <1>1. IInv => HopsCountEvidence
      BY DEF IInv
  <1> QED
      BY <1>1, Initially, Inductive, PTL DEF Spec

-----------------------------------------------------------------------------
(* Sums over finite sets.  A statement about every finite set is proved of   *)
(* a least counterexample, which strict inclusion provides.                  *)

Pick(s) == CHOOSE x \in s : TRUE
IsFold(g, f, S) ==
    g = [s \in SUBSET S |-> IF s = {} THEN 0 ELSE f[Pick(s)] + g[s \ {Pick(s)}]]

\* A nonempty family of subsets of a finite set has a least member.
LEMMA Least ==
    ASSUME NEW S, IsFiniteSet(S), NEW B, B \subseteq SUBSET S, B # {}
    PROVE  \E T \in B : \A U \in B : ~(U \subseteq T /\ U # T)
  <1>1. IsWellFoundedOn(StrictSubsetOrdering(S), SUBSET S)
      BY FS_StrictSubsetOrderingWellFounded, FS_FiniteSubsetsOfFinite
  <1>2. \E T \in B : \A U \in B : ~(<<U, T>> \in StrictSubsetOrdering(S))
      BY <1>1, WFMin
  <1> QED
      BY <1>2 DEF StrictSubsetOrdering

LEMMA PickIn == \A s : s # {} => Pick(s) \in s
  BY DEF Pick

\* Two folds agree on the sets both are defined on.
LEMMA FoldUnique ==
    ASSUME NEW f, NEW S, NEW T, IsFiniteSet(T), T \subseteq S,
           NEW g, IsFold(g, f, S), NEW h, IsFold(h, f, T)
    PROVE  \A U \in SUBSET T : g[U] = h[U]
  <1> DEFINE B == {U \in SUBSET T : g[U] # h[U]}
  <1> SUFFICES ASSUME B # {} PROVE FALSE
      OBVIOUS
  <1>1. PICK U \in B : \A V \in B : ~(V \subseteq U /\ V # U)
    <2>1. B \subseteq SUBSET T
        OBVIOUS
    <2> HIDE DEF B
    <2> QED
        BY <2>1, Least
  <1>2. U \in SUBSET T /\ U \in SUBSET S
      OBVIOUS
  <1>3. CASE U = {}
      BY <1>2, <1>3 DEF IsFold
  <1>4. CASE U # {}
    <2> DEFINE V == U \ {Pick(U)}
    <2>1. V \subseteq U /\ V # U /\ V \in SUBSET T
        BY <1>2, <1>4, PickIn
    <2>2. g[V] = h[V]
        BY <1>1, <2>1
    <2>3. g[U] = f[Pick(U)] + g[V] /\ h[U] = f[Pick(U)] + h[V]
        BY <1>2, <1>4 DEF IsFold
    <2> QED
        BY <2>2, <2>3
  <1> QED
      BY <1>3, <1>4

\* Every function has a fold over a finite set.
LEMMA FoldExists ==
    ASSUME NEW f, NEW S, IsFiniteSet(S) PROVE \E g : IsFold(g, f, S)
  <1> DEFINE B == {T \in SUBSET S : ~\E g : IsFold(g, f, T)}
  <1> SUFFICES ASSUME B # {} PROVE FALSE
      OBVIOUS
  <1>1. PICK T \in B : \A U \in B : ~(U \subseteq T /\ U # T)
    <2>1. B \subseteq SUBSET S
        OBVIOUS
    <2> HIDE DEF B
    <2> QED
        BY <2>1, Least
  <1> DEFINE fold(U) == CHOOSE g : IsFold(g, f, U)
             h == [U \in SUBSET T |-> IF U = {} THEN 0 ELSE f[Pick(U)] + fold(U \ {Pick(U)})[U \ {Pick(U)}]]
  <1>0. T \in SUBSET S /\ IsFiniteSet(T)
      BY FS_Subset
  <1>2. \A U : U \subseteq T /\ U # T => IsFold(fold(U), f, U)
      BY <1>0, <1>1
  <1>3. \A U \in SUBSET T : U # {} => U \ {Pick(U)} \subseteq T /\ U \ {Pick(U)} # T
      BY PickIn
  <1>4. ASSUME NEW V, V \subseteq T, V # T, V # {}
        PROVE  fold(V)[V] = f[Pick(V)] + fold(V \ {Pick(V)})[V \ {Pick(V)}]
    <2> DEFINE W == V \ {Pick(V)}
    <2>1. W \subseteq V /\ W # V /\ W \subseteq T /\ W # T
        BY <1>4, PickIn
    <2>2. IsFold(fold(V), f, V) /\ IsFold(fold(W), f, W)
        BY <1>2, <1>4, <2>1
    <2>3. IsFiniteSet(W)
        BY <1>0, <2>1, FS_Subset
    <2>4. fold(V)[W] = fold(W)[W]
      <3>1. W \in SUBSET W
          OBVIOUS
      <3> HIDE DEF fold, W
      <3> QED
        BY <3>1, <2>1, <2>2, <2>3, FoldUnique
    <2>5. fold(V)[V] = f[Pick(V)] + fold(V)[W]
      <3> HIDE DEF fold
      <3> QED
        BY <1>4, <2>2 DEF IsFold
    <2> QED
        BY <2>4, <2>5
  <1>5. \A V : V \subseteq T /\ V # T => h[V] = fold(V)[V]
    <2> SUFFICES ASSUME NEW V, V \subseteq T, V # T PROVE h[V] = fold(V)[V]
        OBVIOUS
    <2>1. CASE V = {}
      <3>1. IsFold(fold({}), f, {})
          BY <1>2, <2>1
      <3> HIDE DEF fold
      <3> QED
          BY <2>1, <3>1 DEF IsFold
    <2>2. CASE V # {}
      <3> HIDE DEF fold
      <3> QED
        BY <1>4, <2>2
    <2> QED
        BY <2>1, <2>2
  <1>6. IsFold(h, f, T)
    <2>1. \A U \in SUBSET T : U # {} => h[U \ {Pick(U)}] = fold(U \ {Pick(U)})[U \ {Pick(U)}]
      <3> HIDE DEF fold, h
      <3> QED
        BY <1>3, <1>5
    <2>2. \A U \in SUBSET T :
              h[U] = IF U = {} THEN 0 ELSE f[Pick(U)] + fold(U \ {Pick(U)})[U \ {Pick(U)}]
        BY DEF h
    <2>3. h = [U \in SUBSET T |-> h[U]]
        BY DEF h
    <2> HIDE DEF fold, h
    <2>4. h = [U \in SUBSET T |-> IF U = {} THEN 0 ELSE f[Pick(U)] + h[U \ {Pick(U)}]]
        BY <2>1, <2>2, <2>3
    <2> QED
        BY <2>4 DEF IsFold
  <1> QED
      BY <1>1, <1>6

LEMMA SumFold == ASSUME NEW f, NEW S
   PROVE SumFunctionOnSet(f, S) = (CHOOSE g : IsFold(g, f, S))[S]
  BY DEF SumFunctionOnSet, FoldFunctionOnSet, MapThenFoldSet, IsFold, Pick

\* The sum of a finite set, one element at a time.
LEMMA SumSteps ==
    ASSUME NEW f, NEW S, IsFiniteSet(S)
    PROVE  SumFunctionOnSet(f, S) = IF S = {} THEN 0 ELSE f[Pick(S)] + SumFunctionOnSet(f, S \ {Pick(S)})
  <1> DEFINE fold(U) == CHOOSE g : IsFold(g, f, U)
             R == S \ {Pick(S)}
  <1>1. IsFiniteSet(R) /\ R \subseteq S
      BY FS_Subset
  <1>2. IsFold(fold(S), f, S) /\ IsFold(fold(R), f, R)
      BY <1>1, FoldExists
  <1>3. SumFunctionOnSet(f, S) = fold(S)[S] /\ SumFunctionOnSet(f, R) = fold(R)[R]
      BY SumFold
  <1> HIDE DEF fold
  <1>4. fold(S)[R] = fold(R)[R]
      BY <1>1, <1>2, FoldUnique
  <1>5. fold(S)[S] = IF S = {} THEN 0 ELSE f[Pick(S)] + fold(S)[R]
      BY <1>2 DEF IsFold
  <1> QED
      BY <1>3, <1>4, <1>5

\* Between a least and a greatest value, a sum lies between their multiples.
LEMMA SumBounds ==
    ASSUME NEW S, IsFiniteSet(S), NEW f, NEW lo \in Int, NEW hi \in Int,
           \A x \in S : f[x] \in Int /\ lo <= f[x] /\ f[x] <= hi
    PROVE  /\ SumFunctionOnSet(f, S) \in Int
           /\ lo * Cardinality(S) <= SumFunctionOnSet(f, S)
           /\ SumFunctionOnSet(f, S) <= hi * Cardinality(S)
  <1> DEFINE Bounded(T) == /\ SumFunctionOnSet(f, T) \in Int
                           /\ lo * Cardinality(T) <= SumFunctionOnSet(f, T)
                           /\ SumFunctionOnSet(f, T) <= hi * Cardinality(T)
             B == {T \in SUBSET S : ~Bounded(T)}
  <1> SUFFICES ASSUME B # {} PROVE FALSE
      OBVIOUS
  <1>1. PICK T \in B : \A U \in B : ~(U \subseteq T /\ U # T)
    <2>1. B \subseteq SUBSET S
        OBVIOUS
    <2> HIDE DEF B
    <2> QED
        BY <2>1, Least
  <1>2. T \in SUBSET S /\ IsFiniteSet(T)
      BY FS_Subset
  <1>3. CASE T = {}
    <2>1. SumFunctionOnSet(f, T) = 0 /\ Cardinality(T) = 0
        BY <1>2, <1>3, SumSteps, FS_EmptySet
    <2> QED
        BY <2>1
  <1>4. CASE T # {}
    <2> DEFINE x == Pick(T)
               R == T \ {x}
               n == Cardinality(R)
    <2>1. x \in T /\ x \in S
        BY <1>2, <1>4, PickIn
    <2>2. R \in SUBSET S /\ R \subseteq T /\ R # T
        BY <1>2, <2>1
    <2>3. Bounded(R)
        BY <1>1, <2>2
    <2>4. IsFiniteSet(R) /\ n \in Nat /\ Cardinality(T) = n + 1
      <3>1. IsFiniteSet(R) /\ n = Cardinality(T) - 1
          BY <1>2, <2>1, FS_RemoveElement
      <3>2. n \in Nat /\ Cardinality(T) \in Nat
          BY <1>2, <3>1, FS_CardinalityType
      <3> QED
          BY <3>1, <3>2
    <2>5. SumFunctionOnSet(f, T) = f[x] + SumFunctionOnSet(f, R)
        BY <1>2, <1>4, SumSteps
    <2>6. f[x] \in Int /\ lo <= f[x] /\ f[x] <= hi
        BY <2>1
    <2>7. lo * (n + 1) = lo * n + lo /\ hi * (n + 1) = hi * n + hi /\ lo * n \in Int /\ hi * n \in Int
        BY <2>4
    <2> HIDE DEF x, R, n
    <2>8. Bounded(T)
        BY <2>3, <2>4, <2>5, <2>6, <2>7 DEF n
    <2> QED
        BY <2>8
  <1> QED
      BY <1>3, <1>4

\* A sum of natural numbers is one.
LEMMA SumNatural ==
    ASSUME NEW S, IsFiniteSet(S), NEW f, \A x \in S : f[x] \in Nat
    PROVE  SumFunctionOnSet(f, S) \in Nat
  <1> DEFINE B == {T \in SUBSET S : SumFunctionOnSet(f, T) \notin Nat}
  <1> SUFFICES ASSUME B # {} PROVE FALSE
      OBVIOUS
  <1>1. PICK T \in B : \A U \in B : ~(U \subseteq T /\ U # T)
    <2>1. B \subseteq SUBSET S
        OBVIOUS
    <2> HIDE DEF B
    <2> QED
        BY <2>1, Least
  <1>2. T \in SUBSET S /\ IsFiniteSet(T)
      BY FS_Subset
  <1>3. CASE T = {}
    <2>1. SumFunctionOnSet(f, T) = 0
        BY <1>2, <1>3, SumSteps
    <2> QED
        BY <2>1
  <1>4. CASE T # {}
    <2> DEFINE x == Pick(T)
    <2>1. x \in T /\ T \ {x} \in SUBSET S /\ T \ {x} # T
        BY <1>2, <1>4, PickIn
    <2>2. SumFunctionOnSet(f, T \ {x}) \in Nat
        BY <1>1, <2>1
    <2>3. SumFunctionOnSet(f, T) = f[x] + SumFunctionOnSet(f, T \ {x})
        BY <1>2, <1>4, SumSteps
    <2>4. f[x] \in Nat
        BY <1>2, <2>1
    <2> HIDE DEF x
    <2> QED
        BY <2>2, <2>3, <2>4
  <1> QED
      BY <1>3, <1>4

\* The order of a sum does not matter: any element may be taken out first.
LEMMA SumRemove ==
    ASSUME NEW S, IsFiniteSet(S), NEW f, \A x \in S : f[x] \in Nat, NEW x \in S
    PROVE  SumFunctionOnSet(f, S) = f[x] + SumFunctionOnSet(f, S \ {x})
  <1> DEFINE Sum(T) == SumFunctionOnSet(f, T)
             B == {T \in SUBSET S : \E y \in T : Sum(T) # f[y] + Sum(T \ {y})}
  <1> SUFFICES ASSUME B # {} PROVE FALSE
      OBVIOUS
  <1>1. PICK T \in B : \A U \in B : ~(U \subseteq T /\ U # T)
    <2>1. B \subseteq SUBSET S
        OBVIOUS
    <2> HIDE DEF B
    <2> QED
        BY <2>1, Least
  <1>2. PICK y \in T : Sum(T) # f[y] + Sum(T \ {y})
      OBVIOUS
  <1> DEFINE c == Pick(T)
  <1>3. c \in T /\ T \in SUBSET S
      BY PickIn
  <1>4. \A U \in SUBSET S : IsFiniteSet(U)
      BY FS_Subset
  <1>5. \A U \in SUBSET S : Sum(U) \in Int
      BY <1>4, SumNatural
  <1>9. ASSUME NEW U \in SUBSET S, U \subseteq T, U # T, NEW z \in U
        PROVE  Sum(U) = f[z] + Sum(U \ {z})
      BY <1>1, <1>9
  <1>6. Sum(T) = f[c] + Sum(T \ {c})
      BY <1>3, <1>4, SumSteps
  <1>7. CASE y = c
      BY <1>2, <1>6, <1>7
  <1>8. CASE y # c
    <2>1. T \ {c} \in SUBSET S /\ T \ {y} \in SUBSET S /\ T \ {c} # T /\ T \ {y} # T
        BY <1>3
    <2>2. Sum(T \ {c}) = f[y] + Sum((T \ {c}) \ {y})
        BY <1>2, <1>8, <1>9, <2>1
    <2>3. Sum(T \ {y}) = f[c] + Sum((T \ {y}) \ {c})
        BY <1>3, <1>8, <1>9, <2>1
    <2>4. (T \ {c}) \ {y} = (T \ {y}) \ {c}
        OBVIOUS
    <2>5. f[y] \in Int /\ f[c] \in Int /\ Sum((T \ {y}) \ {c}) \in Int
        BY <1>3, <1>5, <2>1
    <2> HIDE DEF Sum, c
    <2> QED
        BY <1>2, <1>6, <2>2, <2>3, <2>4, <2>5
  <1> QED
      BY <1>7, <1>8

\* A sum of natural numbers grows with its set.
LEMMA SumMonotone ==
    ASSUME NEW S, IsFiniteSet(S), NEW f, \A x \in S : f[x] \in Nat, NEW T \in SUBSET S
    PROVE  SumFunctionOnSet(f, T) <= SumFunctionOnSet(f, S)
  <1> DEFINE Sum(U) == SumFunctionOnSet(f, U)
             B == {U \in SUBSET S : T \subseteq U /\ ~(Sum(T) \in Int /\ Sum(U) \in Int /\ Sum(T) <= Sum(U))}
  <1>0. \A U \in SUBSET S : IsFiniteSet(U)
      BY FS_Subset
  <1>a. Sum(T) \in Int
      BY <1>0, SumNatural
  <1> SUFFICES ASSUME B # {} PROVE FALSE
      OBVIOUS
  <1>1. PICK U \in B : \A V \in B : ~(V \subseteq U /\ V # U)
    <2>1. B \subseteq SUBSET S
        OBVIOUS
    <2> HIDE DEF B
    <2> QED
        BY <2>1, Least
  <1>2. U # T
      BY <1>a
  <1>3. PICK x \in U : x \notin T
      BY <1>2
  <1>4. Sum(U) = f[x] + Sum(U \ {x})
    <2>1. IsFiniteSet(U) /\ \A y \in U : f[y] \in Nat
        BY <1>0
    <2> QED
        BY <2>1, SumRemove
  <1>5. U \ {x} \in SUBSET S /\ T \subseteq U \ {x} /\ U \ {x} # U
      BY <1>3
  <1>6. Sum(U \ {x}) \in Int /\ Sum(T) <= Sum(U \ {x})
      BY <1>1, <1>5
  <1>7. f[x] \in Nat
      OBVIOUS
  <1> HIDE DEF Sum
  <1> QED
      BY <1>a, <1>1, <1>4, <1>6, <1>7

\* Some element of a finite set has the greatest value.
LEMMA Greatest ==
    ASSUME NEW S, IsFiniteSet(S), S # {}, NEW f, \A x \in S : f[x] \in Int
    PROVE  \E m \in S : \A x \in S : f[x] <= f[m]
  <1> DEFINE B == {T \in SUBSET S : T # {} /\ ~\E m \in T : \A x \in T : f[x] <= f[m]}
  <1> SUFFICES ASSUME B # {} PROVE FALSE
      OBVIOUS
  <1>1. PICK T \in B : \A U \in B : ~(U \subseteq T /\ U # T)
    <2>1. B \subseteq SUBSET S
        OBVIOUS
    <2> HIDE DEF B
    <2> QED
        BY <2>1, Least
  <1>2. PICK x \in T : TRUE
      OBVIOUS
  <1> DEFINE R == T \ {x}
  <1>3. CASE R = {}
      BY <1>2, <1>3
  <1>4. CASE R # {}
    <2>1. PICK m \in R : \A y \in R : f[y] <= f[m]
      <3>1. R \in SUBSET S /\ R \subseteq T /\ R # T
          BY <1>2
      <3>2. R \notin B
          BY <1>1, <3>1
      <3> HIDE DEF R
      <3> QED
          BY <1>4, <3>1, <3>2
    <2>2. f[m] \in Int /\ f[x] \in Int /\ m \in T /\ \A y \in T : f[y] \in Int
        BY <1>2, <2>1
    <2>3. CASE f[x] <= f[m]
        BY <1>1, <2>1, <2>2, <2>3
    <2>4. CASE f[m] <= f[x]
      <3>1. \A y \in T : f[y] <= f[x]
          BY <2>1, <2>2, <2>4
      <3> QED
          BY <1>1, <1>2, <3>1
    <2> QED
        BY <2>2, <2>3, <2>4
  <1> QED
      BY <1>3, <1>4

LEMMA MaxIs ==
    ASSUME NEW W, W \subseteq Int, NEW m \in W, \A w \in W : w <= m
    PROVE  Max(W) = m
  <1>1. \A w \in W : m >= w
      OBVIOUS
  <1>2. Max(W) \in W /\ \A w \in W : Max(W) >= w
      BY <1>1 DEF Max
  <1>3. Max(W) \in Int /\ Max(W) >= m /\ m >= Max(W)
      BY <1>1, <1>2
  <1> QED
      BY <1>3

LEMMA Division ==
    ASSUME NEW a \in Nat, NEW b \in Nat, b > 0, NEW lo \in Nat, NEW hi \in Nat,
           b * lo <= a, a < b * (hi + 1)
    PROVE  a \div b \in Nat /\ lo <= a \div b /\ a \div b <= hi
  <1> DEFINE q == a \div b
  <1>1. q \in Nat /\ b * q <= a /\ a < b * (q + 1)
      OBVIOUS
  <1> QED
      BY <1>1

\* The score of a category lies between its weights.
LEMMA ScoreBetween ==
    ASSUME NEW F, IsFiniteSet(F), F # {}, NEW lo \in Nat, NEW hi \in Nat,
           \A x \in F : /\ SeverityWeight[x.severity] \in Nat
                        /\ lo <= SeverityWeight[x.severity]
                        /\ SeverityWeight[x.severity] <= hi
    PROVE  /\ ScoreFromFindings(F) \in Nat
           /\ lo <= ScoreFromFindings(F) /\ ScoreFromFindings(F) <= hi
  <1> DEFINE w == [x \in F |-> SeverityWeight[x.severity]]
             n == Cardinality(F)
             worst == WorstWeight(F)
             sum == WeightSum(F)
  <1>1. n \in Nat /\ n > 0
      BY FS_CardinalityType, FS_EmptySet
  <1>2. \A x \in F : w[x] \in Nat /\ w[x] \in Int /\ lo <= w[x] /\ w[x] <= hi
      OBVIOUS
  <1>3. worst \in Nat /\ lo <= worst /\ worst <= hi
    <2> HIDE DEF w
    <2>1. PICK m \in F : \A x \in F : w[x] <= w[m]
        BY <1>2, Greatest
    <2> DEFINE W == {SeverityWeight[x.severity] : x \in F}
    <2>2. W \subseteq Int /\ w[m] \in W /\ \A v \in W : v <= w[m]
        BY <2>1 DEF w
    <2> HIDE DEF W
    <2>3. Max(W) = w[m]
        BY <2>2, MaxIs
    <2> QED
        BY <1>2, <2>3 DEF W, WorstWeight
  <1>4. /\ sum \in Nat
        /\ lo * n <= sum /\ sum <= hi * n
    <2>1. sum = SumFunctionOnSet(w, F)
        BY DEF WeightSum, SumFunction
    <2> HIDE DEF w, sum
    <2>2. sum \in Nat
        BY <1>2, <2>1, SumNatural
    <2>3. lo \in Int /\ hi \in Int
        OBVIOUS
    <2>4. /\ lo * Cardinality(F) <= SumFunctionOnSet(w, F)
          /\ SumFunctionOnSet(w, F) <= hi * Cardinality(F)
        BY <1>2, <2>3, SumBounds
    <2> QED
        BY <2>1, <2>2, <2>4
  <1> DEFINE tenths == 7 * n * worst + 3 * sum
             a == tenths + 5 * n
             b == 10 * n
  <1>5. ScoreFromFindings(F) = a \div b
      BY DEF ScoreFromFindings
  <1> HIDE DEF n, worst, sum
  <1>6. n * lo \in Nat /\ n * hi \in Nat /\ n * worst \in Nat /\ n * lo <= n * worst /\ n * worst <= n * hi
      BY <1>1, <1>3
  <1>7. b * lo = 10 * (n * lo) /\ b * (hi + 1) = 10 * (n * hi) + 10 * n
      BY <1>1
  <1>8. a = 7 * (n * worst) + 3 * sum + 5 * n
      BY <1>1, <1>3
  <1>9. lo * n = n * lo /\ hi * n = n * hi
      BY <1>1
  <1>10. a \in Nat /\ b \in Nat /\ b > 0 /\ b * lo <= a /\ a < b * (hi + 1)
    <2> HIDE DEF a, b
    <2>1. a \in Nat
        BY <1>1, <1>4, <1>6, <1>8
    <2>2. b \in Nat /\ b > 0
        BY <1>1 DEF b
    <2>3. b * lo <= a
        BY <1>1, <1>4, <1>6, <1>7, <1>8, <1>9
    <2>4. a < b * (hi + 1)
        BY <1>1, <1>4, <1>6, <1>7, <1>8, <1>9
    <2> QED
        BY <2>1, <2>2, <2>3, <2>4
  <1> HIDE DEF a, b
  <1> QED
      BY <1>5, <1>10, Division

\* The scored categories are nine.
LEMMA NineCategories == IsFiniteSet(ScoredCategories) /\ Cardinality(ScoredCategories) = 9
  <1> DEFINE A1 == {"contract"}
             A2 == A1 \union {"owner_admin"}
             A3 == A2 \union {"buy_sell"}
             A4 == A3 \union {"liquidity"}
             A5 == A4 \union {"holder_concentration"}
             A6 == A5 \union {"insider_links"}
             A7 == A6 \union {"deployer_history"}
             A8 == A7 \union {"cross_chain"}
             A9 == A8 \union {"market_behavior"}
  <1>1. IsFiniteSet(A1) /\ Cardinality(A1) = 1
      BY FS_Singleton
  <1>2. IsFiniteSet(A2) /\ Cardinality(A2) = 2
      BY <1>1, FS_AddElement
  <1>3. IsFiniteSet(A3) /\ Cardinality(A3) = 3
      BY <1>2, FS_AddElement
  <1>4. IsFiniteSet(A4) /\ Cardinality(A4) = 4
      BY <1>3, FS_AddElement
  <1>5. IsFiniteSet(A5) /\ Cardinality(A5) = 5
      BY <1>4, FS_AddElement
  <1>6. IsFiniteSet(A6) /\ Cardinality(A6) = 6
      BY <1>5, FS_AddElement
  <1>7. IsFiniteSet(A7) /\ Cardinality(A7) = 7
      BY <1>6, FS_AddElement
  <1>8. IsFiniteSet(A8) /\ Cardinality(A8) = 8
      BY <1>7, FS_AddElement
  <1>9. IsFiniteSet(A9) /\ Cardinality(A9) = 9
      BY <1>8, FS_AddElement
  <1>10. ScoredCategories = A9
      BY DEF ScoredCategories
  <1> QED
      BY <1>9, <1>10

\* One category at caution keeps the report from the lowest level, and scores
\* of at most 70 alone are not critical.
LEMMA Aggregated ==
    ASSUME NEW score, \A c \in ScoredCategories : score[c] \in Nat
    PROVE  /\ \A critical \in BOOLEAN :
                 (\E c \in ScoredCategories : score[c] >= 40)
                     => AggregateOverall(score, critical) # "low_detected_risk"
           /\ (\A c \in ScoredCategories : score[c] <= 70)
                 => AggregateOverall(score, FALSE) # "critical_risk"
  <1> DEFINE W == {score[c] : c \in ScoredCategories}
             worst == Max(W)
             sum == SumFunctionOnSet(score, ScoredCategories)
             n == Cardinality(ScoredCategories)
  <1>1. PICK m \in ScoredCategories : \A c \in ScoredCategories : score[c] <= score[m]
    <2>1. ScoredCategories # {} /\ \A c \in ScoredCategories : score[c] \in Int
        BY DEF ScoredCategories
    <2> QED
        BY <2>1, NineCategories, Greatest
  <1>2. worst = score[m]
    <2>1. W \subseteq Int /\ score[m] \in W /\ \A v \in W : v <= score[m]
        BY <1>1
    <2> HIDE DEF W
    <2> QED
        BY <2>1, MaxIs
  <1>3. sum \in Nat
      BY NineCategories, SumNatural
  <1>4. ASSUME \A c \in ScoredCategories : score[c] <= 70 PROVE sum <= 630
    <2>1. \A c \in ScoredCategories : score[c] \in Int /\ 0 <= score[c] /\ score[c] <= 70
        BY <1>4
    <2>2. sum <= 70 * Cardinality(ScoredCategories)
        BY <2>1, NineCategories, SumBounds
    <2> HIDE DEF sum
    <2> QED
        BY <2>2, NineCategories
  <1>5. n = 9 /\ score[m] \in Nat
      BY <1>1, NineCategories
  <1>6. ASSUME NEW critical \in BOOLEAN, NEW c \in ScoredCategories, score[c] >= 40
        PROVE  AggregateOverall(score, critical) # "low_detected_risk"
    <2>1. score[m] >= 40
        BY <1>1, <1>5, <1>6
    <2> HIDE DEF worst, sum, n
    <2> QED
        BY <1>2, <1>3, <1>5, <2>1 DEF AggregateOverall, worst, sum, n
  <1>7. ASSUME \A c \in ScoredCategories : score[c] <= 70
        PROVE  AggregateOverall(score, FALSE) # "critical_risk"
    <2>1. score[m] <= 70 /\ sum <= 630
        BY <1>1, <1>4, <1>7
    <2> QED
        BY <1>2, <1>3, <1>5, <2>1 DEF AggregateOverall
  <1> QED
      BY <1>6, <1>7

-----------------------------------------------------------------------------
(* The second invariant: at every stage the variables are what the analyzers *)
(* say of the token and of the reads that answered, and the report is what   *)
(* buildRiskReport makes of all findings.                                    *)

Settled == contract.findings \union DexGap(dex)

Gathered ==
    Settled \union holders.findings \union LiquidityFindings(facts, answer, dex)
            \union NoCreator(contract.deployer)

AllFindings ==
    found \union SimulationFindings(SimulationHint) \union DeployerFindings(ProfileLabel)

Comparisons ==
    IF Compares
    THEN {CompareCrossChain(facts, answer, contract.deployer, Looked), ComparisonThrown}
    ELSE {NotCompared}

IsCritical(x) == x.severity = "critical" /\ x.shown

Verdict(F) ==
    AggregateOverall([c \in Categories |-> ScoreFromFindings(InCategory(F, c))],
                     \E x \in F : IsCritical(x))

PrologueOK ==
    stage \in {"settling", "comparing", "scoring", "published"} =>
        /\ contract = AnalyzeContract(facts, answer)
        /\ \/ dex = NoDex
           \/ \E s \in SlotStates, lost \in Failures :
                 dex = DexAnswer(facts, answer, options, s, lost)

SettledOK == stage = "settling" => found = Settled

HoldersOK ==
    stage \in {"comparing", "scoring", "published"} =>
        holders = AnalyzeHolders(facts, answer, contract.deployer, contract.supply, dex.pair)

GatheredOK == stage = "comparing" => found = Gathered

PastOK ==
    stage \in {"scoring", "published"} =>
        compared \in Comparisons /\ found = Gathered \union compared.findings

ReportOK ==
    stage = "published" =>
        /\ report.findings = AllFindings
        /\ report.complete = [c \in ScoredCategories |-> AnalyzerComplete(c)]
        /\ report.overall = Verdict(AllFindings)

Collected ==
    /\ slot \in SlotStates
    /\ PrologueOK /\ SettledOK /\ HoldersOK /\ GatheredOK /\ PastOK /\ ReportOK

\* What the report holds when every finding has evidence attached.
LEMMA ReportOf ==
    ASSUME NEW findings, NEW sim, NEW label, NEW used, NEW healthy, NEW complete,
           \A x \in findings : x.shown
    PROVE LET r == BuildRiskReport(findings, sim, label, used, healthy, complete)
              F == findings \union SimulationFindings(sim) \union DeployerFindings(label)
          IN  r.findings = F /\ r.complete = complete /\ r.overall = Verdict(F)
  <1> DEFINE F == findings \union SimulationFindings(sim) \union DeployerFindings(label)
             checked == {RequireEvidence(x) : x \in F}
             r == BuildRiskReport(findings, sim, label, used, healthy, complete)
  <1>1. \A x \in F : x.shown
      BY HintFindings, LabelFindings DEF Common
  <1>2. \A x \in F : RequireEvidence(x) = x
      BY <1>1 DEF RequireEvidence
  <1>3. /\ r.findings = checked /\ r.complete = complete
        /\ r.overall = Verdict(checked)
      BY DEF BuildRiskReport, Verdict, IsCritical
  <1>4. checked = F
    <2> HIDE DEF F
    <2> QED
        BY <1>2
  <1> QED
      BY <1>3, <1>4

LEMMA CollectedInit == Init => Collected
  BY DEF Init, Collected, SlotStates, PrologueOK, SettledOK, HoldersOK, GatheredOK, PastOK,
         ReportOK

LEMMA CollectedStep == IInv /\ Collected /\ [Next]_vars => Collected'
  <1> SUFFICES ASSUME IInv, Collected, [Next]_vars PROVE Collected'
      OBVIOUS
  <1> USE DEF PrologueOK, SettledOK, HoldersOK, GatheredOK, PastOK, ReportOK
  <1>1. ASSUME stage' \in {"idle", "reading"}, slot' = slot \/ slot' \in SlotStates PROVE Collected'
      BY <1>1 DEF Collected
  <1>2. CASE \E f \in FactSet, a \in AnswerSet, o \in OptionSet : Begin(f, a, o)
      BY <1>1, <1>2 DEF Begin
  <1>3. CASE AnalyzerThrows \/ Return \/ ProbedElsewhere
      BY <1>1, <1>3 DEF AnalyzerThrows, Return, ProbedElsewhere, SlotStates
  <1>4. CASE ReadPrologue
    <2>1. /\ stage' = "settling" /\ UNCHANGED <<facts, answer, options>>
          /\ contract' = AnalyzeContract(facts, answer)
          /\ slot' = SlotAfter(facts, answer, options, slot)
          /\ \/ dex' = NoDex
             \/ \E lost \in Failures : dex' = DexAnswer(facts, answer, options, slot, lost)
          /\ found' = contract'.findings \union DexGap(dex')
        BY <1>4 DEF ReadPrologue
    <2>2. slot \in SlotStates
        BY DEF Collected
    <2>3. slot' \in SlotStates
        BY <2>1, <2>2 DEF SlotAfter, ResolveBaseBalanceSlot, SlotStates
    <2> QED
        BY <2>1, <2>2, <2>3 DEF Collected, Settled
  <1>5. CASE SettleAnalyzers
    <2>1. /\ stage = "settling" /\ stage' = "comparing"
          /\ UNCHANGED <<facts, answer, options, slot, contract, dex>>
          /\ holders' = AnalyzeHolders(facts, answer, contract.deployer, contract.supply, dex.pair)
          /\ found' = found \union holders'.findings \union LiquidityFindings(facts, answer, dex)
                            \union NoCreator(contract.deployer)
        BY <1>5 DEF SettleAnalyzers
    <2> QED
        BY <2>1 DEF Collected, Settled, Gathered
  <1>6. CASE CompareCreator
    <2>1. /\ stage = "comparing" /\ stage' = "scoring"
          /\ UNCHANGED <<facts, answer, options, slot, contract, dex, holders>>
          /\ compared' \in Comparisons /\ found' = found \union compared'.findings
        BY <1>6 DEF CompareCreator, Comparisons, Looked
    <2>2. Comparisons' = Comparisons /\ Gathered' = Gathered
        BY <2>1 DEF Comparisons, Compares, Looked, Gathered, Settled
    <2> QED
        BY <2>1, <2>2 DEF Collected
  <1>7. CASE Publish
    <2> DEFINE complete == [c \in ScoredCategories |-> AnalyzerComplete(c)]
               scored == BuildRiskReport(found, SimulationHint, ProfileLabel, UsedSources,
                             HealthySources, complete)
    <2>1. /\ stage = "scoring" /\ stage' = "published"
          /\ UNCHANGED <<facts, answer, options, slot, contract, dex, holders, found, compared>>
          /\ report'.overall = scored.overall /\ report'.findings = scored.findings
          /\ report'.complete = scored.complete
        BY <1>7 DEF Publish
    <2>2. \A x \in found : x.shown
        BY <2>1 DEF IInv, ComparedOK
    <2>3. /\ scored.findings = AllFindings /\ scored.complete = complete
          /\ scored.overall = Verdict(AllFindings)
      <3> HIDE DEF complete
      <3> QED
          BY <2>2, ReportOf DEF AllFindings
    <2>4. /\ Comparisons' = Comparisons /\ Gathered' = Gathered /\ AllFindings' = AllFindings
          /\ SimulationHint' = SimulationHint /\ ProfileLabel' = ProfileLabel
        BY <2>1 DEF Comparisons, Compares, Looked, Gathered, Settled, AllFindings, SimulationHint,
                    ProfileLabel
    <2>5. \A c : AnalyzerComplete(c)' <=> AnalyzerComplete(c)
        BY <2>1, <2>4 DEF AnalyzerComplete
    <2>6. complete' = complete /\ Verdict(AllFindings)' = Verdict(AllFindings)
        BY <2>4, <2>5 DEF Verdict
    <2> HIDE DEF scored, complete
    <2>7. ReportOK'
        BY <2>1, <2>3, <2>4, <2>6 DEF complete
    <2> QED
        BY <2>1, <2>4, <2>7 DEF Collected
  <1>8. CASE SlotExpires \/ UNCHANGED vars
    <2>1. /\ UNCHANGED <<stage, facts, answer, options, contract, dex, holders, found, compared,
                         report>>
          /\ slot' = slot \/ slot' = "unknown"
        BY <1>8 DEF SlotExpires, locals, vars, ExpiredSlot
    <2>2. /\ Comparisons' = Comparisons /\ Gathered' = Gathered /\ AllFindings' = AllFindings
          /\ SimulationHint' = SimulationHint /\ ProfileLabel' = ProfileLabel
          /\ Settled' = Settled
        BY <2>1 DEF Comparisons, Compares, Looked, Gathered, Settled, AllFindings, SimulationHint,
                    ProfileLabel
    <2>3. \A c : AnalyzerComplete(c)' <=> AnalyzerComplete(c)
        BY <2>1, <2>2 DEF AnalyzerComplete
    <2>4. /\ [c \in ScoredCategories |-> AnalyzerComplete(c)]'
               = [c \in ScoredCategories |-> AnalyzerComplete(c)]
          /\ Verdict(AllFindings)' = Verdict(AllFindings)
        BY <2>2, <2>3 DEF Verdict
    <2>5. slot' \in SlotStates
        BY <2>1 DEF Collected, SlotStates
    <2>6. PrologueOK' /\ SettledOK' /\ HoldersOK' /\ GatheredOK' /\ PastOK'
        BY <2>1, <2>2 DEF Collected
    <2>7. ReportOK'
        BY <2>1, <2>2, <2>4 DEF Collected
    <2> QED
        BY <2>5, <2>6, <2>7 DEF Collected
  <1> QED
      BY <1>2, <1>3, <1>4, <1>5, <1>6, <1>7, <1>8 DEF Next

\* Both invariants hold.
LEMMA Always == Spec => [](IInv /\ Collected)
  BY Initially, Inductive, CollectedInit, CollectedStep, PTL DEF Spec

-----------------------------------------------------------------------------
(* The findings are finitely many, and each has a severity.                  *)

LEMMA SelectorsFinite == IsFiniteSet(DOMAIN SelectorRisks)
  <1> DEFINE A1 == {"mint"} \union {"pause"}
             A2 == {"blacklist"} \union {"maxTx"}
             A3 == {"sellFee"} \union {"taxFee"}
             A4 == {"upgradeable"} \union {"changeAdmin"}
             A5 == A1 \union A2
             A6 == A3 \union A4
             A7 == A5 \union A6
             A8 == A7 \union {"burnFrom"}
  <1>1. \A x : IsFiniteSet({x})
      BY FS_Singleton
  <1>2. IsFiniteSet(A1) /\ IsFiniteSet(A2) /\ IsFiniteSet(A3) /\ IsFiniteSet(A4)
      BY <1>1, UnionFinite
  <1>3. IsFiniteSet(A5) /\ IsFiniteSet(A6)
      BY <1>2, UnionFinite
  <1>4. IsFiniteSet(A8)
      BY <1>1, <1>3, UnionFinite
  <1>5. DOMAIN SelectorRisks = A8
      BY DEF SelectorRisks
  <1> QED
      BY <1>4, <1>5

LEMMA ContractFinite ==
    ASSUME NEW f \in FactSet, NEW a PROVE IsFiniteSet(AnalyzeContract(f, a).findings)
  <1> DEFINE T == IF HasCode(f, a) THEN f.selectors ELSE {}
             g == [s \in T |-> TokenFinding(s, SelectorRisks[s].category, SelectorRisks[s].severity)]
  <1>1. T \subseteq DOMAIN SelectorRisks
      BY FactsAssumption
  <1>2. IsFiniteSet(T)
      BY <1>1, SelectorsFinite, SubsetFinite
  <1>3. SelectorFindings(f, a) = {g[s] : s \in T}
      BY DEF SelectorFindings
  <1>4. IsFiniteSet(SelectorFindings(f, a))
    <2> HIDE DEF g, T
    <2> QED
        BY <1>2, <1>3, ImageFinite
  <1>5. IsFiniteSet(CodeFindings(f, a)) /\ IsFiniteSet(SourceFindings(f, a))
      BY WhenFinite, UnionFinite DEF CodeFindings, SourceFindings
  <1>6. IsFiniteSet(OwnerFindings(f, a))
      BY FS_Singleton DEF OwnerFindings
  <1>7. IsFiniteSet(CodeFindings(f, a) \union SourceFindings(f, a))
      BY <1>5, UnionFinite
  <1>8. IsFiniteSet(CodeFindings(f, a) \union SourceFindings(f, a) \union SelectorFindings(f, a))
      BY <1>4, <1>7, UnionFinite
  <1> QED
      BY <1>6, <1>8, UnionFinite DEF AnalyzeContract

LEMMA HoldersFinite ==
    ASSUME NEW f, NEW a, NEW deployer, NEW supply, NEW poolKnown
    PROVE  IsFiniteSet(AnalyzeHolders(f, a, deployer, supply, poolKnown).findings)
  <1> DEFINE T == {v \in Wallets : FunderScanComplete(f, a, poolKnown)
                                     /\ Cardinality(FundedBy(f, a, poolKnown, v)) >= 2}
             g == [w \in T |-> Finding("common-funder", w, "insider_links",
                     IF supply /\ ShareSum(f, FundedBy(f, a, poolKnown, w)) >= 30
                     THEN "high" ELSE "medium")]
  <1>1. IsFiniteSet(T)
      BY AccountsFinite, SubsetFinite
  <1>2. FunderFindings(f, a, poolKnown, supply) = {g[w] : w \in T}
      BY DEF FunderFindings
  <1>3. IsFiniteSet(FunderFindings(f, a, poolKnown, supply))
    <2> HIDE DEF g, T
    <2> QED
        BY <1>1, <1>2, ImageFinite
  <1>4. \A pct : IsFiniteSet(ConcentrationFindings(pct)) /\ IsFiniteSet(DeployerShareFindings(pct))
      BY WhenFinite DEF ConcentrationFindings, DeployerShareFindings
  <1>5. IsFiniteSet(BundleFindings(f, a)) /\ IsFiniteSet(HolderGaps(f, a, poolKnown, supply))
      BY WhenFinite, UnionFinite DEF BundleFindings, HolderGaps
  <1> QED
      BY <1>3, <1>4, <1>5, UnionFinite DEF AnalyzeHolders

LEMMA PoolFinite ==
    ASSUME NEW f, NEW a, NEW d PROVE IsFiniteSet(LiquidityFindings(f, a, d))
  <1>1. IsFiniteSet(AnalyzeLiquidity(f, a))
      BY WhenFinite, FS_Singleton, UnionFinite DEF AnalyzeLiquidity
  <1>2. \A T : IsFiniteSet(AnalyzeLiquidity(f, a) \ T)
      BY <1>1, SubsetFinite
  <1> QED
      BY <1>2, WhenFinite, UnionFinite DEF LiquidityFindings

LEMMA PastFinite ==
    ASSUME NEW f, NEW a, NEW deployer, NEW addresses, IsFiniteSet(addresses)
    PROVE  IsFiniteSet(CompareCrossChain(f, a, deployer, addresses).findings)
  <1> DEFINE g == [x \in addresses |-> HistoryRisk(f, x)]
             T == {g[x] : x \in addresses}
  <1>1. IsFiniteSet(T)
    <2> HIDE DEF g
    <2> QED
        BY ImageFinite
  <1>2. \A F \in T : IsFiniteSet(F)
      BY WhenFinite DEF HistoryRisk
  <1>3. IsFiniteSet(UNION T)
    <2> HIDE DEF T
    <2> QED
        BY <1>1, <1>2, FS_UNION
  <1>4. T = {HistoryRisk(f, x) : x \in addresses}
      OBVIOUS
  <1> QED
      BY <1>3, <1>4 DEF CompareCrossChain

LEMMA ReportFinite ==
    ASSUME FactsOK, Collected, stage = "published" PROVE IsFiniteSet(AllFindings)
  <1>1. facts \in FactSet
      BY DEF FactsOK
  <1>2. IsFiniteSet(contract.findings)
      BY <1>1, ContractFinite DEF Collected, PrologueOK
  <1>3. IsFiniteSet(holders.findings) /\ holders.ranked \subseteq Accounts
    <2>1. \A f, a : Listed(f, a) \subseteq Accounts
        BY DEF Listed, Owners, Largest
    <2> QED
        BY <2>1, HoldersFinite DEF Collected, HoldersOK, AnalyzeHolders
  <1>4. \A p, q : IsFiniteSet(ComparedAddresses(p, q, Largest(facts, holders.ranked, Candidates)))
    <2> TAKE p, q
    <2>1. Largest(facts, holders.ranked, Candidates) \subseteq Accounts
        BY <1>3 DEF Largest
    <2>2. IsFiniteSet({p, q})
      <3>1. IsFiniteSet({p} \union {q})
          BY FS_Singleton, UnionFinite
      <3> QED
          BY <3>1
    <2>3. IsFiniteSet({p, q} \union Accounts)
        BY <2>2, AccountsFinite, UnionFinite
    <2> QED
        BY <2>1, <2>3, SubsetFinite DEF ComparedAddresses
  <1>5. IsFiniteSet(compared.findings)
      BY <1>4, PastFinite, FS_EmptySet
         DEF Collected, PastOK, Comparisons, Looked, NotCompared, ComparisonThrown
  <1>6. IsFiniteSet(DexGap(dex)) /\ IsFiniteSet(NoCreator(contract.deployer))
      BY WhenFinite DEF DexGap, NoCreator
  <1>7. IsFiniteSet(Gathered)
      BY <1>2, <1>3, <1>6, PoolFinite, UnionFinite DEF Gathered, Settled
  <1>8. IsFiniteSet(SimulationFindings(SimulationHint))
      BY WhenFinite, FS_EmptySet, FS_Singleton DEF SimulationFindings
  <1>9. IsFiniteSet(DeployerFindings(ProfileLabel))
      BY WhenFinite, UnionFinite DEF DeployerFindings
  <1> QED
      BY <1>5, <1>7, <1>8, <1>9, UnionFinite DEF AllFindings, Collected, PastOK

-----------------------------------------------------------------------------
(* What a critical finding rests on.                                         *)

\* A fact of the token that makes a critical verdict right.
Founded ==
    \/ ~facts.code \/ "upgradeable" \in facts.selectors
    \/ facts.pair = "live" /\ facts.quotes /\ ~facts.sells
    \/ facts.lpTop >= 90
    \/ facts.share[facts.creator] >= 50
    \/ \E e \in facts.events : e.status = "confirmed" /\ e.class = "confirmed_malicious"
    \/ OwnersShare >= 95
    \/ facts.pair # "none" /\ ~dex.pair

Rated(F) == \A x \in F : x.severity \in Severities /\ (x.severity = "critical" => Founded)

LEMMA RatedUnion == \A F, G : Rated(F) /\ Rated(G) => Rated(F \union G)
  BY DEF Rated

LEMMA RatedFinding ==
    ASSUME NEW name, NEW of, NEW category, NEW severity \in Severities,
           severity = "critical" => Founded, NEW condition
    PROVE  /\ Rated({Finding(name, of, category, severity)})
           /\ Rated(When(condition, Finding(name, of, category, severity)))
  BY DEF Rated, Finding, When

LEMMA RatedOrdinary ==
    ASSUME NEW name, NEW category, NEW severity \in Severities \ {"critical"}, NEW condition
    PROVE  /\ Rated({TokenFinding(name, category, severity)})
           /\ Rated(When(condition, TokenFinding(name, category, severity)))
           /\ Rated({Gap(name, severity)}) /\ Rated(When(condition, Gap(name, severity)))
  BY RatedFinding DEF TokenFinding, Gap

LEMMA ContractRated ==
    ASSUME FactsOK PROVE Rated(AnalyzeContract(facts, answer).findings)
  <1> USE DEF Severities
  <1>1. Rated(CodeFindings(facts, answer))
    <2>1. ASSUME CodeRead(facts, answer) /\ ~HasCode(facts, answer) PROVE Founded
        BY <2>1 DEF HasCode, Founded
    <2>2. Rated(When(CodeRead(facts, answer) /\ ~HasCode(facts, answer), Gap("no-code", "critical")))
        BY <2>1 DEF Rated, When, Gap, TokenFinding, Finding
    <2> QED
        BY <2>2, RatedOrdinary, RatedUnion DEF CodeFindings
  <1>2. Rated(SourceFindings(facts, answer))
      BY RatedOrdinary, RatedUnion DEF SourceFindings
  <1>3. Rated(SelectorFindings(facts, answer))
    <2> SUFFICES ASSUME NEW x \in SelectorFindings(facts, answer)
                 PROVE  x.severity \in Severities /\ (x.severity = "critical" => Founded)
        BY DEF Rated
    <2>1. PICK s \in facts.selectors :
              x = TokenFinding(s, SelectorRisks[s].category, SelectorRisks[s].severity)
        BY DEF SelectorFindings
    <2>2. x.severity = SelectorRisks[s].severity
        BY <2>1 DEF TokenFinding, Finding
    <2>3. s \in DOMAIN SelectorRisks
        BY FactsAssumption DEF FactsOK
    <2>4. /\ SelectorRisks[s].severity \in Severities
          /\ SelectorRisks[s].severity = "critical" => s = "upgradeable"
        BY <2>3 DEF SelectorRisks, Risk
    <2> QED
        BY <2>2, <2>4 DEF Founded
  <1>4. Rated(OwnerFindings(facts, answer))
      BY RatedOrdinary DEF OwnerFindings
  <1> QED
      BY <1>1, <1>2, <1>3, <1>4, RatedUnion DEF AnalyzeContract

\* A list that was cut short holds everybody ahead of whom it holds.
LEMMA ListedClosed ==
    ASSUME FactsOK, NEW x \in Listed(facts, answer), NEW y \in Owners(facts), Ahead(facts, y, x)
    PROVE  x \in Owners(facts) /\ y \in Listed(facts, answer)
  <1> DEFINE O == Owners(facts)
             Before(v) == {z \in O : Ahead(facts, z, v)}
  <1>1. O \subseteq Accounts
      BY DEF Owners
  <1>2. CASE Whole(answer, "holders")
    <2>1. Listed(facts, answer) = O
        BY <1>2 DEF Listed, Whole
    <2> HIDE DEF Before
    <2> QED
        BY <2>1
  <1>3. CASE ~Whole(answer, "holders") /\ answer["holders"] = "part"
    <2>1. Listed(facts, answer) = Largest(facts, O, PageRows)
        BY <1>3 DEF Listed
    <2>2. x \in O /\ Cardinality(Before(x)) < PageRows
        BY <2>1 DEF Largest
    <2>3. Before(y) \subseteq Before(x)
        BY <1>1, <2>2, AheadTransitive DEF FactsOK
    <2>4. IsFiniteSet(Before(x))
        BY <1>1, AccountsFinite, SubsetFinite
    <2>5. /\ Cardinality(Before(y)) <= Cardinality(Before(x)) /\ IsFiniteSet(Before(y))
      <3> HIDE DEF Before
      <3> QED
          BY <2>3, <2>4, FS_Subset
    <2>6. Cardinality(Before(y)) \in Nat /\ Cardinality(Before(x)) \in Nat
        BY <2>4, <2>5, FS_CardinalityType
    <2>7. Cardinality(Before(y)) < PageRows
        BY <2>2, <2>5, <2>6, ListAssumption
    <2> QED
        BY <2>1, <2>2, <2>7 DEF Largest
  <1>4. CASE ~Whole(answer, "holders") /\ answer["holders"] # "part"
      BY <1>4 DEF Listed
  <1> QED
      BY <1>2, <1>3, <1>4

LEMMA ListedOwners == Listed(facts, answer) \subseteq Owners(facts) /\ Owners(facts) \subseteq Accounts
  BY DEF Listed, Largest, Owners

\* The first holders of a shorter list hold no more than those of the whole one.
LEMMA TopShare ==
    ASSUME FactsOK, NEW supply, NEW pool, pool = (facts.pair # "none")
    PROVE  TopPct(facts, answer, pool, supply) >= 95 => OwnersShare >= 95
  <1> DEFINE C == Circulating(facts, answer, pool)
             D == {h \in Owners(facts) : ~IsService(h, pool)}
             T == Largest(facts, C, TopHolders)
             S == Largest(facts, D, TopHolders)
  <1>1. C \subseteq D /\ D \subseteq Accounts
      BY ListedOwners DEF Circulating
  <1>2. \A x \in C : \A y \in D : Ahead(facts, y, x) => y \in C
      BY ListedClosed, ListedOwners DEF Circulating
  <1>3. \A x \in C : {y \in C : Ahead(facts, y, x)} = {y \in D : Ahead(facts, y, x)}
      BY <1>1, <1>2
  <1>4. T \subseteq S /\ S \subseteq Accounts
      BY <1>1, <1>3 DEF Largest
  <1>5. IsFiniteSet(S) /\ IsFiniteSet(T)
      BY <1>4, AccountsFinite, SubsetFinite
  <1>6. \A x \in S : facts.share[x] \in Nat
      BY <1>4, FactsAssumption DEF FactsOK
  <1> HIDE DEF S, T
  <1>7. ShareSum(facts, T) <= ShareSum(facts, S)
      BY <1>4, <1>5, <1>6, SumMonotone DEF ShareSum
  <1>8. ShareSum(facts, T) \in Nat /\ ShareSum(facts, S) \in Nat
      BY <1>4, <1>5, <1>6, SumNatural DEF ShareSum
  <1>9. OwnersShare = ShareSum(facts, S)
      BY DEF OwnersShare, S
  <1> DEFINE top == TopPct(facts, answer, pool, supply)
  <1>10. top = ShareSum(facts, T) \/ top = 0
      BY DEF TopPct, T
  <1> HIDE DEF top
  <1>11. top >= 95 => OwnersShare >= 95
      BY <1>7, <1>8, <1>9, <1>10
  <1> QED
      BY <1>11 DEF top

\* A pair that was read exists.
LEMMA PoolIs ==
    ASSUME Collected, stage \in {"settling", "comparing", "scoring", "published"}
    PROVE  dex.pair \in BOOLEAN /\ (dex.pair => facts.pair # "none")
  <1>1. NoDex.pair = FALSE
      BY DEF NoDex
  <1>2. \A s, lost : LET d == DexAnswer(facts, answer, options, s, lost)
                    IN  d.pair \in BOOLEAN /\ (d.pair => facts.pair # "none")
      BY DEF DexAnswer, AnalyzeApexiSwap, PairRead
  <1> QED
      BY <1>1, <1>2 DEF Collected, PrologueOK

LEMMA HoldersRated ==
    ASSUME FactsOK, NEW supply, dex.pair \in BOOLEAN, dex.pair => facts.pair # "none"
    PROVE  Rated(AnalyzeHolders(facts, answer, Deployer(facts, answer), supply, dex.pair).findings)
  <1> DEFINE top == TopPct(facts, answer, dex.pair, supply)
             own == DeployerPct(facts, answer, Deployer(facts, answer), supply)
  <1> USE DEF Severities
  <1>1. Rated(ConcentrationFindings(top))
    <2>1. ASSUME top >= 95 PROVE Founded
      <3>1. CASE dex.pair = (facts.pair # "none")
          BY <2>1, <3>1, TopShare DEF Founded
      <3>2. CASE facts.pair # "none" /\ ~dex.pair
          BY <3>2 DEF Founded
      <3> QED
          BY <3>1, <3>2
    <2> HIDE DEF top
    <2> QED
        BY <2>1 DEF ConcentrationFindings, Rated, When, TokenFinding, Finding
  <1>2. Rated(DeployerShareFindings(own))
    <2>1. ASSUME own >= 50 PROVE Founded
      <3>1. CASE Deployer(facts, answer) = Nobody
        <4>1. Nobody \notin Listed(facts, answer)
            BY ListedOwners, AccountsAssumption
        <4> QED
            BY <2>1, <3>1, <4>1 DEF DeployerPct
      <3>2. CASE Deployer(facts, answer) = facts.creator
          BY <2>1, <3>2 DEF DeployerPct, Founded
      <3> QED
          BY <3>1, <3>2 DEF Deployer
    <2> HIDE DEF own
    <2> QED
        BY <2>1 DEF DeployerShareFindings, Rated, When, TokenFinding, Finding
  <1>3. Rated(BundleFindings(facts, answer))
      BY RatedOrdinary DEF BundleFindings
  <1>4. Rated(FunderFindings(facts, answer, dex.pair, supply))
      BY DEF FunderFindings, Rated, Finding
  <1>5. Rated(HolderGaps(facts, answer, dex.pair, supply))
      BY RatedOrdinary, RatedUnion DEF HolderGaps
  <1> QED
      BY <1>1, <1>2, <1>3, <1>4, <1>5, RatedUnion DEF AnalyzeHolders

LEMMA PoolRated ==
    ASSUME Collected, stage \in {"settling", "published"} PROVE Rated(LiquidityFindings(facts, answer, dex))
  <1> USE DEF Severities
  <1>1. dex.pair /\ dex.lpTop >= 90 => Founded
    <2>1. ~NoDex.pair
        BY DEF NoDex
    <2>2. CASE dex = NoDex
        BY <2>1, <2>2
    <2>3. CASE dex # NoDex
      <3>1. PICK s \in SlotStates, lost \in Failures :
                dex = DexAnswer(facts, answer, options, s, lost)
          BY <2>3 DEF Collected, PrologueOK
      <3>2. dex.lpTop = facts.lpTop \/ dex.lpTop = 0
          BY <3>1 DEF DexAnswer, AnalyzeApexiSwap, LpControllerPct
      <3> QED
          BY <3>2 DEF Founded
    <2> QED
        BY <2>2, <2>3
  <1>2. Rated(AnalyzeLiquidity(facts, answer))
      BY RatedOrdinary, RatedUnion DEF AnalyzeLiquidity, LiquidityUnknown
  <1>3. \A T : Rated(AnalyzeLiquidity(facts, answer) \ T)
      BY <1>2 DEF Rated
  <1>4. Rated(When(dex.pair /\ dex.lpTop >= 50,
                   TokenFinding("lp-control", "liquidity",
                                IF dex.lpTop >= 90 THEN "critical" ELSE "high")))
      BY <1>1 DEF Rated, When, TokenFinding, Finding
  <1> QED
      BY <1>3, <1>4, RatedUnion DEF LiquidityFindings

\* A trap is a token that quotes a buy and reverts the sale.
LEMMA TrapIsTrue ==
    ASSUME NEW s, NEW lost \in Failures,
           IsTrap(Simulation(facts, answer, options.skipSimulation, s, lost))
    PROVE  facts.pair = "live" /\ facts.quotes /\ ~facts.sells
  <1> DEFINE skip == options.skipSimulation
             sim == Simulation(facts, answer, skip, s, lost)
  <1>1. PairRead(facts, answer)
      BY DEF Simulation, NoSimulation, IsTrap
  <1>2. CanBuy(facts, answer, lost) = "yes"
      BY <1>1 DEF Simulation, IsTrap
  <1>3. HasLiquidity(facts) /\ Quoted(facts, answer)
    <2> DEFINE refused == IsRevert(Thrown(facts, answer, "quote", lost))
    <2>1. CanBuy(facts, answer, lost) = CASE ~HasLiquidity(facts)    -> "no"
                                          [] Quoted(facts, answer) -> "yes"
                                          [] OTHER -> IF refused THEN "no" ELSE "unknown"
        BY DEF CanBuy
    <2> HIDE DEF refused
    <2>2. Quoted(facts, answer) => HasLiquidity(facts)
        BY DEF Quoted
    <2> QED
        BY <1>2, <2>1, <2>2
  <1>4. Executes(facts, answer, skip) /\ RoundTrip(facts, answer, s, lost) = "no"
      BY <1>1 DEF Simulation, IsTrap
  <1>5. ~IsRevert(lost)
      BY DEF Failures, IsRevert, Dropped, Limited, Estimated, Unknown, Error
  <1>6. ~facts.sells
    <2> DEFINE refused == IsRevert(Thrown(facts, answer, "trip", lost))
    <2>1. RoundTrip(facts, answer, s, lost)
              = IF s # "resolved" THEN "unknown"
                ELSE IF Answered(answer, "trip") /\ facts.sells THEN "yes"
                ELSE IF refused THEN "no" ELSE "unknown"
        BY DEF RoundTrip
    <2>2. ~Answered(answer, "trip") => ~refused
        BY <1>5 DEF Thrown
    <2> HIDE DEF refused
    <2> QED
        BY <1>4, <2>1, <2>2
  <1> QED
      BY <1>3, <1>6 DEF HasLiquidity, Quoted

LEMMA DexIs ==
    ASSUME Collected, stage \in {"settling", "comparing", "scoring", "published"}
    PROVE  \/ dex = NoDex /\ dex.thrown
           \/ \E s, lost :
                 /\ lost \in Failures /\ ~dex.thrown
                 /\ dex = DexAnswer(facts, answer, options, s, lost)
                 /\ dex.sim = Simulation(facts, answer, options.skipSimulation,
                                         SlotAfter(facts, answer, options, s), lost)
  <1>1. NoDex.thrown
      BY DEF NoDex
  <1>2. \A s, lost : /\ ~DexAnswer(facts, answer, options, s, lost).thrown
                     /\ DexAnswer(facts, answer, options, s, lost).sim
                          = Simulation(facts, answer, options.skipSimulation,
                                       SlotAfter(facts, answer, options, s), lost)
      BY DEF DexAnswer, AnalyzeApexiSwap
  <1> QED
      BY <1>1, <1>2 DEF Collected, PrologueOK

\* A round trip that was read, if any, gives its own findings.
LEMMA HintIs ==
    SimulationFindings(SimulationHint) =
        IF options.skipSimulation \/ dex.thrown THEN {}
        ELSE IF IsTrap(dex.sim) THEN {TokenFinding("sim-honeypot", "buy_sell", "critical")}
        ELSE When(~dex.sim.complete, TokenFinding("sim-incomplete", "buy_sell", "medium"))
  <1>1. (CHOOSE s \in {dex.sim} : TRUE) = dex.sim
      OBVIOUS
  <1>2. {dex.sim} # {}
      OBVIOUS
  <1> QED
      BY <1>1, <1>2 DEF SimulationFindings, SimulationHint

LEMMA HintRated ==
    ASSUME Collected, stage = "published" PROVE Rated(SimulationFindings(SimulationHint))
  <1> USE DEF Severities
  <1>1. IsTrap(dex.sim) /\ ~dex.thrown => Founded
      BY DexIs, TrapIsTrue DEF Founded
  <1>2. CASE IsTrap(dex.sim) /\ ~dex.thrown
      BY <1>1, <1>2, HintIs DEF Rated, TokenFinding, Finding
  <1>3. CASE ~(IsTrap(dex.sim) /\ ~dex.thrown)
      BY <1>3, HintIs DEF Rated, When, TokenFinding, Finding
  <1> QED
      BY <1>2, <1>3

LEMMA PastRated ==
    ASSUME NEW a, NEW deployer, NEW addresses
    PROVE  Rated(CompareCrossChain(facts, a, deployer, addresses).findings)
  <1> SUFFICES ASSUME NEW w \in addresses, NEW x \in HistoryRisk(facts, w)
               PROVE  x.severity \in Severities /\ (x.severity = "critical" => Founded)
      BY DEF Rated, CompareCrossChain
  <1> USE DEF Severities
  <1>1. x = Finding("creator-history-risk", w, "cross_chain",
                    IF \E e \in RelatedRiskEvents(facts, w) : e.class = "confirmed_malicious"
                    THEN "critical" ELSE "high")
      BY DEF HistoryRisk, When
  <1>2. CASE \E e \in RelatedRiskEvents(facts, w) : e.class = "confirmed_malicious"
    <2>1. Founded
        BY <1>2 DEF RelatedRiskEvents, Founded
    <2> QED
        BY <1>1, <1>2, <2>1 DEF Finding
  <1>3. CASE ~\E e \in RelatedRiskEvents(facts, w) : e.class = "confirmed_malicious"
      BY <1>1, <1>3 DEF Finding
  <1> QED
      BY <1>2, <1>3

LEMMA ReportRated ==
    ASSUME FactsOK, Collected, stage = "published" PROVE Rated(AllFindings)
  <1> USE DEF Severities
  <1>1. Rated(contract.findings) /\ contract.deployer = Deployer(facts, answer)
      BY ContractRated DEF Collected, PrologueOK, AnalyzeContract
  <1>2. Rated(holders.findings)
      BY <1>1, PoolIs, HoldersRated DEF Collected, HoldersOK
  <1>3. Rated(DexGap(dex)) /\ Rated(NoCreator(contract.deployer))
      BY RatedOrdinary DEF DexGap, NoCreator
  <1>4. Rated(DeployerFindings(ProfileLabel))
      BY RatedOrdinary, RatedUnion DEF DeployerFindings
  <1>5. Rated({})
      BY DEF Rated
  <1>6. Rated(compared.findings)
    <2>1. CASE Compares
        BY <1>5, <2>1, PastRated DEF Collected, PastOK, Comparisons, ComparisonThrown
    <2>2. CASE ~Compares
        BY <1>5, <2>2 DEF Collected, PastOK, Comparisons, NotCompared
    <2> QED
        BY <2>1, <2>2
  <1>7. Rated(Gathered)
      BY <1>1, <1>2, <1>3, PoolRated, RatedUnion DEF Gathered, Settled
  <1> QED
      BY <1>4, <1>6, <1>7, HintRated, RatedUnion DEF AllFindings, Collected, PastOK

-----------------------------------------------------------------------------
(* The verdict.                                                              *)

LEMMA Weights ==
    \A s \in Severities : /\ SeverityWeight[s] \in Nat /\ SeverityWeight[s] <= 95
                          /\ s # "critical" => SeverityWeight[s] <= 70
                          /\ s \notin {"info", "low"} => 45 <= SeverityWeight[s]
  BY DEF Severities, SeverityWeight

\* A score is a natural number, and at most 70 without a critical finding.
LEMMA CategoryScore ==
    ASSUME NEW F, IsFiniteSet(F), \A x \in F : x.severity \in Severities, NEW c
    PROVE  LET score == ScoreFromFindings(InCategory(F, c))
           IN  /\ score \in Nat
               /\ (\A x \in F : x.severity # "critical") => score <= 70
               /\ InCategory(F, c) # {}
                    /\ (\A x \in InCategory(F, c) : x.severity \notin {"info", "low"})
                      => score >= 45
  <1> DEFINE G == InCategory(F, c)
             score == ScoreFromFindings(G)
  <1>1. IsFiniteSet(G) /\ G \subseteq F
      BY SubsetFinite DEF InCategory
  <1>2. \A x \in G : SeverityWeight[x.severity] \in Nat /\ SeverityWeight[x.severity] <= 95
      BY <1>1, Weights
  <1>3. CASE G = {}
      BY <1>3 DEF ScoreFromFindings
  <1>4. CASE G # {}
    <2> HIDE DEF G
    <2>1. score \in Nat
        BY <1>1, <1>2, <1>4, ScoreBetween
    <2>2. ASSUME \A x \in F : x.severity # "critical" PROVE score <= 70
      <3>1. \A x \in G : /\ SeverityWeight[x.severity] \in Nat
                         /\ 0 <= SeverityWeight[x.severity] /\ SeverityWeight[x.severity] <= 70
          BY <1>1, <2>2, Weights
      <3> QED
          BY <1>1, <1>4, <3>1, ScoreBetween
    <2>3. ASSUME \A x \in G : x.severity \notin {"info", "low"} PROVE score >= 45
      <3>1. \A x \in G : /\ SeverityWeight[x.severity] \in Nat
                         /\ 45 <= SeverityWeight[x.severity] /\ SeverityWeight[x.severity] <= 95
          BY <1>1, <2>3, Weights
      <3>2. 45 <= score
          BY <1>1, <1>4, <3>1, ScoreBetween
      <3> QED
          BY <2>1, <3>2
    <2> QED
        BY <2>1, <2>2, <2>3 DEF G
  <1> QED
      BY <1>3, <1>4

LEMMA VerdictOf ==
    ASSUME NEW F, IsFiniteSet(F), \A x \in F : x.severity \in Severities
    PROVE  /\ Verdict(F) = "critical_risk" => \E x \in F : x.severity = "critical"
           /\ Verdict(F) = "low_detected_risk" =>
                 \A c \in ScoredCategories :
                     \/ InCategory(F, c) = {}
                     \/ \E x \in InCategory(F, c) : x.severity \in {"info", "low"}
  <1> DEFINE score == [c \in Categories |-> ScoreFromFindings(InCategory(F, c))]
             critical == \E x \in F : IsCritical(x)
  <1>1. ScoredCategories \subseteq Categories
      BY DEF Categories
  <1>2. \A c \in ScoredCategories : score[c] = ScoreFromFindings(InCategory(F, c))
      BY <1>1
  <1>3. \A c \in ScoredCategories : score[c] \in Nat
      BY <1>2, CategoryScore
  <1>4. Verdict(F) = AggregateOverall(score, critical)
      BY DEF Verdict
  <1> HIDE DEF score
  <1>5. ASSUME \A x \in F : x.severity # "critical" PROVE Verdict(F) # "critical_risk"
    <2>1. \A c \in ScoredCategories : score[c] <= 70
        BY <1>2, <1>5, CategoryScore
    <2>2. critical = FALSE
        BY <1>5 DEF IsCritical
    <2> QED
        BY <1>3, <1>4, <2>1, <2>2, Aggregated
  <1>6. ASSUME NEW c \in ScoredCategories, InCategory(F, c) # {},
               \A x \in InCategory(F, c) : x.severity \notin {"info", "low"}
        PROVE  Verdict(F) # "low_detected_risk"
    <2>1. score[c] >= 45 /\ score[c] \in Nat
        BY <1>2, <1>6, CategoryScore
    <2>2. score[c] >= 40
        BY <2>1
    <2>3. critical \in BOOLEAN
        OBVIOUS
    <2> HIDE DEF critical
    <2> QED
        BY <1>3, <1>4, <2>2, <2>3, Aggregated
  <1> QED
      BY <1>5, <1>6

\* For every token, whichever reads fail: a critical verdict rests on a fact of
\* the token, or the pair it has could not be read ("a gap is never a critical verdict",
\* contract.ts; aggregateOverall).
THEOREM CriticalFounded == Spec => []CriticalIsFounded
  <1>1. FactsOK /\ Collected => CriticalIsFounded
    <2> SUFFICES ASSUME FactsOK, Collected, stage = "published",
                        report.overall = "critical_risk"
                 PROVE  Founded
        BY DEF CriticalIsFounded, Published, Founded
    <2>1. Verdict(AllFindings) = "critical_risk"
        BY DEF Collected, ReportOK
    <2>2. Rated(AllFindings) /\ IsFiniteSet(AllFindings)
        BY ReportRated, ReportFinite
    <2>3. \A x \in AllFindings : x.severity \in Severities
        BY <2>2 DEF Rated
    <2>4. \E x \in AllFindings : x.severity = "critical"
        BY <2>1, <2>2, <2>3, VerdictOf
    <2> QED
        BY <2>2, <2>4 DEF Rated
  <1>2. IInv => FactsOK
      BY DEF IInv
  <1> QED
      BY <1>1, <1>2, Always, PTL

-----------------------------------------------------------------------------
(* The findings of each category.                                            *)

Only(F, C) == \A x \in F : x.category \in C

LEMMA OnlyUnion == \A F, G, C : Only(F, C) /\ Only(G, C) => Only(F \union G, C)
  BY DEF Only

LEMMA OnlyFinding ==
    ASSUME NEW name, NEW of, NEW category, NEW severity, NEW condition
    PROVE  /\ Only(When(condition, Finding(name, of, category, severity)), {category})
           /\ Only(When(condition, TokenFinding(name, category, severity)), {category})
           /\ Only(When(condition, Gap(name, severity)), {"data_gaps"})
  BY DEF Only, When, Finding, TokenFinding, Gap

\* Where the analyzers put their findings.
LEMMA Categorised ==
    ASSUME NEW f \in FactSet, NEW a, NEW d, NEW deployer, NEW supply, NEW poolKnown,
           NEW sim, NEW label, NEW addresses, NEW top, NEW own
    PROVE  /\ Only(CodeFindings(f, a), {"data_gaps"})
           /\ Only(SourceFindings(f, a), {"contract"})
           /\ Only(SelectorFindings(f, a), {"contract", "owner_admin"})
           /\ Only(OwnerFindings(f, a), {"owner_admin", "data_gaps"})
           /\ Only(ConcentrationFindings(top), {"holder_concentration"})
           /\ Only(DeployerShareFindings(own), {"insider_links"})
           /\ Only(BundleFindings(f, a), {"insider_links"})
           /\ Only(FunderFindings(f, a, poolKnown, supply), {"insider_links"})
           /\ Only(HolderGaps(f, a, poolKnown, supply), {"data_gaps"})
           /\ Only(LiquidityFindings(f, a, d), {"liquidity"})
           /\ Only(SimulationFindings(sim), {"buy_sell"})
           /\ Only(DeployerFindings(label), {"deployer_history", "data_gaps"})
           /\ Only(CompareCrossChain(f, a, deployer, addresses).findings, {"cross_chain"})
           /\ Only(DexGap(d), {"data_gaps"}) /\ Only(NoCreator(deployer), {"data_gaps"})
  <1>1. Only(CodeFindings(f, a), {"data_gaps"})
      BY OnlyFinding, OnlyUnion DEF CodeFindings
  <1>2. Only(SourceFindings(f, a), {"contract"})
      BY OnlyFinding, OnlyUnion DEF SourceFindings
  <1>3. Only(SelectorFindings(f, a), {"contract", "owner_admin"})
    <2> SUFFICES ASSUME NEW x \in SelectorFindings(f, a)
                 PROVE  x.category \in {"contract", "owner_admin"}
        BY DEF Only
    <2>1. PICK s \in f.selectors :
              x = TokenFinding(s, SelectorRisks[s].category, SelectorRisks[s].severity)
        BY DEF SelectorFindings
    <2>2. x.category = SelectorRisks[s].category /\ s \in DOMAIN SelectorRisks
        BY <2>1, FactsAssumption DEF TokenFinding, Finding
    <2> QED
        BY <2>2 DEF SelectorRisks, Risk
  <1>4. Only(OwnerFindings(f, a), {"owner_admin", "data_gaps"})
      BY DEF OwnerFindings, Only, TokenFinding, Finding, Gap
  <1>5. /\ Only(ConcentrationFindings(top), {"holder_concentration"})
        /\ Only(DeployerShareFindings(own), {"insider_links"})
        /\ Only(BundleFindings(f, a), {"insider_links"})
      BY OnlyFinding DEF ConcentrationFindings, DeployerShareFindings, BundleFindings
  <1>6. Only(FunderFindings(f, a, poolKnown, supply), {"insider_links"})
      BY DEF FunderFindings, Only, Finding
  <1>7. Only(HolderGaps(f, a, poolKnown, supply), {"data_gaps"})
      BY OnlyFinding, OnlyUnion DEF HolderGaps
  <1>8. Only(LiquidityFindings(f, a, d), {"liquidity"})
      BY DEF LiquidityFindings, AnalyzeLiquidity, LiquidityUnknown, When, Only, TokenFinding,
             Finding
  <1>9. Only(SimulationFindings(sim), {"buy_sell"})
      BY DEF SimulationFindings, When, Only, TokenFinding, Finding
  <1>10. Only(DeployerFindings(label), {"deployer_history", "data_gaps"})
      BY DEF DeployerFindings, When, Only, TokenFinding, Finding, Gap
  <1>11. Only(CompareCrossChain(f, a, deployer, addresses).findings, {"cross_chain"})
      BY DEF CompareCrossChain, HistoryRisk, When, Only, Finding
  <1>12. Only(DexGap(d), {"data_gaps"}) /\ Only(NoCreator(deployer), {"data_gaps"})
      BY OnlyFinding DEF DexGap, NoCreator
  <1> QED
      BY <1>1, <1>2, <1>3, <1>4, <1>5, <1>6, <1>7, <1>8, <1>9, <1>10, <1>11, <1>12

\* The findings of a report, whatever its reads, taken apart by category.
LEMMA ByCategory ==
    ASSUME NEW f \in FactSet, NEW a, NEW d, NEW deployer, NEW supply, NEW poolKnown,
           NEW sim, NEW label, NEW past, Only(past, {"cross_chain"}),
           NEW gaps, Only(gaps, {"data_gaps"}),
           NEW F, F = AnalyzeContract(f, a).findings
                        \union AnalyzeHolders(f, a, deployer, supply, poolKnown).findings
                        \union LiquidityFindings(f, a, d) \union SimulationFindings(sim)
                        \union DeployerFindings(label) \union past \union gaps
    PROVE  /\ InCategory(F, "contract") =
                SourceFindings(f, a) \union InCategory(SelectorFindings(f, a), "contract")
           /\ InCategory(F, "owner_admin") =
                InCategory(SelectorFindings(f, a), "owner_admin")
                  \union InCategory(OwnerFindings(f, a), "owner_admin")
           /\ InCategory(F, "buy_sell") = SimulationFindings(sim)
           /\ InCategory(F, "liquidity") = LiquidityFindings(f, a, d)
           /\ InCategory(F, "holder_concentration") =
                ConcentrationFindings(TopPct(f, a, poolKnown, supply))
           /\ InCategory(F, "insider_links") =
                DeployerShareFindings(DeployerPct(f, a, deployer, supply))
                  \union BundleFindings(f, a) \union FunderFindings(f, a, poolKnown, supply)
           /\ InCategory(F, "deployer_history") =
                InCategory(DeployerFindings(label), "deployer_history")
           /\ InCategory(F, "cross_chain") = past
           /\ InCategory(F, "market_behavior") = {}
  <1> DEFINE top == TopPct(f, a, poolKnown, supply)
             own == DeployerPct(f, a, deployer, supply)
             code == CodeFindings(f, a)
             source == SourceFindings(f, a)
             selectors == SelectorFindings(f, a)
             owner == OwnerFindings(f, a)
             conc == ConcentrationFindings(top)
             share == DeployerShareFindings(own)
             bundle == BundleFindings(f, a)
             funders == FunderFindings(f, a, poolKnown, supply)
             hgaps == HolderGaps(f, a, poolKnown, supply)
             pool == LiquidityFindings(f, a, d)
             trip == SimulationFindings(sim)
             labels == DeployerFindings(label)
             G == ((code \union source \union selectors \union owner)
                    \union (conc \union share \union bundle \union funders \union hgaps))
                    \union pool \union trip \union labels \union past \union gaps
  <1>1. F = G
      BY DEF AnalyzeContract, AnalyzeHolders
  <1>2. /\ Only(code, {"data_gaps"}) /\ Only(source, {"contract"})
        /\ Only(selectors, {"contract", "owner_admin"})
        /\ Only(owner, {"owner_admin", "data_gaps"})
        /\ Only(conc, {"holder_concentration"}) /\ Only(share, {"insider_links"})
        /\ Only(bundle, {"insider_links"}) /\ Only(funders, {"insider_links"})
        /\ Only(hgaps, {"data_gaps"}) /\ Only(pool, {"liquidity"}) /\ Only(trip, {"buy_sell"})
        /\ Only(labels, {"deployer_history", "data_gaps"})
        /\ Only(past, {"cross_chain"}) /\ Only(gaps, {"data_gaps"})
      BY Categorised
  <1> HIDE DEF code, source, selectors, owner, conc, share, bundle, funders, hgaps, pool,
               trip, labels
  <1>3. InCategory(G, "contract") = source \union InCategory(selectors, "contract")
      BY <1>2 DEF Only, InCategory
  <1>4. InCategory(G, "owner_admin") =
            InCategory(selectors, "owner_admin") \union InCategory(owner, "owner_admin")
      BY <1>2 DEF Only, InCategory
  <1>5. InCategory(G, "buy_sell") = trip /\ InCategory(G, "liquidity") = pool
      BY <1>2 DEF Only, InCategory
  <1>6. InCategory(G, "holder_concentration") = conc
      BY <1>2 DEF Only, InCategory
  <1>7. InCategory(G, "insider_links") = share \union bundle \union funders
      BY <1>2 DEF Only, InCategory
  <1>8. InCategory(G, "deployer_history") = InCategory(labels, "deployer_history")
      BY <1>2 DEF Only, InCategory
  <1>9. InCategory(G, "cross_chain") = past /\ InCategory(G, "market_behavior") = {}
      BY <1>2 DEF Only, InCategory
  <1> HIDE DEF G
  <1> QED
      BY <1>1, <1>3, <1>4, <1>5, <1>6, <1>7, <1>8, <1>9
         DEF source, selectors, owner, conc, share, bundle, funders, pool, trip, labels

\* The findings of the report, by category.
LEMMA ReportParts ==
    ASSUME FactsOK, Collected, stage = "published"
    PROVE  LET past == compared.findings
               gaps == DexGap(dex) \union NoCreator(contract.deployer)
           IN  /\ AllFindings =
                    AnalyzeContract(facts, answer).findings
                      \union AnalyzeHolders(facts, answer, contract.deployer, contract.supply,
                                            dex.pair).findings
                      \union LiquidityFindings(facts, answer, dex)
                      \union SimulationFindings(SimulationHint)
                      \union DeployerFindings(ProfileLabel) \union past \union gaps
               /\ Only(past, {"cross_chain"}) /\ Only(gaps, {"data_gaps"})
  <1>1. Only(DexGap(dex) \union NoCreator(contract.deployer), {"data_gaps"})
      BY Categorised, OnlyUnion DEF FactsOK
  <1>2. Only({}, {"cross_chain"})
      BY DEF Only
  <1>3. Only(compared.findings, {"cross_chain"})
    <2>1. CASE Compares
        BY <1>2, <2>1, Categorised DEF FactsOK, Collected, PastOK, Comparisons, ComparisonThrown
    <2>2. CASE ~Compares
        BY <1>2, <2>2 DEF Collected, PastOK, Comparisons, NotCompared
    <2> QED
        BY <2>1, <2>2
  <1>4. /\ contract.findings = AnalyzeContract(facts, answer).findings
        /\ holders.findings = AnalyzeHolders(facts, answer, contract.deployer, contract.supply,
                                             dex.pair).findings
        /\ found = Gathered \union compared.findings
      BY DEF Collected, PrologueOK, HoldersOK, PastOK
  <1> QED
      BY <1>1, <1>3, <1>4 DEF AllFindings, Gathered, Settled

LEMMA ReportByCategory ==
    ASSUME FactsOK, Collected, stage = "published"
    PROVE  /\ InCategory(AllFindings, "contract") =
                SourceFindings(facts, answer)
                  \union InCategory(SelectorFindings(facts, answer), "contract")
           /\ InCategory(AllFindings, "owner_admin") =
                InCategory(SelectorFindings(facts, answer), "owner_admin")
                  \union InCategory(OwnerFindings(facts, answer), "owner_admin")
           /\ InCategory(AllFindings, "buy_sell") = SimulationFindings(SimulationHint)
           /\ InCategory(AllFindings, "liquidity") = LiquidityFindings(facts, answer, dex)
           /\ InCategory(AllFindings, "holder_concentration") =
                ConcentrationFindings(TopPct(facts, answer, dex.pair, contract.supply))
           /\ InCategory(AllFindings, "insider_links") =
                DeployerShareFindings(DeployerPct(facts, answer, contract.deployer,
                                                  contract.supply))
                  \union BundleFindings(facts, answer)
                  \union FunderFindings(facts, answer, dex.pair, contract.supply)
           /\ InCategory(AllFindings, "deployer_history") =
                InCategory(DeployerFindings(ProfileLabel), "deployer_history")
           /\ InCategory(AllFindings, "cross_chain") = compared.findings
           /\ InCategory(AllFindings, "market_behavior") = {}
  <1> DEFINE past == compared.findings
             gaps == DexGap(dex) \union NoCreator(contract.deployer)
             F == AnalyzeContract(facts, answer).findings
                    \union AnalyzeHolders(facts, answer, contract.deployer, contract.supply,
                                          dex.pair).findings
                    \union LiquidityFindings(facts, answer, dex)
                    \union SimulationFindings(SimulationHint)
                    \union DeployerFindings(ProfileLabel) \union past \union gaps
  <1>1. Only(past, {"cross_chain"}) /\ Only(gaps, {"data_gaps"})
      BY ReportParts
  <1>2. AllFindings = F
      BY ReportParts
  <1>3. facts \in FactSet
      BY DEF FactsOK
  <1> HIDE DEF past, gaps
  <1> QED
      BY <1>1, <1>2, <1>3, ByCategory DEF F, past

\* A complete round trip sold the token.
LEMMA SoldIsTrue ==
    ASSUME NEW f, NEW a, NEW skip, NEW s, NEW lost,
           Simulation(f, a, skip, s, lost).complete
    PROVE  /\ Simulation(f, a, skip, s, lost).sells = "yes"
           /\ Simulation(f, a, skip, s, lost).buys = "yes"
           /\ f.sells /\ PairRead(f, a) /\ Quoted(f, a)
  <1> DEFINE sim == Simulation(f, a, skip, s, lost)
  <1>1. PairRead(f, a)
      BY DEF Simulation, NoSimulation
  <1>2. sim.sells = "yes"
      BY <1>1 DEF Simulation
  <1>3. Executes(f, a, skip) /\ RoundTrip(f, a, s, lost) = "yes"
      BY <1>1, <1>2 DEF Simulation
  <1>4. f.sells
    <2> DEFINE refused == IsRevert(Thrown(f, a, "trip", lost))
    <2>1. RoundTrip(f, a, s, lost) = IF s # "resolved" THEN "unknown"
                                     ELSE IF Answered(a, "trip") /\ f.sells THEN "yes"
                                     ELSE IF refused THEN "no" ELSE "unknown"
        BY DEF RoundTrip
    <2> HIDE DEF refused
    <2> QED
        BY <1>3, <2>1
  <1>5. Quoted(f, a) /\ HasLiquidity(f)
      BY <1>3 DEF Executes, Quoted
  <1>6. sim.buys = "yes"
      BY <1>1, <1>5 DEF Simulation, CanBuy
  <1> QED
      BY <1>1, <1>2, <1>4, <1>5, <1>6

\* For every token, whichever reads fail: the lowest level is only given when
\* the LP set was read and a sale went through, or the caller left the round
\* trip out ("Unknown sell risk must not be treated as safe", scoring.ts).
THEOREM LowEarned == Spec => []LowIsEarned
  <1>1. FactsOK /\ Collected => LowIsEarned
    <2> SUFFICES ASSUME FactsOK, Collected, stage = "published",
                        report.overall = "low_detected_risk"
                 PROVE  /\ dex.lpRead
                        /\ options.skipSimulation \/ (dex.sim.sells = "yes" /\ facts.sells)
        BY DEF LowIsEarned, Published
    <2>1. /\ InCategory(AllFindings, "liquidity") = LiquidityFindings(facts, answer, dex)
          /\ InCategory(AllFindings, "buy_sell") = SimulationFindings(SimulationHint)
        BY ReportByCategory
    <2>2. \A c \in {"liquidity", "buy_sell"} :
              \/ InCategory(AllFindings, c) = {}
              \/ \E x \in InCategory(AllFindings, c) : x.severity \in {"info", "low"}
      <3>1. Verdict(AllFindings) = "low_detected_risk"
          BY DEF Collected, ReportOK
      <3>2. IsFiniteSet(AllFindings) /\ \A x \in AllFindings : x.severity \in Severities
          BY ReportFinite, ReportRated DEF Rated
      <3>3. {"liquidity", "buy_sell"} \subseteq ScoredCategories
          BY DEF ScoredCategories
      <3> QED
          BY <3>1, <3>2, <3>3, VerdictOf
    <2>3. dex.lpRead
      <3> SUFFICES ASSUME ~dex.lpRead PROVE FALSE
          OBVIOUS
      <3>1. \A x \in LiquidityFindings(facts, answer, dex) : x.severity \notin {"info", "low"}
          BY DEF LiquidityFindings, AnalyzeLiquidity, LiquidityUnknown, When, TokenFinding, Finding
      <3>2. LiquidityUnknown \in LiquidityFindings(facts, answer, dex)
          BY DEF LiquidityFindings, AnalyzeLiquidity, When
      <3> QED
          BY <2>1, <2>2, <3>1, <3>2
    <2>4. ~dex.thrown
      <3>1. ~NoDex.lpRead
          BY DEF NoDex
      <3> QED
          BY <2>3, <3>1, DexIs
    <2>5. ASSUME ~options.skipSimulation PROVE dex.sim.sells = "yes" /\ facts.sells
      <3>1. \A x \in SimulationFindings(SimulationHint) : x.severity \notin {"info", "low"}
          BY HintIs DEF When, TokenFinding, Finding
      <3>2. SimulationFindings(SimulationHint) = {}
          BY <2>1, <2>2, <3>1
      <3>3. dex.sim.complete
          BY <2>4, <2>5, <3>2, HintIs DEF When
      <3>4. PICK s, lost : dex.sim = Simulation(facts, answer, options.skipSimulation, s, lost)
          BY <2>4, DexIs
      <3> QED
          BY <3>3, <3>4, SoldIsTrue
    <2> QED
        BY <2>3, <2>5
  <1>2. IInv => FactsOK
      BY DEF IInv
  <1> QED
      BY <1>1, <1>2, Always, PTL

-----------------------------------------------------------------------------
(* What an analysis with every read answering would show.                    *)

WholePast ==
    CompareCrossChain(facts, AllAnswered, WholeContract.deployer,
        ComparedAddresses(WholeContract.deployer, FirstFunder(facts, AllAnswered),
                          Largest(facts, WholeHolders.ranked, Candidates))).findings

LEMMA WholeByCategory ==
    ASSUME FactsOK
    PROVE  /\ InCategory(WholeFound, "contract") =
                SourceFindings(facts, AllAnswered)
                  \union InCategory(SelectorFindings(facts, AllAnswered), "contract")
           /\ InCategory(WholeFound, "owner_admin") =
                InCategory(SelectorFindings(facts, AllAnswered), "owner_admin")
                  \union InCategory(OwnerFindings(facts, AllAnswered), "owner_admin")
           /\ InCategory(WholeFound, "buy_sell") = SimulationFindings({WholeDex.sim})
           /\ InCategory(WholeFound, "liquidity") = LiquidityFindings(facts, AllAnswered, WholeDex)
           /\ InCategory(WholeFound, "holder_concentration") =
                ConcentrationFindings(TopPct(facts, AllAnswered, WholeDex.pair,
                                             WholeContract.supply))
           /\ InCategory(WholeFound, "insider_links") =
                DeployerShareFindings(DeployerPct(facts, AllAnswered, WholeContract.deployer,
                                                  WholeContract.supply))
                  \union BundleFindings(facts, AllAnswered)
                  \union FunderFindings(facts, AllAnswered, WholeDex.pair, WholeContract.supply)
           /\ InCategory(WholeFound, "deployer_history") =
                InCategory(DeployerFindings(HistoryLabel(facts, AllAnswered)), "deployer_history")
           /\ InCategory(WholeFound, "cross_chain") = WholePast
           /\ InCategory(WholeFound, "market_behavior") = {}
  <1> DEFINE all == AllAnswered
             d == WholeDex
             deployer == WholeContract.deployer
             supply == WholeContract.supply
             poolKnown == WholeDex.pair
             sim == {WholeDex.sim}
             label == HistoryLabel(facts, AllAnswered)
             past == WholePast
             gaps == {}
             F == AnalyzeContract(facts, all).findings
                    \union AnalyzeHolders(facts, all, deployer, supply, poolKnown).findings
                    \union LiquidityFindings(facts, all, d) \union SimulationFindings(sim)
                    \union DeployerFindings(label) \union past \union gaps
  <1>1. facts \in FactSet
      BY DEF FactsOK
  <1>2. Only(past, {"cross_chain"})
      BY <1>1, Categorised DEF WholePast
  <1>3. Only(gaps, {"data_gaps"})
      BY DEF Only
  <1>4. WholeFound = F
      BY DEF WholeFound, WholeContract, WholeHolders, WholePast
  <1> HIDE DEF all, d, deployer, supply, poolKnown, sim, label, past, gaps
  <1>5. /\ InCategory(F, "contract") =
             SourceFindings(facts, all) \union InCategory(SelectorFindings(facts, all), "contract")
        /\ InCategory(F, "owner_admin") =
             InCategory(SelectorFindings(facts, all), "owner_admin")
               \union InCategory(OwnerFindings(facts, all), "owner_admin")
        /\ InCategory(F, "buy_sell") = SimulationFindings(sim)
        /\ InCategory(F, "liquidity") = LiquidityFindings(facts, all, d)
        /\ InCategory(F, "holder_concentration") =
             ConcentrationFindings(TopPct(facts, all, poolKnown, supply))
        /\ InCategory(F, "insider_links") =
             DeployerShareFindings(DeployerPct(facts, all, deployer, supply))
               \union BundleFindings(facts, all) \union FunderFindings(facts, all, poolKnown, supply)
        /\ InCategory(F, "deployer_history") = InCategory(DeployerFindings(label), "deployer_history")
        /\ InCategory(F, "cross_chain") = past
        /\ InCategory(F, "market_behavior") = {}
      BY <1>1, <1>2, <1>3, ByCategory
  <1> HIDE DEF F
  <1> QED
      BY <1>4, <1>5 DEF all, d, deployer, supply, poolKnown, sim, label, past

\* With every read answering, every read answers.
LEMMA EveryAnswer == \A r \in Reads : Answered(AllAnswered, r) /\ Whole(AllAnswered, r)
  BY DEF AllAnswered, Answered, Whole

LEMMA WholeCode ==
    ASSUME CodeRead(facts, answer)
    PROVE  /\ CodeRead(facts, AllAnswered)
           /\ HasCode(facts, AllAnswered) <=> HasCode(facts, answer)
           /\ SelectorFindings(facts, AllAnswered) = SelectorFindings(facts, answer)
  <1>1. CodeRead(facts, AllAnswered)
      BY EveryAnswer DEF CodeRead, Reads
  <1>2. HasCode(facts, AllAnswered) <=> HasCode(facts, answer)
      BY <1>1 DEF HasCode
  <1> QED
      BY <1>1, <1>2 DEF SelectorFindings

LEMMA ContractExact ==
    ASSUME CodeRead(facts, answer), ContractErrors(facts, answer) = {}
    PROVE  SourceFindings(facts, AllAnswered) = SourceFindings(facts, answer)
  <1>1. Answered(answer, "address") /\ Answered(AllAnswered, "address")
      BY EveryAnswer DEF ContractErrors, Reads
  <1>2. /\ IsVerified(facts, AllAnswered) <=> IsVerified(facts, answer)
        /\ IsProxy(facts, AllAnswered) <=> IsProxy(facts, answer)
      BY <1>1 DEF IsVerified, IsProxy
  <1> QED
      BY <1>2, WholeCode DEF SourceFindings, When

LEMMA OwnerExact ==
    ASSUME CodeRead(facts, answer), Answered(answer, "owner")
    PROVE  OwnerFindings(facts, AllAnswered) = OwnerFindings(facts, answer)
  <1>1. Answered(AllAnswered, "owner")
      BY EveryAnswer DEF Reads
  <1>2. OwnerRead(facts, AllAnswered) = OwnerRead(facts, answer)
      BY <1>1 DEF OwnerRead
  <1> QED
      BY <1>2 DEF OwnerFindings

\* What the whole dex read knows of the pair.
LEMMA WholePair ==
    ASSUME PairRead(facts, answer)
    PROVE  /\ PairRead(facts, AllAnswered) /\ WholeDex.pair = TRUE
           /\ \E s, lost : WholeDex.sim = Simulation(facts, AllAnswered, FALSE, s, lost)
           /\ WholeDex.lpTop = LpControllerPct(facts, AllAnswered)
           /\ WholeDex.lpRead <=> LpDataComplete(facts, AllAnswered)
  <1>1. PairRead(facts, AllAnswered)
      BY EveryAnswer DEF PairRead, Reads
  <1> QED
      BY <1>1 DEF WholeDex, DexAnswer, AnalyzeApexiSwap

LEMMA LiquidityExact ==
    ASSUME Collected, stage = "published", dex.lpRead, Answered(answer, "transfers")
    PROVE  LiquidityFindings(facts, AllAnswered, WholeDex) = LiquidityFindings(facts, answer, dex)
  <1>1. ~NoDex.lpRead
      BY DEF NoDex
  <1>2. PICK s \in SlotStates, lost \in Failures :
            dex = DexAnswer(facts, answer, options, s, lost)
      BY <1>1 DEF Collected, PrologueOK
  <1>3. PairRead(facts, answer) /\ LpDataComplete(facts, answer)
      BY <1>2 DEF DexAnswer, AnalyzeApexiSwap
  <1>4. dex.pair = TRUE /\ dex.lpTop = LpControllerPct(facts, answer)
      BY <1>2, <1>3 DEF DexAnswer, AnalyzeApexiSwap
  <1>5. /\ LpDataComplete(facts, AllAnswered)
        /\ LpControllerPct(facts, AllAnswered) = LpControllerPct(facts, answer)
      BY <1>3, EveryAnswer DEF LpDataComplete, LpControllerPct, LpSupplyKnown, Reads
  <1>6. AnalyzeLiquidity(facts, AllAnswered) = AnalyzeLiquidity(facts, answer)
      BY EveryAnswer DEF AnalyzeLiquidity, Reads
  <1> QED
      BY <1>3, <1>4, <1>5, <1>6, WholePair DEF LiquidityFindings

LEMMA TripExact ==
    ASSUME Collected, stage = "published", SimulationHint # {}, dex.sim.complete
    PROVE  SimulationFindings({WholeDex.sim}) = SimulationFindings(SimulationHint)
  <1>1. ~dex.thrown /\ ~options.skipSimulation
      BY DEF SimulationHint
  <1>2. \E s, lost : dex.sim = Simulation(facts, answer, options.skipSimulation, s, lost)
      BY <1>1, DexIs
  <1>3. /\ dex.sim.sells = "yes" /\ facts.sells
        /\ PairRead(facts, answer) /\ Quoted(facts, answer)
      BY <1>2, SoldIsTrue
  <1>4. SimulationFindings(SimulationHint) = {}
      BY <1>1, <1>3, HintIs DEF IsTrap, When
  <1>5. PairRead(facts, AllAnswered) /\ Quoted(facts, AllAnswered)
      BY <1>3, WholePair, EveryAnswer DEF Quoted, Reads
  <1> DEFINE skip == FALSE
             sim == Simulation(facts, AllAnswered, skip, "resolved", Unknown)
  <1>6. Executes(facts, AllAnswered, skip)
      BY <1>5 DEF Executes
  <1>7. RoundTrip(facts, AllAnswered, "resolved", Unknown) = "yes"
      BY <1>3, EveryAnswer DEF RoundTrip, Reads
  <1>8. WholeDex.sim = sim
      BY DEF WholeDex, DexAnswer, AnalyzeApexiSwap, SlotAfter, ResolveBaseBalanceSlot
  <1> HIDE DEF skip
  <1>9. sim.sells = "yes" /\ sim.complete
      BY <1>5, <1>6, <1>7 DEF Simulation
  <1> HIDE DEF sim
  <1>10. \A s : s.sells = "yes" /\ s.complete => SimulationFindings({s}) = {}
    <2> TAKE s
    <2>1. (CHOOSE x \in {s} : TRUE) = s /\ {s} # {}
        OBVIOUS
    <2> QED
        BY <2>1 DEF SimulationFindings, IsTrap, When
  <1> QED
      BY <1>4, <1>8, <1>9, <1>10

LEMMA ListExact ==
    ASSUME Whole(answer, "holders")
    PROVE  Listed(facts, answer) = Listed(facts, AllAnswered)
  <1>1. Whole(AllAnswered, "holders")
      BY EveryAnswer DEF Reads
  <1> QED
      BY <1>1 DEF Listed, Whole

\* A supply that is known is positive, and a whole analysis knows it too.
LEMMA SupplyExact ==
    ASSUME SupplyKnown(facts, answer)
    PROVE  SupplyKnown(facts, AllAnswered) = TRUE
  BY EveryAnswer DEF SupplyKnown, Reads

LEMMA ConcentrationExact ==
    ASSUME NEW poolKnown, Whole(answer, "holders"), NEW s, NEW t, s, t
    PROVE  ConcentrationFindings(TopPct(facts, AllAnswered, poolKnown, s))
             = ConcentrationFindings(TopPct(facts, answer, poolKnown, t))
  BY ListExact DEF TopPct, Circulating

LEMMA LinksExact ==
    ASSUME NEW poolKnown, NEW deployer, NEW supply, Whole(answer, "holders"),
           Answered(answer, "transfers"), FunderScanComplete(facts, answer, poolKnown)
    PROVE  /\ DeployerShareFindings(DeployerPct(facts, AllAnswered, deployer, supply))
                = DeployerShareFindings(DeployerPct(facts, answer, deployer, supply))
           /\ BundleFindings(facts, AllAnswered) = BundleFindings(facts, answer)
           /\ FunderFindings(facts, AllAnswered, poolKnown, supply)
                = FunderFindings(facts, answer, poolKnown, supply)
  <1>1. DeployerPct(facts, AllAnswered, deployer, supply)
          = DeployerPct(facts, answer, deployer, supply)
      BY ListExact DEF DeployerPct
  <1>2. BundleFindings(facts, AllAnswered) = BundleFindings(facts, answer)
      BY EveryAnswer DEF BundleFindings, Reads
  <1>3. FundingCandidates(facts, AllAnswered, poolKnown) = FundingCandidates(facts, answer, poolKnown)
      BY ListExact DEF FundingCandidates, Circulating
  <1>4. \A w : FundedBy(facts, AllAnswered, poolKnown, w) = FundedBy(facts, answer, poolKnown, w)
      BY <1>3 DEF FundedBy
  <1>5. FunderScanComplete(facts, AllAnswered, poolKnown)
      BY EveryAnswer DEF FunderScanComplete, Reads
  <1>6. FunderFindings(facts, AllAnswered, poolKnown, supply)
          = FunderFindings(facts, answer, poolKnown, supply)
      BY <1>4, <1>5 DEF FunderFindings
  <1> QED
      BY <1>1, <1>2, <1>6

LEMMA LabelExact ==
    ASSUME HistoryComplete(answer)
    PROVE  /\ HistoryLabel(facts, AllAnswered) = HistoryLabel(facts, answer)
           /\ FirstFunder(facts, AllAnswered) = FirstFunder(facts, answer)
  <1>1. HistoryComplete(AllAnswered)
      BY EveryAnswer DEF HistoryComplete, Reads
  <1> QED
      BY <1>1 DEF HistoryLabel, FirstFunder

\* A creator that was found is the one a whole analysis finds.
LEMMA CreatorExact ==
    ASSUME FactsOK, Deployer(facts, answer) # Nobody
    PROVE  Deployer(facts, AllAnswered) = Deployer(facts, answer)
  BY EveryAnswer DEF Deployer, Reads

LEMMA PastExact ==
    ASSUME FactsOK, Collected, stage = "published", compared.complete,
           Whole(answer, "holders"), Whole(answer, "deployer")
    PROVE  compared.findings = WholePast
  <1>1. ~NotCompared.complete /\ ~ComparisonThrown.complete
      BY DEF NotCompared, ComparisonThrown
  <1>2. Compares /\ compared = CompareCrossChain(facts, answer, contract.deployer, Looked)
      BY <1>1 DEF Collected, PastOK, Comparisons
  <1>3. contract.deployer = Deployer(facts, answer) /\ holders.ranked = Listed(facts, answer)
      BY DEF Collected, PrologueOK, HoldersOK, AnalyzeContract, AnalyzeHolders
  <1>4. WholeContract.deployer = contract.deployer
      BY <1>2, <1>3, CreatorExact DEF Compares, WholeContract, AnalyzeContract
  <1>5. WholeHolders.ranked = holders.ranked
      BY <1>3, ListExact DEF WholeHolders, AnalyzeHolders
  <1>6. FirstFunder(facts, AllAnswered) = FirstFunder(facts, answer)
      BY LabelExact DEF HistoryComplete
  <1>7. \A d, addresses : CompareCrossChain(facts, AllAnswered, d, addresses).findings
                            = CompareCrossChain(facts, answer, d, addresses).findings
      BY DEF CompareCrossChain
  <1> QED
      BY <1>2, <1>4, <1>5, <1>6, <1>7 DEF WholePast, Looked

\* For every token and every set of answers: a category published as complete
\* shows what an analysis with every read answering would show, once the reads
\* it takes from other analyzers answered as well (analyzerCompleteness,
\* pipeline.ts).
THEOREM CompleteExact == Spec => []CompleteIsExact
  <1>1. FactsOK /\ Collected => CompleteIsExact
    <2> SUFFICES ASSUME FactsOK, Collected, stage = "published", NEW c \in ScoredCategories,
                        report.complete[c], LeansOnAnswered(c)
                 PROVE  InCategory(AllFindings, c) = InCategory(WholeFound, c)
        BY DEF CompleteIsExact, Published, Examined, Collected, ReportOK
    <2>1. AnalyzerComplete(c)
        BY DEF Collected, ReportOK
    <2>2. /\ contract.codeRead <=> CodeRead(facts, answer)
          /\ contract.failed <=> ContractErrors(facts, answer) # {}
          /\ contract.supply <=> SupplyKnown(facts, answer)
          /\ holders.dataComplete <=> HolderDataComplete(facts, answer, contract.supply)
          /\ holders.linksRead <=> /\ Whole(answer, "holders") /\ Answered(answer, "transfers")
                                  /\ FunderScanComplete(facts, answer, dex.pair)
      <3>1. contract = AnalyzeContract(facts, answer)
          BY DEF Collected, PrologueOK
      <3>2. holders = AnalyzeHolders(facts, answer, contract.deployer, contract.supply, dex.pair)
          BY DEF Collected, HoldersOK
      <3>3. /\ contract.codeRead <=> CodeRead(facts, answer)
            /\ contract.failed <=> ContractErrors(facts, answer) # {}
            /\ contract.supply <=> SupplyKnown(facts, answer)
          BY <3>1 DEF AnalyzeContract
      <3> HIDE <3>1
      <3>4. holders.dataComplete <=> HolderDataComplete(facts, answer, contract.supply)
          BY <3>2 DEF AnalyzeHolders, HolderDataComplete
      <3>5. holders.linksRead <=> /\ Whole(answer, "holders") /\ Answered(answer, "transfers")
                                  /\ FunderScanComplete(facts, answer, dex.pair)
          BY <3>2 DEF AnalyzeHolders
      <3> QED
          BY <3>3, <3>4, <3>5
    <2>3. CASE c = "contract"
      <3>1. CodeRead(facts, answer) /\ ContractErrors(facts, answer) = {}
          BY <2>1, <2>2, <2>3 DEF AnalyzerComplete
      <3> QED
          BY <2>3, <3>1, ReportByCategory, WholeByCategory, WholeCode, ContractExact
    <2>4. CASE c = "owner_admin"
      <3>1. CodeRead(facts, answer) /\ Answered(answer, "owner")
          BY <2>1, <2>2, <2>4 DEF AnalyzerComplete, LeansOnAnswered
      <3> QED
          BY <2>4, <3>1, ReportByCategory, WholeByCategory, WholeCode, OwnerExact
    <2>5. CASE c = "buy_sell"
      <3>1. SimulationHint # {} /\ dex.sim.complete
          BY <2>1, <2>5 DEF AnalyzerComplete
      <3> QED
          BY <2>5, <3>1, ReportByCategory, WholeByCategory, TripExact
    <2>6. CASE c = "liquidity"
      <3>1. dex.lpRead /\ Answered(answer, "transfers")
          BY <2>1, <2>6 DEF AnalyzerComplete, LeansOnAnswered
      <3> QED
          BY <2>6, <3>1, ReportByCategory, WholeByCategory, LiquidityExact
    <2>7. CASE c = "holder_concentration"
      <3>1. /\ HolderDataComplete(facts, answer, contract.supply)
            /\ dex.pair = WholeDex.pair
          BY <2>1, <2>2, <2>7 DEF AnalyzerComplete, LeansOnAnswered
      <3>2. contract.supply /\ Whole(answer, "holders")
          BY <3>1 DEF HolderDataComplete
      <3>3. WholeContract.supply
          BY <2>2, <3>2, SupplyExact DEF WholeContract, AnalyzeContract
      <3> QED
          BY <2>7, <3>1, <3>2, <3>3, ReportByCategory, WholeByCategory, ConcentrationExact
    <2>8. CASE c = "insider_links"
      <3>1. /\ Whole(answer, "holders") /\ Answered(answer, "transfers")
            /\ FunderScanComplete(facts, answer, dex.pair)
            /\ dex.pair = WholeDex.pair /\ contract.deployer = WholeContract.deployer
            /\ contract.supply = WholeContract.supply
          BY <2>1, <2>2, <2>8 DEF AnalyzerComplete, LeansOnAnswered
      <3>2. /\ DeployerShareFindings(DeployerPct(facts, AllAnswered, contract.deployer,
                                                 contract.supply))
                 = DeployerShareFindings(DeployerPct(facts, answer, contract.deployer,
                                                     contract.supply))
            /\ BundleFindings(facts, AllAnswered) = BundleFindings(facts, answer)
            /\ FunderFindings(facts, AllAnswered, dex.pair, contract.supply)
                 = FunderFindings(facts, answer, dex.pair, contract.supply)
          BY <3>1, LinksExact
      <3>3. InCategory(AllFindings, "insider_links") =
              DeployerShareFindings(DeployerPct(facts, answer, contract.deployer,
                                                contract.supply))
                \union BundleFindings(facts, answer)
                \union FunderFindings(facts, answer, dex.pair, contract.supply)
          BY ReportByCategory
      <3>4. InCategory(WholeFound, "insider_links") =
              DeployerShareFindings(DeployerPct(facts, AllAnswered, WholeContract.deployer,
                                                WholeContract.supply))
                \union BundleFindings(facts, AllAnswered)
                \union FunderFindings(facts, AllAnswered, WholeDex.pair, WholeContract.supply)
          BY WholeByCategory
      <3>5. InCategory(WholeFound, "insider_links") =
              DeployerShareFindings(DeployerPct(facts, AllAnswered, contract.deployer,
                                                contract.supply))
                \union BundleFindings(facts, AllAnswered)
                \union FunderFindings(facts, AllAnswered, dex.pair, contract.supply)
          BY <3>1, <3>4
      <3> QED
          BY <2>8, <3>2, <3>3, <3>5
    <2>9. CASE c = "deployer_history"
      <3>1. ProfileLabel \in {"limited_history", "established"}
          BY <2>1, <2>9 DEF AnalyzerComplete
      <3>2. ProfileLabel = HistoryLabel(facts, answer) /\ HistoryComplete(answer)
          BY <3>1 DEF ProfileLabel, HistoryLabel
      <3> QED
          BY <2>9, <3>2, ReportByCategory, WholeByCategory, LabelExact
    <2>10. CASE c = "cross_chain"
      <3>1. compared.complete /\ Whole(answer, "holders") /\ Whole(answer, "deployer")
          BY <2>1, <2>10 DEF AnalyzerComplete, LeansOnAnswered
      <3> QED
          BY <2>10, <3>1, ReportByCategory, WholeByCategory, PastExact
    <2>11. CASE c = "market_behavior"
        BY <2>11 DEF LeansOnAnswered
    <2> QED
        BY <2>3, <2>4, <2>5, <2>6, <2>7, <2>8, <2>9, <2>10, <2>11 DEF ScoredCategories
  <1>2. IInv => FactsOK
      BY DEF IInv
  <1> QED
      BY <1>1, <1>2, Always, PTL

-----------------------------------------------------------------------------
(* Type correctness.                                                         *)

Typed(F) == \A x \in F : x.category \in Categories /\ x.severity \in Severities

LEMMA TypedBoth ==
    \A F, C : Rated(F) /\ Only(F, C) /\ C \subseteq Categories => Typed(F)
  BY DEF Typed, Rated, Only

LEMMA TypedUnion == \A F, G : Typed(F) /\ Typed(G) => Typed(F \union G)
  BY DEF Typed

LEMMA TypedContract ==
    ASSUME FactsOK PROVE Typed(AnalyzeContract(facts, answer).findings)
  <1>1. Only(AnalyzeContract(facts, answer).findings, {"contract", "owner_admin", "data_gaps"})
    <2>1. /\ Only(CodeFindings(facts, answer), {"data_gaps"})
          /\ Only(SourceFindings(facts, answer), {"contract"})
          /\ Only(SelectorFindings(facts, answer), {"contract", "owner_admin"})
          /\ Only(OwnerFindings(facts, answer), {"owner_admin", "data_gaps"})
        BY Categorised DEF FactsOK
    <2> QED
        BY <2>1 DEF Only, AnalyzeContract
  <1>2. {"contract", "owner_admin", "data_gaps"} \subseteq Categories
      BY DEF Categories, ScoredCategories
  <1> QED
      BY <1>1, <1>2, ContractRated, TypedBoth

LEMMA TypedHolders ==
    ASSUME FactsOK, NEW supply, dex.pair \in BOOLEAN, dex.pair => facts.pair # "none"
    PROVE  Typed(AnalyzeHolders(facts, answer, Deployer(facts, answer), supply, dex.pair).findings)
  <1> DEFINE F == AnalyzeHolders(facts, answer, Deployer(facts, answer), supply, dex.pair).findings
  <1>1. Only(F, {"holder_concentration", "insider_links", "data_gaps"})
    <2>1. \A pct : /\ Only(ConcentrationFindings(pct), {"holder_concentration"})
                   /\ Only(DeployerShareFindings(pct), {"insider_links"})
        BY Categorised DEF FactsOK
    <2>2. /\ Only(BundleFindings(facts, answer), {"insider_links"})
          /\ Only(FunderFindings(facts, answer, dex.pair, supply), {"insider_links"})
          /\ Only(HolderGaps(facts, answer, dex.pair, supply), {"data_gaps"})
        BY Categorised DEF FactsOK
    <2> QED
        BY <2>1, <2>2 DEF Only, AnalyzeHolders
  <1>2. {"holder_concentration", "insider_links", "data_gaps"} \subseteq Categories
      BY DEF Categories, ScoredCategories
  <1>3. Rated(F)
      BY HoldersRated
  <1> HIDE DEF F
  <1>4. Typed(F)
      BY <1>1, <1>2, <1>3, TypedBoth
  <1> QED
      BY <1>4 DEF F

LEMMA TypedGaps ==
    ASSUME NEW d, NEW deployer PROVE Typed(DexGap(d)) /\ Typed(NoCreator(deployer))
  BY DEF Typed, DexGap, NoCreator, When, Gap, TokenFinding, Finding, Categories,
         Severities

\* A verdict is one of the levels, and the confidence one of three.
LEMMA ReportTyped ==
    ASSUME NEW findings, NEW sim, NEW label, NEW used, NEW healthy, NEW complete
    PROVE  LET r == BuildRiskReport(findings, sim, label, used, healthy, complete)
           IN  /\ r.overall \in Levels /\ r.confidence \in {"low", "medium", "high"}
               /\ r.complete = complete
  <1>1. \A score, critical : AggregateOverall(score, critical) \in Levels
    <2> SUFFICES ASSUME NEW score, NEW critical PROVE AggregateOverall(score, critical) \in Levels
        OBVIOUS
    <2> DEFINE worst == Max({score[c] : c \in ScoredCategories})
               sum == SumFunctionOnSet(score, ScoredCategories)
               n == Cardinality(ScoredCategories)
    <2>1. AggregateOverall(score, critical) =
            CASE critical -> "critical_risk"
              [] ~critical /\ worst = 0 /\ score["data_gaps"] >= 80 -> "insufficient_data"
              [] OTHER -> IF worst >= 90 \/ sum >= 75 * n THEN "critical_risk"
                          ELSE IF worst >= 70 \/ sum >= 55 * n THEN "high_risk"
                          ELSE IF worst >= 40 \/ sum >= 30 * n THEN "caution"
                          ELSE IF score["data_gaps"] >= 60 THEN "insufficient_data"
                          ELSE "low_detected_risk"
        BY DEF AggregateOverall
    <2> HIDE DEF worst, sum, n
    <2> QED
        BY <2>1 DEF Levels
  <1>2. \A u, h, gaps : ConfidenceFromSources(u, h, gaps) \in {"low", "medium", "high"}
      BY DEF ConfidenceFromSources
  <1> QED
      BY <1>1, <1>2 DEF BuildRiskReport

LEMMA TypeInit == Init => TypeOK
  <1> SUFFICES ASSUME Init PROVE TypeOK
      OBVIOUS
  <1>1. NoToken \in FactSet
      BY FactsAssumption DEF NoToken
  <1>2. AllAnswered \in Answers
      BY DEF AllAnswered, Answers, Outcomes
  <1> QED
      BY <1>1, <1>2 DEF Init, TypeOK, Stages, SlotStates, NoContract, NoHolders, NoReport, Levels

LEMMA TypeStep == TypeOK /\ IInv /\ Collected /\ Collected' /\ [Next]_vars => TypeOK'
  <1> SUFFICES ASSUME TypeOK, IInv, Collected, Collected', [Next]_vars PROVE TypeOK'
      OBVIOUS
  <1>1. FactsOK /\ slot' \in SlotStates /\ Typed(found)
      BY DEF IInv, Collected, TypeOK, Typed
  <1>2. NoToken \in FactSet
      BY FactsAssumption DEF NoToken
  <1>3. AllAnswered \in Answers
      BY DEF AllAnswered, Answers, Outcomes
  <1>4. CASE \E f \in FactSet, a \in AnswerSet, o \in OptionSet : Begin(f, a, o)
      BY <1>1, <1>4, AnswersAssumption DEF Begin, TypeOK, Stages
  <1>5. CASE AnalyzerThrows
      BY <1>1, <1>2, <1>3, <1>5 DEF AnalyzerThrows, TypeOK, Stages, NoContract
  <1>6. CASE Return
      BY <1>1, <1>2, <1>3, <1>6
         DEF Return, TypeOK, Stages, NoContract, NoHolders, NoReport, Levels
  <1>7. CASE ReadPrologue
    <2>1. contract' = AnalyzeContract(facts, answer) /\ found' = contract'.findings \union DexGap(dex')
        BY <1>7 DEF ReadPrologue
    <2>2. contract'.deployer \in Wallets \union {Nobody}
        BY <1>1, <2>1, AccountsAssumption DEF AnalyzeContract, Deployer, FactsOK
    <2>3. Typed(found')
        BY <1>1, <2>1, TypedContract, TypedGaps, TypedUnion
    <2> QED
        BY <1>1, <1>7, <2>2, <2>3 DEF ReadPrologue, TypeOK, Stages, Typed
  <1>8. CASE SettleAnalyzers
    <2>1. /\ stage = "settling" /\ UNCHANGED <<facts, answer, dex>>
          /\ holders' = AnalyzeHolders(facts, answer, contract.deployer, contract.supply, dex.pair)
          /\ found' = found \union holders'.findings \union LiquidityFindings(facts, answer, dex)
                            \union NoCreator(contract.deployer)
        BY <1>8 DEF SettleAnalyzers
    <2>2. contract.deployer = Deployer(facts, answer)
        BY <2>1 DEF Collected, PrologueOK, AnalyzeContract
    <2>3. holders'.ranked \subseteq Accounts
        BY <2>1, ListedOwners DEF AnalyzeHolders
    <2>4. Typed(holders'.findings)
        BY <1>1, <2>1, <2>2, PoolIs, TypedHolders
    <2>5. Typed(LiquidityFindings(facts, answer, dex))
      <3>1. Only(LiquidityFindings(facts, answer, dex), {"liquidity"})
          BY <1>1, Categorised DEF FactsOK
      <3>2. {"liquidity"} \subseteq Categories
          BY DEF Categories, ScoredCategories
      <3> QED
          BY <2>1, <3>1, <3>2, PoolRated, TypedBoth
    <2>6. Typed(found')
        BY <1>1, <2>1, <2>4, <2>5, TypedGaps, TypedUnion
    <2> QED
        BY <1>1, <1>8, <2>3, <2>6 DEF SettleAnalyzers, TypeOK, Stages, Typed
  <1>9. CASE CompareCreator
    <2>1. Typed(compared'.findings)
      <3>1. \A d, addresses :
                Typed(CompareCrossChain(facts, answer, d, addresses).findings)
        <4>1. \A d, addresses :
                  /\ Only(CompareCrossChain(facts, answer, d, addresses).findings, {"cross_chain"})
                  /\ Rated(CompareCrossChain(facts, answer, d, addresses).findings)
            BY <1>1, Categorised, PastRated DEF FactsOK
        <4>2. {"cross_chain"} \subseteq Categories
            BY DEF Categories, ScoredCategories
        <4> QED
            BY <4>1, <4>2, TypedBoth
      <3> QED
          BY <1>9, <3>1 DEF CompareCreator, NotCompared, ComparisonThrown, Typed
    <2>2. Typed(found')
        BY <1>1, <1>9, <2>1, TypedUnion DEF CompareCreator
    <2> QED
        BY <1>1, <1>9, <2>2 DEF CompareCreator, TypeOK, Stages, Typed
  <1>10. CASE Publish
    <2> DEFINE complete == [c \in ScoredCategories |-> AnalyzerComplete(c)]
               scored == BuildRiskReport(found, SimulationHint, ProfileLabel, UsedSources,
                             HealthySources, complete)
    <2>1. /\ report'.overall = scored.overall /\ report'.confidence = scored.confidence
          /\ report'.complete = scored.complete
        BY <1>10 DEF Publish
    <2>2. DOMAIN complete = ScoredCategories
        OBVIOUS
    <2> HIDE DEF complete
    <2>3. /\ scored.overall \in Levels /\ scored.confidence \in {"low", "medium", "high"}
          /\ scored.complete = complete
        BY ReportTyped
    <2> HIDE DEF scored
    <2> QED
        BY <1>1, <1>10, <2>1, <2>2, <2>3 DEF Publish, TypeOK, Stages
  <1>11. CASE SlotExpires \/ ProbedElsewhere \/ UNCHANGED vars
      BY <1>1, <1>11 DEF SlotExpires, ProbedElsewhere, locals, vars, TypeOK
  <1> QED
      BY <1>4, <1>5, <1>6, <1>7, <1>8, <1>9, <1>10, <1>11 DEF Next

\* Every variable of an analysis keeps its type: whatever reads fail, each
\* finding has a category and a severity the score knows.
THEOREM TypeCorrect == Spec => []TypeOK
  <1>1. Init => TypeOK
      BY TypeInit
  <1>2. TypeOK /\ (IInv /\ Collected) /\ (IInv /\ Collected)' /\ [Next]_vars => TypeOK'
      BY TypeStep
  <1> QED
      BY <1>1, <1>2, Always, PTL DEF Spec

=============================================================================
