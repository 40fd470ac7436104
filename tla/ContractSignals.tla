--------------------------- MODULE ContractSignals ---------------------------
(***************************************************************************)
(* analyzeContract (packages/analysis/src/contract.ts): six independent    *)
(* reads, merged last writer wins, and the findings drawn from them.       *)
(***************************************************************************)
EXTENDS AnalysisInputs, RiskScoring

Risk(category, severity) == [category |-> category, severity |-> severity]

\* SELECTOR_RISKS by the name of the risk: several signatures share one.
SelectorRisks ==
    [mint         |-> Risk("contract", "high"),
     pause        |-> Risk("owner_admin", "high"),
     blacklist    |-> Risk("owner_admin", "high"),
     maxTx        |-> Risk("owner_admin", "medium"),
     sellFee      |-> Risk("owner_admin", "high"),
     taxFee       |-> Risk("owner_admin", "high"),
     upgradeable  |-> Risk("contract", "critical"),
     changeAdmin  |-> Risk("owner_admin", "high"),
     burnFrom     |-> Risk("contract", "medium")]

\* The explorer's address page names the creator, and the creation record
\* replaces it when it does too.
Deployer(f, a) ==
    IF \E r \in {"address", "creation"} : Answered(a, r) /\ r \in f.creatorIn
    THEN f.creator ELSE Nobody

\* Either explorer page may say "verified"; a failed source read is no error.
IsVerified(f, a) == f.verified /\ (Answered(a, "address") \/ Answered(a, "source"))

\* The address page, the token page, then totalSupply().
SupplyKnown(f, a) ==
    /\ f.supply
    /\ Answered(a, "address") \/ Answered(a, "token") \/ (f.rpc /\ Answered(a, "supply"))

CodeRead(f, a) == f.rpc /\ Answered(a, "code")
HasCode(f, a) == CodeRead(f, a) /\ f.code

\* proxy_type on the address page, or the hints detectProxyHints finds.
IsProxy(f, a) == f.proxy /\ (Answered(a, "address") \/ HasCode(f, a))

\* owner(), else getOwner(); readErc20Meta answers null for a failed call.
OwnerRead(f, a) ==
    IF f.rpc /\ f.code /\ Answered(a, "owner") THEN f.owner ELSE "none"

ContractErrors(f, a) ==
    {r \in {"address", "token", "creation"} : ~Answered(a, r)}
        \union When(~CodeRead(f, a), "code")

\* Only a successful read supports the claim that there is no code.
CodeFindings(f, a) ==
    When(CodeRead(f, a) /\ ~HasCode(f, a), Gap("no-code", "critical"))
        \union When(f.rpc /\ ~CodeRead(f, a), Gap("code-unreadable", "medium"))

SourceFindings(f, a) ==
    When(~IsVerified(f, a) /\ HasCode(f, a), TokenFinding("unverified", "contract", "medium"))
        \union When(IsProxy(f, a), TokenFinding("proxy", "contract", "high"))

\* One finding for each risk whose selector a PUSH4 of the dispatcher pushes.
SelectorFindings(f, a) ==
    {TokenFinding(s, SelectorRisks[s].category, SelectorRisks[s].severity) :
        s \in IF HasCode(f, a) THEN f.selectors ELSE {}}

OwnerFindings(f, a) ==
    CASE OwnerRead(f, a) = "wallet" -> {TokenFinding("owner-active", "owner_admin", "medium")}
      [] OwnerRead(f, a) = "zero"   -> {TokenFinding("owner-renounced", "owner_admin", "info")}
      [] OTHER                      -> {Gap("owner-unknown", "medium")}

AnalyzeContract(f, a) ==
    [deployer |-> Deployer(f, a),
     supply   |-> SupplyKnown(f, a),
     codeRead |-> CodeRead(f, a),
     failed   |-> ContractErrors(f, a) # {},
     findings |-> CodeFindings(f, a) \union SourceFindings(f, a)
                    \union SelectorFindings(f, a) \union OwnerFindings(f, a)]
=============================================================================
