------------------------------ MODULE DexProbe ------------------------------
(***************************************************************************)
(* analyzeApexiSwap (packages/analysis/src/dex.ts): the pair in the        *)
(* verified factory, its reserves, a quote, one isolated round trip, and   *)
(* who holds the LP token.  Everything that did not answer stays unknown.  *)
(*                                                                         *)
(* The round trip needs the base token's balance slot, which the process   *)
(* keeps between analyses (baseSlotCache): unknown, resolved, or failed a  *)
(* short while ago.                                                        *)
(***************************************************************************)
EXTENDS AnalysisInputs, RiskScoring

\* Mutant: whatever is not a known transport error is a revert.
UnlessTransport(e) == e.code = 3 \/ (~e.transport /\ "transport" \notin e.text)

\* Mutant: the host of the URL reads like a network error.
HostIsTransport(e) ==
    \/ e.code = 3
    \/ ~e.transport /\ e.text \intersect {"host", "transport"} = {} /\ "reverted" \in e.text

\* The code decides, then the name; of the wordings transport comes first, and
\* only positive evidence of a revert is one.
IsRevert(e) ==
    \/ e.code = 3
    \/ ~e.transport /\ "transport" \notin e.text /\ "reverted" \in e.text

\* The one error a call throws: the token's revert, or the node's failure.
Thrown(f, a, r, lost) == IF Answered(a, r) THEN f.refusal ELSE lost

SlotStates == {"unknown", "resolved", "failed"}

\* A resolved slot is kept; a failure is trusted for BASE_SLOT_FAILURE_TTL_MS.
ExpiredSlot(slot) == IF slot = "failed" THEN "unknown" ELSE slot

\* resolveBaseBalanceSlot: probes the mapping slots unless it remembers.
ResolveBaseBalanceSlot(a, slot) ==
    IF slot # "unknown" THEN slot
    ELSE IF Answered(a, "slot") THEN "resolved" ELSE "failed"

NoSimulation == [buys |-> "unknown", sells |-> "unknown", complete |-> FALSE]

\* No pair whose state could be read: there is no RPC, the factory did not
\* answer or knows no pair, or one of token0, token1 and getReserves failed.
PairRead(f, a) ==
    f.rpc /\ Answered(a, "factory") /\ f.pair # "none" /\ Answered(a, "pair")

HasLiquidity(f) == f.pair = "live"

\* getAmountsOut answers, throws, or is never called on a dry pair.
Quoted(f, a) == HasLiquidity(f) /\ f.quotes /\ Answered(a, "quote")

\* The round trip is executed after a quote, unless the caller skips it.
Executes(f, a, skip) == PairRead(f, a) /\ Quoted(f, a) /\ ~skip

\* executeRoundTrip: sold, refused by a proven revert, or not tested.
RoundTrip(f, a, slot, lost) ==
    IF slot # "resolved" THEN "unknown"
    ELSE IF Answered(a, "trip") /\ f.sells THEN "yes"
    ELSE IF IsRevert(Thrown(f, a, "trip", lost)) THEN "no" ELSE "unknown"

CanBuy(f, a, lost) ==
    CASE ~HasLiquidity(f) -> "no"
      [] Quoted(f, a)     -> "yes"
      [] OTHER            -> IF IsRevert(Thrown(f, a, "quote", lost)) THEN "no" ELSE "unknown"

Simulation(f, a, skip, slot, lost) ==
    IF ~PairRead(f, a) THEN NoSimulation
    ELSE LET sold == IF Executes(f, a, skip) THEN RoundTrip(f, a, slot, lost) ELSE "unknown"
         IN  [buys |-> CanBuy(f, a, lost), sells |-> sold, complete |-> sold = "yes"]

LpSupplyKnown(f, a) == f.lpSupply /\ Answered(a, "lpToken")

\* The supply is known and the holder page answered with rows.
LpDataComplete(f, a) ==
    LpSupplyKnown(f, a) /\ Answered(a, "lpHolders") /\ (f.lpTop > 0 \/ f.lpBurned > 0)

\* The share of the first LP holder that is not a burn address, 0 for null.
LpControllerPct(f, a) ==
    IF LpSupplyKnown(f, a) /\ Answered(a, "lpHolders") THEN f.lpTop ELSE 0

\* analyzeApexiSwap once the slot is resolved, or not needed; lost is what a
\* call to the node throws that does not answer.
AnalyzeApexiSwap(f, a, skip, slot, lost) ==
    [pair   |-> PairRead(f, a),
     sim    |-> Simulation(f, a, skip, slot, lost),
     lpRead |-> PairRead(f, a) /\ LpDataComplete(f, a),
     lpTop  |-> IF PairRead(f, a) THEN LpControllerPct(f, a) ELSE 0]
=============================================================================
