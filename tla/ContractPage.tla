---------------------------- MODULE ContractPage ----------------------------
(***************************************************************************)
(* The page of one contract of chain 5042                                  *)
(* (apps/api/src/routes/observed-mainnet.ts), for requests that overlap.  A *)
(* request reads the stored row, asks the explorer and, when that has no    *)
(* answer, the node, through a short cache that all requests share; then it *)
(* refuses, or answers and stores what it learned.                         *)
(***************************************************************************)
EXTENDS Integers, Sequences, FiniteSets, FiniteSetsExt

CONSTANTS
    Addresses,
    Fields,         \* what a contract says of itself: name, symbol, decimals, supply
    Proxies,        \* addresses whose code has proxy hints
    Indexed,        \* shares of the largest and the five largest indexed holders, 0 if unknown
    Views,          \* what an explorer may say of a token, see ObservedLevel
    Requests,
    Explorers,      \* whether an explorer may be configured: a set of booleans
    Ttl,            \* RPC_READ_TTL_MS (45 s), in ticks of the clock
    CacheMax,       \* RPC_READ_CACHE_MAX (500)
    MaxTicks,       \* bound of the clock
    MaxFaults       \* bound: reads that fail

VARIABLES
    configured,     \* OBSERVED_ARC_EXPLORER_URL is set
    deployed,       \* per address, ticks since its code appeared, -1 before
    row,            \* its Token row: [there, fields known, creator known, level]
    cache,          \* rpcReadCache, in insertion order
    request,        \* locals of each request
    reply,          \* what the last request to end was told
    ticks, faults

vars == <<configured, deployed, row, cache, request, reply, ticks, faults>>

Severities == <<"low", "medium", "high", "critical">>
NoRow == [there |-> FALSE, fields |-> {}, creator |-> FALSE, level |-> "none"]
UNREACHABLE == [reachable |-> FALSE, hasCode |-> FALSE, fields |-> {}, proxy |-> FALSE]

NoRequest == [pc |-> "free", address |-> CHOOSE a \in Addresses : TRUE,
              there |-> FALSE, fields |-> {}, live |-> UNREACHABLE, asked |-> FALSE,
              view |-> [given |-> {}, top1 |-> 0, top5 |-> 0]]

\* History: for how long the contract had been there, and whether the request
\* read the node itself.
NoReply == [kind |-> "none", level |-> "none", codeFor |-> -1, asked |-> FALSE]

Init ==
    /\ configured \in Explorers
    /\ deployed = [a \in Addresses |-> -1]
    /\ row = [a \in Addresses |-> NoRow]
    /\ cache = <<>>
    /\ request = [q \in Requests |-> NoRequest] /\ reply = NoReply
    /\ ticks = 0 /\ faults = 0

Fails == faults < MaxFaults /\ faults' = faults + 1

-----------------------------------------------------------------------------
(* The chain, the clock and the two indexers.                               *)

Deploy(a) ==
    /\ deployed[a] = -1 /\ deployed' = [deployed EXCEPT ![a] = 0]
    /\ UNCHANGED <<configured, row, cache, request, reply, ticks, faults>>

Tick ==
    /\ ticks < MaxTicks /\ ticks' = ticks + 1
    /\ deployed' = [a \in Addresses |-> IF deployed[a] = -1 THEN -1 ELSE deployed[a] + 1]
    /\ cache' = [i \in DOMAIN cache |-> [cache[i] EXCEPT !.age = @ + 1]]
    /\ UNCHANGED <<configured, row, request, reply, faults>>

\* A page of runObservedMainnetIndexer: a field the explorer leaves out keeps
\* its value.
StorePage(a) ==
    /\ configured /\ deployed[a] # -1
    /\ \E given \in SUBSET Fields :
          row' = [row EXCEPT ![a].there = TRUE, ![a].fields = @ \union given]
    /\ row' # row
    /\ UNCHANGED <<configured, deployed, cache, request, reply, ticks, faults>>

\* runObservedArcHolderIndexer, which goes on with rows that are there.
StoreCreator(a) ==
    /\ row[a].there /\ ~row[a].creator /\ row' = [row EXCEPT ![a].creator = TRUE]
    /\ UNCHANGED <<configured, deployed, cache, request, reply, ticks, faults>>

-----------------------------------------------------------------------------
(* Risk levels.                                                             *)

Strongest(signals) == Severities[Max({1} \union {i \in 1 .. 4 : Severities[i] \in signals})]

\* The thresholds are the same for the explorer's holders and the indexed ones.
Concentration(top1, top5) ==
    (IF top1 >= 50 THEN {"critical"} ELSE IF top1 >= 20 THEN {"high"} ELSE {})
        \union {s \in {"high"} : top5 >= 80}

Level(signals, least) ==
    LET strongest == Strongest(signals)
    IN  CASE strongest = "critical" -> "critical_risk" [] strongest = "high" -> "high_risk"
          [] strongest = "medium" -> "caution" [] OTHER -> least

\* assessObservedRisk.  A view is what the explorer gave (the supply, a page of
\* holders, all of them, reliable creation metadata, verified source, the creator)
\* and the shares on that page.
ObservedLevel(view) ==
    Level((IF {"supply", "holders"} \subseteq view.given THEN Concentration(view.top1, view.top5)
           ELSE {})
            \union {s \in {"medium"} : ~{"verified", "reliable", "holders", "all"} \subseteq view.given},
          "lower_observed_risk")

\* Without an explorer there is always a gap, so no level below caution.
LiveLevel(a, live) ==
    Level(Concentration(Indexed[a].top1, Indexed[a].top5) \union {s \in {"high"} : live.proxy}, "caution")

-----------------------------------------------------------------------------
(* A request.                                                               *)

Ask(q, a) ==
    /\ request[q].pc = "free"
    /\ request' = [request EXCEPT ![q] = [NoRequest EXCEPT !.pc = "explorer", !.address = a,
                            !.there = row[a].there, !.fields = row[a].fields]]
    /\ UNCHANGED <<configured, deployed, row, cache, reply, ticks, faults>>

End(q, r, kind, level) ==
    /\ request' = [request EXCEPT ![q] = NoRequest]
    /\ reply' = [kind |-> kind, level |-> level, asked |-> r.asked, codeFor |-> deployed[r.address]]

\* Mutant: what shows no code is no contract, an outage included.
RefusalOnCode(live, there) == IF ~live.hasCode /\ ~there THEN "not_a_contract" ELSE "none"

\* What is refused when there is no row to show, by what the node said.
Refusal(live, there) ==
    CASE ~live.reachable /\ ~there -> "unavailable"
      [] live.reachable /\ ~live.hasCode /\ ~there -> "not_a_contract"
      [] OTHER -> "none"

\* Refuse, or go on with a live read: the bridge rows are read before the row is
\* stored.
Continue(q, live, asked) ==
    LET r       == [request[q] EXCEPT !.pc = "live", !.live = live, !.asked = asked]
        refusal == Refusal(live, r.there)
    IN  IF refusal = "none" THEN request' = [request EXCEPT ![q] = r] /\ UNCHANGED reply
        ELSE End(q, r, refusal, "none")

Fresh(a) == {i \in DOMAIN cache : cache[i].address = a /\ cache[i].age < Ttl}

\* The explorer is not configured, or has no answer for the token: a cached read
\* that is fresh is used at once.
ExplorerSilent(q) ==
    /\ request[q].pc = "explorer"
    /\ LET hits == Fresh(request[q].address)
       IN  \/ \E i \in hits : Continue(q, cache[i].live, FALSE)
           \/ hits = {} /\ request' = [request EXCEPT ![q].pc = "node"] /\ UNCHANGED reply
    /\ UNCHANGED <<configured, deployed, row, cache, ticks, faults>>

\* The token is answered for; each of its two other pages may be missing.
ExplorerAnswers(q) ==
    /\ request[q].pc = "explorer" /\ configured /\ deployed[request[q].address] # -1
    /\ \E view \in Views :
          request' = [request EXCEPT ![q].pc = "view", ![q].view = view]
    /\ UNCHANGED <<configured, deployed, row, cache, reply, ticks, faults>>

\* Map.set keeps the place of a key that is there; a full map first drops its
\* oldest entry.
Remember(a, live) ==
    LET room  == IF Len(cache) >= CacheMax THEN Tail(cache) ELSE cache
        entry == [address |-> a, age |-> 0, live |-> live]
    IN  IF \A i \in DOMAIN room : room[i].address # a THEN Append(room, entry)
        ELSE [i \in DOMAIN room |-> IF room[i].address = a THEN entry ELSE room[i]]

\* A read the node never answered is not remembered: it would pin the outage in
\* front of the next request.
Cache(a, live) == IF live.reachable THEN Remember(a, live) ELSE cache

\* The code; then what the contract says of itself, as far as the calls answer.
ReadNode(q) ==
    LET a == request[q].address IN
    /\ request[q].pc = "node"
    /\ \E fields \in SUBSET Fields, reachable \in BOOLEAN :
          LET hasCode == reachable /\ deployed[a] # -1
              live == [reachable |-> reachable, hasCode |-> hasCode, fields |-> fields,
                       proxy |-> hasCode /\ a \in Proxies]
          IN  /\ ~hasCode => fields = {}
              /\ IF reachable /\ (hasCode => fields = Fields) THEN UNCHANGED faults ELSE Fails
              /\ cache' = Cache(a, live)
              /\ Continue(q, live, TRUE)
    /\ UNCHANGED <<configured, deployed, row, ticks>>

\* What the node said is kept for the next request; the fields it did not give
\* are written back as this request found them.  A failing write goes unnoticed.
StoreLive(q) ==
    LET r == request[q]
        a == r.address
    IN  /\ r.pc = "live"
        /\ IF r.live.hasCode /\ r.live.fields # {}
           THEN \/ /\ row' = [row EXCEPT ![a].there = TRUE,
                                         ![a].fields = r.live.fields \union r.fields]
                   /\ UNCHANGED faults
                \/ UNCHANGED row /\ Fails
           ELSE UNCHANGED <<row, faults>>
        /\ End(q, r, IF r.live.reachable THEN "rpc" ELSE "cache", LiveLevel(a, r.live))
        /\ UNCHANGED <<configured, deployed, cache, ticks>>

\* The explorer's view replaces the row, with null where it has nothing.
StoreView(q) ==
    LET r == request[q]
        level == ObservedLevel(r.view)
    IN  /\ r.pc = "view"
        /\ \E given \in {Fields, {}} :
              row' = [row EXCEPT ![r.address] = [there |-> TRUE, fields |-> given,
                          creator |-> "creator" \in r.view.given, level |-> level]]
        /\ End(q, r, "explorer", level)
        /\ UNCHANGED <<configured, deployed, cache, ticks, faults>>

\* A query or the explorer's body throws.
Throws(q) ==
    /\ request[q].pc # "free" /\ Fails
    /\ End(q, request[q], "error", "none")
    /\ UNCHANGED <<configured, deployed, row, cache, ticks>>

ApiRestarts ==
    /\ Fails /\ cache' = <<>> /\ request' = [q \in Requests |-> NoRequest]
    /\ UNCHANGED <<configured, deployed, row, reply, ticks>>

Next ==
    \/ \E a \in Addresses : Deploy(a) \/ StorePage(a) \/ StoreCreator(a)
    \/ \E q \in Requests :
          \/ \E a \in Addresses : Ask(q, a)
          \/ ExplorerSilent(q) \/ ExplorerAnswers(q) \/ ReadNode(q)
          \/ StoreLive(q) \/ StoreView(q) \/ Throws(q)
    \/ Tick \/ ApiRestarts

Spec == Init /\ [][Next]_vars
-----------------------------------------------------------------------------
(* Properties.                                                              *)

\* Every variable has its type.
TypeOK ==
    /\ deployed \in [Addresses -> -1 .. MaxTicks]
    /\ \A a \in Addresses : row[a].fields \subseteq Fields /\ (row[a].fields # {} => row[a].there)
    /\ Len(cache) <= CacheMax /\ \A i \in DOMAIN cache : cache[i].live.reachable
    /\ \A q \in Requests : request[q].pc \in {"free", "explorer", "node", "live", "view"}
    /\ \A a \in Addresses : row[a].level \in
           {"none", "critical_risk", "high_risk", "caution", "lower_observed_risk"}

\* "The explorer being unreachable is not the same fact as the token not
\* existing" (line 432), with a cache between: only a contract whose code is
\* younger than a cached read is called no contract, and the network is only
\* called unavailable to a request whose own read failed.
AbsenceIsRead ==
    /\ reply.kind = "not_a_contract" => reply.codeFor < Ttl
    /\ reply.kind = "unavailable" => reply.asked
=============================================================================
