------------------------- MODULE ContractPageProofs -------------------------
(***************************************************************************)
(* That a contract page takes an outage for an absence at no time, for any  *)
(* number of requests and contracts.                                       *)
(***************************************************************************)
EXTENDS ContractPage, TLAPS

Answers == [reachable : {TRUE}, hasCode : BOOLEAN, fields : SUBSET Fields, proxy : BOOLEAN]
Entries == [address : Addresses, age : Nat, live : Answers]

(***************************************************************************)
(* The inductive invariant.                                                *)
(***************************************************************************)

DeployedOK == deployed \in [Addresses -> Nat \union {-1}]

CacheOK == cache \in Seq(Entries)

\* A remembered read that saw no code is at least as old as the code.
CacheTrue ==
    \A i \in 1 .. Len(cache) :
        ~cache[i].live.hasCode => deployed[cache[i].address] <= cache[i].age

RequestOK ==
    /\ DOMAIN request = Requests
    /\ \A q \in Requests :
          /\ {"pc", "address", "there", "live", "asked"} \subseteq DOMAIN request[q]
          /\ request[q].pc # "free" => request[q].address \in Addresses

IInv == DeployedOK /\ CacheOK /\ CacheTrue /\ RequestOK /\ AbsenceIsRead

-----------------------------------------------------------------------------

LEMMA FreeRequest ==
    /\ {"pc", "address", "there", "live", "asked"} \subseteq DOMAIN NoRequest
    /\ NoRequest.pc = "free"
  BY DEF NoRequest

LEMMA Initially == Init => IInv
  <1> SUFFICES ASSUME Init PROVE IInv
      OBVIOUS
  <1>1. DeployedOK /\ CacheOK /\ CacheTrue
      BY DEF Init, DeployedOK, CacheOK, CacheTrue
  <1>2. RequestOK
      BY FreeRequest DEF Init, RequestOK
  <1>3. AbsenceIsRead
      BY DEF Init, NoReply, AbsenceIsRead
  <1> QED
      BY <1>1, <1>2, <1>3 DEF IInv

\* A request that is freed, or moves with its address kept, stays well formed.
LEMMA MovedRequest ==
    ASSUME RequestOK, NEW q \in Requests, NEW r,
           request' = [request EXCEPT ![q] = r],
           {"pc", "address", "there", "live", "asked"} \subseteq DOMAIN r,
           r.pc # "free" => r.address \in Addresses
    PROVE RequestOK'
  BY DEF RequestOK

LEMMA Freed ==
    ASSUME RequestOK, NEW q \in Requests, request' = [request EXCEPT ![q] = NoRequest]
    PROVE RequestOK'
  BY FreeRequest, MovedRequest

\* A request that ends with anything but a refusal claims nothing.
LEMMA EndsWell ==
    ASSUME IInv, NEW q \in Requests, NEW r, NEW level, NEW kind,
           kind \notin {"not_a_contract", "unavailable"}, End(q, r, kind, level),
           UNCHANGED <<deployed, cache>>
    PROVE IInv'
  <1>1. RequestOK'
      BY Freed DEF End, IInv
  <1>2. AbsenceIsRead'
      BY DEF End, AbsenceIsRead
  <1> QED
      BY <1>1, <1>2 DEF IInv, DeployedOK, CacheOK, CacheTrue

-----------------------------------------------------------------------------
(* Refusals.                                                                *)

LEMMA RefusalCases ==
    ASSUME NEW live, NEW there
    PROVE /\ Refusal(live, there) \in {"unavailable", "not_a_contract", "none"}
          /\ Refusal(live, there) = "unavailable" => ~live.reachable
          /\ Refusal(live, there) = "not_a_contract" => live.reachable /\ ~live.hasCode
  BY DEF Refusal

\* What Continue does is right when the read was its own or is a true one.
LEMMA ContinueKeeps ==
    ASSUME RequestOK, AbsenceIsRead, DeployedOK, Ttl \in Nat,
           NEW q \in Requests, request[q].pc # "free",
           NEW live, NEW asked \in BOOLEAN, Continue(q, live, asked),
           ~live.reachable => asked,
           live.reachable /\ ~live.hasCode => deployed[request[q].address] < Ttl
    PROVE RequestOK' /\ AbsenceIsRead'
  <1> DEFINE r == [request[q] EXCEPT !.pc = "live", !.live = live, !.asked = asked]
  <1>1. /\ {"pc", "address", "there", "live", "asked"} \subseteq DOMAIN r
        /\ r.address = request[q].address /\ r.asked = asked /\ r.pc = "live"
        /\ request[q].address \in Addresses
      BY DEF RequestOK
  <1>2. CASE Refusal(live, r.there) = "none"
    <2>1. request' = [request EXCEPT ![q] = r] /\ UNCHANGED reply
        BY <1>2 DEF Continue
    <2>2. RequestOK'
        BY <1>1, <2>1, MovedRequest
    <2> QED
        BY <2>1, <2>2 DEF AbsenceIsRead
  <1>3. CASE Refusal(live, r.there) # "none"
    <2>1. End(q, r, Refusal(live, r.there), "none")
        BY <1>3 DEF Continue
    <2>2. RequestOK'
        BY <2>1, Freed DEF End
    <2>3. reply' = [kind |-> Refusal(live, r.there), level |-> "none", asked |-> asked,
                    codeFor |-> deployed[request[q].address]]
        BY <1>1, <2>1 DEF End
    <2>4. /\ reply'.kind = "unavailable" => asked
          /\ reply'.kind = "not_a_contract" => deployed[request[q].address] < Ttl
        BY <2>3, RefusalCases
    <2> QED
        BY <2>2, <2>3, <2>4 DEF AbsenceIsRead
  <1> QED
      BY <1>2, <1>3

-----------------------------------------------------------------------------
(* The steps.                                                               *)

LEMMA ExplorerSilentKeeps ==
    ASSUME Ttl \in Nat, NEW q \in Requests PROVE IInv /\ ExplorerSilent(q) => IInv'
  <1> SUFFICES ASSUME IInv, ExplorerSilent(q) PROVE IInv'
      OBVIOUS
  <1>1. DeployedOK' /\ CacheOK' /\ CacheTrue'
      BY DEF ExplorerSilent, IInv, DeployedOK, CacheOK, CacheTrue
  <1>2. ASSUME NEW i \in Fresh(request[q].address), Continue(q, cache[i].live, FALSE)
        PROVE RequestOK' /\ AbsenceIsRead'
    <2>1. /\ i \in 1 .. Len(cache) /\ cache[i] \in Entries
          /\ cache[i].address = request[q].address /\ cache[i].age < Ttl
        BY <1>2 DEF Fresh, IInv, CacheOK
    <2>2. cache[i].live \in Answers /\ cache[i].age \in Nat
        BY <2>1 DEF Entries
    <2>3. cache[i].live.reachable
        BY <2>2 DEF Answers
    <2>4. request[q].pc # "free" /\ request[q].address \in Addresses
        BY DEF ExplorerSilent, IInv, RequestOK
    <2>5. ~cache[i].live.hasCode => deployed[request[q].address] < Ttl
        BY <2>1, <2>2, <2>4 DEF IInv, CacheTrue, DeployedOK
    <2> QED
        BY <1>2, <2>3, <2>4, <2>5, ContinueKeeps DEF IInv
  <1>3. ASSUME request' = [request EXCEPT ![q].pc = "node"], UNCHANGED reply
        PROVE RequestOK' /\ AbsenceIsRead'
      BY <1>3 DEF ExplorerSilent, IInv, RequestOK, AbsenceIsRead
  <1> QED
      BY <1>1, <1>2, <1>3 DEF ExplorerSilent, IInv

\* A read that is remembered is of this moment, so its claim is true.
LEMMA CacheKeeps ==
    ASSUME DeployedOK, CacheOK, CacheTrue, UNCHANGED deployed, CacheMax \in Nat \ {0},
           NEW a \in Addresses, NEW live, cache' = Cache(a, live),
           live.reachable => live \in Answers,
           live.reachable /\ ~live.hasCode => deployed[a] = -1
    PROVE CacheOK' /\ CacheTrue'
  <1> DEFINE entry == [address |-> a, age |-> 0, live |-> live]
             room  == IF Len(cache) >= CacheMax THEN Tail(cache) ELSE cache
             True(e) == ~e.live.hasCode => deployed[e.address] <= e.age
  <1>1. CASE ~live.reachable
    <2>1. cache' = cache
        BY <1>1 DEF Cache
    <2> QED
        BY <2>1 DEF CacheOK, CacheTrue
  <1>2. CASE live.reachable
    <2>1. live \in Answers
        BY <1>2
    <2>2. entry \in Entries
        BY <2>1 DEF Entries
    <2>3. True(entry)
      <3>1. entry.age = 0 /\ entry.address = a /\ entry.live = live
          OBVIOUS
      <3> QED
          BY <1>2, <3>1
    <2>4. cache' = Remember(a, live)
        BY <1>2 DEF Cache
    <2>5. room \in Seq(Entries) /\ \A i \in 1 .. Len(room) : True(room[i])
      <3>1. CASE Len(cache) >= CacheMax
        <4>1. cache # <<>> /\ room = Tail(cache)
            BY <3>1 DEF CacheOK
        <4>2. /\ Tail(cache) \in Seq(Entries) /\ Len(Tail(cache)) = Len(cache) - 1
              /\ \A i \in 1 .. Len(Tail(cache)) : Tail(cache)[i] = cache[i + 1]
            BY <4>1 DEF CacheOK
        <4> HIDE DEF room
        <4>3. ASSUME NEW i \in 1 .. Len(room) PROVE True(room[i])
          <5>1. i + 1 \in 1 .. Len(cache) /\ room[i] = cache[i + 1]
              BY <4>1, <4>2 DEF CacheOK
          <5> QED
              BY <5>1 DEF CacheTrue
        <4> QED
            BY <4>1, <4>2, <4>3
      <3>2. CASE ~(Len(cache) >= CacheMax)
          BY <3>2 DEF CacheOK, CacheTrue
      <3> QED
          BY <3>1, <3>2
    <2> HIDE DEF room, entry, True
    <2>6. cache' = IF \A i \in DOMAIN room : room[i].address # a THEN Append(room, entry)
                   ELSE [i \in DOMAIN room |-> IF room[i].address = a THEN entry ELSE room[i]]
        BY <2>4 DEF Remember, room, entry
    <2>7. CASE cache' = Append(room, entry)
      <3>1. cache' \in Seq(Entries)
          BY <2>2, <2>5, <2>7
      <3>2. \A i \in 1 .. Len(cache') : cache'[i] = entry \/ \E j \in 1 .. Len(room) : cache'[i] = room[j]
          BY <2>2, <2>5, <2>7
      <3> QED
          BY <2>3, <2>5, <3>1, <3>2 DEF CacheOK, CacheTrue, True
    <2>8. CASE cache' = [i \in DOMAIN room |-> IF room[i].address = a THEN entry ELSE room[i]]
      <3>1. cache' \in Seq(Entries)
          BY <2>2, <2>5, <2>8
      <3>2. \A i \in 1 .. Len(cache') : cache'[i] = entry \/ \E j \in 1 .. Len(room) : cache'[i] = room[j]
          BY <2>2, <2>5, <2>8
      <3> QED
          BY <2>3, <2>5, <3>1, <3>2 DEF CacheOK, CacheTrue, True
    <2> QED
        BY <2>6, <2>7, <2>8
  <1> QED
      BY <1>1, <1>2

LEMMA ReadNodeKeeps ==
    ASSUME Ttl \in Nat, CacheMax \in Nat \ {0}, NEW q \in Requests
    PROVE IInv /\ ReadNode(q) => IInv'
  <1> SUFFICES ASSUME IInv, ReadNode(q) PROVE IInv'
      OBVIOUS
  <1> DEFINE a == request[q].address
  <1>1. request[q].pc = "node" /\ a \in Addresses
      BY DEF ReadNode, IInv, RequestOK
  <1>2. PICK fields \in SUBSET Fields, reachable \in BOOLEAN :
            LET hasCode == reachable /\ deployed[a] # -1
                live == [reachable |-> reachable, hasCode |-> hasCode, fields |-> fields,
                         proxy |-> hasCode /\ a \in Proxies]
            IN  cache' = Cache(a, live) /\ Continue(q, live, TRUE)
      BY DEF ReadNode
  <1> DEFINE hasCode == reachable /\ deployed[a] # -1
             proxy == hasCode /\ a \in Proxies
             live == [reachable |-> reachable, hasCode |-> hasCode, fields |-> fields, proxy |-> proxy]
  <1>3. /\ live.reachable => live \in Answers
        /\ live.reachable /\ ~live.hasCode => deployed[a] = -1
      BY DEF Answers
  <1>4. cache' = Cache(a, live) /\ Continue(q, live, TRUE)
      BY <1>2
  <1>5. UNCHANGED deployed
      BY DEF ReadNode
  <1>6. CacheOK' /\ CacheTrue'
    <2> HIDE DEF live, a
    <2> QED
        BY <1>1, <1>3, <1>4, <1>5, CacheKeeps DEF IInv
  <1>7. live.reachable /\ ~live.hasCode => deployed[a] < Ttl
      BY <1>3
  <1>8. RequestOK' /\ AbsenceIsRead'
    <2> HIDE DEF live
    <2> QED
        BY <1>1, <1>4, <1>7, ContinueKeeps DEF IInv
  <1> QED
      BY <1>5, <1>6, <1>8 DEF IInv, DeployedOK

LEMMA AskKeeps ==
    ASSUME NEW q \in Requests, NEW a \in Addresses PROVE IInv /\ Ask(q, a) => IInv'
  <1> SUFFICES ASSUME IInv, Ask(q, a) PROVE IInv'
      OBVIOUS
  <1> DEFINE r == [NoRequest EXCEPT !.pc = "explorer", !.address = a,
                       !.there = row[a].there, !.fields = row[a].fields]
  <1>1. {"pc", "address", "there", "live", "asked"} \subseteq DOMAIN r /\ r.address = a
      BY DEF NoRequest
  <1>2. request' = [request EXCEPT ![q] = r]
      BY DEF Ask
  <1>3. RequestOK'
      BY <1>1, <1>2, MovedRequest DEF IInv
  <1> QED
      BY <1>3 DEF Ask, IInv, DeployedOK, CacheOK, CacheTrue, AbsenceIsRead

LEMMA ExplorerAnswersKeeps ==
    ASSUME NEW q \in Requests PROVE IInv /\ ExplorerAnswers(q) => IInv'
  <1> SUFFICES ASSUME IInv, ExplorerAnswers(q) PROVE IInv'
      OBVIOUS
  <1>1. PICK view \in Views : request' = [request EXCEPT ![q].pc = "view", ![q].view = view]
      BY DEF ExplorerAnswers
  <1>2. RequestOK'
      BY <1>1 DEF ExplorerAnswers, IInv, RequestOK
  <1> QED
      BY <1>2 DEF ExplorerAnswers, IInv, DeployedOK, CacheOK, CacheTrue, AbsenceIsRead

LEMMA EndsKeep ==
    ASSUME NEW q \in Requests
    PROVE IInv /\ (StoreLive(q) \/ StoreView(q) \/ Throws(q)) => IInv'
  <1>1. ASSUME IInv, StoreLive(q) PROVE IInv'
    <2>1. End(q, request[q], IF request[q].live.reachable THEN "rpc" ELSE "cache",
              LiveLevel(request[q].address, request[q].live))
        BY <1>1 DEF StoreLive
    <2> QED
        BY <1>1, <2>1, EndsWell DEF StoreLive
  <1>2. ASSUME IInv, StoreView(q) PROVE IInv'
      BY <1>2, EndsWell DEF StoreView
  <1>3. ASSUME IInv, Throws(q) PROVE IInv'
      BY <1>3, EndsWell DEF Throws
  <1> QED
      BY <1>1, <1>2, <1>3

\* Code and remembered reads age together.
LEMMA TickKeeps == IInv /\ Tick => IInv'
  <1> SUFFICES ASSUME IInv, Tick PROVE IInv'
      OBVIOUS
  <1>1. deployed' = [a \in Addresses |-> IF deployed[a] = -1 THEN -1 ELSE deployed[a] + 1]
      BY DEF Tick
  <1>2. DeployedOK'
      BY <1>1 DEF IInv, DeployedOK
  <1>3. cache' = [i \in DOMAIN cache |-> [cache[i] EXCEPT !.age = @ + 1]]
      BY DEF Tick
  <1> DEFINE Aged(e) == [e EXCEPT !.age = @ + 1]
  <1>4. ASSUME NEW e \in Entries
        PROVE /\ Aged(e) \in Entries
              /\ Aged(e).age = e.age + 1
              /\ Aged(e).live = e.live
              /\ Aged(e).address = e.address
              /\ e.age \in Nat /\ e.address \in Addresses
      BY <1>4 DEF Entries
  <1>5. /\ cache' \in Seq(Entries) /\ Len(cache') = Len(cache)
        /\ \A i \in 1 .. Len(cache) : cache'[i] = Aged(cache[i])
    <2>1. cache' = [i \in DOMAIN cache |-> Aged(cache[i])]
        BY <1>3
    <2> HIDE DEF Aged
    <2> QED
        BY <2>1, <1>4 DEF IInv, CacheOK
  <1>6. CacheTrue'
    <2> SUFFICES ASSUME NEW i \in 1 .. Len(cache), ~cache'[i].live.hasCode
                 PROVE deployed'[cache'[i].address] <= cache'[i].age
        BY <1>5 DEF CacheTrue
    <2>1. cache[i] \in Entries
        BY DEF IInv, CacheOK
    <2>2. /\ cache'[i].live = cache[i].live /\ cache'[i].address = cache[i].address
          /\ cache'[i].age = cache[i].age + 1
          /\ cache[i].age \in Nat /\ cache[i].address \in Addresses
        BY <1>4, <1>5, <2>1
    <2>3. deployed[cache[i].address] <= cache[i].age
        BY <2>2 DEF IInv, CacheTrue
    <2> QED
        BY <1>1, <2>2, <2>3 DEF IInv, DeployedOK
  <1> QED
      BY <1>2, <1>5, <1>6 DEF Tick, IInv, CacheOK, RequestOK, AbsenceIsRead

\* New code is younger than every read before it.
LEMMA DeployKeeps ==
    ASSUME NEW a \in Addresses PROVE IInv /\ Deploy(a) => IInv'
  <1> SUFFICES ASSUME IInv, Deploy(a) PROVE IInv'
      OBVIOUS
  <1>1. DeployedOK'
      BY DEF Deploy, IInv, DeployedOK
  <1>2. CacheTrue'
    <2> SUFFICES ASSUME NEW i \in 1 .. Len(cache), ~cache[i].live.hasCode
                 PROVE deployed'[cache[i].address] <= cache[i].age
        BY DEF Deploy, CacheTrue
    <2>1. cache[i] \in Entries
        BY DEF IInv, CacheOK
    <2>2. cache[i].age \in Nat /\ cache[i].address \in Addresses
        BY <2>1 DEF Entries
    <2> QED
        BY <2>2 DEF Deploy, IInv, CacheTrue, DeployedOK
  <1> QED
      BY <1>1, <1>2 DEF Deploy, IInv, CacheOK, RequestOK, AbsenceIsRead

LEMMA OtherKeeps ==
    ASSUME NEW a \in Addresses PROVE IInv /\ (StorePage(a) \/ StoreCreator(a)) => IInv'
  BY DEF StorePage, StoreCreator, IInv, DeployedOK, CacheOK, CacheTrue, RequestOK, AbsenceIsRead

LEMMA RestartKeeps == IInv /\ ApiRestarts => IInv'
  <1> SUFFICES ASSUME IInv, ApiRestarts PROVE IInv'
      OBVIOUS
  <1>1. CacheOK' /\ CacheTrue'
      BY DEF ApiRestarts, CacheOK, CacheTrue
  <1>2. RequestOK'
      BY FreeRequest DEF ApiRestarts, RequestOK
  <1> QED
      BY <1>1, <1>2 DEF ApiRestarts, IInv, DeployedOK, AbsenceIsRead

LEMMA Inductive ==
    ASSUME Ttl \in Nat, CacheMax \in Nat \ {0} PROVE IInv /\ [Next]_vars => IInv'
  <1> SUFFICES ASSUME IInv, [Next]_vars PROVE IInv'
      OBVIOUS
  <1>1. CASE \E a \in Addresses : Deploy(a) \/ StorePage(a) \/ StoreCreator(a)
      BY <1>1, DeployKeeps, OtherKeeps
  <1>2. ASSUME NEW q \in Requests,
               \/ \E a \in Addresses : Ask(q, a)
               \/ ExplorerSilent(q) \/ ExplorerAnswers(q) \/ ReadNode(q)
               \/ StoreLive(q) \/ StoreView(q) \/ Throws(q)
        PROVE IInv'
      BY <1>2, AskKeeps, ExplorerSilentKeeps, ExplorerAnswersKeeps, ReadNodeKeeps, EndsKeep
  <1>3. CASE Tick \/ ApiRestarts
      BY <1>3, TickKeeps, RestartKeeps
  <1>4. CASE UNCHANGED vars
      BY <1>4 DEF vars, IInv, DeployedOK, CacheOK, CacheTrue, RequestOK, AbsenceIsRead
  <1> QED
      BY <1>1, <1>2, <1>3, <1>4 DEF Next

\* However requests overlap and whatever fails: a page says "not a contract" only
\* of code younger than a remembered read may be, and "unavailable" only after a
\* read of its own (readContractOverRpcCached and the refusals of the route).
THEOREM AbsenceHolds ==
    ASSUME Ttl \in Nat, CacheMax \in Nat \ {0} PROVE Spec => []AbsenceIsRead
  <1>1. IInv => AbsenceIsRead
      BY DEF IInv
  <1> QED
      BY <1>1, Initially, Inductive, PTL DEF Spec

-----------------------------------------------------------------------------
(* Types.                                                                   *)

\* No code is older than the clock.
ClockTypes ==
    ticks \in 0 .. MaxTicks /\ \A a \in Addresses : deployed[a] \in -1 .. ticks

\* A row with a field is there.
RowTypes ==
    /\ DOMAIN row = Addresses
    /\ \A a \in Addresses :
          /\ {"there", "fields", "creator", "level"} \subseteq DOMAIN row[a]
          /\ row[a].fields \subseteq Fields /\ (row[a].fields # {} => row[a].there)
          /\ row[a].level \in {"none", "critical_risk", "high_risk", "caution", "lower_observed_risk"}

RoomTypes == Len(cache) <= CacheMax

RequestTypes ==
    \A q \in Requests :
        /\ {"fields", "view"} \subseteq DOMAIN request[q]
        /\ request[q].pc \in {"free", "explorer", "node", "live", "view"}
        /\ request[q].fields \subseteq Fields /\ request[q].live.fields \subseteq Fields

Types == ClockTypes /\ RowTypes /\ RoomTypes /\ RequestTypes

LEMMA FreeTypes ==
    /\ {"fields", "view"} \subseteq DOMAIN NoRequest /\ NoRequest.pc = "free"
    /\ NoRequest.fields = {} /\ NoRequest.live.fields = {}
  BY DEF NoRequest, UNREACHABLE

LEMMA TypesInitially == ASSUME CacheMax \in Nat, MaxTicks \in Nat PROVE Init => Types
  <1> SUFFICES ASSUME Init PROVE Types
      OBVIOUS
  <1>1. ClockTypes /\ RowTypes /\ RoomTypes
      BY DEF Init, NoRow, ClockTypes, RowTypes, RoomTypes
  <1>2. RequestTypes
      BY FreeTypes DEF Init, RequestTypes
  <1> QED
      BY <1>1, <1>2 DEF Types

\* A request that moves on with what it read, or is freed.
LEMMA RequestMoves ==
    ASSUME RequestOK, RequestTypes, NEW q \in Requests, NEW r, request' = [request EXCEPT ![q] = r],
           {"fields", "view"} \subseteq DOMAIN r, r.pc \in {"free", "explorer", "node", "live", "view"},
           r.fields \subseteq Fields, r.live.fields \subseteq Fields
    PROVE  RequestTypes'
  <1>1. \A p \in Requests : request'[p] = IF p = q THEN r ELSE request[p]
      BY DEF RequestOK
  <1> QED
      BY <1>1 DEF RequestTypes

LEMMA EndTypes ==
    ASSUME RequestOK, RequestTypes, NEW q \in Requests, NEW r, NEW kind, NEW level,
           End(q, r, kind, level)
    PROVE  RequestTypes'
  BY FreeTypes, RequestMoves DEF End

LEMMA ContinueTypes ==
    ASSUME RequestOK, RequestTypes, NEW q \in Requests, NEW live, NEW asked,
           live.fields \subseteq Fields, Continue(q, live, asked)
    PROVE  RequestTypes'
  <1> DEFINE r == [request[q] EXCEPT !.pc = "live", !.live = live, !.asked = asked]
  <1>1. CASE Refusal(live, r.there) = "none"
    <2>1. request' = [request EXCEPT ![q] = r]
        BY <1>1 DEF Continue
    <2>2. /\ DOMAIN r = DOMAIN request[q] /\ r.pc = "live" /\ r.live = live
          /\ r.fields = request[q].fields
        BY DEF RequestOK, RequestTypes
    <2>3. {"fields", "view"} \subseteq DOMAIN r /\ r.fields \subseteq Fields
        BY <2>2 DEF RequestTypes
    <2> HIDE DEF r
    <2> QED
        BY <2>1, <2>2, <2>3, RequestMoves
  <1>2. CASE Refusal(live, r.there) # "none"
      BY <1>2, EndTypes DEF Continue
  <1> QED
      BY <1>1, <1>2

\* A read that is remembered takes the place of one, or of the oldest.
LEMMA RememberTypes ==
    ASSUME CacheMax \in Nat \ {0}, CacheOK, RoomTypes, NEW a \in Addresses, NEW live \in Answers
    PROVE  Len(Remember(a, live)) <= CacheMax
  <1> DEFINE room  == IF Len(cache) >= CacheMax THEN Tail(cache) ELSE cache
             entry == [address |-> a, age |-> 0, live |-> live]
  <1>1. room \in Seq(Entries) /\ Len(room) < CacheMax
      BY DEF CacheOK, RoomTypes
  <1>2. entry \in Entries
      BY DEF Entries
  <1> HIDE DEF room, entry
  <1>3. Len(Append(room, entry)) <= CacheMax
      BY <1>1
  <1> DEFINE moved == [i \in DOMAIN room |-> IF room[i].address = a THEN entry ELSE room[i]]
  <1>4. moved \in Seq(Entries) /\ Len(moved) = Len(room)
      BY <1>1, <1>2
  <1>5. Len(moved) <= CacheMax
      BY <1>1, <1>4
  <1>6. Remember(a, live) = IF \A i \in DOMAIN room : room[i].address # a
                            THEN Append(room, entry) ELSE moved
      BY DEF Remember, room, entry
  <1> QED
      BY <1>3, <1>5, <1>6

LEMMA LevelTypes ==
    ASSUME NEW signals, NEW least
    PROVE  Level(signals, least) \in {"critical_risk", "high_risk", "caution", least}
  BY DEF Level

-----------------------------------------------------------------------------

LEMMA AroundTypes ==
    ASSUME CacheMax \in Nat, MaxTicks \in Nat
    PROVE  Types /\ IInv /\ (\/ \E a \in Addresses : Deploy(a) \/ StorePage(a) \/ StoreCreator(a)
                             \/ Tick \/ ApiRestarts) => Types'
  <1> SUFFICES ASSUME Types, IInv,
                      \/ \E a \in Addresses : Deploy(a) \/ StorePage(a) \/ StoreCreator(a)
                      \/ Tick \/ ApiRestarts
               PROVE Types'
      OBVIOUS
  <1> USE DEF Types
  <1>1. CASE \E a \in Addresses : Deploy(a)
      BY <1>1 DEF Deploy, IInv, DeployedOK, ClockTypes, RowTypes, RoomTypes, RequestTypes
  <1>2. ASSUME NEW a \in Addresses, StorePage(a) \/ StoreCreator(a) PROVE Types'
    <2>1. RowTypes'
      <3>1. CASE StorePage(a)
          BY <3>1 DEF StorePage, RowTypes
      <3>2. CASE StoreCreator(a)
          BY <3>2 DEF StoreCreator, RowTypes
      <3> QED
          BY <1>2, <3>1, <3>2
    <2> QED
        BY <1>2, <2>1 DEF StorePage, StoreCreator, ClockTypes, RoomTypes, RequestTypes
  <1>3. CASE Tick
    <2>1. Len(cache') = Len(cache)
      <3>1. cache' = [i \in DOMAIN cache |-> [cache[i] EXCEPT !.age = @ + 1]]
          BY <1>3 DEF Tick
      <3>2. DOMAIN cache' = 1 .. Len(cache) /\ Len(cache) \in Nat
          BY <3>1 DEF IInv, CacheOK
      <3>3. cache' \in Seq(Entries)
          BY <1>3, TickKeeps DEF IInv, CacheOK
      <3> QED
          BY <3>2, <3>3
    <2>2. ClockTypes'
      <3>1. ticks' = ticks + 1 /\ ticks \in Nat /\ ticks' \in 0 .. MaxTicks
          BY <1>3 DEF Tick, ClockTypes
      <3>2. ASSUME NEW a \in Addresses PROVE deployed'[a] \in -1 .. ticks'
        <4>1. deployed[a] \in -1 .. ticks
            BY DEF ClockTypes
        <4>2. deployed'[a] = IF deployed[a] = -1 THEN -1 ELSE deployed[a] + 1
            BY <1>3 DEF Tick
        <4> QED
            BY <3>1, <4>1, <4>2
      <3> QED
          BY <3>1, <3>2 DEF ClockTypes
    <2> QED
        BY <1>3, <2>1, <2>2 DEF Tick, RowTypes, RoomTypes, RequestTypes
  <1>4. CASE ApiRestarts
      BY <1>4, FreeTypes DEF ApiRestarts, ClockTypes, RowTypes, RoomTypes, RequestTypes
  <1> QED
      BY <1>1, <1>2, <1>3, <1>4

LEMMA RequestStepTypes ==
    ASSUME CacheMax \in Nat \ {0}, NEW q \in Requests
    PROVE  Types /\ IInv /\ (\/ \E a \in Addresses : Ask(q, a)
                             \/ ExplorerSilent(q) \/ ExplorerAnswers(q) \/ ReadNode(q)
                             \/ StoreLive(q) \/ StoreView(q) \/ Throws(q)) => Types'
  <1> SUFFICES ASSUME Types, IInv,
                      \/ \E a \in Addresses : Ask(q, a)
                      \/ ExplorerSilent(q) \/ ExplorerAnswers(q) \/ ReadNode(q)
                      \/ StoreLive(q) \/ StoreView(q) \/ Throws(q)
               PROVE Types'
      OBVIOUS
  <1> USE DEF Types
  <1>0. RequestOK /\ {"pc", "address", "there", "live", "asked", "fields", "view"} \subseteq DOMAIN request[q]
      BY DEF IInv, RequestOK, RequestTypes
  <1>1. ASSUME NEW a \in Addresses, Ask(q, a) PROVE Types'
    <2> DEFINE r == [NoRequest EXCEPT !.pc = "explorer", !.address = a,
                         !.there = row[a].there, !.fields = row[a].fields]
    <2>1. /\ {"fields", "view"} \subseteq DOMAIN r /\ r.pc = "explorer"
          /\ r.fields = row[a].fields /\ r.live.fields = {}
        BY FreeTypes DEF NoRequest, UNREACHABLE
    <2>2. request' = [request EXCEPT ![q] = r] /\ row[a].fields \subseteq Fields
        BY <1>1 DEF Ask, RowTypes
    <2> HIDE DEF r
    <2>3. RequestTypes'
        BY <1>0, <2>1, <2>2, RequestMoves
    <2> QED
        BY <1>1, <2>3 DEF Ask, ClockTypes, RowTypes, RoomTypes
  <1>2. CASE ExplorerSilent(q)
    <2>1. ASSUME NEW i \in Fresh(request[q].address), Continue(q, cache[i].live, FALSE)
          PROVE RequestTypes'
      <3>1. cache[i].live.fields \subseteq Fields
        <4>1. cache[i] \in Entries
            BY DEF Fresh, IInv, CacheOK
        <4>2. cache[i].live \in Answers
            BY <4>1 DEF Entries
        <4> QED
            BY <4>2 DEF Answers
      <3> QED
          BY <1>0, <2>1, <3>1, ContinueTypes
    <2>2. ASSUME request' = [request EXCEPT ![q].pc = "node"] PROVE RequestTypes'
        BY <1>0, <2>2 DEF RequestOK, RequestTypes
    <2>3. RequestTypes'
        BY <1>2, <2>1, <2>2 DEF ExplorerSilent
    <2> QED
        BY <1>2, <2>3 DEF ExplorerSilent, ClockTypes, RowTypes, RoomTypes
  <1>3. CASE ExplorerAnswers(q)
    <2>1. PICK view \in Views : request' = [request EXCEPT ![q].pc = "view", ![q].view = view]
        BY <1>3 DEF ExplorerAnswers
    <2>2. RequestTypes'
        BY <1>0, <2>1 DEF RequestOK, RequestTypes
    <2> QED
        BY <1>3, <2>2 DEF ExplorerAnswers, ClockTypes, RowTypes, RoomTypes
  <1>4. CASE ReadNode(q)
    <2> DEFINE a == request[q].address
    <2>1. a \in Addresses
        BY <1>0, <1>4 DEF ReadNode, RequestOK
    <2>2. PICK fields \in SUBSET Fields, reachable \in BOOLEAN :
              LET hasCode == reachable /\ deployed[a] # -1
                  live == [reachable |-> reachable, hasCode |-> hasCode, fields |-> fields,
                           proxy |-> hasCode /\ a \in Proxies]
              IN  cache' = Cache(a, live) /\ Continue(q, live, TRUE)
        BY <1>4 DEF ReadNode
    <2> DEFINE hasCode == reachable /\ deployed[a] # -1
               proxy == hasCode /\ a \in Proxies
               live == [reachable |-> reachable, hasCode |-> hasCode, fields |-> fields, proxy |-> proxy]
    <2>3. live.fields \subseteq Fields /\ (live.reachable => live \in Answers)
        BY DEF Answers
    <2>4. cache' = Cache(a, live) /\ Continue(q, live, TRUE)
        BY <2>2
    <2> HIDE DEF live, a
    <2>5. RoomTypes'
        BY <2>1, <2>3, <2>4, RememberTypes DEF Cache, RoomTypes, IInv
    <2>6. RequestTypes'
        BY <1>0, <2>3, <2>4, ContinueTypes
    <2> QED
        BY <1>4, <2>5, <2>6 DEF ReadNode, ClockTypes, RowTypes
  <1>5. CASE StoreLive(q)
    <2>1. RequestTypes'
        BY <1>0, <1>5, EndTypes DEF StoreLive
    <2>2. RowTypes'
      <3>1. request[q].address \in Addresses
          BY <1>5 DEF StoreLive, IInv, RequestOK
      <3>2. request[q].fields \union request[q].live.fields \subseteq Fields
          BY DEF RequestTypes
      <3>3. \/ UNCHANGED row
            \/ row' = [row EXCEPT ![request[q].address].there = TRUE,
                           ![request[q].address].fields = request[q].live.fields \union request[q].fields]
          BY <1>5 DEF StoreLive
      <3> QED
          BY <3>1, <3>2, <3>3 DEF RowTypes
    <2> QED
        BY <1>5, <2>1, <2>2 DEF StoreLive, ClockTypes, RoomTypes
  <1>6. CASE StoreView(q)
    <2>1. RequestTypes'
        BY <1>0, <1>6, EndTypes DEF StoreView
    <2>2. RowTypes'
      <3> DEFINE level == ObservedLevel(request[q].view)
                 creator == "creator" \in request[q].view.given
      <3>1. level \in {"critical_risk", "high_risk", "caution", "lower_observed_risk"}
          BY LevelTypes DEF ObservedLevel
      <3>2. PICK given \in {Fields, {}} :
                row' = [row EXCEPT ![request[q].address] =
                            [there |-> TRUE, fields |-> given, creator |-> creator, level |-> level]]
          BY <1>6 DEF StoreView
      <3>3. \A a \in Addresses :
                row'[a] = IF a = request[q].address
                          THEN [there |-> TRUE, fields |-> given, creator |-> creator, level |-> level]
                          ELSE row[a]
          BY <3>2 DEF RowTypes
      <3>4. DOMAIN row' = Addresses
          BY <3>2 DEF RowTypes
      <3> HIDE DEF level, creator
      <3> QED
          BY <3>1, <3>3, <3>4 DEF RowTypes
    <2> QED
        BY <1>6, <2>1, <2>2 DEF StoreView, ClockTypes, RoomTypes
  <1>7. CASE Throws(q)
    <2>1. RequestTypes'
        BY <1>0, <1>7, EndTypes DEF Throws
    <2> QED
        BY <1>7, <2>1 DEF Throws, ClockTypes, RowTypes, RoomTypes
  <1> QED
      BY <1>1, <1>2, <1>3, <1>4, <1>5, <1>6, <1>7

LEMMA KeepsTypes ==
    ASSUME CacheMax \in Nat \ {0}, MaxTicks \in Nat PROVE Types /\ IInv /\ [Next]_vars => Types'
  <1> SUFFICES ASSUME Types, IInv, [Next]_vars PROVE Types'
      OBVIOUS
  <1>1. CASE UNCHANGED vars
      BY <1>1 DEF vars, Types, ClockTypes, RowTypes, RoomTypes, RequestTypes
  <1>2. CASE Next
      BY <1>2, AroundTypes, RequestStepTypes DEF Next
  <1> QED
      BY <1>1, <1>2

LEMMA WellTyped == ASSUME MaxTicks \in Nat PROVE Types /\ IInv => TypeOK
  <1> SUFFICES ASSUME Types, IInv PROVE TypeOK
      OBVIOUS
  <1>1. deployed \in [Addresses -> -1 .. MaxTicks]
      BY DEF Types, ClockTypes, IInv, DeployedOK
  <1>2. ASSUME NEW i \in DOMAIN cache PROVE cache[i].live.reachable
    <2>1. cache[i] \in Entries
        BY DEF IInv, CacheOK
    <2>2. cache[i].live \in Answers
        BY <2>1 DEF Entries
    <2> QED
        BY <2>2 DEF Answers
  <1> QED
      BY <1>1, <1>2 DEF Types, RowTypes, RoomTypes, RequestTypes, TypeOK

\* The rows, requests and remembered reads keep their types: the cache never
\* outgrows its limit, nor does a stored contract have fields and no row.
THEOREM TypeCorrect ==
    ASSUME Ttl \in Nat, CacheMax \in Nat \ {0}, MaxTicks \in Nat PROVE Spec => []TypeOK
  <1>1. Init => Types /\ IInv
      BY Initially, TypesInitially
  <1>2. Types /\ IInv /\ [Next]_vars => (Types /\ IInv)'
      BY Inductive, KeepsTypes
  <1>3. Types /\ IInv => TypeOK
      BY WellTyped
  <1> QED
      BY <1>1, <1>2, <1>3, PTL DEF Spec
=============================================================================
