----------------------- MODULE RobinhoodIndexerProofs -----------------------
(***************************************************************************)
(* That finding an event before creating it is enough, for any number of    *)
(* lanes, although the two are not one step: two lanes never hold the same  *)
(* token unless the explorer listed it twice.                              *)
(***************************************************************************)
EXTENDS RobinhoodIndexer, TLAPS

Heavy(t) == <<"heavy_insider_control", t>>
Suspicious(t) == <<"suspicious_rug_behavior", t>>

Held(l) == lane[l].pc # "free"

(***************************************************************************)
(* The inductive invariant.                                                *)
(***************************************************************************)

PassOK ==
    /\ {"pc", "items", "page", "next", "creation", "wallet", "txs", "unread"} \subseteq DOMAIN pass
    /\ listing \in Seq(Tokens) /\ pass.items \in Seq(Tokens)
    /\ pass.page \in Nat \ {0} /\ pass.next \in Nat \ {0}

LanesOK ==
    /\ DOMAIN lane = Lanes
    /\ \A l \in Lanes : {"pc", "t", "by"} \subseteq DOMAIN lane[l]

\* Lanes only work while a pass drains.
QuietOK == pass.pc \in {"idle", "list"} => \A l \in Lanes : ~Held(l)

\* A lane holds a token of the list that is behind "next".
HeldOK ==
    \A l \in Lanes : Held(l) =>
        \E i \in 1 .. Len(pass.items) : i < pass.next /\ pass.items[i] = lane[l].t

\* Two lanes hold the same token only if it is in the list twice.
ApartOK ==
    \A l, m \in Lanes :
        l # m /\ Held(l) /\ Held(m) /\ lane[l].t = lane[m].t => lane[l].t \in Repeats(pass.items)

RepeatsOK == Repeats(pass.items) \subseteq repeated

EventsOK == events \in [Signals -> Nat]

\* What a lane did not find is still not there when it creates it.
PendingOK ==
    \A l \in Lanes : lane[l].t \notin repeated =>
        /\ lane[l].pc = "heavy" => events[Heavy(lane[l].t)] = 0
        /\ lane[l].pc = "serial" => events[Suspicious(lane[l].t)] = 0

IInv == PassOK /\ LanesOK /\ QuietOK /\ HeldOK /\ ApartOK /\ RepeatsOK /\ EventsOK
            /\ PendingOK /\ OneEventADay

-----------------------------------------------------------------------------

LEMMA IdlePass ==
    /\ {"pc", "items", "page", "next", "creation", "wallet", "txs", "unread"} \subseteq DOMAIN NoPass
    /\ NoPass.pc = "idle" /\ NoPass.items = <<>> /\ NoPass.page = 1 /\ NoPass.next = 1
  BY DEF NoPass

LEMMA FreeLane == {"pc", "t", "by"} \subseteq DOMAIN NoToken /\ NoToken.pc = "free"
  BY DEF NoToken

LEMMA NothingRepeats == Repeats(<<>>) = {}
  BY DEF Repeats

LEMMA SignalTypes == \A t \in Tokens : Heavy(t) \in Signals /\ Suspicious(t) \in Signals
  BY DEF Heavy, Suspicious, Signals, Classes

\* The two kinds of event are never the same one, nor are those of two tokens.
LEMMA SignalsApart ==
    /\ \A t, u : Heavy(t) # Suspicious(u)
    /\ \A t, u : Heavy(t) = Heavy(u) => t = u
    /\ \A t, u : Suspicious(t) = Suspicious(u) => t = u
    /\ \A t : Heavy(t)[2] = t /\ Suspicious(t)[2] = t
  BY DEF Heavy, Suspicious

LEMMA Initially == Init => IInv
  <1> SUFFICES ASSUME Init PROVE IInv
      OBVIOUS
  <1>1. PassOK
      BY IdlePass DEF Init, PassOK
  <1>2. LanesOK /\ \A l \in Lanes : lane[l].pc = "free"
      BY FreeLane DEF Init, LanesOK
  <1>3. QuietOK /\ HeldOK /\ ApartOK /\ PendingOK
      BY <1>2 DEF QuietOK, HeldOK, ApartOK, PendingOK, Held
  <1>4. RepeatsOK
      BY IdlePass, NothingRepeats DEF Init, RepeatsOK
  <1>5. EventsOK /\ OneEventADay
      BY DEF Init, EventsOK, OneEventADay
  <1> QED
      BY <1>1, <1>2, <1>3, <1>4, <1>5 DEF IInv

\* A step that keeps the list and lets one lane go on with its token, or free it,
\* keeps everything that is about the lanes' tokens.
LEMMA LaneGoesOn ==
    ASSUME IInv, NEW l \in Lanes, NEW r, lane' = [lane EXCEPT ![l] = r],
           {"pc", "t", "by"} \subseteq DOMAIN r,
           Held(l), r.pc # "free" => r.t = lane[l].t,
           UNCHANGED <<listing, repeated>>, PassOK',
           pass'.pc = pass.pc, pass'.items = pass.items, pass'.next = pass.next
    PROVE LanesOK' /\ QuietOK' /\ HeldOK' /\ ApartOK' /\ RepeatsOK'
  <1>1. LanesOK' /\ \A m \in Lanes : lane'[m] = IF m = l THEN r ELSE lane[m]
      BY DEF IInv, LanesOK
  <1>2. \A m \in Lanes : Held(m)' => Held(m) /\ lane'[m].t = lane[m].t
      BY <1>1 DEF Held
  <1>3. QuietOK'
      BY DEF IInv, QuietOK
  <1>4. HeldOK'
      BY <1>2 DEF IInv, HeldOK
  <1>5. ApartOK'
      BY <1>2 DEF IInv, ApartOK
  <1> QED
      BY <1>1, <1>3, <1>4, <1>5 DEF IInv, RepeatsOK

\* A lane's token is one of the chain's.
LEMMA HeldToken == ASSUME IInv, NEW l \in Lanes, Held(l) PROVE lane[l].t \in Tokens
  BY DEF IInv, HeldOK, PassOK

-----------------------------------------------------------------------------
(* The pass.                                                                *)

LEMMA NewTokenKeeps == ASSUME NEW t \in Tokens PROVE IInv /\ NewToken(t) => IInv'
  <1> SUFFICES ASSUME IInv, NewToken(t) PROVE IInv'
      OBVIOUS
  <1>1. <<t>> \o listing \in Seq(Tokens)
      BY DEF IInv, PassOK
  <1>2. PassOK'
      BY <1>1 DEF NewToken, IInv, PassOK
  <1> QED
      BY <1>2 DEF NewToken, IInv, LanesOK, QuietOK, HeldOK, ApartOK, RepeatsOK, EventsOK,
                  PendingOK, OneEventADay, Held

\* With all lanes free, only the list and the events matter.
LEMMA WhileFree ==
    ASSUME IInv, \A l \in Lanes : lane[l].pc = "free", UNCHANGED <<lane, events>>,
           PassOK', RepeatsOK', repeated \subseteq repeated'
    PROVE IInv'
  <1>1. LanesOK' /\ QuietOK' /\ HeldOK' /\ ApartOK' /\ PendingOK'
      BY DEF IInv, LanesOK, QuietOK, HeldOK, ApartOK, PendingOK, Held
  <1>2. EventsOK' /\ OneEventADay'
      BY DEF IInv, EventsOK, OneEventADay
  <1> QED
      BY <1>1, <1>2 DEF IInv

\* A pass that begins has no tokens yet.
LEMMA FreshFields ==
    ASSUME NEW pc
    PROVE /\ DOMAIN [NoPass EXCEPT !.pc = pc] = DOMAIN NoPass
          /\ [NoPass EXCEPT !.pc = pc].items = <<>>
          /\ [NoPass EXCEPT !.pc = pc].page = 1 /\ [NoPass EXCEPT !.pc = pc].next = 1
  BY DEF NoPass

LEMMA FreshPass ==
    ASSUME PassOK, UNCHANGED listing, DOMAIN pass' = DOMAIN NoPass,
           pass'.items = <<>>, pass'.page = 1, pass'.next = 1
    PROVE PassOK'
  BY IdlePass DEF PassOK

LEMMA BeginKeeps == IInv /\ Begin => IInv'
  <1> SUFFICES ASSUME IInv, Begin PROVE IInv'
      OBVIOUS
  <1>1. \A l \in Lanes : lane[l].pc = "free"
      BY DEF Begin, IInv, QuietOK, Held
  <1>2. PassOK' /\ pass'.items = <<>>
    <2>1. pass' = [NoPass EXCEPT !.pc = "list"] /\ UNCHANGED listing
        BY DEF Begin
    <2>2. DOMAIN pass' = DOMAIN NoPass /\ pass'.items = <<>> /\ pass'.page = 1 /\ pass'.next = 1
        BY ONLY <2>1, FreshFields
    <2> QED
        BY <2>1, <2>2, FreshPass DEF IInv
  <1>3. RepeatsOK'
      BY <1>2, NothingRepeats DEF RepeatsOK
  <1> QED
      BY <1>1, <1>2, <1>3, WhileFree DEF Begin

\* A page is part of the listing.
LEMMA PageType ==
    ASSUME PageSize \in Nat, listing \in Seq(Tokens), NEW n \in Nat \ {0}
    PROVE PageOf(n) \in Seq(Tokens)
  <1> DEFINE first == (n - 1) * PageSize + 1
             last  == IF n * PageSize <= Len(listing) THEN n * PageSize ELSE Len(listing)
  <1>1. n - 1 \in Nat /\ (n - 1) * PageSize \in Nat /\ n * PageSize \in Nat
      OBVIOUS
  <1>2. first \in Nat \ {0} /\ last \in Nat /\ last <= Len(listing)
      BY <1>1
  <1>3. PageOf(n) = SubSeq(listing, first, last)
      BY DEF PageOf
  <1> HIDE DEF first, last
  <1> QED
      BY <1>2, <1>3

LEMMA ListPageKeeps == ASSUME PageSize \in Nat PROVE IInv /\ ListPage => IInv'
  <1> SUFFICES ASSUME IInv, ListPage PROVE IInv'
      OBVIOUS
  <1> DEFINE items == pass.items \o PageOf(pass.page)
  <1>1. \A l \in Lanes : lane[l].pc = "free"
      BY DEF ListPage, IInv, QuietOK, Held
  <1>2. items \in Seq(Tokens)
      BY PageType DEF IInv, PassOK
  <1>3. CASE pass' = [NoPass EXCEPT !.pc = "drain"] /\ UNCHANGED repeated
    <2>1. DOMAIN pass' = DOMAIN NoPass /\ pass'.items = <<>> /\ pass'.page = 1 /\ pass'.next = 1
        BY ONLY <1>3, FreshFields
    <2>2. PassOK'
        BY <2>1, FreshPass DEF ListPage, IInv
    <2> QED
        BY <1>1, <1>3, <2>1, <2>2, NothingRepeats, WhileFree DEF ListPage, RepeatsOK
  <1>4. CASE ~(pass' = [NoPass EXCEPT !.pc = "drain"] /\ UNCHANGED repeated)
    <2> HIDE DEF items
    <2>1. PICK pc : /\ pass' = [pass EXCEPT !.items = items, !.page = @ + 1, !.pc = pc]
                    /\ repeated' = repeated \union Repeats(items)
        BY <1>4 DEF ListPage, items
    <2>2. /\ DOMAIN pass' = DOMAIN pass /\ pass'.items = items
          /\ pass'.page = pass.page + 1 /\ pass'.next = pass.next
        BY <2>1 DEF IInv, PassOK
    <2>3. PassOK'
        BY <1>2, <2>2 DEF ListPage, IInv, PassOK
    <2> QED
        BY <1>1, <2>1, <2>2, <2>3, WhileFree DEF ListPage, RepeatsOK
  <1> QED
      BY <1>3, <1>4

LEMMA FinishKeeps == IInv /\ Finish => IInv'
  <1> SUFFICES ASSUME IInv, Finish PROVE IInv'
      OBVIOUS
  <1>1. \A l \in Lanes : lane[l].pc = "free"
      BY FreeLane DEF Finish
  <1>2. PassOK' /\ pass'.items = <<>>
      BY IdlePass DEF Finish, IInv, PassOK
  <1> QED
      BY <1>1, <1>2, NothingRepeats, WhileFree DEF Finish, RepeatsOK

\* Nothing was filed on the new day, and whoever is about to file, may.
LEMMA DayPassesKeeps == IInv /\ DayPasses => IInv'
  <1> SUFFICES ASSUME IInv, DayPasses PROVE IInv'
      OBVIOUS
  <1>1. PassOK' /\ LanesOK' /\ QuietOK' /\ HeldOK' /\ ApartOK' /\ RepeatsOK'
      BY DEF DayPasses, IInv, PassOK, LanesOK, QuietOK, HeldOK, ApartOK, RepeatsOK, Held
  <1>2. EventsOK' /\ \A s \in Signals : events'[s] = 0
      BY DEF DayPasses, EventsOK
  <1>3. OneEventADay'
      BY <1>2 DEF OneEventADay
  <1>4. PendingOK'
    <2> SUFFICES ASSUME NEW l \in Lanes
                 PROVE /\ lane[l].pc = "heavy" => events'[Heavy(lane[l].t)] = 0
                       /\ lane[l].pc = "serial" => events'[Suspicious(lane[l].t)] = 0
        BY DEF DayPasses, PendingOK
    <2>1. Held(l) => lane[l].t \in Tokens
        BY HeldToken
    <2> QED
        BY <1>2, <2>1, SignalTypes DEF Held
  <1> QED
      BY <1>1, <1>2, <1>3, <1>4 DEF IInv

-----------------------------------------------------------------------------
(* The lanes.                                                               *)

\* Whoever takes a token another lane holds finds it in the list a second time.
LEMMA TakeKeeps == ASSUME NEW l \in Lanes PROVE IInv /\ Take(l) => IInv'
  <1> SUFFICES ASSUME IInv, Take(l) PROVE IInv'
      OBVIOUS
  <1> DEFINE n == pass.next
             t == pass.items[n]
             r == [pc |-> "creation", t |-> t, by |-> Unnamed]
  <1>1. /\ lane' = [lane EXCEPT ![l] = r] /\ pass' = [pass EXCEPT !.next = @ + 1]
        /\ n \in 1 .. Len(pass.items) /\ pass.pc = "drain" /\ lane[l].pc = "free"
        /\ UNCHANGED <<listing, events, repeated>>
      BY FreeLane DEF Take, IInv, PassOK
  <1>2. PassOK' /\ pass'.items = pass.items /\ pass'.next = n + 1 /\ pass'.pc = "drain"
      BY <1>1 DEF IInv, PassOK
  <1>3. LanesOK' /\ \A m \in Lanes : lane'[m] = IF m = l THEN r ELSE lane[m]
      BY <1>1 DEF IInv, LanesOK
  <1>4. \A m \in Lanes : m # l /\ Held(m)' => Held(m) /\ lane'[m].t = lane[m].t
      BY <1>3 DEF Held
  <1>5. r.t = t /\ r.pc = "creation"
      OBVIOUS
  <1> HIDE DEF r
  <1>6. HeldOK'
    <2> SUFFICES ASSUME NEW m \in Lanes, Held(m)'
                 PROVE \E i \in 1 .. Len(pass'.items) : i < pass'.next /\ pass'.items[i] = lane'[m].t
        BY DEF HeldOK
    <2>1. CASE m = l
        BY <1>1, <1>2, <1>3, <1>5, <2>1 DEF IInv, PassOK
    <2>2. CASE m # l
      <3>1. PICK i \in 1 .. Len(pass.items) : i < n /\ pass.items[i] = lane[m].t
          BY <1>4, <2>2 DEF IInv, HeldOK
      <3> QED
          BY <1>2, <1>4, <2>2, <3>1 DEF IInv, PassOK
    <2> QED
        BY <2>1, <2>2
  <1>7. \A m \in Lanes : m # l /\ Held(m)' /\ lane'[m].t = t => t \in Repeats(pass.items)
    <2> SUFFICES ASSUME NEW m \in Lanes, m # l, Held(m)', lane'[m].t = t
                 PROVE t \in Repeats(pass.items)
        OBVIOUS
    <2>1. PICK i \in 1 .. Len(pass.items) : i < n /\ pass.items[i] = t
        BY <1>4 DEF IInv, HeldOK
    <2>2. n \in DOMAIN pass.items /\ i \in 1 .. n - 1
        BY <1>1, <2>1 DEF IInv, PassOK
    <2> QED
        BY <2>1, <2>2 DEF Repeats
  <1>8. ApartOK'
    <2> SUFFICES ASSUME NEW a \in Lanes, NEW b \in Lanes, a # b, Held(a)', Held(b)',
                        lane'[a].t = lane'[b].t
                 PROVE lane'[a].t \in Repeats(pass.items)
        BY <1>2 DEF ApartOK
    <2>1. CASE a = l \/ b = l
        BY <1>3, <1>5, <1>7, <2>1
    <2>2. CASE a # l /\ b # l
        BY <1>4, <2>2 DEF IInv, ApartOK
    <2> QED
        BY <2>1, <2>2
  <1>9. QuietOK' /\ RepeatsOK' /\ EventsOK' /\ OneEventADay'
      BY <1>1, <1>2 DEF IInv, QuietOK, RepeatsOK, EventsOK, OneEventADay
  <1>10. PendingOK'
      BY <1>1, <1>3, <1>5 DEF IInv, PendingOK
  <1> QED
      BY <1>2, <1>3, <1>6, <1>8, <1>9, <1>10 DEF IInv

\* A lane that goes on without filing anything: what it claims to have not found
\* is not there.
LEMMA QuietStep ==
    ASSUME IInv, NEW l \in Lanes, Held(l), NEW r, lane' = [lane EXCEPT ![l] = r],
           {"pc", "t", "by"} \subseteq DOMAIN r, r.pc # "free" => r.t = lane[l].t,
           r.pc = "heavy" => events[Heavy(lane[l].t)] = 0,
           r.pc = "serial" => events[Suspicious(lane[l].t)] = 0,
           UNCHANGED <<listing, repeated, events>>, PassOK',
           pass'.pc = pass.pc, pass'.items = pass.items, pass'.next = pass.next
    PROVE IInv'
  <1>1. LanesOK' /\ QuietOK' /\ HeldOK' /\ ApartOK' /\ RepeatsOK'
      BY LaneGoesOn
  <1>2. \A m \in Lanes : lane'[m] = IF m = l THEN r ELSE lane[m]
      BY DEF IInv, LanesOK
  <1>3. PendingOK'
      BY <1>2 DEF IInv, PendingOK
  <1> QED
      BY <1>1, <1>3 DEF IInv, EventsOK, OneEventADay

\* What the steps of a lane do to the pass: nothing but remember answers.
LEMMA Remembers ==
    ASSUME PassOK, UNCHANGED listing,
           DOMAIN pass' = DOMAIN pass, pass'.pc = pass.pc, pass'.items = pass.items,
           pass'.next = pass.next, pass'.page = pass.page
    PROVE PassOK'
  BY DEF PassOK

LEMMA ReadCreationKeeps == ASSUME NEW l \in Lanes PROVE IInv /\ ReadCreation(l) => IInv'
  <1> SUFFICES ASSUME IInv, ReadCreation(l) PROVE IInv'
      OBVIOUS
  <1>1. PICK outcome \in {"ok", "failed"} :
            LET t == lane[l].t
                by == IF outcome = "ok" THEN Creator[t] ELSE Unnamed
            IN  /\ pass' = [pass EXCEPT !.creation[t] = outcome,
                                        !.unread = IF outcome = "failed" THEN @ + 1 ELSE @]
                /\ lane' = [lane EXCEPT ![l].by = by,
                               ![l].pc = IF by = Unnamed THEN "holders" ELSE "wallet"]
      BY DEF ReadCreation
  <1> DEFINE by == IF outcome = "ok" THEN Creator[lane[l].t] ELSE Unnamed
             r == [lane[l] EXCEPT !.by = by, !.pc = IF by = Unnamed THEN "holders" ELSE "wallet"]
  <1>2. lane' = [lane EXCEPT ![l] = r]
      BY <1>1 DEF IInv, LanesOK
  <1>3. /\ {"pc", "t", "by"} \subseteq DOMAIN r /\ r.t = lane[l].t
        /\ r.pc \in {"holders", "wallet"}
      BY DEF IInv, LanesOK
  <1>4. /\ DOMAIN pass' = DOMAIN pass /\ pass'.pc = pass.pc /\ pass'.items = pass.items
        /\ pass'.next = pass.next /\ pass'.page = pass.page
      BY <1>1 DEF IInv, PassOK
  <1>5. PassOK'
      BY <1>4, Remembers DEF ReadCreation, IInv
  <1> HIDE DEF r
  <1> QED
      BY <1>2, <1>3, <1>4, <1>5, QuietStep DEF ReadCreation, Held

LEMMA StoreWalletKeeps == ASSUME NEW l \in Lanes PROVE IInv /\ StoreWallet(l) => IInv'
  <1> SUFFICES ASSUME IInv, StoreWallet(l) PROVE IInv'
      OBVIOUS
  <1>1. PICK outcome \in {"ok", "failed"} :
            /\ pass' = [pass EXCEPT !.wallet[lane[l].by] = outcome]
            /\ lane' = [lane EXCEPT ![l] = IF outcome = "ok" THEN [@ EXCEPT !.pc = "holders"]
                                           ELSE NoToken]
      BY DEF StoreWallet
  <1> DEFINE r == IF outcome = "ok" THEN [lane[l] EXCEPT !.pc = "holders"] ELSE NoToken
  <1>2. lane' = [lane EXCEPT ![l] = r]
      BY <1>1 DEF IInv, LanesOK
  <1>3. /\ {"pc", "t", "by"} \subseteq DOMAIN r /\ (r.pc # "free" => r.t = lane[l].t)
        /\ r.pc \in {"holders", "free"}
      BY FreeLane DEF IInv, LanesOK
  <1>4. /\ DOMAIN pass' = DOMAIN pass /\ pass'.pc = pass.pc /\ pass'.items = pass.items
        /\ pass'.next = pass.next /\ pass'.page = pass.page
      BY <1>1 DEF IInv, PassOK
  <1>5. PassOK'
      BY <1>4, Remembers DEF StoreWallet, IInv
  <1> HIDE DEF r
  <1> QED
      BY <1>2, <1>3, <1>4, <1>5, QuietStep DEF StoreWallet, Held

\* Where a lane goes after the holders of its token.
LEMMA AfterHoldersType ==
    ASSUME LanesOK, NEW l \in Lanes
    PROVE /\ {"pc", "t", "by"} \subseteq DOMAIN AfterHolders(l)
          /\ AfterHolders(l).pc # "free" => AfterHolders(l).t = lane[l].t
          /\ AfterHolders(l).pc \in {"free", "txs"}
  BY FreeLane DEF AfterHolders, LanesOK

LEMMA ReadHoldersKeeps == ASSUME NEW l \in Lanes PROVE IInv /\ ReadHolders(l) => IInv'
  <1> SUFFICES ASSUME IInv, ReadHolders(l) PROVE IInv'
      OBVIOUS
  <1>1. Held(l) /\ UNCHANGED <<listing, pass, events, repeated>> /\ PassOK'
      BY DEF ReadHolders, Held, IInv, PassOK
  <1>2. CASE lane' = [lane EXCEPT ![l] = AfterHolders(l)]
    <2>1. /\ {"pc", "t", "by"} \subseteq DOMAIN AfterHolders(l)
          /\ AfterHolders(l).pc # "free" => AfterHolders(l).t = lane[l].t
          /\ AfterHolders(l).pc \in {"free", "txs"}
        BY AfterHoldersType DEF IInv
    <2> QED
        BY <1>1, <1>2, <2>1, QuietStep
  <1>3. CASE lane' # [lane EXCEPT ![l] = AfterHolders(l)]
    <2> DEFINE r == [lane[l] EXCEPT !.pc = "heavy"]
    <2>1. lane' = [lane EXCEPT ![l] = r] /\ ~FoundToday(Heavy(lane[l].t))
        BY <1>3 DEF ReadHolders, Heavy, IInv, LanesOK
    <2>2. {"pc", "t", "by"} \subseteq DOMAIN r /\ r.t = lane[l].t /\ r.pc = "heavy"
        BY DEF IInv, LanesOK
    <2>3. Heavy(lane[l].t) \in Signals
        BY <1>1, HeldToken, SignalTypes
    <2>4. events[Heavy(lane[l].t)] = 0
        BY <2>1, <2>3 DEF FoundToday, IInv, EventsOK
    <2> HIDE DEF r
    <2> QED
        BY <1>1, <2>1, <2>2, <2>4, QuietStep
  <1> QED
      BY <1>2, <1>3

LEMMA ReadTransactionsKeeps ==
    ASSUME NEW l \in Lanes PROVE IInv /\ ReadTransactions(l) => IInv'
  <1> SUFFICES ASSUME IInv, ReadTransactions(l) PROVE IInv'
      OBVIOUS
  <1>1. PICK outcome \in {"ok", "failed"} :
            /\ pass' = [pass EXCEPT !.txs[lane[l].by] = outcome]
            /\ lane' = [lane EXCEPT ![l] =
                  IF outcome = "ok" /\ lane[l].by \in Serial
                        /\ ~FoundToday(<<"suspicious_rug_behavior", lane[l].t>>)
                  THEN [@ EXCEPT !.pc = "serial"] ELSE NoToken]
      BY DEF ReadTransactions
  <1>2. Held(l) /\ UNCHANGED <<listing, events, repeated>>
      BY DEF ReadTransactions, Held
  <1>3. /\ DOMAIN pass' = DOMAIN pass /\ pass'.pc = pass.pc /\ pass'.items = pass.items
        /\ pass'.next = pass.next /\ pass'.page = pass.page
      BY <1>1 DEF IInv, PassOK
  <1>4. PassOK'
      BY <1>2, <1>3, Remembers DEF IInv
  <1>5. CASE lane' = [lane EXCEPT ![l] = NoToken]
      BY <1>2, <1>3, <1>4, <1>5, FreeLane, QuietStep
  <1>6. CASE lane' # [lane EXCEPT ![l] = NoToken]
    <2> DEFINE r == [lane[l] EXCEPT !.pc = "serial"]
    <2>1. lane' = [lane EXCEPT ![l] = r] /\ ~FoundToday(Suspicious(lane[l].t))
        BY <1>1, <1>6 DEF Suspicious, IInv, LanesOK
    <2>2. {"pc", "t", "by"} \subseteq DOMAIN r /\ r.t = lane[l].t /\ r.pc = "serial"
        BY DEF IInv, LanesOK
    <2>3. Suspicious(lane[l].t) \in Signals
        BY <1>2, HeldToken, SignalTypes
    <2>4. events[Suspicious(lane[l].t)] = 0
        BY <2>1, <2>3 DEF FoundToday, IInv, EventsOK
    <2> HIDE DEF r
    <2> QED
        BY <1>2, <1>3, <1>4, <2>1, <2>2, <2>4, QuietStep
  <1> QED
      BY <1>5, <1>6

-----------------------------------------------------------------------------
(* Filing.                                                                  *)

\* An event filed for a token that is not repeated is its first, and no other
\* lane is about to file the same.
LEMMA FilingKeeps ==
    ASSUME IInv, NEW l \in Lanes, Held(l), NEW s \in Signals, Create(s),
           s = Heavy(lane[l].t) \/ s = Suspicious(lane[l].t),
           lane[l].t \notin repeated => events[s] = 0,
           NEW r, lane' = [lane EXCEPT ![l] = r],
           {"pc", "t", "by"} \subseteq DOMAIN r, r.pc # "free" => r.t = lane[l].t,
           r.pc \in {"free", "txs"}, UNCHANGED <<listing, pass, repeated>>
    PROVE IInv'
  <1>1. PassOK'
      BY DEF IInv, PassOK
  <1>2. LanesOK' /\ QuietOK' /\ HeldOK' /\ ApartOK' /\ RepeatsOK'
      BY <1>1, LaneGoesOn
  <1>3. \A m \in Lanes : lane'[m] = IF m = l THEN r ELSE lane[m]
      BY DEF IInv, LanesOK
  <1>4. events' = events \/ events' = [events EXCEPT ![s] = @ + 1]
      BY DEF Create
  <1>5. EventsOK' /\ events[s] \in Nat /\ events'[s] \in Nat
      BY <1>4 DEF IInv, EventsOK
  <1>6. \A x \in Signals : x # s => events'[x] = events[x]
      BY <1>4 DEF IInv, EventsOK
  <1>7. events'[s] <= events[s] + 1
      BY <1>4, <1>5 DEF IInv, EventsOK
  <1>8. OneEventADay'
    <2> SUFFICES ASSUME NEW x \in Signals, events'[x] > 1 PROVE x[2] \in repeated
        BY DEF OneEventADay
    <2>1. CASE x # s
        BY <1>6, <2>1 DEF IInv, OneEventADay
    <2>2. CASE x = s
      <3>1. s[2] = lane[l].t
          BY SignalsApart
      <3> QED
          BY <1>5, <1>7, <2>2, <3>1
    <2> QED
        BY <2>1, <2>2
  <1>9. PendingOK'
    <2> SUFFICES ASSUME NEW m \in Lanes, lane'[m].t \notin repeated
                 PROVE /\ lane'[m].pc = "heavy" => events'[Heavy(lane'[m].t)] = 0
                       /\ lane'[m].pc = "serial" => events'[Suspicious(lane'[m].t)] = 0
        BY DEF PendingOK
    <2>1. CASE m = l
        BY <1>3, <2>1
    <2>2. CASE m # l /\ Held(m)
      <3>1. lane'[m] = lane[m] /\ lane[m].t # lane[l].t
          BY <1>3, <2>2 DEF IInv, ApartOK, RepeatsOK
      <3>2. lane[m].t \in Tokens
          BY <2>2, HeldToken
      <3>3. Heavy(lane[m].t) # s /\ Suspicious(lane[m].t) # s
          BY <3>1, SignalsApart
      <3>4. /\ events'[Heavy(lane[m].t)] = events[Heavy(lane[m].t)]
            /\ events'[Suspicious(lane[m].t)] = events[Suspicious(lane[m].t)]
          BY <1>6, <3>2, <3>3, SignalTypes
      <3> QED
          BY <3>1, <3>4 DEF IInv, PendingOK
    <2>3. CASE m # l /\ ~Held(m)
        BY <1>3, <2>3 DEF Held
    <2> QED
        BY <2>1, <2>2, <2>3
  <1> QED
      BY <1>1, <1>2, <1>5, <1>8, <1>9 DEF IInv

LEMMA CreatesKeep ==
    ASSUME NEW l \in Lanes PROVE IInv /\ (CreateHeavy(l) \/ CreateSerial(l)) => IInv'
  <1>1. ASSUME IInv, CreateHeavy(l) PROVE IInv'
    <2>1. Held(l) /\ Create(Heavy(lane[l].t)) /\ lane' = [lane EXCEPT ![l] = AfterHolders(l)]
        BY <1>1 DEF CreateHeavy, Held, Heavy
    <2>2. Heavy(lane[l].t) \in Signals
        BY <1>1, <2>1, HeldToken, SignalTypes
    <2>3. lane[l].t \notin repeated => events[Heavy(lane[l].t)] = 0
        BY <1>1 DEF CreateHeavy, IInv, PendingOK
    <2>4. /\ {"pc", "t", "by"} \subseteq DOMAIN AfterHolders(l)
          /\ AfterHolders(l).pc # "free" => AfterHolders(l).t = lane[l].t
          /\ AfterHolders(l).pc \in {"free", "txs"}
        BY <1>1, AfterHoldersType DEF IInv
    <2>5. UNCHANGED <<listing, pass, repeated>>
        BY <1>1 DEF CreateHeavy
    <2> QED
        BY <1>1, <2>1, <2>2, <2>3, <2>4, <2>5, FilingKeeps
  <1>2. ASSUME IInv, CreateSerial(l) PROVE IInv'
    <2>1. Held(l) /\ Create(Suspicious(lane[l].t)) /\ lane' = [lane EXCEPT ![l] = NoToken]
        BY <1>2 DEF CreateSerial, Held, Suspicious
    <2>2. Suspicious(lane[l].t) \in Signals
        BY <1>2, <2>1, HeldToken, SignalTypes
    <2>3. lane[l].t \notin repeated => events[Suspicious(lane[l].t)] = 0
        BY <1>2 DEF CreateSerial, IInv, PendingOK
    <2>4. UNCHANGED <<listing, pass, repeated>>
        BY <1>2 DEF CreateSerial
    <2> QED
        BY <1>2, <2>1, <2>2, <2>3, <2>4, FreeLane, FilingKeeps
  <1> QED
      BY <1>1, <1>2

LEMMA Inductive == ASSUME PageSize \in Nat PROVE IInv /\ [Next]_vars => IInv'
  <1> SUFFICES ASSUME IInv, [Next]_vars PROVE IInv'
      OBVIOUS
  <1>1. CASE \E t \in Tokens : NewToken(t)
      BY <1>1, NewTokenKeeps
  <1>2. CASE Begin \/ ListPage \/ Finish \/ DayPasses
      BY <1>2, BeginKeeps, ListPageKeeps, FinishKeeps, DayPassesKeeps
  <1>3. CASE \E l \in Lanes : Step(l)
      BY <1>3, TakeKeeps, ReadCreationKeeps, StoreWalletKeeps, ReadHoldersKeeps,
         ReadTransactionsKeeps, CreatesKeep DEF Step
  <1>4. CASE UNCHANGED vars
      BY <1>4 DEF vars, IInv, PassOK, LanesOK, QuietOK, HeldOK, ApartOK, RepeatsOK, EventsOK,
                  PendingOK, OneEventADay, Held
  <1> QED
      BY <1>1, <1>2, <1>3, <1>4 DEF Next

\* For any listing, lanes and failures: within a day a signal is filed a second
\* time only for a token some pass listed twice (findFirst and create in
\* indexToken, and the shared queue of drain).
THEOREM FiledOnce == ASSUME PageSize \in Nat PROVE Spec => []OneEventADay
  <1>1. IInv => OneEventADay
      BY DEF IInv
  <1> QED
      BY <1>1, Initially, Inductive, PTL DEF Spec

-----------------------------------------------------------------------------
(* Types.                                                                   *)

PassTypes ==
    /\ pass.pc \in {"idle", "list", "drain"} /\ pass.next <= Len(pass.items) + 1
    /\ pass.unread \in Nat /\ unreadCreators \in Nat

LaneTypes == \A l \in Lanes : lane[l].t \in Tokens \union {Unnamed}

\* A wallet is stored for a creator the explorer named.
WalletTypes ==
    /\ wallets \in SUBSET Creators
    /\ \A l \in Lanes : lane[l].pc = "wallet" => lane[l].by \in Creators

Types == PassTypes /\ LaneTypes /\ WalletTypes

LEMMA TypesInitially == Init => Types
  BY DEF Init, Types, PassTypes, LaneTypes, WalletTypes, NoPass, NoToken, Unnamed

\* The steps of the pass as a whole.
LEMMA PassKeepsTypes ==
    ASSUME PageSize \in Nat
    PROVE  Types /\ IInv /\ IInv' /\ (Begin \/ ListPage \/ Finish \/ DayPasses) => Types'
  <1> SUFFICES ASSUME Types, IInv, IInv', Begin \/ ListPage \/ Finish \/ DayPasses PROVE Types'
      OBVIOUS
  <1>1. UNCHANGED <<lane, wallets>>
      BY DEF Begin, ListPage, Finish, DayPasses
  <1>2. LaneTypes' /\ WalletTypes'
      BY <1>1 DEF Types, LaneTypes, WalletTypes
  <1>0. NoPass.next <= Len(NoPass.items) + 1 /\ NoPass.unread \in Nat
      BY DEF NoPass
  <1>3. CASE Begin
    <2>1. /\ pass'.pc = "list" /\ pass'.next = NoPass.next /\ pass'.items = NoPass.items
          /\ pass'.unread = NoPass.unread
        BY <1>3, IdlePass DEF Begin
    <2>2. UNCHANGED unreadCreators
        BY <1>3 DEF Begin
    <2> QED
        BY <1>0, <1>2, <2>1, <2>2 DEF Types, PassTypes
  <1>4. CASE ListPage
    <2>1. CASE \E pc \in {"list", "drain"} :
                  pass' = [pass EXCEPT !.items = pass.items \o PageOf(pass.page), !.page = @ + 1,
                                       !.pc = pc]
      <3>1. pass'.items = pass.items \o PageOf(pass.page)
          BY <2>1 DEF IInv, PassOK
      <3>7. pass'.next = pass.next /\ pass'.unread = pass.unread /\ pass'.pc \in {"list", "drain"}
          BY <2>1 DEF IInv, PassOK
      <3>2. PageOf(pass.page) \in Seq(Tokens)
          BY <1>4, PageType DEF IInv, PassOK
      <3>3. Len(pass.items) <= Len(pass'.items)
          BY <3>1, <3>2 DEF IInv, PassOK
      <3>4. pass.next \in Nat /\ Len(pass.items) \in Nat /\ Len(pass'.items) \in Nat
          BY DEF IInv, PassOK
      <3>5. UNCHANGED unreadCreators
          BY <1>4 DEF ListPage
      <3>6. PassTypes'
          BY <3>3, <3>4, <3>5, <3>7 DEF Types, PassTypes
      <3> QED
          BY <1>2, <3>6 DEF Types
    <2>2. CASE pass' = [NoPass EXCEPT !.pc = "drain"]
      <3>1. /\ pass'.pc = "drain" /\ pass'.next = NoPass.next /\ pass'.items = NoPass.items
            /\ pass'.unread = NoPass.unread
          BY <2>2, IdlePass
      <3> QED
          BY <1>0, <1>2, <1>4, <3>1 DEF ListPage, Types, PassTypes
    <2> QED
        BY <1>4, <2>1, <2>2 DEF ListPage
  <1>5. CASE Finish
      BY <1>0, <1>2, <1>5, IdlePass DEF Finish, Types, PassTypes
  <1>6. CASE DayPasses
      BY <1>2, <1>6 DEF DayPasses, Types, PassTypes
  <1> QED
      BY <1>3, <1>4, <1>5, <1>6

\* A lane's step: it keeps its token or is freed, and asks for a wallet of a
\* creator that has a name.
LEMMA LaneKeepsTypes ==
    ASSUME NEW l \in Lanes PROVE Types /\ IInv /\ Step(l) => Types'
  <1> SUFFICES ASSUME Types, IInv, Step(l) PROVE Types'
      OBVIOUS
  <1> USE DEF Types
  <1>1. DOMAIN lane = Lanes /\ {"pc", "t", "by"} \subseteq DOMAIN lane[l]
      BY DEF IInv, LanesOK
  <1>2. {"pc", "items", "next", "unread", "creation", "wallet", "txs"} \subseteq DOMAIN pass
      BY DEF IInv, PassOK
  <1>3. NoToken.t = Unnamed /\ NoToken.pc # "wallet"
      BY DEF NoToken
  <1>4. CASE Take(l)
    <2>1. pass.items[pass.next] \in Tokens /\ pass.next \in Nat /\ Len(pass.items) \in Nat
        BY <1>4 DEF Take, IInv, PassOK
    <2>2. LaneTypes' /\ WalletTypes'
        BY <1>1, <1>4, <2>1 DEF Take, LaneTypes, WalletTypes
    <2>3. PassTypes'
      <3>1. pass'.next = pass.next + 1 /\ pass'.items = pass.items /\ pass'.pc = pass.pc
            /\ pass'.unread = pass.unread /\ pass.next <= Len(pass.items)
          BY <1>2, <1>4 DEF Take
      <3> QED
          BY <1>4, <2>1, <3>1 DEF Take, PassTypes
    <2> QED
        BY <2>2, <2>3
  <1>5. CASE ReadCreation(l)
    <2>1. lane[l].t \in Tokens
        BY <1>5, HeldToken DEF ReadCreation, Held
    <2>2. PICK outcome \in {"ok", "failed"} :
            /\ pass' = [pass EXCEPT !.creation[lane[l].t] = outcome,
                                    !.unread = IF outcome = "failed" THEN @ + 1 ELSE @]
            /\ LET by == IF outcome = "ok" THEN Creator[lane[l].t] ELSE Unnamed
               IN  lane' = [lane EXCEPT ![l].by = by,
                              ![l].pc = IF by = Unnamed THEN "holders" ELSE "wallet"]
        BY <1>5 DEF ReadCreation
    <2> DEFINE by == IF outcome = "ok" THEN Creator[lane[l].t] ELSE Unnamed
    <2>3. /\ lane'[l].by = by /\ lane'[l].t = lane[l].t
          /\ lane'[l].pc = IF by = Unnamed THEN "holders" ELSE "wallet"
          /\ \A m \in Lanes \ {l} : lane'[m] = lane[m]
        BY <1>1, <2>2
    <2>4. by # Unnamed => by \in Creators
        BY <2>1 DEF Creators
    <2> HIDE DEF by
    <2>5. LaneTypes' /\ WalletTypes'
        BY <1>5, <2>3, <2>4 DEF ReadCreation, LaneTypes, WalletTypes
    <2>6. PassTypes'
        BY <1>2, <1>5, <2>2 DEF ReadCreation, PassTypes
    <2> QED
        BY <2>5, <2>6
  <1>6. CASE StoreWallet(l)
    <2>1. lane[l].by \in Creators
        BY <1>6 DEF StoreWallet, WalletTypes
    <2>2. LaneTypes' /\ WalletTypes'
        BY <1>1, <1>3, <1>6, <2>1 DEF StoreWallet, LaneTypes, WalletTypes
    <2>3. PassTypes'
        BY <1>2, <1>6 DEF StoreWallet, PassTypes
    <2> QED
        BY <2>2, <2>3
  <1>7. CASE ReadHolders(l)
    <2>1. /\ AfterHolders(l).t \in Tokens \union {Unnamed} /\ AfterHolders(l).pc # "wallet"
        BY <1>1, <1>3 DEF AfterHolders, LaneTypes
    <2> QED
        BY <1>1, <1>7, <2>1 DEF ReadHolders, LaneTypes, WalletTypes, PassTypes
  <1>8. CASE CreateHeavy(l)
    <2>1. /\ AfterHolders(l).t \in Tokens \union {Unnamed} /\ AfterHolders(l).pc # "wallet"
        BY <1>1, <1>3 DEF AfterHolders, LaneTypes
    <2> QED
        BY <1>1, <1>8, <2>1 DEF CreateHeavy, LaneTypes, WalletTypes, PassTypes
  <1>9. CASE ReadTransactions(l)
    <2>1. LaneTypes' /\ WalletTypes'
        BY <1>1, <1>3, <1>9 DEF ReadTransactions, LaneTypes, WalletTypes
    <2>2. PassTypes'
        BY <1>2, <1>9 DEF ReadTransactions, PassTypes
    <2> QED
        BY <2>1, <2>2
  <1>10. CASE CreateSerial(l)
      BY <1>1, <1>3, <1>10 DEF CreateSerial, LaneTypes, WalletTypes, PassTypes
  <1> QED
      BY <1>4, <1>5, <1>6, <1>7, <1>8, <1>9, <1>10 DEF Step

LEMMA KeepsTypes ==
    ASSUME PageSize \in Nat PROVE Types /\ IInv /\ IInv' /\ [Next]_vars => Types'
  <1> SUFFICES ASSUME Types, IInv, IInv', [Next]_vars PROVE Types'
      OBVIOUS
  <1>1. CASE \E t \in Tokens : NewToken(t)
      BY <1>1 DEF NewToken, Types, PassTypes, LaneTypes, WalletTypes
  <1>2. CASE UNCHANGED vars
      BY <1>2 DEF vars, Types, PassTypes, LaneTypes, WalletTypes
  <1> QED
      BY <1>1, <1>2, PassKeepsTypes, LaneKeepsTypes DEF Next

LEMMA WellTyped == Types /\ IInv => TypeOK
  BY DEF Types, PassTypes, LaneTypes, WalletTypes, IInv, PassOK, EventsOK, TypeOK

\* The locals of a pass and of its lanes, and what they store, keep their types:
\* no lane reads behind the end of the list.
THEOREM TypeCorrect == ASSUME PageSize \in Nat PROVE Spec => []TypeOK
  BY Initially, Inductive, TypesInitially, KeepsTypes, WellTyped, PTL DEF Spec
=============================================================================
