-------------------------- MODULE RobinhoodIndexer --------------------------
(***************************************************************************)
(* runRobinhoodIndexer (apps/worker/src/robinhoodIndexer.ts): a pass lists  *)
(* the tokens of the explorer, and a few lanes index them together, sharing *)
(* the reads about a creator.  What a lane sees becomes a pending risk      *)
(* event, unless one of the same day is found first.                       *)
(***************************************************************************)
EXTENDS Integers, FiniteSets, Sequences, SequencesExt

CONSTANTS
    Tokens,
    Creator,        \* the deployer of each, 0 where the explorer names none
    Concentrated,   \* tokens whose five largest holders have 90 % or more
    Serial,         \* creators with five or more creations on their page
    Lanes,          \* ROBINHOOD_INDEXER_CONCURRENCY
    PageSize,       \* tokens of an explorer page
    MaxPages,       \* ROBINHOOD_INDEXER_MAX_PAGES
    MaxFaults       \* bound: calls that fail

VARIABLES
    listing,        \* the explorer's tokens, newest first
    pass,           \* locals of the running pass: items, next, and what is memoised
    lane,           \* per lane, its token and how far it is
    events,         \* per class and token, its events of the last 24 hours
    wallets,        \* creators with a Wallet row
    unreadCreators, \* of the last pass, in rh_indexer
    repeated,       \* history: tokens a pass of these 24 hours listed twice
    faults

vars == <<listing, pass, lane, events, wallets, unreadCreators, repeated, faults>>

Unnamed == 0
Creators == {Creator[t] : t \in Tokens} \ {Unnamed}
Classes == {"heavy_insider_control", "suspicious_rug_behavior"}
Signals == Classes \X Tokens

NoPass == [pc |-> "idle", items |-> <<>>, page |-> 1, next |-> 1,
           creation |-> [t \in Tokens |-> "unasked"],
           wallet |-> [c \in Creators |-> "unasked"],
           txs |-> [c \in Creators |-> "unasked"], unread |-> 0]

NoToken == [pc |-> "free", t |-> Unnamed, by |-> Unnamed]

Init ==
    /\ listing = <<>> /\ pass = NoPass
    /\ lane = [l \in Lanes |-> NoToken]
    /\ events = [s \in Signals |-> 0] /\ wallets = {} /\ unreadCreators = 0
    /\ repeated = {} /\ faults = 0

Fails == faults < MaxFaults /\ faults' = faults + 1
Works == faults' = faults

-----------------------------------------------------------------------------
(* The listing, and the pass over it.                                       *)

\* A token is created: the pages shift.
NewToken(t) ==
    /\ t \notin Range(listing)
    /\ listing' = <<t>> \o listing
    /\ UNCHANGED <<pass, lane, events, wallets, unreadCreators, repeated, faults>>

Begin ==
    /\ pass.pc = "idle"
    /\ pass' = [NoPass EXCEPT !.pc = "list"]
    /\ UNCHANGED <<listing, lane, events, wallets, unreadCreators, repeated, faults>>

PageOf(n) ==
    SubSeq(listing, (n - 1) * PageSize + 1,
           IF n * PageSize <= Len(listing) THEN n * PageSize ELSE Len(listing))

\* The tokens that are in a list more than once.
Repeats(items) ==
    {items[i] : i \in {j \in DOMAIN items : \E k \in 1 .. j - 1 : items[k] = items[j]}}

\* A page that cannot be read ends the pass with nothing indexed.
ListPage ==
    /\ pass.pc = "list"
    /\ LET items == pass.items \o PageOf(pass.page)
           more  == pass.page * PageSize < Len(listing) /\ pass.page < MaxPages
       IN  \/ /\ Works
              /\ pass' = [pass EXCEPT !.items = items, !.page = @ + 1,
                            !.pc = IF more THEN "list" ELSE "drain"]
              /\ repeated' = repeated \union Repeats(items)
           \/ Fails /\ pass' = [NoPass EXCEPT !.pc = "drain"] /\ UNCHANGED repeated
    /\ UNCHANGED <<listing, lane, events, wallets, unreadCreators>>

\* The cursor row takes the count of creators that were not read.
Finish ==
    /\ pass.pc = "drain" /\ pass.next > Len(pass.items)
    /\ \A l \in Lanes : lane[l] = NoToken
    /\ pass' = NoPass
    /\ unreadCreators' = pass.unread
    /\ UNCHANGED <<listing, lane, events, wallets, repeated, faults>>

\* 24 hours go by.
DayPasses ==
    /\ \E s \in Signals : events[s] > 0
    /\ events' = [s \in Signals |-> 0] /\ repeated' = Repeats(pass.items)
    /\ UNCHANGED <<listing, pass, lane, wallets, unreadCreators, faults>>

-----------------------------------------------------------------------------
(* One token in one lane.                                                   *)

Take(l) ==
    /\ pass.pc = "drain" /\ lane[l] = NoToken /\ pass.next <= Len(pass.items)
    /\ lane' = [lane EXCEPT ![l] = [pc |-> "creation", t |-> pass.items[pass.next], by |-> Unnamed]]
    /\ pass' = [pass EXCEPT !.next = @ + 1]
    /\ UNCHANGED <<listing, events, wallets, unreadCreators, repeated, faults>>

\* A memoised call is made once a pass; whoever asks again gets its answer, an
\* error too.
Answer(asked, outcome) ==
    IF asked # "unasked" THEN outcome = asked /\ Works
    ELSE (outcome = "ok" /\ Works) \/ (outcome = "failed" /\ Fails)

\* A creation that cannot be read is counted, and the token goes on without its
\* creator.
ReadCreation(l) ==
    /\ lane[l].pc = "creation"
    /\ \E outcome \in {"ok", "failed"} :
          LET t == lane[l].t
          IN  /\ Answer(pass.creation[t], outcome)
              /\ pass' = [pass EXCEPT !.creation[t] = outcome,
                                      !.unread = IF outcome = "failed" THEN @ + 1 ELSE @]
              /\ LET by == IF outcome = "ok" THEN Creator[t] ELSE Unnamed
                 IN  lane' = [lane EXCEPT ![l].by = by,
                                ![l].pc = IF by = Unnamed THEN "holders" ELSE "wallet"]
    /\ UNCHANGED <<listing, events, wallets, unreadCreators, repeated>>

\* A wallet row that cannot be written ends the token, and every other token of
\* the creator in this pass.
StoreWallet(l) ==
    /\ lane[l].pc = "wallet"
    /\ \E outcome \in {"ok", "failed"} :
          LET c == lane[l].by
          IN  /\ Answer(pass.wallet[c], outcome)
              /\ pass' = [pass EXCEPT !.wallet[c] = outcome]
              /\ wallets' = IF outcome = "ok" THEN wallets \union {c} ELSE wallets
              /\ lane' = [lane EXCEPT ![l] = IF outcome = "ok" THEN [@ EXCEPT !.pc = "holders"]
                                             ELSE NoToken]
    /\ UNCHANGED <<listing, events, unreadCreators, repeated>>

\* Mutant: the title carries the figure, so an event of the day is not found.
NeverFound(s) == FALSE

\* findFirst over the last 24 hours.
FoundToday(s) == events[s] > 0

AfterHolders(l) == IF lane[l].by = Unnamed THEN NoToken ELSE [lane[l] EXCEPT !.pc = "txs"]

\* The holders, then findFirst; an error is swallowed.
ReadHolders(l) ==
    /\ lane[l].pc = "holders"
    /\ LET t == lane[l].t
       IN  \/ /\ Works
              /\ lane' = [lane EXCEPT ![l] =
                    IF t \in Concentrated /\ ~FoundToday(<<"heavy_insider_control", t>>)
                    THEN [@ EXCEPT !.pc = "heavy"] ELSE AfterHolders(l)]
           \/ Fails /\ lane' = [lane EXCEPT ![l] = AfterHolders(l)]
    /\ UNCHANGED <<listing, pass, events, wallets, unreadCreators, repeated>>

Create(s) ==
    \/ Works /\ events' = [events EXCEPT ![s] = @ + 1]
    \/ Fails /\ UNCHANGED events

CreateHeavy(l) ==
    /\ lane[l].pc = "heavy"
    /\ Create(<<"heavy_insider_control", lane[l].t>>)
    /\ lane' = [lane EXCEPT ![l] = AfterHolders(l)]
    /\ UNCHANGED <<listing, pass, wallets, unreadCreators, repeated>>

\* The creator's transactions, then findFirst.
ReadTransactions(l) ==
    /\ lane[l].pc = "txs"
    /\ \E outcome \in {"ok", "failed"} :
          LET c == lane[l].by
          IN  /\ Answer(pass.txs[c], outcome)
              /\ pass' = [pass EXCEPT !.txs[c] = outcome]
              /\ lane' = [lane EXCEPT ![l] =
                    IF outcome = "ok" /\ c \in Serial
                          /\ ~FoundToday(<<"suspicious_rug_behavior", lane[l].t>>)
                    THEN [@ EXCEPT !.pc = "serial"] ELSE NoToken]
    /\ UNCHANGED <<listing, events, wallets, unreadCreators, repeated>>

CreateSerial(l) ==
    /\ lane[l].pc = "serial"
    /\ Create(<<"suspicious_rug_behavior", lane[l].t>>)
    /\ lane' = [lane EXCEPT ![l] = NoToken]
    /\ UNCHANGED <<listing, pass, wallets, unreadCreators, repeated>>

Step(l) ==
    \/ Take(l) \/ ReadCreation(l) \/ StoreWallet(l) \/ ReadHolders(l) \/ CreateHeavy(l)
    \/ ReadTransactions(l) \/ CreateSerial(l)

Next ==
    \/ \E t \in Tokens : NewToken(t)
    \/ Begin \/ ListPage \/ Finish \/ DayPasses
    \/ \E l \in Lanes : Step(l)

Spec == Init /\ [][Next]_vars
-----------------------------------------------------------------------------
(* Properties.                                                              *)

\* Every variable has its type.
TypeOK ==
    /\ pass.pc \in {"idle", "list", "drain"} /\ pass.items \in Seq(Tokens)
    /\ pass.next \in 1 .. Len(pass.items) + 1
    /\ \A l \in Lanes : lane[l].t \in Tokens \union {Unnamed}
    /\ events \in [Signals -> Nat] /\ wallets \in SUBSET Creators
    /\ unreadCreators \in Nat

\* The events of a day are found before another is created: the lanes of a pass
\* file one signal twice only for a token the shifting pages listed twice.
OneEventADay == \A s \in Signals : events[s] > 1 => s[2] \in repeated
=============================================================================
