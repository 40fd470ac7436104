---------------------------- MODULE AlertEngine -----------------------------
(***************************************************************************)
(* runAlertEngine (apps/worker/src/alerts.ts) over the watchlist that users *)
(* edit (apps/api/src/routes/watch.ts), the risk events reviewers decide    *)
(* and the tokens that analyses rewrite.  A tick reads the recent confirmed *)
(* events once, then walks the watchlist a page at a time; each alert is    *)
(* kept under a key that later ticks find again.                            *)
(***************************************************************************)
EXTENDS Integers, FiniteSets, FiniteSetsExt

CONSTANTS
    Ids,            \* ids of watchlist rows, in the order they are paged
    Item,           \* [user, kind, address] of the row with each id
    Events,         \* risk events, numbered as they are created
    Names,          \* the wallets each of them names
    Grave,          \* those of class confirmed_malicious
    Weak,           \* those of low confidence
    Signals,        \* what an analysis may leave on a token: sets of signals
    WatchPage,      \* WATCH_PAGE (500)
    Take,           \* recent events of a tick (50)
    MaxFaults       \* bound: emits that fail, ticks that throw, deletions

VARIABLES
    watches,        \* ids of the rows of the watchlist
    status,         \* manualStatus of each event
    recent,         \* events created in the last six hours
    token,          \* per watched token, the signals of its last analysis
    alerts,         \* the alerts, by dedupeKey, with their severity
    tick,           \* locals of the running tick
    faults

vars == <<watches, status, recent, token, alerts, tick, faults>>

None == 0
TokenSignals == {"high_risk", "critical_risk", "cannot_sell", "linked_creator"}
WatchedTokens == {Item[i].address : i \in {j \in Ids : Item[j].kind = "token"}}
Idle == [running |-> FALSE, events |-> {}, after |-> None]

Init ==
    /\ watches = {} /\ status = [e \in Events |-> "pending"] /\ recent = Events
    /\ token = [t \in WatchedTokens |-> {}]
    /\ alerts = {} /\ tick = Idle /\ faults = 0

Fails == faults < MaxFaults /\ faults' = faults + 1

-----------------------------------------------------------------------------
(* Users, reviewers, analyses and the clock.                                *)

AddWatch(i) ==
    /\ i \notin watches /\ watches' = watches \union {i}
    /\ UNCHANGED <<status, recent, token, alerts, tick, faults>>

DropWatch(i) ==
    /\ i \in watches /\ Fails
    /\ watches' = watches \ {i}
    /\ UNCHANGED <<status, recent, token, alerts, tick>>

Review(e, s) ==
    /\ status[e] # s /\ status' = [status EXCEPT ![e] = s]
    /\ UNCHANGED <<watches, recent, token, alerts, tick, faults>>

\* Six hours since the event was created; the oldest go first.
Age(e) ==
    /\ e \in recent /\ \A f \in recent : e <= f
    /\ recent' = recent \ {e}
    /\ UNCHANGED <<watches, status, token, alerts, tick, faults>>

Reanalyse(t, s) ==
    /\ token[t] # s /\ token' = [token EXCEPT ![t] = s]
    /\ UNCHANGED <<watches, status, recent, alerts, tick, faults>>

-----------------------------------------------------------------------------
(* A tick.                                                                  *)

Confirmed == {e \in recent : status[e] = "confirmed"}
Newest(s, n) == {e \in s : Cardinality({f \in s : f > e}) < n}

ReadEvents ==
    /\ ~tick.running
    /\ tick' = [running |-> TRUE, events |-> Newest(Confirmed, Take), after |-> None]
    /\ UNCHANGED <<watches, status, recent, token, alerts, faults>>

\* Mutant: the first page is the whole watchlist.
FirstPage(after) == IF after = None THEN {i \in watches : Cardinality({j \in watches : j < i}) < WatchPage}
                    ELSE {}

\* The rows behind the cursor row; a cursor row that was deleted leaves no
\* place to continue from.
PageAfter(after) ==
    LET rest == IF after = None THEN watches
                ELSE IF after \in watches THEN {i \in watches : i > after} ELSE {}
    IN  {i \in rest : Cardinality({j \in rest : j < i}) < WatchPage}

Alert(key, severity) == [key |-> key, severity |-> severity]

\* The key of a risk alert names its level; that of a failed sale and of a
\* linked creator only the state.
TokenAlerts(i) ==
    {Alert(<<Item[i].user, Item[i].address, s>>,
           IF s \in {"critical_risk", "cannot_sell"} THEN "critical" ELSE "high")
        : s \in token[Item[i].address]}

\* The key of an event names the user, not the wallet.
WalletAlerts(i, events) ==
    {Alert(<<Item[i].user, e>>,
           IF e \in Weak THEN "medium" ELSE IF e \in Grave THEN "critical" ELSE "high")
        : e \in {f \in events : Item[i].address \in Names[f]}}

DueFor(i, events) == IF Item[i].kind = "token" THEN TokenAlerts(i) ELSE WalletAlerts(i, events)

\* upsert with an empty update: an alert that is there stays as it is.
Emit(due) == alerts \union {a \in due : \A b \in alerts : b.key # a.key}

\* processWatches over one page.  An emit that fails is reported and left for
\* the next tick.  A short page is the last.
Page ==
    /\ tick.running
    /\ LET page == PageAfter(tick.after)
           due  == UNION {DueFor(i, tick.events) : i \in page}
       IN  /\ \/ alerts' = Emit(due) /\ faults' = faults
              \/ Fails /\ \E lost \in SUBSET due : lost # {} /\ alerts' = Emit(due \ lost)
           /\ tick' = IF Cardinality(page) < WatchPage THEN Idle
                      ELSE [tick EXCEPT !.after = Max(page)]
    /\ UNCHANGED <<watches, status, recent, token>>

\* A read throws, or the worker dies.
Abort ==
    /\ tick.running /\ Fails
    /\ tick' = Idle
    /\ UNCHANGED <<watches, status, recent, token, alerts>>

Next ==
    \/ \E i \in Ids : AddWatch(i) \/ DropWatch(i)
    \/ \E e \in Events : Age(e) \/ \E s \in {"confirmed", "rejected"} : Review(e, s)
    \/ \E t \in WatchedTokens, s \in Signals : Reanalyse(t, s)
    \/ ReadEvents \/ Page \/ Abort

Spec == Init /\ [][Next]_vars

\* Twenty seconds after a tick the next one runs.
FairSpec == Spec /\ WF_vars(ReadEvents) /\ WF_vars(Page)
-----------------------------------------------------------------------------
(* Properties.                                                              *)

\* Every variable has its type.
TypeOK ==
    /\ watches \in SUBSET Ids /\ recent \in SUBSET Events
    /\ status \in [Events -> {"pending", "confirmed", "rejected"}]
    /\ token \in [WatchedTokens -> SUBSET TokenSignals]
    /\ \A a \in alerts : a.severity \in {"medium", "high", "critical"}
    /\ tick.running \in BOOLEAN /\ tick.events \in SUBSET Events
    /\ tick.after \in Ids \union {None}

Told(key) == \E a \in alerts : a.key = key

\* "A bare take() with no ordering silently stopped alerting for every user past
\* the first page": whoever goes on watching a wallet that a recent, confirmed
\* event names, or a token that keeps a signal, is alerted in the end, however
\* many others watch, come and go.
WatchersHear ==
    \A i \in Ids :
        IF Item[i].kind = "token"
        THEN \A s \in TokenSignals :
                <>[](i \in watches /\ s \in token[Item[i].address])
                    => <>Told(<<Item[i].user, Item[i].address, s>>)
        ELSE \A e \in {f \in Events : Item[i].address \in Names[f]} :
                <>[](i \in watches /\ e \in Newest(Confirmed, Take))
                    => <>Told(<<Item[i].user, e>>)
=============================================================================
