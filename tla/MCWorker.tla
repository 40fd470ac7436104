------------------------------ MODULE MCWorker ------------------------------
(***************************************************************************)
(* A small instance of each part of the worker.                            *)
(***************************************************************************)
EXTENDS Worker, MCTokenAnalysis

\* Two tokens of one block and one of the next; the explorer lists two of them,
\* on two pages, and the other one is paired later.
MCCreatedAt == <<2, 2, 3>>
MCPairedAt == <<0, 3, 0>>
MCListing == <<{1}, {3}>>

\* Three tokens, a batch of two: the most held one always fails, and the least
\* held one comes only from the backlog, behind the other two.
MCRank == <<1, 2, 3>>

Row(user, kind, address) == [user |-> user, kind |-> kind, address |-> address]

\* A page of one row each; two events of which a tick takes one.
MCItem == <<Row("u", "token", "t"), Row("v", "wallet", "w")>>
MCNames == <<{"w"}, {"w"}>>
MCSignals == {{}, {"critical_risk", "cannot_sell", "linked_creator"}}

\* Two tokens of one serial creator and one of a creator nobody can name; two
\* pages of one token.
MCRobinhoodCreator == <<1, 1, 0>>

View(given, top1, top5) == [given |-> given, top1 |-> top1, top5 |-> top5]

\* One contract, by two requests that overlap, without an explorer or with one
\* that gives the whole token or a large holder of it.
MCIndexed == <<View({}, 60, 90)>>
MCViews == {View({"supply", "holders", "all", "verified", "reliable", "creator"}, 5, 9),
            View({"supply", "holders"}, 60, 90)}
=============================================================================
