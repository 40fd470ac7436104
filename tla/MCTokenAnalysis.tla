--------------------------- MODULE MCTokenAnalysis ---------------------------
(***************************************************************************)
(* Small instances of TokenAnalysis: an ordinary token and its variations, *)
(* each analysed with one or a few reads failing or cut short.             *)
(***************************************************************************)
EXTENDS TokenAnalysis

Creator == 1
Plain == Ordinary(Creator)

\* Shares over the accounts 1 to 5: three wallets, the pair (4), burned (5).
Shares(s) == [h \in Accounts |-> s[h]]
FundedBy3 == [w \in Wallets |-> IF w = Creator THEN 3 ELSE Nobody]
FundedBy1 == [w \in Wallets |-> IF w = Creator THEN Nobody ELSE Creator]

MCFacts ==
    {Plain,
     [Plain EXCEPT !.rpc = FALSE],
     [Plain EXCEPT !.code = FALSE, !.pair = "none", !.owner = "none"],
     [Plain EXCEPT !.verified = FALSE, !.proxy = TRUE],
     [Plain EXCEPT !.selectors = {"mint", "pause"}, !.owner = "wallet"],
     [Plain EXCEPT !.selectors = {"upgradeable", "maxTx"}],
     [Plain EXCEPT !.owner = "none", !.creatorIn = {"creation"}],
     [Plain EXCEPT !.creatorIn = {}],
     [Plain EXCEPT !.supply = FALSE, !.lpSupply = FALSE],
     [Plain EXCEPT !.pair = "none"],
     [Plain EXCEPT !.pair = "dry"],
     [Plain EXCEPT !.quotes = FALSE, !.sells = FALSE],
     [Plain EXCEPT !.quotes = FALSE, !.sells = FALSE, !.refusal = UnwordedRevert],
     [Plain EXCEPT !.lpTop = 60, !.lpBurned = 0],
     [Plain EXCEPT !.lpTop = 95, !.lpBurned = 0, !.removes = 2],
     [Plain EXCEPT !.lpTop = 0, !.lpBurned = 0],
     [Plain EXCEPT !.share = Shares(<<10, 10, 0, 75, 5>>), !.recipients = 3],
     [Plain EXCEPT !.share = Shares(<<55, 30, 5, 10, 0>>)],
     [Plain EXCEPT !.share = Shares(<<0, 20, 15, 0, 65>>), !.funder = FundedBy1],
     [Plain EXCEPT !.aged = FALSE, !.abroad = [w \in Wallets |-> "deployed"]],
     [Plain EXCEPT !.abroad = [w \in Wallets |-> "present"],
                   !.events = {EventOf(1, "confirmed", "confirmed_malicious", TRUE)}],
     [Plain EXCEPT !.funder = [w \in Wallets |-> IF w = 1 THEN 2 ELSE Nobody],
                   !.events = {EventOf(2, "confirmed", "high_risk_exit", TRUE),
                               EventOf(1, "open", "confirmed_malicious", TRUE),
                               EventOf(1, "confirmed", "confirmed_malicious", FALSE)}],
     [Plain EXCEPT !.share = Shares(<<20, 30, 40, 10, 0>>), !.funder = FundedBy3,
                   !.abroad = [w \in Wallets |-> "deployed"],
                   !.events = {EventOf(1, "confirmed", "high_risk_exit", TRUE)}]}
        \union {[Plain EXCEPT !.sells = FALSE, !.refusal = r] : r \in Refusals}

Failing(lost, r) == IF r \in lost THEN "failed" ELSE "whole"
Lost(lost) == [r \in Reads |-> Failing(lost, r)]
CutShort(p, lost) == [Lost(lost) EXCEPT ![p] = "part"]

\* One read fails, or two that stand in for each other or follow each other,
\* or a list is cut short, alone or beside a failure.
Backups ==
    {{"address", "creation"}, {"address", "source"}, {"code", "owner"}, {"head", "node"},
     {"code", "address"}, {"supply", "trip"}, {"lpToken", "trip"}}
SupplyReads == {"address", "token", "supply"}

MCAnswers ==
    {AllAnswered, Lost(SupplyReads)}
        \union {Lost({r}) : r \in Reads} \union {Lost(s) : s \in Backups}
        \union {CutShort(p, lost) : p \in Paged, lost \in {{}, {"transfers"}}}

MCOptions == [skipCrossChain : {FALSE}, skipSimulation : BOOLEAN]
=============================================================================
