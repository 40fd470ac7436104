--------------------------- MODULE AnalysisInputs ---------------------------
(***************************************************************************)
(* What one analysis of a token reads: the facts of the token, as they     *)
(* stand on Arc, in the explorers and among the reviewed events, and which *)
(* of the reads answer.  A read that answers tells the truth; a read that  *)
(* fails tells nothing; a paged read may stop before the end of its list.  *)
(* The analyzers (ContractSignals, DexProbe, HolderSignals,                *)
(* CreatorHistory) are functions of the two.                               *)
(*                                                                         *)
(* Addresses are numbers, as the order of holders breaks ties.             *)
(***************************************************************************)
EXTENDS Integers, FiniteSets

CONSTANTS
    Wallets,    \* the accounts somebody owns, one of them the creator
    PairAccount,    \* the account of the verified pair
    BurnAccount,    \* an address shouldIgnoreForOwnership knows
    Nobody          \* no address

Accounts == Wallets \union {PairAccount, BurnAccount}

\* packages/shared/src/service-labels.ts: burn addresses, routers, exchanges.
KnownService(a) == a = BurnAccount

\* The reads of one analysis, in the order the code issues them.
Reads ==
    {"head", "node",                                        \* health probes
     "address", "token", "creation", "source",              \* Arc explorer
     "owner", "supply", "code",                             \* token contract
     "factory", "pair", "quote", "slot", "trip",            \* dex, over RPC
     "lpToken", "lpHolders",                                \* dex, explorer
     "transfers", "holders", "funders", "deployer",
     "abroadHead", "abroadTxs", "abroadAddress"}            \* Robinhood explorer

\* getAllTokenHolders gives up after maxPages or when the cursor stands still;
\* buildDeployerProfile reads one page of the wallet's transactions.
Paged == {"holders", "deployer"}

Outcomes == {"whole", "part", "failed"}

Answers == {a \in [Reads -> Outcomes] : \A r \in Reads \ Paged : a[r] # "part"}

AllAnswered == [r \in Reads |-> "whole"]

Answered(a, r) == a[r] # "failed"
Whole(a, r) == a[r] = "whole"

\* An error as a client throws it: the JSON-RPC code, whether its name is that of
\* a transport error, and what its message mentions.  Every message has the URL
\* of the node in it, and with it the word "network".
Error(code, transport, mentioned) ==
    [code |-> code, transport |-> transport, text |-> mentioned \union {"host"}]

\* How a revert reaches the client.  The reason is the token's to choose, so it
\* may read like a transport error; the reply may come with an HTTP error
\* status, and its wording may be one that nobody knows.
CodedRevert    == Error(3, FALSE, {"transport", "reverted"})
BareRevert     == Error(0, FALSE, {"reverted"})
QuotedRevert   == Error(0, FALSE, {"transport", "reverted"})
WrappedRevert  == Error(0, TRUE, {"reverted"})
UnwordedRevert == Error(0, FALSE, {})
Refusals == {CodedRevert, BareRevert, QuotedRevert, WrappedRevert, UnwordedRevert}

\* How a node fails to answer: a transport error, by name or by its wording,
\* which may quote a revert ("HTTP 429 ...; execution reverted"), or anything.
Dropped   == Error(0, TRUE, {})
Limited   == Error(0, FALSE, {"transport"})
Estimated == Error(0, FALSE, {"transport", "reverted"})
Unknown   == Error(0, FALSE, {})
Failures == {Dropped, Limited, Estimated, Unknown}

\* A token that looks ordinary in every respect; the facts an analysis is run
\* on are variations of it.
Ordinary(creator) ==
    [rpc        |-> TRUE,        \* an RPC endpoint is configured
     code       |-> TRUE,        \* bytecode at the address
     verified   |-> TRUE,        \* source verified in the explorer
     proxy      |-> FALSE,       \* proxy_type, or proxy hints in the bytecode
     selectors  |-> {},          \* privileged functions in the dispatcher
     owner      |-> "zero",      \* owner(): none, zero or wallet
     creator    |-> creator,
     creatorIn  |-> {"address", "creation"},   \* the records that name it
     supply     |-> TRUE,        \* totalSupply is positive
     pair       |-> "live",      \* none, dry or live
     quotes     |-> TRUE,        \* the router quotes a buy
     sells      |-> TRUE,        \* buy, approve and sell do not revert
     refusal    |-> CodedRevert, \* what the client sees of its reverts
     lpTop      |-> 10,          \* percent of the LP supply: largest owner,
     lpBurned   |-> 90,          \* and burned
     lpSupply   |-> TRUE,        \* the LP token has a supply
     share      |-> [h \in Accounts |-> IF h = PairAccount THEN 60 ELSE 0],
     funder     |-> [w \in Wallets |-> Nobody],
     recipients |-> 1,           \* distinct recipients in the busiest block
     removes    |-> 0,           \* liquidity removals on the transfer page
     aged       |-> TRUE,        \* the deployer's first transaction is a week old
     abroad     |-> [w \in Wallets |-> "absent"],  \* the wallet on Robinhood
     events     |-> {}]          \* risk events preloaded for its addresses

\* An event of another chain as rh.ts loads it.
EventOf(wallet, status, class, shown) ==
    [wallet |-> wallet, status |-> status, class |-> class, shown |-> shown]

=============================================================================
