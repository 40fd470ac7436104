---------------------------- MODULE ArcDiscovery ----------------------------
(***************************************************************************)
(* runArcDiscovery (apps/worker/src/arcDiscovery.ts): one poll reads the    *)
(* head, then the pair log, then the explorer's token inventory, then the   *)
(* blocks since the cursor.  The three scans fill the same table, from the  *)
(* node and from the explorer, while analyses write to it too.             *)
(***************************************************************************)
EXTENDS Integers, FiniteSets, Sequences

CONSTANTS
    Tokens,         \* the ERC-20 contracts of the chain
    CreatedAt,      \* the block that creates each of them
    PairedAt,       \* the block of its WUSDC pair, 0 for a token without one
    Listing,        \* the explorer's pages, a sequence of sets of tokens
    MaxHead,        \* the chain stops growing here
    FirstWindow,    \* blocks behind the head where a first block scan begins (20)
    PairWindow,     \* and a first pair scan (8000)
    PerPoll,        \* ARC_DISCOVERY_MAX_BLOCKS
    MaxPages,       \* inventory pages of one poll (100)
    MaxFaults       \* bound: reads, writes and processes that fail

VARIABLES
    head,           \* the chain's latest block
    rows,           \* Token rows of arc_testnet
    named,          \* those with a name or symbol
    cursor,         \* arc_token_discovery.lastBlock
    pairCursor,     \* arc_apexiswap_pairs.lastBlock
    inventory,      \* arc_testnet_tokens, what its health row says of the last full runs
    poll,           \* the locals of the running poll
    start,          \* history: where the scan behind the cursor began
    codeless,       \* history: creations whose code read answered nothing
    faults

vars == <<head, rows, named, cursor, pairCursor, inventory, poll, start,
          codeless, faults>>

Unread == -1
Stages == {"idle", "pairs", "list", "store", "blocks", "scan", "commit"}

\* The list of candidates a poll returns is left out: AnalysisBacklog, which it
\* is handed to, admits any tokens that were not analysed.
NoPoll == [pc |-> "idle", latest |-> Unread, full |-> FALSE, page |-> 1, shown |-> {},
           known |-> {}, indexed |-> 0, from |-> 0, next |-> 0]

Init ==
    /\ head = 1 /\ rows = {} /\ named = {}
    /\ cursor = 0 /\ pairCursor = 0
    /\ inventory = [indexed |-> 0, succeeded |-> FALSE, recent |-> FALSE]
    /\ poll = NoPoll /\ start = 0 /\ codeless = {} /\ faults = 0

Larger(a, b) == IF a >= b THEN a ELSE b
Smaller(a, b) == IF a <= b THEN a ELSE b

Created == {t \in Tokens : CreatedAt[t] <= head}
ExplorerNames == UNION {Listing[i] : i \in DOMAIN Listing}

Fails == faults < MaxFaults /\ faults' = faults + 1
Works == faults' = faults

-----------------------------------------------------------------------------
(* The head, from the explorer or else from the node.                       *)

ReadHead ==
    /\ poll.pc = "idle"
    /\ \/ Works /\ poll' = [NoPoll EXCEPT !.pc = "pairs", !.latest = head]
       \/ Fails /\ \E l \in {head, Unread} : poll' = [NoPoll EXCEPT !.pc = "pairs", !.latest = l]
    /\ UNCHANGED <<head, rows, named, cursor, pairCursor, inventory, start, codeless>>

-----------------------------------------------------------------------------
(* Pairs of the factory.                                                    *)

PairFrom == IF pairCursor > 0 THEN pairCursor + 1 ELSE Larger(0, poll.latest - PairWindow)
NewPairs == {t \in Tokens : PairedAt[t] > 0 /\ PairedAt[t] \in PairFrom .. poll.latest}

\* What was stored when a scan over the pairs ends early: they go by block.
Prefixes(s) ==
    {p \in SUBSET s : \A t \in p, u \in s : PairedAt[u] < PairedAt[t] => u \in p}

\* A log range that cannot be read, or a row that cannot be written, leaves
\* the cursor where it is; the rows before it stay.
ScanPairs ==
    /\ poll.pc = "pairs"
    /\ \E stored \in Prefixes(IF poll.latest = Unread THEN {} ELSE NewPairs) :
          /\ rows' = rows \union stored
          /\ poll' = [poll EXCEPT !.pc = "list"]
          /\ \/ /\ Works
                /\ IF poll.latest = Unread THEN UNCHANGED pairCursor
                   ELSE stored = NewPairs /\ pairCursor' = poll.latest
             \/ Fails /\ UNCHANGED pairCursor
    /\ UNCHANGED <<head, named, cursor, inventory, start, codeless>>

-----------------------------------------------------------------------------
(* The explorer's inventory: every page, or the first one.                  *)

\* Mutant: one full run is enough.
FullOnce == inventory.indexed <= 0

RunFull == inventory.indexed <= 0 \/ ~inventory.succeeded \/ ~inventory.recent

PageShown == IF poll.page \in DOMAIN Listing THEN Listing[poll.page] \intersect Created ELSE {}

\* getTokens, and the rows the page already has.  An explorer may answer with
\* no rows at all.
ListPage ==
    /\ poll.pc = "list"
    /\ \/ Works /\ poll' = [poll EXCEPT !.pc = "store", !.shown = PageShown,
                                 !.known = PageShown \intersect rows,
                                 !.full = IF poll.page = 1 THEN RunFull ELSE @]
       \/ Fails /\ poll' = [poll EXCEPT !.pc = "store", !.shown = {}, !.known = {},
                                 !.page = Len(Listing),
                                 !.full = IF poll.page = 1 THEN RunFull ELSE @]
    /\ UNCHANGED <<head, rows, named, cursor, pairCursor, inventory, start,
                   codeless>>

\* A read or a write of the inventory throws.
ListFails ==
    /\ poll.pc \in {"list", "store"}
    /\ Fails
    /\ poll' = [poll EXCEPT !.pc = "blocks"]
    /\ UNCHANGED <<head, rows, named, cursor, pairCursor, inventory, start, codeless>>

MorePages == poll.full /\ poll.page < Len(Listing) /\ poll.page < MaxPages

\* The health row is only written by a full run.
Inventory(indexed) ==
    LET ok == indexed > 0
    IN  [indexed |-> indexed, succeeded |-> inventory.succeeded \/ ok,
         recent |-> inventory.recent \/ ok]

\* createMany, then identities where one is missing.  A row that appeared since
\* the page was looked up makes createMany fail as a whole.
StorePage ==
    /\ poll.pc = "store"
    /\ LET new   == poll.shown \ poll.known
           count == poll.indexed + Cardinality(poll.shown)
       IN  IF new \intersect rows # {}
           THEN /\ poll' = [poll EXCEPT !.pc = "blocks"]
                /\ UNCHANGED <<rows, named, inventory>>
           ELSE /\ rows' = rows \union new
                /\ named' = named \union poll.shown
                /\ poll' = [poll EXCEPT !.pc = IF MorePages THEN "list" ELSE "blocks",
                                        !.page = IF MorePages THEN @ + 1 ELSE @,
                                        !.indexed = count, !.shown = {}, !.known = {}]
                /\ inventory' = IF poll.full /\ ~MorePages THEN Inventory(count) ELSE inventory
    /\ UNCHANGED <<head, cursor, pairCursor, start, codeless, faults>>

\* Fifteen minutes since the last full run.
InventoryAges ==
    /\ inventory.recent
    /\ inventory' = [inventory EXCEPT !.recent = FALSE]
    /\ UNCHANGED <<head, rows, named, cursor, pairCursor, poll, start,
                   codeless, faults>>

-----------------------------------------------------------------------------
(* The blocks since the cursor.                                             *)

ScanFrom == IF cursor > 0 THEN cursor + 1 ELSE Larger(0, poll.latest - FirstWindow)
ScanEnd == Smaller(poll.latest, poll.from + PerPoll - 1)

\* Without a head there is nothing to scan and the poll returns.
BeginScan ==
    /\ poll.pc = "blocks"
    /\ poll' = IF poll.latest = Unread THEN NoPoll
               ELSE [poll EXCEPT !.pc = "scan", !.from = ScanFrom, !.next = ScanFrom]
    /\ UNCHANGED <<head, rows, named, cursor, pairCursor, inventory, start,
                   codeless, faults>>

CreatedIn(b) == {t \in Tokens : CreatedAt[t] = b}

\* Mutant: a creation that failed does not hold its block.
NeverHeld(p, failed) == [p EXCEPT !.next = @ + 1]

\* A block is complete when none of its creations failed; otherwise the scan
\* stops in front of it.
PastBlock(p, failed) ==
    IF failed = {} THEN [p EXCEPT !.next = @ + 1] ELSE [p EXCEPT !.pc = "commit"]

\* The creations of one block.  A receipt that cannot be read or a row that
\* cannot be written fails; a code read that fails answers null, as does one
\* that finds no code, and the creation is passed over.  The blocks of a batch
\* are fetched together but walked in this order.
ScanBlock ==
    /\ poll.pc = "scan" /\ poll.next <= ScanEnd
    /\ \E null \in SUBSET CreatedIn(poll.next), failed \in SUBSET CreatedIn(poll.next) :
          LET stored == CreatedIn(poll.next) \ (null \union failed)
          IN  /\ null \intersect failed = {}
              /\ IF null \union failed = {} THEN Works ELSE Fails
              /\ rows' = rows \union stored
              /\ \E read \in SUBSET ((stored \ rows) \intersect ExplorerNames) :
                    named' = named \union read
              /\ codeless' = codeless \union null
              /\ poll' = PastBlock(poll, failed)
    /\ UNCHANGED <<head, cursor, pairCursor, inventory, start>>

\* A block that cannot be read stops the scan in front of it.
UnreadBlock ==
    /\ poll.pc = "scan" /\ poll.next <= ScanEnd
    /\ Fails
    /\ poll' = [poll EXCEPT !.pc = "commit"]
    /\ UNCHANGED <<head, rows, named, cursor, pairCursor, inventory, start,
                   codeless>>

\* lastScanned, the block before the one the scan stopped at, reached the first.
Scanned(p) == p.next > p.from

\* The cursor moves over the blocks scanned end to end, and the poll returns.
Commit ==
    /\ poll.pc = "commit" \/ (poll.pc = "scan" /\ poll.next > ScanEnd)
    /\ cursor' = IF Scanned(poll) THEN poll.next - 1 ELSE cursor
    /\ start' = IF Scanned(poll) /\ cursor = 0 THEN poll.from ELSE start
    /\ poll' = NoPoll
    /\ UNCHANGED <<head, rows, named, pairCursor, inventory, codeless,
                   faults>>

-----------------------------------------------------------------------------
(* Around the poll.                                                         *)

\* A write outside the scans throws, or the worker dies: what the poll found is
\* gone, the next one starts from the rows.
Abort ==
    /\ poll.pc # "idle"
    /\ Fails
    /\ poll' = NoPoll
    /\ UNCHANGED <<head, rows, named, cursor, pairCursor, inventory, start,
                   codeless>>

\* The chain grows; an analysis, also of a token nobody listed, is persisted.
NewBlock ==
    /\ head < MaxHead
    /\ head' = head + 1
    /\ UNCHANGED <<rows, named, cursor, pairCursor, inventory, poll, start,
                   codeless, faults>>

Analyse(t) ==
    /\ t \in Created \ named
    /\ rows' = rows \union {t} /\ named' = named \union {t}
    /\ UNCHANGED <<head, cursor, pairCursor, inventory, poll, start, codeless, faults>>

Poll ==
    \/ ReadHead \/ ScanPairs
    \/ ListPage \/ ListFails \/ StorePage
    \/ BeginScan \/ ScanBlock \/ UnreadBlock \/ Commit

Next == Poll \/ InventoryAges \/ Abort \/ NewBlock \/ \E t \in Tokens : Analyse(t)

Spec == Init /\ [][Next]_vars

\* The loop polls for ever, and time passes.
FairSpec == Spec /\ WF_vars(Poll) /\ WF_vars(InventoryAges)
-----------------------------------------------------------------------------
(* Properties.                                                              *)

\* Every variable has its type.
TypeOK ==
    /\ head \in 1 .. MaxHead
    /\ rows \in SUBSET Tokens /\ named \in SUBSET rows
    /\ cursor \in 0 .. MaxHead /\ pairCursor \in 0 .. MaxHead /\ start \in 0 .. MaxHead
    /\ codeless \in SUBSET Tokens
    /\ poll.pc \in Stages /\ poll.latest \in {Unread} \union 0 .. MaxHead
    /\ poll.shown \in SUBSET Tokens
    /\ poll.from \in Nat /\ poll.next \in Nat

\* "The cursor may only advance over blocks that were scanned end to end.
\* Committing `end` after a break or an RPC error skipped those blocks for good":
\* no token created behind the cursor, since the scan began, is without a row,
\* except one whose code read answered null.
NoCreationSkipped ==
    cursor > 0 => \A t \in Tokens : CreatedAt[t] \in start .. cursor => t \in rows \union codeless

\* A token ahead of the cursor, whatever failed on the way, is stored in the
\* end; a token the explorer lists, on any page, is named in the end.
DiscoveryCatchesUp ==
    \A t \in Tokens :
        /\ (cursor > 0 /\ CreatedAt[t] \in cursor + 1 .. head) ~> t \in rows \union codeless
        /\ (t \in ExplorerNames /\ t \in Created) ~> t \in named
=============================================================================
