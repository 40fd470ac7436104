---------------------------- MODULE WorkerProofs -----------------------------
(***************************************************************************)
(* That every part of the worker keeps its invariants, for any number of    *)
(* tokens, watchers, lanes, requests and rows, whichever part moves.  The   *)
(* analysis, the Robinhood indexer and the contract page have modules of    *)
(* their own for the argument; discovery, the queue, the alerts, the feed   *)
(* and the settlement schedule are argued here.                            *)
(***************************************************************************)
EXTENDS Worker, TokenAnalysisProofs, SequenceTheorems

RobinhoodP == INSTANCE RobinhoodIndexerProofs WITH
    Tokens <- RobinhoodTokens, Creator <- RobinhoodCreator, MaxPages <- RobinhoodPages
PageP == INSTANCE ContractPageProofs

-----------------------------------------------------------------------------
(* Discovery: the cursor and the scan behind it.                            *)

(***************************************************************************)
(* The inductive invariant.                                                *)
(***************************************************************************)

\* Where the four fields the argument is about live, and their ranges.
PollOK ==
    /\ {"pc", "latest", "from", "next"} \subseteq DOMAIN poll
    /\ poll.latest \in Int /\ poll.from \in Int /\ poll.next \in Int

NumbersOK == head \in Int /\ cursor \in Nat /\ start \in Nat

\* A scan goes on where the cursor is, or begins somewhere on the chain.
ScanOK ==
    poll.pc \in {"scan", "commit"} =>
        /\ 0 <= poll.from /\ poll.from <= poll.next
        /\ cursor > 0 => poll.from = cursor + 1

\* The creations of the blocks a scan has behind it are stored or codeless.
WalkedOK ==
    poll.pc \in {"scan", "commit"} =>
        \A t \in ArcTokens :
            CreatedAt[t] \in poll.from .. poll.next - 1 => t \in rows \union codeless

ScanInv == PollOK /\ NumbersOK /\ ScanOK /\ WalkedOK /\ Discovery!NoCreationSkipped

\* A poll that is not running has the fields of any other.
LEMMA IdleFields ==
    /\ {"pc", "latest", "from", "next"} \subseteq DOMAIN Discovery!NoPoll
    /\ Discovery!NoPoll.pc = "idle" /\ Discovery!NoPoll.latest = -1
    /\ Discovery!NoPoll.from = 0 /\ Discovery!NoPoll.next = 0
  BY DEF Discovery!NoPoll, Discovery!Unread

LEMMA ScanInitially == Discovery!Init => ScanInv
  <1> SUFFICES ASSUME Discovery!Init PROVE ScanInv
      OBVIOUS
  <1>1. PollOK
      BY IdleFields DEF Discovery!Init, PollOK
  <1> QED
      BY <1>1, IdleFields DEF Discovery!Init, ScanInv, NumbersOK, ScanOK, WalkedOK,
         Discovery!NoCreationSkipped

\* What a step outside the block scan must leave as it is: the cursor, what was
\* stored, and the bounds of the scan in progress.
LEMMA NoScanStep ==
    ASSUME ScanInv, PollOK', head' \in Int,
           UNCHANGED <<cursor, start>>,
           rows \subseteq rows', codeless \subseteq codeless',
           poll'.pc \in {"scan", "commit"} =>
               /\ poll.pc \in {"scan", "commit"}
               /\ poll'.from = poll.from /\ poll'.next = poll.next
    PROVE ScanInv'
  <1>1. NumbersOK' /\ ScanOK'
      BY DEF ScanInv, NumbersOK, ScanOK
  <1>2. WalkedOK'
      BY DEF ScanInv, WalkedOK
  <1>3. Discovery!NoCreationSkipped'
      BY DEF ScanInv, Discovery!NoCreationSkipped
  <1> QED
      BY <1>1, <1>2, <1>3 DEF ScanInv

LEMMA ReadHeadKeeps == ScanInv /\ Discovery!ReadHead => ScanInv'
  <1> SUFFICES ASSUME ScanInv, Discovery!ReadHead PROVE ScanInv'
      OBVIOUS
  <1>1. PICK l \in {head, Discovery!Unread} :
            poll' = [Discovery!NoPoll EXCEPT !.pc = "pairs", !.latest = l]
      BY DEF Discovery!ReadHead
  <1>2. PollOK' /\ poll'.pc = "pairs"
      BY <1>1, IdleFields DEF PollOK, ScanInv, NumbersOK, Discovery!Unread
  <1> QED
      BY <1>2, NoScanStep DEF Discovery!ReadHead, ScanInv, NumbersOK

LEMMA ScanPairsKeeps == ScanInv /\ Discovery!ScanPairs => ScanInv'
  <1> SUFFICES ASSUME ScanInv, Discovery!ScanPairs PROVE ScanInv'
      OBVIOUS
  <1>1. poll' = [poll EXCEPT !.pc = "list"] /\ rows \subseteq rows'
      BY DEF Discovery!ScanPairs
  <1>2. PollOK' /\ poll'.pc = "list"
      BY <1>1 DEF PollOK, ScanInv
  <1> QED
      BY <1>1, <1>2, NoScanStep DEF Discovery!ScanPairs, ScanInv, NumbersOK

LEMMA ListPageKeeps == ScanInv /\ Discovery!ListPage => ScanInv'
  <1> SUFFICES ASSUME ScanInv, Discovery!ListPage PROVE ScanInv'
      OBVIOUS
  <1>1. PollOK' /\ poll'.pc = "store"
      BY DEF Discovery!ListPage, ScanInv, PollOK
  <1> QED
      BY <1>1, NoScanStep DEF Discovery!ListPage, ScanInv, NumbersOK

LEMMA StorePageKeeps == ScanInv /\ Discovery!StorePage => ScanInv'
  <1> SUFFICES ASSUME ScanInv, Discovery!StorePage PROVE ScanInv'
      OBVIOUS
  <1>1. PollOK' /\ poll'.pc \in {"list", "blocks"} /\ rows \subseteq rows'
      BY DEF Discovery!StorePage, ScanInv, PollOK
  <1> QED
      BY <1>1, NoScanStep DEF Discovery!StorePage, ScanInv, NumbersOK

LEMMA ListFailsKeeps == ScanInv /\ Discovery!ListFails => ScanInv'
  <1> SUFFICES ASSUME ScanInv, Discovery!ListFails PROVE ScanInv'
      OBVIOUS
  <1>1. PollOK' /\ poll'.pc = "blocks"
      BY DEF Discovery!ListFails, ScanInv, PollOK
  <1> QED
      BY <1>1, NoScanStep DEF Discovery!ListFails, ScanInv, NumbersOK

\* A scan that begins has no blocks behind it.
LEMMA BeginScanKeeps ==
    ASSUME FirstWindow \in Nat PROVE ScanInv /\ Discovery!BeginScan => ScanInv'
  <1> SUFFICES ASSUME ScanInv, Discovery!BeginScan PROVE ScanInv'
      OBVIOUS
  <1>1. CASE poll.latest = Discovery!Unread
    <2>1. PollOK' /\ poll'.pc = "idle"
        BY <1>1, IdleFields DEF Discovery!BeginScan, PollOK
    <2> QED
        BY <2>1, NoScanStep DEF Discovery!BeginScan, ScanInv, NumbersOK
  <1>2. CASE poll.latest # Discovery!Unread
    <2>1. /\ Discovery!ScanFrom \in Int /\ 0 <= Discovery!ScanFrom
          /\ (cursor > 0 => Discovery!ScanFrom = cursor + 1)
        BY DEF Discovery!ScanFrom, Discovery!Larger, ScanInv, NumbersOK, PollOK
    <2>2. poll' = [poll EXCEPT !.pc = "scan", !.from = Discovery!ScanFrom,
                                  !.next = Discovery!ScanFrom]
        BY <1>2 DEF Discovery!BeginScan
    <2>3. PollOK' /\ poll'.from = Discovery!ScanFrom /\ poll'.next = Discovery!ScanFrom
        BY <2>1, <2>2 DEF ScanInv, PollOK
    <2>4. NumbersOK' /\ ScanOK'
        BY <2>1, <2>3 DEF Discovery!BeginScan, ScanInv, NumbersOK, ScanOK
    <2>5. WalkedOK'
        BY <2>1, <2>3 DEF WalkedOK
    <2>6. Discovery!NoCreationSkipped'
        BY DEF Discovery!BeginScan, ScanInv, Discovery!NoCreationSkipped
    <2> QED
        BY <2>3, <2>4, <2>5, <2>6 DEF ScanInv
  <1> QED
      BY <1>1, <1>2

\* A block is left behind when each of its creations is stored or codeless.
LEMMA ScanBlockKeeps == ScanInv /\ Discovery!ScanBlock => ScanInv'
  <1> SUFFICES ASSUME ScanInv, Discovery!ScanBlock PROVE ScanInv'
      OBVIOUS
  <1>1. PICK null \in SUBSET Discovery!CreatedIn(poll.next),
             failed \in SUBSET Discovery!CreatedIn(poll.next) :
            /\ rows' = rows \union (Discovery!CreatedIn(poll.next) \ (null \union failed))
            /\ codeless' = codeless \union null
            /\ poll' = Discovery!PastBlock(poll, failed)
      BY DEF Discovery!ScanBlock
  <1>2. poll.pc = "scan" /\ UNCHANGED <<head, cursor, start>>
      BY DEF Discovery!ScanBlock
  <1>3. CASE failed # {}
    <2>1. PollOK' /\ poll'.from = poll.from /\ poll'.next = poll.next
        BY <1>1, <1>3 DEF Discovery!PastBlock, ScanInv, PollOK
    <2> QED
        BY <1>1, <1>2, <2>1, NoScanStep DEF ScanInv, NumbersOK
  <1>4. CASE failed = {}
    <2>1. /\ PollOK' /\ poll'.pc = "scan"
          /\ poll'.from = poll.from /\ poll'.next = poll.next + 1
        BY <1>1, <1>2, <1>4 DEF Discovery!PastBlock, ScanInv, PollOK
    <2>2. NumbersOK' /\ ScanOK'
        BY <1>2, <2>1 DEF ScanInv, NumbersOK, ScanOK, PollOK
    <2>3. ASSUME NEW t \in ArcTokens, CreatedAt[t] \in poll.from .. poll.next
          PROVE t \in rows' \union codeless'
      <3>1. CASE CreatedAt[t] = poll.next
          BY <1>1, <1>4, <3>1 DEF Discovery!CreatedIn
      <3>2. CASE CreatedAt[t] # poll.next
        <4>1. CreatedAt[t] \in poll.from .. poll.next - 1
            BY <2>3, <3>2 DEF ScanInv, PollOK
        <4> QED
            BY <1>1, <1>2, <4>1 DEF ScanInv, WalkedOK
      <3> QED
          BY <3>1, <3>2
    <2>4. poll'.next - 1 = poll.next
        BY <2>1 DEF ScanInv, PollOK
    <2>5. WalkedOK'
        BY <2>1, <2>3, <2>4 DEF WalkedOK
    <2>6. Discovery!NoCreationSkipped'
        BY <1>1, <1>2 DEF ScanInv, Discovery!NoCreationSkipped
    <2> QED
        BY <2>1, <2>2, <2>5, <2>6 DEF ScanInv
  <1> QED
      BY <1>3, <1>4

LEMMA UnreadBlockKeeps == ScanInv /\ Discovery!UnreadBlock => ScanInv'
  <1> SUFFICES ASSUME ScanInv, Discovery!UnreadBlock PROVE ScanInv'
      OBVIOUS
  <1>1. PollOK' /\ poll'.from = poll.from /\ poll'.next = poll.next /\ poll.pc = "scan"
      BY DEF Discovery!UnreadBlock, ScanInv, PollOK
  <1> QED
      BY <1>1, NoScanStep DEF Discovery!UnreadBlock, ScanInv, NumbersOK

\* The cursor takes over the blocks the scan has behind it, which begin right
\* after those it had.
LEMMA CommitKeeps == ScanInv /\ Discovery!Commit => ScanInv'
  <1> SUFFICES ASSUME ScanInv, Discovery!Commit PROVE ScanInv'
      OBVIOUS
  <1>1. poll.pc \in {"scan", "commit"} /\ poll' = Discovery!NoPoll
      BY DEF Discovery!Commit
  <1>2. PollOK' /\ poll'.pc = "idle"
      BY <1>1, IdleFields DEF PollOK
  <1>3. CASE ~Discovery!Scanned(poll)
      BY <1>2, <1>3, NoScanStep DEF Discovery!Commit, ScanInv, NumbersOK
  <1>4. CASE Discovery!Scanned(poll)
    <2>1. cursor' = poll.next - 1 /\ start' = IF cursor = 0 THEN poll.from ELSE start
        BY <1>4 DEF Discovery!Commit
    <2>2. poll.from < poll.next /\ 0 <= poll.from /\ (cursor > 0 => poll.from = cursor + 1)
        BY <1>1, <1>4 DEF Discovery!Scanned, ScanInv, ScanOK, PollOK
    <2>3. NumbersOK'
        BY <2>1, <2>2 DEF Discovery!Commit, ScanInv, NumbersOK, PollOK
    <2>4. ASSUME NEW t \in ArcTokens, CreatedAt[t] \in start' .. cursor'
          PROVE t \in rows \union codeless
      <3>1. CASE CreatedAt[t] \in poll.from .. poll.next - 1
          BY <1>1, <3>1 DEF ScanInv, WalkedOK
      <3>2. CASE CreatedAt[t] \notin poll.from .. poll.next - 1
        <4>1. cursor > 0 /\ CreatedAt[t] \in start .. cursor
            BY <2>1, <2>2, <2>4, <3>2 DEF ScanInv, NumbersOK, PollOK
        <4> QED
            BY <4>1 DEF ScanInv, Discovery!NoCreationSkipped
      <3> QED
          BY <3>1, <3>2
    <2>5. Discovery!NoCreationSkipped'
        BY <2>4 DEF Discovery!Commit, Discovery!NoCreationSkipped
    <2> QED
        BY <1>2, <2>3, <2>5 DEF ScanInv, ScanOK, WalkedOK
  <1> QED
      BY <1>3, <1>4

\* An abort forgets the scan and leaves the cursor; the chain, the clock and
\* analyses do not touch either.
Around ==
    \/ Discovery!Abort \/ Discovery!InventoryAges \/ Discovery!NewBlock
    \/ \E t \in ArcTokens : Discovery!Analyse(t)

LEMMA AroundKeeps == ScanInv /\ Around => ScanInv'
  <1> SUFFICES ASSUME ScanInv, Around
               PROVE ScanInv'
      OBVIOUS
  <1>1. CASE Discovery!Abort
    <2>1. PollOK' /\ poll'.pc = "idle"
        BY <1>1, IdleFields DEF Discovery!Abort, PollOK
    <2> QED
        BY <1>1, <2>1, NoScanStep DEF Discovery!Abort, ScanInv, NumbersOK
  <1>2. CASE Discovery!InventoryAges
      BY <1>2, NoScanStep DEF Discovery!InventoryAges, ScanInv, NumbersOK, PollOK
  <1>3. CASE Discovery!NewBlock
      BY <1>3, NoScanStep DEF Discovery!NewBlock, ScanInv, NumbersOK, PollOK
  <1>4. CASE \E t \in ArcTokens : Discovery!Analyse(t)
      BY <1>4, NoScanStep DEF Discovery!Analyse, ScanInv, NumbersOK, PollOK
  <1> QED
      BY <1>1, <1>2, <1>3, <1>4 DEF Around

LEMMA ScanInductive ==
    ASSUME FirstWindow \in Nat PROVE ScanInv /\ [Discovery!Next]_discoveryVars => ScanInv'
  <1> SUFFICES ASSUME ScanInv, [Discovery!Next]_discoveryVars PROVE ScanInv'
      OBVIOUS
  <1>1. CASE Discovery!Poll
      BY <1>1, ReadHeadKeeps, ScanPairsKeeps, ListPageKeeps, ListFailsKeeps, StorePageKeeps,
         BeginScanKeeps, ScanBlockKeeps, UnreadBlockKeeps, CommitKeeps DEF Discovery!Poll
  <1>2. CASE Around
      BY <1>2, AroundKeeps
  <1>3. CASE UNCHANGED discoveryVars
      BY <1>3 DEF discoveryVars, ScanInv, PollOK, NumbersOK, ScanOK, WalkedOK,
         Discovery!NoCreationSkipped
  <1> QED
      BY <1>1, <1>2, <1>3 DEF Discovery!Next, Around

\* What a poll knows is among the rows, and a scan stays on the chain it read.
DiscoveryTypes ==
    /\ head \in 1 .. MaxHead
    /\ rows \subseteq ArcTokens /\ named \subseteq rows /\ codeless \subseteq ArcTokens
    /\ cursor \in 0 .. MaxHead /\ pairCursor \in 0 .. MaxHead /\ start \in 0 .. MaxHead

PollTypes ==
    /\ {"shown", "known"} \subseteq DOMAIN poll /\ poll.pc \in Discovery!Stages
    /\ poll.latest \in {Discovery!Unread} \union 0 .. MaxHead
    /\ poll.shown \subseteq ArcTokens /\ poll.known \subseteq rows
    /\ poll.from \in Nat /\ poll.next \in Nat

\* The last block behind a scan is one the poll knew of.
ReachOK ==
    poll.pc \in {"scan", "commit"} => /\ poll.latest # Discovery!Unread
                                      /\ poll.next > poll.from => poll.next - 1 <= poll.latest

DiscoveryInv == ScanInv /\ DiscoveryTypes /\ PollTypes /\ ReachOK

LEMMA IdleTypes ==
    /\ {"pc", "latest", "from", "next", "shown", "known"} \subseteq DOMAIN Discovery!NoPoll
    /\ Discovery!NoPoll.pc = "idle" /\ Discovery!NoPoll.latest = -1
    /\ Discovery!NoPoll.from = 0 /\ Discovery!NoPoll.next = 0
    /\ Discovery!NoPoll.shown = {} /\ Discovery!NoPoll.known = {}
  BY DEF Discovery!NoPoll, Discovery!Unread

LEMMA DiscoveryInitially == Discovery!Init => DiscoveryInv
  <1> SUFFICES ASSUME Discovery!Init PROVE DiscoveryInv
      OBVIOUS
  <1>1. DiscoveryTypes
      BY DiscoveryAssumption DEF Discovery!Init, DiscoveryTypes
  <1>2. PollTypes /\ ReachOK
      BY IdleTypes DEF Discovery!Init, PollTypes, ReachOK, Discovery!Stages, Discovery!Unread
  <1> QED
      BY <1>1, <1>2, ScanInitially DEF DiscoveryInv

\* A poll that ends has nothing of the next one.
LEMMA IdleKeepsTypes ==
    ASSUME poll' = Discovery!NoPoll PROVE PollTypes' /\ ReachOK'
  BY IdleTypes DEF PollTypes, ReachOK, Discovery!Stages, Discovery!Unread

LEMMA PollKeepsTypes ==
    ASSUME DiscoveryInv, Discovery!Poll PROVE DiscoveryTypes' /\ PollTypes' /\ ReachOK'
  <1> USE DiscoveryAssumption DEF DiscoveryInv
  <1>0. {"pc", "latest", "from", "next", "shown", "known"} \subseteq DOMAIN poll
      BY DEF ScanInv, PollOK, PollTypes
  <1>1. CASE Discovery!ReadHead
    <2>1. PICK l \in {head, Discovery!Unread} :
              poll' = [Discovery!NoPoll EXCEPT !.pc = "pairs", !.latest = l]
        BY <1>1 DEF Discovery!ReadHead
    <2>2. PollTypes' /\ ReachOK'
        BY <2>1, IdleTypes DEF PollTypes, ReachOK, Discovery!Stages, Discovery!Unread,
           DiscoveryTypes
    <2> QED
        BY <1>1, <2>2 DEF Discovery!ReadHead, DiscoveryTypes
  <1>2. CASE Discovery!ScanPairs
    <2>1. PICK stored \in SUBSET ArcTokens :
              /\ rows' = rows \union stored
              /\ poll' = [poll EXCEPT !.pc = "list"]
              /\ pairCursor' = pairCursor
                 \/ (poll.latest # Discovery!Unread /\ pairCursor' = poll.latest)
        BY <1>2 DEF Discovery!ScanPairs, Discovery!Prefixes, Discovery!NewPairs
    <2>2. DiscoveryTypes'
        BY <1>2, <2>1 DEF Discovery!ScanPairs, DiscoveryTypes, PollTypes
    <2>3. PollTypes' /\ ReachOK'
        BY <1>0, <2>1 DEF PollTypes, ReachOK, Discovery!Stages
    <2> QED
        BY <2>2, <2>3
  <1>3. CASE Discovery!ListPage
    <2>1. Discovery!PageShown \subseteq ArcTokens
        BY DEF Discovery!PageShown, Discovery!Created
    <2>2. PollTypes' /\ ReachOK'
        BY <1>0, <1>3, <2>1 DEF Discovery!ListPage, PollTypes, ReachOK, Discovery!Stages
    <2> QED
        BY <1>3, <2>2 DEF Discovery!ListPage, DiscoveryTypes
  <1>4. CASE Discovery!ListFails
      BY <1>0, <1>4 DEF Discovery!ListFails, DiscoveryTypes, PollTypes, ReachOK, Discovery!Stages
  <1>5. CASE Discovery!StorePage
    <2>1. CASE poll' = [poll EXCEPT !.pc = "blocks"] /\ UNCHANGED <<rows, named, inventory>>
        BY <1>0, <1>5, <2>1
           DEF Discovery!StorePage, DiscoveryTypes, PollTypes, ReachOK, Discovery!Stages
    <2>2. CASE /\ rows' = rows \union (poll.shown \ poll.known)
               /\ named' = named \union poll.shown
               /\ poll'.pc \in {"list", "blocks"} /\ DOMAIN poll' = DOMAIN poll
               /\ poll'.shown = {} /\ poll'.known = {}
               /\ poll'.latest = poll.latest /\ poll'.from = poll.from /\ poll'.next = poll.next
      <3>1. DiscoveryTypes'
          BY <1>5, <2>2 DEF Discovery!StorePage, DiscoveryTypes, PollTypes
      <3>2. PollTypes' /\ ReachOK'
          BY <1>0, <2>2 DEF PollTypes, ReachOK, Discovery!Stages
      <3> QED
          BY <3>1, <3>2
    <2> QED
        BY <1>0, <1>5, <2>1, <2>2 DEF Discovery!StorePage
  <1>6. CASE Discovery!BeginScan
    <2>1. DiscoveryTypes'
        BY <1>6 DEF Discovery!BeginScan, DiscoveryTypes
    <2>2. CASE poll' = Discovery!NoPoll
        BY <2>1, <2>2, IdleKeepsTypes
    <2>3. CASE /\ poll.latest # Discovery!Unread
               /\ poll' = [poll EXCEPT !.pc = "scan", !.from = Discovery!ScanFrom,
                                       !.next = Discovery!ScanFrom]
      <3>1. Discovery!ScanFrom \in Nat
          BY DEF Discovery!ScanFrom, Discovery!Larger, ScanInv, NumbersOK, PollOK
      <3>2. /\ poll'.from = Discovery!ScanFrom /\ poll'.next = Discovery!ScanFrom
            /\ poll'.pc = "scan" /\ poll'.latest = poll.latest /\ DOMAIN poll' = DOMAIN poll
            /\ poll'.shown = poll.shown /\ poll'.known = poll.known /\ rows' = rows
          BY <1>0, <1>6, <2>3 DEF Discovery!BeginScan
      <3>3. PollTypes' /\ ReachOK'
          BY <2>3, <3>1, <3>2 DEF PollTypes, ReachOK, Discovery!Stages
      <3> QED
          BY <2>1, <3>3
    <2> QED
        BY <1>6, <2>2, <2>3 DEF Discovery!BeginScan
  <1>7. CASE Discovery!ScanBlock
    <2>1. PICK null \in SUBSET Discovery!CreatedIn(poll.next),
               failed \in SUBSET Discovery!CreatedIn(poll.next) :
              LET stored == Discovery!CreatedIn(poll.next) \ (null \union failed)
              IN  /\ rows' = rows \union stored
                  /\ \E read \in SUBSET ((stored \ rows) \intersect Discovery!ExplorerNames) :
                        named' = named \union read
                  /\ codeless' = codeless \union null
                  /\ poll' = Discovery!PastBlock(poll, failed)
        BY <1>7 DEF Discovery!ScanBlock
    <2>2. Discovery!CreatedIn(poll.next) \subseteq ArcTokens
        BY DEF Discovery!CreatedIn
    <2>3. DiscoveryTypes'
        BY <1>7, <2>1, <2>2 DEF Discovery!ScanBlock, DiscoveryTypes
    <2>4. poll.pc = "scan" /\ poll.next <= poll.latest /\ rows \subseteq rows'
        BY <1>7, <2>1 DEF Discovery!ScanBlock, Discovery!ScanEnd, Discovery!Smaller, PollTypes,
           ScanInv, PollOK
    <2>5. /\ DOMAIN poll' = DOMAIN poll /\ poll'.pc \in {"scan", "commit"}
          /\ poll'.latest = poll.latest /\ poll'.from = poll.from
          /\ poll'.shown = poll.shown /\ poll'.known = poll.known
          /\ poll'.next = poll.next \/ poll'.next = poll.next + 1
        BY <1>0, <2>1, <2>4 DEF Discovery!PastBlock
    <2>6. PollTypes'
        BY <2>4, <2>5 DEF PollTypes, Discovery!Stages
    <2>7. ReachOK'
        BY <2>4, <2>5 DEF ReachOK, PollTypes, ScanInv, PollOK
    <2> QED
        BY <2>3, <2>6, <2>7
  <1>8. CASE Discovery!UnreadBlock
      BY <1>0, <1>8 DEF Discovery!UnreadBlock, DiscoveryTypes, PollTypes, ReachOK,
         Discovery!Stages
  <1>9. CASE Discovery!Commit
    <2>1. poll' = Discovery!NoPoll
        BY <1>9 DEF Discovery!Commit
    <2>2. poll.pc \in {"scan", "commit"}
        BY <1>9 DEF Discovery!Commit
    <2>3. Discovery!Scanned(poll) => poll.next - 1 \in 0 .. MaxHead /\ poll.from \in 0 .. MaxHead
        BY <2>2 DEF Discovery!Scanned, ReachOK, PollTypes, Discovery!Unread
    <2>4. DiscoveryTypes'
        BY <1>9, <2>3 DEF Discovery!Commit, DiscoveryTypes
    <2> QED
        BY <2>1, <2>4, IdleKeepsTypes
  <1> QED
      BY <1>1, <1>2, <1>3, <1>4, <1>5, <1>6, <1>7, <1>8, <1>9 DEF Discovery!Poll

LEMMA DiscoveryStep ==
    ASSUME DiscoveryInv, [Discovery!Next]_discoveryVars PROVE DiscoveryInv'
  <1> USE DiscoveryAssumption
  <1>1. ScanInv'
      BY ScanInductive DEF DiscoveryInv
  <1>2. CASE Discovery!Poll
      BY <1>1, <1>2, PollKeepsTypes DEF DiscoveryInv
  <1>3. CASE Discovery!Abort
    <2>1. poll' = Discovery!NoPoll /\ DiscoveryTypes'
        BY <1>3 DEF Discovery!Abort, DiscoveryInv, DiscoveryTypes
    <2> QED
        BY <1>1, <2>1, IdleKeepsTypes DEF DiscoveryInv
  <1>4. CASE Discovery!InventoryAges \/ Discovery!NewBlock
    <2>1. DiscoveryTypes'
        BY <1>4 DEF Discovery!InventoryAges, Discovery!NewBlock, DiscoveryInv, DiscoveryTypes
    <2>2. UNCHANGED <<poll, rows>>
        BY <1>4 DEF Discovery!InventoryAges, Discovery!NewBlock
    <2> QED
        BY <1>1, <2>1, <2>2 DEF DiscoveryInv, PollTypes, ReachOK
  <1>5. CASE \E t \in ArcTokens : Discovery!Analyse(t)
    <2>1. DiscoveryTypes' /\ UNCHANGED poll /\ rows \subseteq rows'
        BY <1>5 DEF Discovery!Analyse, DiscoveryInv, DiscoveryTypes
    <2> QED
        BY <1>1, <2>1 DEF DiscoveryInv, PollTypes, ReachOK
  <1>6. CASE UNCHANGED discoveryVars
      BY <1>1, <1>6 DEF discoveryVars, DiscoveryInv, DiscoveryTypes, PollTypes, ReachOK
  <1> QED
      BY <1>2, <1>3, <1>4, <1>5, <1>6 DEF Discovery!Next

LEMMA DiscoveryPromises == DiscoveryInv => Discovery!TypeOK /\ NoCreationSkipped
  <1> SUFFICES ASSUME DiscoveryInv PROVE Discovery!TypeOK /\ NoCreationSkipped
      OBVIOUS
  <1>1. NoCreationSkipped
      BY DEF DiscoveryInv, ScanInv, NoCreationSkipped
  <1>2. Discovery!TypeOK
      BY DEF DiscoveryInv, DiscoveryTypes, PollTypes, Discovery!TypeOK
  <1> QED
      BY <1>1, <1>2

-----------------------------------------------------------------------------
(* The analysis queue.                                                      *)

Job == [state : AnalysisLoop!JobStates, tries : 0 .. Attempts]
KindJobs == [QueueTokens -> Job]

LEMMA JobTypes ==
    /\ AnalysisLoop!NoJob \in Job /\ AnalysisLoop!Waiting \in Job
    /\ \A j \in Job : \A s \in AnalysisLoop!JobStates : [j EXCEPT !.state = s] \in Job
    /\ \A j \in Job : j.tries > 1 => [state |-> "waiting", tries |-> j.tries - 1] \in Job
  BY QueueAssumption DEF Job, AnalysisLoop!JobStates, AnalysisLoop!NoJob, AnalysisLoop!Waiting

LEMMA AddedTypes ==
    ASSUME AnalysisLoop!TypeOK, NEW k \in AnalysisLoop!Kinds, NEW batch
    PROVE  AnalysisLoop!Added(k, batch) \in [AnalysisLoop!Kinds -> KindJobs]
  <1> DEFINE added == [t \in QueueTokens |->
                          IF t \in batch /\ jobs[k][t] = AnalysisLoop!NoJob
                          THEN AnalysisLoop!Waiting ELSE jobs[k][t]]
  <1>1. jobs \in [AnalysisLoop!Kinds -> KindJobs]
      BY DEF AnalysisLoop!TypeOK, KindJobs, Job
  <1>2. added \in KindJobs
      BY <1>1, JobTypes DEF KindJobs
  <1>3. AnalysisLoop!Added(k, batch) = [jobs EXCEPT ![k] = added]
      BY DEF AnalysisLoop!Added
  <1> HIDE DEF added
  <1> QED
      BY <1>1, <1>2, <1>3

LEMMA QueueTypes ==
    ASSUME AnalysisLoop!TypeOK, NEW k \in AnalysisLoop!Kinds, NEW batch,
           AnalysisLoop!Queue(k, batch)
    PROVE  jobs' \in [AnalysisLoop!Kinds -> KindJobs]
  BY AddedTypes DEF AnalysisLoop!Queue

\* A job that failed is gone, waits with one attempt less, or has none left.
LEMMA FailureTypes ==
    ASSUME NEW k, NEW t \in QueueTokens, NEW j \in KindJobs
    PROVE  AnalysisLoop!AfterFailure(k, t, j) \in KindJobs
  <1>1. j[t] \in Job
      BY DEF KindJobs
  <1>2. \A n \in Job : [j EXCEPT ![t] = n] \in KindJobs
      BY DEF KindJobs
  <1>3. [j[t] EXCEPT !.state = "failed"] \in Job
      BY <1>1, JobTypes DEF AnalysisLoop!JobStates
  <1>4. [j EXCEPT ![t].state = "failed"] = [j EXCEPT ![t] = [j[t] EXCEPT !.state = "failed"]]
      BY DEF KindJobs
  <1>5. [j EXCEPT ![t] = [state |-> "waiting", tries |-> @.tries - 1]]
            = [j EXCEPT ![t] = [state |-> "waiting", tries |-> j[t].tries - 1]]
      OBVIOUS
  <1>6. j[t].tries > 1 => [j EXCEPT ![t] = [state |-> "waiting", tries |-> @.tries - 1]] \in KindJobs
      BY <1>1, <1>2, <1>5, JobTypes
  <1>7. [j EXCEPT ![t].state = "failed"] \in KindJobs
      BY <1>2, <1>3, <1>4
  <1> QED
      BY <1>2, <1>6, <1>7, JobTypes DEF AnalysisLoop!AfterFailure

LEMMA QueueStep ==
    ASSUME AnalysisLoop!TypeOK, [AnalysisLoop!Next]_backlogVars PROVE AnalysisLoop!TypeOK'
  <1>0. /\ jobs \in [AnalysisLoop!Kinds -> KindJobs]
        /\ \A k \in AnalysisLoop!Kinds, t \in QueueTokens : jobs[k][t] \in Job
      BY DEF AnalysisLoop!TypeOK, KindJobs, Job
  <1> DEFINE JobsOK == jobs' \in [AnalysisLoop!Kinds -> KindJobs]
             RestOK == /\ known' \in SUBSET QueueTokens /\ done' \in SUBSET known'
                       /\ inline' \in BOOLEAN /\ cachedEvents' \in {"none", "reading", "read"}
  <1> SUFFICES JobsOK /\ RestOK
      BY DEF AnalysisLoop!TypeOK, KindJobs, Job
  <1> HIDE DEF JobsOK
  <1>1. ASSUME NEW t \in QueueTokens, AnalysisLoop!Discover(t) \/ AnalysisLoop!Ask(t)
        PROVE  JobsOK /\ RestOK
    <2>1. "asked" \in AnalysisLoop!Kinds
        BY DEF AnalysisLoop!Kinds
    <2>2. JobsOK
        BY <1>0, <1>1, <2>1, AddedTypes DEF AnalysisLoop!Discover, AnalysisLoop!Ask, JobsOK
    <2> QED
        BY <1>1, <2>2 DEF AnalysisLoop!Discover, AnalysisLoop!Ask, AnalysisLoop!TypeOK
  <1>2. ASSUME NEW offered, AnalysisLoop!OfferFound(offered) PROVE JobsOK /\ RestOK
    <2>1. "recent" \in AnalysisLoop!Kinds
        BY DEF AnalysisLoop!Kinds
    <2>2. JobsOK
        BY <1>2, <2>1, QueueTypes DEF AnalysisLoop!OfferFound, JobsOK
    <2> QED
        BY <1>2, <2>2 DEF AnalysisLoop!OfferFound, AnalysisLoop!TypeOK
  <1>3. CASE AnalysisLoop!Backfill
    <2>1. "backfill" \in AnalysisLoop!Kinds
        BY DEF AnalysisLoop!Kinds
    <2>2. JobsOK
        BY <1>3, <2>1, QueueTypes DEF AnalysisLoop!Backfill, JobsOK
    <2> QED
        BY <1>3, <2>2 DEF AnalysisLoop!Backfill, AnalysisLoop!TypeOK
  <1>4. ASSUME NEW k \in AnalysisLoop!Kinds, NEW t \in QueueTokens, AnalysisLoop!Start(k, t)
        PROVE  JobsOK /\ RestOK
    <2>1. PICK s \in AnalysisLoop!JobStates : jobs' = [jobs EXCEPT ![k][t].state = s]
        BY <1>4 DEF AnalysisLoop!Start, AnalysisLoop!JobStates
    <2>2. [jobs[k] EXCEPT ![t] = [jobs[k][t] EXCEPT !.state = s]] \in KindJobs
        BY <1>0, JobTypes DEF KindJobs
    <2>3. jobs' = [jobs EXCEPT ![k] = [jobs[k] EXCEPT ![t] = [jobs[k][t] EXCEPT !.state = s]]]
        BY <1>0, <2>1 DEF KindJobs
    <2>4. JobsOK
        BY <1>0, <2>2, <2>3 DEF JobsOK
    <2> QED
        BY <1>4, <2>4 DEF AnalysisLoop!Start, AnalysisLoop!TypeOK
  <1>5. ASSUME NEW k \in AnalysisLoop!Kinds, NEW t \in QueueTokens, AnalysisLoop!Finish(k, t)
        PROVE  JobsOK /\ RestOK
    <2>1. CASE /\ known' = known \union {t} /\ done' = done \union {t}
               /\ jobs' = [jobs EXCEPT ![k][t] = AnalysisLoop!NoJob]
      <3>1. [jobs[k] EXCEPT ![t] = AnalysisLoop!NoJob] \in KindJobs
          BY <1>0, JobTypes DEF KindJobs
      <3>2. jobs' = [jobs EXCEPT ![k] = [jobs[k] EXCEPT ![t] = AnalysisLoop!NoJob]]
          BY <1>0, <2>1 DEF KindJobs
      <3>3. JobsOK
          BY <1>0, <3>1, <3>2 DEF JobsOK
      <3> QED
          BY <1>5, <2>1, <3>3 DEF AnalysisLoop!Finish, AnalysisLoop!TypeOK
    <2>2. CASE /\ jobs' = [jobs EXCEPT ![k] = AnalysisLoop!AfterFailure(k, t, @)]
               /\ UNCHANGED <<known, done>>
      <3>1. AnalysisLoop!AfterFailure(k, t, jobs[k]) \in KindJobs
          BY <1>0, FailureTypes
      <3>2. JobsOK
          BY <1>0, <2>2, <3>1 DEF JobsOK
      <3> QED
          BY <1>5, <2>2, <3>2 DEF AnalysisLoop!Finish, AnalysisLoop!TypeOK
    <2> QED
        BY <1>5, <2>1, <2>2 DEF AnalysisLoop!Finish
  <1>6. CASE AnalysisLoop!EventsRead \/ AnalysisLoop!EventsFail \/ AnalysisLoop!EventsExpire
    <2>1. CASE AnalysisLoop!EventsRead
      <3>1. \A j \in Job : [j EXCEPT !.state = "scoring"] \in Job
          BY JobTypes DEF AnalysisLoop!JobStates
      <3>2. JobsOK
          BY <1>0, <2>1, <3>1 DEF AnalysisLoop!EventsRead, JobsOK, KindJobs
      <3> QED
          BY <2>1, <3>2 DEF AnalysisLoop!EventsRead, AnalysisLoop!TypeOK
    <2>2. CASE AnalysisLoop!EventsFail
      <3>1. ASSUME NEW k \in AnalysisLoop!Kinds, NEW t \in QueueTokens
            PROVE  AnalysisLoop!AfterFailure(k, t, jobs[k])[t] \in Job
        <4>1. AnalysisLoop!AfterFailure(k, t, jobs[k]) \in KindJobs
            BY <1>0, FailureTypes
        <4> QED
            BY <4>1 DEF KindJobs
      <3>2. JobsOK
          BY <1>0, <2>2, <3>1 DEF AnalysisLoop!EventsFail, JobsOK, KindJobs
      <3> QED
          BY <2>2, <3>2 DEF AnalysisLoop!EventsFail, AnalysisLoop!TypeOK
    <2>3. CASE AnalysisLoop!EventsExpire
        BY <1>0, <2>3 DEF AnalysisLoop!EventsExpire, AnalysisLoop!TypeOK, JobsOK
    <2> QED
        BY <1>6, <2>1, <2>2, <2>3
  <1>7. CASE AnalysisLoop!HourTurns
    <2>1. JobsOK
        BY <1>0, <1>7, JobTypes DEF AnalysisLoop!HourTurns, JobsOK, KindJobs
    <2> QED
        BY <1>7, <2>1 DEF AnalysisLoop!HourTurns, AnalysisLoop!TypeOK
  <1>8. ASSUME NEW r \in BOOLEAN, AnalysisLoop!Restart(r) PROVE JobsOK /\ RestOK
    <2>1. \A j \in Job : [j EXCEPT !.state = "waiting"] \in Job
        BY JobTypes DEF AnalysisLoop!JobStates
    <2>2. JobsOK
        BY <1>0, <1>8, <2>1, JobTypes DEF AnalysisLoop!Restart, JobsOK, KindJobs
    <2> QED
        BY <1>8, <2>2 DEF AnalysisLoop!Restart, AnalysisLoop!TypeOK
  <1>9. CASE UNCHANGED backlogVars
      BY <1>0, <1>9 DEF backlogVars, AnalysisLoop!TypeOK, JobsOK
  <1> QED
      BY <1>1, <1>2, <1>3, <1>4, <1>5, <1>6, <1>7, <1>8, <1>9 DEF AnalysisLoop!Next

LEMMA QueueInitially == AnalysisLoop!Init => AnalysisLoop!TypeOK
  <1> SUFFICES ASSUME AnalysisLoop!Init PROVE AnalysisLoop!TypeOK
      OBVIOUS
  <1>1. jobs \in [AnalysisLoop!Kinds -> KindJobs]
      BY JobTypes DEF AnalysisLoop!Init, KindJobs
  <1> QED
      BY <1>1 DEF AnalysisLoop!Init, AnalysisLoop!TypeOK, KindJobs, Job

-----------------------------------------------------------------------------
(* A page of a set, by its order.                                           *)

Before(S, i) == {j \in S : j < i}

\* The first n elements of a set of numbers.
First(S, n) == {i \in S : Cardinality(Before(S, i)) < n}

\* There are at most n, and others are only left out when there are n, all before
\* them.
LEMMA FirstOf ==
    ASSUME NEW S, IsFiniteSet(S), S \subseteq Int, NEW n \in Nat
    PROVE  LET T == First(S, n)
           IN  /\ IsFiniteSet(T) /\ Cardinality(T) \in Nat /\ Cardinality(T) <= n
               /\ \A i \in S \ T : Cardinality(T) = n /\ \A j \in T : j < i
  <1> DEFINE T == First(S, n)
  <1>1. \A i : IsFiniteSet(Before(S, i)) /\ Cardinality(Before(S, i)) \in Nat
    <2> SUFFICES ASSUME NEW i
                 PROVE  IsFiniteSet(Before(S, i)) /\ Cardinality(Before(S, i)) \in Nat
        OBVIOUS
    <2>1. Before(S, i) \subseteq S
        BY DEF Before
    <2>2. IsFiniteSet(Before(S, i))
        BY <2>1, FS_Subset
    <2> QED
        BY <2>2, FS_CardinalityType
  <1>2. T \subseteq S /\ \A i \in S : i \in T <=> Cardinality(Before(S, i)) < n
      BY DEF First
  <1> HIDE DEF T
  <1>3. IsFiniteSet(T)
      BY <1>2, FS_Subset
  <1>4. Cardinality(T) \in Nat
      BY <1>3, FS_CardinalityType
  <1>5. Cardinality(T) <= n
    <2>1. CASE T = {}
      <3>1. Cardinality(T) = 0
          BY <2>1, FS_EmptySet
      <3> QED
          BY <3>1
    <2>2. CASE T # {}
      <3> DEFINE f == [x \in T |-> x]
      <3>1. \E m \in T : \A x \in T : f[x] <= f[m]
        <4>1. \A x \in T : f[x] \in Int
            BY <1>2
        <4> HIDE DEF f
        <4> QED
            BY <1>3, <2>2, <4>1, Greatest
      <3>2. PICK m \in T : \A x \in T : x <= m
          BY <3>1
      <3>3. T \ {m} \subseteq Before(S, m)
          BY <1>2, <3>2 DEF Before
      <3>4. Cardinality(T \ {m}) <= Cardinality(Before(S, m))
          BY <1>1, <3>3, FS_Subset
      <3>5. Cardinality(T \ {m}) = Cardinality(T) - 1
          BY <1>3, FS_RemoveElement
      <3> QED
          BY <1>1, <1>2, <1>4, <3>2, <3>4, <3>5
    <2> QED
        BY <2>1, <2>2
  <1>6. ASSUME NEW i \in S \ T PROVE Cardinality(T) = n /\ \A j \in T : j < i
    <2> DEFINE R == S \ T
               f == [x \in R |-> 0 - x]
    <2>1. \E m \in R : \A x \in R : f[x] <= f[m]
      <3>1. IsFiniteSet(R) /\ R # {}
          BY <1>6, FS_Subset
      <3>2. \A x \in R : f[x] \in Int
          OBVIOUS
      <3> HIDE DEF f, R
      <3> QED
          BY <3>1, <3>2, Greatest
    <2>2. PICK m \in R : \A x \in R : 0 - x <= 0 - m
        BY <2>1
    <2>3. m \in S \ T /\ m \in Int /\ \A x \in S \ T : m <= x
      <3>1. m \in S \ T /\ m \in Int /\ \A x \in S \ T : x \in Int
          OBVIOUS
      <3> QED
          BY <2>2, <3>1
    <2>4. ~(Cardinality(Before(S, m)) < n)
        BY <1>2, <2>3
    <2>5. T \subseteq Before(S, m)
      <3> SUFFICES ASSUME NEW j \in T, ~(j < m) PROVE FALSE
          BY <1>2 DEF Before
      <3>1. j \in S /\ m < j
          BY <1>2, <2>3
      <3>2. Before(S, m) \subseteq Before(S, j)
        <4>1. m \in Int /\ j \in Int /\ m < j
            BY <2>3, <3>1
        <4>2. \A x \in S : x < m => x < j
            BY <4>1
        <4> QED
            BY <4>2 DEF Before
      <3>3. Cardinality(Before(S, m)) <= Cardinality(Before(S, j))
          BY <1>1, <3>2, FS_Subset
      <3>4. Cardinality(Before(S, j)) < n
          BY <1>2
      <3> QED
          BY <1>1, <2>4, <3>3, <3>4
    <2>6. Before(S, m) \subseteq T
      <3> SUFFICES ASSUME NEW x \in S, x < m PROVE x \in T
          BY DEF Before
      <3>1. x \in S \ T => m <= x
          BY <2>3
      <3> QED
          BY <2>3, <3>1
    <2>7. Before(S, m) = T
        BY <2>5, <2>6
    <2>8. Cardinality(T) = n
        BY <1>4, <1>5, <2>4, <2>7
    <2>9. \A j \in T : j < m
        BY <2>5 DEF Before
    <2> QED
        BY <1>2, <2>3, <2>8, <2>9
  <1> QED
      BY <1>3, <1>4, <1>5, <1>6 DEF T

-----------------------------------------------------------------------------
(* The alert engine.                                                        *)

\* A page that is full has a last row, from which the next one continues.
LEMMA LastOfPage ==
    ASSUME NEW page, page \subseteq Ids, Cardinality(page) >= WatchPage
    PROVE  Max(page) \in page /\ \A x \in page : x <= Max(page)
  <1>1. IsFiniteSet(page) /\ page # {}
    <2>1. IsFiniteSet(page)
        BY WatchAssumption, FS_Subset
    <2>2. Cardinality({}) = 0
        BY FS_EmptySet
    <2>3. Cardinality(page) # 0
        BY WatchAssumption, <2>1, FS_CardinalityType
    <2> QED
        BY <2>1, <2>2, <2>3
  <1> DEFINE f == [x \in page |-> x]
  <1>2. \E m \in page : \A x \in page : f[x] <= f[m]
    <2>1. \A x \in page : f[x] \in Int
        BY WatchAssumption
    <2> HIDE DEF f
    <2> QED
        BY <1>1, <2>1, Greatest
  <1>3. PICK m \in page : \A x \in page : x <= m
      BY <1>2
  <1>4. page \subseteq Int
      BY WatchAssumption
  <1> QED
      BY <1>3, <1>4, MaxIs

LEMMA AlertSeverities ==
    ASSUME NEW i, NEW recentEvents, NEW a \in Engine!DueFor(i, recentEvents)
    PROVE  a.severity \in {"medium", "high", "critical"}
  BY DEF Engine!DueFor, Engine!TokenAlerts, Engine!WalletAlerts, Engine!Alert

\* The engine counts and compares like anyone else.
LEMMA EngineCounts ==
    ASSUME NEW s PROVE Engine!Cardinality(s) = Cardinality(s) /\ Engine!Max(s) = Max(s)
  <1>1. Engine!Cardinality(s) = Cardinality(s)
      BY Zenon DEF Engine!Cardinality, Cardinality
  <1>2. Engine!Max(s) = Max(s)
      BY Zenon DEF Engine!Max, Max
  <1> QED
      BY <1>1, <1>2

AlertInv == Engine!TypeOK /\ {"running", "events", "after"} \subseteq DOMAIN tick

LEMMA AlertInitially == Engine!Init => AlertInv
  BY DEF Engine!Init, AlertInv, Engine!TypeOK, Engine!Idle, Engine!TokenSignals

LEMMA AlertPage == ASSUME AlertInv, Engine!Page PROVE AlertInv'
  <1> DEFINE page == Engine!PageAfter(tick.after)
             due == UNION {Engine!DueFor(i, tick.events) : i \in page}
  <1>1. alerts' \subseteq alerts \union due
      BY DEF Engine!Page, Engine!Emit
  <1>2. \A a \in alerts' : a.severity \in {"medium", "high", "critical"}
      BY <1>1, AlertSeverities DEF AlertInv, Engine!TypeOK
  <1>3. page \subseteq Ids
      BY DEF Engine!PageAfter, AlertInv, Engine!TypeOK
  <1>4. tick' = IF Cardinality(page) < WatchPage THEN Engine!Idle
                ELSE [tick EXCEPT !.after = Max(page)]
    <2>1. tick' = IF Engine!Cardinality(page) < WatchPage THEN Engine!Idle
                  ELSE [tick EXCEPT !.after = Engine!Max(page)]
        BY Zenon DEF Engine!Page
    <2> QED
      <3> HIDE DEF page
      <3>1. Engine!Cardinality(page) = Cardinality(page) /\ Engine!Max(page) = Max(page)
          BY EngineCounts
      <3> QED
          BY <2>1, <3>1, Zenon
  <1>5. UNCHANGED <<watches, status, recent, token>>
      BY DEF Engine!Page
  <1> HIDE DEF page
  <1>6. Cardinality(page) \in Nat
      BY <1>3, WatchAssumption, FS_Subset, FS_CardinalityType
  <1>7. CASE Cardinality(page) < WatchPage
      BY <1>2, <1>4, <1>5, <1>7 DEF AlertInv, Engine!TypeOK, Engine!Idle
  <1>8. CASE ~(Cardinality(page) < WatchPage)
    <2>1. Cardinality(page) >= WatchPage
        BY <1>6, <1>8, WatchAssumption
    <2>2. Max(page) \in Ids
        BY <1>3, <2>1, LastOfPage
    <2> QED
        BY <1>2, <1>4, <1>5, <1>8, <2>2 DEF AlertInv, Engine!TypeOK
  <1> QED
      BY <1>7, <1>8

\* A page of the watchlist that is reported whole leaves an alert, of whatever
\* severity, for everything due to a watcher behind the cursor row whom the tick
\* does not come back to.
NobodyPassedOver ==
    [][Engine!Page /\ ~Engine!Fails /\ tick.after \in watches \union {Engine!None} =>
         \A i \in watches : i > tick.after /\ (tick'.running => i <= tick'.after) =>
           \A a \in Engine!DueFor(i, tick.events) : \E b \in alerts' : b.key = a.key]_alertVars

LEMMA PageReaches ==
    ASSUME AlertInv, Engine!Page, ~Engine!Fails, tick.after \in watches \union {Engine!None},
           NEW i \in watches, i > tick.after, tick'.running => i <= tick'.after,
           NEW a \in Engine!DueFor(i, tick.events)
    PROVE  \E b \in alerts' : b.key = a.key
  <1> DEFINE rest == {j \in watches : j > tick.after}
             page == Engine!PageAfter(tick.after)
             due == UNION {Engine!DueFor(j, tick.events) : j \in page}
  <1>1. /\ watches \subseteq Ids /\ \A j \in watches : j \in Int /\ j > 0
        /\ (tick.after = 0 \/ (tick.after \in watches /\ tick.after # 0))
    <2>1. watches \subseteq Ids
        BY DEF AlertInv, Engine!TypeOK
    <2>2. Ids \subseteq Nat \ {0}
        BY WatchAssumption
    <2>3. tick.after = 0 \/ tick.after \in watches
        BY DEF Engine!None
    <2> QED
        BY <2>1, <2>2, <2>3
  <1>2. page = First(rest, WatchPage)
    <2>1. page = {j \in rest : Engine!Cardinality({k \in rest : k < j}) < WatchPage}
      <3>1. CASE tick.after = 0
        <4>1. rest = watches
            BY <3>1, <1>1
        <4> HIDE DEF rest
        <4> QED
            BY <3>1, <4>1 DEF Engine!PageAfter, Engine!None
      <3>2. CASE tick.after \in watches /\ tick.after # 0
          BY <3>2 DEF Engine!PageAfter, Engine!None
      <3> QED
          BY <1>1, <3>1, <3>2
    <2> HIDE DEF rest, page
    <2>2. \A j : Engine!Cardinality({k \in rest : k < j}) = Cardinality({k \in rest : k < j})
        BY EngineCounts
    <2> QED
        BY <2>1, <2>2 DEF First, Before
  <1>3. IsFiniteSet(rest) /\ rest \subseteq Int /\ i \in rest /\ rest \subseteq Ids
      BY <1>1, WatchAssumption, FS_Subset
  <1>4. alerts' = Engine!Emit(due)
      BY DEF Engine!Page
  <1>5. tick' = IF Cardinality(page) < WatchPage THEN Engine!Idle
                ELSE [tick EXCEPT !.after = Max(page)]
    <2>1. tick' = IF Engine!Cardinality(page) < WatchPage THEN Engine!Idle
                  ELSE [tick EXCEPT !.after = Engine!Max(page)]
        BY Zenon DEF Engine!Page
    <2> HIDE DEF page
    <2>2. Engine!Cardinality(page) = Cardinality(page) /\ Engine!Max(page) = Max(page)
        BY EngineCounts
    <2> QED
        BY <2>1, <2>2, Zenon
  <1>6. tick.running /\ {"running", "after"} \subseteq DOMAIN tick
      BY DEF Engine!Page, AlertInv
  <1> HIDE DEF rest, page
  <1>7. i \in page
    <2>1. /\ Cardinality(page) \in Nat /\ page \subseteq rest
          /\ \A j \in rest \ page : Cardinality(page) = WatchPage /\ \A k \in page : k < j
        BY <1>2, <1>3, WatchAssumption, FirstOf DEF First
    <2> SUFFICES ASSUME i \notin page PROVE FALSE
        OBVIOUS
    <2>2. Cardinality(page) = WatchPage /\ \A k \in page : k < i
        BY <1>3, <2>1
    <2>3. Cardinality(page) >= WatchPage /\ ~(Cardinality(page) < WatchPage)
        BY <2>2, WatchAssumption
    <2>4. Max(page) \in page
        BY <1>3, <2>1, <2>3, LastOfPage
    <2>5. tick'.running /\ tick'.after = Max(page)
        BY <1>5, <1>6, <2>3
    <2>6. i <= Max(page)
        BY <2>5, Zenon
    <2>7. Max(page) < i
        BY <2>2, <2>4, Zenon
    <2>8. Max(page) \in Int /\ i \in Int
        BY <1>3, <2>1, <2>4
    <2> QED
        BY <2>6, <2>7, <2>8
  <1>8. a \in due
      BY <1>7
  <1> HIDE DEF due
  <1> QED
      BY <1>4, <1>8 DEF Engine!Emit

LEMMA AlertStep == ASSUME AlertInv, [Engine!Next]_alertVars PROVE AlertInv'
  <1>1. ASSUME NEW i \in Ids, Engine!AddWatch(i) \/ Engine!DropWatch(i) PROVE AlertInv'
      BY <1>1 DEF Engine!AddWatch, Engine!DropWatch, AlertInv, Engine!TypeOK
  <1>2. ASSUME NEW e \in Events,
               Engine!Age(e) \/ \E s \in {"confirmed", "rejected"} : Engine!Review(e, s)
        PROVE AlertInv'
      BY <1>2 DEF Engine!Age, Engine!Review, AlertInv, Engine!TypeOK
  <1>3. ASSUME NEW t \in Engine!WatchedTokens, NEW s \in TokenStates, Engine!Reanalyse(t, s)
        PROVE AlertInv'
      BY <1>3, WatchAssumption DEF Engine!Reanalyse, AlertInv, Engine!TypeOK, Engine!TokenSignals
  <1>4. CASE Engine!ReadEvents
    <2>1. Engine!Newest(Engine!Confirmed, EventsTaken) \subseteq Events
        BY DEF Engine!Newest, Engine!Confirmed, AlertInv, Engine!TypeOK
    <2> QED
        BY <1>4, <2>1 DEF Engine!ReadEvents, AlertInv, Engine!TypeOK
  <1>5. CASE Engine!Abort
      BY <1>5 DEF Engine!Abort, Engine!Idle, AlertInv, Engine!TypeOK
  <1>6. CASE UNCHANGED alertVars
      BY <1>6 DEF alertVars, AlertInv, Engine!TypeOK
  <1> QED
      BY <1>1, <1>2, <1>3, <1>4, <1>5, <1>6, AlertPage DEF Engine!Next

-----------------------------------------------------------------------------
(* The bridge feed.                                                         *)

\* One refresh runs while the promise is set, and none else.
OneRefresh == (inFlight /\ loads = 1) \/ (~inFlight /\ loads = 0)

FeedInv == Feed!TypeOK /\ OneRefresh

LEMMA FeedInitially == Feed!Init => FeedInv
  <1> SUFFICES ASSUME Feed!Init PROVE FeedInv
      OBVIOUS
  <1>1. OneRefresh
      BY DEF Feed!Init, OneRefresh
  <1>2. loads \in 0 .. 1
      BY DEF Feed!Init
  <1> QED
      BY <1>1, <1>2 DEF Feed!Init, FeedInv, Feed!TypeOK

LEMMA FeedStep == ASSUME FeedInv, [Feed!Next]_feedVars PROVE FeedInv'
  <1>0. /\ snapshot \in {"none", "fresh", "expired"} /\ inFlight \in BOOLEAN /\ blocked \in BOOLEAN
        /\ reader \in [Readers -> {"waiting", "served", "refused"}]
        /\ OneRefresh
      BY DEF FeedInv, Feed!TypeOK
  <1>1. ASSUME NEW s \in {"none", "fresh", "expired"}, snapshot' = s,
               inFlight' \in BOOLEAN, blocked' \in BOOLEAN,
               reader' \in [Readers -> {"waiting", "served", "refused"}],
               OneRefresh'
        PROVE  FeedInv'
    <2>1. loads' \in 0 .. 1
        BY <1>1 DEF OneRefresh
    <2> QED
        BY <1>1, <2>1 DEF FeedInv, Feed!TypeOK
  <1>2. Feed!StartRefresh => inFlight' = TRUE /\ OneRefresh'
    <2>1. Feed!StartRefresh => inFlight' = TRUE
        BY DEF Feed!StartRefresh
    <2>2. Feed!StartRefresh => loads' = 1
        BY <1>0 DEF Feed!StartRefresh, OneRefresh
    <2> QED
        BY <2>1, <2>2 DEF OneRefresh
  <1>3. UNCHANGED <<inFlight, loads>> => OneRefresh'
      BY <1>0 DEF OneRefresh
  <1>4. inFlight' = FALSE /\ loads' = 0 => OneRefresh'
      BY DEF OneRefresh
  <1>5. loads > 0 /\ loads' = loads - 1 => loads' = 0
      BY <1>0 DEF OneRefresh
  <1>6. \A got \in {"served", "refused"} :
           Feed!Waiters(got) \in [Readers -> {"waiting", "served", "refused"}]
      BY <1>0 DEF Feed!Waiters
  <1>7. ASSUME NEW r \in Readers, Feed!Ask(r) PROVE FeedInv'
    <2>1. /\ snapshot' = snapshot /\ blocked' = blocked
          /\ reader' \in [Readers -> {"waiting", "served", "refused"}]
        BY <1>0, <1>7 DEF Feed!Ask
    <2>2. Feed!StartRefresh \/ Feed!NoRefresh
        BY <1>7, Zenon DEF Feed!Ask
    <2>3. inFlight' \in BOOLEAN /\ OneRefresh'
        BY <1>0, <1>2, <1>3, <2>2 DEF Feed!NoRefresh
    <2> QED
        BY <1>0, <1>1, <2>1, <2>3
  <1>8. CASE Feed!Loaded \/ Feed!LoadFails
    <2>1. inFlight' = FALSE /\ blocked' \in BOOLEAN
        BY <1>8, Zenon DEF Feed!Loaded, Feed!LoadFails, Feed!GiveUp
    <2>2. loads' = 0
        BY <1>5, <1>8, Zenon DEF Feed!Loaded, Feed!LoadFails
    <2>3. /\ snapshot' \in {"none", "fresh", "expired"}
          /\ reader' \in [Readers -> {"waiting", "served", "refused"}]
        BY <1>0, <1>6, <1>8 DEF Feed!Loaded, Feed!LoadFails
    <2> QED
        BY <1>1, <1>4, <2>1, <2>2, <2>3
  <1>9. CASE Feed!Expire \/ Feed!BackoffEnds
    <2>1. UNCHANGED <<inFlight, loads, reader>> /\ blocked' \in BOOLEAN
        BY <1>0, <1>9, Zenon DEF Feed!Expire, Feed!BackoffEnds
    <2>2. snapshot' \in {"none", "fresh", "expired"}
        BY <1>0, <1>9 DEF Feed!Expire, Feed!BackoffEnds
    <2> QED
        BY <1>0, <1>1, <1>3, <2>1, <2>2
  <1>10. CASE Feed!ApiRestarts
    <2>1. inFlight' = FALSE /\ loads' = 0 /\ blocked' = FALSE /\ snapshot' = "none"
        BY <1>10, Zenon DEF Feed!ApiRestarts
    <2>2. reader' \in [Readers -> {"waiting", "served", "refused"}]
        BY <1>6, <1>10 DEF Feed!ApiRestarts
    <2> QED
        BY <1>1, <1>4, <2>1, <2>2
  <1>11. CASE UNCHANGED feedVars
      BY <1>0, <1>1, <1>3, <1>11 DEF feedVars
  <1> QED
      BY <1>7, <1>8, <1>9, <1>10, <1>11 DEF Feed!Next

-----------------------------------------------------------------------------
(* The settlement schedule.                                                 *)

OneEach(s) == \A i, j \in DOMAIN s : s[i] = s[j] => i = j

\* Taking a row out of the order leaves the others, in their order.
LEMMA WithoutRow ==
    ASSUME NEW S, order \in Seq(S), OneEach(order), NEW b
    PROVE  Settlement!Without(b) \in Seq(S \ {b}) /\ OneEach(Settlement!Without(b))
  <1>1. CASE b \notin Settlement!Range(order)
    <2>1. Settlement!Without(b) = order
        BY <1>1 DEF Settlement!Without
    <2>2. \A i \in 1 .. Len(order) : order[i] \in S \ {b}
        BY <1>1 DEF Settlement!Range
    <2> QED
        BY <2>1, <2>2
  <1>2. CASE b \in Settlement!Range(order)
    <2> DEFINE i == CHOOSE k \in DOMAIN order : order[k] = b
               n == Len(order)
               w == Settlement!RemoveAt(order, i)
    <2>1. i \in 1 .. n /\ order[i] = b /\ n \in Nat
        BY <1>2 DEF Settlement!Range
    <2>2. Settlement!Without(b) = w
        BY <1>2 DEF Settlement!Without
    <2> HIDE DEF i
    <2>3. w = SubSeq(order, 1, i - 1) \o SubSeq(order, i + 1, n)
        BY DEF Settlement!RemoveAt
    <2>4. /\ SubSeq(order, 1, i - 1) \in Seq(S) /\ Len(SubSeq(order, 1, i - 1)) = i - 1
          /\ \A k \in 1 .. i - 1 : SubSeq(order, 1, i - 1)[k] = order[k]
        BY <2>1
    <2>5. /\ SubSeq(order, i + 1, n) \in Seq(S) /\ Len(SubSeq(order, i + 1, n)) = n - i
          /\ \A k \in 1 .. n - i : SubSeq(order, i + 1, n)[k] = order[i + k]
        BY <2>1
    <2> HIDE DEF w
    <2>6. /\ w \in Seq(S) /\ Len(w) = n - 1
          /\ \A k \in 1 .. n - 1 : w[k] = IF k < i THEN order[k] ELSE order[k + 1]
      <3> DEFINE p == SubSeq(order, 1, i - 1)
                 q == SubSeq(order, i + 1, n)
      <3>1. /\ p \in Seq(S) /\ Len(p) = i - 1 /\ \A k \in 1 .. i - 1 : p[k] = order[k]
            /\ q \in Seq(S) /\ Len(q) = n - i /\ \A k \in 1 .. n - i : q[k] = order[i + k]
            /\ w = p \o q
          BY <2>3, <2>4, <2>5
      <3> HIDE DEF p, q, n
      <3>2. /\ p \o q \in Seq(S) /\ Len(p \o q) = Len(p) + Len(q)
            /\ \A k \in 1 .. Len(p) + Len(q) :
                  (p \o q)[k] = IF k <= Len(p) THEN p[k] ELSE q[k - Len(p)]
          BY <3>1, ConcatProperties
      <3>5. w \in Seq(S) /\ Len(w) = n - 1
          BY <2>1, <3>1, <3>2
      <3>3. \A k \in 1 .. n - 1 : w[k] = IF k <= i - 1 THEN p[k] ELSE q[k - (i - 1)]
          BY <2>1, <3>1, <3>2
      <3>4. ASSUME NEW k \in 1 .. n - 1
            PROVE  w[k] = IF k < i THEN order[k] ELSE order[k + 1]
        <4>1. CASE k < i
            BY <2>1, <3>1, <3>3, <4>1
        <4>2. CASE ~(k < i)
          <5>1. w[k] = q[k - (i - 1)]
              BY <2>1, <3>3, <4>2
          <5>2. k - (i - 1) \in 1 .. n - i /\ i + (k - (i - 1)) = k + 1
              BY <2>1, <4>2
          <5>3. q[k - (i - 1)] = order[i + (k - (i - 1))]
              BY <3>1, <5>2
          <5> QED
              BY <4>2, <5>1, <5>2, <5>3
        <4> QED
            BY <4>1, <4>2
      <3> QED
          BY <3>5, <3>4
    <2>7. \A k \in 1 .. n - 1 : w[k] \in S \ {b}
        BY <2>1, <2>6 DEF OneEach
    <2>8. w \in Seq(S \ {b})
        BY <2>1, <2>6, <2>7
    <2>9. OneEach(w)
        BY <2>1, <2>6 DEF OneEach
    <2> QED
        BY <2>2, <2>8, <2>9
  <1> QED
      BY <1>1, <1>2

\* A row that was not in the order takes its last place.
LEMMA LastRow ==
    ASSUME NEW S, NEW s \in Seq(S), OneEach(s), NEW b, \A i \in DOMAIN s : s[i] # b
    PROVE  Append(s, b) \in Seq(S \union {b}) /\ OneEach(Append(s, b))
  <1>1. Append(s, b) \in Seq(S \union {b}) /\ Len(Append(s, b)) = Len(s) + 1
      OBVIOUS
  <1>2. \A i \in 1 .. Len(s) + 1 : Append(s, b)[i] = IF i <= Len(s) THEN s[i] ELSE b
      OBVIOUS
  <1> QED
      BY <1>1, <1>2 DEF OneEach

ScheduleOK ==
    /\ age \in [Burns -> Settlement!Ages] /\ since \in [Burns -> Settlement!Spans]
    /\ confirmed \in SUBSET Burns
    /\ lanes \in [run : SUBSET Burns, stray : SUBSET Burns] /\ running \in BOOLEAN

OrderOK == order \in Seq(Burns \ confirmed) /\ OneEach(order)

LEMMA ScheduleTypes == Settlement!TypeOK <=> ScheduleOK /\ OrderOK
  BY DEF Settlement!TypeOK, ScheduleOK, OrderOK, OneEach

\* A row whose write moves it to the end.
LEMMA TouchKeeps ==
    ASSUME OrderOK, NEW b \in Burns, order' = Append(Settlement!Without(b), b),
           confirmed' = confirmed \ {b}
    PROVE  OrderOK'
  <1> DEFINE S == Burns \ confirmed
             w == Settlement!Without(b)
  <1>1. w \in Seq(S \ {b}) /\ OneEach(w)
    <2> HIDE DEF S
    <2> QED
        BY WithoutRow DEF OrderOK, S
  <1> HIDE DEF w
  <1>2. \A i \in DOMAIN w : w[i] # b
      BY <1>1
  <1>3. Append(w, b) \in Seq((S \ {b}) \union {b}) /\ OneEach(Append(w, b))
      BY <1>1, <1>2, LastRow
  <1>4. (S \ {b}) \union {b} = Burns \ (confirmed \ {b})
      OBVIOUS
  <1> QED
      BY <1>3, <1>4 DEF OrderOK, w

LEMMA ScheduleInitially == Settlement!Init => Settlement!TypeOK
  <1> SUFFICES ASSUME Settlement!Init PROVE Settlement!TypeOK
      OBVIOUS
  <1>1. order = <<>> /\ confirmed = {} /\ running = FALSE
      BY Zenon DEF Settlement!Init
  <1>2. order \in Seq(Burns \ confirmed) /\ OneEach(order)
      BY <1>1 DEF OneEach
  <1>3. age \in [Burns -> Settlement!Ages] /\ since \in [Burns -> Settlement!Spans]
      BY DEF Settlement!Init, Settlement!Ages, Settlement!Spans
  <1>4. lanes \in [run : SUBSET Burns, stray : SUBSET Burns]
      BY DEF Settlement!Init
  <1> QED
      BY <1>1, <1>2, <1>3, <1>4 DEF Settlement!TypeOK, OneEach

LEMMA ScheduleCheck ==
    ASSUME ScheduleOK, OrderOK, NEW k \in {"run", "stray"}, NEW b \in Burns, NEW outcome,
           Settlement!Check(k, b, outcome)
    PROVE  ScheduleOK' /\ OrderOK'
  <1>1. lanes' \in [run : SUBSET Burns, stray : SUBSET Burns] /\ UNCHANGED <<age, running>>
      BY DEF Settlement!Check, ScheduleOK
  <1>2. since' \in [Burns -> Settlement!Spans]
      BY DEF Settlement!Check, Settlement!Touch, ScheduleOK, Settlement!Spans
  <1>3. CASE /\ confirmed' = confirmed \union {b} /\ order' = Settlement!Without(b)
    <2>1. order' \in Seq((Burns \ confirmed) \ {b}) /\ OneEach(order')
        BY <1>3, WithoutRow DEF OrderOK
    <2>2. (Burns \ confirmed) \ {b} = Burns \ confirmed'
        BY <1>3
    <2> QED
        BY <1>1, <1>2, <1>3, <2>1, <2>2 DEF ScheduleOK, OrderOK
  <1>4. CASE confirmed' = confirmed \ {b} /\ order' = Append(Settlement!Without(b), b)
      BY <1>1, <1>2, <1>4, TouchKeeps DEF ScheduleOK
  <1> QED
      BY <1>3, <1>4 DEF Settlement!Check, Settlement!Touch

LEMMA ScheduleStep ==
    ASSUME Settlement!TypeOK, [Settlement!Next]_settlementVars PROVE Settlement!TypeOK'
  <1>0. ScheduleOK /\ OrderOK
      BY ScheduleTypes
  <1> SUFFICES ScheduleOK' /\ OrderOK'
      BY DEF Settlement!TypeOK, ScheduleOK, OrderOK, OneEach
  <1>1. ASSUME NEW b \in Burns, NEW a \in Settlement!Ages, Settlement!Store(b, a)
        PROVE  ScheduleOK' /\ OrderOK'
    <2>1. \A i \in DOMAIN order : order[i] # b
        BY <1>1 DEF Settlement!Store, Settlement!Stored, Settlement!Range
    <2>2. Append(order, b) \in Seq((Burns \ confirmed) \union {b}) /\ OneEach(Append(order, b))
        BY <1>0, <2>1, LastRow DEF OrderOK
    <2>3. (Burns \ confirmed) \union {b} = Burns \ confirmed
        BY <1>1 DEF Settlement!Store, Settlement!Stored
    <2> QED
        BY <1>0, <1>1, <2>2, <2>3 DEF Settlement!Store, ScheduleOK, OrderOK
  <1>2. ASSUME NEW b \in Burns, Settlement!Older(b) \/ Settlement!TimePasses(b)
        PROVE  ScheduleOK' /\ OrderOK'
      BY <1>0, <1>2 DEF Settlement!Older, Settlement!TimePasses, ScheduleOK, OrderOK,
         Settlement!Ages, Settlement!Spans
  <1>3. ASSUME NEW b \in Burns, Settlement!FeedWrites(b) PROVE ScheduleOK' /\ OrderOK'
    <2>1. b \notin confirmed
        BY <1>0, <1>3 DEF Settlement!FeedWrites, OrderOK, Settlement!Range
    <2>2. OrderOK'
        BY <1>0, <1>3, <2>1, TouchKeeps DEF Settlement!FeedWrites, Settlement!Touch
    <2> QED
        BY <1>0, <1>3, <2>2 DEF Settlement!FeedWrites, Settlement!Touch, ScheduleOK, Settlement!Spans
  <1>4. ASSUME NEW b \in Burns, NEW k \in {"run", "stray"},
               Settlement!CheckAny(k, b) \/ Settlement!CheckThrows(k, b)
        PROVE  ScheduleOK' /\ OrderOK'
    <2>1. CASE Settlement!CheckAny(k, b)
        BY <1>0, <2>1, ScheduleCheck DEF Settlement!CheckAny
    <2>2. CASE Settlement!CheckThrows(k, b)
      <3>1. UNCHANGED <<age, order, since, confirmed>>
          BY <2>2 DEF Settlement!CheckThrows
      <3>2. CASE k = "run"
        <4>1. running' = FALSE
            BY <2>2, <3>2, Zenon DEF Settlement!CheckThrows
        <4>2. lanes' = [run |-> {}, stray |-> lanes.stray \union (lanes.run \ {b})]
            BY <2>2, <3>2, Zenon DEF Settlement!CheckThrows
        <4>3. lanes' \in [run : SUBSET Burns, stray : SUBSET Burns]
            BY <1>0, <4>2 DEF ScheduleOK
        <4> QED
            BY <1>0, <3>1, <4>1, <4>3 DEF ScheduleOK, OrderOK
      <3>3. CASE k # "run"
        <4>1. running' = running /\ lanes' = [lanes EXCEPT ![k] = @ \ {b}]
            BY <2>2, <3>3, Zenon DEF Settlement!CheckThrows
        <4>2. lanes' \in [run : SUBSET Burns, stray : SUBSET Burns]
            BY <1>0, <4>1 DEF ScheduleOK
        <4> QED
            BY <1>0, <3>1, <4>1, <4>2 DEF ScheduleOK, OrderOK
      <3> QED
          BY <3>2, <3>3
    <2> QED
        BY <1>4, <2>1, <2>2
  <1>5. CASE Settlement!Select
    <2>1. Settlement!Selection \subseteq Burns
      <3>1. \A i \in DOMAIN order : order[i] \in Burns
          BY <1>0 DEF OrderOK
      <3>2. Settlement!DueAt \subseteq DOMAIN order
          BY DEF Settlement!DueAt
      <3> QED
          BY <3>1, <3>2 DEF Settlement!Selection
    <2> QED
        BY <1>0, <1>5, <2>1 DEF Settlement!Select, ScheduleOK, OrderOK
  <1>6. CASE Settlement!EndRun \/ Settlement!WorkerRestarts
    <2>1. UNCHANGED <<age, order, since, confirmed>>
        BY <1>6 DEF Settlement!EndRun, Settlement!WorkerRestarts
    <2>2. running' = FALSE
        BY <1>6, Zenon DEF Settlement!EndRun, Settlement!WorkerRestarts
    <2>3. lanes' = lanes \/ lanes' = [run |-> {}, stray |-> {}]
        BY <1>6, Zenon DEF Settlement!EndRun, Settlement!WorkerRestarts
    <2>4. lanes' \in [run : SUBSET Burns, stray : SUBSET Burns]
        BY <1>0, <2>3 DEF ScheduleOK
    <2> QED
        BY <1>0, <2>1, <2>2, <2>4 DEF ScheduleOK, OrderOK
  <1>7. CASE UNCHANGED settlementVars
      BY <1>0, <1>7 DEF settlementVars, ScheduleOK, OrderOK
  <1> QED
      BY <1>1, <1>2, <1>3, <1>4, <1>5, <1>6, <1>7 DEF Settlement!Next

\* What a settlement run asks about: unconfirmed rows, at most RowsPerRun of them; a
\* row that is due is only passed over for RowsPerRun others that were left alone for
\* longer.
LongestFirst ==
    LET chosen == Settlement!Selection
    IN  /\ chosen \subseteq Burns \ confirmed
        /\ IsFiniteSet(chosen) /\ Cardinality(chosen) <= RowsPerRun
        /\ \A i \in Settlement!DueAt : order[i] \notin chosen =>
              /\ Cardinality(chosen) = RowsPerRun
              /\ \A j \in Settlement!DueAt : order[j] \in chosen => j < i

LEMMA ScheduleCounts == ASSUME NEW s PROVE Settlement!Cardinality(s) = Cardinality(s)
  BY Zenon DEF Settlement!Cardinality, Cardinality

LEMMA ScheduleTurns == Settlement!TypeOK => LongestFirst
  <1> SUFFICES ASSUME Settlement!TypeOK PROVE LongestFirst
      OBVIOUS
  <1> DEFINE D == Settlement!DueAt
             T == First(D, RowsPerRun)
             chosen == {order[i] : i \in T}
             f == [i \in T |-> order[i]]
  <1>1. OrderOK
      BY ScheduleTypes
  <1>2. D \subseteq 1 .. Len(order) /\ Len(order) \in Nat
      BY <1>1 DEF Settlement!DueAt, OrderOK
  <1>3. \A i \in D : order[i] \in Burns \ confirmed
      BY <1>1, <1>2 DEF OrderOK
  <1>4. \A i, j \in D : order[i] = order[j] => i = j
      BY <1>1, <1>2 DEF OrderOK, OneEach
  <1> HIDE DEF D
  <1>5. Settlement!Selection = chosen
    <2>1. Settlement!Selection =
              {order[i] : i \in {j \in D : Settlement!Cardinality({k \in D : k < j}) < RowsPerRun}}
        BY Zenon DEF Settlement!Selection, D
    <2>2. \A j : Settlement!Cardinality(Before(D, j)) = Cardinality(Before(D, j))
        BY ScheduleCounts
    <2>3. \A j : {k \in D : k < j} = Before(D, j)
        BY Zenon DEF Before
    <2>4. {j \in D : Settlement!Cardinality({k \in D : k < j}) < RowsPerRun} = T
      <3>1. ASSUME NEW j PROVE Settlement!Cardinality({k \in D : k < j}) = Cardinality(Before(D, j))
          BY <2>2, <2>3, Zenon
      <3>2. \A j \in D : (Settlement!Cardinality({k \in D : k < j}) < RowsPerRun)
                            <=> (Cardinality(Before(D, j)) < RowsPerRun)
          BY <3>1, Zenon
      <3> QED
          BY <3>2, Zenon DEF First
    <2> HIDE DEF T
    <2> QED
        BY <2>1, <2>4, Zenon
  <1>6. IsFiniteSet(D) /\ D \subseteq Int
    <2>1. IsFiniteSet(1 .. Len(order))
        BY <1>2, FS_Interval
    <2> QED
      <3>1. IsFiniteSet(D)
          BY <1>2, <2>1, FS_Subset
      <3>2. \A i \in 1 .. Len(order) : i \in Int
          BY <1>2
      <3> QED
          BY <1>2, <3>1, <3>2
  <1>7. /\ IsFiniteSet(T) /\ Cardinality(T) \in Nat /\ Cardinality(T) <= RowsPerRun
        /\ \A i \in D \ T : Cardinality(T) = RowsPerRun /\ \A j \in T : j < i
    <2>1. RowsPerRun \in Nat
        BY ScheduleAssumption
    <2> QED
        BY <1>6, <2>1, FirstOf
  <1>8. T \subseteq D
      BY DEF First
  <1> HIDE DEF T
  <1>9. f \in Surjection(T, chosen) /\ f \in Injection(T, chosen)
    <2>1. f \in [T -> chosen]
        OBVIOUS
    <2>2. \A t \in chosen : \E i \in T : f[i] = t
        OBVIOUS
    <2>3. \A i, j \in T : f[i] = f[j] => i = j
        BY <1>4, <1>8
    <2> HIDE DEF f, chosen
    <2> QED
        BY <2>1, <2>2, <2>3 DEF Surjection, Injection, IsInjective
  <1>10. IsFiniteSet(chosen) /\ Cardinality(chosen) = Cardinality(T)
    <2> HIDE DEF f, chosen
    <2> QED
        BY <1>7, <1>9, FS_Surjection
  <1>11. \A i \in D : order[i] \in chosen <=> i \in T
      BY <1>4, <1>8
  <1>12. chosen \subseteq Burns \ confirmed
      BY <1>3, <1>8
  <1> HIDE DEF chosen
  <1>13. \A i \in D : order[i] \notin chosen =>
            Cardinality(chosen) = RowsPerRun /\ \A j \in D : order[j] \in chosen => j < i
      BY <1>7, <1>10, <1>11
  <1> QED
      BY <1>5, <1>7, <1>10, <1>12, <1>13 DEF LongestFirst, D

-----------------------------------------------------------------------------
(* The Robinhood indexer and the contract page, whose own modules argue      *)
(* about the same definitions.                                              *)

LEMMA SamePass ==
    /\ Robinhood!Init => RobinhoodP!Init
    /\ Robinhood!Next => RobinhoodP!Next
    /\ RobinhoodP!TypeOK => Robinhood!TypeOK
    /\ RobinhoodP!OneEventADay => Robinhood!OneEventADay
  <1>1. Robinhood!Init => RobinhoodP!Init
      BY Zenon
      DEF Robinhood!Init, RobinhoodP!Init, Robinhood!Signals, RobinhoodP!Signals,
         Robinhood!NoPass, RobinhoodP!NoPass, Robinhood!NoToken, RobinhoodP!NoToken,
         Robinhood!Classes, RobinhoodP!Classes, Robinhood!Creators, RobinhoodP!Creators,
         Robinhood!Unnamed, RobinhoodP!Unnamed
  <1>2. Robinhood!Next => RobinhoodP!Next
      BY Zenon
      DEF Robinhood!Next, RobinhoodP!Next, Robinhood!NewToken, RobinhoodP!NewToken,
         Robinhood!Begin, RobinhoodP!Begin, Robinhood!ListPage, RobinhoodP!ListPage,
         Robinhood!Finish, RobinhoodP!Finish, Robinhood!DayPasses, RobinhoodP!DayPasses,
         Robinhood!Step, RobinhoodP!Step, Robinhood!Range, RobinhoodP!Range,
         Robinhood!NoPass, RobinhoodP!NoPass, Robinhood!Fails, RobinhoodP!Fails,
         Robinhood!Works, RobinhoodP!Works, Robinhood!PageOf, RobinhoodP!PageOf,
         Robinhood!Repeats, RobinhoodP!Repeats, Robinhood!NoToken, RobinhoodP!NoToken,
         Robinhood!Signals, RobinhoodP!Signals, Robinhood!Take, RobinhoodP!Take,
         Robinhood!ReadCreation, RobinhoodP!ReadCreation, Robinhood!StoreWallet,
         RobinhoodP!StoreWallet, Robinhood!ReadHolders, RobinhoodP!ReadHolders,
         Robinhood!CreateHeavy, RobinhoodP!CreateHeavy, Robinhood!ReadTransactions,
         RobinhoodP!ReadTransactions, Robinhood!CreateSerial, RobinhoodP!CreateSerial,
         Robinhood!Creators, RobinhoodP!Creators, Robinhood!Unnamed, RobinhoodP!Unnamed,
         Robinhood!Classes, RobinhoodP!Classes, Robinhood!Answer, RobinhoodP!Answer,
         Robinhood!FoundToday, RobinhoodP!FoundToday, Robinhood!AfterHolders,
         RobinhoodP!AfterHolders, Robinhood!Create, RobinhoodP!Create
  <1>3. RobinhoodP!TypeOK => Robinhood!TypeOK
      BY Zenon
      DEF Robinhood!TypeOK, RobinhoodP!TypeOK, Robinhood!Unnamed, RobinhoodP!Unnamed,
         Robinhood!Creators, RobinhoodP!Creators, Robinhood!Signals, RobinhoodP!Signals,
         Robinhood!Classes, RobinhoodP!Classes
  <1>4. RobinhoodP!OneEventADay => Robinhood!OneEventADay
      BY Zenon
      DEF Robinhood!OneEventADay, RobinhoodP!OneEventADay, Robinhood!Signals,
         RobinhoodP!Signals, Robinhood!Classes, RobinhoodP!Classes
  <1> QED
      BY <1>1, <1>2, <1>3, <1>4

LEMMA SamePage ==
    /\ Page!Init => PageP!Init
    /\ Page!Next => PageP!Next
    /\ PageP!TypeOK => Page!TypeOK
    /\ PageP!AbsenceIsRead => Page!AbsenceIsRead
  <1>1. Page!Init => PageP!Init
      BY Zenon
      DEF Page!Init, PageP!Init, Page!NoRow, PageP!NoRow, Page!NoRequest,
         PageP!NoRequest, Page!NoReply, PageP!NoReply, Page!UNREACHABLE,
         PageP!UNREACHABLE
  <1>2. Page!Next => PageP!Next
      BY Zenon
      DEF Page!Next, PageP!Next, Page!Deploy, PageP!Deploy, Page!Tick, PageP!Tick,
         Page!StorePage, PageP!StorePage, Page!StoreCreator, PageP!StoreCreator,
         Page!Ask, PageP!Ask, Page!ExplorerSilent, PageP!ExplorerSilent,
         Page!ExplorerAnswers, PageP!ExplorerAnswers, Page!ReadNode, PageP!ReadNode,
         Page!StoreLive, PageP!StoreLive, Page!StoreView, PageP!StoreView, Page!Throws,
         PageP!Throws, Page!ApiRestarts, PageP!ApiRestarts, Page!NoRequest,
         PageP!NoRequest, Page!Continue, PageP!Continue, Page!Fresh, PageP!Fresh,
         Page!Fails, PageP!Fails, Page!Cache, PageP!Cache, Page!LiveLevel,
         PageP!LiveLevel, Page!End, PageP!End, Page!ObservedLevel, PageP!ObservedLevel,
         Page!UNREACHABLE, PageP!UNREACHABLE, Page!Refusal, PageP!Refusal,
         Page!Remember, PageP!Remember, Page!Concentration, PageP!Concentration,
         Page!Level, PageP!Level, Page!Strongest, PageP!Strongest, Page!Severities,
         PageP!Severities, Page!Max, PageP!Max
  <1>3. PageP!TypeOK => Page!TypeOK
      BY Zenon
      DEF Page!TypeOK, PageP!TypeOK
  <1>4. PageP!AbsenceIsRead => Page!AbsenceIsRead
      BY Zenon
      DEF Page!AbsenceIsRead, PageP!AbsenceIsRead
  <1> QED
      BY <1>1, <1>2, <1>3, <1>4

PassInv == RobinhoodP!IInv /\ RobinhoodP!Types

LEMMA PassStep == ASSUME PassInv, [Robinhood!Next]_passVars PROVE PassInv'
  <1>0. PageSize \in Nat
      BY RobinhoodAssumption
  <1>1. CASE Robinhood!Next
    <2>1. [RobinhoodP!Next]_(RobinhoodP!vars)
        BY <1>1, SamePass
    <2>2. RobinhoodP!IInv'
        BY <1>0, <2>1, RobinhoodP!Inductive DEF PassInv
    <2> QED
        BY <1>0, <2>1, <2>2, RobinhoodP!KeepsTypes DEF PassInv
  <1>2. CASE UNCHANGED passVars
      BY <1>2, Zenon
      DEF passVars, PassInv, RobinhoodP!IInv, RobinhoodP!PassOK, RobinhoodP!LanesOK,
         RobinhoodP!QuietOK, RobinhoodP!HeldOK, RobinhoodP!ApartOK, RobinhoodP!RepeatsOK,
         RobinhoodP!EventsOK, RobinhoodP!PendingOK, RobinhoodP!OneEventADay, RobinhoodP!Held,
         RobinhoodP!Types, RobinhoodP!PassTypes, RobinhoodP!LaneTypes, RobinhoodP!WalletTypes
  <1> QED
      BY <1>1, <1>2

LEMMA PassPromises == PassInv => Robinhood!TypeOK /\ OneEventADay
  <1> SUFFICES ASSUME PassInv PROVE Robinhood!TypeOK /\ OneEventADay
      OBVIOUS
  <1>1. RobinhoodP!TypeOK
      BY RobinhoodP!WellTyped DEF PassInv
  <1>2. RobinhoodP!OneEventADay
      BY DEF PassInv, RobinhoodP!IInv
  <1> QED
      BY <1>1, <1>2, SamePass DEF OneEventADay

LEMMA PassInitially == Robinhood!Init => PassInv
  BY SamePass, RobinhoodP!Initially, RobinhoodP!TypesInitially DEF PassInv

PageInv == PageP!IInv /\ PageP!Types

LEMMA PageStep == ASSUME PageInv, [Page!Next]_pageVars PROVE PageInv'
  <1>0. Ttl \in Nat /\ CacheMax \in Nat \ {0} /\ MaxTicks \in Nat
      BY PageAssumption
  <1>1. CASE Page!Next
    <2>1. [PageP!Next]_(PageP!vars)
        BY <1>1, SamePage
    <2>2. PageP!IInv'
        BY <1>0, <2>1, PageP!Inductive DEF PageInv
    <2> QED
        BY <1>0, <2>1, <2>2, PageP!KeepsTypes DEF PageInv
  <1>2. CASE UNCHANGED pageVars
      BY <1>2, Zenon
      DEF pageVars, PageInv, PageP!IInv, PageP!DeployedOK, PageP!CacheOK, PageP!CacheTrue,
         PageP!RequestOK, PageP!AbsenceIsRead, PageP!Types, PageP!ClockTypes, PageP!RowTypes,
         PageP!RoomTypes, PageP!RequestTypes
  <1> QED
      BY <1>1, <1>2

LEMMA PagePromises == PageInv => Page!TypeOK /\ AbsenceIsRead
  <1> SUFFICES ASSUME PageInv PROVE Page!TypeOK /\ AbsenceIsRead
      OBVIOUS
  <1>1. PageP!TypeOK
      BY PageAssumption, PageP!WellTyped DEF PageInv
  <1>2. PageP!AbsenceIsRead
      BY DEF PageInv, PageP!IInv
  <1> QED
      BY <1>1, <1>2, SamePage DEF AbsenceIsRead

LEMMA PageInitially == Page!Init => PageInv
  <1>1. CacheMax \in Nat /\ MaxTicks \in Nat
      BY PageAssumption
  <1> QED
      BY <1>1, SamePage, PageP!Initially, PageP!TypesInitially DEF PageInv

-----------------------------------------------------------------------------
(* The parts together.                                                      *)

(***************************************************************************)
(* The inductive invariant: that of each part.                             *)
(***************************************************************************)
AnalysisInv == IInv /\ Collected /\ TypeOK

WorkerInv ==
    AnalysisInv /\ DiscoveryInv /\ AnalysisLoop!TypeOK /\ AlertInv /\ PassInv /\ PageInv
    /\ FeedInv /\ Settlement!TypeOK

LEMMA AnalysisStep == ASSUME AnalysisInv, [Next]_analysisVars PROVE AnalysisInv'
  <1>1. [Next]_vars
      BY DEF analysisVars
  <1>2. IInv'
      BY <1>1, Inductive DEF AnalysisInv
  <1>3. Collected'
      BY <1>1, CollectedStep DEF AnalysisInv
  <1> QED
      BY <1>1, <1>2, <1>3, TypeStep DEF AnalysisInv

LEMMA WorkerInitially == WorkerInit => WorkerInv
  <1> SUFFICES ASSUME WorkerInit PROVE WorkerInv
      OBVIOUS
  <1>1. AnalysisInv
      BY Initially, CollectedInit, TypeInit DEF WorkerInit, AnalysisInv
  <1> QED
      BY <1>1, DiscoveryInitially, QueueInitially, AlertInitially, PassInitially, PageInitially,
         FeedInitially, ScheduleInitially DEF WorkerInit, WorkerInv

\* Whichever part moves, each makes a step of its own or rests.
LEMMA OneMoves ==
    [WorkerNext]_workerVars =>
        /\ [Next]_analysisVars /\ [Discovery!Next]_discoveryVars
        /\ [AnalysisLoop!Next]_backlogVars /\ [Engine!Next]_alertVars
        /\ [Robinhood!Next]_passVars /\ [Page!Next]_pageVars
        /\ [Feed!Next]_feedVars /\ [Settlement!Next]_settlementVars
  <1> SUFFICES ASSUME [WorkerNext]_workerVars
               PROVE  /\ [Next]_analysisVars /\ [Discovery!Next]_discoveryVars
                      /\ [AnalysisLoop!Next]_backlogVars /\ [Engine!Next]_alertVars
                      /\ [Robinhood!Next]_passVars /\ [Page!Next]_pageVars
                      /\ [Feed!Next]_feedVars /\ [Settlement!Next]_settlementVars
      OBVIOUS
  <1>1. CASE UNCHANGED workerVars
      BY <1>1 DEF workerVars
  <1>2. CASE Analysis
      BY <1>2 DEF Analysis
  <1>3. CASE Discovery!Next /\ Rest("discovery")
      BY <1>3 DEF Rest
  <1>4. CASE AnalysisLoop!Next /\ Rest("backlog")
      BY <1>4 DEF Rest
  <1>5. CASE Engine!Next /\ Rest("alerts")
      BY <1>5 DEF Rest
  <1>6. CASE Robinhood!Next /\ Rest("robinhood")
      BY <1>6 DEF Rest
  <1>7. CASE Page!Next /\ Rest("page")
      BY <1>7 DEF Rest
  <1>8. CASE Feed!Next /\ Rest("feed")
      BY <1>8 DEF Rest
  <1>9. CASE Settlement!Next /\ Rest("settlement")
      BY <1>9 DEF Rest
  <1> QED
      BY <1>1, <1>2, <1>3, <1>4, <1>5, <1>6, <1>7, <1>8, <1>9 DEF WorkerNext

LEMMA WorkerStep == WorkerInv /\ [WorkerNext]_workerVars => WorkerInv'
  BY OneMoves, AnalysisStep, DiscoveryStep, QueueStep, AlertStep, PassStep, PageStep, FeedStep,
     ScheduleStep DEF WorkerInv

LEMMA WorkerAlways == WorkerSpec => []WorkerInv
  BY WorkerInitially, WorkerStep, PTL DEF WorkerSpec, WorkerSafety

\* Every variable of every part has its type, whatever the parts do: among
\* these, no field of a stored page is known of a row that is not there, the
\* cache keeps within its limit, one refresh runs at a time, and an unconfirmed
\* row is in the settlement order once.
THEOREM WorkerTypes == WorkerSpec => []WorkerTypeOK
  <1>1. WorkerInv => WorkerTypeOK
    <2>1. FeedInv => Feed!TypeOK
        BY DEF FeedInv
    <2>2. AlertInv => Engine!TypeOK
        BY DEF AlertInv
    <2> QED
        BY <2>1, <2>2, DiscoveryPromises, PassPromises, PagePromises
           DEF WorkerInv, WorkerTypeOK, AnalysisInv
  <1> QED
      BY <1>1, WorkerAlways, PTL

\* No creation is left behind runArcDiscovery's cursor, however the head moves,
\* whichever calls fail and wherever the worker dies.
THEOREM CreationsScanned == WorkerSpec => []NoCreationSkipped
  <1>1. WorkerInv => NoCreationSkipped
      BY DiscoveryPromises DEF WorkerInv
  <1> QED
      BY <1>1, WorkerAlways, PTL

\* Any number of lanes of runRobinhoodIndexer file a signal once a day, though
\* each looks for the event of the day before it creates one.
THEOREM SignalsFiledOnce == WorkerSpec => []OneEventADay
  <1>1. WorkerInv => OneEventADay
      BY PassPromises DEF WorkerInv
  <1> QED
      BY <1>1, WorkerAlways, PTL

\* Any number of overlapping requests for contract pages, which share a cache of
\* reads, take no outage for an absence.
THEOREM AbsenceWasRead == WorkerSpec => []AbsenceIsRead
  <1>1. WorkerInv => AbsenceIsRead
      BY PagePromises DEF WorkerInv
  <1> QED
      BY <1>1, WorkerAlways, PTL

\* Every settlement run the worker can begin takes the rows that were left alone
\* for longest, and no confirmed one: the safety half of NoRowForgotten.
THEOREM LongestAskedFirst == WorkerSpec => []LongestFirst
  <1>1. WorkerInv => LongestFirst
      BY ScheduleTurns DEF WorkerInv
  <1> QED
      BY <1>1, WorkerAlways, PTL
\* runAlertEngine passes nobody over: what is due to a watcher on a page is told
\* before the tick moves on, however long the watchlist and whoever joins or
\* leaves it between the pages, unless the row at the cursor was itself deleted.
THEOREM NobodyIsPassedOver == WorkerSpec => NobodyPassedOver
  <1>1. WorkerInv /\ [WorkerNext]_workerVars =>
          [Engine!Page /\ ~Engine!Fails /\ tick.after \in watches \union {Engine!None} =>
             \A i \in watches : i > tick.after /\ (tick'.running => i <= tick'.after) =>
               \A a \in Engine!DueFor(i, tick.events) : \E b \in alerts' : b.key = a.key]_alertVars
      BY PageReaches DEF WorkerInv
  <1> QED
      BY <1>1, WorkerAlways, PTL DEF WorkerSpec, WorkerSafety, NobodyPassedOver
=============================================================================
