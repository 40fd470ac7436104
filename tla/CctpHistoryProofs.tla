------------------------- MODULE CctpHistoryProofs --------------------------
(***************************************************************************)
(* Proofs about CctpHistory: for histories and pages of any size, any      *)
(* number of scripts beside the worker, and any failures.                  *)
(***************************************************************************)
EXTENDS CctpHistory, TLAPS

\* A cursor, stored or in some scanner's memory, has only passed what was
\* answered for.
CursorOK(cursor) == \A i \in History : cursor # 0 /\ i >= cursor => i \in Answered

\* The cursor a scanner is going to save has passed, besides, what is still to
\* be done of its page, or was not read.
WorkOK(p) ==
    scan[p].at = "work" =>
        \A i \in History :
            i \in Answered
            \/ (source = "evm" /\ (i \in scan[p].todo \/ (scan[p].next # 0 /\ i < scan[p].next)))
            \/ /\ source = "solana"
               /\ \/ scan[p].next = 0 \/ i < scan[p].next
                  \/ i \in scan[p].page /\ i \in scan[p].todo \union scan[p].unread

WalkOK ==
    /\ CursorOK(saved.cursor)
    /\ saved.cursor = 0 /\ saved.exhausted => Answered = History
    /\ \A p \in Scanners : CursorOK(scan[p].cursor) /\ WorkOK(p)

\* What was resolved had an answer; Circle has indexed the burns that are old.
ResolvedOK == saved.resolved \union scan["worker"].retired \subseteq heard

AgeOK == \A i \in Burns : age[i] = "old" => i \in indexed

UnburntOK == Burns \intersect (saved.resolved \union scan["worker"].retired) = {}

IInv == TypeOK /\ WalkOK /\ ResolvedOK /\ AgeOK /\ UnburntOK

-----------------------------------------------------------------------------
(* Pages.                                                                   *)

\* A page is made of transactions there are, and reaches from its lowest one
\* up to the cursor it was asked for with.
LEMMA PageReaches ==
    ASSUME TypeOK, NEW c \in 0..MaxTip
    PROVE  /\ PageAt(c) \subseteq Txs /\ Bottom(c) \in 1..MaxTip
           /\ \A i \in History : (c = 0 \/ i < c) /\ i >= Bottom(c) => i \in PageAt(c)
  BY HistoryAssumption DEF TypeOK, PageAt, Bottom, Top, Txs, History

\* What is idle satisfies the invariant of a scanner.
LEMMA IdleOK == Idle \in ScanType /\ \A p \in Scanners : Ended(p) \in ScanType
<1>1. Idle \in ScanType
  BY HistoryAssumption DEF Idle, ScanType
<1>2. \A s \in ScanType : [s EXCEPT !.at = "done"] \in ScanType
                        /\ [s EXCEPT !.at = "idle"] \in ScanType
  BY DEF ScanType
<1>3. \A p \in Scanners : Ended(p) = [Idle EXCEPT !.at = "idle"]
                         \/ Ended(p) = [Idle EXCEPT !.at = "done"]
  BY DEF Ended
<1>4. QED
  BY <1>1, <1>2, <1>3

LEMMA SavedRecord ==
    \A c \in 0..MaxTip, x \in BOOLEAN, r \in SUBSET Txs :
        [cursor |-> c, exhausted |-> x, resolved |-> r] \in SavedType
  BY DEF SavedType

LEMMA InitOK == Init => IInv
<1> SUFFICES ASSUME Init PROVE IInv
  OBVIOUS
<1>1. TypeOK
  <2>1. kind \in Kinds /\ tip \in Old..MaxTip /\ faults \in 0..MaxFaults
    BY HistoryAssumption DEF Init
  <2>2. indexed \in SUBSET Txs /\ rows \in SUBSET Txs /\ heard \in SUBSET Txs
    BY HistoryAssumption DEF Init, Burns
  <2>3. age \in [Txs -> {"untimed", "young", "old"}]
    BY DEF Init
  <2>4. saved \in SavedType
    <3>1. \/ saved = [cursor |-> 0, exhausted |-> FALSE, resolved |-> {}]
          \/ \E c \in 2..Old : saved = [cursor |-> c, exhausted |-> TRUE, resolved |-> {}]
      BY Zenon DEF Init
    <3>2. 0 \in 0..MaxTip /\ \A c \in 2..Old : c \in 0..MaxTip
      BY HistoryAssumption
    <3>3. QED
      BY <3>1, <3>2, SavedRecord
  <2>5. scan \in [Scanners -> ScanType]
    BY IdleOK DEF Init
  <2>6. QED
    BY <2>1, <2>2, <2>3, <2>4, <2>5 DEF Init, TypeOK
<1>2. AgeOK
  BY HistoryAssumption DEF Init, AgeOK, Burns, Txs
<1>3. ResolvedOK /\ UnburntOK
  BY DEF Init, ResolvedOK, UnburntOK, Idle, Scanners
<1>4. CursorOK(saved.cursor) /\ ~(saved.cursor = 0 /\ saved.exhausted)
  BY HistoryAssumption DEF Init, CursorOK, Answered, History
<1>5. \A p \in Scanners : CursorOK(scan[p].cursor) /\ WorkOK(p)
  BY DEF Init, Idle, CursorOK, WorkOK
<1>6. QED
  BY <1>1, <1>2, <1>3, <1>4, <1>5 DEF IInv, WalkOK

-----------------------------------------------------------------------------
(* What keeps the walk in order.                                            *)

\* Answers are not taken back, and a step of nobody moves no cursor.
LEMMA Undisturbed ==
    ASSUME WalkOK, UNCHANGED <<source, saved, scan>>, Answered \subseteq Answered'
    PROVE  WalkOK'
<1>1. \A i \in History : i \in Answered => i \in Answered'
  OBVIOUS
<1>2. Answered' \subseteq History
  BY DEF Answered, History
<1>3. QED
  BY <1>1, <1>2 DEF WalkOK, CursorOK, WorkOK

\* A scanner moves, and stores no cursor.
LEMMA ScannerMoves ==
    ASSUME WalkOK, NEW p \in Scanners, UNCHANGED <<source, saved>>,
           Answered \subseteq Answered',
           \A q \in Scanners \ {p} : scan'[q] = scan[q],
           CursorOK(scan[p].cursor)', WorkOK(p)'
    PROVE  WalkOK'
<1>1. \A i \in History : i \in Answered => i \in Answered'
  OBVIOUS
<1>2. Answered' \subseteq History
  BY DEF Answered, History
<1>3. CursorOK(saved.cursor)' /\ ((saved.cursor = 0 /\ saved.exhausted)' => Answered' = History)
  BY <1>1, <1>2 DEF WalkOK, CursorOK
<1>4. ASSUME NEW q \in Scanners PROVE (CursorOK(scan[q].cursor) /\ WorkOK(q))'
  <2>1. CASE q = p
    BY <2>1
  <2>2. CASE q # p
    <3>1. scan'[q] = scan[q] /\ CursorOK(scan[q].cursor) /\ WorkOK(q)
      BY <2>2 DEF WalkOK
    <3>2. QED
      BY <3>1, <1>1 DEF CursorOK, WorkOK
  <2>3. QED
    BY <2>1, <2>2
<1>5. QED
  BY <1>3, <1>4 DEF WalkOK

\* A scanner stores the cursor of what it has worked through.
LEMMA CursorMoves ==
    ASSUME WalkOK, NEW p \in Scanners, UNCHANGED <<source, kind, rows, heard>>,
           \A q \in Scanners \ {p} : scan'[q] = scan[q],
           CursorOK(saved'.cursor),
           saved'.cursor = 0 /\ saved'.exhausted => Answered = History,
           CursorOK(scan'[p].cursor), scan'[p].at # "work"
    PROVE  WalkOK'
<1>1. Answered' = Answered
  BY DEF Answered, Burns
<1>2. \A c : CursorOK(c)' <=> CursorOK(c)
  BY <1>1 DEF CursorOK
<1>3. ASSUME NEW q \in Scanners PROVE (CursorOK(scan[q].cursor) /\ WorkOK(q))'
  <2>1. CASE q = p
    BY <2>1, <1>1 DEF CursorOK, WorkOK
  <2>2. CASE q # p
    <3>1. scan'[q] = scan[q] /\ CursorOK(scan[q].cursor) /\ WorkOK(q)
      BY <2>2 DEF WalkOK
    <3>2. QED
      BY <3>1, <1>1 DEF CursorOK, WorkOK
  <2>3. QED
    BY <2>1, <2>2
<1>4. QED
  BY <1>1, <1>3 DEF WalkOK, CursorOK

-----------------------------------------------------------------------------
(* The steps.                                                               *)

LEMMA ArriveStep == IInv /\ Arrive => IInv'
<1> SUFFICES ASSUME IInv, Arrive PROVE IInv'
  OBVIOUS
<1>1. TypeOK'
  BY HistoryAssumption DEF IInv, TypeOK, Arrive
<1>2. Answered' = Answered
  BY DEF Arrive, Answered, Burns
<1>3. WalkOK'
  BY <1>2, Undisturbed DEF IInv, Arrive
<1>4. (ResolvedOK /\ AgeOK /\ UnburntOK)'
  BY DEF IInv, Arrive, ResolvedOK, AgeOK, UnburntOK, Burns
<1>5. QED
  BY <1>1, <1>3, <1>4 DEF IInv

\* A burn ages past the window only once Circle has indexed it.
LEMMA RipenStep == \A i \in 1..tip : IInv /\ Ripen(i) => IInv'
<1> SUFFICES ASSUME NEW i \in 1..tip, IInv, Ripen(i) PROVE IInv'
  OBVIOUS
<1>0. i \in Txs
  BY HistoryAssumption DEF IInv, TypeOK, Txs
<1>1. TypeOK'
  BY <1>0 DEF IInv, TypeOK, Ripen
<1>2. Answered' = Answered
  BY DEF Ripen, Answered, Burns
<1>3. WalkOK'
  BY <1>2, Undisturbed DEF IInv, Ripen
<1>4. AgeOK'
  BY <1>0 DEF IInv, TypeOK, Ripen, AgeOK, Burns
<1>5. (ResolvedOK /\ UnburntOK)'
  BY DEF IInv, Ripen, ResolvedOK, UnburntOK, Burns
<1>6. QED
  BY <1>1, <1>3, <1>4, <1>5 DEF IInv

LEMMA CircleIndexesStep == \A i \in 1..tip : IInv /\ CircleIndexes(i) => IInv'
<1> SUFFICES ASSUME NEW i \in 1..tip, IInv, CircleIndexes(i) PROVE IInv'
  OBVIOUS
<1>1. TypeOK'
  BY DEF IInv, TypeOK, CircleIndexes, Burns
<1>2. Answered' = Answered
  BY DEF CircleIndexes, Answered, Burns
<1>3. WalkOK'
  BY <1>2, Undisturbed DEF IInv, CircleIndexes
<1>4. (ResolvedOK /\ AgeOK /\ UnburntOK)'
  BY DEF IInv, CircleIndexes, ResolvedOK, AgeOK, UnburntOK, Burns
<1>5. QED
  BY <1>1, <1>3, <1>4 DEF IInv

\* A scanner begins with the stored cursor and nothing to do.
LEMMA StartStep == \A p \in Scanners : IInv /\ Start(p) => IInv'
<1> SUFFICES ASSUME NEW p \in Scanners, IInv, Start(p) PROVE IInv'
  OBVIOUS
<1> DEFINE begun == [Idle EXCEPT !.at = "fetch", !.cursor = saved.cursor]
<1>1. scan' = [scan EXCEPT ![p] = begun] /\ scan \in [Scanners -> ScanType]
  BY DEF Start, IInv, TypeOK
<1>2. saved.cursor \in 0..MaxTip
  BY DEF IInv, TypeOK, SavedType
<1>3. begun \in ScanType /\ begun.at = "fetch" /\ begun.cursor = saved.cursor /\ begun.retired = {}
  <2>1. begun \in ScanType
    BY <1>2, IdleOK DEF ScanType
  <2>2. QED
    BY <2>1 DEF Idle
<1>4. TypeOK'
  BY <1>1, <1>3 DEF Start, world, IInv, TypeOK
<1>5. Answered' = Answered
  BY DEF Start, world, Answered, Burns
<1>6. scan'[p] = begun /\ \A q \in Scanners \ {p} : scan'[q] = scan[q]
  BY <1>1
<1>7. CursorOK(scan[p].cursor)' /\ WorkOK(p)'
  BY <1>3, <1>5, <1>6 DEF IInv, WalkOK, CursorOK, WorkOK
<1>8. WalkOK'
  BY <1>5, <1>6, <1>7, ScannerMoves DEF IInv, Start, world
<1>9. (ResolvedOK /\ AgeOK /\ UnburntOK)'
  <2>1. scan'["worker"].retired \subseteq scan["worker"].retired
    BY <1>1, <1>3 DEF Scanners
  <2>2. QED
    BY <2>1 DEF IInv, Start, world, ResolvedOK, AgeOK, UnburntOK, Burns
<1>10. QED
  BY <1>4, <1>8, <1>9 DEF IInv

\* A run that is cut short forgets what it had in memory.
LEMMA CutShortStep == \A p \in Scanners : IInv /\ CutShort(p) => IInv'
<1> SUFFICES ASSUME NEW p \in Scanners, IInv, CutShort(p) PROVE IInv'
  OBVIOUS
<1>1. scan' = [scan EXCEPT ![p] = Ended(p)] /\ scan \in [Scanners -> ScanType]
  BY DEF CutShort, IInv, TypeOK
<1>2. Ended(p) \in ScanType /\ Ended(p).at # "work" /\ Ended(p).cursor = 0 /\ Ended(p).retired = {}
  BY IdleOK DEF Ended, Idle
<1>3. faults' \in 0..MaxFaults
  BY HistoryAssumption DEF CutShort, IInv, TypeOK
<1>4. TypeOK'
  BY <1>1, <1>2, <1>3 DEF CutShort, world, IInv, TypeOK
<1>5. Answered' = Answered
  BY DEF CutShort, world, Answered, Burns
<1>6. scan'[p] = Ended(p) /\ \A q \in Scanners \ {p} : scan'[q] = scan[q]
  BY <1>1
<1>7. CursorOK(scan[p].cursor)' /\ WorkOK(p)'
  BY <1>2, <1>6 DEF CursorOK, WorkOK
<1>8. WalkOK'
  BY <1>5, <1>6, <1>7, ScannerMoves DEF IInv, CutShort, world
<1>9. (ResolvedOK /\ AgeOK /\ UnburntOK)'
  <2>1. scan'["worker"].retired \subseteq scan["worker"].retired
    BY <1>1, <1>2 DEF Scanners
  <2>2. QED
    BY <2>1 DEF IInv, CutShort, world, ResolvedOK, AgeOK, UnburntOK, Burns
<1>10. QED
  BY <1>4, <1>8, <1>9 DEF IInv

\* The burns of a page are what stands between its two cursors.
LEMMA FetchPageStep == \A p \in Scanners : IInv /\ FetchPage(p) => IInv'
<1> SUFFICES ASSUME NEW p \in Scanners, IInv, FetchPage(p) PROVE IInv'
  OBVIOUS
<1> DEFINE c == scan[p].cursor
           next == IF Bottom(c) > 1 THEN Bottom(c) ELSE 0
           fetched == [scan[p] EXCEPT !.at = "work", !.page = PageAt(c),
                                      !.todo = PageAt(c) \intersect Burns, !.next = next]
<1>1. scan' = [scan EXCEPT ![p] = fetched] /\ scan \in [Scanners -> ScanType]
  BY DEF FetchPage, IInv, TypeOK
<1>2. scan[p] \in ScanType /\ c \in 0..MaxTip
  BY <1>1 DEF ScanType
<1>3. PageAt(c) \subseteq Txs /\ Bottom(c) \in 1..MaxTip /\ next \in 0..MaxTip
  <2>1. PageAt(c) \subseteq Txs /\ Bottom(c) \in 1..MaxTip
    BY <1>2, PageReaches DEF IInv
  <2>2. QED
    BY <2>1, HistoryAssumption
<1>4. /\ fetched \in ScanType /\ fetched.cursor = c /\ fetched.retired = scan[p].retired
      /\ fetched.todo = PageAt(c) \intersect Burns /\ fetched.next = next
  BY <1>2, <1>3 DEF ScanType
<1>5. TypeOK'
  BY <1>1, <1>4 DEF FetchPage, world, IInv, TypeOK
<1>6. Answered' = Answered
  BY DEF FetchPage, world, Answered, Burns
<1>7. scan'[p] = fetched /\ \A q \in Scanners \ {p} : scan'[q] = scan[q]
  BY <1>1
<1>8. CursorOK(scan[p].cursor)'
  BY <1>4, <1>6, <1>7 DEF IInv, WalkOK, CursorOK
<1>9. WorkOK(p)'
  <2>1. source' = "evm" /\ source = "evm"
    BY DEF FetchPage, world
  <2>2. ASSUME NEW i \in History, i \notin Answered
        PROVE  i \in fetched.todo \/ (fetched.next # 0 /\ i < fetched.next)
    <3>1. i \in Burns /\ i \in Nat /\ i >= 1
      BY <2>1, <2>2, HistoryAssumption DEF Answered, History
    <3>2. c = 0 \/ i < c
      BY <1>2, <2>2, <3>1 DEF IInv, WalkOK, CursorOK
    <3>3. i >= Bottom(c) => i \in PageAt(c)
      BY <1>2, <3>2, PageReaches DEF IInv
    <3>4. QED
      BY <1>3, <1>4, <3>1, <3>3
  <2>3. QED
    BY <1>6, <1>7, <2>1, <2>2 DEF WorkOK
<1>10. WalkOK'
  BY <1>6, <1>7, <1>8, <1>9, ScannerMoves DEF IInv, FetchPage, world
<1>11. (ResolvedOK /\ AgeOK /\ UnburntOK)'
  <2>1. scan'["worker"].retired = scan["worker"].retired
    BY <1>1, <1>4 DEF Scanners
  <2>2. QED
    BY <2>1 DEF IInv, FetchPage, world, ResolvedOK, AgeOK, UnburntOK, Burns
<1>12. QED
  BY <1>5, <1>10, <1>11 DEF IInv

LEMMA StoreBurnStep == \A p \in Scanners : IInv /\ StoreBurn(p) => IInv'
<1> SUFFICES ASSUME NEW p \in Scanners, IInv, StoreBurn(p) PROVE IInv'
  OBVIOUS
<1>0. PICK i \in scan[p].todo :
        /\ rows' = rows \union {i}
        /\ scan' = [scan EXCEPT ![p].todo = @ \ {i}]
  BY DEF StoreBurn
<1> DEFINE left == [scan[p] EXCEPT !.todo = @ \ {i}]
<1>1. scan' = [scan EXCEPT ![p] = left] /\ scan \in [Scanners -> ScanType]
  BY <1>0 DEF IInv, TypeOK
<1>2. scan[p] \in ScanType /\ i \in Txs
  BY <1>0, <1>1 DEF ScanType
<1>3. /\ left \in ScanType /\ left.cursor = scan[p].cursor /\ left.retired = scan[p].retired
      /\ left.todo = scan[p].todo \ {i} /\ left.next = scan[p].next
  BY <1>2 DEF ScanType
<1>4. TypeOK'
  BY <1>0, <1>1, <1>2, <1>3 DEF StoreBurn, world, IInv, TypeOK
<1>5. Answered \subseteq Answered' /\ source = "evm" /\ source' = "evm" /\ kind' = kind
  BY <1>0 DEF StoreBurn, world, Answered, Burns
<1>6. scan'[p] = left /\ \A q \in Scanners \ {p} : scan'[q] = scan[q]
  BY <1>1
<1>7. CursorOK(scan[p].cursor)'
  BY <1>3, <1>5, <1>6 DEF IInv, WalkOK, CursorOK
<1>8. WorkOK(p)'
  <2>1. i \in History => i \in Answered'
    BY <1>0, <1>5 DEF Answered
  <2>2. \A j \in History : j \in Answered
          \/ j \in scan[p].todo \/ (scan[p].next # 0 /\ j < scan[p].next)
    BY <1>5 DEF StoreBurn, IInv, WalkOK, WorkOK
  <2>3. QED
    BY <1>3, <1>5, <1>6, <2>1, <2>2 DEF WorkOK
<1>9. WalkOK'
  BY <1>5, <1>6, <1>7, <1>8, ScannerMoves DEF IInv, StoreBurn, world
<1>10. (ResolvedOK /\ AgeOK /\ UnburntOK)'
  <2>1. scan'["worker"].retired = scan["worker"].retired
    BY <1>1, <1>3 DEF Scanners
  <2>2. QED
    BY <2>1 DEF IInv, StoreBurn, world, ResolvedOK, AgeOK, UnburntOK, Burns
<1>11. QED
  BY <1>4, <1>9, <1>10 DEF IInv

\* A page is behind the cursor once all its burns have rows.
LEMMA SavePageStep == \A p \in Scanners : IInv /\ SavePage(p) => IInv'
<1> SUFFICES ASSUME NEW p \in Scanners, IInv, SavePage(p) PROVE IInv'
  OBVIOUS
<1> DEFINE next == scan[p].next
           goOn == [Idle EXCEPT !.at = "fetch", !.cursor = next]
<1>1. /\ source = "evm" /\ scan[p].at = "work" /\ scan[p].todo = {}
      /\ saved' = [saved EXCEPT !.cursor = next, !.exhausted = next = 0]
      /\ UNCHANGED <<source, kind, tip, indexed, age, rows, heard, faults>>
  BY DEF SavePage, world
<1>2. PICK after \in {Ended(p), goOn} : scan' = [scan EXCEPT ![p] = after] /\ (after = goOn => next # 0)
  <2>1. Ended(p).at # "fetch" /\ goOn.at = "fetch"
    BY DEF Ended, Idle
  <2>2. QED
    BY <2>1 DEF SavePage
<1>3. scan \in [Scanners -> ScanType] /\ scan[p] \in ScanType /\ next \in 0..MaxTip
  BY DEF IInv, TypeOK, ScanType
<1>4. goOn \in ScanType /\ goOn.at = "fetch" /\ goOn.cursor = next /\ goOn.retired = {}
  <2>1. goOn \in ScanType
    BY <1>3, IdleOK DEF ScanType
  <2>2. QED
    BY <2>1 DEF Idle
<1>5. Ended(p) \in ScanType /\ Ended(p).at # "work" /\ Ended(p).cursor = 0 /\ Ended(p).retired = {}
  BY IdleOK DEF Ended, Idle
<1>6. saved \in SavedType /\ saved' \in SavedType
  BY <1>1, <1>3 DEF IInv, TypeOK, SavedType
<1>7. saved'.cursor = next /\ saved'.resolved = saved.resolved
  BY <1>1, <1>6 DEF SavedType
<1>8. TypeOK'
  BY <1>1, <1>2, <1>3, <1>4, <1>5, <1>6 DEF IInv, TypeOK
<1>9. \A i \in History : i \in Answered \/ (next # 0 /\ i < next)
  BY <1>1 DEF IInv, WalkOK, WorkOK
<1>10. CursorOK(next) /\ (next = 0 => Answered = History)
  BY <1>3, <1>9 DEF CursorOK, History, Answered
<1>11. CursorOK(scan'[p].cursor) /\ scan'[p].at # "work"
  <2>1. scan'[p] = after
    BY <1>2, <1>3
  <2>2. CASE after = Ended(p)
    BY <1>5, <2>1, <2>2 DEF CursorOK
  <2>3. CASE after = goOn
    <3>1. scan'[p].cursor = next /\ scan'[p].at = "fetch"
      BY <1>4, <2>1, <2>3
    <3>2. QED
      BY <1>10, <3>1
  <2>4. QED
    BY <1>2, <2>2, <2>3
<1>12. \A q \in Scanners \ {p} : scan'[q] = scan[q]
  BY <1>2, <1>3
<1>13. WalkOK'
  BY <1>1, <1>7, <1>10, <1>11, <1>12, CursorMoves DEF IInv
<1>14. (ResolvedOK /\ AgeOK /\ UnburntOK)'
  <2>1. scan'["worker"].retired \subseteq scan["worker"].retired
    BY <1>2, <1>3, <1>4, <1>5 DEF Scanners
  <2>2. QED
    BY <1>1, <1>7, <2>1 DEF IInv, ResolvedOK, AgeOK, UnburntOK, Burns
<1>15. QED
  BY <1>8, <1>13, <1>14 DEF IInv

-----------------------------------------------------------------------------
(* The steps of the Solana source.                                          *)

\* What is listed of the page is to be asked for, or resolved already.
LEMMA ListSignaturesStep == IInv /\ ListSignatures => IInv'
<1> SUFFICES ASSUME IInv, ListSignatures PROVE IInv'
  OBVIOUS
<1> DEFINE run == scan["worker"]
           c == run.cursor
           shown == {i \in 1..tip : i > tip - Recent} \union PageAt(c)
           timed == {i \in shown : age[i] # "untimed"}
           listed == [run EXCEPT !.at = "work", !.page = PageAt(c), !.shown = shown,
                                 !.timed = timed, !.todo = shown \ saved.resolved,
                                 !.next = NextBefore(c)]
<1>1. /\ scan' = [scan EXCEPT !["worker"] = listed]
      /\ source = "solana"
      /\ UNCHANGED <<source, kind, tip, indexed, age, rows, saved, heard, faults>>
  BY DEF ListSignatures, world
<1>2. "worker" \in Scanners /\ scan \in [Scanners -> ScanType] /\ run \in ScanType /\ c \in 0..MaxTip
  BY DEF IInv, TypeOK, Scanners, ScanType
<1>3. PageAt(c) \subseteq Txs /\ Bottom(c) \in 1..MaxTip
  BY <1>2, PageReaches DEF IInv
<1>4. shown \subseteq Txs /\ timed \subseteq Txs
  BY <1>3, HistoryAssumption DEF IInv, TypeOK, Txs
<1>5. NextBefore(c) \in 0..MaxTip
  BY <1>2, <1>3, HistoryAssumption DEF NextBefore
<1>6. /\ listed \in ScanType /\ listed.cursor = c /\ listed.retired = run.retired
      /\ listed.page = PageAt(c) /\ listed.todo = shown \ saved.resolved
      /\ listed.next = NextBefore(c)
  BY <1>2, <1>3, <1>4, <1>5 DEF ScanType
<1>7. TypeOK'
  BY <1>1, <1>2, <1>6 DEF IInv, TypeOK
<1>8. Answered' = Answered
  BY <1>1 DEF Answered, Burns
<1>9. scan'["worker"] = listed /\ \A q \in Scanners \ {"worker"} : scan'[q] = scan[q]
  BY <1>1, <1>2
<1>10. CursorOK(scan["worker"].cursor)'
  BY <1>2, <1>6, <1>8, <1>9 DEF IInv, WalkOK, CursorOK
<1>11. ASSUME NEW i \in History, i \notin Answered, listed.next # 0, i >= listed.next
       PROVE  i \in listed.page /\ i \in listed.todo
  <2>1. i \notin saved.resolved
    BY <1>1, <1>11 DEF Answered, IInv, ResolvedOK
  <2>2. c = 0 \/ i < c
    BY <1>2, <1>11, HistoryAssumption DEF IInv, WalkOK, CursorOK, History
  <2>3. i \in PageAt(c)
    <3>1. CASE PageAt(c) = {}
      BY <1>6, <1>11, <1>2, <2>2, <3>1, HistoryAssumption DEF NextBefore, History
    <3>2. CASE PageAt(c) # {}
      BY <1>2, <1>6, <1>11, <2>2, <3>2, PageReaches DEF NextBefore, IInv
    <3>3. QED
      BY <3>1, <3>2
  <2>4. QED
    BY <1>6, <2>1, <2>3
<1>12. WorkOK("worker")'
  <2>1. \A i \in History : i \in Nat
    BY DEF History
  <2>2. listed.next \in Nat
    BY <1>5, <1>6
  <2> HIDE DEF listed
  <2>3. \A i \in History :
          i \in Answered \/ listed.next = 0 \/ i < listed.next \/ (i \in listed.page /\ i \in listed.todo)
    BY <1>11, <2>1, <2>2
  <2>4. QED
    BY <1>1, <1>8, <1>9, <2>3 DEF WorkOK
<1>13. WalkOK'
  BY <1>1, <1>2, <1>8, <1>9, <1>10, <1>12, ScannerMoves DEF IInv
<1>14. (ResolvedOK /\ AgeOK /\ UnburntOK)'
  BY <1>1, <1>6, <1>9 DEF IInv, ResolvedOK, AgeOK, UnburntOK, Burns
<1>15. QED
  BY <1>7, <1>13, <1>14 DEF IInv

\* An answer, or the lack of one, accounts for the signature it is about.
LEMMA Accounted ==
    ASSUME IInv, NEW after \in ScanType, NEW i \in scan["worker"].todo,
           source = "solana", scan["worker"].at = "work", UNCHANGED <<source, kind, saved>>,
           scan' = [scan EXCEPT !["worker"] = after], heard \subseteq heard',
           after.cursor = scan["worker"].cursor, after.page = scan["worker"].page,
           after.next = scan["worker"].next, after.todo = scan["worker"].todo \ {i},
           scan["worker"].unread \subseteq after.unread, i \in after.unread \union heard'
    PROVE  WalkOK'
<1>1. "worker" \in Scanners /\ scan \in [Scanners -> ScanType]
  BY DEF IInv, TypeOK, Scanners
<1>2. Answered \subseteq Answered' /\ (i \in heard' /\ i \in History => i \in Answered')
  BY DEF Answered
<1>3. scan'["worker"] = after /\ \A q \in Scanners \ {"worker"} : scan'[q] = scan[q]
  BY <1>1
<1>4. CursorOK(scan["worker"].cursor)'
  BY <1>1, <1>2, <1>3 DEF IInv, WalkOK, CursorOK
<1>5. WorkOK("worker")'
  <2>1. \A j \in History : j \in Answered \/ scan["worker"].next = 0 \/ j < scan["worker"].next
          \/ (j \in scan["worker"].page /\ j \in scan["worker"].todo \union scan["worker"].unread)
    BY <1>1 DEF IInv, WalkOK, WorkOK
  <2>2. QED
    BY <1>2, <1>3, <2>1 DEF WorkOK
<1>6. QED
  BY <1>1, <1>2, <1>3, <1>4, <1>5, ScannerMoves DEF IInv

\* Retired is what Circle knows nothing of once it would: not a burn.
LEMMA AskCircleStep == \A i \in Txs : IInv /\ AskCircle(i) => IInv'
<1> SUFFICES ASSUME NEW i \in Txs, IInv, AskCircle(i) PROVE IInv'
  OBVIOUS
<1> DEFINE run == scan["worker"]
<1>1. /\ source = "solana" /\ run.at = "work" /\ i \in run.todo
      /\ UNCHANGED <<source, kind, tip, indexed, age, saved>>
  BY DEF AskCircle, world
<1>2. "worker" \in Scanners /\ scan \in [Scanners -> ScanType] /\ run \in ScanType
  BY DEF IInv, TypeOK, Scanners
<1>3. CASE Unread(i)
  <2> DEFINE after == [run EXCEPT !.todo = @ \ {i}, !.unread = @ \union {i}]
  <2>1. scan' = [scan EXCEPT !["worker"] = after]
    BY <1>2, <1>3 DEF Unread
  <2>2. /\ after \in ScanType /\ after.cursor = run.cursor /\ after.page = run.page
        /\ after.next = run.next /\ after.todo = run.todo \ {i} /\ after.retired = run.retired
        /\ after.unread = run.unread \union {i}
    BY <1>2 DEF ScanType
  <2>3. faults' \in 0..MaxFaults
    BY <1>3, HistoryAssumption DEF Unread, IInv, TypeOK
  <2> HIDE DEF after
  <2>4. TypeOK'
    <3>1. UNCHANGED <<rows, heard>>
      BY <1>3 DEF Unread
    <3>2. QED
      BY <1>1, <1>2, <2>1, <2>2, <2>3, <3>1 DEF IInv, TypeOK
  <2>5. WalkOK'
    BY <1>1, <1>3, <2>1, <2>2, Accounted DEF Unread
  <2>6. (ResolvedOK /\ AgeOK /\ UnburntOK)'
    BY <1>1, <1>2, <1>3, <2>1, <2>2 DEF Unread, IInv, ResolvedOK, AgeOK, UnburntOK, Burns
  <2>7. QED
    BY <2>4, <2>5, <2>6 DEF IInv
<1>4. CASE Ingested(i)
  <2> DEFINE after == [run EXCEPT !.todo = @ \ {i}]
  <2>1. scan' = [scan EXCEPT !["worker"] = after]
    BY <1>2, <1>4 DEF Ingested
  <2>2. /\ after \in ScanType /\ after.cursor = run.cursor /\ after.page = run.page
        /\ after.next = run.next /\ after.todo = run.todo \ {i} /\ after.retired = run.retired
        /\ after.unread = run.unread
    BY <1>2 DEF ScanType
  <2> HIDE DEF after
  <2>3. TypeOK'
    <3>1. rows' = rows \union {i} /\ heard' = heard \union {i} /\ faults' = faults
      BY <1>4 DEF Ingested
    <3>2. QED
      BY <1>1, <1>2, <2>1, <2>2, <3>1 DEF IInv, TypeOK
  <2>4. WalkOK'
    BY <1>1, <1>4, <2>1, <2>2, Accounted DEF Ingested
  <2>5. (ResolvedOK /\ AgeOK /\ UnburntOK)'
    BY <1>1, <1>2, <1>4, <2>1, <2>2 DEF Ingested, IInv, ResolvedOK, AgeOK, UnburntOK, Burns
  <2>6. QED
    BY <2>3, <2>4, <2>5 DEF IInv
<1>5. CASE Skipped(i)
  <2> DEFINE retired == IF CanRetire(i) THEN run.retired \union {i} ELSE run.retired
             after == [run EXCEPT !.todo = @ \ {i}, !.retired = retired]
  <2>1. scan' = [scan EXCEPT !["worker"] = after]
    BY <1>2, <1>5 DEF Skipped
  <2>2. run.retired \subseteq Txs /\ retired \subseteq Txs
    BY <1>2 DEF ScanType
  <2>3. /\ after \in ScanType /\ after.cursor = run.cursor /\ after.page = run.page
        /\ after.next = run.next /\ after.todo = run.todo \ {i} /\ after.retired = retired
        /\ after.unread = run.unread
    BY <1>2, <2>2 DEF ScanType
  <2>4. CanRetire(i) => i \notin Burns
    BY <1>5 DEF CanRetire, Skipped, IInv, AgeOK, Burns
  <2> HIDE DEF after
  <2>5. TypeOK'
    BY <1>1, <1>2, <1>5, <2>1, <2>3 DEF Skipped, IInv, TypeOK
  <2>6. WalkOK'
    BY <1>1, <1>5, <2>1, <2>3, Accounted DEF Skipped
  <2>7. (ResolvedOK /\ AgeOK)'
    BY <1>1, <1>2, <1>5, <2>1, <2>3 DEF Skipped, IInv, ResolvedOK, AgeOK, Burns
  <2>8. UnburntOK'
    BY <1>1, <1>2, <2>1, <2>3, <2>4 DEF IInv, UnburntOK, Burns
  <2>9. QED
    BY <2>5, <2>6, <2>7, <2>8 DEF IInv
<1>6. QED
  BY <1>3, <1>4, <1>5 DEF AskCircle

\* The cursor passes a page of which nothing was left unread.
LEMMA SaveSignaturesStep == IInv /\ SaveSignatures => IInv'
<1> SUFFICES ASSUME IInv, SaveSignatures PROVE IInv'
  OBVIOUS
<1> DEFINE run == scan["worker"]
           next == IF HistoryIncomplete THEN run.cursor ELSE run.next
<1>1. PICK kept \in Kept(saved.resolved \union run.retired) :
        saved' = [cursor |-> next, exhausted |-> FALSE, resolved |-> kept]
  BY DEF SaveSignatures
<1>2. /\ source = "solana" /\ run.at = "work" /\ run.todo = {}
      /\ scan' = [scan EXCEPT !["worker"] = Ended("worker")]
      /\ UNCHANGED <<source, kind, tip, indexed, age, rows, heard, faults>>
  BY DEF SaveSignatures, world
<1>3. "worker" \in Scanners /\ scan \in [Scanners -> ScanType] /\ run \in ScanType
  BY DEF IInv, TypeOK, Scanners
<1>4. kept \subseteq saved.resolved \union run.retired
  BY <1>1 DEF Kept, kSubset
<1>5. saved.resolved \union run.retired \subseteq Txs /\ next \in 0..MaxTip
  BY <1>3 DEF IInv, TypeOK, SavedType, ScanType
<1>6. saved' \in SavedType /\ saved'.cursor = next /\ ~saved'.exhausted /\ saved'.resolved = kept
  BY <1>1, <1>4, <1>5, SavedRecord
<1>7. /\ Ended("worker") \in ScanType /\ Ended("worker").at = "idle"
      /\ Ended("worker").cursor = 0 /\ Ended("worker").retired = {}
  BY <1>3, IdleOK DEF Ended, Idle
<1>8. TypeOK'
  BY <1>2, <1>3, <1>6, <1>7 DEF IInv, TypeOK
<1>9. scan'["worker"] = Ended("worker") /\ \A q \in Scanners \ {"worker"} : scan'[q] = scan[q]
  BY <1>2, <1>3
<1>10. CursorOK(next)
  <2>1. CASE HistoryIncomplete
    BY <1>3, <2>1 DEF IInv, WalkOK
  <2>2. CASE ~HistoryIncomplete
    <3>1. \A i \in History : i \in Answered \/ run.next = 0 \/ i < run.next
      BY <1>2, <1>3, <2>2 DEF IInv, WalkOK, WorkOK, HistoryIncomplete
    <3>2. run.next \in Nat /\ \A i \in History : i \in Nat
      BY <1>3, HistoryAssumption DEF ScanType, History
    <3>3. QED
      BY <2>2, <3>1, <3>2 DEF CursorOK
  <2>3. QED
    BY <2>1, <2>2
<1>11. CursorOK(scan'["worker"].cursor) /\ scan'["worker"].at # "work"
  BY <1>7, <1>9 DEF CursorOK
<1>12. WalkOK'
  BY <1>2, <1>3, <1>6, <1>9, <1>10, <1>11, CursorMoves DEF IInv
<1>13. (ResolvedOK /\ AgeOK /\ UnburntOK)'
  BY <1>2, <1>4, <1>6, <1>7, <1>9 DEF IInv, ResolvedOK, AgeOK, UnburntOK, Burns
<1>14. QED
  BY <1>8, <1>12, <1>13 DEF IInv

-----------------------------------------------------------------------------
(* The theorems.                                                            *)

LEMMA NextOK == IInv /\ [Next]_vars => IInv'
<1>1. IInv /\ World => IInv'
  BY RipenStep, CircleIndexesStep DEF World
<1>2. "worker" \in Scanners /\ Scripts \subseteq Scanners
  BY DEF Scanners
<1>3. \A p \in Scanners : IInv /\ Evm(p) => IInv'
  BY FetchPageStep, StoreBurnStep, SavePageStep DEF Evm
<1>4. IInv /\ Solana => IInv'
  BY ListSignaturesStep, AskCircleStep, SaveSignaturesStep DEF Solana
<1>5. IInv /\ UNCHANGED vars => IInv'
  <2> SUFFICES ASSUME IInv, UNCHANGED vars PROVE IInv'
    OBVIOUS
  <2>1. Answered' = Answered
    BY DEF vars, Answered, Burns
  <2>2. WalkOK'
    BY <2>1, Undisturbed DEF IInv, vars
  <2>3. QED
    BY <2>2 DEF IInv, vars, TypeOK, ResolvedOK, AgeOK, UnburntOK, Burns
<1>6. QED
  BY <1>1, <1>2, <1>3, <1>4, <1>5, ArriveStep, StartStep, CutShortStep DEF Next, Worker

LEMMA Invariance == Spec => []IInv
  BY InitOK, NextOK, PTL DEF Spec

\* The variables keep their types.
THEOREM TypeCorrect == Spec => []TypeOK
<1>1. IInv => TypeOK
  BY DEF IInv
<1>2. QED
  BY <1>1, Invariance, PTL

\* No burn is ever retired from the rotation (canRetireSignature).
THEOREM BurnsStay == Spec => []NoBurnRetired
<1>1. IInv => NoBurnRetired
  BY DEF IInv, UnburntOK, NoBurnRetired
<1>2. QED
  BY <1>1, Invariance, PTL

\* What the invariant says of the stored cursor, now and after a step.
LEMMA PassedAnswered ==
    (IInv => Passed \subseteq Answered) /\ (IInv' => Passed' \subseteq Answered')
<1>1. IInv => Passed \subseteq Answered
  BY HistoryAssumption DEF IInv, WalkOK, CursorOK, Passed, Behind, TypeOK, SavedType
<1>2. IInv' => Passed' \subseteq Answered'
  BY HistoryAssumption DEF IInv, WalkOK, CursorOK, Passed, Behind, TypeOK, SavedType
<1>3. QED
  BY <1>1, <1>2

\* Each step of a backfill answers for one transaction, moves the cursor within
\* what was answered for, or does nothing the promise speaks of.
LEMMA StepRefines == IInv /\ IInv' /\ [Next]_vars => [Promise!Next]_<<Answered, Passed>>
<1> SUFFICES ASSUME IInv, IInv', [Next]_vars PROVE [Promise!Next]_<<Answered, Passed>>
  OBVIOUS
<1>1. ASSUME NEW i, Answered' = Answered \union ({i} \intersect History), Passed' = Passed
      PROVE  [Promise!Next]_<<Answered, Passed>>
  BY <1>1 DEF Promise!Next, Promise!Answer
<1>2. CASE UNCHANGED <<source, kind, rows, heard>>
  <2>1. UNCHANGED Answered
    BY <1>2 DEF Answered, Burns
  <2>2. Passed' \subseteq Answered
    BY <2>1, PassedAnswered
  <2>3. QED
    BY <2>1, <2>2 DEF Promise!Next, Promise!Move
<1>3. ASSUME NEW p \in Scanners, StoreBurn(p) PROVE [Promise!Next]_<<Answered, Passed>>
  <2>1. PICK i : rows' = rows \union {i}
    BY <1>3 DEF StoreBurn
  <2>2. Answered' = Answered \union ({i} \intersect History)
    BY <1>3, <2>1 DEF StoreBurn, world, Answered, Burns
  <2>3. Passed' = Passed
    BY <1>3 DEF StoreBurn, Passed, Behind
  <2>4. QED
    BY <1>1, <2>2, <2>3
<1>4. ASSUME NEW i \in Txs, AskCircle(i) PROVE [Promise!Next]_<<Answered, Passed>>
  <2>1. Passed' = Passed
    BY <1>4 DEF AskCircle, Passed, Behind
  <2>2. CASE Unread(i)
    BY <1>2, <1>4, <2>2 DEF AskCircle, Unread, world
  <2>3. CASE Ingested(i) \/ Skipped(i)
    <3>1. Answered' = Answered \union ({i} \intersect History)
      BY <1>4, <2>3 DEF AskCircle, Ingested, Skipped, world, Answered
    <3>2. QED
      BY <1>1, <2>1, <3>1
  <2>4. QED
    BY <1>4, <2>2, <2>3 DEF AskCircle
<1>5. CASE UNCHANGED vars \/ Arrive \/ World
  BY <1>2, <1>5 DEF vars, Arrive, World, Ripen, CircleIndexes
<1>6. ASSUME NEW p \in Scanners,
             Start(p) \/ CutShort(p) \/ FetchPage(p) \/ SavePage(p) \/ ListSignatures \/ SaveSignatures
      PROVE  [Promise!Next]_<<Answered, Passed>>
  BY <1>2, <1>6 DEF Start, CutShort, FetchPage, SavePage, ListSignatures, SaveSignatures, world
<1>7. QED
  <2>1. "worker" \in Scanners /\ Scripts \subseteq Scanners
    BY DEF Scanners
  <2>2. QED
    BY <1>3, <1>4, <1>5, <1>6, <2>1 DEF Next, Worker, Evm, Solana

\* The cursor passes only what was answered for: a backfill implements
\* PageCursor, whatever fails and whoever else drives the cursor.
THEOREM CursorKeepsPromise == Spec => CursorPromise
<1>1. Init => Promise!Init
  <2> SUFFICES ASSUME Init PROVE Promise!Init
    OBVIOUS
  <2>1. Passed \subseteq Answered
    BY InitOK, PassedAnswered
  <2>2. QED
    BY <2>1 DEF Promise!Init, Answered, History
<1>2. QED
  BY <1>1, Invariance, StepRefines, PTL DEF Spec, CursorPromise, Promise!Spec

=============================================================================
