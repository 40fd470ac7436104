------------------------ MODULE HolderIndexerProofs ------------------------
(***************************************************************************)
(* Proofs about HolderIndexer, for every set of tokens and addresses,      *)
(* every history, window size, cap, batch, number and place of failures.   *)
(* What is stored of a token is right as long as no attempt of that token  *)
(* is cut short between the transaction and the cursor write.  (Runs of    *)
(* HolderIndexer show what happens when one is.)                           *)
(***************************************************************************)
EXTENDS HolderIndexer, FiniteSetTheorems, TLAPS

Working == {"scan", "verify", "fallback", "commit", "cursor"}
Folded == {"verify", "fallback", "commit", "cursor"}

\* A deploy block is stored once the head it was searched in has passed it.
DeployOK ==
    \A t \in Tokens : deployKnown[t] =>
        /\ ledger[t].deploy \in 2..head
        /\ pc # "idle" => ledger[t].deploy <= run.head

CursorOK == \A t \in Tokens : cursor[t].lastBlock > 0 => cursor[t].source # "none"

\* The scan in progress continues the cursor, or starts at the deploy block.
WorkOK ==
    pc \in Working =>
        /\ tok \in Tokens
        /\ scan.from \in 1..run.head
        /\ scan.resumed => Resumable(tok) /\ scan.from = cursor[tok].lastBlock + 1
        /\ ~scan.resumed => scan.from = ledger[tok].deploy

\* A fold of logs, of a token of S, is the balance set of the block the scan
\* reached.
FoldOK(S) ==
    pc \in Folded =>
        /\ scan.scannedTo \in scan.from..run.head
        /\ tok \in S /\ Faithful(tok) /\ scan.source = "transfer_logs"
              => scan.fold = ledger[tok].bal[scan.scannedTo]

\* Between the transaction and the cursor write, the rows are the fold.
CommitOK ==
    pc = "cursor" =>
        /\ rows[tok] = scan.fold
        /\ Complete /\ scan.source = "transfer_logs"
              => holderCount[tok] = Cardinality(Holders(scan.fold))

ForwardOK ==
    run.forward > 0 => \E t \in Tokens : cursor[t].source # "none"

\* The three properties of HolderIndexer about what is stored, for the tokens
\* of S alone.
WholeRows(S) ==
    \A t \in S :
        Faithful(t) /\ Resumable(t) /\ ~(pc = "cursor" /\ tok = t)
            => rows[t] = ledger[t].bal[cursor[t].lastBlock]

TrueCounts(S) ==
    \A t \in S :
        Faithful(t) /\ holderCount[t] # -1 => holderCount[t] = HoldersAt(t, countAt[t])

MatchingCounts(S) ==
    \A t \in S :
        cursor[t].complete /\ cursor[t].source = "transfer_logs" /\ ~(pc = "cursor" /\ tok = t)
            => holderCount[t] = Cardinality(Holders(rows[t]))

\* The invariant of the behaviours in which no attempt of a token of S is cut
\* short between its two writes; nothing is asked about the other tokens.
IInv(S) ==
    /\ TypeOK
    /\ run.head <= head
    /\ DeployOK /\ CursorOK /\ WorkOK /\ FoldOK(S) /\ CommitOK /\ ForwardOK
    /\ WholeRows(S) /\ TrueCounts(S) /\ MatchingCounts(S) /\ HealthyOnceIndexed

-----------------------------------------------------------------------------
(* Lemmas about the operators.                                              *)

\* The holders of a fold can be counted (rankHolders returns a finite array).
LEMMA HoldersCard ==
    ASSUME NEW f
    PROVE  Cardinality(Holders(f)) \in Nat
<1>1. Holders(f) \subseteq Addrs
  BY DEF Holders
<1>2. IsFiniteSet(Holders(f))
  BY <1>1, FS_Subset, TokensAssumption
<1> QED  BY <1>2, FS_CardinalityType

\* foldBalances followed by rankHolders yields stored rows: no negative balance
\* survives, whatever the deltas.
LEMMA FoldType ==
    ASSUME NEW c \in RowSet, NEW d \in [Addrs -> Int]
    PROVE  FoldBalances(c, d) \in RowSet
BY DEF FoldBalances, Positive, RowSet

\* The deltas scanTransfers adds up over a range of mined blocks are integers.
LEMMA DeltasType ==
    ASSUME NEW h, IsHistory(h), NEW i \in 1..MaxBlock, NEW j \in Blocks
    PROVE  Deltas(h, i, j) \in [Addrs -> Int]
<1>1. i - 1 \in Blocks
  BY ParameterAssumption DEF Blocks
<1>2. h.logged[j] \in [Addrs -> Int] /\ h.logged[i - 1] \in [Addrs -> Int]
  BY <1>1 DEF IsHistory
<1> QED  BY <1>2 DEF Deltas

\* Deltas telescope: the balances before block i plus the events of i..j are
\* the balances at the end of j.
LEMMA FoldExact ==
    ASSUME NEW h, IsHistory(h), h.logged = h.bal,
           NEW i \in 1..MaxBlock, NEW j \in Blocks
    PROVE  FoldBalances(h.bal[i - 1], Deltas(h, i, j)) = h.bal[j]
<1>1. i - 1 \in Blocks
  BY ParameterAssumption DEF Blocks
<1>2. h.bal[i - 1] \in [Addrs -> Nat] /\ h.bal[j] \in [Addrs -> Nat]
  BY <1>1 DEF IsHistory, RowSet
<1> DEFINE p == h.bal[i - 1]
           q == h.bal[j]
<1>3. Deltas(h, i, j) = [a \in Addrs |-> q[a] - p[a]]
  BY DEF Deltas
<1>4. FoldBalances(p, Deltas(h, i, j)) = [a \in Addrs |-> q[a]]
  <2>1. \A a \in Addrs : p[a] + Deltas(h, i, j)[a] = q[a] /\ q[a] \in Nat
    BY <1>2, <1>3
  <2>2. \A a \in Addrs : (IF q[a] > 0 THEN q[a] ELSE 0) = q[a]
    BY <2>1
  <2> QED  BY <2>1, <2>2 DEF FoldBalances, Positive
<1>5. q = [a \in Addrs |-> q[a]]
  BY <1>2
<1> QED  BY <1>4, <1>5

-----------------------------------------------------------------------------
(* Every step preserves the inductive invariant.                            *)

\* Moving a token to the end of the attempt order is well typed.
LEMMA TouchType ==
    ASSUME TypeOK, NEW t \in Tokens, Touch(t)
    PROVE  turn' \in [Tokens -> Int]
<1>1. Cardinality(Tokens) \in Nat
  BY TokensAssumption, FS_CardinalityType
<1> QED  BY <1>1 DEF TypeOK, Touch

\* The local variables between two runs or two tokens are well typed.
LEMMA IdleTypes == NoRun \in RunType /\ NoScan \in ScanType /\ 0 \in Blocks
<1>1. 0 \in Blocks
  BY ParameterAssumption DEF Blocks
<1>2. NoRows \in RowSet
  BY DEF NoRows, RowSet
<1>3. NoRun \in RunType
  BY <1>1 DEF NoRun, RunType
<1>4. NoScan \in ScanType
  BY <1>1, <1>2 DEF NoScan, ScanOf, ScanType
<1> QED  BY <1>1, <1>3, <1>4

\* indexToken returns: only the counters of the run change, and the run keeps
\* the head it read.
LEMMA ReturnType ==
    ASSUME TypeOK, NEW t \in Tokens, NEW n \in Nat, NEW m \in Nat, Return(t, n, m)
    PROVE  /\ run' \in RunType /\ tok' = NoToken /\ scan' = NoScan /\ pc' = "pick"
           /\ scan' \in ScanType
           /\ run'.head = run.head /\ run'.forward = run.forward + m
           /\ run.forward \in Nat
<1>1. run \in RunType
  BY DEF TypeOK
<1>2. run'.head = run.head /\ run'.forward = run.forward + m /\ run.forward \in Nat
  BY <1>1 DEF RunType, Return
<1>3. run' \in RunType
  BY <1>1 DEF RunType, Return
<1> QED  BY <1>2, <1>3, IdleTypes DEF Return

\* A block mined under a running scan disturbs nothing: the run keeps its head.
LEMMA MineStep ==
    ASSUME NEW S \in SUBSET Tokens, IInv(S), Mine
    PROVE  IInv(S)'
<1> USE DEF Mine, store
<1>1. TypeOK' /\ run'.head <= head'
  BY ParameterAssumption DEF IInv, TypeOK, Blocks, RunType
<1>2. DeployOK' /\ WorkOK' /\ FoldOK(S)'
  BY DEF IInv, DeployOK, WorkOK, FoldOK, Faithful, Resumable, TypeOK, Blocks
<1>3. CursorOK' /\ CommitOK' /\ ForwardOK'
  BY DEF IInv, CursorOK, CommitOK, ForwardOK, Complete
<1>4. WholeRows(S)' /\ TrueCounts(S)' /\ MatchingCounts(S)' /\ HealthyOnceIndexed'
  BY DEF IInv, WholeRows, TrueCounts, MatchingCounts,
         HealthyOnceIndexed, Faithful, Resumable, HoldersAt
<1> QED  BY <1>1, <1>2, <1>3, <1>4 DEF IInv

\* A run starts with the head of that moment and no progress to report.
LEMMA StartRunStep ==
    ASSUME NEW S \in SUBSET Tokens, IInv(S), StartRun
    PROVE  IInv(S)'
<1> USE DEF StartRun, store, NoRun
<1> DEFINE batch == {t \in Tokens : turn[t] <= BatchSize}
<1>1. Cardinality(batch) \in Nat
  BY TokensAssumption, FS_Subset, FS_CardinalityType
<1>2. run' \in RunType
  BY <1>1 DEF RunType, IInv, TypeOK
<1>21. TypeOK' /\ run'.head <= head'
  BY <1>2, ParameterAssumption DEF IInv, TypeOK, Points, Blocks
<1>3. pc' = "pick" /\ run'.forward = 0 /\ run'.head = head
  BY DEF IInv, TypeOK
<1>4. DeployOK' /\ WorkOK' /\ FoldOK(S)' /\ CommitOK' /\ ForwardOK' /\ CursorOK'
  BY <1>3 DEF IInv, DeployOK, WorkOK, FoldOK, CommitOK, ForwardOK, CursorOK, Working, Folded,
              TypeOK, Blocks
<1>5. WholeRows(S)' /\ TrueCounts(S)' /\ MatchingCounts(S)' /\ HealthyOnceIndexed'
  BY <1>3 DEF IInv, WholeRows, TrueCounts, MatchingCounts,
         HealthyOnceIndexed, Faithful, Resumable, HoldersAt
<1> QED  BY <1>21, <1>4, <1>5 DEF IInv

\* The health row: a run that moved a token forward has indexed one.
LEMMA FinishRunStep ==
    ASSUME NEW S \in SUBSET Tokens, IInv(S), FinishRun
    PROVE  IInv(S)'
<1> USE DEF FinishRun, NoRun
<1>0. run'.head = 0 /\ run'.forward = 0
  OBVIOUS
<1>1. TypeOK' /\ run'.head <= head'
  BY <1>0, IdleTypes, ParameterAssumption DEF IInv, TypeOK, Blocks, IsCleanRun
<1>2. DeployOK' /\ WorkOK' /\ FoldOK(S)' /\ CommitOK' /\ ForwardOK' /\ CursorOK'
  BY DEF IInv, DeployOK, WorkOK, FoldOK, CommitOK, ForwardOK, CursorOK, Working, Folded
<1>3. WholeRows(S)' /\ TrueCounts(S)' /\ MatchingCounts(S)'
  BY DEF IInv, WholeRows, TrueCounts, MatchingCounts,
         Faithful, Resumable, HoldersAt
<1>4. HealthyOnceIndexed'
  BY DEF IInv, HealthyOnceIndexed, IsCleanRun, ForwardOK
<1> QED  BY <1>1, <1>2, <1>3, <1>4 DEF IInv

\* What remains true when indexToken returns without writing rows or cursor.
LEMMA SkipStep ==
    ASSUME NEW S \in SUBSET Tokens, IInv(S), NEW t \in Tokens, pc # "idle",
           pc = "cursor" => tok \notin S,
           turn' \in [Tokens -> Int], faults' \in Nat,
           NEW n \in Nat, Return(t, n, 0),
           UNCHANGED <<head, ledger, rows, holderCount, countAt, deployKnown, cursor, healthy>>
    PROVE  IInv(S)'
<1>2. /\ run' \in RunType /\ scan' \in ScanType /\ pc' = "pick" /\ tok' = NoToken
      /\ run'.head = run.head /\ run'.forward = run.forward
  BY ReturnType DEF IInv
<1>1. TypeOK' /\ run'.head <= head'
  BY <1>2 DEF IInv, TypeOK, Points
<1>3. DeployOK' /\ WorkOK' /\ FoldOK(S)' /\ CommitOK' /\ ForwardOK' /\ CursorOK'
  BY <1>2 DEF IInv, DeployOK, WorkOK, FoldOK, CommitOK, ForwardOK, CursorOK, Working, Folded
<1>4. WholeRows(S)' /\ TrueCounts(S)' /\ MatchingCounts(S)' /\ HealthyOnceIndexed'
  BY DEF IInv, WholeRows, TrueCounts, MatchingCounts,
         HealthyOnceIndexed, Faithful, Resumable, HoldersAt
<1> QED  BY <1>1, <1>3, <1>4 DEF IInv

\* deploy_block_unavailable changes the attempt order only.
LEMMA DeployUnknownStep ==
    ASSUME NEW S \in SUBSET Tokens, IInv(S), NEW t \in Tokens, DeployUnknown(t)
    PROVE  IInv(S)'
<1>1. turn' \in [Tokens -> Int]
  BY TouchType DEF DeployUnknown, IInv
<1>2. faults' \in Nat
  BY DEF DeployUnknown, Fault, IInv, TypeOK
<1> QED  BY <1>1, <1>2, SkipStep DEF DeployUnknown, Skip

\* An attempt that throws changes the attempt order at most; one that throws in
\* the gap leaves the new rows under the old cursor, so its token is not of S.
LEMMA ThrowStep ==
    ASSUME NEW S \in SUBSET Tokens, IInv(S), NEW t \in Tokens, Throw(t),
           pc = "cursor" => t \notin S
    PROVE  IInv(S)'
<1>1. turn' \in [Tokens -> Int]
  BY TouchType DEF Throw, IInv, TypeOK
<1>2. faults' \in Nat
  BY DEF Throw, Fault, IInv, TypeOK
<1>3. pc # "idle" /\ (pc = "cursor" => tok \notin S)
  BY FaultAssumption DEF Throw, Points
<1> QED  BY <1>1, <1>2, <1>3, SkipStep DEF Throw

\* verification_unavailable changes the attempt order only.
LEMMA VerificationUnavailableStep ==
    ASSUME NEW S \in SUBSET Tokens, IInv(S), VerificationUnavailable
    PROVE  IInv(S)'
<1>0. tok \in Tokens /\ pc = "verify"
  BY DEF VerificationUnavailable, VerifyDone, IInv, WorkOK, Working
<1>1. turn' \in [Tokens -> Int]
  BY <1>0, TouchType DEF VerificationUnavailable, IInv
<1>2. faults' \in Nat
  BY DEF VerificationUnavailable, IInv, TypeOK
<1> QED  BY <1>0, <1>1, <1>2, SkipStep DEF VerificationUnavailable, Skip

\* A kill leaves the stored state as it was; in the gap, of a token not of S.
LEMMA KillStep ==
    ASSUME NEW S \in SUBSET Tokens, IInv(S), Kill,
           pc = "cursor" => tok \notin S
    PROVE  IInv(S)'
<1> USE DEF Kill, store
<1>1. TypeOK' /\ run'.head <= head'
  BY IdleTypes, ParameterAssumption DEF IInv, TypeOK, Fault, NoRun, Blocks
<1>2. DeployOK' /\ WorkOK' /\ FoldOK(S)' /\ CommitOK' /\ ForwardOK' /\ CursorOK'
  BY DEF IInv, DeployOK, WorkOK, FoldOK, CommitOK, ForwardOK, CursorOK, Working, Folded, NoRun
<1>3. WholeRows(S)' /\ TrueCounts(S)' /\ MatchingCounts(S)' /\ HealthyOnceIndexed'
  BY DEF IInv, WholeRows, TrueCounts, MatchingCounts,
         HealthyOnceIndexed, Faithful, Resumable, HoldersAt
<1> QED  BY <1>1, <1>2, <1>3 DEF IInv

\* up_to_date counts as progress only for a token that has been indexed: a
\* stored deploy block never lies beyond the head.
LEMMA UpToDateStep ==
    ASSUME NEW S \in SUBSET Tokens, IInv(S), NEW t \in Tokens, UpToDate(t)
    PROVE  IInv(S)'
<1>1. /\ run' \in RunType /\ scan' \in ScanType /\ pc' = "pick" /\ tok' = NoToken
      /\ run'.head = run.head
  BY ReturnType DEF UpToDate, Forward, IInv
<1>2. turn' \in [Tokens -> Int]
  BY TouchType DEF UpToDate, IInv
<1>3. TypeOK' /\ run'.head <= head'
  BY <1>1, <1>2 DEF UpToDate, IInv, TypeOK, Points
<1>4. cursor[t].source # "none"
  \* A deploy block that is known, or found, is not above the run's head.
  <2>1. CASE Resumable(t)
    BY <2>1 DEF Resumable, IInv, CursorOK
  <2>2. CASE ~Resumable(t)
    <3>1. ledger[t].deploy <= run.head
      BY <2>2 DEF UpToDate, DeployFound, IInv, DeployOK
    <3>2. ledger[t].deploy > run.head
      BY <2>2 DEF UpToDate, ScanFrom
    <3>3. ledger[t].deploy \in Nat /\ run.head \in Nat
      BY ParameterAssumption DEF IInv, TypeOK, IsHistory, RunType, Blocks
    <3> QED  BY <3>1, <3>2, <3>3
  <2> QED  BY <2>1, <2>2
<1>5. DeployOK' /\ WorkOK' /\ FoldOK(S)' /\ CommitOK' /\ ForwardOK' /\ CursorOK'
  BY <1>1, <1>4 DEF UpToDate, IInv, DeployOK, WorkOK, FoldOK, CommitOK, ForwardOK, CursorOK,
                    Working, Folded
<1>6. WholeRows(S)' /\ TrueCounts(S)' /\ MatchingCounts(S)' /\ HealthyOnceIndexed'
  BY <1>1 DEF UpToDate, IInv, WholeRows, TrueCounts, MatchingCounts,
         HealthyOnceIndexed, Faithful, Resumable, HoldersAt
<1> QED  BY <1>3, <1>5, <1>6 DEF IInv

\* A scan starts after the cursor when it may resume, at the deploy block when
\* it may not.
LEMMA BeginScanStep ==
    ASSUME NEW S \in SUBSET Tokens, IInv(S), NEW t \in Tokens, BeginScan(t)
    PROVE  IInv(S)'
<1> USE DEF BeginScan
<1>1. /\ ledger[t].deploy \in Nat /\ run.head \in Blocks /\ cursor[t].lastBlock \in Blocks
      /\ head \in Blocks /\ Blocks \subseteq Nat
  BY ParameterAssumption DEF IInv, TypeOK, IsHistory, RunType, CursorType, Blocks
<1>2. ~Resumable(t) => ledger[t].deploy \in 2..head /\ ledger[t].deploy <= run.head
  BY <1>1 DEF DeployFound, IInv, DeployOK, Blocks
<1>3. ScanFrom(t) \in 1..run.head
  <2>0. cursor[t].lastBlock \in Nat /\ run.head \in Nat
    BY <1>1
  <2> HIDE DEF BeginScan
  <2>1. ScanFrom(t) <= run.head
    BY DEF BeginScan
  <2>2. ScanFrom(t) \in Nat /\ ScanFrom(t) >= 1
    BY <1>1, <1>2, <2>0 DEF ScanFrom
  <2> QED  BY <2>0, <2>1, <2>2
<1>4. /\ scan'.from = ScanFrom(t) /\ scan'.resumed = Resumable(t)
      /\ scan' \in ScanType
  <2>1. Resumable(t) \in BOOLEAN /\ ScanFrom(t) \in Nat
    BY <1>1, <1>3 DEF Resumable, Blocks
  <2>2. NoRows \in RowSet
    BY DEF NoRows, RowSet
  <2> QED  BY <2>1, <2>2, IdleTypes DEF ScanOf, ScanType
<1>5. TypeOK' /\ run'.head <= head'
  BY <1>4 DEF IInv, TypeOK, Points, Resumable
<1>6. DeployOK'
  BY <1>1, <1>2 DEF IInv, DeployOK, TypeOK
<1>7. WorkOK'
  BY <1>3, <1>4 DEF IInv, WorkOK, Resumable, ScanFrom
<1>8. FoldOK(S)' /\ CommitOK' /\ ForwardOK' /\ CursorOK'
  BY DEF IInv, FoldOK, CommitOK, ForwardOK, CursorOK, Folded
<1>9. WholeRows(S)' /\ TrueCounts(S)' /\ MatchingCounts(S)' /\ HealthyOnceIndexed'
  BY DEF IInv, WholeRows, TrueCounts, MatchingCounts,
         HealthyOnceIndexed, Faithful, Resumable, HoldersAt
<1> QED  BY <1>5, <1>6, <1>7, <1>8, <1>9 DEF IInv

\* The fold of a clean prefix of windows is the balance set of the last block
\* of that prefix.
LEMMA ScanTransfersStep ==
    ASSUME NEW S \in SUBSET Tokens, IInv(S), NEW e \in Blocks, ScanTransfers(e)
    PROVE  IInv(S)'
<1> USE DEF ScanTransfers, store
<1> DEFINE h == ledger[tok]
           c == CarryOver(tok, scan.resumed)
           d == Deltas(h, scan.from, e)
<1>0. pc = "scan" /\ tok \in Tokens /\ IsHistory(h)
  BY DEF IInv, WorkOK, Working, TypeOK
<1>1. scan.from \in 1..MaxBlock /\ e \in scan.from..run.head /\ e \in Nat /\ run.head \in Nat
  BY <1>0, ParameterAssumption
     DEF IInv, WorkOK, Working, TypeOK, RunType, ScanType, Blocks, ScanEnds
<1>2. c \in RowSet
  BY <1>0, IdleTypes DEF CarryOver, IInv, TypeOK, NoRows, RowSet
<1>3. scan' \in ScanType /\ scan'.scannedTo = e /\ scan'.fold = FoldBalances(c, d)
      /\ scan'.from = scan.from /\ scan'.resumed = scan.resumed
  <2>1. FoldBalances(c, d) \in RowSet
    BY <1>0, <1>1, <1>2, FoldType, DeltasType
  <2> QED  BY <2>1 DEF IInv, TypeOK, ScanType
<1>4. tok \in S /\ Faithful(tok) => FoldBalances(c, d) = h.bal[e]
  <2> SUFFICES ASSUME tok \in S, Faithful(tok) PROVE c = h.bal[scan.from - 1]
    BY <1>0, <1>1, FoldExact DEF Faithful
  <2>1. CASE scan.resumed
    <3>1. Resumable(tok) /\ scan.from = cursor[tok].lastBlock + 1
      BY <2>1, <1>0 DEF IInv, WorkOK, Working
    <3>2. rows[tok] = h.bal[cursor[tok].lastBlock]
      BY <3>1, <1>0 DEF IInv, WholeRows
    <3>3. cursor[tok].lastBlock \in Nat
      BY <1>0, ParameterAssumption DEF IInv, TypeOK, CursorType, Blocks
    <3> QED  BY <2>1, <3>1, <3>2, <3>3 DEF CarryOver
  <2>2. CASE ~scan.resumed
    <3>1. scan.from - 1 \in Blocks /\ scan.from - 1 < h.deploy
      BY <2>2, <1>0, <1>1, ParameterAssumption DEF IInv, WorkOK, Working, Blocks
    <3> QED  BY <2>2, <3>1, <1>0 DEF CarryOver, IsHistory
  <2> QED  BY <2>1, <2>2 DEF IInv, TypeOK, ScanType
<1>5. TypeOK' /\ run'.head <= head'
  BY <1>3 DEF IInv, TypeOK, Points, Fault
<1>6. FoldOK(S)'
  BY <1>0, <1>1, <1>3, <1>4 DEF FoldOK, Faithful
<1>7. WorkOK'
  BY <1>0, <1>3 DEF IInv, WorkOK, Working, Resumable
<1>8. DeployOK' /\ CommitOK' /\ ForwardOK' /\ CursorOK'
  BY <1>0 DEF IInv, DeployOK, CommitOK, ForwardOK, CursorOK
<1>9. WholeRows(S)' /\ TrueCounts(S)' /\ MatchingCounts(S)' /\ HealthyOnceIndexed'
  BY <1>0 DEF IInv, WholeRows, TrueCounts, MatchingCounts,
         HealthyOnceIndexed, Faithful, Resumable, HoldersAt
<1> QED  BY <1>5, <1>6, <1>7, <1>8, <1>9 DEF IInv

\* The steps of the verification change nothing that is stored; only the fold
\* of a fallback, which is no longer one of logs, is replaced.
LEMMA CheckStep ==
    ASSUME NEW S \in SUBSET Tokens, IInv(S), pc \in {"verify", "fallback"}, pc' \in {"verify", "fallback", "commit"},
           scan' \in ScanType, scan'.from = scan.from, scan'.scannedTo = scan.scannedTo,
           scan'.resumed = scan.resumed,
           \/ scan'.fold = scan.fold /\ scan'.source = scan.source
           \/ scan'.source = "balance_of",
           faults' \in Nat,
           UNCHANGED <<head, ledger, store, run, tok>>
    PROVE  IInv(S)'
<1> USE DEF store
<1>1. TypeOK' /\ run'.head <= head'
  BY DEF IInv, TypeOK, Points
<1>2. DeployOK' /\ CommitOK' /\ ForwardOK' /\ CursorOK'
  BY DEF IInv, DeployOK, CommitOK, ForwardOK, CursorOK
<1>3. WorkOK'
  BY DEF IInv, WorkOK, Working, Resumable
<1>4. FoldOK(S)'
  BY DEF IInv, FoldOK, Folded, Faithful
<1>5. WholeRows(S)' /\ TrueCounts(S)' /\ MatchingCounts(S)' /\ HealthyOnceIndexed'
  BY DEF IInv, WholeRows, TrueCounts, MatchingCounts,
         HealthyOnceIndexed, Faithful, Resumable, HoldersAt
<1> QED  BY <1>1, <1>2, <1>3, <1>4, <1>5 DEF IInv

\* balanceOf of the top of the fold, holder by holder.
LEMMA VerifyStep ==
    ASSUME NEW S \in SUBSET Tokens, IInv(S), (\E a \in Addrs : VerifyHolder(a)) \/ Verified
    PROVE  IInv(S)'
<1>0. scan \in ScanType /\ faults \in Nat
  BY DEF IInv, TypeOK
<1>1. CASE Verified
  BY <1>0, <1>1, CheckStep DEF Verified, VerifyDone
<1>2. ASSUME NEW a \in Addrs, VerifyHolder(a) PROVE IInv(S)'
  <2> USE DEF VerifyHolder
  <2>1. /\ scan' \in ScanType /\ scan'.from = scan.from /\ scan'.scannedTo = scan.scannedTo
        /\ scan'.resumed = scan.resumed /\ scan'.fold = scan.fold
        /\ scan'.source = scan.source
    <3>1. ASSUME NEW n \in {0, 1} PROVE Checked(n) \in ScanType
      BY <1>0 DEF Checked, ScanType
    <3>2. CASE scan' = Checked(0)
      BY <3>1, <3>2 DEF Checked
    <3>3. CASE scan' = Checked(1)
      BY <3>1, <3>3 DEF Checked
    <3>4. CASE UNCHANGED scan
      BY <1>0, <3>4
    <3> QED  BY <1>2, <3>2, <3>3, <3>4
  <2>2. faults' \in Nat /\ pc' \in {"verify", "fallback"} /\ pc = "verify"
    BY <1>0, <1>2 DEF Fault
  <2> QED  BY <1>2, <2>1, <2>2, CheckStep
<1> QED  BY <1>1, <1>2

\* The balanceOf fallback either replaces the fold by a sample that is never
\* resumed from, or resets the cursor.
LEMMA FallbackStep ==
    ASSUME NEW S \in SUBSET Tokens, IInv(S), NEW unread \in SUBSET Addrs, Fallback(unread)
    PROVE  IInv(S)'
<1> DEFINE candidates == Top(scan.fold, FallbackLimit)
           reset == 4 * Cardinality(unread) > Cardinality(candidates)
<1>0. /\ pc = "fallback" /\ tok \in Tokens /\ scan \in ScanType /\ faults' \in Nat
      /\ head \in Blocks /\ IsHistory(ledger[tok])
  BY DEF Fallback, IInv, WorkOK, Working, TypeOK, Fault
<1>1. CASE ~reset
  <2>1. scan' = [scan EXCEPT !.source = "balance_of",
                   !.fold = [a \in Addrs |-> IF a \in candidates \ unread
                                             THEN ledger[tok].bal[head][a] ELSE 0]]
        /\ pc' = "commit" /\ UNCHANGED <<head, ledger, store, run, tok>>
    BY <1>1 DEF Fallback, store
  <2>2. [a \in Addrs |-> IF a \in candidates \ unread
                         THEN ledger[tok].bal[head][a] ELSE 0] \in RowSet
    BY <1>0 DEF IsHistory, RowSet
  <2>3. scan' \in ScanType /\ scan'.source = "balance_of" /\ scan'.from = scan.from
        /\ scan'.scannedTo = scan.scannedTo /\ scan'.resumed = scan.resumed
    BY <1>0, <2>1, <2>2 DEF ScanType
  <2> QED  BY <1>0, <2>1, <2>3, CheckStep
<1>2. CASE reset
  <2>1. /\ cursor' = [cursor EXCEPT ![tok].lastBlock = 0] /\ Touch(tok) /\ Skip(tok)
        /\ UNCHANGED <<head, ledger, rows, holderCount, countAt, deployKnown, healthy>>
    BY <1>2 DEF Fallback
  <2>2. /\ run' \in RunType /\ scan' \in ScanType /\ pc' = "pick" /\ tok' = NoToken
        /\ run'.head = run.head /\ run'.forward = run.forward
    BY <1>0, <2>1, ReturnType DEF Skip, IInv
  <2>3. turn' \in [Tokens -> Int]
    BY <1>0, <2>1, TouchType DEF IInv
  <2>4. /\ cursor' \in [Tokens -> CursorType]
        /\ \A t \in Tokens : /\ cursor'[t].source = cursor[t].source
                             /\ cursor'[t].complete = cursor[t].complete
                             /\ t # tok => cursor'[t] = cursor[t]
        /\ cursor'[tok].lastBlock = 0
    BY <1>0, <2>1, IdleTypes DEF IInv, TypeOK, CursorType
  <2>5. TypeOK' /\ run'.head <= head'
    BY <1>0, <2>1, <2>2, <2>3, <2>4 DEF IInv, TypeOK, Points
  <2>6. DeployOK' /\ WorkOK' /\ FoldOK(S)' /\ CommitOK' /\ ForwardOK' /\ CursorOK'
    BY <1>0, <2>1, <2>2, <2>4 DEF IInv, DeployOK, WorkOK, FoldOK, CommitOK, ForwardOK,
                                  CursorOK, Working, Folded
  <2>7. WholeRows(S)' /\ TrueCounts(S)'
    BY <1>0, <2>1, <2>2, <2>4 DEF IInv, WholeRows, TrueCounts,
         Faithful, Resumable, HoldersAt
  <2>8. MatchingCounts(S)' /\ HealthyOnceIndexed'
    BY <1>0, <2>1, <2>2, <2>4 DEF IInv, MatchingCounts, HealthyOnceIndexed
  <2> QED  BY <2>5, <2>6, <2>7, <2>8 DEF IInv
<1> QED  BY <1>1, <1>2

\* The transaction stores the fold, and a count only for a complete one.
LEMMA CommitStep ==
    ASSUME NEW S \in SUBSET Tokens, IInv(S), Commit
    PROVE  IInv(S)'
<1> USE DEF Commit, StoredRows
<1>0. /\ pc = "commit" /\ pc' = "cursor" /\ tok \in Tokens /\ scan \in ScanType
      /\ scan.scannedTo \in Blocks /\ scan.fold \in RowSet
      /\ Cardinality(Holders(scan.fold)) \in Nat
  BY HoldersCard DEF IInv, WorkOK, Working, TypeOK, ScanType
<1>1. TypeOK' /\ run'.head <= head'
  BY <1>0 DEF IInv, TypeOK, Points
<1>2. DeployOK' /\ WorkOK' /\ FoldOK(S)' /\ ForwardOK' /\ CursorOK'
  BY <1>0 DEF IInv, DeployOK, WorkOK, FoldOK, ForwardOK, CursorOK, Working, Folded, Faithful,
              Resumable
<1>3. CommitOK'
  BY <1>0 DEF IInv, CommitOK, TypeOK, Complete
<1>4. WholeRows(S)' /\ MatchingCounts(S)' /\ HealthyOnceIndexed'
  BY <1>0 DEF IInv, TypeOK, WholeRows, MatchingCounts, HealthyOnceIndexed,
              Faithful, Resumable
<1>5. TrueCounts(S)'
  BY <1>0 DEF IInv, TypeOK, TrueCounts, Faithful, HoldersAt, FoldOK, Folded
<1> QED  BY <1>1, <1>2, <1>3, <1>4, <1>5 DEF IInv

\* The cursor write makes the committed rows resumable from the block they
\* belong to.
LEMMA WriteCursorStep ==
    ASSUME NEW S \in SUBSET Tokens, IInv(S), WriteCursor
    PROVE  IInv(S)'
<1>0. /\ pc = "cursor" /\ tok \in Tokens /\ scan \in ScanType
      /\ scan.scannedTo \in Blocks /\ Complete \in BOOLEAN
      /\ scan.source \in {"transfer_logs", "balance_of"}
  BY DEF WriteCursor, IInv, WorkOK, Working, TypeOK, ScanType, Complete
<1>1. /\ run' \in RunType /\ scan' \in ScanType /\ pc' = "pick" /\ tok' = NoToken
      /\ run'.head = run.head
  BY <1>0, ReturnType DEF WriteCursor, Forward, IInv
<1>2. turn' \in [Tokens -> Int]
  BY <1>0, TouchType DEF WriteCursor, IInv
<1>3. /\ cursor' \in [Tokens -> CursorType]
      /\ cursor'[tok] = [lastBlock |-> scan.scannedTo, complete |-> Complete,
                         source |-> scan.source]
      /\ \A t \in Tokens : t # tok => cursor'[t] = cursor[t]
  BY <1>0 DEF WriteCursor, IInv, TypeOK, CursorType
<1>4. UNCHANGED <<head, ledger, rows, holderCount, countAt, deployKnown, healthy, faults>>
  BY DEF WriteCursor
<1>5. TypeOK' /\ run'.head <= head'
  BY <1>0, <1>1, <1>2, <1>3, <1>4 DEF IInv, TypeOK, Points
<1>6. DeployOK' /\ WorkOK' /\ FoldOK(S)' /\ CommitOK' /\ ForwardOK' /\ CursorOK'
  BY <1>0, <1>1, <1>3, <1>4 DEF IInv, DeployOK, WorkOK, FoldOK, CommitOK, ForwardOK,
                                CursorOK, Working, Folded
<1>7. WholeRows(S)'
  BY <1>0, <1>1, <1>3, <1>4 DEF IInv, WholeRows, Faithful, Resumable, FoldOK,
                                Folded, CommitOK
<1>8. TrueCounts(S)' /\ MatchingCounts(S)'
  BY <1>0, <1>1, <1>3, <1>4 DEF IInv, TrueCounts, MatchingCounts, Faithful,
                                HoldersAt, CommitOK
<1>9. HealthyOnceIndexed'
  BY <1>0, <1>3, <1>4 DEF HealthyOnceIndexed
<1> QED  BY <1>5, <1>6, <1>7, <1>8, <1>9 DEF IInv

-----------------------------------------------------------------------------
(* The theorems.                                                            *)

\* An attempt of t is cut short between its transaction and its cursor write:
\* writeCursor throws, or the process is killed there.
CutShort(t) == pc = "cursor" /\ tok = t /\ (Throw(t) \/ Kill)

\* No attempt of a token of S ever is.
Spared(S) == [][\A t \in S : ~CutShort(t)]_vars

\* An empty inventory satisfies the inductive invariant.
LEMMA InitIInv ==
    ASSUME NEW S \in SUBSET Tokens
    PROVE  Init => IInv(S)
<1> SUFFICES ASSUME Init PROVE IInv(S)
  OBVIOUS
<1>1. TypeOK
  <2>1. NoRows \in RowSet /\ head \in Blocks
    BY ParameterAssumption DEF NoRows, RowSet, Init, Blocks
  <2>2. turn \in [Tokens -> Int]
    BY TokensAssumption, FS_CardinalityType DEF Init
  <2>3. cursor \in [Tokens -> CursorType]
    BY IdleTypes DEF Init, CursorType
  <2>4. DOMAIN ledger = Tokens /\ \A t \in Tokens : IsHistory(ledger[t])
    BY HistoryAssumption DEF Init
  <2>5. /\ rows \in [Tokens -> RowSet] /\ holderCount \in [Tokens -> Int]
        /\ countAt \in [Tokens -> Blocks] /\ deployKnown \in [Tokens -> BOOLEAN]
    BY <2>1, IdleTypes DEF Init
  <2> QED  BY <2>1, <2>2, <2>3, <2>4, <2>5, IdleTypes DEF Init, TypeOK
<1>2. run.head <= head /\ run.forward = 0
  BY DEF Init, NoRun
<1> QED  BY <1>1, <1>2 DEF Init, IInv, DeployOK, CursorOK, WorkOK, FoldOK, CommitOK, ForwardOK,
            Working, Folded, WholeRows, TrueCounts, MatchingCounts,
            HealthyOnceIndexed, Resumable

\* Every step that spares the tokens of S preserves the inductive invariant.
LEMMA NextIInv ==
    ASSUME NEW S \in SUBSET Tokens, IInv(S), [Next]_vars, [\A t \in S : ~CutShort(t)]_vars
    PROVE  IInv(S)'
<1>1. CASE UNCHANGED vars
  BY <1>1 DEF vars, store, IInv, TypeOK, DeployOK, CursorOK, WorkOK, FoldOK, CommitOK,
     ForwardOK, WholeRows, TrueCounts, MatchingCounts, HealthyOnceIndexed,
     Resumable, Faithful, Complete, HoldersAt
<1>2. CASE Mine
  BY <1>2, MineStep
<1>3. CASE StartRun \/ FinishRun
  BY <1>3, StartRunStep, FinishRunStep
<1>4. CASE \E t \in Tokens : DeployUnknown(t) \/ UpToDate(t) \/ BeginScan(t)
  BY <1>4, DeployUnknownStep, UpToDateStep, BeginScanStep
<1>5. CASE \E e \in Blocks : ScanTransfers(e)
  BY <1>5, ScanTransfersStep
<1>6. CASE (\E a \in Addrs : VerifyHolder(a)) \/ Verified \/ VerificationUnavailable
  BY <1>6, VerifyStep, VerificationUnavailableStep
<1>7. CASE \E unread \in SUBSET Addrs : Fallback(unread)
  BY <1>7, FallbackStep
<1>8. CASE Commit \/ WriteCursor
  BY <1>8, CommitStep, WriteCursorStep
<1>9. ASSUME NEW t \in Tokens, Throw(t), ~(UNCHANGED vars) PROVE IInv(S)'
  <2>1. pc = "cursor" => t \notin S
    BY <1>9 DEF CutShort, Throw
  <2> QED  BY <1>9, <2>1, ThrowStep
<1>10. ASSUME Kill, ~(UNCHANGED vars) PROVE IInv(S)'
  <2>1. pc = "cursor" => tok \notin S
    BY <1>10 DEF CutShort
  <2> QED  BY <1>10, <2>1, KillStep
<1> QED  BY <1>1, <1>2, <1>3, <1>4, <1>5, <1>6, <1>7, <1>8, <1>9, <1>10 DEF Next, Indexer

\* The inductive invariant holds of every behaviour that spares the tokens of S,
\* whatever is cut short for the others.
THEOREM IndexerInvariant ==
    ASSUME NEW S \in SUBSET Tokens
    PROVE  Spec /\ Spared(S) => []IInv(S)
<1>1. IInv(S) /\ [Next]_vars /\ [\A t \in S : ~CutShort(t)]_vars => IInv(S)'
  BY NextIInv
<1> QED  BY InitIInv, <1>1, PTL DEF Spec, Spared

\* Nothing is asked when no token is to be spared.
LEMMA NobodySpared == Spec => []IInv({})
<1>1. Init => IInv({})
  BY InitIInv
<1>2. IInv({}) /\ [Next]_vars => IInv({})'
  BY NextIInv
<1> QED  BY <1>1, <1>2, PTL DEF Spec

\* Everything is right when every token is spared.
LEMMA EveryTokenSpared == Spec /\ Spared(Tokens) => []IInv(Tokens)
<1>1. Init => IInv(Tokens)
  BY InitIInv
<1>2. IInv(Tokens) /\ [Next]_vars /\ [\A t \in Tokens : ~CutShort(t)]_vars => IInv(Tokens)'
  BY NextIInv
<1> QED  BY <1>1, <1>2, PTL DEF Spec, Spared

\* The interruption points of a deployment that never fails in the gap spare
\* every token.
LEMMA NoGapSpares == "cursor" \notin FaultPoints /\ Spec => Spared(Tokens)
<1> SUFFICES ASSUME "cursor" \notin FaultPoints PROVE Spec => Spared(Tokens)
  OBVIOUS
<1>1. [Next]_vars => [\A t \in Tokens : ~CutShort(t)]_vars
  BY DEF CutShort, Throw, Kill
<1> QED  BY <1>1, PTL DEF Spec, Spared

\* Type correctness, wherever attempts are cut short.
THEOREM TypeCorrect == Spec => []TypeOK
<1>1. IInv({}) => TypeOK
  BY DEF IInv
<1> QED  BY NobodySpared, <1>1, PTL

\* No run is reported healthy before a token has been indexed, wherever attempts
\* are cut short (isCleanRun and the health row).
THEOREM HealthIsEarned == Spec => []HealthyOnceIndexed
<1>1. IInv({}) => HealthyOnceIndexed
  BY DEF IInv
<1> QED  BY NobodySpared, <1>1, PTL

\* The rows a scan is folded onto are the whole balance set of the block the
\* cursor names, for every token whose events describe its balances.
THEOREM CarriedRowsWhole == Spec /\ Spared(Tokens) => []CarriedRowsAreWhole
<1>1. IInv(Tokens) => CarriedRowsAreWhole
  BY DEF IInv, WholeRows, CarriedRowsAreWhole
<1> QED  BY EveryTokenSpared, <1>1, PTL

\* The published holder count is an onchain figure.
THEOREM PublishedCountTrue == Spec /\ Spared(Tokens) => []PublishedCountIsTrue
<1>1. IInv(Tokens) => PublishedCountIsTrue
  BY DEF IInv, TrueCounts, PublishedCountIsTrue
<1> QED  BY EveryTokenSpared, <1>1, PTL

\* The published count is the number of stored rows.
THEOREM CountAndRowsAgree == Spec /\ Spared(Tokens) => []CountMatchesRows
<1>1. IInv(Tokens) => CountMatchesRows
  BY DEF IInv, MatchingCounts, CountMatchesRows
<1> QED  BY EveryTokenSpared, <1>1, PTL

\* The damage of an attempt cut short between the transaction and writeCursor
\* stays with its token: whatever happens to the others, the tokens whose own
\* attempts are spared are carried forward whole, are published with true counts
\* and have as many rows as they say.
THEOREM DamageStaysWithItsToken ==
    ASSUME NEW S \in SUBSET Tokens
    PROVE  Spec /\ Spared(S) => [](WholeRows(S) /\ TrueCounts(S) /\ MatchingCounts(S))
<1>1. IInv(S) => WholeRows(S) /\ TrueCounts(S) /\ MatchingCounts(S)
  BY DEF IInv
<1> QED  BY <1>1, IndexerInvariant, PTL

=============================================================================
