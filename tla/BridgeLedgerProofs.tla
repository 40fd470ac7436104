------------------------- MODULE BridgeLedgerProofs -------------------------
(***************************************************************************)
(* Proofs about BridgeLedger, for any burns, any number of settlement runs *)
(* that reject, and any interleaving of the writers with Circle and Arc.   *)
(***************************************************************************)
EXTENDS BridgeLedger, TLAPS

\* What is about to be written is true when it is read and stays true.
FlightOK ==
    \A b \in Burns :
        /\ feed[b].status # "confirmed" /\ sol[b].status # "confirmed"
        /\ feed[b].status = "ready" => Complete(circle[b])
        /\ sol[b].status = "ready" => Complete(circle[b])
        /\ sol[b].at = "update" => sol[b].status = "ready"
        /\ \A k \in Generations :
              /\ check[k][b].status = "ready" => Complete(circle[b])
              /\ check[k][b].status = "confirmed" => arc[b] = "minted"

\* Until a run rejects, the rows being checked are of the run that is awaited,
\* and it has not confirmed them.
AloneOK ==
    throws = 0 => \A b \in Burns : check[0][b].at # "idle"
                                     => settle.active /\ status[b] \notin {"none", "confirmed"}

\* No lane belongs to a run that has not begun.
LanesOK ==
    \A k \in Generations, b \in Burns : check[k][b].at # "idle" => k <= throws

\* A run without problems has confirmed, or is going to confirm, what it owes.
DueOK ==
    throws = 0 /\ settle.active /\ ~settle.problems =>
        \A b \in settle.due :
            /\ arc[b] = "minted" /\ circle[b] # "absent"
            /\ \/ check[0][b].at \in {"ask", "mint"}
               \/ check[0][b] = At("write", "confirmed")
               \/ check[0][b].at = "idle" /\ status[b] = "confirmed"

IInv ==
    /\ TypeOK /\ FlightOK /\ AloneOK /\ LanesOK /\ DueOK
    /\ ConfirmedIsMinted /\ ReadyIsComplete /\ HealthyMeansSettled

-----------------------------------------------------------------------------
(* The world moves.                                                         *)

\* Circle does not take an attestation back.
LEMMA AttestStep ==
    ASSUME IInv, NEW b \in Burns, Attest(b)
    PROVE  IInv'
<1>1. \A c \in Burns : /\ Complete(circle[c]) => Complete(circle'[c])
                       /\ circle[c] # "absent" => circle'[c] # "absent"
  BY DEF Attest, Complete, IInv, TypeOK
<1>2. TypeOK'
  BY DEF Attest, worker, IInv, TypeOK, CircleStates
<1>3. UNCHANGED <<arc, status, feed, check, settle, sol, health, throws>>
  BY DEF Attest, worker
<1>4. DueOK'
  BY <1>1, <1>3 DEF IInv, TypeOK, DueOK
<1>5. AloneOK' /\ LanesOK' /\ ConfirmedIsMinted' /\ HealthyMeansSettled'
  BY <1>3 DEF IInv, AloneOK, LanesOK, ConfirmedIsMinted, HealthyMeansSettled
<1>6. FlightOK' /\ ReadyIsComplete'
  BY <1>1, <1>3 DEF IInv, FlightOK, ReadyIsComplete
<1> QED  BY <1>2, <1>4, <1>5, <1>6 DEF IInv

\* Arc does not take a mint back.
LEMMA SettleStep ==
    ASSUME IInv, NEW b \in Burns, Settle(b)
    PROVE  IInv'
<1>1. \A c \in Burns : arc[c] = "minted" => arc'[c] = "minted"
  BY DEF Settle, IInv, TypeOK
<1>2. TypeOK'
  BY DEF Settle, worker, IInv, TypeOK, ArcStates
<1>3. UNCHANGED <<circle, status, feed, check, settle, sol, health, throws>>
  BY DEF Settle, worker
<1>4. FlightOK' /\ ConfirmedIsMinted'
  BY <1>1, <1>3 DEF IInv, FlightOK, ConfirmedIsMinted
<1>5. DueOK'
  BY <1>1, <1>3 DEF IInv, TypeOK, DueOK
<1> QED  BY <1>2, <1>3, <1>4, <1>5 DEF IInv, AloneOK, LanesOK, ReadyIsComplete,
         HealthyMeansSettled

-----------------------------------------------------------------------------
(* The feed and the backfills write.                                        *)

\* Writers other than the settlement check create rows and replace the status
\* of unconfirmed ones, by what they have read.
LEMMA OtherWriter ==
    ASSUME IInv, TypeOK', FlightOK', UNCHANGED <<circle, arc, check, settle, health, throws>>,
           \A b \in Burns :
               \/ status'[b] = status[b]
               \/ /\ status[b] # "confirmed" /\ status'[b] \notin {"none", "confirmed"}
                  /\ status'[b] = "ready" => Complete(circle[b])
    PROVE  /\ IInv'
           /\ \A b \in Burns : status[b] = "confirmed" => status'[b] = "confirmed"
<1>1. AloneOK' /\ LanesOK'
  BY DEF IInv, AloneOK, LanesOK
<1>2. DueOK' /\ HealthyMeansSettled'
  BY DEF IInv, TypeOK, DueOK, HealthyMeansSettled
<1>3. ConfirmedIsMinted' /\ ReadyIsComplete'
  BY DEF IInv, ConfirmedIsMinted, ReadyIsComplete
<1> QED  BY <1>1, <1>2, <1>3 DEF IInv

\* The bridge feed.
LEMMA FeedStep ==
    ASSUME IInv,
           \/ \E candidates \in SUBSET EvmBurns : StartRefresh(candidates)
           \/ \E b \in EvmBurns : Feed(b)
           \/ ApiRestarts
    PROVE  /\ IInv'
           /\ \A b \in Burns : status[b] = "confirmed" => status'[b] = "confirmed"
<1>0. /\ feed \in [Burns -> FeedType] /\ status \in [Burns -> Statuses \union {"none"}]
      /\ circle \in [Burns -> CircleStates] /\ FlightOK
  BY DEF IInv, TypeOK
<1>1. CASE \/ \E candidates \in SUBSET EvmBurns : StartRefresh(candidates)
           \/ ApiRestarts
  <2>1. feed' \in [Burns -> FeedType] /\ \A b \in Burns : feed'[b].status = "waiting"
    BY <1>1 DEF StartRefresh, ApiRestarts, Idle, At, FeedType, Statuses
  <2>2. UNCHANGED <<circle, arc, status, check, settle, sol, health, throws>>
    BY <1>1 DEF StartRefresh, ApiRestarts, world, worker
  <2>3. TypeOK' /\ FlightOK'
    BY <2>1, <2>2 DEF IInv, TypeOK, FlightOK
  <2> QED  BY <2>2, <2>3, OtherWriter
<1>2. ASSUME NEW b \in EvmBurns, FeedAsk(b)
      PROVE  IInv' /\ \A c \in Burns : status[c] = "confirmed" => status'[c] = "confirmed"
  <2>1. PICK answer \in Answers(b) : feed' = [feed EXCEPT ![b] = At("upsert", FeedStatus(answer))]
    BY <1>2 DEF FeedAsk
  <2>2. /\ At("upsert", FeedStatus(answer)) \in FeedType /\ FeedStatus(answer) # "confirmed"
        /\ FeedStatus(answer) = "ready" => Complete(circle[b])
    BY <1>0, <2>1 DEF FeedStatus, Answers, Complete, At, FeedType, Statuses, Burns
  <2>3. UNCHANGED <<circle, arc, status, check, settle, sol, health, throws>>
    BY <1>2 DEF FeedAsk, world, worker
  <2>4. TypeOK'
    BY <1>0, <2>1, <2>2, <2>3 DEF IInv, TypeOK
  <2>5. FlightOK'
    BY <1>0, <2>1, <2>2, <2>3 DEF FlightOK, At
  <2> QED  BY <2>3, <2>4, <2>5, OtherWriter
<1>3. ASSUME NEW b \in EvmBurns, FeedUpsert(b) \/ FeedUpdate(b) \/ FeedFails(b)
      PROVE  IInv' /\ \A c \in Burns : status[c] = "confirmed" => status'[c] = "confirmed"
  <2>1. b \in Burns /\ feed[b].status \in Statuses /\ feed[b] \in FeedType
    BY <1>0 DEF Burns, FeedType
  <2>2. PICK new \in FeedType : feed' = [feed EXCEPT ![b] = new]
                                  /\ new.status \in {"waiting", feed[b].status}
    <3>1. Idle \in FeedType /\ Idle.status = "waiting"
      BY DEF Idle, FeedType, Statuses
    <3>2. LET new == At(AfterUpsert(feed[b].status), feed[b].status)
          IN  new \in FeedType /\ new.status = feed[b].status
      BY <2>1 DEF At, AfterUpsert, FeedType
    <3> QED  BY <1>3, <3>1, <3>2 DEF FeedUpsert, FeedUpdate, FeedFails
  <2>3. UNCHANGED <<circle, arc, check, settle, sol, health, throws>>
    BY <1>3 DEF FeedUpsert, FeedUpdate, FeedFails, world, worker
  <2>4. \/ status' = status
        \/ /\ status[b] # "confirmed"
           /\ status' = [status EXCEPT ![b] = feed[b].status]
    BY <1>0, <1>3, <2>1 DEF FeedUpsert, FeedUpdate, FeedFails, Unconfirmed
  <2>5. TypeOK'
    BY <1>0, <2>1, <2>2, <2>3, <2>4 DEF IInv, TypeOK
  <2>6. FlightOK'
    BY <1>0, <2>1, <2>2, <2>3 DEF FlightOK
  <2>7. feed[b].status \notin {"none", "confirmed"}
          /\ (feed[b].status = "ready" => Complete(circle[b]))
    BY <1>0, <2>1 DEF FlightOK, Statuses
  <2> QED  BY <1>0, <2>1, <2>3, <2>4, <2>5, <2>6, <2>7, OtherWriter
<1> QED  BY <1>1, <1>2, <1>3 DEF Feed

\* The EVM backfill and the Solana indexer.
LEMMA BackfillStep ==
    ASSUME IInv, (\E b \in EvmBurns : Backfill(b)) \/ (\E b \in SolanaBurns : Ingest(b))
    PROVE  /\ IInv'
           /\ \A b \in Burns : status[b] = "confirmed" => status'[b] = "confirmed"
<1>0. /\ sol \in [Burns -> SolType] /\ status \in [Burns -> Statuses \union {"none"}]
      /\ circle \in [Burns -> CircleStates] /\ FlightOK
  BY DEF IInv, TypeOK
<1>1. ASSUME NEW b \in EvmBurns, Backfill(b)
      PROVE  IInv' /\ \A c \in Burns : status[c] = "confirmed" => status'[c] = "confirmed"
  <2>1. b \in Burns /\ UNCHANGED <<circle, arc, feed, check, settle, sol, health, throws>>
    BY <1>1 DEF Backfill, world, worker, Burns
  <2>2. status' = [status EXCEPT ![b] = IF @ = "none" THEN "waiting" ELSE @]
    BY <1>1 DEF Backfill
  <2>3. TypeOK' /\ FlightOK'
    BY <1>0, <2>1, <2>2 DEF IInv, TypeOK, FlightOK, Statuses
  <2> QED  BY <1>0, <2>1, <2>2, <2>3, OtherWriter
<1>2. ASSUME NEW b \in SolanaBurns, IngestAsk(b)
      PROVE  IInv' /\ \A c \in Burns : status[c] = "confirmed" => status'[c] = "confirmed"
  <2>1. PICK answer \in Answers(b) \ {"error", "missing", "empty"} :
          sol' = [sol EXCEPT ![b] = At("upsert", IF Complete(answer) THEN "ready" ELSE "waiting")]
    BY <1>2 DEF IngestAsk
  <2>2. b \in Burns /\ (Complete(answer) => Complete(circle[b]))
    BY <2>1 DEF Answers, Complete, Burns
  <2>3. UNCHANGED <<circle, arc, status, feed, check, settle, health, throws>>
    BY <1>2 DEF IngestAsk, world
  <2>4. TypeOK'
    BY <1>0, <2>1, <2>3 DEF IInv, TypeOK, At, SolType, Statuses
  <2>5. FlightOK'
    BY <1>0, <2>1, <2>2, <2>3 DEF FlightOK, At
  <2> QED  BY <2>3, <2>4, <2>5, OtherWriter
<1>3. ASSUME NEW b \in SolanaBurns, IngestUpsert(b) \/ IngestUpdate(b) \/ IngestFails(b)
      PROVE  IInv' /\ \A c \in Burns : status[c] = "confirmed" => status'[c] = "confirmed"
  <2>1. b \in Burns /\ sol[b] \in SolType /\ sol[b].status \in Statuses
    BY <1>0 DEF Burns, SolType
  <2>2. PICK new \in SolType : sol' = [sol EXCEPT ![b] = new]
                                 /\ new.status \in {"waiting", sol[b].status}
                                 /\ (new.at = "update" => new.status = "ready")
    <3>1. Idle \in SolType /\ Idle.status = "waiting" /\ Idle.at = "idle"
      BY DEF Idle, SolType, Statuses
    <3>2. At("update", "ready") \in SolType /\ At("update", "ready").status = "ready"
      BY DEF At, SolType, Statuses
    <3> QED  BY <1>3, <3>1, <3>2 DEF IngestUpsert, IngestUpdate, IngestFails
  <2>3. UNCHANGED <<circle, arc, feed, check, settle, health, throws>>
    BY <1>3 DEF IngestUpsert, IngestUpdate, IngestFails, world
  <2>4. \/ status' = status
        \/ status[b] # "confirmed" /\ status' = [status EXCEPT ![b] = sol[b].status]
    <3>1. sol[b].at = "update" => sol[b].status = "ready"
      BY <1>0, <2>1 DEF FlightOK
    <3> QED  BY <1>0, <1>3, <2>1, <3>1 DEF IngestUpsert, IngestUpdate, IngestFails, Unconfirmed
  <2>5. TypeOK'
    BY <1>0, <2>1, <2>2, <2>3, <2>4 DEF IInv, TypeOK
  <2>6. FlightOK'
    BY <1>0, <2>1, <2>2, <2>3 DEF FlightOK
  <2>7. sol[b].status \notin {"none", "confirmed"}
          /\ (sol[b].status = "ready" => Complete(circle[b]))
    BY <1>0, <2>1 DEF FlightOK, Statuses
  <2> QED  BY <1>0, <2>1, <2>3, <2>4, <2>5, <2>6, <2>7, OtherWriter
<1> QED  BY <1>1, <1>2, <1>3 DEF Ingest

-----------------------------------------------------------------------------
(* The settlement check.                                                    *)

\* A run starts, or the worker restarts and with it all that was in flight.
LEMMA StartStep ==
    ASSUME IInv, (\E batch \in SUBSET Burns : StartSettlement(batch)) \/ WorkerRestarts
    PROVE  IInv' /\ status' = status
<1>0. /\ check \in [Generations -> [Burns -> CheckType]] /\ sol \in [Burns -> SolType]
      /\ arc \in [Burns -> ArcStates] /\ throws \in 0..MaxThrows + 1 /\ FlightOK
  BY DEF IInv, TypeOK
<1>1. Idle \in CheckType /\ Idle \in SolType /\ Idle.status = "waiting" /\ Idle.at = "idle"
  BY DEF Idle, CheckType, SolType, Statuses
<1>2. CASE WorkerRestarts
  <2>1. /\ check' \in [Generations -> [Burns -> CheckType]] /\ sol' \in [Burns -> SolType]
        /\ \A b \in Burns : sol'[b] = Idle /\ \A k \in Generations : check'[k][b] = Idle
    BY <1>1, <1>2 DEF WorkerRestarts
  <2>2. /\ UNCHANGED <<circle, arc, status, feed, health, throws>> /\ ~settle'.active
        /\ settle' \in [active : BOOLEAN, problems : BOOLEAN, due : SUBSET Burns]
    BY <1>2 DEF WorkerRestarts, world
  <2>3. TypeOK'
    BY <2>1, <2>2 DEF IInv, TypeOK
  <2>4. FlightOK'
    BY <1>0, <1>1, <2>1, <2>2 DEF FlightOK
  <2>5. AloneOK'
    BY <1>1, <2>1, <2>2, LedgerAssumption DEF AloneOK, Generations
  <2>6. DueOK' /\ LanesOK'
    BY <1>1, <2>1, <2>2 DEF DueOK, LanesOK
  <2>7. ConfirmedIsMinted' /\ ReadyIsComplete' /\ HealthyMeansSettled'
    BY <2>2 DEF IInv, ConfirmedIsMinted, ReadyIsComplete, HealthyMeansSettled
  <2> QED  BY <2>2, <2>3, <2>4, <2>5, <2>6, <2>7 DEF IInv
<1>3. ASSUME NEW batch \in SUBSET Burns, StartSettlement(batch)
      PROVE  IInv' /\ status' = status
  <2> DEFINE row(b) == IF b \in batch THEN At("ask", "waiting") ELSE Idle
             lanes == [b \in Burns |-> row(b)]
  <2>1. throws \in Generations /\ check' = [check EXCEPT ![throws] = lanes]
    BY <1>3 DEF StartSettlement
  <2>2. /\ \A b \in Burns : row(b) \in CheckType /\ row(b).status = "waiting"
        /\ \A b \in Burns : row(b).at = IF b \in batch THEN "ask" ELSE "idle"
    BY <1>1 DEF At, CheckType, Statuses
  <2> HIDE DEF row
  <2>3. lanes \in [Burns -> CheckType]
    BY <2>2
  <2>4. /\ UNCHANGED <<circle, arc, status, feed, health, sol, throws>>
        /\ settle' = [active |-> TRUE, problems |-> FALSE, due |-> {b \in batch : Due(b)}]
    BY <1>3 DEF StartSettlement, world
  <2>5. \A b \in batch : status[b] \notin {"none", "confirmed"}
    BY <1>3 DEF StartSettlement
  <2>6. check' \in [Generations -> [Burns -> CheckType]]
    BY <1>0, <2>1, <2>3
  <2>7. TypeOK'
    BY <2>4, <2>6 DEF IInv, TypeOK
  <2>8. FlightOK' /\ LanesOK'
    <3>1. ASSUME NEW k \in Generations, NEW b \in Burns
          PROVE  check'[k][b] = check[k][b] \/ (check'[k][b] = row(b) /\ k = throws)
      BY <1>0, <2>1
    <3>2. FlightOK'
      BY <1>0, <2>2, <2>4, <3>1 DEF FlightOK
    <3>3. LanesOK'
      BY <1>0, <2>4, <3>1, LedgerAssumption DEF IInv, LanesOK, Generations
    <3> QED  BY <3>2, <3>3
  <2>9. ASSUME throws = 0
        PROVE  \A b \in Burns : check'[0][b] = row(b)
    BY <1>0, <2>1, <2>9
  <2>10. AloneOK'
    BY <2>2, <2>4, <2>5, <2>9 DEF AloneOK
  <2>11. DueOK'
    BY <2>2, <2>4, <2>9 DEF DueOK, Due
  <2>12. ConfirmedIsMinted' /\ ReadyIsComplete' /\ HealthyMeansSettled'
    BY <2>4 DEF IInv, ConfirmedIsMinted, ReadyIsComplete, HealthyMeansSettled
  <2> QED  BY <2>4, <2>7, <2>8, <2>10, <2>11, <2>12 DEF IInv
<1> QED  BY <1>2, <1>3

\* One check takes a step that leaves the rows alone: what it holds is true,
\* and a row that is owed is still going to be confirmed, or noted as a problem.
LEMMA CheckMoves ==
    ASSUME IInv, NEW k \in Generations, NEW b \in Burns, NEW new \in CheckType,
           check[k][b].at # "idle", check' = [check EXCEPT ![k][b] = new],
           new.status = "ready" => Complete(circle[b]),
           new.status = "confirmed" => arc[b] = "minted",
           \/ settle' = settle
           \/ settle' = [settle EXCEPT !.problems = TRUE],
           throws = 0 /\ k = 0 /\ settle.active /\ ~settle'.problems /\ b \in settle.due
               => new.at = "mint" \/ new = At("write", "confirmed"),
           UNCHANGED <<circle, arc, status, feed, health, sol, throws>>
    PROVE  IInv'
<1>0. /\ check \in [Generations -> [Burns -> CheckType]]
      /\ settle \in [active : BOOLEAN, problems : BOOLEAN, due : SUBSET Burns]
      /\ 0 \in Generations
  BY LedgerAssumption DEF IInv, TypeOK, Generations
<1>1. /\ \A c \in Burns, g \in Generations : g # k \/ c # b => check'[g][c] = check[g][c]
      /\ check'[k][b] = new /\ check' \in [Generations -> [Burns -> CheckType]]
  BY <1>0
<1>2. /\ settle'.active = settle.active /\ settle'.due = settle.due
      /\ settle.problems => settle'.problems
      /\ settle' \in [active : BOOLEAN, problems : BOOLEAN, due : SUBSET Burns]
  BY <1>0
<1>3. TypeOK'
  BY <1>1, <1>2 DEF IInv, TypeOK
<1>4. FlightOK'
  BY <1>1 DEF IInv, FlightOK
<1>5. AloneOK'
  <2> SUFFICES ASSUME throws = 0, NEW c \in Burns, check'[0][c].at # "idle"
               PROVE  settle'.active /\ status[c] \notin {"none", "confirmed"}
    BY DEF AloneOK
  <2>1. check[0][c].at # "idle"
    BY <1>0, <1>1
  <2> QED  BY <1>2, <2>1 DEF IInv, AloneOK
<1>6. DueOK'
  <2> SUFFICES ASSUME throws = 0, settle.active, ~settle'.problems, NEW c \in settle.due
               PROVE  /\ arc[c] = "minted" /\ circle[c] # "absent"
                      /\ \/ check'[0][c].at \in {"ask", "mint"}
                         \/ check'[0][c] = At("write", "confirmed")
                         \/ check'[0][c].at = "idle" /\ status[c] = "confirmed"
    BY <1>2 DEF DueOK
  <2>1. /\ arc[c] = "minted" /\ circle[c] # "absent" /\ c \in Burns
        /\ \/ check[0][c].at \in {"ask", "mint"}
           \/ check[0][c] = At("write", "confirmed")
           \/ check[0][c].at = "idle" /\ status[c] = "confirmed"
    BY <1>0, <1>2 DEF IInv, DueOK
  <2>2. CASE c = b /\ k = 0
    BY <1>1, <2>1, <2>2
  <2>3. CASE c # b \/ k # 0
    BY <1>0, <1>1, <2>1, <2>3
  <2> QED  BY <2>2, <2>3
<1>7. ConfirmedIsMinted' /\ ReadyIsComplete' /\ HealthyMeansSettled'
  BY DEF IInv, ConfirmedIsMinted, ReadyIsComplete, HealthyMeansSettled
<1>8. LanesOK'
  BY <1>1 DEF IInv, LanesOK
<1> QED  BY <1>3, <1>4, <1>5, <1>6, <1>7, <1>8 DEF IInv

\* Circle and Arc are read, or a write fails.
LEMMA CheckReads ==
    ASSUME IInv, NEW k \in Generations, NEW b \in Burns,
           CheckAsk(k, b) \/ CheckMint(k, b) \/ CheckWriteFails(k, b) \/ CheckNote(k, b)
    PROVE  IInv' /\ status' = status
<1>0. /\ check \in [Generations -> [Burns -> CheckType]] /\ check[k][b] \in CheckType
      /\ check[k][b].status \in Statuses
      /\ settle \in [active : BOOLEAN, problems : BOOLEAN, due : SUBSET Burns]
      /\ circle[b] \in CircleStates /\ arc[b] \in ArcStates
  BY DEF IInv, TypeOK, CheckType
<1>1. UNCHANGED <<circle, arc, status, feed, health, sol, throws>>
  BY DEF CheckAsk, CheckMint, CheckWriteFails, CheckNote, world
<1>2. /\ check[k][b].status = "ready" => Complete(circle[b])
      /\ check[k][b].status = "confirmed" => arc[b] = "minted"
  BY DEF IInv, FlightOK
<1>3. throws = 0 /\ k = 0 /\ settle.active /\ ~settle.problems /\ b \in settle.due
        => /\ arc[b] = "minted" /\ circle[b] # "absent"
           /\ \/ check[k][b].at \in {"ask", "mint", "idle"}
              \/ check[k][b] = At("write", "confirmed")
  BY DEF IInv, DueOK
<1>4. ASSUME NEW problem \in BOOLEAN, Counts(k, problem)
      PROVE  /\ settle' = settle \/ settle' = [settle EXCEPT !.problems = TRUE]
             /\ throws = k /\ problem => settle'.problems
             /\ settle.problems => settle'.problems
  BY <1>0, <1>4 DEF Counts
<1>5. \A s \in Statuses, at \in {"idle", "mint", "write", "note"} :
        At(at, s) \in CheckType /\ At(at, s).status = s /\ At(at, s).at = at
  BY DEF At, CheckType
<1>6. CASE CheckAsk(k, b)
  <2>1. PICK answer \in Answers(b) :
          IF answer \in {"error", "missing", "empty"}
          THEN Check(k, b, "note", "waiting") /\ Counts(k, answer # "empty")
          ELSE /\ Check(k, b, IF arc[b] = "none" THEN "write" ELSE "mint",
                        IF Complete(answer) THEN "ready" ELSE "waiting")
               /\ UNCHANGED settle
    BY <1>6 DEF CheckAsk
  <2>2. check[k][b].at # "idle" /\ "waiting" \in Statuses /\ "ready" \in Statuses
    BY <1>6 DEF CheckAsk, Statuses
  <2>3. CASE answer \in {"error", "missing", "empty"}
    <3>1. check' = [check EXCEPT ![k][b] = At("note", "waiting")] /\ Counts(k, answer # "empty")
      BY <2>1, <2>3 DEF Check
    <3>2. circle[b] # "absent" => answer # "empty"
      BY <1>0, <2>1 DEF Answers, CircleStates
    <3> DEFINE new == At("note", "waiting")
    <3>3. new \in CheckType /\ new.status = "waiting"
      BY <1>5, <2>2
    <3>4. settle' = settle \/ settle' = [settle EXCEPT !.problems = TRUE]
      BY <1>4, <3>1
    <3>5. throws = 0 /\ k = 0 /\ settle.active /\ ~settle'.problems /\ b \in settle.due
            => new.at = "mint" \/ new = At("write", "confirmed")
      BY <1>3, <1>4, <3>1, <3>2
    <3> HIDE DEF new
    <3> QED  BY <1>1, <2>2, <3>1, <3>3, <3>4, <3>5, CheckMoves DEF new
  <2>4. CASE answer \notin {"error", "missing", "empty"}
    <3>1. PICK at \in {"write", "mint"}, s \in {"ready", "waiting"} :
            /\ check' = [check EXCEPT ![k][b] = At(at, s)] /\ settle' = settle
            /\ arc[b] # "none" => at = "mint"
            /\ s = "ready" => Complete(answer)
      BY <2>1, <2>4 DEF Check
    <3>2. answer = circle[b]
      BY <2>1, <2>4 DEF Answers
    <3> DEFINE new == At(at, s)
    <3>3. new \in CheckType /\ new.status = s /\ new.at = at
      BY <1>5, <2>2
    <3>4. throws = 0 /\ k = 0 /\ settle.active /\ ~settle'.problems /\ b \in settle.due
            => new.at = "mint" \/ new = At("write", "confirmed")
      BY <1>3, <3>1, <3>3
    <3>5. check' = [check EXCEPT ![k][b] = new] /\ settle' = settle
      BY <3>1
    <3>6. s = "ready" => Complete(circle[b])
      BY <3>1, <3>2
    <3> HIDE DEF new
    <3> QED  BY <1>1, <2>2, <3>3, <3>4, <3>5, <3>6, CheckMoves
  <2> QED  BY <2>3, <2>4
<1>7. CASE CheckMint(k, b)
  <2>1. PICK readable \in BOOLEAN, minted \in MintSucceeded(b) :
          /\ Check(k, b, "write", IF readable /\ minted THEN "confirmed" ELSE check[k][b].status)
          /\ Counts(k, Unverified(readable))
    BY <1>7 DEF CheckMint
  <2>2. check[k][b].at = "mint" /\ "confirmed" \in Statuses
    BY <1>7 DEF CheckMint, Statuses
  <2>3. PICK s \in Statuses :
          /\ check' = [check EXCEPT ![k][b] = At("write", s)]
          /\ s = "confirmed" => arc[b] = "minted"
          /\ s = "ready" => Complete(circle[b])
          /\ readable /\ arc[b] = "minted" => s = "confirmed"
    BY <1>0, <1>2, <2>1, <2>2 DEF Check, MintSucceeded
  <2>4. Unverified(readable) = ~readable /\ Unverified(readable) \in BOOLEAN
    BY <2>1 DEF Unverified
  <2> DEFINE new == At("write", s)
  <2>5. new \in CheckType /\ new.status = s /\ check' = [check EXCEPT ![k][b] = new]
    BY <1>5, <2>3
  <2>6. settle' = settle \/ settle' = [settle EXCEPT !.problems = TRUE]
    BY <1>4, <2>1, <2>4
  <2>7. throws = 0 /\ k = 0 /\ settle.active /\ ~settle'.problems /\ b \in settle.due
          => new.at = "mint" \/ new = At("write", "confirmed")
    BY <1>3, <1>4, <2>1, <2>3, <2>4
  <2> HIDE DEF new
  <2>8. /\ check[k][b].at # "idle" /\ (s = "ready" => Complete(circle[b]))
        /\ (s = "confirmed" => arc[b] = "minted")
    BY <2>2, <2>3
  <2> QED  BY <1>1, <2>5, <2>6, <2>7, <2>8, CheckMoves
<1>8. CASE CheckWriteFails(k, b)
  <2>1. /\ check' = [check EXCEPT ![k][b] = At("note", "waiting")] /\ Counts(k, TRUE)
        /\ check[k][b].at # "idle" /\ "waiting" \in Statuses
    BY <1>8 DEF CheckWriteFails, Check, Statuses
  <2> DEFINE new == At("note", "waiting")
  <2>2. new \in CheckType /\ new.status = "waiting" /\ check' = [check EXCEPT ![k][b] = new]
    BY <1>5, <2>1
  <2>3. settle' = settle \/ settle' = [settle EXCEPT !.problems = TRUE]
    BY <1>4, <2>1
  <2>4. (throws = 0 /\ k = 0 => settle'.problems) /\ check[k][b].at # "idle"
    BY <1>4, <2>1
  <2> HIDE DEF new
  <2> QED  BY <1>1, <2>2, <2>3, <2>4, CheckMoves
<1>9. CASE CheckNote(k, b)
  <2>1. /\ check' = [check EXCEPT ![k][b] = At("idle", "waiting")] /\ settle' = settle
        /\ check[k][b].at = "note" /\ "waiting" \in Statuses
    BY <1>9 DEF CheckNote, Check, Statuses
  <2>2. At("write", "confirmed").at = "write"
    BY DEF At
  <2> DEFINE new == At("idle", "waiting")
  <2>3. new \in CheckType /\ new.status = "waiting" /\ check' = [check EXCEPT ![k][b] = new]
    BY <1>5, <2>1
  <2>4. ~(throws = 0 /\ k = 0 /\ settle.active /\ ~settle.problems /\ b \in settle.due)
    BY <1>3, <2>1, <2>2
  <2>5. settle' = settle /\ check[k][b].at # "idle"
    BY <2>1
  <2> HIDE DEF new
  <2> QED  BY <1>1, <2>3, <2>4, <2>5, CheckMoves
<1> QED  BY <1>1, <1>6, <1>7, <1>8, <1>9

\* The outcome of a check is written.
LEMMA CheckWriteStep ==
    ASSUME IInv, NEW k \in Generations, NEW b \in Burns, CheckWrite(k, b)
    PROVE  /\ IInv'
           /\ throws = 0 => \A c \in Burns : status[c] = "confirmed" => status'[c] = "confirmed"
<1> DEFINE new == At("idle", "waiting")
<1>0. /\ check \in [Generations -> [Burns -> CheckType]] /\ check[k][b] \in CheckType
      /\ status \in [Burns -> Statuses \union {"none"}] /\ check[k][b].status \in Statuses
      /\ check[k][b].at = "write" /\ 0 \in Generations /\ throws \in Nat
      /\ settle.due \in SUBSET Burns /\ health.due \in SUBSET Burns
  BY LedgerAssumption DEF IInv, TypeOK, CheckType, CheckWrite, Generations
<1>1. /\ UNCHANGED <<circle, arc, feed, settle, health, sol, throws>>
      /\ status' = [status EXCEPT ![b] = check[k][b].status]
      /\ check' = [check EXCEPT ![k][b] = new]
  BY DEF CheckWrite, Check, world
<1>2. new \in CheckType /\ new.at = "idle" /\ new.status = "waiting"
  BY DEF At, CheckType, Statuses
<1> HIDE DEF new
<1>3. /\ \A c \in Burns, g \in Generations : g # k \/ c # b => check'[g][c] = check[g][c]
      /\ check'[k][b] = new /\ check' \in [Generations -> [Burns -> CheckType]]
  BY <1>0, <1>1, <1>2
<1>4. status' \in [Burns -> Statuses \union {"none"}] /\ status'[b] = check[k][b].status
        /\ \A c \in Burns \ {b} : status'[c] = status[c]
  BY <1>0, <1>1
<1>5. TypeOK'
  BY <1>1, <1>3, <1>4 DEF IInv, TypeOK
<1>6. FlightOK'
  BY <1>1, <1>2, <1>3 DEF IInv, FlightOK
<1>7. ConfirmedIsMinted' /\ ReadyIsComplete'
  BY <1>1, <1>4 DEF IInv, FlightOK, ConfirmedIsMinted, ReadyIsComplete
<1>8. ASSUME throws = 0
      PROVE  k = 0 /\ settle.active /\ status[b] \notin {"none", "confirmed"}
  <2>1. k = 0
    BY <1>0, <1>8 DEF IInv, LanesOK, Generations
  <2> QED  BY <1>0, <1>8, <2>1 DEF IInv, AloneOK
<1>9. LanesOK' /\ AloneOK'
  <2>1. LanesOK'
    BY <1>1, <1>2, <1>3 DEF IInv, LanesOK
  <2>2. AloneOK'
    BY <1>0, <1>1, <1>2, <1>3, <1>4, <1>8 DEF IInv, AloneOK
  <2> QED  BY <2>1, <2>2
<1>10. DueOK'
  <2> SUFFICES ASSUME throws = 0, settle.active, ~settle.problems, NEW c \in settle.due
               PROVE  /\ arc[c] = "minted" /\ circle[c] # "absent"
                      /\ \/ check'[0][c].at \in {"ask", "mint"}
                         \/ check'[0][c] = At("write", "confirmed")
                         \/ check'[0][c].at = "idle" /\ status'[c] = "confirmed"
    BY <1>1 DEF DueOK
  <2>1. /\ arc[c] = "minted" /\ circle[c] # "absent" /\ c \in Burns
        /\ \/ check[0][c].at \in {"ask", "mint"}
           \/ check[0][c] = At("write", "confirmed")
           \/ check[0][c].at = "idle" /\ status[c] = "confirmed"
    BY <1>0 DEF IInv, DueOK
  <2>2. CASE c = b
    <3>1. check[0][b] = At("write", "confirmed")
      BY <1>0, <1>8, <2>1, <2>2
    <3>2. status'[b] = "confirmed" /\ check'[0][b].at = "idle"
      BY <1>2, <1>3, <1>4, <1>8, <3>1 DEF At
    <3> QED  BY <2>1, <2>2, <3>2
  <2>3. CASE c # b
    BY <1>0, <1>3, <1>4, <2>1, <2>3
  <2> QED  BY <2>2, <2>3
<1>11. HealthyMeansSettled'
  BY <1>0, <1>1, <1>4, <1>8 DEF IInv, HealthyMeansSettled
<1>12. throws = 0 => \A c \in Burns : status[c] = "confirmed" => status'[c] = "confirmed"
  BY <1>4, <1>8
<1> QED  BY <1>5, <1>6, <1>7, <1>9, <1>10, <1>11, <1>12 DEF IInv

\* A run rejects, or is over and published.
LEMMA RunEndStep ==
    ASSUME IInv,
           (\E k \in Generations, b \in Burns : CheckNoteFails(k, b)) \/ PublishHealth
    PROVE  IInv' /\ status' = status
<1>0. /\ check \in [Generations -> [Burns -> CheckType]] /\ throws \in 0..MaxThrows + 1
      /\ 0 \in Generations /\ MaxThrows \in Nat
      /\ settle \in [active : BOOLEAN, problems : BOOLEAN, due : SUBSET Burns]
  BY LedgerAssumption DEF IInv, TypeOK, Generations
<1>1. ASSUME NEW k \in Generations, NEW b \in Burns, CheckNoteFails(k, b)
      PROVE  IInv' /\ status' = status
  <2> DEFINE new == At("idle", "waiting")
  <2>1. /\ UNCHANGED <<circle, arc, status, feed, health, sol>>
        /\ check' = [check EXCEPT ![k][b] = new] /\ check[k][b].at = "note"
        /\ throws \in Generations
    BY <1>1 DEF CheckNoteFails, Check, world
  <2>2. new \in CheckType /\ new.at = "idle" /\ new.status = "waiting"
    BY DEF At, CheckType, Statuses
  <2>3. CASE k # throws
    <3>1. settle' = settle /\ throws' = throws
      BY <1>1, <2>3 DEF CheckNoteFails
    <3>2. ~(throws = 0 /\ k = 0)
      BY <2>3
    <3> HIDE DEF new
    <3> QED  BY <2>1, <2>2, <3>1, <3>2, CheckMoves
  <2>4. CASE k = throws
    <3>1. /\ throws' = throws + 1
          /\ settle' = [active |-> FALSE, problems |-> FALSE, due |-> {}]
      BY <1>1, <2>4 DEF CheckNoteFails
    <3> HIDE DEF new
    <3>2. /\ \A c \in Burns, g \in Generations : check'[g][c] = check[g][c] \/ check'[g][c] = new
          /\ check' \in [Generations -> [Burns -> CheckType]]
      BY <1>0, <2>1, <2>2
    <3>3. throws' \in 0..MaxThrows + 1 /\ throws' # 0
      BY <1>0, <2>1, <3>1 DEF Generations
    <3>4. TypeOK'
      BY <2>1, <3>1, <3>2, <3>3 DEF IInv, TypeOK
    <3>5. FlightOK'
      BY <2>1, <2>2, <3>2 DEF IInv, FlightOK
    <3>6. AloneOK' /\ DueOK' /\ HealthyMeansSettled'
      BY <3>3 DEF AloneOK, DueOK, HealthyMeansSettled
    <3>7. LanesOK'
      BY <1>0, <2>2, <3>1, <3>2 DEF IInv, LanesOK, Generations
    <3>8. ConfirmedIsMinted' /\ ReadyIsComplete'
      BY <2>1 DEF IInv, ConfirmedIsMinted, ReadyIsComplete
    <3> QED  BY <2>1, <3>4, <3>5, <3>6, <3>7, <3>8 DEF IInv
  <2> QED  BY <2>3, <2>4
<1>2. CASE PublishHealth
  <2>1. /\ UNCHANGED <<circle, arc, status, feed, check, sol, throws>>
        /\ health' = [healthy |-> ~settle.problems, due |-> settle.due]
        /\ settle' = [active |-> FALSE, problems |-> FALSE, due |-> {}]
        /\ settle.active /\ \A b \in Burns : check[throws][b].at = "idle"
    BY <1>2 DEF PublishHealth, world
  <2>2. TypeOK'
    BY <1>0, <2>1 DEF IInv, TypeOK
  <2>3. FlightOK' /\ LanesOK' /\ ConfirmedIsMinted' /\ ReadyIsComplete'
    BY <2>1 DEF IInv, FlightOK, LanesOK, ConfirmedIsMinted, ReadyIsComplete
  <2>4. AloneOK' /\ DueOK'
    BY <2>1 DEF AloneOK, DueOK
  <2>5. HealthyMeansSettled'
    <3> SUFFICES ASSUME throws = 0, ~settle.problems, NEW b \in settle.due
                 PROVE  status[b] = "confirmed"
      BY <2>1 DEF HealthyMeansSettled
    <3>1. b \in Burns /\ check[0][b].at = "idle"
      BY <1>0, <2>1
    <3>2. At("write", "confirmed").at = "write"
      BY DEF At
    <3> QED  BY <2>1, <3>1, <3>2 DEF IInv, DueOK
  <2> QED  BY <2>1, <2>2, <2>3, <2>4, <2>5 DEF IInv
<1> QED  BY <1>1, <1>2

-----------------------------------------------------------------------------
(* The invariant, and what follows from it.                                 *)

\* The ledger is empty.
LEMMA InitIInv == Init => IInv
<1> SUFFICES ASSUME Init PROVE IInv
  OBVIOUS
<1>1. /\ Idle \in FeedType /\ Idle \in CheckType /\ Idle \in SolType
      /\ Idle.status = "waiting" /\ Idle.at = "idle"
  BY DEF Idle, FeedType, CheckType, SolType, Statuses
<1>2. TypeOK
  BY <1>1, LedgerAssumption DEF Init, TypeOK, CircleStates, ArcStates
<1>3. FlightOK /\ AloneOK /\ LanesOK /\ DueOK
  BY <1>1, LedgerAssumption DEF Init, FlightOK, AloneOK, LanesOK, DueOK, Generations
<1>4. ConfirmedIsMinted /\ ReadyIsComplete /\ HealthyMeansSettled
  BY DEF Init, ConfirmedIsMinted, ReadyIsComplete, HealthyMeansSettled
<1> QED  BY <1>2, <1>3, <1>4 DEF IInv

\* Every step preserves the invariant, and until a run rejects, every
\* confirmation.
LEMMA NextIInv ==
    ASSUME IInv, [Next]_vars
    PROVE  /\ IInv'
           /\ throws = 0 => \A b \in Burns : status[b] = "confirmed" => status'[b] = "confirmed"
<1>1. ASSUME NEW b \in Burns, Attest(b) \/ Settle(b) PROVE IInv' /\ status' = status
  BY <1>1, AttestStep, SettleStep DEF Attest, Settle
<1>2. ASSUME NEW k \in Generations, NEW b \in Burns, CheckRow(k, b)
      PROVE  /\ IInv'
             /\ throws = 0 => \A c \in Burns : status[c] = "confirmed" => status'[c] = "confirmed"
  BY <1>2, CheckReads, CheckWriteStep, RunEndStep DEF CheckRow
<1>3. CASE UNCHANGED vars
  <2>1. TypeOK' /\ status' = status
    BY <1>3 DEF vars, IInv, TypeOK
  <2>2. FlightOK' /\ AloneOK' /\ LanesOK' /\ DueOK'
    BY <1>3 DEF vars, IInv, FlightOK, AloneOK, LanesOK, DueOK
  <2>3. ConfirmedIsMinted' /\ ReadyIsComplete' /\ HealthyMeansSettled'
    BY <1>3 DEF vars, IInv, ConfirmedIsMinted, ReadyIsComplete, HealthyMeansSettled
  <2> QED  BY <2>1, <2>2, <2>3 DEF IInv
<1> QED  BY <1>1, <1>2, <1>3, FeedStep, BackfillStep, StartStep, RunEndStep DEF Next

\* What the ledger says is true, and so is what is about to be written to it.
THEOREM LedgerInvariant == Spec => []IInv
BY InitIInv, NextIInv, PTL DEF Spec

\* No row is called confirmed whose mint Arc has not executed, whoever raced.
THEOREM ConfirmedTrue == Spec => []ConfirmedIsMinted
<1>1. IInv => ConfirmedIsMinted
  BY DEF IInv
<1> QED  BY <1>1, LedgerInvariant, PTL

\* No row is called ready whose message Circle has not completed.
THEOREM ReadyTrue == Spec => []ReadyIsComplete
<1>1. IInv => ReadyIsComplete
  BY DEF IInv
<1> QED  BY <1>1, LedgerInvariant, PTL

\* A settlement run published as healthy confirmed what it owed, and so it has
\* remained, while no run has rejected.
THEOREM HealthEarned == Spec => []HealthyMeansSettled
<1>1. IInv => HealthyMeansSettled
  BY DEF IInv
<1> QED  BY <1>1, LedgerInvariant, PTL

\* While no settlement run has rejected, a confirmed row stays confirmed.
THEOREM ConfirmationsKept == Spec => ConfirmedWhileRunsResolve
<1>1. IInv /\ [Next]_vars =>
        [throws = 0 => \A b \in Burns : status[b] = "confirmed" => status'[b] = "confirmed"]_vars
  BY NextIInv
<1> QED  BY <1>1, LedgerInvariant, PTL DEF Spec, ConfirmedWhileRunsResolve

-----------------------------------------------------------------------------
(* What an unreachable Circle may write.                                    *)

\* Only a row that is being created can get the status of no answer.
AnswersOK ==
    \A b \in Burns : /\ feed[b].at = "update" => feed[b].status # "unavailable"
                     /\ sol[b].status # "unavailable"
                     /\ \A k \in Generations : check[k][b].status # "unavailable"

KeepsAnswers ==
    \A b \in Burns : status[b] \in {"waiting", "ready", "confirmed"} => status'[b] # "unavailable"

\* Each writer keeps to that.
LEMMA AnswersStep ==
    ASSUME TypeOK, AnswersOK, [Next]_vars
    PROVE  AnswersOK' /\ KeepsAnswers
<1>0. /\ feed \in [Burns -> FeedType] /\ sol \in [Burns -> SolType]
      /\ check \in [Generations -> [Burns -> CheckType]]
      /\ status \in [Burns -> Statuses \union {"none"}] /\ Idle.status = "waiting"
      /\ Idle.at = "idle"
  BY DEF TypeOK, Idle
<1>1. ASSUME UNCHANGED <<status, feed, check, sol>> PROVE AnswersOK' /\ KeepsAnswers
  BY <1>1 DEF AnswersOK, KeepsAnswers
<1>2. CASE \/ \E b \in Burns : Attest(b) \/ Settle(b)
           \/ PublishHealth \/ UNCHANGED vars
  BY <1>1, <1>2 DEF Attest, Settle, PublishHealth, worker, vars
<1>3. CASE ApiRestarts \/ \E candidates \in SUBSET EvmBurns : StartRefresh(candidates)
  <2>1. UNCHANGED <<status, check, sol>> /\ \A b \in Burns : feed'[b].at # "update"
    BY <1>0, <1>3 DEF ApiRestarts, StartRefresh, worker, At
  <2> QED  BY <2>1 DEF AnswersOK, KeepsAnswers
<1>4. ASSUME NEW b \in EvmBurns, Feed(b) PROVE AnswersOK' /\ KeepsAnswers
  <2>1. UNCHANGED <<check, sol>>
    BY <1>4 DEF Feed, FeedAsk, FeedUpsert, FeedUpdate, FeedFails, worker
  <2>2. \A c \in Burns : feed'[c].at = "update" => feed'[c].status # "unavailable"
    BY <1>0, <1>4 DEF Feed, FeedAsk, FeedUpsert, FeedUpdate, FeedFails, At, AfterUpsert, AnswersOK
  <2>3. KeepsAnswers
    BY <1>0, <1>4 DEF Feed, FeedAsk, FeedUpsert, FeedUpdate, FeedFails, KeepsAnswers, AnswersOK
  <2> QED  BY <2>1, <2>2, <2>3 DEF AnswersOK
<1>5. ASSUME NEW b \in EvmBurns, Backfill(b) PROVE AnswersOK' /\ KeepsAnswers
  <2>1. UNCHANGED <<feed, check, sol>>
    BY <1>5 DEF Backfill, worker
  <2>2. KeepsAnswers
    BY <1>0, <1>5 DEF Backfill, KeepsAnswers
  <2> QED  BY <2>1, <2>2 DEF AnswersOK
<1>6. ASSUME NEW b \in SolanaBurns, Ingest(b) PROVE AnswersOK' /\ KeepsAnswers
  <2>1. UNCHANGED <<feed, check>>
    BY <1>6 DEF Ingest, IngestAsk, IngestUpsert, IngestUpdate, IngestFails
  <2>2. \A c \in Burns : sol'[c].status # "unavailable"
    BY <1>0, <1>6 DEF Ingest, IngestAsk, IngestUpsert, IngestUpdate, IngestFails, At, AnswersOK
  <2>3. KeepsAnswers
    BY <1>0, <1>6 DEF Ingest, IngestAsk, IngestUpsert, IngestUpdate, IngestFails, KeepsAnswers,
       AnswersOK
  <2> QED  BY <2>1, <2>2, <2>3 DEF AnswersOK
<1>7. CASE WorkerRestarts \/ \E batch \in SUBSET Burns : StartSettlement(batch)
  <2>1. /\ UNCHANGED <<status, feed>> /\ (sol' = sol \/ \A b \in Burns : sol'[b] = Idle)
        /\ \A k \in Generations, b \in Burns :
              check'[k][b].status \in {check[k][b].status, "waiting"}
    BY <1>0, <1>7 DEF WorkerRestarts, StartSettlement, At
  <2> QED  BY <1>0, <2>1 DEF AnswersOK, KeepsAnswers
<1>8. ASSUME NEW k \in Generations, NEW b \in Burns, CheckRow(k, b)
      PROVE  AnswersOK' /\ KeepsAnswers
  <2>1. UNCHANGED <<feed, sol>>
    BY <1>8 DEF CheckRow, CheckAsk, CheckMint, CheckWrite, CheckWriteFails, CheckNote,
       CheckNoteFails
  <2>2. \A j \in Generations, c \in Burns : check'[j][c].status # "unavailable"
    <3>1. \E at, s : /\ check' = [check EXCEPT ![k][b] = At(at, s)]
                     /\ s \in {"waiting", "ready", "confirmed", check[k][b].status}
      BY <1>8 DEF CheckRow, CheckAsk, CheckMint, CheckWrite, CheckWriteFails, CheckNote,
         CheckNoteFails, Check
    <3> QED  BY <1>0, <3>1 DEF AnswersOK, At
  <2>3. KeepsAnswers
    BY <1>0, <1>8 DEF CheckRow, CheckAsk, CheckMint, CheckWrite, CheckWriteFails, CheckNote,
       CheckNoteFails, KeepsAnswers, AnswersOK
  <2> QED  BY <2>1, <2>2, <2>3 DEF AnswersOK
<1> QED  BY <1>2, <1>3, <1>4, <1>5, <1>6, <1>7, <1>8 DEF Next

\* "A refresh that could not reach Circle must not replace a status that was read
\* from a real answer": nor does any other writer.
THEOREM AnswersKept == Spec => UnavailableReplacesNothing
<1>1. Init => AnswersOK
  BY DEF Init, Idle, AnswersOK
<1>2. IInv /\ AnswersOK /\ [Next]_vars => AnswersOK' /\ KeepsAnswers
  BY AnswersStep DEF IInv
<1>3. KeepsAnswers => [\A b \in Burns : status[b] \in {"waiting", "ready", "confirmed"}
                                          => status'[b] # "unavailable"]_vars
  BY DEF KeepsAnswers
<1> QED  BY <1>1, <1>2, <1>3, LedgerInvariant, PTL DEF Spec, UnavailableReplacesNothing

-----------------------------------------------------------------------------
(* Who may walk a row back once runs have rejected.                         *)

\* A row stays in the ledger, and one that loses its confirmation loses it to
\* the write of a settlement check, after a run has rejected.
OnlyACheckWalksBack ==
    [][\A b \in Burns :
          /\ status[b] # "none" => status'[b] # "none"
          /\ status[b] = "confirmed" /\ status'[b] # "confirmed"
                => throws > 0 /\ \E k \in Generations : CheckWrite(k, b)]_vars

\* Writers that are not settlement checks keep rows and confirmations, whatever
\* has happened before.
LEMMA WalkStep ==
    ASSUME IInv, [Next]_vars, NEW b \in Burns
    PROVE  /\ status[b] # "none" => status'[b] # "none"
           /\ status[b] = "confirmed" /\ status'[b] # "confirmed"
                 => throws > 0 /\ \E k \in Generations : CheckWrite(k, b)
<1>0. /\ status \in [Burns -> Statuses \union {"none"}] /\ throws \in Nat
      /\ check \in [Generations -> [Burns -> CheckType]]
      /\ feed \in [Burns -> FeedType] /\ sol \in [Burns -> SolType]
  BY LedgerAssumption DEF IInv, TypeOK
<1>1. CASE status'[b] = status[b]
  BY <1>1
<1>2. ASSUME NEW c \in EvmBurns, Feed(c) \/ Backfill(c), status'[b] # status[b]
      PROVE  status[b] # "confirmed" /\ status'[b] # "none"
  <2>1. feed[c].status # "none"
    BY <1>0 DEF FeedType, Statuses, Burns
  <2> QED  BY <1>0, <1>2, <2>1 DEF Feed, FeedAsk, FeedUpsert, FeedUpdate, FeedFails, Backfill,
           Unconfirmed
<1>3. ASSUME NEW c \in SolanaBurns, Ingest(c), status'[b] # status[b]
      PROVE  status[b] # "confirmed" /\ status'[b] # "none"
  <2>1. sol[c].status # "none"
    BY <1>0 DEF SolType, Statuses, Burns
  <2> QED  BY <1>0, <1>3, <2>1 DEF Ingest, IngestAsk, IngestUpsert, IngestUpdate, IngestFails,
           Unconfirmed
<1>4. ASSUME NEW k \in Generations, NEW c \in Burns, CheckRow(k, c), status'[b] # status[b]
      PROVE  CheckWrite(k, b) /\ status'[b] # "none"
  <2>1. CheckWrite(k, c)
    BY <1>4 DEF CheckRow, CheckAsk, CheckMint, CheckWriteFails, CheckNote, CheckNoteFails
  <2>2. c = b /\ status'[b] = check[k][b].status
    BY <1>0, <1>4, <2>1 DEF CheckWrite
  <2>3. check[k][b].status # "none"
    BY <1>0 DEF CheckType, Statuses
  <2> QED  BY <2>1, <2>2, <2>3
<1>5. throws = 0 => (status[b] = "confirmed" => status'[b] = "confirmed")
  BY NextIInv
<1>6. CASE \/ \E c \in Burns : Attest(c) \/ Settle(c)
           \/ \E candidates \in SUBSET EvmBurns : StartRefresh(candidates)
           \/ \E batch \in SUBSET Burns : StartSettlement(batch)
           \/ PublishHealth \/ ApiRestarts \/ WorkerRestarts \/ UNCHANGED vars
  BY <1>6 DEF Attest, Settle, StartRefresh, StartSettlement, PublishHealth, ApiRestarts,
     WorkerRestarts, vars
<1> QED  BY <1>0, <1>1, <1>2, <1>3, <1>4, <1>5, <1>6 DEF Next

\* "Never walk a row back from a mint that settlement verification already
\* confirmed onchain": the bridge feed, both backfills and restarts never do,
\* however many runs have rejected, and none removes a row; only the write of a
\* settlement check can take a confirmation away, and only once a run has rejected.
THEOREM OnlyChecksWalkBack == Spec => OnlyACheckWalksBack
<1>1. IInv /\ [Next]_vars =>
        [\A b \in Burns :
            /\ status[b] # "none" => status'[b] # "none"
            /\ status[b] = "confirmed" /\ status'[b] # "confirmed"
                  => throws > 0 /\ \E k \in Generations : CheckWrite(k, b)]_vars
  BY WalkStep
<1> QED  BY <1>1, LedgerInvariant, PTL DEF Spec, OnlyACheckWalksBack
=============================================================================
