------------------------ MODULE AnalysisStoreProofs ------------------------
(***************************************************************************)
(* Proofs about AnalysisStore, for any number of processes and runs, any   *)
(* findings, keys and results, any failures and kills, and reviewers who   *)
(* may act at any point of a run, but for what a theorem assumes: that     *)
(* writes do not overlap (Serial), which the queue of one process ensures, *)
(* or that no reviewer acts inside a transaction.                          *)
(***************************************************************************)
EXTENDS AnalysisStore, TLAPS

InTransaction == {"delete", "lock", "replace"}
Committed == {"holders", "pools", "events", "refresh", "links", "record", "verdict", "done",
              "failed"}

\* Rows are told apart by their ids, which a run uses once.
IdsOK ==
    /\ \A x, y \in findings : Id(x) = Id(y) => x = y
    /\ \A x \in findings : run[x.born].pc \in Committed

\* The rows a transaction has deleted and not yet committed are unreviewed.
LocksOK ==
    \A r \in Runs : run[r].pc = "replace" =>
        \A x \in findings : Id(x) \in run[r].doomed => ~x.manual

\* The reviewed rows a transaction has read are still there, and reviewed.
ReadsOK ==
    \A r \in Runs : run[r].pc \in InTransaction =>
        \A i \in run[r].reviewed : \E x \in findings : Id(x) = i /\ x.manual

IInv == TypeOK /\ IdsOK /\ LocksOK /\ ReadsOK /\ ScoredIsShown

-----------------------------------------------------------------------------
(* Types.                                                                   *)

\* Between two stages a run holds nothing ill typed.
LEMMA AtType ==
    ASSUME NEW pc \in Stages, NEW by \in Procs \union {NoProc}, NEW result \in ResultType,
           NEW known \in BOOLEAN, NEW reviewed \in SUBSET IdType,
           NEW doomed \in SUBSET IdType, NEW open \in SUBSET EventType
    PROVE  At(pc, by, result, known, reviewed, doomed, open) \in RunType
BY DEF At, RunType

\* An unsubmitted or ended run has no result.
LEMMA NoResultType == NoResult \in ResultType
BY DEF NoResult, ResultType

\* A run that goes on to another stage keeps what it holds.
LEMMA GoesType ==
    ASSUME TypeOK, NEW r \in Runs, NEW pc \in Stages, Goes(r, pc)
    PROVE  /\ run' \in [Runs -> RunType]
           /\ run'[r].pc = pc /\ \A q \in Runs \ {r} : run'[q] = run[q]
<1>1. run \in [Runs -> RunType] /\ run[r] \in RunType
  BY DEF TypeOK
<1>2. At(pc, run[r].by, run[r].result, run[r].known, run[r].reviewed, run[r].doomed,
         run[r].open) \in RunType
  BY <1>1 DEF At, RunType
<1> QED  BY <1>1, <1>2 DEF Goes, At

\* A run that ends lets go of what it holds.
LEMMA EndsType ==
    ASSUME TypeOK, NEW r \in Runs, NEW pc \in Stages, Ends(r, pc)
    PROVE  /\ run' \in [Runs -> RunType]
           /\ run'[r].pc = pc /\ \A q \in Runs \ {r} : run'[q] = run[q]
<1>1. run \in [Runs -> RunType] /\ run[r].by \in Procs \union {NoProc}
  BY DEF TypeOK, RunType
<1>2. At(pc, run[r].by, NoResult, FALSE, {}, {}, {}) \in RunType
  BY <1>1, AtType, NoResultType
<1> QED  BY <1>1, <1>2 DEF Ends, At

\* The row of a finding identifies it among the rows of the table.
LEMMA RowId ==
    ASSUME NEW x \in RowType
    PROVE  Id(x) \in IdType /\ Key(x) \in Keys /\ x.manual \in BOOLEAN
BY StoreAssumption DEF RowType, Id, IdType, Key

-----------------------------------------------------------------------------
(* Steps outside the findings transaction.                                  *)

\* No stage is both inside and past the transaction.
LEMMA Apart == \A pc \in Committed : pc \notin InTransaction
BY DEF Committed, InTransaction

\* A step that leaves the finding rows alone and takes no run into the
\* transaction disturbs nothing that is known of it.
LEMMA OutsideStep ==
    ASSUME IInv, findings' = findings, said'.scored = said.scored,
           \A q \in Runs : /\ run'[q].pc \in InTransaction => run'[q] = run[q]
                           /\ run[q].pc \in Committed => run'[q].pc \in Committed
    PROVE  IdsOK' /\ LocksOK' /\ ReadsOK' /\ ScoredIsShown'
<1>0. IdsOK'
  <2>1. ASSUME NEW x \in findings PROVE run'[x.born].pc \in Committed
    <3>1. x.born \in Runs /\ run[x.born].pc \in Committed
      BY DEF IInv, TypeOK, RowType, IdsOK
    <3> QED  BY <3>1
  <2>2. \A x, y \in findings : Id(x) = Id(y) => x = y
    BY DEF IInv, IdsOK
  <2> QED  BY <2>1, <2>2 DEF IdsOK, Id
<1>1. LocksOK'
  <2> SUFFICES ASSUME NEW q \in Runs, run'[q].pc = "replace",
                      NEW x \in findings, Id(x) \in run'[q].doomed
               PROVE  ~x.manual
    BY DEF LocksOK, Id
  <2>1. run'[q] = run[q]
    BY DEF InTransaction
  <2> QED  BY <2>1 DEF IInv, LocksOK
<1>2. ReadsOK'
  <2> SUFFICES ASSUME NEW q \in Runs, run'[q].pc \in InTransaction, NEW i \in run'[q].reviewed
               PROVE  \E x \in findings : Id(x) = i /\ x.manual
    BY DEF ReadsOK, Id
  <2>1. run'[q] = run[q]
    OBVIOUS
  <2> QED  BY <2>1 DEF IInv, ReadsOK
<1>3. ScoredIsShown'
  BY DEF IInv, ScoredIsShown
<1> QED  BY <1>0, <1>1, <1>2, <1>3

\* That is so of one run that moves to a stage outside the transaction.
LEMMA MoveStep ==
    ASSUME IInv, TypeOK', findings' = findings, said'.scored = said.scored, NEW r \in Runs,
           run'[r].pc \notin InTransaction,
           run[r].pc \in Committed => run'[r].pc \in Committed,
           \A q \in Runs \ {r} : run'[q] = run[q]
    PROVE  IInv'
<1>1. \A q \in Runs : /\ run'[q].pc \in InTransaction => run'[q] = run[q]
                      /\ run[q].pc \in Committed => run'[q].pc \in Committed
  OBVIOUS
<1> QED  BY <1>1, OutsideStep DEF IInv

\* A result is handed to the queue of a process.
LEMMA SubmitStep ==
    ASSUME IInv, NEW r \in Runs, NEW p \in Procs, NEW result \in Results, Submit(r, p, result)
    PROVE  IInv'
<1> DEFINE new == At("queued", p, result, FALSE, {}, {}, {})
<1>1. new \in RunType /\ new.pc = "queued"
  BY StoreAssumption, AtType DEF Stages, At
<1>2. run' = [run EXCEPT ![r] = new] /\ run \in [Runs -> RunType]
  BY DEF Submit, IInv, TypeOK
<1>3. TypeOK'
  BY <1>1, <1>2 DEF Submit, rows, IInv, TypeOK
<1>4. run[r].pc \notin Committed /\ new.pc \notin InTransaction
  BY <1>1 DEF Submit, Committed, InTransaction
<1>5. findings' = findings /\ said'.scored = said.scored
  BY DEF Submit, rows
<1> QED  BY <1>1, <1>2, <1>3, <1>4, <1>5, MoveStep

\* The token row is read and upserted.
LEMMA TokenStep ==
    ASSUME IInv, NEW r \in Runs, ReadToken(r) \/ WriteToken(r)
    PROVE  IInv'
<1>0. run \in [Runs -> RunType] /\ run[r] \in RunType /\ meta \in BOOLEAN
  BY DEF IInv, TypeOK
<1>1. CASE ReadToken(r)
  <2> DEFINE new == At("metadata", run[r].by, run[r].result, meta, {}, {}, {})
  <2>1. new \in RunType /\ new.pc = "metadata"
    BY <1>0 DEF At, RunType, Stages
  <2>2. run' = [run EXCEPT ![r] = new]
    BY <1>0, <1>1 DEF ReadToken
  <2>3. TypeOK'
    BY <1>0, <1>1, <2>1, <2>2 DEF ReadToken, rows, IInv, TypeOK
  <2>4. run[r].pc \notin Committed /\ new.pc \notin InTransaction
    BY <1>1, <2>1 DEF ReadToken, InTransaction, Committed
  <2>5. findings' = findings /\ said'.scored = said.scored
    BY <1>1 DEF ReadToken, rows
  <2> QED  BY <1>0, <2>1, <2>2, <2>3, <2>4, <2>5, MoveStep
<1>2. CASE WriteToken(r)
  <2>1. Carried(r) \in BOOLEAN
    BY <1>0 DEF Carried, RunType, ResultType
  <2>2. Goes(r, "review") /\ "review" \in Stages
    BY <1>2 DEF WriteToken, Stages
  <2>3. TypeOK'
    BY <1>2, <2>1, <2>2, GoesType DEF WriteToken, UpsertVerdict, IInv, TypeOK
  <2>4. run[r].pc \notin Committed /\ "review" \notin InTransaction
    BY <1>2 DEF WriteToken, InTransaction, Committed
  <2>5. findings' = findings /\ said'.scored = said.scored
    BY <1>2 DEF WriteToken
  <2>6. run'[r].pc = "review" /\ \A q \in Runs \ {r} : run'[q] = run[q]
    BY <2>2, GoesType DEF IInv
  <2> QED  BY <2>3, <2>4, <2>5, <2>6, MoveStep
<1> QED  BY <1>1, <1>2

\* Holders, pools, links, the run's row and the verdict.
LEMMA ChildStep ==
    ASSUME IInv, NEW r \in Runs,
           \/ Replace(r, "holders", "pools") \/ Replace(r, "pools", "events")
           \/ Replace(r, "links", "record") \/ RecordRun(r) \/ WriteVerdict(r)
    PROVE  IInv'
<1>0. r \in 0..MaxRuns
  BY StoreAssumption DEF Runs
<1>1. ASSUME NEW c \in {"holders", "pools", "links"}, NEW next \in {"pools", "events", "record"},
             Replace(r, c, next)
      PROVE  IInv'
  <2>1. next \in Stages /\ next \in Committed /\ Goes(r, next)
    BY <1>1 DEF Replace, Stages, Committed
  <2>2. TypeOK'
    BY <1>0, <1>1, <2>1, GoesType DEF Replace, IInv, TypeOK
  <2>3. run'[r].pc = next /\ \A q \in Runs \ {r} : run'[q] = run[q]
    BY <2>1, GoesType DEF IInv
  <2>4. findings' = findings /\ said'.scored = said.scored
    BY <1>1 DEF Replace
  <2> QED  BY <2>1, <2>2, <2>3, <2>4, MoveStep, Apart
<1>2. CASE RecordRun(r)
  <2>1. "verdict" \in Stages /\ "verdict" \in Committed /\ Goes(r, "verdict")
    BY <1>2 DEF RecordRun, Stages, Committed
  <2>2. TypeOK'
    BY <1>0, <1>2, <2>1, GoesType DEF RecordRun, IInv, TypeOK
  <2>3. run'[r].pc = "verdict" /\ \A q \in Runs \ {r} : run'[q] = run[q]
    BY <2>1, GoesType DEF IInv
  <2>4. findings' = findings /\ said'.scored = said.scored
    BY <1>2 DEF RecordRun
  <2> QED  BY <2>1, <2>2, <2>3, <2>4, MoveStep, Apart
<1>3. CASE WriteVerdict(r)
  <2>1. "done" \in Stages /\ "done" \in Committed /\ Ends(r, "done")
    BY <1>3 DEF WriteVerdict, Stages, Committed
  <2>2. TypeOK'
    BY <1>0, <1>3, <2>1, EndsType DEF WriteVerdict, IInv, TypeOK
  <2>3. run'[r].pc = "done" /\ \A q \in Runs \ {r} : run'[q] = run[q]
    BY <2>1, EndsType DEF IInv
  <2>4. findings' = findings /\ said'.scored = said.scored
    BY <1>3 DEF WriteVerdict
  <2> QED  BY <2>1, <2>2, <2>3, <2>4, MoveStep, Apart
<1> QED  BY <1>1, <1>2, <1>3

\* The risk events are read and written.
LEMMA EventsStep ==
    ASSUME IInv, NEW r \in Runs, ReadEvents(r) \/ WriteEvents(r)
    PROVE  IInv'
<1>0. /\ run \in [Runs -> RunType] /\ run[r] \in RunType /\ events \in SUBSET EventType
      /\ run[r].open \in SUBSET EventType /\ run[r].by \in Procs \union {NoProc}
      /\ run[r].result \in ResultType /\ run[r].known \in BOOLEAN
  BY DEF IInv, TypeOK, RunType
<1>1. CASE ReadEvents(r)
  <2> DEFINE new == At("refresh", run[r].by, run[r].result, run[r].known, {}, {}, events)
  <2>1. new \in RunType /\ new.pc = "refresh"
    BY <1>0 DEF At, RunType, Stages
  <2>2. run' = [run EXCEPT ![r] = new]
    BY <1>0, <1>1 DEF ReadEvents
  <2>3. TypeOK'
    BY <1>0, <1>1, <2>1, <2>2 DEF ReadEvents, rows, IInv, TypeOK
  <2>4. run'[r].pc \in Committed
    BY <1>0, <2>1, <2>2 DEF Committed
  <2>5. findings' = findings /\ said'.scored = said.scored
    BY <1>1 DEF ReadEvents, rows
  <2> QED  BY <1>0, <2>2, <2>3, <2>4, <2>5, MoveStep, Apart
<1>2. CASE WriteEvents(r)
  <2> DEFINE new == At("links", run[r].by, run[r].result, run[r].known, {}, {}, {})
             open == run[r].open
             read == {e \in events : \E f \in open : SameEvent(e, f)}
             row(e) == CHOOSE f \in open : SameEvent(e, f)
             created(k) == [born |-> r, title |-> k, status |-> CreatedStatus,
                            resolved |-> FALSE, proof |-> r]
  <2>1. new \in RunType /\ new.pc = "links"
    BY <1>0 DEF At, RunType, Stages
  <2>2. run' = [run EXCEPT ![r] = new]
    BY <1>0, <1>2 DEF WriteEvents
  <2>3. events' = (events \ read) \union {EventAfter(r, row(e), e) : e \in read}
                    \union {created(k) : k \in NewTitles(r)}
    BY <1>2 DEF WriteEvents
  <2>4. ASSUME NEW e \in read PROVE EventAfter(r, row(e), e) \in EventType
    <3>1. row(e) \in open /\ e \in EventType
      BY <1>0
    <3>2. row(e).resolved \in BOOLEAN
      BY <1>0, <3>1 DEF EventType
    <3>3. AllRead(r, row(e).title) \in BOOLEAN
      BY DEF AllRead
    <3> QED  BY <3>1, <3>2, <3>3 DEF EventAfter, EventType
  <2>5. ASSUME NEW k \in NewTitles(r) PROVE created(k) \in EventType
    <3>1. k \in Keys
      BY <1>0, StoreAssumption DEF NewTitles, LoudKeys, ResultType
    <3> QED  BY <3>1 DEF CreatedStatus, EventType, Statuses
  <2>6. events' \subseteq EventType
    BY <1>0, <2>3, <2>4, <2>5
  <2>7. TypeOK'
    <3>1. said'.quiet \in [Keys -> BOOLEAN]
      BY <1>0, <1>2 DEF WriteEvents, IInv, TypeOK
    <3>2. said' \in [scored : SUBSET Findings, latest : [Keys -> 0..MaxRuns],
                     absent : [Keys -> BOOLEAN], quiet : [Keys -> BOOLEAN]]
      BY <1>2, <3>1 DEF WriteEvents, IInv, TypeOK
    <3> QED  BY <1>0, <1>2, <2>1, <2>2, <2>6, <3>2 DEF WriteEvents, IInv, TypeOK
  <2>8. findings' = findings /\ said'.scored = said.scored
    BY <1>2 DEF WriteEvents, IInv, TypeOK
  <2>9. run'[r].pc \in Committed
    BY <1>0, <2>1, <2>2 DEF Committed
  <2> QED  BY <1>0, <2>2, <2>7, <2>8, <2>9, MoveStep, Apart
<1> QED  BY <1>1, <1>2

\* A statement throws, or a process is killed: what it had not committed is
\* rolled back.
LEMMA FaultStep ==
    ASSUME IInv, (\E r \in Runs : Fail(r)) \/ (\E p \in Procs : Kill(p))
    PROVE  IInv'
<1>0. "failed" \in Stages /\ "failed" \in Committed
  BY DEF Stages, Committed
<1>1. ASSUME NEW r \in Runs, Fail(r) PROVE IInv'
  <2>1. TypeOK'
    BY <1>0, <1>1, EndsType DEF Fail, rows, IInv, TypeOK
  <2>2. run'[r].pc = "failed" /\ \A q \in Runs \ {r} : run'[q] = run[q]
    BY <1>0, <1>1, EndsType DEF Fail, IInv
  <2>3. findings' = findings /\ said'.scored = said.scored
    BY <1>1 DEF Fail, rows
  <2> QED  BY <1>0, <2>1, <2>2, <2>3, MoveStep, Apart
<1>2. ASSUME NEW p \in Procs, Kill(p) PROVE IInv'
  <2> DEFINE dead == At("failed", p, NoResult, FALSE, {}, {}, {})
  <2>1. dead \in RunType /\ dead.pc = "failed"
    BY <1>0, AtType, NoResultType DEF At
  <2>2. run' = [r \in Runs |-> IF run[r].by = p /\ ~Ended(r) THEN dead ELSE run[r]]
    BY <1>2 DEF Kill
  <2>3. TypeOK'
    <3> HIDE DEF dead
    <3>0. run \in [Runs -> RunType] /\ faults \in Nat
      BY DEF IInv, TypeOK
    <3>1. \A q \in Runs : (IF run[q].by = p /\ ~Ended(q) THEN dead ELSE run[q]) \in RunType
      BY <2>1, <3>0
    <3>2. run' \in [Runs -> RunType]
      BY <2>2, <3>1
    <3>3. faults' = faults + 1
      BY <1>2 DEF Kill
    <3>4. UNCHANGED <<meta, findings, events, child, recorded, verdict, said>>
      BY <1>2 DEF Kill, rows
    <3> QED  BY <3>0, <3>2, <3>3, <3>4 DEF IInv, TypeOK
  <2>4. ASSUME NEW q \in Runs
        PROVE  /\ run'[q].pc \in InTransaction => run'[q] = run[q]
               /\ run[q].pc \in Committed => run'[q].pc \in Committed
    <3>1. CASE run'[q] = run[q]
      BY <3>1
    <3>2. CASE run'[q] = dead
      BY <1>0, <2>1, <3>2, Apart
    <3> QED  BY <2>2, <3>1, <3>2
  <2>5. findings' = findings /\ said' = said
    BY <1>2 DEF Kill, rows
  <2> QED  BY <2>3, <2>4, <2>5, OutsideStep DEF IInv
<1> QED  BY <1>1, <1>2

-----------------------------------------------------------------------------
(* The findings transaction and the reviewers.                              *)

\* The transaction reads the reviewed rows.
LEMMA ReadReviewedStep ==
    ASSUME IInv, NEW r \in Runs, ReadReviewed(r)
    PROVE  IInv'
<1> DEFINE reviewed == {Id(x) : x \in {y \in findings : y.manual}}
           new == At("delete", run[r].by, run[r].result, run[r].known, reviewed, {}, {})
<1>0. run \in [Runs -> RunType] /\ run[r] \in RunType /\ findings \subseteq RowType
  BY DEF IInv, TypeOK
<1>1. reviewed \in SUBSET IdType
  BY <1>0, RowId
<1>2. new \in RunType /\ new.pc = "delete" /\ new.reviewed = reviewed
  BY <1>0, <1>1 DEF At, RunType, Stages
<1>3. run' = [run EXCEPT ![r] = new] /\ UNCHANGED <<rows, faults, said>>
  BY <1>0 DEF ReadReviewed
<1>4. TypeOK'
  BY <1>0, <1>2, <1>3 DEF rows, IInv, TypeOK
<1>5. IdsOK' /\ LocksOK' /\ ScoredIsShown'
  <2>1. run[r].pc \notin Committed /\ \A x \in findings : x.born \in Runs
    BY <1>0 DEF ReadReviewed, Committed, RowType
  <2> QED  BY <1>0, <1>2, <1>3, <2>1 DEF rows, IInv, IdsOK, LocksOK, ScoredIsShown
<1>6. ReadsOK'
  BY <1>0, <1>2, <1>3 DEF rows, IInv, ReadsOK
<1> QED  BY <1>4, <1>5, <1>6 DEF IInv

\* The transaction deletes the rows that are not reviewed.
LEMMA DeleteStep ==
    ASSUME IInv, NEW r \in Runs, BeginDelete(r) \/ FinishDelete(r)
    PROVE  IInv'
<1>0. run \in [Runs -> RunType] /\ run[r] \in RunType /\ findings \subseteq RowType
  BY DEF IInv, TypeOK
<1>1. ASSUME NEW pc \in {"lock", "replace"}, NEW doomed \in SUBSET IdType,
             run[r].pc \in {"delete", "lock"},
             run' = [run EXCEPT ![r] = At(pc, run[r].by, run[r].result, run[r].known,
                                          run[r].reviewed, doomed, {})],
             pc = "replace" => \A x \in findings : Id(x) \in doomed => ~x.manual,
             UNCHANGED <<rows, faults, said>>
      PROVE  IInv'
  <2> DEFINE new == At(pc, run[r].by, run[r].result, run[r].known, run[r].reviewed, doomed, {})
  <2>1. /\ new \in RunType /\ new.pc = pc /\ new.reviewed = run[r].reviewed
        /\ new.doomed = doomed
    BY <1>0 DEF At, RunType, Stages
  <2>2. TypeOK'
    BY <1>0, <1>1, <2>1 DEF rows, IInv, TypeOK
  <2>3. LocksOK'
    BY <1>0, <1>1, <2>1 DEF rows, IInv, LocksOK
  <2>4. ReadsOK'
    BY <1>0, <1>1, <2>1 DEF rows, IInv, ReadsOK, InTransaction
  <2>5. ScoredIsShown'
    BY <1>1 DEF rows, IInv, ScoredIsShown
  <2>6. IdsOK'
    <3>1. run[r].pc \notin Committed /\ \A x \in findings : x.born \in Runs
      BY <1>0, <1>1 DEF Committed, RowType
    <3> QED  BY <1>0, <1>1, <3>1 DEF rows, IInv, IdsOK
  <2> QED  BY <2>2, <2>3, <2>4, <2>5, <2>6 DEF IInv
<1>2. CASE BeginDelete(r)
  <2> DEFINE doomed == {Id(x) : x \in {y \in findings : Deletable(y)}}
  <2>1. doomed \in SUBSET IdType
    BY <1>0, RowId
  <2>2. run' = [run EXCEPT ![r] = At("lock", run[r].by, run[r].result, run[r].known,
                                     run[r].reviewed, doomed, {})]
    BY <1>0, <1>2 DEF BeginDelete
  <2> QED  BY <1>1, <1>2, <2>1, <2>2 DEF BeginDelete
<1>3. CASE FinishDelete(r)
  <2> DEFINE taken == {y \in findings : Deletable(y) /\ Id(y) \in run[r].doomed}
             doomed == {Id(x) : x \in taken}
  <2>1. doomed \in SUBSET IdType
    BY <1>0, RowId
  <2>2. run' = [run EXCEPT ![r] = At("replace", run[r].by, run[r].result, run[r].known,
                                     run[r].reviewed, doomed, {})]
    BY <1>0, <1>3 DEF FinishDelete
  <2>3. \A x \in findings : Id(x) \in doomed => ~x.manual
    BY DEF IInv, IdsOK, Deletable
  <2> QED  BY <1>1, <1>3, <2>1, <2>2, <2>3 DEF FinishDelete
<1> QED  BY <1>2, <1>3

\* A refreshed row is the row it was, with its decision.
LEMMA RefreshedRow ==
    ASSUME NEW r \in Runs, NEW last \in [Keys -> Findings], NEW x \in RowType
    PROVE  LET y == Refreshed(x, r, last)
           IN  /\ y \in RowType /\ Id(y) = Id(x) /\ Key(y) = Key(x) /\ y.manual = x.manual
               /\ y.born = x.born
               /\ Id(x) \in run[r].reviewed =>
                    IF Key(x) \in ProducedKeys(r) THEN y.seen = r /\ ~y.retired
                    ELSE y.seen = x.seen /\ y.retired = (x.retired \/ Lapsed(r, Key(x)))
<1>1. Key(x) \in Keys /\ last[Key(x)] \in Findings /\ x.retired \in BOOLEAN
  BY RowId DEF RowType
<1>2. Lapsed(r, Key(x)) \in BOOLEAN
  BY DEF Lapsed
<1>3. CASE Id(x) \notin run[r].reviewed
  BY <1>3 DEF Refreshed
<1>4. CASE Id(x) \in run[r].reviewed /\ Key(x) \in ProducedKeys(r)
  <2>1. Refreshed(x, r, last)
          = [x EXCEPT !.shows = last[Key(x)], !.seen = r, !.retired = FALSE]
    BY <1>4 DEF Refreshed
  <2> QED  BY <1>1, <1>4, <2>1 DEF RowType, Id, Key
<1>5. CASE Id(x) \in run[r].reviewed /\ Key(x) \notin ProducedKeys(r)
  <2>1. Refreshed(x, r, last) = [x EXCEPT !.retired = @ \/ Lapsed(r, Key(x))]
    BY <1>5 DEF Refreshed
  <2> QED  BY <1>1, <1>2, <1>5, <2>1 DEF RowType, Id, Key
<1> QED  BY <1>3, <1>4, <1>5

\* The transaction commits: reviewed rows are kept, and refreshed or retired;
\* the findings no reviewed row stands for get a row of their own.
LEMMA ReplaceFindingsStep ==
    ASSUME IInv, NEW r \in Runs, NEW last \in [Keys -> Findings], ReplaceFindings(r, last)
    PROVE  /\ IInv'
           /\ \A x \in findings : x.manual => \E y \in findings' : Id(y) = Id(x) /\ y.manual
<1> DEFINE kept == {y \in findings : Id(y) \notin run[r].doomed}
           created(f) == [born |-> r, for |-> f, shows |-> f, seen |-> r, manual |-> FALSE,
                          retired |-> FALSE]
<1>0. /\ run \in [Runs -> RunType] /\ run[r] \in RunType /\ run[r].pc = "replace"
      /\ findings \subseteq RowType /\ run[r].result \in ResultType
  BY DEF ReplaceFindings, IInv, TypeOK, RunType
<1>1. findings' = {Refreshed(x, r, last) : x \in kept} \union {created(f) : f \in Fresh(r)}
  BY DEF ReplaceFindings
<1>2. ASSUME NEW x \in RowType
      PROVE  LET y == Refreshed(x, r, last)
             IN  /\ y \in RowType /\ Id(y) = Id(x) /\ Key(y) = Key(x) /\ y.manual = x.manual
                 /\ y.born = x.born
  BY RefreshedRow
<1>3. ASSUME NEW f \in Fresh(r)
      PROVE  created(f) \in RowType /\ Id(created(f)) = <<r, f>> /\ Key(created(f)) = KeyOf[f]
  <2>1. f \in Findings
    BY <1>0, <1>3 DEF Fresh, ResultType
  <2> QED  BY <2>1 DEF RowType, Id, Key
<1>4. Goes(r, "holders") /\ "holders" \in Stages /\ "holders" \in Committed
  BY DEF ReplaceFindings, Stages, Committed
<1>5. TypeOK'
  <2>1. findings' \subseteq RowType
    BY <1>0, <1>1, <1>2, <1>3
  <2>2. ProducedKeys(r) \subseteq Keys /\ run[r].result.produced \subseteq Findings
    BY <1>0, StoreAssumption DEF ProducedKeys, ResultType
  <2>3. r \in 0..MaxRuns
    BY StoreAssumption DEF Runs
  <2>4. said' \in [scored : SUBSET Findings, latest : [Keys -> 0..MaxRuns],
                   absent : [Keys -> BOOLEAN], quiet : [Keys -> BOOLEAN]]
    BY <2>2, <2>3 DEF ReplaceFindings, IInv, TypeOK
  <2> QED  BY <1>4, <2>1, <2>4, GoesType DEF ReplaceFindings, IInv, TypeOK
<1>6. \A x \in kept : x \in RowType /\ x.born \in Runs /\ x.born # r
  <2>1. \A x \in findings : x.born # r
    BY <1>0 DEF IInv, IdsOK, Committed
  <2> QED  BY <1>0, <2>1 DEF RowType
<1>7. IdsOK'
  <2>1. ASSUME NEW x \in findings', NEW y \in findings', Id(x) = Id(y) PROVE x = y
    <3>0. /\ \A f \in Fresh(r) : created(f).born = r /\ Id(created(f)) = <<r, f>>
          /\ \A v \in kept : Refreshed(v, r, last).born # r
      BY <1>2, <1>3, <1>6
    <3>1. CASE \E f, g \in Fresh(r) : x = created(f) /\ y = created(g)
      <4>1. PICK f \in Fresh(r), g \in Fresh(r) : x = created(f) /\ y = created(g)
        BY <3>1
      <4>2. <<r, f>> = <<r, g>>
        BY <2>1, <3>0, <4>1
      <4> QED  BY <4>1, <4>2
    <3>2. x.born = y.born
      BY <2>1 DEF Id
    <3>3. CASE \E v, w \in kept : x = Refreshed(v, r, last) /\ y = Refreshed(w, r, last)
      BY <1>2, <1>6, <2>1, <3>3 DEF IInv, IdsOK
    <3>4. CASE \E f \in Fresh(r), v \in kept :
                 \/ x = created(f) /\ y = Refreshed(v, r, last)
                 \/ y = created(f) /\ x = Refreshed(v, r, last)
      BY <3>0, <3>2, <3>4
    <3> QED  BY <1>1, <2>1, <3>1, <3>3, <3>4
  <2>2. ASSUME NEW x \in findings' PROVE run'[x.born].pc \in Committed
    <3>1. CASE \E f \in Fresh(r) : x = created(f)
      BY <1>4, <3>1, GoesType DEF IInv
    <3>2. CASE \E v \in kept : x = Refreshed(v, r, last)
      BY <1>2, <1>4, <1>6, <3>2, GoesType DEF IInv, IdsOK
    <3> QED  BY <1>1, <2>2, <3>1, <3>2
  <2> QED  BY <2>1, <2>2 DEF IdsOK
<1>8. LocksOK'
  <2> SUFFICES ASSUME NEW q \in Runs, run'[q].pc = "replace",
                      NEW x \in findings', Id(x) \in run'[q].doomed
               PROVE  ~x.manual
    BY DEF LocksOK
  <2>1. run'[q] = run[q] /\ run[q].pc = "replace"
    BY <1>4, GoesType DEF IInv
  <2>2. CASE \E f \in Fresh(r) : x = created(f)
    BY <2>2
  <2>3. CASE \E v \in kept : x = Refreshed(v, r, last)
    BY <1>2, <1>6, <2>1, <2>3 DEF IInv, LocksOK
  <2> QED  BY <1>1, <2>2, <2>3
<1>9. \A x \in findings : x.manual => \E y \in findings' : Id(y) = Id(x) /\ y.manual
  <2> SUFFICES ASSUME NEW x \in findings, x.manual
               PROVE  \E y \in findings' : Id(y) = Id(x) /\ y.manual
    OBVIOUS
  <2>1. x \in kept
    BY <1>0 DEF IInv, LocksOK
  <2> QED  BY <1>1, <1>2, <1>6, <2>1
<1>10. ReadsOK'
  <2> SUFFICES ASSUME NEW q \in Runs, run'[q].pc \in InTransaction, NEW i \in run'[q].reviewed
               PROVE  \E y \in findings' : Id(y) = i /\ y.manual
    BY DEF ReadsOK
  <2>1. run'[q] = run[q] /\ run[q].pc \in InTransaction
    BY <1>4, GoesType DEF IInv, InTransaction
  <2>2. PICK x \in findings : Id(x) = i /\ x.manual
    BY <2>1 DEF IInv, ReadsOK
  <2> QED  BY <1>9, <2>2
<1>11. ScoredIsShown'
  <2> SUFFICES ASSUME NEW f \in run[r].result.produced
               PROVE  \E y \in findings' : Key(y) = KeyOf[f] /\ ~y.retired
    BY DEF ScoredIsShown, ReplaceFindings
  <2>1. CASE f \in Fresh(r)
    <3>1. created(f) \in findings' /\ ~created(f).retired
      BY <1>1, <2>1
    <3> QED  BY <1>3, <2>1, <3>1
  <2>2. CASE f \notin Fresh(r)
    <3>1. PICK i \in run[r].reviewed : KeyOf[i[2]] = KeyOf[f]
      BY <2>2 DEF Fresh
    <3>2. PICK x \in findings : Id(x) = i /\ x.manual
      BY <1>0 DEF IInv, ReadsOK, InTransaction
    <3>3. x \in kept /\ Key(x) = KeyOf[f]
      BY <1>0, <3>1, <3>2 DEF IInv, LocksOK, Id, Key
    <3>4. KeyOf[f] \in ProducedKeys(r)
      BY DEF ProducedKeys
    <3>5. Refreshed(x, r, last)
            = [x EXCEPT !.shows = last[Key(x)], !.seen = r, !.retired = FALSE]
      BY <3>2, <3>3, <3>4 DEF Refreshed
    <3>6. ~Refreshed(x, r, last).retired
      BY <1>6, <3>3, <3>5 DEF RowType
    <3> QED  BY <1>1, <1>2, <1>6, <3>3, <3>6
  <2> QED  BY <2>1, <2>2
<1> QED  BY <1>5, <1>7, <1>8, <1>9, <1>10, <1>11 DEF IInv

\* An administrator overrides a finding.
LEMMA OverrideStep ==
    ASSUME IInv, NEW x \in findings, Override(x)
    PROVE  /\ IInv'
           /\ \A y \in findings : y.manual => \E z \in findings' : Id(z) = Id(y) /\ z.manual
<1> DEFINE new == [x EXCEPT !.manual = TRUE]
<1>0. /\ findings \subseteq RowType /\ x \in RowType
      /\ findings' = (findings \ {x}) \union {new} /\ run' = run /\ said' = said
  BY DEF Override, IInv, TypeOK
<1>1. /\ new \in RowType /\ Id(new) = Id(x) /\ Key(new) = Key(x) /\ new.manual
      /\ new.born = x.born /\ new.retired = x.retired
  BY <1>0 DEF RowType, Id, Key
<1> HIDE DEF new
<1>2. TypeOK'
  BY <1>0, <1>1 DEF Override, IInv, TypeOK
<1>3. IdsOK'
  BY <1>0, <1>1 DEF IInv, IdsOK
<1>4. LocksOK'
  <2> SUFFICES ASSUME NEW q \in Runs, run[q].pc = "replace",
                      NEW y \in findings', Id(y) \in run[q].doomed
               PROVE  ~y.manual
    BY <1>0 DEF LocksOK
  <2>1. y # new
    BY <1>1 DEF Override, Locked
  <2> QED  BY <1>0, <2>1 DEF IInv, LocksOK
<1>5. ASSUME NEW y \in findings, y.manual
      PROVE  \E z \in findings' : Id(z) = Id(y) /\ z.manual
  BY <1>0, <1>1, <1>5
<1>6. ReadsOK'
  BY <1>0, <1>5 DEF IInv, ReadsOK
<1>7. ScoredIsShown'
  <2> SUFFICES ASSUME NEW f \in said.scored
               PROVE  \E z \in findings' : Key(z) = KeyOf[f] /\ ~z.retired
    BY <1>0 DEF ScoredIsShown
  <2>1. PICK y \in findings : Key(y) = KeyOf[f] /\ ~y.retired
    BY DEF IInv, ScoredIsShown
  <2> QED  BY <1>0, <1>1, <2>1
<1> QED  BY <1>2, <1>3, <1>4, <1>5, <1>6, <1>7 DEF IInv

\* An administrator reviews a risk event.
LEMMA ReviewEventStep ==
    ASSUME IInv, NEW e \in events, NEW status \in Statuses, ReviewEvent(e, status)
    PROVE  IInv'
<1>1. [e EXCEPT !.status = status] \in EventType
  BY DEF IInv, TypeOK, EventType
<1>2. TypeOK'
  BY <1>1 DEF ReviewEvent, IInv, TypeOK
<1>3. findings' = findings /\ said' = said /\ run' = run
  BY DEF ReviewEvent
<1> QED  BY <1>2, <1>3, OutsideStep DEF IInv

-----------------------------------------------------------------------------
(* The invariant, and what follows from it.                                 *)

\* No analysis has been persisted.
LEMMA InitIInv == Init => IInv
<1> SUFFICES ASSUME Init PROVE IInv
  OBVIOUS
<1>1. At("none", NoProc, NoResult, FALSE, {}, {}, {}) \in RunType
  BY AtType, NoResultType DEF Stages
<1>2. \A r \in Runs : run[r].pc = "none"
  BY DEF Init, At
<1>3. TypeOK
  <2>1. run \in [Runs -> RunType]
    BY <1>1 DEF Init
  <2>2. 0 \in 0..MaxRuns
    BY StoreAssumption
  <2>3. said \in [scored : SUBSET Findings, latest : [Keys -> 0..MaxRuns],
                  absent : [Keys -> BOOLEAN], quiet : [Keys -> BOOLEAN]]
    BY <2>2 DEF Init
  <2> QED  BY <2>1, <2>2, <2>3 DEF Init, TypeOK
<1>4. IdsOK /\ LocksOK /\ ReadsOK /\ ScoredIsShown
  BY <1>2 DEF Init, IdsOK, LocksOK, ReadsOK, ScoredIsShown, InTransaction
<1> QED  BY <1>3, <1>4 DEF IInv

\* Every step preserves the invariant, and every reviewed row.
LEMMA NextIInv ==
    ASSUME IInv, [Next]_vars
    PROVE  /\ IInv'
           /\ \A x \in findings : x.manual => \E y \in findings' : Id(y) = Id(x) /\ y.manual
<1>0. ASSUME findings' = findings
      PROVE  \A x \in findings : x.manual => \E y \in findings' : Id(y) = Id(x) /\ y.manual
  BY <1>0
<1>1. ASSUME NEW r \in Runs, NEW p \in Procs, NEW x \in Results, Submit(r, p, x)
      PROVE  IInv' /\ findings' = findings
  BY <1>1, SubmitStep DEF Submit, rows
<1>2. ASSUME NEW r \in Runs, Write(r)
      PROVE  /\ IInv'
             /\ \/ findings' = findings
                \/ \E last \in [Keys -> Findings] : ReplaceFindings(r, last)
  <2>1. CASE ReadToken(r) \/ WriteToken(r)
    BY <2>1, TokenStep DEF ReadToken, WriteToken, rows
  <2>2. CASE ReadReviewed(r)
    BY <2>2, ReadReviewedStep DEF ReadReviewed, rows
  <2>3. CASE BeginDelete(r) \/ FinishDelete(r)
    BY <2>3, DeleteStep DEF BeginDelete, FinishDelete, rows
  <2>4. CASE \E last \in [Keys -> Findings] : ReplaceFindings(r, last)
    BY <2>4, ReplaceFindingsStep
  <2>5. CASE \/ Replace(r, "holders", "pools") \/ Replace(r, "pools", "events")
             \/ Replace(r, "links", "record") \/ RecordRun(r) \/ WriteVerdict(r)
    BY <2>5, ChildStep DEF Replace, RecordRun, WriteVerdict
  <2>6. CASE ReadEvents(r) \/ WriteEvents(r)
    BY <2>6, EventsStep DEF ReadEvents, WriteEvents, rows
  <2> QED  BY <1>2, <2>1, <2>2, <2>3, <2>4, <2>5, <2>6 DEF Write
<1>3. ASSUME (\E r \in Runs : Fail(r)) \/ (\E p \in Procs : Kill(p))
      PROVE  IInv' /\ findings' = findings
  BY <1>3, FaultStep DEF Fail, Kill, rows
<1>4. ASSUME NEW e \in events, NEW s \in Statuses, ReviewEvent(e, s)
      PROVE  IInv' /\ findings' = findings
  BY <1>4, ReviewEventStep DEF ReviewEvent
<1>5. CASE UNCHANGED vars
  <2>1. findings' = findings /\ run' = run /\ said' = said
    BY <1>5 DEF vars, rows
  <2>2. TypeOK'
    BY <1>5 DEF vars, rows, IInv, TypeOK
  <2> QED  BY <1>0, <2>1, <2>2, OutsideStep DEF IInv
<1> QED  BY <1>0, <1>1, <1>2, <1>3, <1>4, <1>5, ReplaceFindingsStep, OverrideStep DEF Next

\* The tables hold what they should, the rows of findings are told apart, and
\* what a transaction has read or locked is still so.
THEOREM StoreInvariant == Spec => []IInv
BY InitIInv, NextIInv, PTL DEF Spec

\* Every variable keeps its type: in particular a risk event is pending,
\* confirmed or rejected, whatever wrote it.
THEOREM TypeCorrect == Spec => []TypeOK
<1>1. IInv => TypeOK
  BY DEF IInv
<1> QED  BY <1>1, StoreInvariant, PTL

\* The findings of the last committed run are each shown by a row of their key
\* that is not retired, whatever the processes and the reviewers raced.
THEOREM ScoredShown == Spec => []ScoredIsShown
<1>1. IInv => ScoredIsShown
  BY DEF IInv
<1> QED  BY <1>1, StoreInvariant, PTL

\* No analysis, failure or race between processes removes a reviewer's
\* decision over a finding.
THEOREM DecisionsKept == Spec => DecisionsSurvive
<1>1. IInv /\ [Next]_vars =>
        [\A x \in findings : x.manual => \E y \in findings' : Id(y) = Id(x) /\ y.manual]_vars
  BY NextIInv
<1> QED  BY <1>1, StoreInvariant, PTL DEF Spec, DecisionsSurvive
-----------------------------------------------------------------------------
(* How runs move.                                                           *)

Follows ==
    [none |-> "queued", queued |-> "metadata", metadata |-> "review", review |-> "delete",
     delete |-> "lock", lock |-> "replace", replace |-> "holders", holders |-> "pools",
     pools |-> "events", events |-> "refresh", refresh |-> "links", links |-> "record",
     record |-> "verdict", verdict |-> "done"]

\* A write moves one run, to the stage that follows, in the same process.
LEMMA WriteMoves ==
    ASSUME TypeOK, NEW r \in Runs, Write(r)
    PROVE  /\ run' = [run EXCEPT ![r] = run'[r]] /\ run'[r].by = run[r].by
           /\ run[r].pc \notin {"none", "done", "failed"} /\ run'[r].pc = Follows[run[r].pc]
           /\ faults' = faults
<1>0. run \in [Runs -> RunType]
  BY DEF TypeOK
<1>1. ASSUME NEW pc \in Stages, NEW next \in Stages, run[r].pc = pc,
             pc \notin {"none", "done", "failed"}, next = Follows[pc], faults' = faults,
             \E result, known, reviewed, doomed, open : run' =
                 [run EXCEPT ![r] = At(next, run[r].by, result, known, reviewed, doomed, open)]
      PROVE  /\ run' = [run EXCEPT ![r] = run'[r]] /\ run'[r].by = run[r].by
             /\ run[r].pc \notin {"none", "done", "failed"} /\ run'[r].pc = Follows[run[r].pc]
             /\ faults' = faults
  BY <1>0, <1>1 DEF At
<1>2. ASSUME NEW pc \in Stages, NEW next \in Stages, run[r].pc = pc,
             pc \notin {"none", "done", "failed"}, next = Follows[pc], faults' = faults,
             Goes(r, next) \/ Ends(r, next)
      PROVE  /\ run' = [run EXCEPT ![r] = run'[r]] /\ run'[r].by = run[r].by
             /\ run[r].pc \notin {"none", "done", "failed"} /\ run'[r].pc = Follows[run[r].pc]
             /\ faults' = faults
  BY <1>0, <1>2 DEF Goes, Ends, At
<1>3. CASE ReadToken(r)
  BY <1>0, <1>3 DEF ReadToken, At, Follows
<1>4. CASE ReadReviewed(r)
  BY <1>0, <1>4 DEF ReadReviewed, At, Follows
<1>5. CASE BeginDelete(r)
  BY <1>0, <1>5 DEF BeginDelete, At, Follows
<1>6. CASE FinishDelete(r)
  BY <1>0, <1>6 DEF FinishDelete, At, Follows
<1>7. CASE ReadEvents(r)
  BY <1>0, <1>7 DEF ReadEvents, At, Follows
<1>8. CASE WriteEvents(r)
  BY <1>0, <1>8 DEF WriteEvents, At, Follows
<1>9. CASE WriteToken(r)
  BY <1>2, <1>9 DEF WriteToken, Follows, Stages
<1>10. ASSUME NEW last \in [Keys -> Findings], ReplaceFindings(r, last)
       PROVE  run[r].pc = "replace" /\ Goes(r, "holders") /\ faults' = faults
  BY <1>10 DEF ReplaceFindings
<1>11. CASE \E last \in [Keys -> Findings] : ReplaceFindings(r, last)
  BY <1>2, <1>10, <1>11 DEF Follows, Stages
<1>12. CASE \/ Replace(r, "holders", "pools") \/ Replace(r, "pools", "events")
            \/ Replace(r, "links", "record")
  BY <1>2, <1>12 DEF Replace, Follows, Stages
<1>13. CASE RecordRun(r) \/ WriteVerdict(r)
  BY <1>2, <1>13 DEF RecordRun, WriteVerdict, Follows, Stages
<1> QED  BY <1>3, <1>4, <1>5, <1>6, <1>7, <1>8, <1>9, <1>11, <1>12, <1>13 DEF Write

\* Exactly the submitted runs belong to a process.
OwnersOK == \A r \in Runs : run[r].pc = "none" <=> run[r].by = NoProc

\* What a step of the system does to a run: nothing, or it is submitted, takes a
\* step, or fails.
Submits(q) ==
    /\ \E p \in Procs, x \in Results : Submit(q, p, x)
    /\ run[q].pc = "none" /\ run'[q].pc = "queued" /\ run'[q].by \in Procs
Fails(q) ==
    /\ Writing(q) \/ Kill(run[q].by)
    /\ run[q].pc \notin {"none", "done"} /\ run'[q].pc = "failed" /\ run'[q].by = run[q].by
Moves(q) ==
    /\ Write(q) /\ run[q].pc \notin {"none", "done", "failed"}
    /\ run'[q].pc = Follows[run[q].pc] /\ run'[q].by = run[q].by

LEMMA RunSteps ==
    ASSUME TypeOK, OwnersOK, [Next]_vars, NEW q \in Runs
    PROVE  run'[q] = run[q] \/ Submits(q) \/ Fails(q) \/ Moves(q)
<1>0. run \in [Runs -> RunType] /\ run[q] \in RunType
  BY DEF TypeOK
<1>1. ASSUME NEW r \in Runs, NEW p \in Procs, NEW x \in Results, Submit(r, p, x)
      PROVE  run'[q] = run[q] \/ Submits(q)
  <2>1. CASE q = r
    <3>1. run'[q].pc = "queued" /\ run'[q].by = p
      BY <1>0, <1>1, <2>1 DEF Submit, At
    <3> QED  BY <1>1, <2>1, <3>1 DEF Submit, Submits
  <2>2. CASE q # r
    BY <1>0, <1>1, <2>2 DEF Submit
  <2> QED  BY <2>1, <2>2
<1>2. ASSUME NEW r \in Runs, Write(r) PROVE run'[q] = run[q] \/ Moves(q)
  <2>1. CASE q = r
    BY <1>2, <2>1, WriteMoves DEF Moves
  <2>2. CASE q # r
    BY <1>0, <1>2, <2>2, WriteMoves
  <2> QED  BY <2>1, <2>2
<1>3. ASSUME NEW r \in Runs, Fail(r) PROVE run'[q] = run[q] \/ Fails(q)
  BY <1>0, <1>3 DEF Fail, Ends, Writing, Fails, At
<1>4. ASSUME NEW p \in Procs, Kill(p) PROVE run'[q] = run[q] \/ Fails(q)
  <2> DEFINE dead == At("failed", p, NoResult, FALSE, {}, {}, {})
  <2>1. run'[q] = IF run[q].by = p /\ ~Ended(q) THEN dead ELSE run[q]
    BY <1>4 DEF Kill
  <2>2. dead.pc = "failed" /\ dead.by = p
    BY DEF At
  <2>3. run[q].by = p => run[q].pc # "none"
    BY StoreAssumption DEF OwnersOK
  <2> QED  BY <1>4, <2>1, <2>2, <2>3 DEF Ended, Fails
<1>5. CASE \/ \E x \in findings : Override(x)
           \/ \E e \in events, s \in Statuses : ReviewEvent(e, s)
           \/ UNCHANGED vars
  BY <1>5 DEF Override, ReviewEvent, vars
<1> QED  BY <1>1, <1>2, <1>3, <1>4, <1>5 DEF Next

-----------------------------------------------------------------------------
(* The queue.                                                               *)

\* Within a process a run starts when those submitted before it have ended.
Started(r) == run[r].pc \notin {"none", "queued"}
InOrder == \A q, r \in Runs : q < r /\ run[q].pc = "none" => run[r].pc = "none"
OneByOne == \A q, r \in Runs : q < r /\ run[q].by = run[r].by /\ Started(r) => Ended(q)

QueueOK == OwnersOK /\ InOrder /\ OneByOne

\* A run that has ended stays so.
LEMMA EndedStays ==
    ASSUME TypeOK, OwnersOK, [Next]_vars, NEW q \in Runs, Ended(q)
    PROVE  Ended(q)'
BY RunSteps DEF Ended, Submits, Fails, Moves

\* Every step keeps the queues of the processes in order.
LEMMA QueueStep ==
    ASSUME TypeOK, QueueOK, [Next]_vars
    PROVE  QueueOK'
<1>0. \A q \in Runs : run'[q] = run[q] \/ Submits(q) \/ Fails(q) \/ Moves(q)
  BY RunSteps DEF QueueOK
<1>1. \A q \in Runs : /\ run[q].pc # "none" => run'[q].pc # "none" /\ run'[q].by = run[q].by
                      /\ run[q].pc = "none" => run'[q] = run[q] \/ Submits(q)
  <2>1. \A s \in Stages \ {"none", "done", "failed"} : Follows[s] # "none"
    BY DEF Stages, Follows
  <2>2. \A q \in Runs : run[q].pc \in Stages
    BY DEF TypeOK, RunType
  <2> QED  BY <1>0, <2>1, <2>2 DEF Submits, Fails, Moves
<1>2. OwnersOK'
  BY <1>1, StoreAssumption DEF QueueOK, OwnersOK, Submits
<1>3. InOrder'
  <2> SUFFICES ASSUME NEW q \in Runs, NEW r \in Runs, q < r, run'[q].pc = "none",
                      run'[r].pc # "none"
               PROVE  FALSE
    BY DEF InOrder
  <2>1. run[q].pc = "none" /\ run[r].pc = "none"
    BY <1>1 DEF QueueOK, InOrder
  <2>2. PICK p \in Procs, x \in Results : Submit(r, p, x)
    BY <1>1, <2>1 DEF Submits
  <2> QED  BY <2>1, <2>2 DEF Submit
<1>4. OneByOne'
  <2> SUFFICES ASSUME NEW q \in Runs, NEW r \in Runs, q < r, run'[q].by = run'[r].by,
                      Started(r)'
               PROVE  Ended(q)'
    BY DEF OneByOne, Ended, Started
  <2>1. run[r].pc # "none" /\ run[q].pc # "none"
    BY <1>1 DEF Started, Submits, QueueOK, InOrder
  <2>2. run[q].by = run[r].by
    BY <1>1, <2>1
  <2>3. CASE Started(r) \/ MyTurn(r)
    BY <2>2, <2>3, EndedStays DEF QueueOK, OneByOne, MyTurn
  <2>4. CASE run[r].pc = "queued" /\ Fails(r)
    <3>1. Kill(run[r].by)
      BY <2>4 DEF Fails, Writing
    <3> QED  BY <2>2, <3>1 DEF Kill, Ended, At
  <2>5. CASE run[r].pc = "queued" /\ Moves(r)
    BY <2>3, <2>5 DEF Moves, Write, ReadToken, WriteToken, ReadReviewed, BeginDelete,
       FinishDelete, ReplaceFindings, Replace, ReadEvents, WriteEvents, RecordRun, WriteVerdict
  <2> QED  BY <1>0, <2>1, <2>3, <2>4, <2>5 DEF Started, Submits
<1> QED  BY <1>2, <1>3, <1>4 DEF QueueOK

\* "The queued tail": whatever is submitted, fails or is killed, no two writes of
\* a process overlap.
THEOREM QueueInvariant == Spec => []QueueOK
<1>1. Init => QueueOK
  BY DEF Init, At, QueueOK, OwnersOK, InOrder, OneByOne, Started
<1>2. TypeOK /\ QueueOK /\ [Next]_vars => QueueOK'
  BY QueueStep
<1> QED  BY <1>1, <1>2, TypeCorrect, PTL DEF Spec

-----------------------------------------------------------------------------
(* The risk events.                                                         *)

\* Past the transaction that writes them.
EventsWritten == {"links", "record", "verdict", "done", "failed"}

\* Events are told apart by the run that opened them and their title.
Distinct(rs) == \A e, f \in rs : SameEvent(e, f) => e = f
Writers == {r \in Runs : run[r].pc \in EventsWritten}
Opened(rs, writers) == \A e \in rs : e.born \in writers

EventIdsOK ==
    /\ Distinct(events) /\ Opened(events, Writers)
    /\ \A r \in Runs : run[r].pc = "refresh" =>
          Distinct(run[r].open) /\ Opened(run[r].open, Writers)

\* What WriteEvents makes of each row.
Seen(r, e) == \E f \in run[r].open : SameEvent(e, f)
ReadAs(r, e) == CHOOSE f \in run[r].open : SameEvent(e, f)
Rewritten(r, e) == IF Seen(r, e) THEN EventAfter(r, ReadAs(r, e), e) ELSE e
Created(r, k) == [born |-> r, title |-> k, status |-> CreatedStatus, resolved |-> FALSE,
                  proof |-> r]

LEMMA EventsRewritten ==
    ASSUME NEW r \in Runs, WriteEvents(r)
    PROVE  events' = {Rewritten(r, e) : e \in events} \union {Created(r, k) : k \in NewTitles(r)}
<1> DEFINE read == {e \in events : Seen(r, e)}
<1>1. events' = (events \ read) \union {EventAfter(r, ReadAs(r, e), e) : e \in read}
                  \union {Created(r, k) : k \in NewTitles(r)}
  BY DEF WriteEvents, Seen, ReadAs, Created
<1>2. (events \ read) \union {EventAfter(r, ReadAs(r, e), e) : e \in read}
        = {Rewritten(r, e) : e \in events}
  BY DEF Rewritten
<1> QED  BY <1>1, <1>2

\* A rewritten row keeps its identity and its status, and its proof if the run
\* had read it as reviewed.
LEMMA RewrittenRow ==
    ASSUME TypeOK, NEW r \in Runs, NEW e \in events
    PROVE  /\ SameEvent(Rewritten(r, e), e) /\ Rewritten(r, e).status = e.status
           /\ Rewritten(r, e).proof = e.proof \/ (Seen(r, e) /\ ~Reviewed(ReadAs(r, e)))
           /\ Seen(r, e) => ReadAs(r, e) \in run[r].open /\ SameEvent(e, ReadAs(r, e))
<1>0. e \in EventType
  BY DEF TypeOK
<1>1. Seen(r, e) => ReadAs(r, e) \in run[r].open /\ SameEvent(e, ReadAs(r, e))
  BY DEF Seen, ReadAs
<1>2. /\ SameEvent(Rewritten(r, e), e) /\ Rewritten(r, e).status = e.status
      /\ Rewritten(r, e).proof = e.proof \/ (Seen(r, e) /\ ~Reviewed(ReadAs(r, e)))
  <2> DEFINE f == ReadAs(r, e)
  <2> HIDE DEF f
  <2>1. LET n == EventAfter(r, f, e)
        IN  SameEvent(n, e) /\ n.status = e.status /\ (n.proof = e.proof \/ ~Reviewed(f))
    BY <1>0 DEF EventAfter, EventType, SameEvent
  <2> QED  BY <2>1 DEF Rewritten, SameEvent, f
<1> QED  BY <1>1, <1>2

\* Events are written by one run, reviewed, or left alone.
LEMMA EventsDisturbed ==
    ASSUME [Next]_vars
    PROVE  \/ \E r \in Runs : WriteEvents(r)
           \/ \E e \in events, s \in Statuses : ReviewEvent(e, s)
           \/ events' = events /\ said'.quiet = said.quiet
<1>1. ASSUME NEW r \in Runs, NEW last \in [Keys -> Findings], ReplaceFindings(r, last)
      PROVE  events' = events /\ said'.quiet = said.quiet
  BY <1>1 DEF ReplaceFindings
<1>2. ASSUME NEW r \in Runs, Write(r), ~WriteEvents(r)
      PROVE  events' = events /\ said'.quiet = said.quiet
  BY <1>1, <1>2 DEF Write, ReadToken, WriteToken, ReadReviewed, BeginDelete, FinishDelete,
     Replace, ReadEvents, RecordRun, WriteVerdict, rows
<1> QED  BY <1>2 DEF Next, Submit, Fail, Kill, Override, vars, rows

\* A run about to write the events has just read them, or did so before.
LEMMA OpenRows ==
    ASSUME TypeOK, OwnersOK, [Next]_vars, NEW q \in Runs, run'[q].pc = "refresh"
    PROVE  run'[q] = run[q] \/ (run'[q].open = events /\ events' = events)
<1>0. run[q].pc \in Stages /\ run \in [Runs -> RunType]
  BY DEF TypeOK, RunType
<1>1. CASE Moves(q)
  <2>1. run[q].pc = "events"
    BY <1>0, <1>1 DEF Moves, Follows, Stages
  <2>2. ReadEvents(q)
    BY <1>1, <2>1 DEF Moves, Write, ReadToken, WriteToken, ReadReviewed, BeginDelete,
       FinishDelete, ReplaceFindings, Replace, ReadEvents, WriteEvents, RecordRun, WriteVerdict
  <2> QED  BY <1>0, <2>2 DEF ReadEvents, rows, At
<1> QED  BY <1>1, RunSteps DEF Submits, Fails

\* A run that has written its events stays past them.
LEMMA WrittenStays ==
    ASSUME TypeOK, OwnersOK, [Next]_vars, NEW q \in Runs, run[q].pc \in EventsWritten
    PROVE  run'[q].pc \in EventsWritten
BY RunSteps DEF Submits, Fails, Moves, Follows, EventsWritten

\* So the set of them only grows.
LEMMA WritersGrow ==
    ASSUME TypeOK, OwnersOK, [Next]_vars
    PROVE  Writers \subseteq Writers'
BY WrittenStays DEF Writers

\* Every step keeps the events told apart.
LEMMA EventIdsStep ==
    ASSUME TypeOK, OwnersOK, EventIdsOK, [Next]_vars
    PROVE  EventIdsOK'
<1>0. events \subseteq EventType /\ \A e \in EventType : e.born \in Runs
  BY DEF TypeOK, EventType
<1>1. ASSUME NEW rs, Opened(rs, Writers) PROVE Opened(rs, Writers')
  BY <1>1, WritersGrow DEF Opened
<1>2. Distinct(events') /\ Opened(events', Writers')
  <2>1. ASSUME NEW r \in Runs, WriteEvents(r) PROVE Distinct(events') /\ Opened(events', Writers')
    <3>1. events' = {Rewritten(r, e) : e \in events} \union {Created(r, k) : k \in NewTitles(r)}
      BY <2>1, EventsRewritten
    <3>2. run[r].pc = "refresh" /\ run'[r].pc \in EventsWritten
      <4>1. run[r].pc = "refresh"
        BY <2>1 DEF WriteEvents
      <4>2. Write(r)
        BY <2>1 DEF Write
      <4> QED  BY <4>1, <4>2, WriteMoves DEF Follows, EventsWritten
    <3>3. \A e \in events : e.born # r /\ SameEvent(Rewritten(r, e), e)
      BY <1>0, <3>2, RewrittenRow DEF EventIdsOK, Opened, Writers, EventsWritten
    <3>4. ASSUME NEW e \in events', NEW f \in events', SameEvent(e, f) PROVE e = f
      <4>1. CASE \E d, g \in events : e = Rewritten(r, d) /\ f = Rewritten(r, g)
        BY <3>3, <3>4, <4>1 DEF EventIdsOK, Distinct, SameEvent
      <4>2. CASE \E d \in events, k \in NewTitles(r) :
                   \/ e = Rewritten(r, d) /\ f = Created(r, k)
                   \/ f = Rewritten(r, d) /\ e = Created(r, k)
        BY <3>3, <3>4, <4>2 DEF SameEvent, Created
      <4>3. CASE \E k, l \in NewTitles(r) : e = Created(r, k) /\ f = Created(r, l)
        BY <3>4, <4>3 DEF SameEvent, Created
      <4> QED  BY <3>1, <3>4, <4>1, <4>2, <4>3
    <3>5. \A e \in events' : e.born = r \/ \E d \in events : e.born = d.born
      BY <3>1, <3>3 DEF SameEvent, Created
    <3>6. r \in Writers' /\ \A d \in events : d.born \in Writers'
      BY <1>1, <3>2 DEF Opened, EventIdsOK, Writers
    <3> QED  BY <3>4, <3>5, <3>6 DEF Distinct, Opened
  <2>2. ASSUME NEW e \in events, NEW s \in Statuses, ReviewEvent(e, s)
        PROVE  Distinct(events') /\ Opened(events', Writers')
    <3> DEFINE new == [e EXCEPT !.status = s]
    <3>1. SameEvent(new, e)
      BY <1>0 DEF EventType, SameEvent
    <3> HIDE DEF new
    <3>2. events' = (events \ {e}) \union {new}
      BY <2>2 DEF ReviewEvent, new
    <3>3. Opened(events, Writers')
      BY <1>1 DEF EventIdsOK
    <3> QED  BY <3>1, <3>2, <3>3 DEF EventIdsOK, Distinct, Opened, SameEvent
  <2>3. CASE events' = events
    BY <1>1, <2>3 DEF EventIdsOK
  <2> QED  BY <2>1, <2>2, <2>3, EventsDisturbed
<1>3. ASSUME NEW q \in Runs, run'[q].pc = "refresh"
      PROVE  Distinct(run'[q].open) /\ Opened(run'[q].open, Writers')
  <2>1. CASE run'[q] = run[q]
    BY <1>1, <1>3, <2>1 DEF EventIdsOK
  <2>2. CASE run'[q].open = events /\ events' = events
    BY <1>2, <2>2
  <2> QED  BY <1>3, <2>1, <2>2, OpenRows
<1> QED  BY <1>2, <1>3 DEF EventIdsOK, Distinct, SameEvent

\* No risk event is opened twice, whatever processes race.
THEOREM EventsDistinct == Spec => []EventIdsOK
<1>1. Init => EventIdsOK
  BY DEF Init, At, EventIdsOK, Distinct, Opened
<1>2. TypeOK /\ QueueOK /\ EventIdsOK /\ [Next]_vars => EventIdsOK'
  BY EventIdsStep DEF QueueOK
<1> QED  BY <1>1, <1>2, TypeCorrect, QueueInvariant, PTL DEF Spec

\* A reviewer does not act between the read of the events and their write.
NoReviewInRefresh == "refresh" \notin AdminPoints

\* What a run has read as reviewed is reviewed, and the converse.
StatusOK ==
    \A r \in Runs : run[r].pc = "refresh" =>
        \A e \in events, f \in run[r].open : SameEvent(e, f) => e.status = f.status

\* Every step keeps it so.
LEMMA StatusStep ==
    ASSUME NoReviewInRefresh, TypeOK, OwnersOK, EventIdsOK, StatusOK, [Next]_vars
    PROVE  StatusOK'
<1> SUFFICES ASSUME NEW q \in Runs, run'[q].pc = "refresh", NEW e \in events',
                    NEW f \in run'[q].open, SameEvent(e, f)
             PROVE  e.status = f.status
  BY DEF StatusOK, SameEvent
<1>1. CASE run'[q].open = events /\ events' = events
  BY <1>1 DEF EventIdsOK, Distinct
<1>2. ASSUME run'[q] = run[q], NEW r \in Runs, WriteEvents(r) PROVE e.status = f.status
  <2>1. events' = {Rewritten(r, d) : d \in events} \union {Created(r, k) : k \in NewTitles(r)}
    BY <1>2, EventsRewritten
  <2>2. CASE \E d \in events : e = Rewritten(r, d)
    <3>1. PICK d \in events : e = Rewritten(r, d)
      BY <2>2
    <3>2. SameEvent(d, f) /\ e.status = d.status
      BY <3>1, RewrittenRow DEF SameEvent
    <3> QED  BY <1>2, <3>2 DEF StatusOK
  <2>3. CASE \E k \in NewTitles(r) : e = Created(r, k)
    <3>1. f.born = r
      BY <2>3 DEF SameEvent, Created
    <3>2. r \in Writers
      BY <1>2, <3>1 DEF EventIdsOK, Opened
    <3> QED  BY <1>2, <3>2 DEF WriteEvents, Writers, EventsWritten
  <2> QED  BY <2>1, <2>2, <2>3
<1>3. ASSUME run'[q] = run[q], NEW d \in events, NEW s \in Statuses, ReviewEvent(d, s)
      PROVE  FALSE
  BY <1>3 DEF ReviewEvent, MayReview, NoReviewInRefresh
<1>4. CASE run'[q] = run[q] /\ events' = events
  BY <1>4 DEF StatusOK
<1> QED  BY <1>1, <1>2, <1>3, <1>4, OpenRows, EventsDisturbed

\* "Rewriting the detail or evidence underneath a reviewer's decision": among any
\* processes, no step changes the proof of a reviewed event, as long as reviewers
\* do not act inside the events transaction.
THEOREM ReviewStands ==
    ASSUME NoReviewInRefresh
    PROVE  Spec => ReviewStandsOnItsProof
<1>1. Init => StatusOK
  BY DEF Init, StatusOK, At
<1>2. TypeOK /\ QueueOK /\ EventIdsOK /\ StatusOK /\ [Next]_vars => StatusOK'
  BY StatusStep DEF QueueOK
<1>3. TypeOK /\ StatusOK /\ [Next]_vars =>
        [\A e \in events : Reviewed(e) =>
            \E f \in events' : SameEvent(e, f) /\ f.proof = e.proof]_vars
  <2> SUFFICES ASSUME TypeOK, StatusOK, [Next]_vars, NEW e \in events, Reviewed(e)
               PROVE  \E f \in events' : SameEvent(e, f) /\ f.proof = e.proof
    OBVIOUS
  <2>1. ASSUME NEW r \in Runs, WriteEvents(r)
        PROVE  \E f \in events' : SameEvent(e, f) /\ f.proof = e.proof
    <3>1. Rewritten(r, e) \in events'
      BY <2>1, EventsRewritten
    <3>2. Seen(r, e) => Reviewed(ReadAs(r, e))
      BY <2>1, RewrittenRow DEF StatusOK, WriteEvents, Reviewed
    <3> QED  BY <3>1, <3>2, RewrittenRow DEF SameEvent
  <2>2. ASSUME NEW d \in events, NEW s \in Statuses, ReviewEvent(d, s)
        PROVE  \E f \in events' : SameEvent(e, f) /\ f.proof = e.proof
    <3>1. d \in EventType
      BY DEF TypeOK
    <3>2. SameEvent(d, [d EXCEPT !.status = s]) /\ [d EXCEPT !.status = s].proof = d.proof
      BY <3>1 DEF EventType, SameEvent
    <3> QED  BY <2>2, <3>2 DEF ReviewEvent, SameEvent
  <2>3. CASE events' = events
    BY <2>3 DEF SameEvent
  <2> QED  BY <2>1, <2>2, <2>3, EventsDisturbed
<1> QED  BY <1>1, <1>2, <1>3, TypeCorrect, QueueInvariant, EventsDistinct, PTL
         DEF Spec, ReviewStandsOnItsProof

-----------------------------------------------------------------------------
(* Writes that do not overlap.                                              *)

\* No two runs are being written.
Serial == \A q, r \in Runs : Writing(q) /\ Writing(r) => q = r

\* One process persists results.
OneProcess == \A p, q \in Procs : p = q

\* The queue of one process serializes its writes.
THEOREM QueueSerializes ==
    ASSUME OneProcess
    PROVE  Spec => []Serial
<1>1. TypeOK /\ QueueOK => Serial
  <2> SUFFICES ASSUME TypeOK, QueueOK, NEW q \in Runs, NEW r \in Runs, Writing(q), Writing(r),
                      q < r
               PROVE  FALSE
    BY DEF Serial, Runs
  <2>1. run[q].by \in Procs /\ run[r].by \in Procs
    BY DEF Writing, QueueOK, OwnersOK, TypeOK, RunType
  <2>2. Ended(q)
    BY <2>1 DEF OneProcess, QueueOK, OneByOne, Started, Writing
  <2> QED  BY <2>2 DEF Ended, Writing
<1> QED  BY <1>1, TypeCorrect, QueueInvariant, PTL

\* A stage between reading the token and stamping it is one of a run being
\* written.
LEMMA MidWrite ==
    ASSUME NEW q \in Runs, run[q].pc \in {"metadata", "refresh"} \union InTransaction
    PROVE  Writing(q)
BY DEF Writing, InTransaction

\* The token's metadata is what the run read, until it writes it.
KnownOK == \A r \in Runs : run[r].pc = "metadata" => run[r].known = meta

\* What holds of the metadata is kept by every step, and so is the metadata.
LEMMA KnownStep ==
    ASSUME TypeOK, OwnersOK, Serial, KnownOK, [Next]_vars
    PROVE  KnownOK' /\ (meta => meta')
<1>0. run \in [Runs -> RunType]
  BY DEF TypeOK
<1>1. ASSUME ~ \E r \in Runs : WriteToken(r) PROVE meta' = meta
  <2>1. ASSUME NEW r \in Runs, NEW last \in [Keys -> Findings], ReplaceFindings(r, last)
        PROVE  meta' = meta
    BY <2>1 DEF ReplaceFindings
  <2>2. ASSUME NEW r \in Runs, Write(r) PROVE meta' = meta
    BY <1>1, <2>1, <2>2 DEF Write, ReadToken, ReadReviewed, BeginDelete, FinishDelete,
       Replace, ReadEvents, WriteEvents, RecordRun, WriteVerdict, rows
  <2> QED  BY <2>2 DEF Next, Submit, Fail, Kill, Override, ReviewEvent, vars, rows
<1>2. ASSUME NEW r \in Runs, WriteToken(r) PROVE meta => meta'
  BY <1>2 DEF WriteToken, Carried, KnownOK
<1>3. ASSUME NEW q \in Runs, run'[q].pc = "metadata" PROVE run'[q].known = meta'
  <2>1. CASE run'[q] = run[q]
    <3>1. Writing(q)
      BY <1>3, <2>1, MidWrite
    <3>2. ASSUME NEW r \in Runs, WriteToken(r) PROVE FALSE
      <4>1. Writing(r) /\ Write(r) /\ run[r].pc = "metadata"
        BY <3>2, MidWrite DEF WriteToken, Write
      <4>2. run'[r].pc = "review"
        BY <4>1, WriteMoves DEF Follows
      <4> QED  BY <1>3, <3>1, <4>1, <4>2 DEF Serial
    <3> QED  BY <1>1, <1>3, <2>1, <3>2 DEF KnownOK
  <2>2. CASE Moves(q)
    <3>1. run[q].pc = "queued"
      BY <1>0, <1>3, <2>2 DEF Moves, Follows, Stages, RunType
    <3>2. ReadToken(q)
      BY <2>2, <3>1 DEF Moves, Write, ReadToken, WriteToken, ReadReviewed, BeginDelete,
         FinishDelete, ReplaceFindings, Replace, ReadEvents, WriteEvents, RecordRun, WriteVerdict
    <3> QED  BY <1>0, <3>2 DEF ReadToken, rows, At
  <2> QED  BY <1>3, <2>1, <2>2, RunSteps DEF Submits, Fails
<1> QED  BY <1>1, <1>2, <1>3 DEF KnownOK

\* "Never wipe known metadata": if writes do not overlap, a token whose metadata
\* is known keeps it, whatever later probes return.
THEOREM MetadataKeptSerially == Spec /\ []Serial => MetadataKept
<1>1. Init => KnownOK
  BY DEF Init, At, KnownOK
<1>2. TypeOK /\ QueueOK /\ Serial /\ KnownOK /\ [Next]_vars => KnownOK' /\ [meta => meta']_vars
  BY KnownStep DEF QueueOK
<1> QED  BY <1>1, <1>2, TypeCorrect, QueueInvariant, PTL DEF Spec, MetadataKept

\* What a run has read of the events is what they are, but for reviews.
Titles(rs) == \A e, f \in rs : e.title = f.title => e = f
OpenOK ==
    \A r \in Runs : run[r].pc = "refresh" =>
        /\ Titles(run[r].open)
        /\ \A e \in events : \E f \in run[r].open : SameEvent(e, f) /\ e.resolved = f.resolved

TitlesOK == Titles(events) /\ ResolvedOnEvidence /\ OpenOK

\* The events transaction opens one row of a title and resolves on evidence.
LEMMA WriteEventsTitles ==
    ASSUME TypeOK, TitlesOK, NEW r \in Runs, WriteEvents(r)
    PROVE  Titles(events') /\ ResolvedOnEvidence'
<1> DEFINE open == run[r].open
<1>0. /\ run[r].pc = "refresh" /\ open \subseteq EventType /\ events \subseteq EventType
      /\ Titles(open)
      /\ \A e \in events : \E f \in open : SameEvent(e, f) /\ e.resolved = f.resolved
  BY DEF WriteEvents, TypeOK, RunType, TitlesOK, OpenOK
<1>1. events' = {Rewritten(r, e) : e \in events} \union {Created(r, k) : k \in NewTitles(r)}
  BY EventsRewritten
<1>2. \A e \in events : /\ Rewritten(r, e).title = e.title /\ e.title \notin NewTitles(r)
                        /\ Seen(r, e) /\ ReadAs(r, e) \in open
                        /\ SameEvent(e, ReadAs(r, e)) /\ ReadAs(r, e).resolved = e.resolved
  BY <1>0, RewrittenRow DEF NewTitles, SameEvent, Seen, Titles
<1>3. Titles(events')
  <2> SUFFICES ASSUME NEW e \in events', NEW f \in events', e.title = f.title PROVE e = f
    BY DEF Titles
  <2>1. CASE \E c, d \in events : e = Rewritten(r, c) /\ f = Rewritten(r, d)
    BY <1>2, <2>1 DEF TitlesOK, Titles
  <2>2. CASE \E c \in events, k \in NewTitles(r) :
               \/ e = Rewritten(r, c) /\ f = Created(r, k)
               \/ f = Rewritten(r, c) /\ e = Created(r, k)
    BY <1>2, <2>2 DEF Created
  <2>3. CASE \E k, l \in NewTitles(r) : e = Created(r, k) /\ f = Created(r, l)
    BY <2>3 DEF Created
  <2> QED  BY <1>1, <2>1, <2>2, <2>3
<1>4. said'.quiet = [k \in Keys |-> k \notin LoudKeys(r)
                       /\ (said.quiet[k] \/ CategoryOf[k] \in run[r].result.complete)]
  BY DEF WriteEvents, TypeOK
<1>5. ASSUME NEW e \in events, Rewritten(r, e).resolved PROVE said'.quiet[e.title]
  <2> DEFINE f == ReadAs(r, e)
  <2>1. /\ e \in EventType /\ f \in open /\ f.title = e.title /\ f.resolved = e.resolved
        /\ f \in EventType
    BY <1>0, <1>2 DEF SameEvent
  <2>2. Rewritten(r, e) = EventAfter(r, f, e)
    BY <1>2 DEF Rewritten
  <2> HIDE DEF f
  <2>3. Oldest(f, open)
    BY <1>0, <2>1 DEF Oldest, Titles, EventType, Runs
  <2>4. e.title \notin LoudKeys(r)
    BY <1>5, <2>1, <2>2, <2>3 DEF EventAfter, EventType
  <2>5. EventAfter(r, f, e) = [e EXCEPT !.resolved = @ \/ (~f.resolved /\ AllRead(r, f.title))]
    BY <2>1, <2>4 DEF EventAfter
  <2>6. e.resolved \/ AllRead(r, e.title)
    BY <1>5, <2>1, <2>2, <2>5 DEF EventType
  <2>7. e.title \in Keys /\ CategoryOf[e.title] \in Categories
    BY <2>1, StoreAssumption DEF EventType
  <2> QED  BY <1>4, <2>4, <2>6, <2>7 DEF AllRead, TitlesOK, ResolvedOnEvidence
<1>6. ResolvedOnEvidence'
  BY <1>1, <1>2, <1>5 DEF ResolvedOnEvidence, Created
<1> QED  BY <1>3, <1>6

\* Every step keeps what holds of the titles.
LEMMA TitlesStep ==
    ASSUME TypeOK, OwnersOK, Serial, TitlesOK, [Next]_vars
    PROVE  TitlesOK'
<1>0. run \in [Runs -> RunType] /\ events \subseteq EventType
  BY DEF TypeOK
<1>1. ASSUME NEW r \in Runs, WriteEvents(r) PROVE TitlesOK'
  <2>1. ASSUME NEW q \in Runs PROVE run'[q].pc # "refresh"
    <3>1. run[r].pc = "refresh" /\ Write(r)
      <4>1. run[r].pc = "refresh"
        BY <1>1 DEF WriteEvents
      <4> QED  BY <1>1, <4>1 DEF Write
    <3>2. run'[r].pc = "links" /\ (q # r => run'[q] = run[q])
      BY <1>0, <3>1, WriteMoves DEF Follows
    <3> QED  BY <3>1, <3>2, MidWrite DEF Serial
  <2> QED  BY <1>1, <2>1, WriteEventsTitles DEF TitlesOK, OpenOK, Titles
<1>2. ASSUME NEW d \in events, NEW s \in Statuses, ReviewEvent(d, s) PROVE TitlesOK'
  <2> DEFINE new == [d EXCEPT !.status = s]
  <2>1. SameEvent(new, d) /\ new.title = d.title /\ new.resolved = d.resolved
    BY <1>0 DEF EventType, SameEvent
  <2> HIDE DEF new
  <2>2. events' = (events \ {d}) \union {new} /\ run' = run /\ said' = said
    BY <1>2 DEF ReviewEvent, new
  <2>3. \A e \in events' : \E c \in events : /\ SameEvent(e, c) /\ e.title = c.title
                                             /\ e.resolved = c.resolved
    BY <2>1, <2>2 DEF SameEvent
  <2>4. Titles(events')
    BY <2>1, <2>2 DEF TitlesOK, Titles
  <2>5. ResolvedOnEvidence'
    BY <2>2, <2>3 DEF TitlesOK, ResolvedOnEvidence
  <2>6. OpenOK'
    BY <2>2, <2>3 DEF TitlesOK, OpenOK, SameEvent, Titles
  <2> QED  BY <2>4, <2>5, <2>6 DEF TitlesOK, Titles
<1>3. CASE events' = events /\ said'.quiet = said.quiet
  <2>1. ASSUME NEW q \in Runs, run'[q].pc = "refresh"
        PROVE  /\ Titles(run'[q].open)
               /\ \A e \in events : \E f \in run'[q].open : SameEvent(e, f)
                                                              /\ e.resolved = f.resolved
    BY <2>1, OpenRows DEF TitlesOK, OpenOK, SameEvent
  <2> QED  BY <1>3, <2>1 DEF TitlesOK, OpenOK, ResolvedOnEvidence, Titles, SameEvent
<1> QED  BY <1>1, <1>2, <1>3, EventsDisturbed

\* What holds of the titles does so for ever, if writes do not overlap.
THEOREM TitlesSerially == Spec /\ []Serial => []TitlesOK
<1>1. Init => TitlesOK
  BY DEF Init, At, TitlesOK, Titles, ResolvedOnEvidence, OpenOK
<1>2. TypeOK /\ QueueOK /\ Serial /\ TitlesOK /\ [Next]_vars => TitlesOK'
  BY TitlesStep DEF QueueOK
<1> QED  BY <1>1, <1>2, TypeCorrect, QueueInvariant, PTL DEF Spec

\* "The feed keeps one row per distinct finding", if writes do not overlap.
THEOREM OneEventSerially == Spec /\ []Serial => []OneEventPerTitle
<1>1. TitlesOK => OneEventPerTitle
  BY DEF TitlesOK, Titles, OneEventPerTitle
<1> QED  BY <1>1, TitlesSerially, PTL

\* "Closing an event" takes a run that could tell, if writes do not overlap.
THEOREM ResolvedSerially == Spec /\ []Serial => []ResolvedOnEvidence
<1>1. TitlesOK => ResolvedOnEvidence
  BY DEF TitlesOK
<1> QED  BY <1>1, TitlesSerially, PTL

\* A reviewer does not override inside the findings transaction.
NoOverrideInTransaction == AdminPoints \cap InTransaction = {}

\* What the transaction has read and deleted is all there is.
ReviewedIds == {Id(x) : x \in {y \in findings : y.manual}}
DeletableIds == {Id(x) : x \in {y \in findings : Deletable(y)}}
TransactionOK ==
    \A r \in Runs :
        /\ run[r].pc \in InTransaction => run[r].reviewed = ReviewedIds
        /\ run[r].pc \in {"lock", "replace"} => run[r].doomed = DeletableIds

\* So every row, reviewed or not, is current.
RowsCurrent ==
    \A x \in findings : x.seen = said.latest[Key(x)] /\ (x.retired <=> said.absent[Key(x)])

\* Findings are replaced by one run, overridden, or left alone.
LEMMA FindingsDisturbed ==
    ASSUME TypeOK, [Next]_vars
    PROVE  \/ \E r \in Runs, last \in [Keys -> Findings] : ReplaceFindings(r, last)
           \/ \E x \in findings : Override(x)
           \/ findings' = findings /\ said'.latest = said.latest /\ said'.absent = said.absent
<1>1. ASSUME NEW r \in Runs, WriteEvents(r)
      PROVE  findings' = findings /\ said'.latest = said.latest /\ said'.absent = said.absent
  BY <1>1 DEF WriteEvents, TypeOK
<1>2. ASSUME NEW r \in Runs, Write(r),
             ~ \E last \in [Keys -> Findings] : ReplaceFindings(r, last)
      PROVE  findings' = findings /\ said'.latest = said.latest /\ said'.absent = said.absent
  BY <1>1, <1>2 DEF Write, ReadToken, WriteToken, ReadReviewed, BeginDelete, FinishDelete,
     Replace, ReadEvents, RecordRun, WriteVerdict, rows
<1> QED  BY <1>2 DEF Next, Submit, Fail, Kill, ReviewEvent, vars, rows

\* The reads and the deletion of a transaction see every row, if no other
\* transaction and no reviewer comes between.
LEMMA TransactionStep ==
    ASSUME NoOverrideInTransaction, TypeOK, OwnersOK, Serial, TransactionOK, [Next]_vars
    PROVE  TransactionOK'
<1>0. run \in [Runs -> RunType]
  BY DEF TypeOK
<1> SUFFICES ASSUME NEW q \in Runs, run'[q].pc \in InTransaction
             PROVE  /\ run'[q].reviewed = ReviewedIds'
                    /\ run'[q].pc \in {"lock", "replace"} => run'[q].doomed = DeletableIds'
  BY DEF TransactionOK, InTransaction
<1>1. CASE run'[q] = run[q]
  <2>1. ASSUME NEW r \in Runs, NEW last \in [Keys -> Findings], ReplaceFindings(r, last)
        PROVE  FALSE
    <3>1. run[r].pc = "replace"
      BY <2>1 DEF ReplaceFindings
    <3>2. run'[r].pc = "holders"
      BY <2>1, GoesType DEF ReplaceFindings, Stages
    <3> QED  BY <1>1, <3>1, <3>2, MidWrite DEF Serial, InTransaction
  <2>2. ASSUME NEW x \in findings, Override(x) PROVE FALSE
    BY <1>1, <2>2 DEF Override, MayReview, NoOverrideInTransaction
  <2>3. CASE findings' = findings
    <3>1. ReviewedIds' = ReviewedIds /\ DeletableIds' = DeletableIds
      BY <2>3 DEF ReviewedIds, DeletableIds, Id, Deletable
    <3> QED  BY <1>1, <3>1 DEF TransactionOK
  <2> QED  BY <2>1, <2>2, <2>3, FindingsDisturbed
<1>2. CASE Moves(q)
  <2>1. run[q].pc \in {"review", "delete", "lock"}
    BY <1>0, <1>2 DEF Moves, Follows, Stages, RunType, InTransaction
  <2>2. ReadReviewed(q) \/ BeginDelete(q) \/ FinishDelete(q)
    BY <1>2, <2>1 DEF Moves, Write, ReadToken, WriteToken, ReadReviewed, BeginDelete,
       FinishDelete, ReplaceFindings, Replace, ReadEvents, WriteEvents, RecordRun, WriteVerdict
  <2>3. findings' = findings
    BY <2>2 DEF ReadReviewed, BeginDelete, FinishDelete, rows
  <2>4. ReviewedIds' = ReviewedIds /\ DeletableIds' = DeletableIds
    BY <2>3 DEF ReviewedIds, DeletableIds, Id, Deletable
  <2>5. CASE ReadReviewed(q)
    BY <1>0, <2>4, <2>5 DEF ReadReviewed, At, ReviewedIds
  <2>6. CASE BeginDelete(q)
    BY <1>0, <2>4, <2>6 DEF BeginDelete, At, DeletableIds, TransactionOK, InTransaction
  <2>7. CASE FinishDelete(q)
    <3>1. run[q].doomed = DeletableIds /\ run[q].reviewed = ReviewedIds
      BY <2>7 DEF FinishDelete, TransactionOK, InTransaction
    <3>2. {Id(x) : x \in {y \in findings : Deletable(y) /\ Id(y) \in run[q].doomed}}
            = DeletableIds
      BY <3>1 DEF DeletableIds
    <3> QED  BY <1>0, <2>4, <2>7, <3>1, <3>2 DEF FinishDelete, At
  <2> QED  BY <2>2, <2>5, <2>6, <2>7
<1> QED  BY <1>1, <1>2, RunSteps DEF Submits, Fails, InTransaction

\* Replacing the findings leaves every row current.
LEMMA ReplaceFindingsCurrent ==
    ASSUME TypeOK, TransactionOK, RowsCurrent, NEW r \in Runs, NEW last \in [Keys -> Findings],
           ReplaceFindings(r, last)
    PROVE  RowsCurrent'
<1> DEFINE kept == {y \in findings : Id(y) \notin run[r].doomed}
           created(f) == [born |-> r, for |-> f, shows |-> f, seen |-> r, manual |-> FALSE,
                          retired |-> FALSE]
<1>0. /\ run[r].pc = "replace" /\ findings \subseteq RowType
      /\ run[r].reviewed = ReviewedIds /\ run[r].doomed = DeletableIds
      /\ run[r].result \in ResultType
  BY DEF ReplaceFindings, TypeOK, TransactionOK, InTransaction, RunType
<1>1. findings' = {Refreshed(x, r, last) : x \in kept} \union {created(f) : f \in Fresh(r)}
  BY DEF ReplaceFindings
<1>2. /\ said'.latest = [k \in Keys |-> IF k \in ProducedKeys(r) THEN r ELSE said.latest[k]]
      /\ said'.absent = [k \in Keys |->
            k \notin ProducedKeys(r)
              /\ (said.absent[k] \/ CategoryOf[k] \in run[r].result.complete)]
  BY DEF ReplaceFindings
<1>3. ASSUME NEW x \in kept
      PROVE  LET y == Refreshed(x, r, last)
             IN  y.seen = said'.latest[Key(y)] /\ (y.retired <=> said'.absent[Key(y)])
  <2> DEFINE y == Refreshed(x, r, last)
  <2>1. x \in findings /\ x \in RowType /\ Key(x) \in Keys
    BY <1>0, RowId
  <2>2. Id(x) \in run[r].reviewed
    BY <1>0, <2>1 DEF ReviewedIds, DeletableIds, Deletable
  <2>3. /\ Key(y) = Key(x)
        /\ IF Key(x) \in ProducedKeys(r) THEN y.seen = r /\ ~y.retired
           ELSE y.seen = x.seen /\ y.retired = (x.retired \/ Lapsed(r, Key(x)))
    BY <2>1, <2>2, RefreshedRow
  <2> HIDE DEF y
  <2>4. x.seen = said.latest[Key(x)] /\ (x.retired <=> said.absent[Key(x)])
    BY <2>1 DEF RowsCurrent
  <2>5. y.seen = said'.latest[Key(x)]
    BY <1>2, <2>1, <2>3, <2>4
  <2>6. y.retired <=> said'.absent[Key(x)]
    BY <1>2, <2>1, <2>3, <2>4 DEF Lapsed
  <2> QED  BY <2>3, <2>5, <2>6 DEF y
<1>4. ASSUME NEW f \in Fresh(r)
      PROVE  LET y == created(f)
             IN  y.seen = said'.latest[Key(y)] /\ (y.retired <=> said'.absent[Key(y)])
  <2>1. f \in Findings /\ KeyOf[f] \in ProducedKeys(r) /\ KeyOf[f] \in Keys
    BY <1>0, StoreAssumption DEF Fresh, ResultType, ProducedKeys
  <2>2. Key(created(f)) = KeyOf[f]
    BY DEF Key
  <2> QED  BY <1>2, <2>1, <2>2
<1> QED  BY <1>1, <1>3, <1>4 DEF RowsCurrent, Key

\* Every step keeps the rows current.
LEMMA RowsStep ==
    ASSUME TypeOK, TransactionOK, RowsCurrent, [Next]_vars
    PROVE  RowsCurrent'
<1>1. ASSUME NEW x \in findings, Override(x) PROVE RowsCurrent'
  <2> DEFINE new == [x EXCEPT !.manual = TRUE]
  <2>1. Key(new) = Key(x) /\ new.seen = x.seen /\ new.retired = x.retired
    BY DEF TypeOK, RowType, Key
  <2> HIDE DEF new
  <2>2. findings' = (findings \ {x}) \union {new} /\ said' = said
    BY <1>1 DEF Override, new
  <2> QED  BY <2>1, <2>2 DEF RowsCurrent, Key
<1>2. CASE findings' = findings /\ said'.latest = said.latest /\ said'.absent = said.absent
  BY <1>2 DEF RowsCurrent, Key
<1> QED  BY <1>1, <1>2, FindingsDisturbed, ReplaceFindingsCurrent

\* "A measurement that no longer holds": if writes do not overlap and reviewers do
\* not override inside the findings transaction, a reviewed row shows what the
\* last run that produced its finding measured, and is retired exactly if a later
\* one could tell that it is gone.
THEOREM ReviewedRowsSerially ==
    ASSUME NoOverrideInTransaction
    PROVE  Spec /\ []Serial => []ReviewedRowsAreCurrent
<1>1. Init => TransactionOK /\ RowsCurrent
  BY DEF Init, At, TransactionOK, InTransaction, RowsCurrent
<1>2. TypeOK /\ QueueOK /\ Serial /\ TransactionOK /\ RowsCurrent /\ [Next]_vars
        => TransactionOK' /\ RowsCurrent'
  BY TransactionStep, RowsStep DEF QueueOK
<1>3. RowsCurrent => ReviewedRowsAreCurrent
  BY DEF RowsCurrent, ReviewedRowsAreCurrent
<1> QED  BY <1>1, <1>2, <1>3, TypeCorrect, QueueInvariant, PTL DEF Spec

\* The stages a run is in once it has stored a child, and not ended.
Past == [holders |-> {"pools", "events", "refresh", "links", "record", "verdict"},
         pools |-> {"events", "refresh", "links", "record", "verdict"},
         links |-> {"record", "verdict"}]

\* What a run has stored is what is there, and the verdict is of a run that ended.
StoredOK ==
    \A r \in Runs : /\ \A c \in DOMAIN Past : run[r].pc \in Past[c] => child[c] = r
                    /\ run[r].pc = "verdict" => recorded = r
StampOK == verdict # 0 => verdict \in Runs /\ Ended(verdict)
LandedOK == StoredOK /\ StampOK /\ VerdictOverLandedChildren

\* Children, the run's row and the verdict are each written by one step of a run.
LEMMA StoredDisturbed ==
    ASSUME [Next]_vars
    PROVE  /\ \/ \E r \in Runs : Write(r) /\ \E c \in DOMAIN Past : /\ run[r].pc = c
                                                                   /\ child' = [child EXCEPT ![c] = r]
              \/ child' = child
           /\ (\E r \in Runs : RecordRun(r)) \/ recorded' = recorded
           /\ (\E r \in Runs : WriteVerdict(r)) \/ verdict' = verdict
<1>1. ASSUME NEW r \in Runs, NEW last \in [Keys -> Findings], ReplaceFindings(r, last)
      PROVE  UNCHANGED <<child, recorded, verdict>>
  BY <1>1 DEF ReplaceFindings
<1>2. ASSUME NEW r \in Runs, Write(r)
      PROVE  /\ \/ \E c \in DOMAIN Past : run[r].pc = c /\ child' = [child EXCEPT ![c] = r]
                \/ child' = child
             /\ RecordRun(r) \/ recorded' = recorded
             /\ WriteVerdict(r) \/ verdict' = verdict
  <2>1. ASSUME NEW c \in DOMAIN Past, NEW next, Replace(r, c, next)
        PROVE  /\ run[r].pc = c /\ child' = [child EXCEPT ![c] = r]
               /\ UNCHANGED <<recorded, verdict>>
    BY <2>1 DEF Replace
  <2>2. CASE \/ Replace(r, "holders", "pools") \/ Replace(r, "pools", "events")
             \/ Replace(r, "links", "record")
    BY <2>1, <2>2 DEF Past
  <2>3. CASE ~ (\/ Replace(r, "holders", "pools") \/ Replace(r, "pools", "events")
                \/ Replace(r, "links", "record"))
    BY <1>1, <1>2, <2>3 DEF Write, ReadToken, WriteToken, UpsertVerdict, ReadReviewed,
       BeginDelete, FinishDelete, ReadEvents, WriteEvents, RecordRun, WriteVerdict, rows
  <2> QED  BY <2>2, <2>3
<1> QED  BY <1>2 DEF Next, Submit, Fail, Kill, Override, ReviewEvent, vars, rows

\* A run of the queue is not older than the verdict.
LEMMA VerdictIsOlder ==
    ASSUME OneProcess, TypeOK, QueueOK, StampOK, NEW r \in Runs, Writing(r)
    PROVE  verdict <= r
<1>1. CASE verdict # 0 /\ verdict > r
  <2>1. verdict \in Runs /\ Ended(verdict)
    BY <1>1 DEF StampOK
  <2>2. run[verdict].by \in Procs /\ run[r].by \in Procs
    BY <2>1 DEF Writing, Ended, QueueOK, OwnersOK, TypeOK, RunType
  <2>3. Ended(r)
    BY <1>1, <2>1, <2>2 DEF OneProcess, QueueOK, OneByOne, Started, Ended
  <2> QED  BY <2>3 DEF Ended, Writing
<1> QED  BY <1>1 DEF TypeOK, Runs

\* Every step keeps the verdict over children that landed.
LEMMA LandedStep ==
    ASSUME OneProcess, TypeOK, TypeOK', QueueOK, Serial, LandedOK, [Next]_vars
    PROVE  LandedOK'
<1>0. /\ run \in [Runs -> RunType] /\ child \in [DOMAIN Past -> 0..MaxRuns]
      /\ recorded \in Int /\ verdict \in Int /\ \A r \in Runs : r \in Int /\ r # 0
  BY DEF TypeOK, Past, Runs
<1>1. ASSUME NEW r \in Runs, WriteVerdict(r)
      PROVE  /\ run[r].pc = "verdict" /\ Write(r) /\ Writing(r) /\ verdict' = r
             /\ child' = child /\ recorded' = recorded /\ Ended(r)'
  <2>1. Write(r)
    BY <1>1 DEF Write
  <2> QED  BY <1>1, <2>1, WriteMoves DEF WriteVerdict, Writing, Ended, Follows
<1>2. ASSUME NEW r \in Runs, RecordRun(r)
      PROVE  /\ run[r].pc = "record" /\ Write(r) /\ Writing(r) /\ recorded' = r
             /\ run'[r].pc = "verdict"
  <2>1. Write(r)
    BY <1>2 DEF Write
  <2> QED  BY <1>2, <2>1, WriteMoves DEF RecordRun, Writing, Follows
<1>3. ASSUME NEW q \in Runs, NEW c \in DOMAIN Past, run'[q].pc \in Past[c]
      PROVE  child'[c] = q
  <2>1. CASE run'[q] = run[q]
    <3>1. Writing(q) /\ child[c] = q
      BY <1>3, <2>1 DEF LandedOK, StoredOK, Writing, Past
    <3>2. ASSUME NEW r \in Runs, Write(r), run[r].pc \in DOMAIN Past PROVE FALSE
      <4>1. Writing(r)
        BY <3>2 DEF Writing, Past
      <4>2. r = q
        BY <3>1, <4>1 DEF Serial
      <4> QED  BY <2>1, <3>2, <4>2, WriteMoves DEF Past, Follows
    <3> QED  BY <3>1, <3>2, StoredDisturbed
  <2>2. CASE Moves(q)
    <3>1. run[q].pc = c \/ run[q].pc \in Past[c]
      BY <1>0, <1>3, <2>2 DEF Moves, Follows, Stages, RunType, Past
    <3>2. CASE run[q].pc \in Past[c]
      <4>1. Writing(q) /\ child[c] = q
        BY <3>2 DEF LandedOK, StoredOK, Writing, Past
      <4>2. ASSUME NEW r \in Runs, Write(r), run[r].pc \in DOMAIN Past PROVE r = q
        BY <4>1, <4>2 DEF Serial, Writing, Past
      <4> QED  BY <1>0, <4>1, <4>2, StoredDisturbed
    <3>3. CASE run[q].pc = c
      <4>1. \/ Replace(q, "holders", "pools") \/ Replace(q, "pools", "events")
            \/ Replace(q, "links", "record")
        BY <2>2, <3>3 DEF Moves, Past, Write, ReadToken, WriteToken, ReadReviewed, BeginDelete,
           FinishDelete, ReplaceFindings, ReadEvents, WriteEvents, RecordRun, WriteVerdict
      <4>2. child' = [child EXCEPT ![c] = q]
        BY <3>3, <4>1 DEF Replace
      <4> QED  BY <1>0, <4>2
    <3> QED  BY <3>1, <3>2, <3>3
  <2> QED  BY <1>3, <2>1, <2>2, RunSteps DEF Submits, Fails, Past, QueueOK
<1>4. ASSUME NEW q \in Runs, run'[q].pc = "verdict"
      PROVE  recorded' = q
  <2>1. CASE run'[q] = run[q]
    <3>1. Writing(q) /\ recorded = q
      BY <1>4, <2>1 DEF LandedOK, StoredOK, Writing
    <3>2. ASSUME NEW r \in Runs, RecordRun(r) PROVE FALSE
      BY <1>2, <1>4, <2>1, <3>1, <3>2 DEF Serial
    <3> QED  BY <3>1, <3>2, StoredDisturbed
  <2>2. CASE Moves(q)
    <3>1. run[q].pc = "record"
      BY <1>0, <1>4, <2>2 DEF Moves, Follows, Stages, RunType
    <3>2. RecordRun(q)
      BY <2>2, <3>1 DEF Moves, Write, ReadToken, WriteToken, ReadReviewed, BeginDelete,
         FinishDelete, ReplaceFindings, Replace, ReadEvents, WriteEvents, RecordRun, WriteVerdict
    <3> QED  BY <1>2, <3>2
  <2> QED  BY <1>4, <2>1, <2>2, RunSteps DEF Submits, Fails, QueueOK
<1>5. StampOK'
  <2>1. CASE verdict' = verdict
    BY <2>1, EndedStays DEF LandedOK, StampOK, QueueOK
  <2> QED  BY <1>1, <2>1, StoredDisturbed DEF StampOK
<1>6. VerdictOverLandedChildren'
  <2>1. ASSUME NEW r \in Runs, Writing(r) PROVE verdict <= r
    BY <2>1, VerdictIsOlder DEF LandedOK
  <2>2. ASSUME NEW r \in Runs, WriteVerdict(r) PROVE VerdictOverLandedChildren'
    <3>1. recorded = r /\ \A c \in DOMAIN Past : child[c] = r
      BY <1>1, <2>2 DEF LandedOK, StoredOK, Past
    <3> QED  BY <1>0, <1>1, <2>2, <3>1 DEF VerdictOverLandedChildren
  <2>3. ASSUME verdict' = verdict PROVE VerdictOverLandedChildren'
    <3>1. verdict <= recorded'
      BY <1>0, <1>2, <2>1, StoredDisturbed DEF LandedOK, VerdictOverLandedChildren
    <3>2. ASSUME NEW r \in Runs, NEW c \in DOMAIN Past, Write(r), run[r].pc = c,
                 child' = [child EXCEPT ![c] = r]
          PROVE  \A d \in DOMAIN Past : verdict <= child'[d]
      <4>1. verdict <= r
        BY <2>1, <3>2 DEF Writing, Past
      <4> QED  BY <1>0, <3>2, <4>1 DEF LandedOK, VerdictOverLandedChildren
    <3>3. \A d \in DOMAIN Past : verdict <= child'[d]
      BY <1>0, <3>2, StoredDisturbed DEF LandedOK, VerdictOverLandedChildren
    <3>4. DOMAIN child' = DOMAIN Past
      BY DEF TypeOK, Past
    <3> QED  BY <2>3, <3>1, <3>3, <3>4 DEF VerdictOverLandedChildren
  <2> QED  BY <2>2, <2>3, StoredDisturbed
<1> QED  BY <1>3, <1>4, <1>5, <1>6 DEF LandedOK, StoredOK

\* "The grade and freshness stamp only ever describe a run whose children all
\* landed": whatever fails or is killed, the verdict of the token is of a run whose
\* children, or those of a later one, are what is stored.
THEOREM VerdictLanded ==
    ASSUME OneProcess
    PROVE  Spec => []VerdictOverLandedChildren
<1>1. Init => LandedOK
  <2>1. 0 \in Int /\ 0 <= 0
    OBVIOUS
  <2> QED  BY <2>1 DEF Init, At, LandedOK, StoredOK, StampOK, VerdictOverLandedChildren, Past
<1>2. TypeOK /\ TypeOK' /\ QueueOK /\ Serial /\ LandedOK /\ [Next]_vars => LandedOK'
  BY LandedStep
<1>3. LandedOK => VerdictOverLandedChildren
  BY DEF LandedOK
<1> QED  BY <1>1, <1>2, <1>3, TypeCorrect, QueueInvariant, QueueSerializes, PTL DEF Spec

\* So a single process, whose queue keeps its writes apart, needs no other
\* hypothesis: reviewers aside, its store keeps every promise of the source.
THEOREM OneProcessStore ==
    ASSUME OneProcess, NoOverrideInTransaction
    PROVE  Spec => /\ MetadataKept
                   /\ [](OneEventPerTitle /\ ResolvedOnEvidence /\ ReviewedRowsAreCurrent)
BY QueueSerializes, MetadataKeptSerially, OneEventSerially, ResolvedSerially,
   ReviewedRowsSerially, PTL
=============================================================================
