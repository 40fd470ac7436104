---------------------------- MODULE BridgeWatch -----------------------------
(***************************************************************************)
(* The snapshot behind /bridge-watch (apps/api/src/routes/bridge.ts): one   *)
(* refresh asks around a hundred sources, so readers share it; a refresh    *)
(* that fails is not repeated by every reader that follows; an expired      *)
(* snapshot is served while the next one is made.  What a refresh writes    *)
(* into the ledger is in BridgeLedger.                                      *)
(***************************************************************************)
EXTENDS Integers

CONSTANTS
    Readers,
    MaxFaults       \* bound: refreshes that fail, restarts

VARIABLES
    snapshot,       \* cache: "none", "fresh" or "expired"
    inFlight,       \* the shared promise is set
    loads,          \* loadBridgeWatch calls running
    blocked,        \* before refreshBlockedUntil
    reader,         \* what each reader last got: "waiting", "served", "refused"
    faults

vars == <<snapshot, inFlight, loads, blocked, reader, faults>>

Init ==
    /\ snapshot = "none" /\ inFlight = FALSE /\ loads = 0 /\ blocked = FALSE
    /\ reader = [r \in Readers |-> "served"]
    /\ faults = 0

Fails == faults < MaxFaults /\ faults' = faults + 1

\* startRefresh: concurrent callers share one refresh.
StartRefresh == inFlight' = TRUE /\ loads' = IF inFlight THEN loads ELSE loads + 1

NoRefresh == UNCHANGED <<inFlight, loads>>

\* A reader is served what there is, and an expired snapshot is refreshed behind
\* it; with none it waits for the refresh, or is refused while one has failed.
Ask(r) ==
    /\ reader[r] # "waiting"
    /\ \/ /\ snapshot # "none" /\ reader' = [reader EXCEPT ![r] = "served"]
          /\ IF snapshot = "expired" /\ ~blocked THEN StartRefresh ELSE NoRefresh
       \/ /\ snapshot = "none" /\ blocked /\ reader' = [reader EXCEPT ![r] = "refused"]
          /\ NoRefresh
       \/ /\ snapshot = "none" /\ ~blocked /\ reader' = [reader EXCEPT ![r] = "waiting"]
          /\ StartRefresh
    /\ UNCHANGED <<snapshot, blocked, faults>>

\* Mutant: only a refresh that succeeds gives up the promise.
KeepPromise(succeeded) == inFlight' = ~succeeded

\* finally: the promise is given up, whatever its outcome.
GiveUp(succeeded) == inFlight' = FALSE

Waiters(got) == [r \in Readers |-> IF reader[r] = "waiting" THEN got ELSE reader[r]]

Loaded ==
    /\ loads > 0 /\ loads' = loads - 1
    /\ snapshot' = "fresh" /\ blocked' = FALSE /\ reader' = Waiters("served")
    /\ GiveUp(TRUE)
    /\ UNCHANGED faults

\* Those who waited get the error; the next refresh has to wait for 30 s.
LoadFails ==
    /\ loads > 0 /\ loads' = loads - 1 /\ Fails
    /\ blocked' = TRUE /\ reader' = Waiters("refused")
    /\ GiveUp(FALSE)
    /\ UNCHANGED snapshot

\* CACHE_MS and FAILURE_BACKOFF_MS go by.
Expire ==
    /\ snapshot = "fresh" /\ snapshot' = "expired"
    /\ UNCHANGED <<inFlight, loads, blocked, reader, faults>>

BackoffEnds ==
    /\ blocked /\ blocked' = FALSE
    /\ UNCHANGED <<snapshot, inFlight, loads, reader, faults>>

ApiRestarts ==
    /\ Fails /\ snapshot' = "none" /\ inFlight' = FALSE /\ loads' = 0 /\ blocked' = FALSE
    /\ reader' = Waiters("refused")

Next == (\E r \in Readers : Ask(r)) \/ Loaded \/ LoadFails \/ Expire \/ BackoffEnds \/ ApiRestarts

Spec == Init /\ [][Next]_vars

\* Each of the calls of a refresh has a timeout, and the page goes on being
\* asked for.
FairSpec == Spec /\ WF_vars(Loaded) /\ WF_vars(BackoffEnds) /\ \A r \in Readers : WF_vars(Ask(r))
-----------------------------------------------------------------------------
(* Properties.                                                              *)

\* Every variable has its type, and one refresh runs at a time.
TypeOK ==
    /\ snapshot \in {"none", "fresh", "expired"} /\ inFlight \in BOOLEAN /\ blocked \in BOOLEAN
    /\ loads \in 0 .. 1
    /\ reader \in [Readers -> {"waiting", "served", "refused"}]

\* "Callers share it" and "a failed refresh used to be retried by every single
\* request that followed": neither the shared promise nor the backoff may
\* outlive its refresh.  Once refreshes succeed, the feed is renewed again and
\* again, and nobody waits for a refresh that is over.
FeedComesBack ==
    /\ []<>(snapshot = "fresh")
    /\ \A r \in Readers : []<>(reader[r] # "waiting")
=============================================================================
