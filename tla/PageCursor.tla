----------------------------- MODULE PageCursor -----------------------------
(***************************************************************************)
(* What a backfill of CCTP history promises: of the transactions there     *)
(* were when it began, its stored cursor has passed only those that were   *)
(* answered for (apps/worker/src/solanaCctpIndexer.ts 144-145: moving past *)
(* one that was not "drops it from the backfill permanently").             *)
(***************************************************************************)

CONSTANT History  \* the transactions there were

VARIABLES answered, passed

Init == answered \in SUBSET History /\ passed \in SUBSET answered

Answer(i) == answered' = answered \union {i} /\ UNCHANGED passed

\* The cursor may be set back: what it had passed stays answered.
Move == passed' \in SUBSET answered /\ UNCHANGED answered

Next == Move \/ \E i \in History : Answer(i)

Spec == Init /\ [][Next]_<<answered, passed>>

=============================================================================
