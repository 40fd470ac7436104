-------------------------- MODULE MCHolderIndexer --------------------------
(***************************************************************************)
(* Small instances of HolderIndexer.  A token's contract appears at block  *)
(* d with an initial distribution; in each of the next three blocks the    *)
(* balances stay or one unit moves.                                        *)
(***************************************************************************)
EXTENDS HolderIndexer

Moves(f) ==
    {f} \union {[f EXCEPT ![p[1]] = @ - 1, ![p[2]] = @ + 1] :
                    p \in {q \in Addrs \X Addrs : q[1] # q[2] /\ f[q[1]] > 0}}

\* Balances over all blocks, given those of blocks d to d + 3.
Path(d, f, g, h, i) ==
    [b \in Blocks |-> CASE b < d -> NoRows [] b = d -> f [] b = d + 1 -> g
                        [] b = d + 2 -> h  [] OTHER -> i]

Paths(d, initial) ==
    UNION {UNION {UNION {{Path(d, f, g, h, i) : i \in Moves(h)} :
        h \in Moves(g)} : g \in Moves(f)} : f \in initial}

Recorded(d, path) == [deploy |-> d, bal |-> path, logged |-> path]

\* A rebase at block d + 2 moves a unit without an event.
Rebased(d, f) ==
    {[deploy |-> d, logged |-> Path(d, f, f, f, f), bal |-> Path(d, f, f, g, g)] :
        g \in Moves(f) \ {f}}

\* Address 3 is given a unit without an event and transfers it later, so the
\* events alone leave it below zero.
SilentMint(d, f) ==
    LET minted == [f EXCEPT ![3] = @ + 1]
        logged == [f EXCEPT ![3] = @ - 1, ![1] = @ + 1]
        moved  == [f EXCEPT ![1] = @ + 1]
    IN  {[deploy |-> d, logged |-> Path(d, f, f, logged, logged),
          bal |-> Path(d, f, minted, moved, moved)]}

Spread == [a \in Addrs |-> IF a = 1 THEN 2 ELSE IF a = 2 THEN 1 ELSE 0]

\* One token with every history of three moves, rebasing, or minting
\* silently.
OneTokenHistories ==
    {Recorded(2, p) : p \in Paths(2, {Spread})} \union Rebased(2, Spread)
        \union SilentMint(2, Spread)

\* Two tokens whose histories are few: a still one, one that moves late, a
\* rebasing one, and one that exists since block 1 and is never found.
TwoTokenHistories ==
    LET moved == [Spread EXCEPT ![1] = @ - 1, ![2] = @ + 1]
    IN  {Recorded(2, Path(2, Spread, Spread, moved, moved)),
         Recorded(1, Path(1, Spread, Spread, Spread, Spread)),
         [deploy |-> 2, logged |-> Path(2, Spread, Spread, Spread, Spread),
          bal |-> Path(2, Spread, moved, moved, moved)]}

EveryHistory == OneTokenHistories \union TwoTokenHistories

\* Both tokens have a short history, or one has any history and the other
\* never moves.
Paired ==
    \/ \A t \in Tokens : ledger[t] \in TwoTokenHistories
    \/ \E t \in Tokens : \A u \in Tokens \ {t} :
           ledger[u] = Recorded(1, Path(1, Spread, Spread, Spread, Spread))

PairedInit == Init /\ Paired

PairedSpec == PairedInit /\ [][Next]_vars /\ WF_vars(Indexer)
=============================================================================
