-------------------------- MODULE MCAnalysisStore --------------------------
(***************************************************************************)
(* Small instances of AnalysisStore.  Findings 1 and 2 are two groups of   *)
(* "Top holders share a common funder" (analysis/src/holders.ts), which    *)
(* have a name in common and differ by id; finding 3 is the concentration  *)
(* of the top ten, of another category but the same event class.           *)
(***************************************************************************)
EXTENDS AnalysisStore, TLC

FunderKey == [f \in Findings |-> IF f \in {1, 2} THEN "funder" ELSE "top10"]
HolderCategory == [k \in Keys |-> IF k = "funder" THEN "insider_links"
                                  ELSE "holder_concentration"]
OneClass == [c \in Categories |-> "heavy_insider_control"]

Read(probed, produced, loud) ==
    [meta |-> probed, produced |-> produced, loud |-> loud, complete |-> Categories]
Unread(produced, category) ==
    [meta |-> FALSE, produced |-> produced, loud |-> produced,
     complete |-> Categories \ {category}]

\* Runs that see everything, something, a lower severity, or a category that
\* could not be read.
DistinctResults ==
    {Read(TRUE, {1, 3}, {1, 3}), Read(TRUE, {3}, {}),
     Unread({3}, "insider_links"), Unread({}, "insider_links")}

SharedResults ==
    {Read(TRUE, {1, 2}, {1, 2}), Read(TRUE, {1}, {1}), Read(TRUE, {}, {}),
     Unread({}, "insider_links")}

\* For races: one finding, seen, gone, or not examined.
OneFinding == {Read(TRUE, {1}, {}), Read(TRUE, {}, {}), Unread({}, "insider_links")}

\* The worker and the API run the same code.
Symmetry == Permutations(Procs)
=============================================================================
