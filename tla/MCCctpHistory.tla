-------------------------- MODULE MCCctpHistory ---------------------------
(* Instances of CctpHistory for TLC.                                        *)
EXTENDS CctpHistory

\* Burns only, and burns among the others.
SomeKinds ==
    LET Mixed(o, f) == [i \in Txs |-> CASE i = o -> "other" [] i = f -> "failed" [] OTHER -> "burn"]
    IN  {Mixed(0, 0), Mixed(2, 3), Mixed(3, 1)}

=============================================================================
