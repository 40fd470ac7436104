-------------------------- MODULE MCBridgeLedger --------------------------
(* Instances of BridgeLedger for TLC: one burn the API's feed and the EVM   *)
(* backfill list, and one the Solana indexer lists.                         *)
EXTENDS BridgeLedger

=============================================================================
