------------------------------ MODULE MCPubSub ------------------------------
(* Instances of PubSub for TLC. *)
EXTENDS PubSub, TLC

Interchangeable == Permutations(Runs) \cup Permutations(Ids)
=============================================================================
