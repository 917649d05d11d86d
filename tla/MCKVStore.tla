------------------------------ MODULE MCKVStore ------------------------------
(* Small instances of BRReplicatedKVStore for TLC. *)
EXTENDS BRReplicatedKVStore, TLC

Symmetric == Permutations(Keys) \cup Permutations(Values)
=============================================================================
