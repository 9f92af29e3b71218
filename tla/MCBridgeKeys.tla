---------------------------- MODULE MCBridgeKeys ----------------------------
(* A cache of one entry contested by two keys, or one key under two admins. *)
EXTENDS BridgeKeys, TLC

Symmetry == Permutations(Requests) \union Permutations(Keys)
                \union Permutations(Settings)
=============================================================================
