----------------------------- MODULE MCJwksCache -----------------------------
(* Small instances of JwksCache for TLC. *)
EXTENDS JwksCache, TLC

Symmetry == Permutations(Caller) \cup Permutations(Kid)
==============================================================================
