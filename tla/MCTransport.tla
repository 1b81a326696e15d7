---------------------------- MODULE MCTransport ----------------------------
(* Three connections from or to three addresses, and room for two peers. *)
EXTENDS Transport, TLC

Symmetric == Permutations(Conns) \cup Permutations(Keys)
=============================================================================
