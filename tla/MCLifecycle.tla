---------------------------- MODULE MCLifecycle ----------------------------
(* Instance of Lifecycle for TLC: an authority and two followers. *)
EXTENDS Lifecycle, TLC

CONSTANTS a, b, c, x, y

MCMemberSets == {{b}}

MCSymmetry == Permutations({x, y})
=============================================================================
