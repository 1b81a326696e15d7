------------------------------ MODULE Versions ------------------------------
(***************************************************************************)
(* The version tokens of internal/lifecycle: pairs (epoch, sequence) of    *)
(* unsigned machine integers, ordered lexicographically.  MaxUint stands   *)
(* for math.MaxUint64, so that the carry from sequence into epoch and the  *)
(* exhaustion of the token space are ordinary cases of a small instance.   *)
(***************************************************************************)
EXTENDS Naturals

CONSTANT MaxUint

ASSUME MaxUintAssumption == MaxUint \in Nat \ {0}

Version == [epoch : 0..MaxUint, sequence : 0..MaxUint]

ZeroVersion == [epoch |-> 0, sequence |-> 0]

IsZero(v) == v = ZeroVersion

(* Version.Compare(v, w) < 0 and <= 0. *)
Less(v, w) == \/ v.epoch < w.epoch
              \/ v.epoch = w.epoch /\ v.sequence < w.sequence

Leq(v, w) == Less(v, w) \/ v = w

Newer(v, w) == IF Less(v, w) THEN w ELSE v

(* Mutant: the end of the token space is not noticed.                      *)
ExhaustedNever(v) == v.epoch = 0

(***************************************************************************)
(* incrementAuthorityVersion: a token of epoch 0 is not an allocator       *)
(* state, and the last token of the last epoch has no successor.           *)
(***************************************************************************)
Exhausted(v) == v.epoch = 0 \/ (v.epoch = MaxUint /\ v.sequence = MaxUint)

(* Mutant: the sequence wraps and the carry into the epoch is lost.        *)
IncrementNoCarry(v) ==
  [epoch |-> v.epoch, sequence |-> (v.sequence + 1) % (MaxUint + 1)]

Increment(v) == IF v.sequence < MaxUint
                  THEN [epoch |-> v.epoch, sequence |-> v.sequence + 1]
                  ELSE [epoch |-> v.epoch + 1, sequence |-> 1]
=============================================================================
