------------------------ MODULE MCRepairContinuation ------------------------
(* A slow and a healthy peer that ask for blobs of one byte each.          *)
EXTENDS RepairContinuation

MCSize == [k \in Keys |-> 1]

(* The unreliable peer asks twice, so that its read loop and its           *)
(* continuation block at the same time, its queue overflows and its        *)
(* attempts run out.                                                       *)
MCRequests ==
  [p \in Peers |-> IF p \in Unreliable THEN <<{1, 2, 3}, {1, 4, 5}>> ELSE <<{1, 2}>>]
=============================================================================
