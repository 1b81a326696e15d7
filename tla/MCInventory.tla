---------------------------- MODULE MCInventory ----------------------------
(* A frame of one short key has 3 bytes, of two 4; key 4 and a short key   *)
(* need 5; key 3 fits no frame.                                            *)
EXTENDS Inventory

MCKeys == 1 .. 4
MCWorkers == 1 .. 2
MCKeyBytes ==
  [S \in SUBSET MCKeys |->
     MapThenSumSet(LAMBDA k : CASE k = 3 -> 9 [] k = 4 -> 2 [] OTHER -> 1, S)]
=============================================================================
