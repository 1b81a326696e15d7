-------------------------- MODULE MCRepairSession --------------------------
(* A source and a follower that stop, compact, lose metadata, reconnect.   *)
EXTENDS RepairSession
=============================================================================
