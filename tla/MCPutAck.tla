------------------------------ MODULE MCPutAck ------------------------------
(* One or two peers that a put is sent to. *)
EXTENDS PutAck
=============================================================================
