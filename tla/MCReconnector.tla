--------------------------- MODULE MCReconnector ---------------------------
(* Static peers under the reconnector, with inbound connections around.    *)
EXTENDS Reconnector
=============================================================================
