---------------------------- MODULE MCAuthority ----------------------------
(* The allocator alone, against every journal tail it may be shown.        *)
EXTENDS Authority
=============================================================================
