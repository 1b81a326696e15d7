----------------------------- MODULE MCJournal -----------------------------
(* The journal and its checkpoint on a crashing, failing disk.             *)
EXTENDS Journal
=============================================================================
