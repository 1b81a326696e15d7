---------------------------- MODULE MCFileStore ----------------------------
(* Two callers of one store, a content-addressed key and one that is not.  *)
EXTENDS FileStore, TLC
CONSTANTS k1, k2, v1, v2, h1

OneHandle == [c \in Clients |-> h1]
KeyContents == (k1 :> {v1}) @@ (k2 :> {v1, v2})
Symmetric == Permutations(Clients)
=============================================================================
