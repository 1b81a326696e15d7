---------------------------- MODULE Replication ----------------------------
(***************************************************************************)
(* What lifecycle replication promises (docs/LIFECYCLE_V0_13.md): one      *)
(* authority writes a history of records; every other node has some prefix *)
(* of it, which only grows unless the node loses its directory; and what a *)
(* node answers for a key is the newest record of that key in its prefix.  *)
(***************************************************************************)
EXTENDS Naturals, Sequences, FiniteSetsExt

CONSTANTS
  Nodes, Source,
  LogicalKeys

VARIABLES
  history,   \* the records of the authority: the key of each, by version
  have,      \* the length of the prefix that a node has
  answer     \* the version of the record that a node answers for a key, 0 for none

avars == <<history, have, answer>>

(* The newest record of every key among the first w. *)
ViewAt(h, w) ==
  [k \in LogicalKeys |-> Max({0} \cup {v \in 1..w : h[v] = k})]

ReplicationInit ==
  /\ history = <<>>
  /\ have = [n \in Nodes |-> 0]
  /\ answer = [n \in Nodes |-> ViewAt(<<>>, 0)]

(* Node n has the first w records. *)
Holds(n, w) ==
  /\ have' = [have EXCEPT ![n] = w]
  /\ answer' = [answer EXCEPT ![n] = ViewAt(history', w)]

Author(k) ==
  /\ history' = Append(history, k)
  /\ Holds(Source, Len(history'))

CatchUp(n, w) ==
  /\ UNCHANGED history
  /\ Holds(n, w)

Lose(n) ==
  /\ n # Source /\ have[n] # 0
  /\ UNCHANGED history
  /\ Holds(n, 0)

ReplicationNext ==
  \/ \E k \in LogicalKeys : Author(k)
  \/ \E n \in Nodes : Lose(n) \/ \E w \in (have[n] + 1)..Len(history) : CatchUp(n, w)

ReplicationSpec == ReplicationInit /\ [][ReplicationNext]_avars
=============================================================================
