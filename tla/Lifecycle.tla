----------------------------- MODULE Lifecycle -----------------------------
(***************************************************************************)
(* Lifecycle state over several nodes: logical records by key (model.go),  *)
(* their journal and checkpoint (journal.go), watermarks by peer           *)
(* (watermark.go), the operator's membership (membership.go), compaction   *)
(* and recovery (lifecycle_cli.go).  Any two nodes may be connected, so a  *)
(* node may hear of a record from several.                                 *)
(*                                                                         *)
(* RepairSession models one connection step by step; here its startup      *)
(* watermarks are exchanged in one step, a frame is planned in one step    *)
(* and handled in another, what the files hold is what was synced (Journal *)
(* models how), and the raw blobs are sent before.                         *)
(* A version is its rank in the history of the one authority, a record its *)
(* version: what it says of its key, a blob or a deletion, is passed on    *)
(* alike.                                                                  *)
(***************************************************************************)
EXTENDS Naturals, Sequences, FiniteSets, FiniteSetsExt

CONSTANTS
  Nodes, Source,
  LogicalKeys,
  Compactors,    \* the nodes on which the operator runs -lifecycle-compact
  MemberSets,    \* the values that the operator gives to their -lifecycle-members
  MaxPeers,      \* WatermarkOptions.MaxPeers, MembershipOptions.MaxPeers
  MaxRecords,    \* RepairLimits.MaxRecords
  MaxVersion,    \* bound: mutations
  MaxConns,      \* bound: connections ever made, and those still open once more
  MaxStops,      \* bound: how often nodes stop or crash
  MaxWipes       \* bound: how often a follower loses its lifecycle directory

ASSUME LifecycleAssumption ==
  /\ Source \in Nodes /\ IsFiniteSet(Nodes) /\ Compactors \subseteq Nodes
  /\ MemberSets \subseteq SUBSET Nodes
  /\ MaxPeers \in Nat \ {0} /\ MaxRecords \in Nat \ {0}
  /\ MaxVersion \in Nat /\ MaxConns \in Nat /\ MaxStops \in Nat /\ MaxWipes \in Nat

VARIABLES
  hist,         \* the authority's records: the key of each, by version
  floor, log,   \* the journal: its floor, and the versions it retains
  checkpoint,   \* the checkpoint file: the record of each key, 0 for none
  book,         \* the watermarks file: book[n][m] of node n for peer m
  members,      \* the membership file: is there one, and the identities
  up,           \* is the process running?
  mutated,      \* has this run of the source made its one mutation?
  view,         \* Store.records: the version of each key's record, 0 for none
  snapshot,     \* lifecycleRuntime.snapshot
  sess,         \* sess[n][m]: the session of n with m
  wire,         \* wire[n][m]: the frames on their way from n to m
  lost,         \* history: <<n, m>> while n has not heard from m since m lost its files
  conns, stops, wipes

files == <<floor, log, checkpoint, book, members>>
counts == <<conns, stops, wipes>>
process == <<up, mutated, view, snapshot>>
lvars == <<hist, files, process, sess, wire, lost, counts>>

-----------------------------------------------------------------------------
Versions == 0..MaxVersion
Views == [LogicalKeys -> Versions]
Empty == [k \in LogicalKeys |-> 0]

LastVersion(n) == Max(log[n] \cup {floor[n]})

(* A checkpoint: its watermark and its records. *)
NoSnapshot == [to |-> 0, recs |-> Empty]

(* A repair frame; what a type does not carry is empty. *)
Frame(type, from, to, records, recs) ==
  [type |-> type, from |-> from, to |-> to, records |-> records, recs |-> recs]

Ack(w) == Frame("ack", 0, w, {}, Empty)

(* A session: Run plans, or it waits until the watermark is at the end of  *)
(* its frame, which is all it ever does when nothing is left to send.      *)
NoSession == [pc |-> "none", snapshot |-> NoSnapshot, to |-> 0, more |-> FALSE]

Connected(n, m) == sess[n][m].pc # "none"

Unconfigured == [configured |-> FALSE, ids |-> {}]

LifecycleTypeOK ==
  /\ hist \in Seq(LogicalKeys)
  /\ floor \in [Nodes -> Versions]
  /\ log \in [Nodes -> SUBSET (1..MaxVersion)]
  /\ checkpoint \in [Nodes -> Views]
  /\ book \in [Nodes -> [Nodes -> Versions]]
  /\ \A n \in Nodes : /\ Cardinality({m \in Nodes : book[n][m] # 0}) <= MaxPeers
                      /\ Cardinality(members[n].ids) <= MaxPeers
  /\ members \in [Nodes -> [configured : BOOLEAN, ids : SUBSET Nodes]]
  /\ up \in [Nodes -> BOOLEAN] /\ mutated \in BOOLEAN
  /\ view \in [Nodes -> Views]
  /\ snapshot \in [Nodes -> [to : Versions, recs : Views]]
  /\ \A n, m \in Nodes :
       /\ sess[n][m].pc \in {"none", "plan", "wait"}
       /\ \A i \in 1..Len(wire[n][m]) : wire[n][m][i].to \in Versions
  /\ lost \subseteq Nodes \X Nodes
  /\ conns \in 0..MaxConns /\ stops \in 0..MaxStops /\ wipes \in 0..MaxWipes

LifecycleInit ==
  /\ hist = <<>>
  /\ floor = [n \in Nodes |-> 0]
  /\ log = [n \in Nodes |-> {}]
  /\ checkpoint = [n \in Nodes |-> Empty]
  /\ book = [n \in Nodes |-> [m \in Nodes |-> 0]]
  /\ members = [n \in Nodes |-> Unconfigured]
  /\ up = [n \in Nodes |-> TRUE] /\ mutated = FALSE
  /\ view = [n \in Nodes |-> Empty]
  /\ snapshot = [n \in Nodes |-> NoSnapshot]
  /\ sess = [n \in Nodes |-> [m \in Nodes |-> NoSession]]
  /\ wire = [n \in Nodes |-> [m \in Nodes |-> <<>>]]
  /\ lost = {}
  /\ conns = 0 /\ stops = 0 /\ wipes = 0

-----------------------------------------------------------------------------
(* model.go: Store. *)

KeyOf(v) == hist[v]

(* classifyRecord, for records of one authority: equal versions are equal  *)
(* records.                                                                *)
Outcome(v, previous) ==
  IF v > previous THEN "applied" ELSE IF v < previous THEN "stale" ELSE "duplicate"

(* Store.Apply. *)
Applied(recs, v) ==
  IF Outcome(v, recs[KeyOf(v)]) = "applied" THEN [recs EXCEPT ![KeyOf(v)] = v] ELSE recs

(* Replay, and the rebuilding of the state in Compact: records are applied *)
(* on top of recs in the order of their versions.                          *)
Replayed(recs, versions) ==
  LET upto[v \in Versions] ==
        IF v = 0 THEN recs
        ELSE IF v \in versions THEN Applied(upto[v - 1], v) ELSE upto[v - 1]
  IN upto[MaxVersion]

-----------------------------------------------------------------------------
(* membership.go. *)

(* Replace, when the flag is given; normalizeMembers refuses too many and  *)
(* the process does not start.                                             *)
Replaces(n, flag) ==
  /\ Cardinality(flag.ids) <= MaxPeers
  /\ members' = IF flag.configured THEN [members EXCEPT ![n] = flag] ELSE members

Flags(n) ==
  {Unconfigured}
    \cup {f \in [configured : {TRUE}, ids : MemberSets] : n \in Compactors}

(* Mutant: a missing membership file counts as an empty set. *)
WatermarksAtOpen(n, m, target) == \A id \in m.ids : book[n][id] >= target

(* WatermarksAt: every configured member has acknowledged the target.      *)
WatermarksAt(n, m, target) ==
  /\ m.configured
  /\ \A id \in m.ids : book[n][id] >= target

-----------------------------------------------------------------------------
(* lifecycle_cli.go: processes. *)

Closed(pairs) ==
  /\ sess' = [n \in Nodes |-> [m \in Nodes |->
                IF {n, m} \in pairs THEN NoSession ELSE sess[n][m]]]
  /\ wire' = [n \in Nodes |-> [m \in Nodes |->
                IF {n, m} \in pairs THEN <<>> ELSE wire[n][m]]]

(* openLifecycleRuntime: the view is the checkpoint and the journal.       *)
Start(n, flag) ==
  /\ ~up[n]
  /\ Replaces(n, flag)
  /\ up' = [up EXCEPT ![n] = TRUE]
  /\ mutated' = IF n = Source THEN FALSE ELSE mutated
  /\ view' = [view EXCEPT ![n] = Replayed(checkpoint[n], log[n])]
  /\ snapshot' = [snapshot EXCEPT ![n] = [to |-> floor[n], recs |-> checkpoint[n]]]
  /\ UNCHANGED <<hist, floor, log, checkpoint, book, sess, wire, lost, counts>>

(* The process stops or crashes. *)
Stop(n) ==
  /\ up[n] /\ stops < MaxStops
  /\ stops' = stops + 1
  /\ up' = [up EXCEPT ![n] = FALSE]
  /\ view' = [view EXCEPT ![n] = Empty]
  /\ snapshot' = [snapshot EXCEPT ![n] = NoSnapshot]
  /\ Closed({{n, m} : m \in Nodes})
  /\ UNCHANGED <<hist, files, mutated, lost, conns, wipes>>

(* A follower loses its lifecycle directory. *)
Wipe(n) ==
  /\ n # Source /\ ~up[n] /\ wipes < MaxWipes
  /\ LastVersion(n) # 0
  /\ wipes' = wipes + 1
  /\ floor' = [floor EXCEPT ![n] = 0]
  /\ log' = [log EXCEPT ![n] = {}]
  /\ checkpoint' = [checkpoint EXCEPT ![n] = Empty]
  /\ book' = [book EXCEPT ![n] = [m \in Nodes |-> 0]]
  /\ members' = [members EXCEPT ![n] = Unconfigured]
  /\ lost' = lost \cup {<<m, n>> : m \in Nodes \ {n}}
  /\ UNCHANGED <<hist, process, sess, wire, conns, stops>>

(* The one mutation of a run, put or delete: a token, the journal, the     *)
(* view.                                                                   *)
Mutate(k) ==
  /\ up[Source] /\ ~mutated /\ Len(hist) < MaxVersion
  /\ LET v == LastVersion(Source) + 1
     IN /\ hist' = Append(hist, k)
        /\ log' = [log EXCEPT ![Source] = @ \cup {v}]
        /\ view' = [view EXCEPT ![Source][k] = v]
  /\ mutated' = TRUE
  /\ UNCHANGED <<floor, checkpoint, book, members, up, snapshot, sess, wire, lost, counts>>

(* Journal.Compact up to the tail: the records are rebuilt from the        *)
(* checkpoint and the journal.                                             *)
Compacted(n) ==
  /\ checkpoint' = [checkpoint EXCEPT ![n] = Replayed(@, log[n])]
  /\ floor' = [floor EXCEPT ![n] = LastVersion(n)]
  /\ log' = [log EXCEPT ![n] = {}]

(* A run with -lifecycle-compact, which only opens the runtime, compacts   *)
(* and exits.  A refused compaction leaves the new membership behind.      *)
CompactRun(n, flag) ==
  /\ n \in Compactors /\ ~up[n]
  /\ Replaces(n, flag)
  /\ \/ /\ LastVersion(n) > floor[n]
        /\ WatermarksAt(n, members'[n], LastVersion(n))
        /\ Compacted(n)
     \/ /\ ~(LastVersion(n) > floor[n] /\ WatermarksAt(n, members'[n], LastVersion(n)))
        /\ UNCHANGED <<checkpoint, floor, log>>
  /\ UNCHANGED <<hist, book, process, sess, wire, lost, counts>>

-----------------------------------------------------------------------------
(* Sessions: watermark.go and the frames of session.go. *)

(* The peer has an entry in the book, or there is room for one. *)
HasRoom(n, m) ==
  book[n][m] # 0 \/ Cardinality({p \in Nodes : book[n][p] # 0}) < MaxPeers

(* RepairCoordinator.Reconcile. *)
CanReconcile(n, m, w) == w <= LastVersion(n) /\ (w = 0 \/ HasRoom(n, m))

(* acceptStartupWatermark of n, when m says w: a node with an empty journal*)
(* ignores it.                                                             *)
Hears(n, m, w) == LastVersion(n) = 0 \/ CanReconcile(n, m, w)

(* Mutant: a startup watermark never lowers the one in the book. *)
ReconciledUp(n, m, w) == Max({book[n][m], w})

Reconciled(n, m, w) == IF LastVersion(n) = 0 \/ ~Hears(n, m, w) THEN book[n][m] ELSE w

(* AttachPeer, with the snapshot of this moment. *)
Attached(n) == [NoSession EXCEPT !.pc = "plan", !.snapshot = snapshot[n]]

OpenConns == {{p[1], p[2]} : p \in {q \in Nodes \X Nodes : Connected(q[1], q[2])}}

(* Both ends attach and say their watermarks: n says its own before it has *)
(* heard m, or after.  One that is refused closes the connection.          *)
Connect(n, m) ==
  /\ n # m /\ up[n] /\ up[m] /\ ~Connected(n, m)
  /\ conns + Cardinality(OpenConns) < MaxConns
  /\ conns' = conns + 1
  /\ LET v == book[m][n]
     IN \E w \in {book[n][m], Reconciled(n, m, v)} :
          /\ book' = [book EXCEPT ![n][m] = Reconciled(n, m, v), ![m][n] = Reconciled(m, n, w)]
          /\ lost' = lost \ {p \in {<<n, m>>, <<m, n>>} :
                               IF p[1] = n THEN Hears(n, m, v) ELSE Hears(m, n, w)}
          /\ sess' = IF Hears(n, m, v) /\ Hears(m, n, w)
                       THEN [sess EXCEPT ![n][m] = Attached(n), ![m][n] = Attached(m)]
                       ELSE sess
  /\ UNCHANGED <<hist, floor, log, checkpoint, members, process, wire, stops, wipes>>

Disconnect(pair) ==
  /\ Closed({pair})
  /\ UNCHANGED <<hist, files, process, lost, counts>>

(* RepairBatch: the first MaxRecords records behind the watermark. *)
Selected(n, from) ==
  LET remaining == {v \in log[n] : v > from}
  IN {v \in remaining : Cardinality({u \in remaining : u <= v}) <= MaxRecords}

(* normalizeRepairSnapshot: a snapshot is one frame, of MaxRecords records *)
(* at most.                                                                *)
Fits(recs) == Cardinality({k \in LogicalKeys : recs[k] # 0}) <= MaxRecords

(* Run is at SendNext: at first, or when the last frame is acknowledged    *)
(* and there is more.                                                      *)
AtSendNext(n, m) ==
  \/ sess[n][m].pc = "plan"
  \/ sess[n][m].pc = "wait" /\ sess[n][m].more /\ book[n][m] >= sess[n][m].to

Sent(n, m, frame, more) ==
  /\ wire' = [wire EXCEPT ![n][m] = Append(@, frame)]
  /\ sess' = [sess EXCEPT ![n][m].pc = "wait", ![n][m].to = frame.to, ![n][m].more = more]

(* SendNext: PlanRepair and the frame. *)
SendBatch(n, m) ==
  /\ AtSendNext(n, m)
  /\ book[n][m] >= floor[n]
  /\ LET from == book[n][m]
         to == Max(Selected(n, from) \cup {from})
     IN Sent(n, m, Frame("batch", from, to, Selected(n, from), Empty), \E v \in log[n] : v > to)
  /\ UNCHANGED <<hist, files, process, lost, counts>>

SendSnapshot(n, m) ==
  /\ AtSendNext(n, m)
  /\ book[n][m] < floor[n]
  /\ LET snap == sess[n][m].snapshot
     IN /\ snap.to = floor[n] /\ Fits(snap.recs)
        /\ Sent(n, m, Frame("snapshot", book[n][m], snap.to, {}, snap.recs), FALSE)
  /\ UNCHANGED <<hist, files, process, lost, counts>>

(* ErrRepairSnapshotRequired, ErrRepairSnapshotWatermark, ErrRepairLimit:  *)
(* Run ends.                                                               *)
SendFails(n, m) ==
  /\ AtSendNext(n, m)
  /\ book[n][m] < floor[n]
  /\ sess[n][m].snapshot.to # floor[n] \/ ~Fits(sess[n][m].snapshot.recs)
  /\ sess' = [sess EXCEPT ![n][m].pc = "wait", ![n][m].more = FALSE]
  /\ UNCHANGED <<hist, files, process, wire, lost, counts>>

-----------------------------------------------------------------------------
(* Handle of node n for a frame of m.  An error closes the connection.     *)

Receives(n, m, type) == wire[m][n] # <<>> /\ Head(wire[m][n]).type = type

Received(n, m) == Head(wire[m][n])

Taken(n, m) == [wire EXCEPT ![m][n] = Tail(@)]

Replied(n, m, w) == [wire EXCEPT ![m][n] = Tail(@), ![n][m] = Append(@, Ack(w))]

(* RepairCoordinator.Acknowledge. *)
CanAcknowledge(n, m, w) ==
  w = 0 \/ (w <= LastVersion(n) /\ w >= book[n][m] /\ HasRoom(n, m))

AcknowledgedAt(n, m, w) == IF w = 0 THEN book ELSE [book EXCEPT ![n][m] = w]

HandleAck(n, m) ==
  /\ Receives(n, m, "ack")
  /\ CanAcknowledge(n, m, Received(n, m).to)
  /\ book' = AcknowledgedAt(n, m, Received(n, m).to)
  /\ wire' = Taken(n, m)
  /\ UNCHANGED <<hist, floor, log, checkpoint, members, process, sess, lost, counts>>

HandleDuplicate(n, m) ==
  /\ Receives(n, m, "batch") \/ Receives(n, m, "snapshot")
  /\ Received(n, m).to <= book[n][m]
  /\ wire' = Replied(n, m, book[n][m])
  /\ UNCHANGED <<hist, files, process, sess, lost, counts>>

(* The records of a batch that Applier.Apply appends: those that are newer *)
(* than what their key has.  A stale one or a duplicate is passed over.    *)
Fresh(n, records) == {v \in records : Outcome(v, view[n][KeyOf(v)]) = "applied"}

InOrder(n, records) == \A v \in Fresh(n, records) : v > LastVersion(n)

AppliedAll(n, records) ==
  /\ InOrder(n, records)
  /\ log' = [log EXCEPT ![n] = @ \cup Fresh(n, records)]
  /\ view' = [view EXCEPT ![n] = Replayed(@, records)]

StartsAt(n, m, type) ==
  /\ Receives(n, m, type)
  /\ Received(n, m).to > book[n][m]
  /\ type = "batch" => Received(n, m).from = book[n][m]

(* handleBatch. *)
HandleBatch(n, m) ==
  /\ StartsAt(n, m, "batch")
  /\ LET f == Received(n, m)
     IN /\ AppliedAll(n, f.records)
        /\ f.to <= Max(log'[n] \cup {floor[n]}) /\ HasRoom(n, m)
        /\ book' = [book EXCEPT ![n][m] = f.to]
        /\ wire' = Replied(n, m, f.to)
  /\ UNCHANGED <<hist, floor, checkpoint, members, up, mutated, snapshot, sess, lost, counts>>

(* A record of the batch fails, or the watermark cannot be stored: the     *)
(* records before stay.                                                    *)
HandleBatchFails(n, m) ==
  /\ StartsAt(n, m, "batch")
  /\ \E cut \in Received(n, m).records \cup {Received(n, m).to + 1} :
       AppliedAll(n, {v \in Received(n, m).records : v < cut})
  /\ Closed({{n, m}})
  /\ UNCHANGED <<hist, floor, checkpoint, book, members, up, mutated, snapshot, lost, counts>>

(* Mutant: a snapshot that is behind the journal is installed. *)
CanInstallStale(n, f) == TRUE

(* InstallSnapshot: a checkpoint that is not behind the journal. *)
CanInstall(n, f) == f.to >= LastVersion(n)

(* Mutant: the journal keeps its records under the new floor. *)
InstalledKeeping(n, f) ==
  /\ CanInstall(n, f)
  /\ checkpoint' = [checkpoint EXCEPT ![n] = f.recs]
  /\ floor' = [floor EXCEPT ![n] = f.to]
  /\ view' = [view EXCEPT ![n] = f.recs]
  /\ UNCHANGED log

(* ApplySnapshot; lifecycleRuntime.snapshot stays what it was. *)
Installed(n, f) ==
  /\ CanInstall(n, f)
  /\ checkpoint' = [checkpoint EXCEPT ![n] = f.recs]
  /\ floor' = [floor EXCEPT ![n] = f.to]
  /\ log' = [log EXCEPT ![n] = {}]
  /\ view' = [view EXCEPT ![n] = f.recs]

(* handleSnapshot. *)
HandleSnapshot(n, m) ==
  /\ StartsAt(n, m, "snapshot")
  /\ LET f == Received(n, m)
     IN /\ Installed(n, f) /\ HasRoom(n, m)
        /\ book' = [book EXCEPT ![n][m] = f.to]
        /\ wire' = Replied(n, m, f.to)
  /\ UNCHANGED <<hist, members, up, mutated, snapshot, sess, lost, counts>>

(* The snapshot is installed, and its watermark cannot be stored. *)
HandleSnapshotFails(n, m) ==
  /\ StartsAt(n, m, "snapshot")
  /\ Installed(n, Received(n, m))
  /\ Closed({{n, m}})
  /\ UNCHANGED <<hist, book, members, up, mutated, snapshot, lost, counts>>

(* The errors before anything is applied. *)
Refused(n, m) ==
  \/ /\ Receives(n, m, "ack")
     /\ ~CanAcknowledge(n, m, Received(n, m).to)
  \/ /\ Receives(n, m, "batch")
     /\ Received(n, m).to > book[n][m] /\ Received(n, m).from # book[n][m]
  \/ /\ StartsAt(n, m, "snapshot")
     /\ ~CanInstall(n, Received(n, m))

HandleFails(n, m) ==
  /\ Refused(n, m)
  /\ Closed({{n, m}})
  /\ UNCHANGED <<hist, files, process, lost, counts>>

-----------------------------------------------------------------------------
SessionStep(n, m) ==
  \/ Connect(n, m)
  \/ SendBatch(n, m) \/ SendSnapshot(n, m) \/ SendFails(n, m)
  \/ HandleAck(n, m) \/ HandleDuplicate(n, m)
  \/ HandleBatch(n, m) \/ HandleBatchFails(n, m) \/ HandleSnapshot(n, m)
  \/ HandleSnapshotFails(n, m) \/ HandleFails(n, m)

LifecycleNext ==
  \/ \E k \in LogicalKeys : Mutate(k)
  \/ \E pair \in OpenConns : Disconnect(pair)
  \/ \E n \in Nodes :
       \/ Stop(n) \/ Wipe(n)
       \/ \E flag \in Flags(n) : Start(n, flag) \/ CompactRun(n, flag)
       \/ \E m \in Nodes : SessionStep(n, m)

LifecycleSpec == LifecycleInit /\ [][LifecycleNext]_lvars

-----------------------------------------------------------------------------
(* What a node answers from, or would after a restart. *)
Answer(n) == IF up[n] THEN view[n] ELSE Replayed(checkpoint[n], log[n])

R == INSTANCE Replication WITH
       history <- hist,
       have <- [n \in Nodes |-> LastVersion(n)],
       answer <- [n \in Nodes |-> Answer(n)]

(* The promise of lifecycle replication, module Replication: whichever     *)
(* peers its records and snapshots come from, in which order, and however  *)
(* often it restarts, a node answers for every key with the newest record  *)
(* of a prefix of the authority's history, and that prefix never shrinks.  *)
ImplementsReplication == R!ReplicationSpec

(* What a node passes on is the history itself: a checkpoint is the state  *)
(* at the journal's floor and the journal is every record after it, on     *)
(* followers as on the authority, so that any node can repair any other;   *)
(* and the book of a node keeps within the number of peers it can reload.  *)
PassesOnHistory ==
  /\ LifecycleTypeOK
  /\ \A n \in Nodes : /\ checkpoint[n] = R!ViewAt(hist, floor[n])
                      /\ log[n] = (floor[n] + 1)..LastVersion(n)

(* A watermark never claims more than the peer has, whoever gave it the    *)
(* records: with three nodes the startup watermark of one peer must not be *)
(* taken for what another one said.  A peer that lost its directory is the *)
(* exception, until it has been heard.                                     *)
WatermarksCovered ==
  \A n, m \in Nodes : <<n, m>> \notin lost => book[n][m] <= LastVersion(m)

(* docs/LIFECYCLE_V0_13.md: compaction is fenced by the operator's members,*)
(* and without a membership file it is refused.  When a node compacts,     *)
(* there is such a file and every member has what is dropped.              *)
CompactionFencedByMembers ==
  [][\A n \in Nodes :
       floor'[n] > floor[n] /\ ~up[n] =>
         /\ members'[n].configured
         /\ \A m \in members'[n].ids : <<n, m>> \in lost \/ floor'[n] <= LastVersion(m)]_lvars

(* docs/LIFECYCLE_V0_13.md:150: "a full snapshot fallback when a peer's    *)
(* watermark is older than the retained journal floor".  It does not hold  *)
(* once there are more keys than a frame takes (README, "Disagreements").  *)
SnapshotFits == \A n \in Nodes : floor[n] # 0 => Fits(checkpoint[n])
=============================================================================
