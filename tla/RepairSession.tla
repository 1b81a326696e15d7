--------------------------- MODULE RepairSession ---------------------------
(***************************************************************************)
(* Lifecycle repair between two nodes (internal/lifecycle/session.go,      *)
(* repair.go, watermark.go and the sessions of lifecycle_cli.go).  Source  *)
(* is the authority whose mutations both nodes keep; each node keeps a     *)
(* durable watermark for the other one and, while connected, a session: a  *)
(* goroutine (Run) that sends and one (Handle, in the transport's read     *)
(* loop) that receives.                                                    *)
(*                                                                         *)
(* A record is its version, its rank in the authority's history.           *)
(***************************************************************************)
EXTENDS Naturals, Sequences, FiniteSets, FiniteSetsExt

CONSTANTS
  Nodes, Source,
  MaxVersion,   \* bound: mutations of the authority
  MaxRecords,   \* RepairLimits.MaxRecords
  MaxStops,     \* bound: how often nodes stop or crash
  MaxWipes,     \* bound: how often a follower loses its lifecycle directory
  MaxFails      \* bound: how often a raw blob preflight fails

ASSUME RepairAssumption ==
  /\ \E m \in Nodes : m # Source /\ Nodes = {Source, m}
  /\ MaxVersion \in Nat /\ MaxRecords \in Nat \ {0}
  /\ MaxStops \in Nat /\ MaxWipes \in Nat /\ MaxFails \in Nat

VARIABLES
  floor, log,  \* the journal: Journal.floor and the retained records
  book,        \* WatermarkBook: the entry of the other node
  blobs,       \* the raw blobs a node has, by the record that refers to them
  up,          \* is the process running?
  mutated,     \* has this run of the source made its one mutation?
  snapshot,    \* lifecycleRuntime.snapshot: its watermark, 0 for none
  conn,        \* is a node's end of the connection registered?
  wire,        \* wire[n]: the frames on their way to n
  run,         \* the goroutine in RepairSession.Run
  handler,     \* the goroutine in RepairSession.Handle
  lost,        \* history: nodes whose last wipe the other has not reconciled
  stops, wipes, fails

durable == <<floor, log, book, blobs>>
process == <<up, mutated, snapshot>>
session == <<conn, wire, run, handler>>
counts == <<stops, wipes, fails>>
vars == <<durable, process, session, lost, counts>>

-----------------------------------------------------------------------------
Versions == 0..MaxVersion

Other(n) == CHOOSE m \in Nodes : m # n

LastVersion(n) == Max(log[n] \cup {floor[n]})

Frames ==
  [type : {"ack"}, from : {0}, to : Versions, records : {{}}]
    \cup [type : {"batch"}, from : Versions, to : Versions, records : SUBSET (1..MaxVersion)]
    \cup [type : {"snapshot"}, from : {0}, to : Versions, records : {{}}]

Ack(w) == [type |-> "ack", from |-> 0, to |-> w, records |-> {}]

Batch(from, to, records) ==
  [type |-> "batch", from |-> from, to |-> to, records |-> records]

Snapshot(w) == [type |-> "snapshot", from |-> 0, to |-> w, records |-> {}]

(* Run: pc, helloReceived, ackNotify, the session's snapshot and the plan: *)
(* its frame, More, and the tail the journal had at that moment.           *)
NoRun == [pc |-> "none", hello |-> FALSE, notify |-> FALSE, snapshot |-> 0,
          frame |-> Ack(0), more |-> FALSE, tail |-> 0]

NewRun(w) == [NoRun EXCEPT !.pc = "start", !.snapshot = w]

(* Handle: what it is doing, the frame's watermark, records left to apply. *)
Idle == [pc |-> "idle", to |-> 0, records |-> {}]

RepairTypeOK ==
  /\ floor \in [Nodes -> Versions]
  /\ log \in [Nodes -> SUBSET (1..MaxVersion)]
  /\ book \in [Nodes -> Versions]
  /\ blobs \in [Nodes -> SUBSET (1..MaxVersion)]
  /\ up \in [Nodes -> BOOLEAN]
  /\ mutated \in BOOLEAN
  /\ snapshot \in [Nodes -> Versions]
  /\ conn \in [Nodes -> BOOLEAN]
  /\ wire \in [Nodes -> Seq(Frames)]
  /\ run \in [Nodes -> [pc : {"none", "start", "greeted", "preflight", "plan", "send",
                              "check", "blocked", "done", "failed"},
                        hello : BOOLEAN, notify : BOOLEAN, snapshot : Versions,
                        frame : Frames, more : BOOLEAN, tail : Versions]]
  /\ handler \in [Nodes -> [pc : {"idle", "reconcile", "apply", "acknowledge", "reply"},
                            to : Versions, records : SUBSET (1..MaxVersion)]]
  /\ lost \subseteq Nodes
  /\ stops \in 0..MaxStops /\ wipes \in 0..MaxWipes /\ fails \in 0..MaxFails

RepairInit ==
  /\ floor = [n \in Nodes |-> 0]
  /\ log = [n \in Nodes |-> {}]
  /\ book = [n \in Nodes |-> 0]
  /\ blobs = [n \in Nodes |-> {}]
  /\ up = [n \in Nodes |-> FALSE]
  /\ mutated = FALSE
  /\ snapshot = [n \in Nodes |-> 0]
  /\ conn = [n \in Nodes |-> FALSE]
  /\ wire = [n \in Nodes |-> <<>>]
  /\ run = [n \in Nodes |-> NoRun]
  /\ handler = [n \in Nodes |-> Idle]
  /\ lost = {}
  /\ stops = 0 /\ wipes = 0 /\ fails = 0

-----------------------------------------------------------------------------
(* Processes and connections. *)

(* openLifecycleRuntime: the checkpoint is the one of the journal's floor. *)
Start(n) ==
  /\ ~up[n]
  /\ up' = [up EXCEPT ![n] = TRUE]
  /\ snapshot' = [snapshot EXCEPT ![n] = floor[n]]
  /\ mutated' = IF n = Source THEN FALSE ELSE mutated
  /\ UNCHANGED <<durable, session, lost, counts>>

(* The one mutation of a run: lifecycleRuntime.put through Applier.Apply.  *)
Mutate ==
  /\ up[Source] /\ ~mutated
  /\ LastVersion(Source) < MaxVersion
  /\ LET v == LastVersion(Source) + 1
     IN /\ log' = [log EXCEPT ![Source] = @ \cup {v}]
        /\ blobs' = [blobs EXCEPT ![Source] = @ \cup {v}]
  /\ mutated' = TRUE
  /\ UNCHANGED <<floor, book, up, snapshot, session, lost, counts>>

(* unregisterPeer at one end: ForgetPeer cancels the session, what is on   *)
(* its way to this end is never read.                                      *)
Closed(n) ==
  /\ conn' = [conn EXCEPT ![n] = FALSE]
  /\ wire' = [wire EXCEPT ![n] = <<>>]
  /\ run' = [run EXCEPT ![n] = NoRun]
  /\ handler' = [handler EXCEPT ![n] = Idle]

(* AttachPeer on both sides: a session keeps the snapshot of this moment.  *)
Connect ==
  /\ \A n \in Nodes : up[n] /\ ~conn[n]
  /\ conn' = [n \in Nodes |-> TRUE]
  /\ run' = [n \in Nodes |-> NewRun(snapshot[n])]
  /\ UNCHANGED <<durable, process, wire, handler, lost, counts>>

(* The read loop of n finds the connection broken, between two frames.     *)
Disconnect(n) ==
  /\ conn[n] /\ handler[n].pc = "idle"
  /\ Closed(n)
  /\ UNCHANGED <<durable, process, lost, counts>>

(* A process stops or crashes, possibly in the middle of a handler. *)
Stop(n) ==
  /\ up[n] /\ stops < MaxStops
  /\ stops' = stops + 1
  /\ up' = [up EXCEPT ![n] = FALSE]
  /\ Closed(n)
  /\ UNCHANGED <<durable, mutated, snapshot, lost, wipes, fails>>

(* A follower's lifecycle directory is lost while it is down. *)
Wipe(n) ==
  /\ n # Source /\ ~up[n] /\ wipes < MaxWipes
  /\ LastVersion(n) # 0
  /\ wipes' = wipes + 1
  /\ floor' = [floor EXCEPT ![n] = 0]
  /\ log' = [log EXCEPT ![n] = {}]
  /\ book' = [book EXCEPT ![n] = 0]
  /\ lost' = lost \cup {n}
  /\ UNCHANGED <<blobs, process, session, stops, fails>>

(* Mutant: the compaction run does not ask for the members' watermarks.    *)
CompactUnfenced(n) ==
  /\ ~up[n]
  /\ LastVersion(n) > floor[n]
  /\ floor' = [floor EXCEPT ![n] = LastVersion(n)]
  /\ log' = [log EXCEPT ![n] = {}]
  /\ UNCHANGED <<book, blobs, process, session, lost, counts>>

(* A compaction run (lifecycleRuntime.compact): the process only compacts, *)
(* up to its tail, which every member must have acknowledged.              *)
Compact(n) ==
  /\ ~up[n]
  /\ LastVersion(n) > floor[n]
  /\ book[n] >= LastVersion(n)
  /\ floor' = [floor EXCEPT ![n] = LastVersion(n)]
  /\ log' = [log EXCEPT ![n] = {}]
  /\ UNCHANGED <<book, blobs, process, session, lost, counts>>

-----------------------------------------------------------------------------
(* RepairSession.Run of node n. *)

(* WriteFrame; an end that is gone reads nothing. *)
Send(m, frame) ==
  wire' = IF conn[m] THEN [wire EXCEPT ![m] = Append(@, frame)] ELSE wire

Goto(n, pc) == run' = [run EXCEPT ![n].pc = pc]

(* sendStartupWatermark. *)
SendHello(n) ==
  /\ run[n].pc = "start"
  /\ Send(Other(n), Ack(book[n]))
  /\ Goto(n, "greeted")
  /\ UNCHANGED <<durable, process, conn, handler, lost, counts>>

(* waitForStartupWatermark, which a node with an empty journal skips. *)
HelloPassed(n) ==
  /\ run[n].pc = "greeted"
  /\ LastVersion(n) = 0 \/ run[n].hello
  /\ Goto(n, "preflight")
  /\ UNCHANGED <<durable, process, conn, wire, handler, lost, counts>>

(* recordsForRawSync: what the peer's watermark does not cover. *)
RawRecords(n) ==
  {v \in log[n] : v > book[n]}
    \cup (IF book[n] < floor[n] THEN {v \in 1..snapshot[n] : v > book[n]} ELSE {})

(* BeforeRepair: the blobs of those records are sent and acknowledged. *)
Preflight(n) ==
  /\ run[n].pc = "preflight"
  /\ blobs' = [blobs EXCEPT ![Other(n)] = @ \cup RawRecords(n)]
  /\ Goto(n, "plan")
  /\ UNCHANGED <<floor, log, book, process, conn, wire, handler, lost, counts>>

(* A blob is not acknowledged in time: Run returns the error. *)
PreflightFails(n) ==
  /\ run[n].pc = "preflight"
  /\ RawRecords(n) # {}
  /\ fails < MaxFails
  /\ fails' = fails + 1
  /\ Goto(n, "failed")
  /\ UNCHANGED <<durable, process, conn, wire, handler, lost, stops, wipes>>

Planned(n, frame, more) ==
  run' = [run EXCEPT ![n].pc = "send", ![n].frame = frame, ![n].more = more,
                     ![n].tail = LastVersion(n)]

(* PlanRepair, snapshot mode: Run has nothing to plan after it (More is    *)
(* false).                                                                 *)
PlanSnapshot(n) ==
  /\ run[n].pc = "plan"
  /\ book[n] < floor[n] /\ run[n].snapshot = floor[n]
  /\ Planned(n, Snapshot(floor[n]), FALSE)
  /\ UNCHANGED <<durable, process, conn, wire, handler, lost, counts>>

(* ErrRepairSnapshotRequired, ErrRepairSnapshotWatermark: Run returns.     *)
PlanFails(n) ==
  /\ run[n].pc = "plan"
  /\ book[n] < floor[n] /\ run[n].snapshot # floor[n]
  /\ Goto(n, "failed")
  /\ UNCHANGED <<durable, process, conn, wire, handler, lost, counts>>

(* Journal.RepairBatch: the first MaxRecords records after the watermark.  *)
Selected(n) ==
  LET remaining == {v \in log[n] : v > book[n]}
  IN {v \in remaining : Cardinality({u \in remaining : u <= v}) <= MaxRecords}

(* PlanRepair, journal mode; the batch may be empty. *)
PlanBatch(n) ==
  /\ run[n].pc = "plan"
  /\ book[n] >= floor[n]
  /\ LET to == Max(Selected(n) \cup {book[n]})
     IN Planned(n, Batch(book[n], to, Selected(n)), \E v \in log[n] : v > to)
  /\ UNCHANGED <<durable, process, conn, wire, handler, lost, counts>>

(* SendNext writes the frame; Run waits for its acknowledgement unless the *)
(* frame is an empty batch.                                                *)
SendFrame(n) ==
  /\ run[n].pc = "send"
  /\ Send(Other(n), run[n].frame)
  /\ Goto(n, IF run[n].frame.to > run[n].frame.from THEN "check" ELSE "done")
  /\ UNCHANGED <<durable, process, conn, handler, lost, counts>>

(* waitForAcknowledgement: look at the book, or wait to be notified. *)
CheckWatermark(n) ==
  /\ run[n].pc = "check"
  /\ Goto(n, IF book[n] < run[n].frame.to THEN "blocked"
             ELSE IF run[n].more THEN "plan" ELSE "done")
  /\ UNCHANGED <<durable, process, conn, wire, handler, lost, counts>>

AckNotified(n) ==
  /\ run[n].pc = "blocked" /\ run[n].notify
  /\ run' = [run EXCEPT ![n].pc = "check", ![n].notify = FALSE]
  /\ UNCHANGED <<durable, process, conn, wire, handler, lost, counts>>

-----------------------------------------------------------------------------
(* RepairSession.Handle of node n, on the frame at the head of its wire.   *)
(* An error ends the read loop: this end unregisters the peer, the other   *)
(* end notices nothing yet.                                                *)

Receives(n, type) ==
  /\ conn[n] /\ handler[n].pc = "idle"
  /\ wire[n] # <<>> /\ Head(wire[n]).type = type

Popped(n) == [wire EXCEPT ![n] = Tail(@)]

PoppedReply(n, frame) ==
  [wire EXCEPT ![n] = Tail(@),
               ![Other(n)] = IF conn[Other(n)] THEN Append(@, frame) ELSE @]

(* The first acknowledgement is the peer's startup watermark: Run may go   *)
(* on before it is reconciled.                                             *)
HandleHello(n) ==
  /\ Receives(n, "ack") /\ ~run[n].hello
  /\ run' = [run EXCEPT ![n].hello = TRUE]
  /\ handler' = [handler EXCEPT ![n] = [pc |-> "reconcile", to |-> Head(wire[n]).to,
                                        records |-> {}]]
  /\ wire' = Popped(n)
  /\ UNCHANGED <<durable, process, conn, lost, counts>>

(* Mutant: a startup watermark never lowers the one in the book. *)
ReconcileMonotone(n) ==
  /\ handler[n].pc = "reconcile"
  /\ handler[n].to <= LastVersion(n) \/ LastVersion(n) = 0
  /\ book' = IF LastVersion(n) = 0 THEN book
             ELSE [book EXCEPT ![n] = Max({@, handler[n].to})]
  /\ lost' = IF conn[Other(n)] THEN lost \ {Other(n)} ELSE lost
  /\ handler' = [handler EXCEPT ![n] = Idle]
  /\ UNCHANGED <<floor, log, blobs, process, conn, wire, run, counts>>

(* RepairCoordinator.Reconcile, which may lower the watermark. *)
Reconcile(n) ==
  /\ handler[n].pc = "reconcile"
  /\ handler[n].to <= LastVersion(n) \/ LastVersion(n) = 0
  /\ book' = IF LastVersion(n) = 0 THEN book
             ELSE [book EXCEPT ![n] = handler[n].to]
  /\ lost' = IF conn[Other(n)] THEN lost \ {Other(n)} ELSE lost
  /\ handler' = [handler EXCEPT ![n] = Idle]
  /\ UNCHANGED <<floor, log, blobs, process, conn, wire, run, counts>>

(* Mutant: the waiting Run is not notified. *)
HandleAckSilent(n) ==
  /\ Receives(n, "ack") /\ run[n].hello
  /\ LET w == Head(wire[n]).to
     IN /\ w = 0 \/ (w <= LastVersion(n) /\ w >= book[n])
        /\ book' = IF w = 0 THEN book ELSE [book EXCEPT ![n] = w]
  /\ wire' = Popped(n)
  /\ UNCHANGED <<floor, log, blobs, process, conn, run, handler, lost, counts>>

(* RepairCoordinator.Acknowledge of a later acknowledgement. *)
HandleAck(n) ==
  /\ Receives(n, "ack") /\ run[n].hello
  /\ LET w == Head(wire[n]).to
     IN /\ w = 0 \/ (w <= LastVersion(n) /\ w >= book[n])
        /\ book' = IF w = 0 THEN book ELSE [book EXCEPT ![n] = w]
  /\ run' = [run EXCEPT ![n].notify = TRUE]
  /\ wire' = Popped(n)
  /\ UNCHANGED <<floor, log, blobs, process, conn, handler, lost, counts>>

(* handleBatch, handleSnapshot: what the watermark covers is answered with *)
(* the watermark.                                                          *)
HandleDuplicate(n) ==
  /\ Receives(n, "batch") \/ Receives(n, "snapshot")
  /\ Head(wire[n]).to <= book[n]
  /\ wire' = PoppedReply(n, Ack(book[n]))
  /\ UNCHANGED <<durable, process, conn, run, handler, lost, counts>>

(* Mutant: a batch that does not start at the watermark is taken, too.     *)
HandleBatchGap(n) ==
  /\ Receives(n, "batch")
  /\ Head(wire[n]).to > book[n]
  /\ handler' = [handler EXCEPT ![n] = [pc |-> "apply", to |-> Head(wire[n]).to,
                                        records |-> Head(wire[n]).records]]
  /\ wire' = Popped(n)
  /\ UNCHANGED <<durable, process, conn, run, lost, counts>>

(* A batch that starts at the watermark is applied. *)
HandleBatch(n) ==
  /\ Receives(n, "batch")
  /\ Head(wire[n]).to > book[n] /\ Head(wire[n]).from = book[n]
  /\ handler' = [handler EXCEPT ![n] = [pc |-> "apply", to |-> Head(wire[n]).to,
                                        records |-> Head(wire[n]).records]]
  /\ wire' = Popped(n)
  /\ UNCHANGED <<durable, process, conn, run, lost, counts>>

Known(n, v) == v <= floor[n] \/ v \in log[n]

(* Mutant: a record is applied without its blob. *)
CanApplyBlobless(n, v) == Known(n, v) \/ v > LastVersion(n)

(* Applier.Apply of the next record: one that is known is a duplicate, a   *)
(* new one needs its blob and a place at the end of the journal.           *)
CanApply(n, v) == Known(n, v) \/ (v \in blobs[n] /\ v > LastVersion(n))

ApplyRecord(n) ==
  /\ handler[n].pc = "apply" /\ handler[n].records # {}
  /\ LET v == Min(handler[n].records)
     IN /\ CanApply(n, v)
        /\ log' = IF Known(n, v) THEN log ELSE [log EXCEPT ![n] = @ \cup {v}]
        /\ handler' = [handler EXCEPT ![n].records = @ \ {v}]
  /\ UNCHANGED <<floor, book, blobs, process, conn, wire, run, lost, counts>>

(* Every record of the batch is applied. *)
BatchApplied(n) ==
  /\ handler[n].pc = "apply" /\ handler[n].records = {}
  /\ handler' = [handler EXCEPT ![n].pc = "acknowledge"]
  /\ UNCHANGED <<durable, process, conn, wire, run, lost, counts>>

(* Applier.ApplySnapshot; lifecycleRuntime.snapshot stays what it was. *)
HandleSnapshot(n) ==
  /\ Receives(n, "snapshot")
  /\ LET w == Head(wire[n]).to
     IN /\ w > book[n]
        /\ 1..w \subseteq blobs[n]
        /\ w >= LastVersion(n)
        /\ floor' = [floor EXCEPT ![n] = w]
        /\ log' = [log EXCEPT ![n] = {}]
        /\ handler' = [handler EXCEPT ![n] = [pc |-> "acknowledge", to |-> w,
                                              records |-> {}]]
  /\ wire' = Popped(n)
  /\ UNCHANGED <<book, blobs, process, conn, run, lost, counts>>

(* RepairCoordinator.Acknowledge. *)
Acknowledge(n) ==
  /\ handler[n].pc = "acknowledge"
  /\ handler[n].to <= LastVersion(n) /\ handler[n].to >= book[n]
  /\ book' = [book EXCEPT ![n] = handler[n].to]
  /\ handler' = [handler EXCEPT ![n].pc = "reply"]
  /\ UNCHANGED <<floor, log, blobs, process, conn, wire, run, lost, counts>>

(* writeAck. *)
WriteAck(n) ==
  /\ handler[n].pc = "reply"
  /\ Send(Other(n), Ack(handler[n].to))
  /\ handler' = [handler EXCEPT ![n] = Idle]
  /\ UNCHANGED <<durable, process, conn, run, lost, counts>>

(* The errors of Handle. *)
Refused(n) ==
  \/ /\ handler[n].pc = "reconcile"
     /\ LastVersion(n) # 0 /\ handler[n].to > LastVersion(n)
  \/ /\ Receives(n, "ack") /\ run[n].hello
     /\ LET w == Head(wire[n]).to
        IN w # 0 /\ (w > LastVersion(n) \/ w < book[n])
  \/ /\ Receives(n, "batch")
     /\ Head(wire[n]).to > book[n] /\ Head(wire[n]).from # book[n]
  \/ /\ handler[n].pc = "apply" /\ handler[n].records # {}
     /\ ~CanApply(n, Min(handler[n].records))
  \/ /\ Receives(n, "snapshot")
     /\ LET w == Head(wire[n]).to
        IN w > book[n] /\ (~(1..w \subseteq blobs[n]) \/ w < LastVersion(n))
  \/ /\ handler[n].pc = "acknowledge"
     /\ handler[n].to > LastVersion(n) \/ handler[n].to < book[n]

HandleFails(n) ==
  /\ Refused(n)
  /\ Closed(n)
  /\ UNCHANGED <<durable, process, lost, counts>>

-----------------------------------------------------------------------------
RunStep(n) ==
  \/ SendHello(n) \/ HelloPassed(n) \/ Preflight(n) \/ PreflightFails(n)
  \/ PlanSnapshot(n) \/ PlanFails(n) \/ PlanBatch(n) \/ SendFrame(n)
  \/ CheckWatermark(n) \/ AckNotified(n)

HandleStep(n) ==
  \/ HandleHello(n) \/ Reconcile(n) \/ HandleAck(n) \/ HandleDuplicate(n)
  \/ HandleBatch(n) \/ ApplyRecord(n) \/ BatchApplied(n) \/ HandleSnapshot(n)
  \/ Acknowledge(n) \/ WriteAck(n) \/ HandleFails(n)

RepairNext ==
  \/ Mutate \/ Connect
  \/ \E n \in Nodes : \/ Start(n) \/ Stop(n) \/ Wipe(n) \/ Compact(n)
                      \/ Disconnect(n)
                      \/ RunStep(n) \/ HandleStep(n)

RepairSpec == RepairInit /\ [][RepairNext]_vars

(* Both goroutines of a session are scheduled, and a connection whose other*)
(* end is gone is noticed once that end's socket is closed: with its       *)
(* process, or by the finalizer of a socket that nothing refers to.        *)
RepairFairSpec ==
  /\ RepairSpec
  /\ \A n \in Nodes : /\ WF_vars(RunStep(n)) /\ WF_vars(HandleStep(n))
                      /\ WF_vars(~conn[Other(n)] /\ Disconnect(n))

-----------------------------------------------------------------------------
(* docs/LIFECYCLE_V0_13.md: repair "refuses gaps".  A node's journal is    *)
(* the authority's history from its floor to its tail, with no hole, and   *)
(* nothing else that a node keeps or sends is outside that history.        *)
NoGaps ==
  /\ RepairTypeOK
  /\ \A n \in Nodes : log[n] = (floor[n] + 1)..LastVersion(n)

(* A watermark never claims more than the other node has: "acknowledges    *)
(* received batches or snapshots only after durable apply".  A peer that   *)
(* lost its directory is the exception, until it has said hello.           *)
WatermarkCovered ==
  \A n \in Nodes : Other(n) \notin lost => book[n] <= LastVersion(Other(n))

(* A journal's floor rises only to what the other node has at that moment: *)
(* compaction never drops a record that a member still has to receive.     *)
CompactionFenced ==
  [][\A n \in Nodes : floor'[n] > floor[n] =>
       Other(n) \in lost \/ floor'[n] <= LastVersion(Other(n))]_vars

(* No node has a record whose blob it lacks. *)
BlobsPresent == \A n \in Nodes : 1..LastVersion(n) \subseteq blobs[n]

(* Run always comes to an end: whatever frames cross, no session waits     *)
(* forever on a living connection.                                         *)
RunEnds ==
  \A n \in Nodes : conn[n] ~> (~conn[n] \/ run[n].pc \in {"done", "failed"})

(* session.go: Run "stops after the current journal tail": a Run that      *)
(* returns without an error has had acknowledged everything that its       *)
(* journal held when it planned its last frame.  It does not hold when     *)
(* that frame is a snapshot (README, "Disagreements").                     *)
RunCoversTail ==
  \A n \in Nodes : run[n].pc = "done" => run[n].frame.to >= run[n].tail

(* docs/LIFECYCLE_V0_13.md: a RepairCoordinator "resumes the next batch    *)
(* after reconnect": the batch a node receives starts at its watermark or  *)
(* is a duplicate.  It does not hold when Run plans before the startup     *)
(* watermark is reconciled (README, "Disagreements").                      *)
BatchResumes ==
  \A n \in Nodes : Receives(n, "batch") =>
     Head(wire[n]).to <= book[n] \/ Head(wire[n]).from = book[n]
=============================================================================
