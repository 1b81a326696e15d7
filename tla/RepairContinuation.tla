------------------------- MODULE RepairContinuation -------------------------
(***************************************************************************)
(* How one node answers blob.missing (main.go): the read loop of a peer    *)
(* sends the blobs it is asked for up to a byte budget and hands the rest  *)
(* to the peer's repair continuation, a goroutine that sends them later in *)
(* budgets of its own; every blob read and write passes a process-wide     *)
(* limiter.                                                                *)
(*                                                                         *)
(* A key is a number: requests and continuations go through their keys in  *)
(* ascending order, the order in which inventories list them.  A peer is a *)
(* connection: its local and remote address name its continuation, and no  *)
(* later connection has both.                                              *)
(***************************************************************************)
EXTENDS Naturals, Sequences, FiniteSets, FiniteSetsExt

CONSTANTS
  Peers,
  Unreliable,    \* peers that may stop reading, or whose connection may fail
  Keys, Size,    \* blob keys, and the bytes of their blobs
  Budget,        \* Limits.MaxRepairBytes: bytes of one response
  MaxKeys,       \* Limits.MaxKeys: keys of one message and of one queue
  MaxOps,        \* -max-repair-ops: slots of the repairIOLimiter
  MaxAttempts,   \* maxRepairContinuationAttempts
  Requests       \* the keys of the blob.missing messages of a peer, in order

ASSUME ContinuationAssumption ==
  /\ Unreliable \subseteq Peers /\ IsFiniteSet(Peers)
  /\ Keys \subseteq Nat /\ IsFiniteSet(Keys)
  /\ Size \in [Keys -> Nat \ {0}]
  /\ Budget \in Nat \ {0} /\ MaxKeys \in Nat \ {0} /\ MaxOps \in Nat \ {0}
  /\ Requests \in [Peers -> Seq({keys \in SUBSET Keys : Cardinality(keys) \in 1..MaxKeys})]
  /\ MaxAttempts \in Nat

VARIABLES
  done,       \* has the process context been canceled?
  conn,       \* does the connection of a peer still carry frames?
  serving,    \* is the read loop of a peer running?
  entries,    \* repairContinuationScheduler.entries, by peer
  waiting,    \* goroutines in wait, by peer
  sends,      \* calls of sendRequestedBlobsResult, by peer and caller
  slots,      \* free slots of the limiter
  owed,       \* history: keys that a peer asked for and that were not sent,
              \* found not to be sendable, or given up
  requests    \* blob.missing messages received, by peer

history == <<owed, requests>>
cvars == <<done, conn, serving, entries, waiting, sends, slots, history>>

-----------------------------------------------------------------------------
(* The goroutines that send: the read loop of a peer and the runs of its   *)
(* continuation.  There is one run at a time (OneContinuation); the second *)
(* place is for a scheduler that would start two.                          *)
Runs == {"run", "second run"}

Callers == {"handler"} \cup Runs

NoEntry == [present |-> FALSE, pending |-> {}, attempt |-> 0,
            running |-> FALSE, scheduled |-> FALSE]

NewEntry == [NoEntry EXCEPT !.present = TRUE]

(* A call: the keys it still has to send, the bytes it has sent, and the   *)
(* attempt that a run read from its entry.  A call that returned holds the *)
(* deferred keys.                                                          *)
Idle == [pc |-> "idle", keys |-> {}, bytes |-> 0, attempt |-> 0]

Call(keys, attempt) == [pc |-> IF keys = {} THEN "returned" ELSE "next",
                        keys |-> keys, bytes |-> 0, attempt |-> attempt]

(* What a peer's queue of continuation keys can hold, and every variable's *)
(* type.                                                                   *)
ContinuationTypeOK ==
  /\ done \in BOOLEAN
  /\ conn \in [Peers -> {"up", "broken"}]
  /\ serving \in [Peers -> BOOLEAN]
  /\ entries \in [Peers -> [present : BOOLEAN, pending : SUBSET Keys,
                            attempt : 0..MaxAttempts, running : BOOLEAN,
                            scheduled : BOOLEAN]]
  /\ \A p \in Peers : Cardinality(entries[p].pending) <= MaxKeys
  /\ waiting \in [Peers -> Nat]
  /\ sends \in [Peers -> [Callers -> [pc : {"idle", "next", "holding", "returned",
                                            "schedule", "failed"},
                                      keys : SUBSET Keys, bytes : Nat,
                                      attempt : 0..MaxAttempts]]]
  /\ slots \in 0..MaxOps
  /\ owed \in [Peers -> SUBSET Keys]
  /\ requests \in [Peers -> Nat]

ContinuationInit ==
  /\ done = FALSE
  /\ conn = [p \in Peers |-> "up"]
  /\ serving = [p \in Peers |-> TRUE]
  /\ entries = [p \in Peers |-> NoEntry]
  /\ waiting = [p \in Peers |-> 0]
  /\ sends = [p \in Peers |-> [c \in Callers |-> Idle]]
  /\ slots = MaxOps
  /\ owed = [p \in Peers |-> {}]
  /\ requests = [p \in Peers |-> 0]

-----------------------------------------------------------------------------
(* The process and its connections. *)

(* The process context is canceled. *)
Shutdown ==
  /\ ~done
  /\ done' = TRUE
  /\ UNCHANGED <<conn, serving, entries, waiting, sends, slots, history>>

(* A connection fails, or a shutdown closes it. *)
Break(p) ==
  /\ conn[p] = "up" /\ (p \in Unreliable \/ done)
  /\ conn' = [conn EXCEPT ![p] = "broken"]
  /\ UNCHANGED <<done, serving, entries, waiting, sends, slots, history>>

(* The read loop ends, on a read error or on an error of its handler:      *)
(* OnPeerDisconnected forgets the peer's continuation.                     *)
ReadLoopEnds(p) ==
  /\ serving[p] /\ (p \in Unreliable \/ done)
  /\ sends[p]["handler"].pc \in {"idle", "failed"}
  /\ serving' = [serving EXCEPT ![p] = FALSE]
  /\ sends' = [sends EXCEPT ![p]["handler"] = Idle]
  /\ entries' = [entries EXCEPT ![p] = NoEntry]
  /\ owed' = [owed EXCEPT ![p] = {}]
  /\ UNCHANGED <<done, conn, waiting, slots, requests>>

(* The read loop receives blob.missing. *)
Requested(p) ==
  /\ serving[p] /\ ~done /\ conn[p] = "up"
  /\ sends[p]["handler"].pc = "idle"
  /\ requests[p] < Len(Requests[p])
  /\ requests' = [requests EXCEPT ![p] = @ + 1]
  /\ LET keys == Requests[p][requests[p] + 1]
     IN /\ owed' = [owed EXCEPT ![p] = @ \cup keys]
        /\ sends' = [sends EXCEPT ![p]["handler"] = Call(keys, 0)]
  /\ UNCHANGED <<done, conn, serving, entries, waiting, slots>>

-----------------------------------------------------------------------------
(* sendRequestedBlobsResult, one key at a time: a slot is acquired, the    *)
(* blob is read, written and the slot released.                            *)

Goto(p, c, pc) == sends' = [sends EXCEPT ![p][c].pc = pc]

Settled(p, keys) == owed' = [owed EXCEPT ![p] = @ \ keys]

Current(p, c) == Min(sends[p][c].keys)

(* repairIOLimiter.acquire. *)
Acquire(p, c) ==
  /\ sends[p][c].pc = "next" /\ ~done
  /\ slots > 0
  /\ slots' = slots - 1
  /\ Goto(p, c, "holding")
  /\ UNCHANGED <<done, conn, serving, entries, waiting, history>>

(* The context is canceled, before the limiter or while waiting for it.  A *)
(* wait that is offered a slot at the same time may take it; it returns it *)
(* when the store refuses the canceled context, with the same error.       *)
AcquireCanceled(p, c) ==
  /\ sends[p][c].pc = "next" /\ done
  /\ Goto(p, c, "failed")
  /\ Settled(p, sends[p][c].keys)
  /\ UNCHANGED <<done, conn, serving, entries, waiting, slots, requests>>

(* The loop goes on behind the current key, of which n bytes were sent.    *)
Advanced(p, c, n) ==
  LET left == sends[p][c].keys \ {Current(p, c)}
  IN sends' = [sends EXCEPT ![p][c].keys = left, ![p][c].bytes = @ + n,
                            ![p][c].pc = IF left = {} THEN "returned" ELSE "next"]

(* The blob is gone, corrupt, unreadable or does not fit a frame.          *)
Skip(p, c) ==
  /\ sends[p][c].pc = "holding"
  /\ Advanced(p, c, 0)
  /\ Settled(p, {Current(p, c)})
  /\ slots' = slots + 1
  /\ UNCHANGED <<done, conn, serving, entries, waiting, requests>>

OverBudget(p, c) ==
  /\ sends[p][c].bytes > 0
  /\ sends[p][c].bytes + Size[Current(p, c)] > Budget

(* Mutant: a deferral returns without releasing its slot. *)
DeferHolding(p, c) ==
  /\ sends[p][c].pc = "holding" /\ ~done
  /\ OverBudget(p, c)
  /\ Goto(p, c, "returned")
  /\ UNCHANGED <<done, conn, serving, entries, waiting, slots, history>>

(* This key and the ones behind it are deferred. *)
Defer(p, c) ==
  /\ sends[p][c].pc = "holding" /\ ~done
  /\ OverBudget(p, c)
  /\ Goto(p, c, "returned")
  /\ slots' = slots + 1
  /\ UNCHANGED <<done, conn, serving, entries, waiting, history>>

(* The frame is written, which may take as long as the peer wants. *)
Send(p, c) ==
  /\ sends[p][c].pc = "holding" /\ conn[p] = "up"
  /\ ~OverBudget(p, c)
  /\ Advanced(p, c, Size[Current(p, c)])
  /\ Settled(p, {Current(p, c)})
  /\ slots' = slots + 1
  /\ UNCHANGED <<done, conn, serving, entries, waiting, requests>>

(* Mutant: the slot is released only after a successful write. *)
SendFailsHolding(p, c) ==
  /\ sends[p][c].pc = "holding"
  /\ done \/ conn[p] = "broken"
  /\ Goto(p, c, "failed")
  /\ Settled(p, sends[p][c].keys)
  /\ UNCHANGED <<done, conn, serving, entries, waiting, slots, requests>>

(* The context is canceled before the write, or the write fails.           *)
SendFails(p, c) ==
  /\ sends[p][c].pc = "holding"
  /\ done \/ conn[p] = "broken"
  /\ Goto(p, c, "failed")
  /\ Settled(p, sends[p][c].keys)
  /\ slots' = slots + 1
  /\ UNCHANGED <<done, conn, serving, entries, waiting, requests>>

-----------------------------------------------------------------------------
(* repairContinuationScheduler. *)

(* mergeRepairContinuationKeys: new keys are added in order while there is *)
(* room.                                                                   *)
Merged(pending, keys) ==
  LET new == keys \ pending
  IN pending \cup {k \in new : Cardinality(pending)
                                 + Cardinality({j \in new : j <= k}) <= MaxKeys}

(* The handler returns, through Schedule if keys are deferred, which does  *)
(* nothing after the context is canceled.                                  *)
HandlerReturns(p) ==
  /\ sends[p]["handler"].pc = "returned"
  /\ IF sends[p]["handler"].keys # {} /\ ~done
       THEN Goto(p, "handler", "schedule")
       ELSE sends' = [sends EXCEPT ![p]["handler"] = Idle]
  /\ UNCHANGED <<done, conn, serving, entries, waiting, slots, history>>

(* Mutant: a running continuation does not keep Schedule from launching.   *)
ScheduleWhileRunning(p) ==
  /\ sends[p]["handler"].pc = "schedule"
  /\ LET old == IF entries[p].present THEN entries[p] ELSE NewEntry
         keys == sends[p]["handler"].keys
         merged == Merged(old.pending, keys)
     IN /\ entries' = [entries EXCEPT ![p] = [old EXCEPT !.pending = merged,
                          !.attempt = 0, !.scheduled = TRUE]]
        /\ waiting' = [waiting EXCEPT ![p] = IF old.scheduled THEN @ ELSE @ + 1]
        /\ Settled(p, keys \ merged)
  /\ sends' = [sends EXCEPT ![p]["handler"] = Idle]
  /\ UNCHANGED <<done, conn, serving, slots, requests>>

(* Schedule: the keys join the peer's queue, and a goroutine is launched   *)
(* unless one is waiting or running.                                       *)
Schedule(p) ==
  /\ sends[p]["handler"].pc = "schedule"
  /\ LET old == IF entries[p].present THEN entries[p] ELSE NewEntry
         keys == sends[p]["handler"].keys
         merged == Merged(old.pending, keys)
         launch == ~old.running /\ ~old.scheduled
     IN /\ entries' = [entries EXCEPT ![p] = [old EXCEPT !.pending = merged,
                          !.attempt = IF old.running \/ launch THEN 0 ELSE @,
                          !.scheduled = @ \/ launch]]
        /\ waiting' = [waiting EXCEPT ![p] = IF launch THEN @ + 1 ELSE @]
        /\ Settled(p, keys \ merged)
  /\ sends' = [sends EXCEPT ![p]["handler"] = Idle]
  /\ UNCHANGED <<done, conn, serving, slots, requests>>

(* wait: the context is canceled first. *)
WaitCanceled(p) ==
  /\ waiting[p] > 0 /\ done
  /\ waiting' = [waiting EXCEPT ![p] = @ - 1]
  /\ entries' = [entries EXCEPT ![p] = NoEntry]
  /\ UNCHANGED <<done, conn, serving, sends, slots, history>>

(* wait: the delay is over, and run takes the queue, if there is one left. *)
RunBegins(p) ==
  /\ waiting[p] > 0
  /\ waiting' = [waiting EXCEPT ![p] = @ - 1]
  /\ LET c == IF sends[p]["run"].pc = "idle" THEN "run" ELSE "second run"
     IN /\ sends[p][c].pc = "idle"
        /\ IF entries[p].present
             THEN /\ sends' = [sends EXCEPT ![p][c] = Call(entries[p].pending,
                                                           entries[p].attempt)]
                  /\ entries' = [entries EXCEPT ![p].scheduled = FALSE,
                                                ![p].running = TRUE,
                                                ![p].pending = {}]
             ELSE UNCHANGED <<sends, entries>>
  /\ UNCHANGED <<done, conn, serving, slots, history>>

(* Mutant: what was deferred replaces what was queued during the run.      *)
RunReturnsReplacing(p, c) ==
  /\ sends[p][c].pc \in {"returned", "failed"}
  /\ LET call == sends[p][c]
         again == call.keys # {} /\ call.pc = "returned" /\ call.attempt < MaxAttempts
         pending == IF again THEN call.keys ELSE entries[p].pending
     IN /\ entries' = [entries EXCEPT ![p] =
              IF ~entries[p].present \/ pending = {} THEN NoEntry
              ELSE [@ EXCEPT !.running = FALSE, !.scheduled = TRUE,
                             !.pending = pending,
                             !.attempt = IF again THEN call.attempt + 1 ELSE @]]
        /\ waiting' = [waiting EXCEPT ![p] =
                         IF entries'[p].present THEN @ + 1 ELSE @]
  /\ sends' = [sends EXCEPT ![p][c] = Idle]
  /\ UNCHANGED <<done, conn, serving, slots, history>>

(* Mutant: whatever a call did not send is queued again, after an error too*)
RunReturnsRetrying(p, c) ==
  /\ sends[p][c].pc \in {"returned", "failed"}
  /\ LET pending == Merged(entries[p].pending, sends[p][c].keys)
     IN IF entries[p].present
          THEN /\ entries' = [entries EXCEPT ![p] =
                     IF pending = {} THEN NoEntry
                     ELSE [@ EXCEPT !.running = FALSE, !.scheduled = TRUE,
                                    !.pending = pending]]
               /\ waiting' = [waiting EXCEPT ![p] = IF pending = {} THEN @ ELSE @ + 1]
          ELSE UNCHANGED <<entries, waiting>>
  /\ sends' = [sends EXCEPT ![p][c] = Idle]
  /\ UNCHANGED <<done, conn, serving, slots, history>>

(* The end of run.  Deferred keys are queued again, up to MaxAttempts; the *)
(* keys of a call that failed are not.                                     *)
RunReturns(p, c) ==
  /\ sends[p][c].pc \in {"returned", "failed"}
  /\ LET call == sends[p][c]
         deferred == IF call.pc = "returned" THEN call.keys ELSE {}
         again == deferred # {} /\ call.attempt < MaxAttempts
         pending == IF again THEN Merged(entries[p].pending, deferred)
                             ELSE entries[p].pending
     IN IF entries[p].present
          THEN /\ entries' = [entries EXCEPT ![p] =
                     IF pending = {} THEN NoEntry
                     ELSE [@ EXCEPT !.running = FALSE, !.scheduled = TRUE,
                                    !.pending = pending,
                                    !.attempt = IF again THEN call.attempt + 1
                                                ELSE entries[p].attempt]]
               /\ waiting' = [waiting EXCEPT ![p] = IF pending = {} THEN @ ELSE @ + 1]
               /\ Settled(p, IF again THEN deferred \ pending ELSE deferred)
          ELSE UNCHANGED <<entries, waiting, owed>>
  /\ sends' = [sends EXCEPT ![p][c] = Idle]
  /\ UNCHANGED <<done, conn, serving, slots, requests>>

-----------------------------------------------------------------------------
SendStep(p, c) ==
  \/ Acquire(p, c) \/ AcquireCanceled(p, c)
  \/ Skip(p, c) \/ Defer(p, c) \/ Send(p, c) \/ SendFails(p, c)

SchedulerStep(p) ==
  \/ HandlerReturns(p) \/ Schedule(p) \/ WaitCanceled(p) \/ RunBegins(p)
  \/ \E c \in Runs : RunReturns(p, c)

ContinuationNext ==
  \/ Shutdown
  \/ \E p \in Peers : \/ Break(p) \/ ReadLoopEnds(p) \/ Requested(p)
                      \/ \E c \in Callers : SendStep(p, c)
                      \/ SchedulerStep(p)

ContinuationSpec == ContinuationInit /\ [][ContinuationNext]_cvars

(* Goroutines are scheduled and timers fire.  A blob of a peer that may    *)
(* stop reading is sent or not, but a write on a broken connection fails,  *)
(* and the read loop of one ends.  A shutdown closes every connection.     *)
ContinuationFairness ==
  \A p \in Peers :
    /\ WF_cvars(SchedulerStep(p))
    /\ WF_cvars(\/ done /\ Break(p)
                \/ /\ done \/ conn[p] = "broken" \/ sends[p]["handler"].pc = "failed"
                   /\ ReadLoopEnds(p))
    /\ \A c \in {"handler", "run"} :
         IF p \in Unreliable
           THEN /\ WF_cvars(Acquire(p, c) \/ AcquireCanceled(p, c))
                /\ WF_cvars(conn[p] = "broken" /\ SendFails(p, c))
           ELSE WF_cvars(SendStep(p, c))

ContinuationFairSpec == ContinuationSpec /\ ContinuationFairness

-----------------------------------------------------------------------------
Holding(p) == {c \in Callers : sends[p][c].pc = "holding"}

(* "Each peer still owns its own continuation queue": a queue has exactly  *)
(* one goroutine, which waits for it or runs it, however Schedule, Forget  *)
(* and the end of a run interleave; none is forgotten with keys in it and  *)
(* none is sent by two goroutines.                                         *)
OneContinuation ==
  \A p \in Peers :
    LET running == {c \in Runs : sends[p][c].pc # "idle"}
    IN /\ waiting[p] + Cardinality(running) <= 1
       /\ entries[p].present =>
            /\ entries[p].scheduled <=> waiting[p] = 1
            /\ entries[p].running <=> running # {}
            /\ entries[p].scheduled \/ entries[p].running

(* The limiter neither loses a slot nor gains one, on any path through a   *)
(* call: deferral, a skipped blob, a failed write, a canceled context.     *)
SlotsConserved ==
  slots + Cardinality({a \in Peers \X Callers : sends[a[1]][a[2]].pc = "holding"})
    = MaxOps

(* A key that a peer asked for is sent or skipped, or is on its way: in the*)
(* handler, in the queue or in a run.  It is given up for four reasons     *)
(* only: the queue is full, its last attempt runs out of budget, a call    *)
(* fails, the read loop or the process ends.  No interleaving of requests  *)
(* and runs loses a key otherwise, and none takes a queue past MaxKeys.    *)
KeysAccounted ==
  /\ ContinuationTypeOK
  /\ ~done => \A p \in Peers :
       owed[p] \subseteq entries[p].pending \cup UNION {sends[p][c].keys : c \in Callers}

(* ARCHITECTURE.md: "a blocked write to one peer cannot serialize a healthy*)
(* peer".  A peer that keeps reading gets every call and its continuation  *)
(* finished, with slots for twice as many operations as there are slow     *)
(* peers and one more.                                                     *)
HealthyServed ==
  \A p \in Peers \ Unreliable :
    (sends[p]["handler"].pc # "idle" \/ entries[p].present)
      ~> (sends[p]["handler"].pc = "idle" /\ ~entries[p].present)

(* "Disconnect and shutdown discard pending inventory and repair           *)
(* continuation work": after a shutdown every continuation goroutine ends, *)
(* also one that a Schedule under way at that moment launched.             *)
ShutdownDrains ==
  done ~> [](\A p \in Peers : /\ waiting[p] = 0 /\ ~entries[p].present
                              /\ \A c \in Callers : sends[p][c].pc = "idle")

(* main.go on repairIOLimiter: "a blocked peer can hold at most one        *)
(* operation at a time".  It does not hold: a peer that asks again while   *)
(* its continuation is blocked holds a slot in its read loop, too.         *)
OneOpPerPeer == \A p \in Peers : Cardinality(Holding(p)) <= 1
=============================================================================
