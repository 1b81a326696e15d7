----------------------------- MODULE Inventory -----------------------------
(***************************************************************************)
(* The inventoryExchangeScheduler of inventory.go for one connection: an   *)
(* exchange advertises the keys of the store in blob.has frames, page by   *)
(* page, until it has sent them all or a budget is spent; then a delayed   *)
(* continuation resumes after a cursor.  Keys are numbered in their        *)
(* bytewise order, and the empty cursor is 0.                              *)
(***************************************************************************)
EXTENDS Integers, FiniteSets, FiniteSetsExt

CONSTANTS
  Keys,       \* the keys the store may hold
  KeyBytes,   \* the bytes that a set of keys takes in a frame
  Overhead,   \* the bytes of a frame without its keys
  BatchSize,  \* inventoryBatchSize: limits.MaxKeys
  MaxPayload, \* the bytes that fit a frame
  MaxBytes,   \* -max-inventory-bytes, 0 for none
  MaxKeys,    \* -max-inventory-keys, 0 for none
  Workers,    \* bound: goroutines of the scheduler at a time
  MaxStarts   \* bound: connection and periodic triggers

ASSUME InventoryAssumption ==
  /\ IsFiniteSet(Keys) /\ Keys \subseteq Nat \ {0}
  /\ KeyBytes \in [SUBSET Keys -> Nat] /\ Overhead \in Nat \ {0}
  /\ BatchSize \in Nat \ {0} /\ MaxPayload \in Nat \ {0}
  /\ MaxBytes \in Nat /\ MaxKeys \in Nat /\ MaxStarts \in Nat
  /\ IsFiniteSet(Workers)

VARIABLES
  store,     \* the keys that the local store holds
  conn,      \* the connection: "up", "closing" after peer.Close, or "down"
  entry,     \* the scheduler's entry for the connection
  worker,    \* the goroutines: where each is, and the locals of its exchange
  base,      \* the keys in the store when the entry was made
  sent,      \* the keys advertised since then
  outcome,   \* how the last exchange has ended
  starts,
  done       \* is the application's context done?

vars == <<store, conn, entry, worker, base, sent, outcome, starts, done>>
history == <<base, outcome>>

NoEntry == [made |-> FALSE, cursor |-> 0, running |-> FALSE, scheduled |-> FALSE]

(* cursor is sendPagedBlobHasBudget's and last sendBlobHasKeysBudget's;    *)
(* page holds the keys of the page that are still to be sent.              *)
Idle == [at |-> "none", cursor |-> 0, last |-> 0, page |-> {}, keys |-> 0, bytes |-> 0]

Busy == {w \in Workers : worker[w].at # "none"}

InventoryTypeOK ==
  /\ store \subseteq Keys /\ base \subseteq Keys /\ sent \subseteq Keys
  /\ conn \in {"up", "closing", "down"}
  /\ entry \in [made : BOOLEAN, cursor : Keys \cup {0},
                running : BOOLEAN, scheduled : BOOLEAN]
  /\ worker \in [Workers ->
       [at : {"none", "launched", "waiting", "listing", "sending"},
        cursor : Keys \cup {0}, last : Keys \cup {0}, page : SUBSET Keys,
        keys : Nat, bytes : Nat]]
  /\ outcome \in {"none", "complete", "dropped"}
  /\ starts \in 0 .. MaxStarts
  /\ done \in BOOLEAN

InventoryInit ==
  /\ store \in SUBSET Keys
  /\ conn = "up"
  /\ entry = NoEntry
  /\ worker = [w \in Workers |-> Idle]
  /\ base = {} /\ sent = {} /\ outcome = "none"
  /\ starts = 0
  /\ done = FALSE

-----------------------------------------------------------------------------
(* The n smallest of a set of keys. *)
First(S, n) == {k \in S : Cardinality({j \in S : j <= k}) <= n}

(* EncodeBlobHas: the length of the frame that advertises the keys of S. *)
Payload(S) == Overhead + KeyBytes[S]

(* ListKeyPage: the next keys after the cursor. *)
Page(cursor, limit) == First({k \in store : k > cursor}, limit)

(* The size of a page is the batch size unless the key budget is smaller,  *)
(* and the last page of an exchange keeps within what is left of it.       *)
PageLimit(w) ==
  LET left == MaxKeys - worker[w].keys
  IN  IF MaxKeys > 0 /\ left < BatchSize THEN left ELSE BatchSize

KeysSpent(w) == MaxKeys > 0 /\ worker[w].keys >= MaxKeys

(* Mutant: off by one. *)
OverBudgetOffByOne(w, S) == MaxBytes > 0 /\ worker[w].bytes + Payload(S) > MaxBytes + 1

OverBudget(w, S) == MaxBytes > 0 /\ worker[w].bytes + Payload(S) > MaxBytes

(* The keys of the next frame: a batch is halved until it fits the frame   *)
(* and what is left of the byte budget, or has one key.                    *)
Fits(w, S) == Payload(S) <= MaxPayload /\ ~OverBudget(w, S)

Batch(w) ==
  LET page == worker[w].page
      most == Min({Cardinality(page), PageLimit(w)})
      halves == {n \in 1 .. most : \E i \in 0 .. most : n = most \div 2^i}
  IN  First(page, Max({1} \cup {n \in halves : Fits(w, First(page, n))}))

-----------------------------------------------------------------------------
(* Start, from OnPeer or the periodic ticker, whose list of peers may be   *)
(* older than a disconnect.                                                *)
Start(w) ==
  LET launch == ~entry.running /\ ~entry.scheduled IN
  /\ starts < MaxStarts /\ ~done
  /\ worker[w].at = "none" /\ \A v \in Workers : v < w => worker[v].at # "none"
  /\ starts' = starts + 1
  /\ entry' = [entry EXCEPT !.made = TRUE, !.scheduled = @ \/ launch]
  /\ worker' = IF launch THEN [worker EXCEPT ![w].at = "launched"] ELSE worker
  /\ base' = IF entry.made THEN base ELSE store
  /\ sent' = IF entry.made THEN sent ELSE {}
  /\ outcome' = IF entry.made THEN outcome ELSE "none"
  /\ UNCHANGED <<store, conn, done>>

(* run, in a new goroutine or after wait: it takes over the entry. *)
Run(w) ==
  /\ worker[w].at = "launched" \/ (worker[w].at = "waiting" /\ ~done)
  /\ IF entry.made
       THEN /\ entry' = [entry EXCEPT !.scheduled = FALSE, !.running = TRUE]
            /\ worker' = [worker EXCEPT ![w] =
                 [Idle EXCEPT !.at = "listing", !.cursor = entry.cursor]]
       ELSE /\ worker' = [worker EXCEPT ![w] = Idle]
            /\ UNCHANGED entry
  /\ UNCHANGED <<store, conn, history, sent, starts, done>>

(* wait, when the context is done: forgetID. *)
WaitCancelled(w) ==
  /\ worker[w].at = "waiting" /\ done
  /\ worker' = [worker EXCEPT ![w] = Idle]
  /\ entry' = NoEntry
  /\ outcome' = "dropped"
  /\ UNCHANGED <<store, conn, base, sent, starts, done>>

-----------------------------------------------------------------------------
(* How an exchange ends in run.                                            *)

(* Mutant: the entry is marked but no goroutine waits. *)
LimitedNoWait(w, cursor) ==
  /\ entry' = IF entry.made
                THEN [entry EXCEPT !.running = FALSE, !.scheduled = TRUE, !.cursor = cursor]
                ELSE entry
  /\ worker' = [worker EXCEPT ![w] = Idle]
  /\ UNCHANGED <<conn, history>>

(* Mutant: the cursor is not recorded. *)
LimitedRestarts(w, cursor) ==
  /\ entry' = IF entry.made
                THEN [entry EXCEPT !.running = FALSE, !.scheduled = TRUE]
                ELSE entry
  /\ worker' = [worker EXCEPT ![w] =
       IF entry.made THEN [Idle EXCEPT !.at = "waiting"] ELSE Idle]
  /\ UNCHANGED <<conn, history>>

(* A budget is spent: the entry keeps the cursor and a goroutine waits. *)
Limited(w, cursor) ==
  /\ entry' = IF entry.made
                THEN [entry EXCEPT !.running = FALSE, !.scheduled = TRUE, !.cursor = cursor]
                ELSE entry
  /\ worker' = [worker EXCEPT ![w] =
       IF entry.made THEN [Idle EXCEPT !.at = "waiting"] ELSE Idle]
  /\ UNCHANGED <<conn, history>>

(* finish *)
Completed(w) ==
  /\ entry' = NoEntry
  /\ worker' = [worker EXCEPT ![w] = Idle]
  /\ outcome' = "complete"
  /\ UNCHANGED <<conn, base>>

(* An error drops the exchange and, unless the context is done, the peer. *)
Dropped(w) ==
  /\ entry' = NoEntry
  /\ worker' = [worker EXCEPT ![w] = Idle]
  /\ conn' = IF conn = "up" /\ ~done THEN "closing" ELSE conn
  /\ outcome' = "dropped"
  /\ UNCHANGED base

-----------------------------------------------------------------------------
(* sendPagedBlobHasBudget *)
ListPage(w) ==
  LET page == Page(worker[w].cursor, PageLimit(w)) IN
  /\ worker[w].at = "listing" /\ ~done
  /\ \/ KeysSpent(w) /\ Limited(w, worker[w].cursor)
     \/ ~KeysSpent(w) /\ page = {} /\ Completed(w)
     \/ /\ ~KeysSpent(w) /\ page # {}
        /\ worker' = [worker EXCEPT ![w].at = "sending", ![w].page = page, ![w].last = 0]
        /\ UNCHANGED <<entry, conn, history>>
  /\ UNCHANGED <<store, sent, starts, done>>

(* The page is sent: its last key is the cursor. *)
PageSent(w) ==
  /\ worker[w].at = "sending" /\ worker[w].page = {}
  /\ worker' = [worker EXCEPT ![w].at = "listing", ![w].cursor = worker[w].last]
  /\ UNCHANGED <<store, conn, entry, history, sent, starts, done>>

Sending(w) == worker[w].at = "sending" /\ worker[w].page # {} /\ ~done

(* sendBlobHasKeysBudget stops: the byte budget has no room for one more   *)
(* key.  It returns the last key that it has sent itself.                  *)
Exhausted(w) == OverBudget(w, Batch(w)) /\ worker[w].keys > 0

BudgetHit(w) ==
  /\ Sending(w) /\ Payload(Batch(w)) <= MaxPayload /\ Exhausted(w)
  /\ Limited(w, worker[w].last)
  /\ UNCHANGED <<store, sent, starts, done>>

(* Mutant: the cursor is the last key of the batch before it was halved. *)
SendFrameSkips(w) ==
  LET batch == Batch(w) IN
  /\ Sending(w) /\ Payload(batch) <= MaxPayload /\ ~Exhausted(w)
  /\ conn = "up"
  /\ sent' = sent \cup batch
  /\ worker' = [worker EXCEPT ![w] =
       [worker[w] EXCEPT !.page = @ \ batch, !.last = Max(worker[w].page),
                         !.keys = @ + Cardinality(batch), !.bytes = @ + Payload(batch)]]
  /\ UNCHANGED <<store, conn, entry, history, starts, done>>

(* A frame is written, a single key even beyond the byte budget. *)
SendFrame(w) ==
  LET batch == Batch(w) IN
  /\ Sending(w) /\ Payload(batch) <= MaxPayload /\ ~Exhausted(w)
  /\ conn = "up"
  /\ sent' = sent \cup batch
  /\ worker' = [worker EXCEPT ![w] =
       [worker[w] EXCEPT !.page = @ \ batch, !.last = Max(batch),
                         !.keys = @ + Cardinality(batch), !.bytes = @ + Payload(batch)]]
  /\ UNCHANGED <<store, conn, entry, history, starts, done>>

(* The key does not fit a frame, or the connection is gone. *)
SendFails(w) ==
  /\ Sending(w)
  /\ Payload(Batch(w)) > MaxPayload \/ (~Exhausted(w) /\ conn # "up")
  /\ Dropped(w)
  /\ UNCHANGED <<store, sent, starts, done>>

(* The context is done. *)
ExchangeCancelled(w) ==
  /\ worker[w].at = "listing" \/ (worker[w].at = "sending" /\ worker[w].page # {})
  /\ done
  /\ Dropped(w)
  /\ UNCHANGED <<store, sent, starts, done>>

-----------------------------------------------------------------------------
(* A replicated blob is stored. *)
StorePut(k) ==
  /\ k \notin store
  /\ store' = store \cup {k}
  /\ UNCHANGED <<conn, entry, worker, history, sent, starts, done>>

(* The connection ends: OnPeerDisconnected calls Forget. *)
Disconnect ==
  /\ conn # "down" /\ conn' = "down"
  /\ entry' = NoEntry
  /\ outcome' = IF entry.made THEN "dropped" ELSE outcome
  /\ UNCHANGED <<store, worker, base, sent, starts, done>>

ContextDone ==
  /\ ~done /\ done' = TRUE
  /\ UNCHANGED <<store, conn, entry, worker, history, sent, starts>>

Work(w) ==
  \/ Run(w) \/ WaitCancelled(w) \/ ListPage(w) \/ PageSent(w)
  \/ BudgetHit(w) \/ SendFrame(w) \/ SendFails(w) \/ ExchangeCancelled(w)

InventoryNext ==
  \/ \E w \in Workers : Start(w) \/ Work(w)
  \/ \E k \in Keys : StorePut(k)
  \/ Disconnect \/ ContextDone

InventorySpec == InventoryInit /\ [][InventoryNext]_vars

(* Goroutines run, the delay of a continuation ends, and a write to an     *)
(* open connection returns (no deadline makes it: the peer must read).     *)
InventoryFairSpec == InventorySpec /\ \A w \in Workers : WF_vars(Work(w))

-----------------------------------------------------------------------------
(* Properties                                                              *)

(* An entry is never stranded: a goroutine will run it, and while the      *)
(* connection is up exactly one does, so that concurrent triggers are      *)
(* coalesced into one exchange and share its cursor, which is always a key *)
(* or none.                                                                *)
EntryTended ==
  /\ InventoryTypeOK
  /\ entry.made => Busy # {}
  /\ conn = "up" =>
       /\ Cardinality(Busy) <= 1
       /\ entry.running <=> \E w \in Busy : worker[w].at \in {"listing", "sending"}
       /\ entry.scheduled <=> \E w \in Busy : worker[w].at \in {"launched", "waiting"}

(* An exchange that completes on a live connection has advertised every    *)
(* key that the store held when it began, across pages, halved batches,    *)
(* continuations and keys stored meanwhile.                                *)
CompleteCovers == conn = "up" /\ outcome = "complete" => base \subseteq sent

(* One run of an exchange stays within both budgets, except for the single *)
(* key that is the minimum progress.                                       *)
BudgetKept ==
  \A w \in Workers :
    /\ MaxKeys > 0 => worker[w].keys <= MaxKeys
    /\ MaxBytes > 0 => worker[w].bytes <= MaxBytes \/ worker[w].keys = 1

(* Every exchange ends, however small its budgets. *)
ExchangeEnds == entry.made ~> ~entry.made
=============================================================================
