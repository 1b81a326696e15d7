---------------------- MODULE RepairContinuation_proofs ----------------------
(***************************************************************************)
(* Proofs about RepairContinuation for any number of peers, keys, slots    *)
(* and attempts.                                                           *)
(***************************************************************************)
EXTENDS RepairContinuation, FiniteSetTheorems, TLAPS

Calls == [pc : {"idle", "next", "holding", "returned", "schedule", "failed"},
          keys : SUBSET Keys, bytes : Nat, attempt : 0..MaxAttempts]

Entries == [present : BOOLEAN, pending : SUBSET Keys, attempt : 0..MaxAttempts,
            running : BOOLEAN, scheduled : BOOLEAN]

(* A call that is sending has a key to send, and one that is over has none.*)
(* A call fails on a broken connection or a canceled context, so no later  *)
(* request asks again for the keys it gave up.                             *)
CallOK(p, c) ==
  /\ sends[p][c].pc \in {"next", "holding"} => sends[p][c].keys # {}
  /\ sends[p][c].pc = "idle" => sends[p][c].keys = {}
  /\ sends[p][c].pc = "failed" =>
       /\ done \/ conn[p] = "broken"
       /\ sends[p][c].keys \cap owed[p] = {}

(* The queue of a peer and its one goroutine.  Without a queue there is a  *)
(* goroutine only when the read loop has ended, and then nothing can       *)
(* schedule another.                                                       *)
QueueOK(p) ==
  /\ waiting[p] \in {0, 1}
  /\ sends[p]["second run"].pc = "idle"
  /\ waiting[p] = 1 => sends[p]["run"].pc = "idle"
  /\ entries[p].present =>
       /\ serving[p]
       /\ entries[p].scheduled <=> waiting[p] = 1
       /\ entries[p].running <=> sends[p]["run"].pc # "idle"
       /\ entries[p].scheduled \/ entries[p].running
  /\ ~entries[p].present =>
       /\ entries[p].pending = {}
       /\ serving[p] => waiting[p] = 0 /\ sends[p]["run"].pc = "idle"
  /\ ~serving[p] => sends[p]["handler"].pc = "idle" /\ owed[p] = {}

KeysOK(p) ==
  ~done => \A k \in owed[p] : k \in entries[p].pending \/ \E c \in Callers : k \in sends[p][c].keys

PeerOK(p) == (\A c \in Callers : CallOK(p, c)) /\ QueueOK(p) /\ KeysOK(p)

ContinuationInv ==
  /\ ContinuationTypeOK
  /\ SlotsConserved
  /\ \A p \in Peers : PeerOK(p)

-----------------------------------------------------------------------------
(* Least keys and merged queues. *)

(* A set of naturals has a least element. *)
LEMMA LeastNat ==
  ASSUME NEW T \in SUBSET Nat, T # {}
  PROVE  \E x \in T : \A y \in T : x <= y
<1>1. PICK x \in T : \A y \in T : ~(<<y, x>> \in OpToRel(<, Nat))
  BY WFMin, NatLessThanWellFounded
<1>2. \A y \in T : ~(y < x)
  BY <1>1 DEF OpToRel
<1> QED
  BY <1>2

(* A bounded set of naturals has a largest one. *)
LEMMA GreatestNat ==
  ASSUME NEW T \in SUBSET Nat, NEW b \in Nat, T # {}, \A y \in T : y <= b
  PROVE  \E x \in T : \A y \in T : x >= y
<1> DEFINE U == {b - y : y \in T}
<1>1. U \in SUBSET Nat /\ U # {}
  <2>1. PICK t \in T : TRUE
    OBVIOUS
  <2>2. b - t \in U
    OBVIOUS
  <2> QED
    BY <2>2
<1> HIDE DEF U
<1>2. PICK u \in U : \A y \in U : u <= y
  BY <1>1, LeastNat
<1>3. PICK x \in T : u = b - x
  BY <1>2 DEF U
<1>4. \A y \in T : b - y \in U
  BY DEF U
<1> QED
  BY <1>2, <1>3, <1>4

(* The key that a call is about to send is one of its keys. *)
LEMMA CurrentKey ==
  ASSUME ContinuationInv, NEW p \in Peers, NEW c \in Callers, sends[p][c].pc = "holding"
  PROVE  /\ Current(p, c) \in sends[p][c].keys
         /\ Current(p, c) \in Keys /\ Size[Current(p, c)] \in Nat
<1> DEFINE T == sends[p][c].keys
<1>1. T \in SUBSET Keys /\ T # {}
  BY DEF ContinuationInv, ContinuationTypeOK, PeerOK, CallOK
<1> HIDE DEF T
<1>2. \E x \in T : \A y \in T : x <= y
  BY <1>1, LeastNat, ContinuationAssumption
<1>3. Min(T) \in T
  BY <1>2 DEF Min
<1>4. Current(p, c) \in T
  BY <1>3 DEF Current, T
<1> QED
  BY <1>1, <1>4, ContinuationAssumption DEF T

(* mergeRepairContinuationKeys keeps what was queued and adds no more than *)
(* there is room for.                                                      *)
LEMMA MergedQueue ==
  ASSUME NEW pending \in SUBSET Keys, NEW keys \in SUBSET Keys,
         Cardinality(pending) <= MaxKeys
  PROVE  /\ pending \subseteq Merged(pending, keys)
         /\ Merged(pending, keys) \subseteq pending \cup keys
         /\ Cardinality(Merged(pending, keys)) <= MaxKeys
<1> DEFINE new == keys \ pending
           upto(k) == {j \in new : j <= k}
           added == {k \in new : Cardinality(pending) + Cardinality(upto(k)) <= MaxKeys}
           counts == {Cardinality(upto(k)) : k \in added}
<1>1. /\ IsFiniteSet(pending) /\ IsFiniteSet(new) /\ IsFiniteSet(added)
      /\ \A k \in new : IsFiniteSet(upto(k))
  BY ContinuationAssumption, FS_Subset
<1>2. /\ Cardinality(pending) \in Nat /\ Cardinality(added) \in Nat
      /\ \A k \in new : Cardinality(upto(k)) \in Nat
  BY <1>1, FS_CardinalityType
<1>3. Merged(pending, keys) = pending \cup added
  BY DEF Merged
<1>4. Cardinality(pending) + Cardinality(added) <= MaxKeys
  <2>1. CASE added = {}
    <3>1. Cardinality(added) = 0
      BY <2>1, FS_EmptySet
    <3> HIDE DEF added
    <3> QED
      BY <1>2, <3>1
  <2>2. CASE added # {}
    <3>1. counts \in SUBSET Nat /\ counts # {} /\ \A y \in counts : y <= MaxKeys
      <4>1. \A k \in added : /\ Cardinality(upto(k)) \in Nat
                             /\ Cardinality(upto(k)) <= MaxKeys
        BY <1>2, ContinuationAssumption
      <4>2. counts # {}
        BY <2>2
      <4> QED
        BY <4>1, <4>2
    <3>2. PICK most \in counts : \A y \in counts : most >= y
      <4> HIDE DEF counts
      <4> QED
        BY <3>1, GreatestNat, ContinuationAssumption
    <3>3. PICK k \in added : most = Cardinality(upto(k))
      BY <3>2
    <3>4. added \subseteq upto(k)
      <4> SUFFICES ASSUME NEW j \in added, ~(j <= k)
                   PROVE  FALSE
        OBVIOUS
      <4>1. j \in Nat /\ k \in Nat
        BY ContinuationAssumption
      <4>2. upto(k) \subseteq upto(j) /\ j \in upto(j) /\ j \notin upto(k)
        <5>1. \A i \in new : i \in Nat
          BY ContinuationAssumption
        <5>2. \A i \in upto(k) : i \in upto(j)
          <6> TAKE i \in upto(k)
          <6>1. i \in new /\ i <= k /\ i \in Nat
            BY <5>1
          <6>2. i <= j
            BY <4>1, <6>1
          <6> QED
            BY <6>1, <6>2
        <5>3. j \in new /\ j <= j
          BY <4>1
        <5>4. j \in upto(j) /\ j \notin upto(k)
          BY <5>3
        <5> QED
          BY <5>2, <5>4
      <4>3. IsFiniteSet(upto(j)) /\ upto(k) # upto(j)
        BY <1>1, <4>2
      <4>4. Cardinality(upto(k)) <= Cardinality(upto(j))
            /\ Cardinality(upto(k)) # Cardinality(upto(j))
        <5> HIDE DEF upto
        <5> QED
          BY <4>2, <4>3, FS_Subset
      <4>5. Cardinality(upto(j)) \in counts
        OBVIOUS
      <4>6. Cardinality(upto(k)) >= Cardinality(upto(j))
        BY <3>2, <3>3, <4>5
      <4>7. Cardinality(upto(j)) \in Nat /\ Cardinality(upto(k)) \in Nat
        BY <1>2
      <4> HIDE DEF upto
      <4> QED
        BY <4>4, <4>6, <4>7
    <3>5. Cardinality(added) <= Cardinality(upto(k))
      <4>1. IsFiniteSet(upto(k))
        BY <1>1
      <4> HIDE DEF upto, added
      <4> QED
        BY <3>4, <4>1, FS_Subset
    <3>6. /\ Cardinality(pending) + Cardinality(upto(k)) <= MaxKeys
          /\ Cardinality(upto(k)) \in Nat
      BY <1>2
    <3> HIDE DEF upto, added
    <3> QED
      BY <1>2, <3>5, <3>6, ContinuationAssumption
  <2> QED
    BY <2>1, <2>2
<1>5. Cardinality(pending \cup added) <= MaxKeys
  <2> HIDE DEF added
  <2>1. Cardinality(pending \cap added) \in Nat
    BY <1>1, FS_Intersection, FS_CardinalityType
  <2> QED
    <3>1. Cardinality(pending \cup added)
            = Cardinality(pending) + Cardinality(added) - Cardinality(pending \cap added)
      BY <1>1, FS_Union
    <3> QED
      BY <1>2, <1>4, <2>1, <3>1, ContinuationAssumption
<1> QED
  BY <1>3, <1>5

-----------------------------------------------------------------------------
(* Steps of one peer. *)

(* Only the call of caller c for peer p changes: it becomes x. *)
Only(p, c, x) ==
  /\ sends' \in [Peers -> [Callers -> Calls]]
  /\ sends'[p][c] = x
  /\ \A d \in Callers \ {c} : sends'[p][d] = sends[p][d]
  /\ \A q \in Peers \ {p} : sends'[q] = sends[q]

LEMMA OnlySet ==
  ASSUME sends \in [Peers -> [Callers -> Calls]], NEW p \in Peers, NEW c \in Callers,
         NEW x \in Calls, sends' = [sends EXCEPT ![p][c] = x]
  PROVE  Only(p, c, x)
<1>1. sends'[p] = [sends[p] EXCEPT ![c] = x] /\ \A q \in Peers \ {p} : sends'[q] = sends[q]
  OBVIOUS
<1>2. sends'[p] \in [Callers -> Calls]
  BY <1>1
<1> QED
  BY <1>1, <1>2 DEF Only

LEMMA OnlyGoto ==
  ASSUME sends \in [Peers -> [Callers -> Calls]], NEW p \in Peers, NEW c \in Callers,
         NEW pc \in {"holding", "returned", "schedule", "failed"}, Goto(p, c, pc)
  PROVE  \E x \in Calls : Only(p, c, x) /\ x.pc = pc /\ x.keys = sends[p][c].keys
<1> DEFINE x == [sends[p][c] EXCEPT !.pc = pc]
<1>1. sends[p][c] \in Calls
  OBVIOUS
<1>2. x \in Calls /\ x.pc = pc /\ x.keys = sends[p][c].keys
  BY <1>1 DEF Calls
<1>3. sends' = [sends EXCEPT ![p][c] = x]
  BY DEF Goto
<1> HIDE DEF x
<1> QED
  BY <1>2, <1>3, OnlySet

LEMMA OnlyAdvanced ==
  ASSUME sends \in [Peers -> [Callers -> Calls]], NEW p \in Peers, NEW c \in Callers,
         NEW n \in Nat, Advanced(p, c, n)
  PROVE  \E x \in Calls : /\ Only(p, c, x) /\ x.pc \in {"next", "returned"}
                          /\ x.pc = "next" => x.keys # {}
                          /\ x.keys = sends[p][c].keys \ {Current(p, c)}
<1> DEFINE left == sends[p][c].keys \ {Current(p, c)}
           pc == IF left = {} THEN "returned" ELSE "next"
           x == [sends[p][c] EXCEPT !.keys = left, !.bytes = @ + n, !.pc = pc]
<1>1. sends[p][c] \in Calls
  OBVIOUS
<1>2. left \in SUBSET Keys /\ pc \in {"next", "returned"}
  BY <1>1 DEF Calls
<1>3. sends' = [sends EXCEPT ![p][c] = x]
  BY DEF Advanced
<1> HIDE DEF left, pc
<1>4. x \in Calls /\ x.pc = pc /\ x.keys = left
  <2>1. sends[p][c].bytes + n \in Nat
    BY <1>1 DEF Calls
  <2> QED
    BY <1>1, <1>2, <2>1 DEF Calls
<1> HIDE DEF x
<1>5. Only(p, c, x)
  BY <1>3, <1>4, OnlySet
<1> QED
  BY <1>4, <1>5 DEF left, pc

(* The slots of the limiter: a call takes one, gives one back, or neither. *)
SlotsOf(p, c, x) ==
  \/ sends[p][c].pc # "holding" /\ x.pc = "holding" /\ slots > 0 /\ slots' = slots - 1
  \/ sends[p][c].pc = "holding" /\ x.pc # "holding" /\ slots' = slots + 1
  \/ sends[p][c].pc # "holding" /\ x.pc # "holding" /\ slots' = slots

HoldingCalls == {a \in Peers \X Callers : sends[a[1]][a[2]].pc = "holding"}

LEMMA HoldingFinite ==
  /\ IsFiniteSet(HoldingCalls) /\ Cardinality(HoldingCalls) \in Nat
  /\ SlotsConserved <=> slots + Cardinality(HoldingCalls) = MaxOps
<1>1. IsFiniteSet(Callers)
  <2>1. IsFiniteSet({"run"} \cup {"second run"})
    BY FS_Singleton, FS_AddElement
  <2>2. Callers = ({"run"} \cup {"second run"}) \cup {"handler"}
    BY DEF Callers, Runs
  <2> QED
    BY <2>1, <2>2, FS_AddElement
<1>2. IsFiniteSet(Peers \X Callers)
  BY <1>1, FS_Product, ContinuationAssumption
<1>3. IsFiniteSet(HoldingCalls)
  BY <1>2, FS_Subset DEF HoldingCalls
<1> QED
  BY <1>3, FS_CardinalityType DEF SlotsConserved, HoldingCalls

LEMMA SlotsStep ==
  ASSUME ContinuationInv, NEW p \in Peers, NEW c \in Callers, NEW x, Only(p, c, x),
         SlotsOf(p, c, x)
  PROVE  SlotsConserved' /\ slots' \in 0..MaxOps
<1> DEFINE a == <<p, c>>
<1>1. /\ IsFiniteSet(HoldingCalls) /\ Cardinality(HoldingCalls) \in Nat
      /\ slots + Cardinality(HoldingCalls) = MaxOps
      /\ slots \in Nat /\ MaxOps \in Nat
  BY HoldingFinite, ContinuationAssumption DEF ContinuationInv, ContinuationTypeOK
<1>2. \A b \in Peers \X Callers : b # a => sends'[b[1]][b[2]] = sends[b[1]][b[2]]
  BY DEF Only
<1>3. CASE sends[p][c].pc # "holding" /\ x.pc = "holding" /\ slots > 0 /\ slots' = slots - 1
  <2>1. HoldingCalls' = HoldingCalls \cup {a} /\ a \notin HoldingCalls
    BY <1>2, <1>3 DEF HoldingCalls, Only
  <2>2. Cardinality(HoldingCalls') = Cardinality(HoldingCalls) + 1
    BY <1>1, <2>1, FS_AddElement
  <2> QED
    BY <1>1, <1>3, <2>2 DEF SlotsConserved, HoldingCalls
<1>4. CASE sends[p][c].pc = "holding" /\ x.pc # "holding" /\ slots' = slots + 1
  <2>1. HoldingCalls' = HoldingCalls \ {a} /\ a \in HoldingCalls
    BY <1>2, <1>4 DEF HoldingCalls, Only
  <2>2. Cardinality(HoldingCalls') = Cardinality(HoldingCalls) - 1
    BY <1>1, <2>1, FS_RemoveElement
  <2>3. Cardinality(HoldingCalls') \in Nat
    BY <1>1, <2>1, FS_RemoveElement, FS_CardinalityType
  <2> QED
    BY <1>1, <1>4, <2>2, <2>3 DEF SlotsConserved, HoldingCalls
<1>5. CASE sends[p][c].pc # "holding" /\ x.pc # "holding" /\ slots' = slots
  <2>1. HoldingCalls' = HoldingCalls
    BY <1>2, <1>5 DEF HoldingCalls, Only
  <2>2. Cardinality(HoldingCalls') = Cardinality(HoldingCalls)
    BY <2>1
  <2> QED
    BY <1>1, <1>5, <2>2 DEF SlotsConserved, HoldingCalls
<1> QED
  BY <1>3, <1>4, <1>5 DEF SlotsOf

LEMMA TypesOf ==
  ASSUME ContinuationInv
  PROVE  /\ sends \in [Peers -> [Callers -> Calls]]
         /\ entries \in [Peers -> Entries]
         /\ waiting \in [Peers -> Nat] /\ owed \in [Peers -> SUBSET Keys]
         /\ requests \in [Peers -> Nat] /\ serving \in [Peers -> BOOLEAN]
         /\ conn \in [Peers -> {"up", "broken"}]
         /\ \A p \in Peers : Cardinality(entries[p].pending) <= MaxKeys
BY DEF ContinuationInv, ContinuationTypeOK, Calls, Entries

(* A step that leaves a peer alone leaves it as it should be, whether or   *)
(* not the context is canceled.                                            *)
LEMMA PeerStays ==
  ASSUME ContinuationInv, NEW q \in Peers, done => done',
         conn'[q] = conn[q], serving'[q] = serving[q], entries'[q] = entries[q],
         waiting'[q] = waiting[q], sends'[q] = sends[q], owed'[q] = owed[q]
  PROVE  PeerOK(q)'
<1>1. (\A c \in Callers : CallOK(q, c)) /\ QueueOK(q) /\ KeysOK(q)
  BY DEF ContinuationInv, PeerOK
<1>2. \A c \in Callers : CallOK(q, c)'
  BY <1>1 DEF CallOK
<1>3. QueueOK(q)'
  BY <1>1 DEF QueueOK
<1>4. KeysOK(q)'
  BY <1>1 DEF KeysOK
<1> QED
  BY <1>2, <1>3, <1>4 DEF PeerOK

(* A step of the goroutines of peer p. *)
LEMMA PeerStep ==
  ASSUME ContinuationInv, NEW p \in Peers, NEW c \in Callers, NEW x \in Calls,
         NEW e \in Entries, NEW w \in Nat, NEW o \in SUBSET Keys, NEW b \in BOOLEAN,
         Only(p, c, x), SlotsOf(p, c, x), Cardinality(e.pending) <= MaxKeys,
         entries' = [entries EXCEPT ![p] = e],
         waiting' = [waiting EXCEPT ![p] = w],
         owed' = [owed EXCEPT ![p] = o],
         serving' = [serving EXCEPT ![p] = b],
         done' = done, conn' = conn, requests' \in [Peers -> Nat],
         PeerOK(p)'
  PROVE  ContinuationInv'
<1>1. SlotsConserved' /\ slots' \in 0..MaxOps
  BY SlotsStep
<1>2. /\ entries' \in [Peers -> Entries] /\ waiting' \in [Peers -> Nat]
      /\ owed' \in [Peers -> SUBSET Keys] /\ serving' \in [Peers -> BOOLEAN]
  BY TypesOf
<1>3. /\ entries'[p] = e
      /\ \A q \in Peers \ {p} : /\ entries'[q] = entries[q] /\ waiting'[q] = waiting[q]
                                /\ owed'[q] = owed[q] /\ serving'[q] = serving[q]
                                /\ sends'[q] = sends[q]
  BY TypesOf DEF Only
<1>4. \A q \in Peers : Cardinality(entries'[q].pending) <= MaxKeys
  BY <1>3, TypesOf
<1>5. \A q \in Peers : PeerOK(q)'
  BY <1>3, PeerStays
<1>6. ContinuationTypeOK'
  BY <1>1, <1>2, <1>4 DEF ContinuationTypeOK, ContinuationInv, Only, Calls, Entries
<1> QED
  BY <1>1, <1>5, <1>6 DEF ContinuationInv

(* A step of sendRequestedBlobsResult: the call goes on as x, and the keys *)
(* it is done with are no longer owed.                                     *)
LEMMA CallStep ==
  ASSUME ContinuationInv, NEW p \in Peers, NEW c \in Callers, NEW x \in Calls,
         Only(p, c, x), SlotsOf(p, c, x),
         sends[p][c].pc \in {"next", "holding"},
         x.pc \in {"next", "holding"} => x.keys # {},
         x.pc \notin {"idle", "schedule"},
         x.keys \subseteq sends[p][c].keys,
         NEW gone \in SUBSET Keys, Settled(p, gone), sends[p][c].keys \ x.keys \subseteq gone,
         x.pc = "failed" => (done \/ conn[p] = "broken") /\ x.keys \subseteq gone,
         UNCHANGED <<done, conn, serving, entries, waiting, requests>>
  PROVE  ContinuationInv'
<1>1. /\ \A d \in Callers : CallOK(p, d)
      /\ QueueOK(p) /\ KeysOK(p)
  BY DEF ContinuationInv, PeerOK
<1>2. owed'[p] = owed[p] \ gone /\ owed' = [owed EXCEPT ![p] = owed[p] \ gone]
  BY TypesOf DEF Settled
<1>3. sends'[p][c] = x /\ \A d \in Callers \ {c} : sends'[p][d] = sends[p][d]
  BY DEF Only
<1>4. \A d \in Callers : CallOK(p, d)'
  <2>1. CallOK(p, c)'
    BY <1>2, <1>3 DEF CallOK
  <2>2. \A d \in Callers \ {c} : CallOK(p, d)'
    BY <1>1, <1>2, <1>3 DEF CallOK
  <2> QED
    BY <2>1, <2>2
<1>5. \A d \in Callers : sends'[p][d].pc = "idle" <=> sends[p][d].pc = "idle"
  BY <1>3
<1>6. QueueOK(p)'
  <2>1. owed'[p] \subseteq owed[p]
    BY <1>2
  <2> QED
    BY <1>1, <1>5, <2>1 DEF QueueOK, Callers, Runs
<1>7. KeysOK(p)'
  <2> SUFFICES ASSUME ~done, NEW k \in owed'[p]
               PROVE  k \in entries[p].pending \/ \E d \in Callers : k \in sends'[p][d].keys
    BY DEF KeysOK
  <2>1. k \in owed[p] /\ k \notin gone
    BY <1>2
  <2>2. CASE k \in entries[p].pending
    BY <2>2
  <2>3. ASSUME NEW d \in Callers, k \in sends[p][d].keys
        PROVE  k \in sends'[p][d].keys
    BY <1>3, <2>1, <2>3
  <2> QED
    BY <1>1, <2>1, <2>2, <2>3 DEF KeysOK
<1>8. PeerOK(p)'
  BY <1>4, <1>6, <1>7 DEF PeerOK
<1>9. /\ entries' = [entries EXCEPT ![p] = entries[p]] /\ entries[p] \in Entries
      /\ waiting' = [waiting EXCEPT ![p] = waiting[p]] /\ waiting[p] \in Nat
      /\ serving' = [serving EXCEPT ![p] = serving[p]] /\ serving[p] \in BOOLEAN
      /\ owed[p] \ gone \in SUBSET Keys /\ requests' \in [Peers -> Nat]
      /\ Cardinality(entries[p].pending) <= MaxKeys
  BY TypesOf
<1> QED
  BY <1>2, <1>8, <1>9, PeerStep

(* The steps of sendRequestedBlobsResult. *)
LEMMA SendStepInv ==
  ASSUME ContinuationInv, NEW p \in Peers, NEW c \in Callers, SendStep(p, c)
  PROVE  ContinuationInv'
<1>0. sends \in [Peers -> [Callers -> Calls]] /\ sends[p][c] \in Calls
      /\ sends[p][c].keys \in SUBSET Keys /\ owed \in [Peers -> SUBSET Keys] /\ CallOK(p, c)
  BY TypesOf DEF Calls, ContinuationInv, PeerOK
<1>1. UNCHANGED owed => Settled(p, {})
  BY <1>0 DEF Settled
<1>2. CASE Acquire(p, c)
  <2>1. PICK x \in Calls : Only(p, c, x) /\ x.pc = "holding" /\ x.keys = sends[p][c].keys
    BY <1>0, <1>2, OnlyGoto DEF Acquire
  <2>2. SlotsOf(p, c, x) /\ sends[p][c].pc = "next"
    BY <1>2, <2>1 DEF Acquire, SlotsOf
  <2>3. UNCHANGED <<done, conn, serving, entries, waiting, requests, owed>>
    BY <1>2 DEF Acquire, history
  <2> QED
    BY <1>0, <1>1, <2>1, <2>2, <2>3, CallStep DEF CallOK
<1>3. CASE AcquireCanceled(p, c)
  <2>1. PICK x \in Calls : Only(p, c, x) /\ x.pc = "failed" /\ x.keys = sends[p][c].keys
    BY <1>0, <1>3, OnlyGoto DEF AcquireCanceled
  <2>2. SlotsOf(p, c, x) /\ sends[p][c].pc = "next" /\ done
    BY <1>3, <2>1 DEF AcquireCanceled, SlotsOf
  <2> QED
    BY <1>0, <1>3, <2>1, <2>2, CallStep DEF AcquireCanceled
<1>4. CASE Skip(p, c) \/ Send(p, c)
  <2>1. sends[p][c].pc = "holding" /\ slots' = slots + 1 /\ Settled(p, {Current(p, c)})
        /\ UNCHANGED <<done, conn, serving, entries, waiting, requests>>
    BY <1>4 DEF Skip, Send
  <2>2. Current(p, c) \in Keys /\ Size[Current(p, c)] \in Nat
    BY <2>1, CurrentKey
  <2>3. \E n \in Nat : Advanced(p, c, n)
    BY <1>4, <2>2 DEF Skip, Send
  <2>4. PICK x \in Calls : /\ Only(p, c, x) /\ x.pc \in {"next", "returned"}
                           /\ x.pc = "next" => x.keys # {}
                           /\ x.keys = sends[p][c].keys \ {Current(p, c)}
    BY <1>0, <2>3, OnlyAdvanced
  <2>5. SlotsOf(p, c, x)
    BY <2>1, <2>4 DEF SlotsOf
  <2>6. {Current(p, c)} \in SUBSET Keys
    BY <2>2
  <2> HIDE DEF Current
  <2> QED
    BY <2>1, <2>4, <2>5, <2>6, CallStep
<1>5. CASE Defer(p, c)
  <2>1. PICK x \in Calls : Only(p, c, x) /\ x.pc = "returned" /\ x.keys = sends[p][c].keys
    BY <1>0, <1>5, OnlyGoto DEF Defer
  <2>2. SlotsOf(p, c, x) /\ sends[p][c].pc = "holding"
    BY <1>5, <2>1 DEF Defer, SlotsOf
  <2>3. UNCHANGED <<done, conn, serving, entries, waiting, requests, owed>>
    BY <1>5 DEF Defer, history
  <2> QED
    BY <1>0, <1>1, <2>1, <2>2, <2>3, CallStep
<1>6. CASE SendFails(p, c)
  <2>1. PICK x \in Calls : Only(p, c, x) /\ x.pc = "failed" /\ x.keys = sends[p][c].keys
    BY <1>0, <1>6, OnlyGoto DEF SendFails
  <2>2. SlotsOf(p, c, x) /\ sends[p][c].pc = "holding" /\ (done \/ conn[p] = "broken")
    BY <1>6, <2>1 DEF SendFails, SlotsOf
  <2> QED
    BY <1>0, <1>6, <2>1, <2>2, CallStep DEF SendFails
<1> QED
  BY <1>2, <1>3, <1>4, <1>5, <1>6 DEF SendStep

-----------------------------------------------------------------------------
(* The connection and the scheduler. *)

LEMMA Constants ==
  /\ Idle \in Calls /\ Idle.pc = "idle" /\ Idle.keys = {}
  /\ NoEntry \in Entries /\ NoEntry.present = FALSE /\ NoEntry.pending = {}
  /\ ~NoEntry.running /\ ~NoEntry.scheduled /\ Cardinality({}) <= MaxKeys
  /\ \A keys \in SUBSET Keys, n \in 0..MaxAttempts :
       /\ Call(keys, n) \in Calls /\ Call(keys, n).keys = keys
       /\ Call(keys, n).pc \in {"next", "returned"}
       /\ Call(keys, n).pc = "next" => keys # {}
<1>1. 0 \in 0..MaxAttempts
  BY ContinuationAssumption
<1>2. Cardinality({}) <= MaxKeys
  BY FS_EmptySet, ContinuationAssumption
<1>3. ASSUME NEW keys \in SUBSET Keys, NEW n \in 0..MaxAttempts
      PROVE  /\ Call(keys, n) \in Calls /\ Call(keys, n).keys = keys
             /\ Call(keys, n).pc \in {"next", "returned"}
             /\ Call(keys, n).pc = "next" => keys # {}
  BY DEF Call, Calls
<1> QED
  BY <1>1, <1>2, <1>3 DEF Idle, NoEntry, Calls, Entries

LEMMA ShutdownInv ==
  ASSUME ContinuationInv, Shutdown
  PROVE  ContinuationInv'
<1>1. \A p \in Peers : PeerOK(p)'
  BY PeerStays DEF Shutdown, history
<1> QED
  BY <1>1 DEF Shutdown, history, ContinuationInv, ContinuationTypeOK, SlotsConserved

LEMMA BreakInv ==
  ASSUME ContinuationInv, NEW p \in Peers, Break(p)
  PROVE  ContinuationInv'
<1>1. conn' \in [Peers -> {"up", "broken"}] /\ \A q \in Peers \ {p} : conn'[q] = conn[q]
      /\ conn'[p] = "broken"
  BY TypesOf DEF Break
<1>2. PeerOK(p)'
  <2>1. (\A c \in Callers : CallOK(p, c)) /\ QueueOK(p) /\ KeysOK(p)
    BY DEF ContinuationInv, PeerOK
  <2>2. \A c \in Callers : CallOK(p, c)'
    BY <1>1, <2>1 DEF Break, history, CallOK
  <2>3. QueueOK(p)' /\ KeysOK(p)'
    BY <2>1 DEF Break, history, QueueOK, KeysOK
  <2> QED
    BY <2>2, <2>3 DEF PeerOK
<1>3. \A q \in Peers : PeerOK(q)'
  BY <1>1, <1>2, PeerStays DEF Break, history
<1> QED
  BY <1>1, <1>3 DEF Break, history, ContinuationInv, ContinuationTypeOK, SlotsConserved

LEMMA ReadLoopEndsInv ==
  ASSUME ContinuationInv, NEW p \in Peers, ReadLoopEnds(p)
  PROVE  ContinuationInv'
<1>0. "handler" \in Callers /\ FALSE \in BOOLEAN
  BY DEF Callers
<1>1. /\ \A d \in Callers : CallOK(p, d)
      /\ QueueOK(p)
  BY DEF ContinuationInv, PeerOK
<1>2. Only(p, "handler", Idle)
  BY <1>0, TypesOf, Constants, OnlySet DEF ReadLoopEnds
<1>3. /\ entries'[p] = NoEntry /\ owed'[p] = {} /\ serving'[p] = FALSE
      /\ waiting'[p] = waiting[p] /\ done' = done /\ conn' = conn
  BY TypesOf DEF ReadLoopEnds
<1>4. sends'[p]["handler"] = Idle
      /\ \A d \in Callers \ {"handler"} : sends'[p][d] = sends[p][d]
  BY <1>2 DEF Only
<1>5. \A d \in Callers : CallOK(p, d)'
  BY <1>1, <1>3, <1>4, Constants DEF CallOK
<1>6. QueueOK(p)'
  BY <1>1, <1>3, <1>4, Constants DEF QueueOK, Callers, Runs
<1>7. KeysOK(p)'
  BY <1>3 DEF KeysOK
<1>8. PeerOK(p)'
  BY <1>5, <1>6, <1>7 DEF PeerOK
<1>9. SlotsOf(p, "handler", Idle)
  BY Constants DEF SlotsOf, ReadLoopEnds
<1>10. /\ waiting' = [waiting EXCEPT ![p] = waiting[p]] /\ waiting[p] \in Nat
       /\ requests' \in [Peers -> Nat] /\ {} \in SUBSET Keys
  BY TypesOf DEF ReadLoopEnds
<1> QED
  BY <1>0, <1>2, <1>3, <1>8, <1>9, <1>10, Constants, PeerStep DEF ReadLoopEnds

LEMMA RequestedInv ==
  ASSUME ContinuationInv, NEW p \in Peers, Requested(p)
  PROVE  ContinuationInv'
<1> DEFINE keys == Requests[p][requests[p] + 1]
           x == Call(keys, 0)
           o == owed[p] \cup keys
<1>0. "handler" \in Callers
  BY DEF Callers
<1>1. keys \in SUBSET Keys
  <2>1. Requests[p] \in Seq({ks \in SUBSET Keys : Cardinality(ks) \in 1..MaxKeys})
    BY ContinuationAssumption
  <2>2. requests[p] + 1 \in 1..Len(Requests[p])
    BY <2>1, TypesOf DEF Requested
  <2> QED
    BY <2>1, <2>2
<1>2. /\ owed' = [owed EXCEPT ![p] = o]
      /\ sends' = [sends EXCEPT ![p]["handler"] = x]
      /\ o \in SUBSET Keys /\ 0 \in 0..MaxAttempts
  BY <1>1, TypesOf, ContinuationAssumption DEF Requested
<1> HIDE DEF keys
<1>3. /\ x \in Calls /\ x.keys = keys /\ x.pc \in {"next", "returned"}
      /\ x.pc = "next" => keys # {}
  BY <1>1, <1>2, Constants
<1>4. /\ sends[p]["handler"].pc = "idle" /\ ~done /\ conn[p] = "up" /\ serving[p]
      /\ UNCHANGED <<done, conn, serving, entries, waiting, slots>>
      /\ owed'[p] = o /\ requests' \in [Peers -> Nat]
  BY <1>2, TypesOf DEF Requested
<1> HIDE DEF x
<1>5. Only(p, "handler", x)
  BY <1>0, <1>2, <1>3, TypesOf, OnlySet
<1>6. sends'[p]["handler"] = x
      /\ \A d \in Callers \ {"handler"} : sends'[p][d] = sends[p][d]
  BY <1>5 DEF Only
<1>7. /\ \A d \in Callers : CallOK(p, d)
      /\ QueueOK(p) /\ KeysOK(p)
  BY DEF ContinuationInv, PeerOK
<1>8. \A d \in Callers : CallOK(p, d)'
  <2>1. CallOK(p, "handler")'
    BY <1>3, <1>6 DEF CallOK
  <2>2. \A d \in Callers \ {"handler"} : sends[p][d].pc # "failed"
    BY <1>4, <1>7 DEF CallOK
  <2>3. \A d \in Callers \ {"handler"} : CallOK(p, d)'
    BY <1>6, <1>7, <2>2 DEF CallOK
  <2> QED
    BY <2>1, <2>3
<1>9. QueueOK(p)'
  BY <1>4, <1>6, <1>7 DEF QueueOK, Callers, Runs
<1>10. KeysOK(p)'
  <2> SUFFICES ASSUME NEW k \in owed'[p]
               PROVE  k \in entries'[p].pending \/ \E d \in Callers : k \in sends'[p][d].keys
    BY DEF KeysOK
  <2>1. CASE k \in keys
    BY <1>0, <1>3, <1>6, <2>1
  <2>2. CASE k \in owed[p]
    <3>1. sends[p]["handler"].keys = {}
      BY <1>0, <1>4, <1>7 DEF CallOK
    <3>2. k \in entries[p].pending \/ \E d \in Callers \ {"handler"} : k \in sends[p][d].keys
      BY <1>4, <1>7, <2>2, <3>1 DEF KeysOK
    <3> QED
      BY <1>4, <1>6, <3>2
  <2> QED
    BY <1>4, <2>1, <2>2
<1>11. PeerOK(p)'
  BY <1>8, <1>9, <1>10 DEF PeerOK
<1>12. SlotsOf(p, "handler", x)
  BY <1>3, <1>4 DEF SlotsOf
<1>13. /\ entries' = [entries EXCEPT ![p] = entries[p]] /\ entries[p] \in Entries
       /\ waiting' = [waiting EXCEPT ![p] = waiting[p]] /\ waiting[p] \in Nat
       /\ serving' = [serving EXCEPT ![p] = serving[p]] /\ serving[p] \in BOOLEAN
       /\ Cardinality(entries[p].pending) <= MaxKeys
  BY <1>4, TypesOf
<1> HIDE DEF o
<1> QED
  BY <1>0, <1>2, <1>3, <1>4, <1>5, <1>11, <1>12, <1>13, PeerStep

LEMMA HandlerReturnsInv ==
  ASSUME ContinuationInv, NEW p \in Peers, HandlerReturns(p)
  PROVE  ContinuationInv'
<1> DEFINE e == entries[p]
           w == waiting[p]
           b == serving[p]
           o == owed[p]
<1>0. "handler" \in Callers
  BY DEF Callers
<1>1. /\ sends[p]["handler"].pc = "returned"
      /\ UNCHANGED <<done, conn, serving, entries, waiting, slots, owed, requests>>
  BY DEF HandlerReturns, history
<1>2. PICK x \in Calls : /\ Only(p, "handler", x)
                         /\ \/ x.pc = "schedule" /\ x.keys = sends[p]["handler"].keys
                            \/ /\ x.pc = "idle" /\ x.keys = {}
                               /\ sends[p]["handler"].keys = {} \/ done
  <2>1. CASE Goto(p, "handler", "schedule")
    BY <1>0, <2>1, TypesOf, OnlyGoto
  <2>2. CASE /\ sends' = [sends EXCEPT ![p]["handler"] = Idle]
             /\ sends[p]["handler"].keys = {} \/ done
    BY <1>0, <2>2, TypesOf, Constants, OnlySet
  <2> QED
    BY <2>1, <2>2 DEF HandlerReturns
<1>3. sends'[p]["handler"] = x
      /\ \A d \in Callers \ {"handler"} : sends'[p][d] = sends[p][d]
  BY <1>2 DEF Only
<1>4. /\ \A d \in Callers : CallOK(p, d)
      /\ QueueOK(p) /\ KeysOK(p)
  BY DEF ContinuationInv, PeerOK
<1>5. \A d \in Callers : CallOK(p, d)'
  BY <1>1, <1>2, <1>3, <1>4 DEF CallOK
<1>6. QueueOK(p)'
  BY <1>1, <1>3, <1>4 DEF QueueOK, Callers, Runs
<1>7. KeysOK(p)'
  BY <1>1, <1>2, <1>3, <1>4 DEF KeysOK
<1>8. PeerOK(p)'
  BY <1>5, <1>6, <1>7 DEF PeerOK
<1>9. SlotsOf(p, "handler", x)
  BY <1>1, <1>2 DEF SlotsOf
<1>10. /\ entries' = [entries EXCEPT ![p] = e] /\ e \in Entries
       /\ waiting' = [waiting EXCEPT ![p] = w] /\ w \in Nat
       /\ serving' = [serving EXCEPT ![p] = b] /\ b \in BOOLEAN
       /\ owed' = [owed EXCEPT ![p] = o] /\ o \in SUBSET Keys
       /\ Cardinality(e.pending) <= MaxKeys /\ requests' \in [Peers -> Nat]
  BY <1>1, TypesOf
<1> HIDE DEF e, w, b, o
<1> QED
  BY <1>0, <1>1, <1>2, <1>8, <1>9, <1>10, PeerStep

LEMMA ScheduleInv ==
  ASSUME ContinuationInv, NEW p \in Peers, Schedule(p)
  PROVE  ContinuationInv'
<1> DEFINE old == IF entries[p].present THEN entries[p] ELSE NewEntry
           keys == sends[p]["handler"].keys
           merged == Merged(old.pending, keys)
           launch == ~old.running /\ ~old.scheduled
           att == IF old.running \/ launch THEN 0 ELSE old.attempt
           e == [old EXCEPT !.pending = merged, !.attempt = att,
                            !.scheduled = old.scheduled \/ launch]
           w == IF launch THEN waiting[p] + 1 ELSE waiting[p]
           o == owed[p] \ (keys \ merged)
<1>0. "handler" \in Callers
  BY DEF Callers
<1>1. /\ \A d \in Callers : CallOK(p, d)
      /\ QueueOK(p) /\ KeysOK(p)
      /\ sends[p]["handler"].pc = "schedule" /\ serving[p]
      /\ UNCHANGED <<done, conn, serving, slots, requests>>
  BY DEF ContinuationInv, PeerOK, QueueOK, Schedule
<1>2. entries[p] \in Entries /\ Cardinality(entries[p].pending) <= MaxKeys
      /\ waiting[p] \in Nat /\ owed[p] \in SUBSET Keys
  BY TypesOf
<1>3. /\ old \in Entries /\ Cardinality(old.pending) <= MaxKeys
      /\ old.present /\ old.pending = entries[p].pending
      /\ ~entries[p].present => ~old.running /\ ~old.scheduled
  <2>1. CASE entries[p].present
    BY <1>2, <2>1
  <2>2. CASE ~entries[p].present
    <3>1. /\ NewEntry \in Entries /\ NewEntry.present /\ NewEntry.pending = {}
          /\ ~NewEntry.running /\ ~NewEntry.scheduled
      BY Constants DEF NewEntry, Entries
    <3> QED
      BY <1>1, <2>2, <3>1, Constants DEF QueueOK
  <2> QED
    BY <2>1, <2>2
<1>4. /\ entries[p].present => old = entries[p]
      /\ sends[p]["handler"] \in Calls /\ keys \in SUBSET Keys
  BY <1>0, TypesOf DEF Calls
<1>5. /\ entries' = [entries EXCEPT ![p] = e]
      /\ waiting' = [waiting EXCEPT ![p] = w]
      /\ owed' = [owed EXCEPT ![p] = o]
      /\ sends' = [sends EXCEPT ![p]["handler"] = Idle]
  BY DEF Schedule, Settled
<1> HIDE DEF old, keys
<1>6. /\ merged \in SUBSET Keys /\ Cardinality(merged) <= MaxKeys
      /\ entries[p].pending \subseteq merged
  <2>1. old.pending \in SUBSET Keys
    BY <1>3 DEF Entries
  <2> QED
    BY <1>3, <1>4, <2>1, MergedQueue
<1> HIDE DEF merged
<1>7. /\ e \in Entries /\ e.present /\ e.pending = merged /\ e.running = old.running
      /\ e.scheduled <=> (old.scheduled \/ launch)
  <2>1. att \in 0..MaxAttempts
    BY <1>3, ContinuationAssumption DEF Entries
  <2>2. (old.scheduled \/ launch) \in BOOLEAN
    OBVIOUS
  <2> HIDE DEF att, launch
  <2> QED
    BY <1>3, <1>6, <2>1, <2>2 DEF Entries
<1>8. w \in Nat /\ o \in SUBSET Keys
  BY <1>2
<1>9. entries'[p] = e /\ waiting'[p] = w /\ owed'[p] = o
  BY <1>5, TypesOf
<1> HIDE DEF e
<1>10. Only(p, "handler", Idle)
  BY <1>0, <1>5, TypesOf, Constants, OnlySet
<1>11. sends'[p]["handler"] = Idle
       /\ \A d \in Callers \ {"handler"} : sends'[p][d] = sends[p][d]
  BY <1>10 DEF Only
<1>12. \A d \in Callers : CallOK(p, d)'
  BY <1>1, <1>9, <1>11, Constants DEF CallOK
<1>13. QueueOK(p)'
  <2>1. /\ sends'[p]["run"] = sends[p]["run"]
        /\ sends'[p]["second run"] = sends[p]["second run"]
    BY <1>11 DEF Callers, Runs
  <2>2. /\ waiting[p] = 0 \/ waiting[p] = 1
        /\ sends[p]["second run"].pc = "idle"
        /\ waiting[p] = 1 => sends[p]["run"].pc = "idle"
    BY <1>1 DEF QueueOK
  <2>3. /\ old.scheduled <=> waiting[p] = 1
        /\ old.running <=> sends[p]["run"].pc # "idle"
    <3>1. CASE entries[p].present
      BY <1>1, <1>4, <3>1 DEF QueueOK
    <3>2. CASE ~entries[p].present
      <4>1. waiting[p] = 0 /\ sends[p]["run"].pc = "idle"
        BY <1>1, <3>2 DEF QueueOK
      <4>2. ~old.running /\ ~old.scheduled
        BY <1>3, <3>2
      <4> QED
        BY <4>1, <4>2
    <3> QED
      BY <3>1, <3>2
  <2>4. /\ e.scheduled <=> w = 1
        /\ e.running <=> sends[p]["run"].pc # "idle"
        /\ e.scheduled \/ e.running
        /\ w \in {0, 1} /\ (w = 1 => sends[p]["run"].pc = "idle")
    <3>1. CASE launch
      <4>1. w = 1 /\ sends[p]["run"].pc = "idle"
        <5>1. ~old.running /\ ~old.scheduled
          BY <3>1
        <5>2. waiting[p] = 0 /\ sends[p]["run"].pc = "idle"
          BY <2>2, <2>3, <5>1
        <5> QED
          BY <3>1, <5>2
      <4>2. e.scheduled /\ ~e.running
        BY <1>7, <3>1
      <4> QED
        BY <4>1, <4>2
    <3>2. CASE ~launch
      <4>1. w = waiting[p] /\ (e.scheduled <=> old.scheduled) /\ (old.scheduled \/ old.running)
        BY <1>7, <3>2
      <4> QED
        BY <1>7, <2>2, <2>3, <4>1
    <3> QED
      BY <3>1, <3>2
  <2> QED
    BY <1>1, <1>7, <1>9, <2>1, <2>2, <2>4 DEF QueueOK
<1>14. KeysOK(p)'
  <2> SUFFICES ASSUME ~done, NEW k \in owed'[p]
               PROVE  k \in merged \/ \E d \in Callers : k \in sends'[p][d].keys
    BY <1>1, <1>7, <1>9 DEF KeysOK
  <2>1. k \in owed[p] /\ (k \in keys => k \in merged)
    BY <1>9
  <2>2. k \in entries[p].pending \/ \E d \in Callers : k \in sends[p][d].keys
    BY <1>1, <2>1 DEF KeysOK
  <2>3. ASSUME NEW d \in Callers, k \in sends[p][d].keys
        PROVE  k \in merged \/ k \in sends'[p][d].keys
    BY <1>11, <2>1, <2>3 DEF keys
  <2> QED
    BY <1>6, <2>2, <2>3
<1>15. PeerOK(p)'
  BY <1>12, <1>13, <1>14 DEF PeerOK
<1>16. SlotsOf(p, "handler", Idle)
  BY <1>1, Constants DEF SlotsOf
<1>17. /\ serving' = [serving EXCEPT ![p] = serving[p]] /\ serving[p] \in BOOLEAN
       /\ requests' \in [Peers -> Nat] /\ Cardinality(e.pending) <= MaxKeys
  BY <1>1, <1>6, <1>7, TypesOf
<1> HIDE DEF w, o
<1> QED
  BY <1>0, <1>1, <1>5, <1>7, <1>8, <1>10, <1>15, <1>16, <1>17, Constants, PeerStep

LEMMA WaitCanceledInv ==
  ASSUME ContinuationInv, NEW p \in Peers, WaitCanceled(p)
  PROVE  ContinuationInv'
<1> DEFINE x == sends[p]["run"]
           b == serving[p]
           o == owed[p]
<1>1. /\ \A d \in Callers : CallOK(p, d)
      /\ QueueOK(p)
  BY DEF ContinuationInv, PeerOK
<1>2. /\ "run" \in Callers /\ x \in Calls /\ Only(p, "run", x)
  BY TypesOf DEF Callers, Runs, Only, WaitCanceled
<1>3. /\ waiting[p] = 1 /\ waiting[p] - 1 = 0 /\ x.pc = "idle"
      /\ waiting' = [waiting EXCEPT ![p] = waiting[p] - 1]
      /\ entries' = [entries EXCEPT ![p] = NoEntry]
      /\ done /\ UNCHANGED <<done, conn, serving, sends, slots, owed, requests>>
  <2>1. waiting[p] > 0 /\ waiting[p] \in {0, 1}
    BY <1>1 DEF WaitCanceled, QueueOK
  <2> QED
    <3>1. waiting[p] = 1
      BY <2>1
    <3>2. x.pc = "idle"
      BY <1>1, <3>1 DEF QueueOK
    <3> QED
      BY <3>1, <3>2 DEF WaitCanceled, history
<1>4. waiting'[p] = 0 /\ entries'[p] = NoEntry
  BY <1>3, TypesOf
<1>5. \A d \in Callers : CallOK(p, d)'
  BY <1>1, <1>3 DEF CallOK
<1>6. QueueOK(p)'
  BY <1>1, <1>3, <1>4, Constants DEF QueueOK
<1>7. PeerOK(p)'
  BY <1>3, <1>5, <1>6 DEF PeerOK, KeysOK
<1>8. SlotsOf(p, "run", x)
  BY <1>3 DEF SlotsOf
<1>9. /\ serving' = [serving EXCEPT ![p] = b] /\ b \in BOOLEAN
      /\ owed' = [owed EXCEPT ![p] = o] /\ o \in SUBSET Keys
      /\ requests' \in [Peers -> Nat] /\ waiting' = [waiting EXCEPT ![p] = 0] /\ 0 \in Nat
  BY <1>3, TypesOf
<1> HIDE DEF x, b, o
<1> QED
  <2>1. /\ NoEntry \in Entries /\ Cardinality(NoEntry.pending) <= MaxKeys
        /\ entries' = [entries EXCEPT ![p] = NoEntry] /\ done' = done /\ conn' = conn
    BY <1>3, Constants
  <2> QED
    BY <1>2, <1>7, <1>8, <1>9, <2>1, PeerStep

(* The run takes the whole queue. *)
LEMMA RunBeginsInv ==
  ASSUME ContinuationInv, NEW p \in Peers, RunBegins(p)
  PROVE  ContinuationInv'
<1> DEFINE b == serving[p]
           o == owed[p]
<1>0. "run" \in Callers
  BY DEF Callers, Runs
<1>1. /\ \A d \in Callers : CallOK(p, d)
      /\ QueueOK(p) /\ KeysOK(p)
  BY DEF ContinuationInv, PeerOK
<1>2. waiting[p] = 1 /\ sends[p]["run"].pc = "idle"
  <2>1. waiting[p] > 0 /\ waiting[p] \in {0, 1}
    BY <1>1 DEF RunBegins, QueueOK
  <2>2. waiting[p] = 1
    BY <2>1
  <2> QED
    BY <1>1, <2>2 DEF QueueOK
<1>3. /\ waiting' = [waiting EXCEPT ![p] = 0] /\ 0 \in Nat /\ waiting'[p] = 0
      /\ serving' = [serving EXCEPT ![p] = b] /\ b \in BOOLEAN
      /\ owed' = [owed EXCEPT ![p] = o] /\ o \in SUBSET Keys
      /\ requests' \in [Peers -> Nat]
      /\ UNCHANGED <<done, conn, serving, slots, owed, requests>>
  BY <1>2, TypesOf DEF RunBegins, history
<1>4. CASE entries[p].present
  <2> DEFINE keys == entries[p].pending
             att == entries[p].attempt
             x == Call(keys, att)
             e == [entries[p] EXCEPT !.scheduled = FALSE, !.running = TRUE, !.pending = {}]
  <2>1. entries[p] \in Entries /\ keys \in SUBSET Keys /\ att \in 0..MaxAttempts
    BY TypesOf DEF Entries
  <2>2. /\ sends' = [sends EXCEPT ![p]["run"] = x]
        /\ entries' = [entries EXCEPT ![p] = e]
    BY <1>2, <1>4 DEF RunBegins
  <2>3. /\ e \in Entries /\ e.present = entries[p].present /\ e.pending = {}
        /\ e.running /\ ~e.scheduled
    BY <2>1 DEF Entries
  <2>4. /\ x \in Calls /\ x.keys = keys /\ x.pc \in {"next", "returned"}
        /\ x.pc = "next" => keys # {}
    BY <2>1, Constants
  <2> HIDE DEF e, x
  <2>5. Only(p, "run", x)
    BY <1>0, <2>2, <2>4, TypesOf, OnlySet
  <2>6. /\ sends'[p]["run"] = x /\ entries'[p] = e
        /\ \A d \in Callers \ {"run"} : sends'[p][d] = sends[p][d]
    BY <2>2, <2>5, TypesOf DEF Only
  <2>7. \A d \in Callers : CallOK(p, d)'
    BY <1>1, <1>3, <2>4, <2>6 DEF CallOK
  <2>8. QueueOK(p)'
    <3>1. /\ sends'[p]["second run"] = sends[p]["second run"]
          /\ sends'[p]["handler"] = sends[p]["handler"]
      BY <2>6 DEF Callers, Runs
    <3>2. entries'[p].present /\ entries'[p].running /\ ~entries'[p].scheduled /\ x.pc # "idle"
      BY <1>4, <2>3, <2>4, <2>6
    <3>3. serving'[p] /\ sends'[p]["second run"].pc = "idle"
      BY <1>1, <1>3, <1>4, <3>1 DEF QueueOK
    <3>4. waiting'[p] = 0 /\ sends'[p]["run"].pc # "idle"
      BY <1>3, <2>6, <3>2
    <3>5. waiting'[p] \in {0, 1} /\ ~(waiting'[p] = 1)
      BY <3>4
    <3> QED
      BY <3>2, <3>3, <3>4, <3>5, Zenon DEF QueueOK
  <2>9. KeysOK(p)'
    <3> SUFFICES ASSUME ~done, NEW k \in owed[p]
                 PROVE  \E d \in Callers : k \in sends'[p][d].keys
      BY <1>3 DEF KeysOK
    <3>1. k \in keys \/ \E d \in Callers : k \in sends[p][d].keys
      BY <1>1 DEF KeysOK
    <3>2. sends[p]["run"].keys = {}
      BY <1>0, <1>1, <1>2 DEF CallOK
    <3>3. CASE k \in keys
      BY <1>0, <2>4, <2>6, <3>3
    <3>4. CASE \E d \in Callers : k \in sends[p][d].keys
      BY <2>6, <3>2, <3>4
    <3> QED
      BY <3>1, <3>3, <3>4
  <2>10. PeerOK(p)'
    BY <2>7, <2>8, <2>9 DEF PeerOK
  <2>11. SlotsOf(p, "run", x)
    BY <1>2, <1>3, <2>4 DEF SlotsOf
  <2>12. Cardinality(e.pending) <= MaxKeys
    BY <2>3, Constants
  <2> HIDE DEF b, o
  <2> QED
    BY <1>0, <1>3, <2>2, <2>3, <2>4, <2>5, <2>10, <2>11, <2>12, PeerStep
<1>5. CASE ~entries[p].present
  <2> DEFINE x == sends[p]["run"]
             e == entries[p]
  <2>1. UNCHANGED <<sends, entries>>
    BY <1>5 DEF RunBegins
  <2>2. x \in Calls /\ Only(p, "run", x)
    BY <1>0, <2>1, TypesOf DEF Only
  <2>3. entries' = [entries EXCEPT ![p] = e] /\ e \in Entries /\ Cardinality(e.pending) <= MaxKeys
    BY <2>1, TypesOf
  <2>4. QueueOK(p)'
    BY <1>1, <1>3, <1>5, <2>1 DEF QueueOK
  <2>5. PeerOK(p)'
    BY <1>1, <1>3, <2>1, <2>4 DEF PeerOK, CallOK, KeysOK
  <2>6. SlotsOf(p, "run", x)
    BY <1>2, <1>3 DEF SlotsOf
  <2> HIDE DEF b, o, x, e
  <2> QED
    BY <1>0, <1>3, <2>2, <2>3, <2>5, <2>6, PeerStep
<1> QED
  BY <1>4, <1>5

(* The run ends, and waits again when there is something queued. *)
LEMMA RunReturnsInv ==
  ASSUME ContinuationInv, NEW p \in Peers, NEW c \in Runs, RunReturns(p, c)
  PROVE  ContinuationInv'
<1> DEFINE b == serving[p]
<1>0. "run" \in Callers /\ c \in Callers
  BY DEF Callers, Runs
<1>1. /\ \A d \in Callers : CallOK(p, d)
      /\ QueueOK(p) /\ KeysOK(p)
  BY DEF ContinuationInv, PeerOK
<1>2. c = "run"
  BY <1>1 DEF RunReturns, QueueOK, Runs
<1>3. /\ sends[p]["run"].pc \in {"returned", "failed"} /\ waiting[p] = 0
      /\ sends' = [sends EXCEPT ![p]["run"] = Idle]
      /\ UNCHANGED <<done, conn, serving, slots, requests>>
  BY <1>1, <1>2 DEF RunReturns, QueueOK
<1>4. Only(p, "run", Idle)
  BY <1>0, <1>3, TypesOf, Constants, OnlySet
<1>5. /\ sends'[p]["run"] = Idle
      /\ \A d \in Callers \ {"run"} : sends'[p][d] = sends[p][d]
  BY <1>4 DEF Only
<1>6. SlotsOf(p, "run", Idle)
  BY <1>3, Constants DEF SlotsOf
<1>7. /\ serving' = [serving EXCEPT ![p] = b] /\ b \in BOOLEAN
      /\ requests' \in [Peers -> Nat]
  BY <1>3, TypesOf
<1>8. CASE entries[p].present
  <2> DEFINE call == sends[p]["run"]
             deferred == IF call.pc = "returned" THEN call.keys ELSE {}
             again == deferred # {} /\ call.attempt < MaxAttempts
             pending == IF again THEN Merged(entries[p].pending, deferred)
                                 ELSE entries[p].pending
             att == IF again THEN call.attempt + 1 ELSE entries[p].attempt
             queued == [entries[p] EXCEPT !.running = FALSE, !.scheduled = TRUE,
                                          !.pending = pending, !.attempt = att]
             e == IF pending = {} THEN NoEntry ELSE queued
             w == IF pending = {} THEN 0 ELSE 1
             gone == IF again THEN deferred \ pending ELSE deferred
             o == owed[p] \ gone
  <2>1. /\ entries[p] \in Entries /\ Cardinality(entries[p].pending) <= MaxKeys
        /\ entries[p].pending \in SUBSET Keys /\ entries[p].attempt \in 0..MaxAttempts
        /\ call \in Calls /\ call.keys \in SUBSET Keys /\ call.attempt \in 0..MaxAttempts
        /\ owed[p] \in SUBSET Keys
    BY <1>0, TypesOf DEF Calls, Entries
  <2>2. entries' = [entries EXCEPT ![p] = e]
    BY <1>2, <1>8 DEF RunReturns
  <2>3. waiting' = [waiting EXCEPT ![p] = w]
    BY <1>2, <1>3, <1>8 DEF RunReturns
  <2>4. owed' = [owed EXCEPT ![p] = o]
    BY <1>2, <1>8 DEF RunReturns, Settled
  <2>5. deferred \in SUBSET Keys /\ deferred \subseteq call.keys
    BY <2>1
  <2>6. /\ pending \in SUBSET Keys /\ Cardinality(pending) <= MaxKeys
        /\ entries[p].pending \subseteq pending
    <3>1. CASE again
      <4>1. pending = Merged(entries[p].pending, deferred)
        BY <3>1
      <4> HIDE DEF pending, deferred
      <4> QED
        BY <2>1, <2>5, <4>1, MergedQueue
    <3>2. CASE ~again
      BY <2>1, <3>2
    <3> QED
      BY <3>1, <3>2
  <2>7. deferred \subseteq pending \cup gone
    OBVIOUS
  <2>8. att \in 0..MaxAttempts
    BY <2>1, ContinuationAssumption
  <2> HIDE DEF att, gone, pending
  <2>9. /\ queued \in Entries /\ queued.present /\ queued.pending = pending
        /\ ~queued.running /\ queued.scheduled
    BY <1>8, <2>1, <2>6, <2>8 DEF Entries
  <2> HIDE DEF queued
  <2>10. /\ e \in Entries /\ e.pending = pending /\ Cardinality(e.pending) <= MaxKeys
         /\ w \in Nat /\ o \in SUBSET Keys
    BY <2>1, <2>6, <2>9, Constants
  <2>11. entries'[p] = e /\ waiting'[p] = w /\ owed'[p] = o
    BY <2>2, <2>3, <2>4, TypesOf
  <2>12. \A d \in Callers : CallOK(p, d)'
    <3>1. o \subseteq owed[p]
      OBVIOUS
    <3> QED
      BY <1>1, <1>3, <1>5, <2>11, <3>1, Constants DEF CallOK
  <2>13. QueueOK(p)'
    <3>0. /\ sends'[p]["second run"].pc = "idle" /\ sends'[p]["run"].pc = "idle"
          /\ serving'[p]
      <4>1. sends'[p]["second run"] = sends[p]["second run"]
        BY <1>5 DEF Callers, Runs
      <4> QED
        BY <1>1, <1>3, <1>5, <1>8, <4>1, Constants DEF QueueOK
    <3>1. CASE pending = {}
      <4>1. /\ entries'[p] = NoEntry /\ waiting'[p] = 0
        BY <2>11, <3>1
      <4> QED
        BY <3>0, <4>1, Constants DEF QueueOK
    <3>2. CASE pending # {}
      <4>1. /\ entries'[p] = queued /\ waiting'[p] = 1
        BY <2>11, <3>2
      <4> QED
        BY <2>9, <3>0, <4>1 DEF QueueOK
    <3> QED
      BY <3>1, <3>2
  <2>14. KeysOK(p)'
    <3> SUFFICES ASSUME ~done, NEW k \in owed'[p]
                 PROVE  k \in pending \/ \E d \in Callers : k \in sends'[p][d].keys
      BY <1>3, <2>10, <2>11 DEF KeysOK
    <3>1. k \in owed[p] /\ k \notin gone
      BY <2>11
    <3>2. k \in entries[p].pending \/ \E d \in Callers : k \in sends[p][d].keys
      BY <1>1, <3>1 DEF KeysOK
    <3>3. k \notin call.keys \/ k \in deferred
      <4>1. CASE call.pc = "failed"
        BY <1>0, <1>1, <3>1, <4>1 DEF CallOK
      <4>2. CASE call.pc = "returned"
        BY <4>2
      <4> QED
        BY <1>3, <4>1, <4>2
    <3>4. k \in call.keys => k \in pending
      BY <2>7, <3>1, <3>3
    <3>5. ASSUME NEW d \in Callers, k \in sends[p][d].keys
          PROVE  k \in pending \/ k \in sends'[p][d].keys
      BY <1>5, <3>4, <3>5
    <3> QED
      BY <2>6, <3>2, <3>5
  <2>15. PeerOK(p)'
    BY <2>12, <2>13, <2>14 DEF PeerOK
  <2> HIDE DEF b, e, w, o
  <2>16. Idle \in Calls /\ done' = done /\ conn' = conn
    BY <1>3, Constants
  <2> QED
    BY <1>0, <1>4, <1>6, <1>7, <2>2, <2>3, <2>4, <2>10, <2>15, <2>16, PeerStep
<1>9. CASE ~entries[p].present
  <2> DEFINE e == entries[p]
             w == waiting[p]
             o == owed[p]
  <2>1. UNCHANGED <<entries, waiting, owed>>
    BY <1>2, <1>9 DEF RunReturns
  <2>2. /\ entries' = [entries EXCEPT ![p] = e] /\ e \in Entries
        /\ waiting' = [waiting EXCEPT ![p] = w] /\ w \in Nat
        /\ owed' = [owed EXCEPT ![p] = o] /\ o \in SUBSET Keys
        /\ Cardinality(e.pending) <= MaxKeys
    BY <2>1, TypesOf
  <2>3. \A d \in Callers : CallOK(p, d)'
    BY <1>1, <1>3, <1>5, <2>1, Constants DEF CallOK
  <2>4. QueueOK(p)' /\ ~serving[p]
    BY <1>1, <1>3, <1>5, <1>9, <2>1, Constants DEF QueueOK, Callers, Runs
  <2>5. KeysOK(p)'
    BY <1>1, <2>1, <2>4 DEF KeysOK, QueueOK
  <2>6. PeerOK(p)'
    BY <2>3, <2>4, <2>5 DEF PeerOK
  <2> HIDE DEF b, e, w, o
  <2>7. Idle \in Calls /\ done' = done /\ conn' = conn
    BY <1>3, Constants
  <2> QED
    BY <1>0, <1>4, <1>6, <1>7, <2>2, <2>6, <2>7, PeerStep
<1> QED
  BY <1>8, <1>9

-----------------------------------------------------------------------------
(* The theorems. *)

LEMMA ContinuationInitInv ==
  ASSUME ContinuationInit
  PROVE  ContinuationInv
<1>1. ContinuationTypeOK
  <2>1. /\ sends \in [Peers -> [Callers -> Calls]] /\ entries \in [Peers -> Entries]
        /\ \A p \in Peers : Cardinality(entries[p].pending) <= MaxKeys
    BY Constants DEF ContinuationInit
  <2>2. /\ done \in BOOLEAN /\ conn \in [Peers -> {"up", "broken"}]
        /\ serving \in [Peers -> BOOLEAN] /\ waiting \in [Peers -> Nat]
        /\ slots \in 0..MaxOps /\ owed \in [Peers -> SUBSET Keys] /\ requests \in [Peers -> Nat]
    <3>1. slots \in 0..MaxOps
      BY ContinuationAssumption DEF ContinuationInit
    <3> QED
      BY <3>1 DEF ContinuationInit
  <2> QED
    BY <2>1, <2>2 DEF ContinuationTypeOK, Calls, Entries
<1>2. SlotsConserved
  <2>1. HoldingCalls = {}
    BY Constants DEF ContinuationInit, HoldingCalls
  <2>2. Cardinality(HoldingCalls) = 0
    BY <2>1, FS_EmptySet
  <2> QED
    BY <2>2, HoldingFinite, ContinuationAssumption DEF ContinuationInit
<1>3. ASSUME NEW p \in Peers
      PROVE  PeerOK(p)
  BY Constants DEF ContinuationInit, PeerOK, CallOK, QueueOK, KeysOK, Callers, Runs
<1> QED
  BY <1>1, <1>2, <1>3 DEF ContinuationInv

LEMMA ContinuationNextInv ==
  ASSUME ContinuationInv, [ContinuationNext]_cvars
  PROVE  ContinuationInv'
<1>1. CASE Shutdown
  BY <1>1, ShutdownInv
<1>2. ASSUME NEW p \in Peers, Break(p) \/ ReadLoopEnds(p) \/ Requested(p)
      PROVE  ContinuationInv'
  BY <1>2, BreakInv, ReadLoopEndsInv, RequestedInv
<1>3. ASSUME NEW p \in Peers, NEW c \in Callers, SendStep(p, c)
      PROVE  ContinuationInv'
  BY <1>3, SendStepInv
<1>4. ASSUME NEW p \in Peers, SchedulerStep(p)
      PROVE  ContinuationInv'
  BY <1>4, HandlerReturnsInv, ScheduleInv, WaitCanceledInv, RunBeginsInv, RunReturnsInv
     DEF SchedulerStep
<1>5. CASE UNCHANGED cvars
  <2>1. \A p \in Peers : PeerOK(p)'
    BY <1>5, PeerStays DEF cvars, history
  <2> QED
    BY <1>5, <2>1 DEF cvars, history, ContinuationInv, ContinuationTypeOK, SlotsConserved
<1> QED
  BY <1>1, <1>2, <1>3, <1>4, <1>5 DEF ContinuationNext

(* The inductive invariant. *)
THEOREM ContinuationInvariant == ContinuationSpec => []ContinuationInv
<1>1. ContinuationInit => ContinuationInv
  BY ContinuationInitInv
<1>2. ContinuationInv /\ [ContinuationNext]_cvars => ContinuationInv'
  BY ContinuationNextInv
<1> QED
  BY <1>1, <1>2, PTL DEF ContinuationSpec

(* However Schedule, Forget, a canceled wait and the end of a run          *)
(* interleave, a queue of repairContinuationScheduler has exactly one      *)
(* goroutine (main.go).                                                    *)
THEOREM OneGoroutinePerQueue == ContinuationSpec => []OneContinuation
<1>1. ContinuationInv => OneContinuation
  <2> SUFFICES ASSUME ContinuationInv, NEW p \in Peers
               PROVE  LET running == {c \in Runs : sends[p][c].pc # "idle"}
                      IN /\ waiting[p] + Cardinality(running) <= 1
                         /\ entries[p].present =>
                              /\ entries[p].scheduled <=> waiting[p] = 1
                              /\ entries[p].running <=> running # {}
                              /\ entries[p].scheduled \/ entries[p].running
    BY DEF OneContinuation
  <2> DEFINE running == {c \in Runs : sends[p][c].pc # "idle"}
  <2>1. QueueOK(p)
    BY DEF ContinuationInv, PeerOK
  <2>2. waiting[p] \in {0, 1} /\ (waiting[p] = 1 => sends[p]["run"].pc = "idle")
    BY <2>1 DEF QueueOK
  <2>3. running # {} <=> sends[p]["run"].pc # "idle"
    BY <2>1 DEF QueueOK, Runs
  <2>4. waiting[p] + Cardinality(running) <= 1
    <3>1. CASE sends[p]["run"].pc = "idle"
      <4>1. Cardinality(running) = 0
        BY <2>3, <3>1, FS_EmptySet
      <4> QED
        BY <2>2, <4>1
    <3>2. CASE sends[p]["run"].pc # "idle"
      <4>1. running = {"run"}
        BY <2>1, <3>2 DEF QueueOK, Runs
      <4>2. Cardinality(running) = 1
        BY <4>1, FS_Singleton
      <4> QED
        BY <2>2, <3>2, <4>2
    <3> QED
      BY <3>1, <3>2
  <2>5. entries[p].present =>
          /\ entries[p].scheduled <=> waiting[p] = 1
          /\ entries[p].running <=> running # {}
          /\ entries[p].scheduled \/ entries[p].running
    BY <2>1, <2>3, Zenon DEF QueueOK
  <2> QED
    BY <2>4, <2>5
<1> QED
  BY <1>1, ContinuationInvariant, PTL

(* repairIOLimiter: on every path through a call the slot that was         *)
(* acquired is released exactly once (main.go).                            *)
THEOREM LimiterConserved == ContinuationSpec => []SlotsConserved
<1>1. ContinuationInv => SlotsConserved
  BY DEF ContinuationInv
<1> QED
  BY <1>1, ContinuationInvariant, PTL

(* No interleaving of requests and runs loses a key that a peer asked for, *)
(* and none takes a queue past Limits.MaxKeys (main.go).                   *)
THEOREM NoKeyForgotten == ContinuationSpec => []KeysAccounted
<1>1. ContinuationInv => KeysAccounted
  BY DEF ContinuationInv, KeysAccounted, PeerOK, KeysOK
<1> QED
  BY <1>1, ContinuationInvariant, PTL
==============================================================================
