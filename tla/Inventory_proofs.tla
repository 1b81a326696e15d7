-------------------------- MODULE Inventory_proofs --------------------------
(***************************************************************************)
(* Proofs about Inventory for any set of keys, any length of their frames, *)
(* any budgets and any number of goroutines and triggers.                  *)
(***************************************************************************)
EXTENDS Inventory, FiniteSetTheorems, TLAPS

WorkerAts == {"none", "launched", "waiting", "listing", "sending"}

Worker ==
  [at : WorkerAts, cursor : Keys \cup {0}, last : Keys \cup {0}, page : SUBSET Keys,
   keys : Nat, bytes : Nat]

(* An entry that is not made is blank; one that is made has a goroutine.   *)
EntryKept ==
  /\ ~entry.made => entry = NoEntry
  /\ entry.made => \E w \in Workers : worker[w].at # "none"

Exchanging(w) == worker[w].at \in {"listing", "sending"}

Scheduled(w) == worker[w].at \in {"launched", "waiting"}

(* While the connection is up an entry has one goroutine, and no goroutine *)
(* is without an entry.                                                    *)
OneWorker ==
  conn = "up" =>
    /\ \A v, w \in Workers : worker[v].at # "none" /\ worker[w].at # "none" => v = w
    /\ entry.running <=> \E w \in Workers : Exchanging(w)
    /\ entry.scheduled <=> \E w \in Workers : Scheduled(w)
    /\ ~entry.made => \A w \in Workers : worker[w].at = "none"

(* Of the keys of B, everything up to a cursor is among the advertised. *)
Reached(B, advertised, c) == \A k \in B : k <= c => k \in advertised

(* Each is advertised, in the page to be sent, or behind the page. *)
PageCovers(B, advertised, page) ==
  \A k \in B : k \in advertised \/ k \in page \/ \A j \in page : j < k

CursorsCovered ==
  /\ base \subseteq store
  /\ conn = "up" =>
       /\ Reached(base, sent, entry.cursor)
       /\ \A w \in Workers :
            /\ worker[w].at = "listing" => Reached(base, sent, worker[w].cursor)
            /\ worker[w].at = "sending" =>
                 Reached(base, sent, worker[w].last) /\ PageCovers(base, sent, worker[w].page)

(* The budgets, with the page that is still to be sent. *)
Within(r) ==
  /\ MaxKeys > 0 => r.keys <= MaxKeys
  /\ MaxKeys > 0 /\ r.at = "sending" => r.keys + Cardinality(r.page) <= MaxKeys
  /\ MaxBytes > 0 => r.bytes <= MaxBytes \/ r.keys = 1

BudgetsKept == \A w \in Workers : Within(worker[w])

InventoryInv ==
  /\ InventoryTypeOK /\ EntryKept /\ OneWorker /\ CursorsCovered /\ CompleteCovers
  /\ BudgetsKept

-----------------------------------------------------------------------------
(* Finite sets of keys                                                     *)

LEMMA LeastNat ==
  ASSUME NEW T \in SUBSET Nat, T # {}
  PROVE  \E x \in T : \A y \in T : x <= y
<1>1. PICK x \in T : \A y \in T : ~(<<y, x>> \in OpToRel(<, Nat))
  BY WFMin, NatLessThanWellFounded
<1>2. \A y \in T : ~(y < x)
  BY <1>1 DEF OpToRel
<1> QED
  BY <1>2

LEMMA KeySets ==
  ASSUME NEW S \in SUBSET Keys
  PROVE  IsFiniteSet(S) /\ Cardinality(S) \in Nat /\ \A k \in S : k \in Nat
<1>1. IsFiniteSet(S)
  BY InventoryAssumption, FS_Subset
<1> QED
  BY <1>1, InventoryAssumption, FS_CardinalityType

LEMMA GreatestBelow ==
  ASSUME NEW T \in SUBSET Nat, NEW b \in Nat, T # {}, \A y \in T : y <= b
  PROVE  Max(T) \in T /\ \A y \in T : Max(T) >= y
<1> DEFINE U == {b - y : y \in T}
<1>1. U \in SUBSET Nat /\ U # {}
  <2>1. PICK t \in T : TRUE
    OBVIOUS
  <2>2. b - t \in U
    OBVIOUS
  <2> QED
    BY <2>2
<1> HIDE DEF U
<1>2. PICK u \in U : \A y \in U : u <= y
  BY <1>1, LeastNat
<1>4. PICK x \in T : u = b - x
  BY <1>2 DEF U
<1>5. \A y \in T : b - y \in U
  BY DEF U
<1>6. \A y \in T : x >= y
  BY <1>2, <1>4, <1>5
<1> QED
  BY <1>6 DEF Max

(* The last of a set of keys: the one with the most predecessors. *)
LEMMA GreatestKey ==
  ASSUME NEW S \in SUBSET Keys, S # {}
  PROVE  Max(S) \in S /\ \A y \in S : Max(S) >= y
<1> DEFINE Before(x) == {y \in S : y <= x}
           T == {Cardinality(Before(x)) : x \in S}
<1>1. IsFiniteSet(S) /\ Cardinality(S) \in Nat /\ \A k \in S : k \in Nat
  BY KeySets
<1>2. \A x \in S : /\ IsFiniteSet(Before(x)) /\ Cardinality(Before(x)) \in Nat
                   /\ Cardinality(Before(x)) <= Cardinality(S)
  <2> TAKE x \in S
  <2>1. Before(x) \in SUBSET S
    OBVIOUS
  <2> HIDE DEF Before
  <2> QED
    BY <1>1, <2>1, FS_Subset, FS_CardinalityType
<1>3. T \in SUBSET Nat /\ T # {} /\ \A n \in T : n <= Cardinality(S)
  <2> HIDE DEF Before
  <2> QED
    BY <1>2
<1>4. Max(T) \in T /\ \A n \in T : Max(T) >= n
  <2> HIDE DEF T
  <2> QED
    BY <1>1, <1>3, GreatestBelow
<1>5. PICK x \in S : \A y \in S : Cardinality(Before(x)) >= Cardinality(Before(y))
  <2> HIDE DEF Before
  <2> QED
    BY <1>4
<1>6. ASSUME NEW y \in S, ~(x >= y) PROVE FALSE
  <2>1. Before(x) \subseteq Before(y) /\ y \in Before(y) /\ y \notin Before(x)
    BY <1>1, <1>6
  <2> HIDE DEF Before
  <2>2. /\ Cardinality(Before(x)) <= Cardinality(Before(y))
        /\ Cardinality(Before(x)) = Cardinality(Before(y)) => Before(x) = Before(y)
    BY <1>2, <2>1, FS_Subset
  <2>3. Cardinality(Before(x)) = Cardinality(Before(y))
    BY <1>2, <1>5, <2>2
  <2> QED
    BY <2>1, <2>2, <2>3
<1> QED
  BY <1>6 DEF Max

-----------------------------------------------------------------------------
(* First: what ListKeyPage and a batch take of the keys                    *)

LEMMA FirstSubset == ASSUME NEW S, NEW n PROVE First(S, n) \subseteq S
BY DEF First

(* With a key it takes those before it. *)
LEMMA FirstClosed ==
  ASSUME NEW S \in SUBSET Keys, NEW n \in Nat, NEW j \in First(S, n), NEW k \in S, k <= j
  PROVE  k \in First(S, n)
<1> DEFINE A == {i \in S : i <= k}
           B == {i \in S : i <= j}
<1>1. (\A i \in S : i \in Nat) /\ j \in S /\ Cardinality(B) <= n
  BY KeySets DEF First
<1>2. A \subseteq B /\ A \in SUBSET Keys /\ B \in SUBSET Keys
  BY <1>1
<1> HIDE DEF A, B
<1>3. IsFiniteSet(B) /\ Cardinality(B) \in Nat /\ Cardinality(A) \in Nat
  BY <1>2, KeySets
<1>4. Cardinality(A) <= Cardinality(B)
  BY <1>2, <1>3, FS_Subset
<1>5. Cardinality(A) <= n
  BY <1>1, <1>3, <1>4
<1> QED
  BY <1>5 DEF First, A

LEMMA FirstBounded ==
  ASSUME NEW S \in SUBSET Keys, NEW n \in Nat
  PROVE  Cardinality(First(S, n)) <= n
<1> DEFINE F == First(S, n)
<1>1. F \in SUBSET Keys /\ F \subseteq S
  BY FirstSubset
<1>2. CASE F = {}
  BY <1>2, FS_EmptySet
<1>3. CASE F # {}
  <2>1. Max(F) \in F /\ \A y \in F : Max(F) >= y
    <3> HIDE DEF F
    <3> QED
      BY <1>1, <1>3, GreatestKey
  <2> DEFINE B == {i \in S : i <= Max(F)}
  <2>2. Cardinality(B) <= n
    BY <2>1 DEF First
  <2>3. F \subseteq B /\ B \in SUBSET Keys
    <3>1. \A i \in F : i \in Nat
      BY <1>1, KeySets
    <3> HIDE DEF F
    <3> QED
      BY <1>1, <2>1, <3>1
  <2> HIDE DEF F, B
  <2>4. IsFiniteSet(B) /\ Cardinality(B) \in Nat /\ Cardinality(F) \in Nat
    BY <1>1, <2>3, KeySets
  <2>5. Cardinality(F) <= Cardinality(B)
    BY <2>3, <2>4, FS_Subset
  <2>6. Cardinality(F) <= n
    BY <2>2, <2>4, <2>5
  <2> QED
    BY <2>6 DEF F
<1> QED
  BY <1>2, <1>3

LEMMA FirstAny ==
  ASSUME NEW S \in SUBSET Keys, S # {}, NEW n \in Nat, n >= 1
  PROVE  First(S, n) # {}
<1>1. \A i \in S : i \in Nat
  BY KeySets
<1>2. PICK x \in S : \A y \in S : x <= y
  <2>1. S \in SUBSET Nat
    BY <1>1
  <2> QED
    BY <2>1, LeastNat
<1>3. {i \in S : i <= x} = {x}
  BY <1>1, <1>2
<1>4. Cardinality({i \in S : i <= x}) = 1
  BY <1>3, FS_Singleton
<1>5. x \in First(S, n)
  BY <1>4 DEF First
<1> QED
  BY <1>5

-----------------------------------------------------------------------------
(* Pages, batches and frames                                               *)

LEMMA WorkerFacts ==
  ASSUME InventoryTypeOK, NEW w \in Workers
  PROVE  /\ worker \in [Workers -> Worker] /\ worker[w] \in Worker
         /\ worker[w].page \in SUBSET Keys /\ worker[w].keys \in Nat /\ worker[w].bytes \in Nat
         /\ worker[w].cursor \in Keys \cup {0} /\ worker[w].last \in Keys \cup {0}
<1>1. worker \in [Workers -> Worker]
  BY DEF InventoryTypeOK, Worker, WorkerAts
<1>2. worker[w] \in Worker
  BY <1>1
<1> QED
  BY <1>1, <1>2 DEF Worker

LEMMA PayloadNat ==
  ASSUME NEW S \in SUBSET Keys
  PROVE  Payload(S) \in Nat
<1>1. KeyBytes[S] \in Nat /\ Overhead \in Nat
  BY InventoryAssumption
<1> QED
  BY <1>1 DEF Payload

LEMMA LimitFacts ==
  ASSUME InventoryTypeOK, NEW w \in Workers
  PROVE  /\ PageLimit(w) \in Int
         /\ ~KeysSpent(w) => PageLimit(w) \in Nat /\ PageLimit(w) >= 1
         /\ ~KeysSpent(w) /\ MaxKeys > 0 => worker[w].keys + PageLimit(w) <= MaxKeys
<1>1. worker[w].keys \in Nat
  BY WorkerFacts
<1>2. MaxKeys \in Nat /\ BatchSize \in Nat /\ BatchSize >= 1
  BY InventoryAssumption
<1> QED
  BY <1>1, <1>2 DEF PageLimit, KeysSpent

(* A batch is a first part of the page, and fits or has one key. *)
LEMMA BatchFacts ==
  ASSUME InventoryTypeOK, NEW w \in Workers, worker[w].page # {}
  PROVE  /\ Batch(w) \in SUBSET worker[w].page /\ Batch(w) # {}
         /\ \A j \in Batch(w), k \in worker[w].page : k <= j => k \in Batch(w)
         /\ Fits(w, Batch(w)) \/ Cardinality(Batch(w)) = 1
<1> DEFINE page == worker[w].page
           two == {Cardinality(page), PageLimit(w)}
           most == Min(two)
           Half(n) == \E i \in 0 .. most : n = most \div 2^i
           sizes == {n \in 1 .. most : Half(n)}
           T == {1} \cup {n \in sizes : Fits(w, First(page, n))}
           m == Max(T)
<1>1. Batch(w) = First(page, m)
  BY DEF Batch
<1>2. page \in SUBSET Keys /\ page # {}
  BY WorkerFacts
<1>3. most \in Int
  <2>1. Cardinality(page) \in Int /\ PageLimit(w) \in Int
    BY <1>2, KeySets, LimitFacts
  <2>2. PICK x \in two : \A y \in two : x <= y
    BY <2>1
  <2>3. Min(two) \in two
    <3> HIDE DEF two
    <3> QED
      BY <2>2 DEF Min
  <2> QED
    BY <2>1, <2>3
<1> HIDE DEF most, Half
<1>4. \A n \in T : n = 1 \/ (n \in 1 .. most /\ Fits(w, First(page, n)))
  OBVIOUS
<1>5. 1 \in T
  OBVIOUS
<1> HIDE DEF T, page
<1>6. m \in T
  <2>1. CASE most \in Nat /\ most >= 1
    <3>1. T \in SUBSET Nat /\ \A y \in T : y <= most
      BY <1>4, <2>1
    <3> QED
      BY <1>5, <2>1, <3>1, GreatestBelow
  <2>2. CASE ~(most \in Nat /\ most >= 1)
    <3>1. T \in SUBSET Nat /\ \A y \in T : y <= 1
      BY <1>3, <1>4, <2>2
    <3> QED
      BY <1>5, <3>1, GreatestBelow
  <2> QED
    BY <2>1, <2>2
<1>7. m \in Nat /\ m >= 1 /\ (m = 1 \/ Fits(w, First(page, m)))
  BY <1>3, <1>4, <1>6
<1> HIDE DEF m
<1>8. First(page, m) \in SUBSET page /\ First(page, m) # {}
  BY <1>2, <1>7, FirstSubset, FirstAny
<1>9. \A j \in First(page, m), k \in page : k <= j => k \in First(page, m)
  BY <1>2, <1>7, FirstClosed
<1>10. m = 1 => Cardinality(First(page, m)) = 1
  <2> DEFINE F == First(page, m)
  <2>1. F \in SUBSET Keys /\ F # {}
    BY <1>2, <1>8
  <2>2. m = 1 => Cardinality(F) <= 1
    BY <1>2, <1>7, FirstBounded
  <2> HIDE DEF F
  <2>3. IsFiniteSet(F) /\ Cardinality(F) \in Nat
    BY <2>1, KeySets
  <2>4. Cardinality(F) # 0
    BY <2>1, <2>3, FS_EmptySet
  <2>5. m = 1 => Cardinality(F) = 1
    BY <2>2, <2>3, <2>4
  <2> QED
    BY <2>5 DEF F
<1> QED
  BY <1>1, <1>7, <1>8, <1>9, <1>10 DEF page

-----------------------------------------------------------------------------
(* What the steps have in common                                           *)

LEMMA IdleFacts ==
  /\ Idle \in Worker /\ Within(Idle) /\ Idle.at = "none"
  /\ NoEntry.made = FALSE /\ NoEntry.cursor = 0
  /\ NoEntry.running = FALSE /\ NoEntry.scheduled = FALSE
<1>1. Idle \in Worker
  BY DEF Idle, Worker, WorkerAts
<1>2. Idle.at = "none" /\ Idle.keys = 0 /\ Idle.bytes = 0
  BY DEF Idle
<1>3. Within(Idle)
  BY <1>2, InventoryAssumption DEF Within
<1> QED
  BY <1>1, <1>2, <1>3 DEF NoEntry

EntryRec == [made : BOOLEAN, cursor : Keys \cup {0}, running : BOOLEAN, scheduled : BOOLEAN]

LEMMA NoEntryTyped == NoEntry \in EntryRec
BY DEF NoEntry, EntryRec

LEMMA OneMoves ==
  ASSUME InventoryTypeOK, NEW w \in Workers, NEW r \in Worker,
         worker' = [worker EXCEPT ![w] = r]
  PROVE  /\ worker' \in [Workers -> Worker] /\ worker'[w] = r
         /\ \A v \in Workers : v # w => worker'[v] = worker[v]
<1>1. worker \in [Workers -> Worker]
  BY WorkerFacts
<1> QED
  BY <1>1

LEMMA TypesAre ==
  InventoryTypeOK <=>
    /\ store \subseteq Keys /\ base \subseteq Keys /\ sent \subseteq Keys
    /\ conn \in {"up", "closing", "down"}
    /\ entry \in EntryRec
    /\ worker \in [Workers -> Worker]
    /\ outcome \in {"none", "complete", "dropped"}
    /\ starts \in 0 .. MaxStarts
    /\ done \in BOOLEAN
BY DEF InventoryTypeOK, EntryRec, Worker, WorkerAts

(* The goroutine of w returns and the entry is removed. *)
LEMMA EndsInv ==
  ASSUME InventoryInv, NEW w \in Workers,
         worker[w].at # "none",
         worker' = [worker EXCEPT ![w] = Idle], entry' = NoEntry,
         conn' \in {conn, "closing"},
         outcome' \in {"complete", "dropped"},
         outcome' = "complete" /\ conn = "up" => base \subseteq sent,
         UNCHANGED <<store, base, sent, starts, done>>
  PROVE  InventoryInv'
<1>1. InventoryTypeOK /\ EntryKept /\ OneWorker /\ CursorsCovered /\ BudgetsKept
  BY DEF InventoryInv
<1>2. /\ worker' \in [Workers -> Worker] /\ worker'[w] = Idle
      /\ \A v \in Workers : v # w => worker'[v] = worker[v]
  BY <1>1, OneMoves, IdleFacts
<1>3. InventoryTypeOK'
  BY <1>1, <1>2, NoEntryTyped, TypesAre DEF InventoryTypeOK, EntryRec, Worker, WorkerAts
<1>4. EntryKept'
  BY IdleFacts DEF EntryKept
<1>5. ASSUME conn' = "up" PROVE conn = "up" /\ \A v \in Workers : worker'[v].at = "none"
  <2>1. conn = "up"
    BY <1>5
  <2>2. \A v \in Workers : v # w => worker[v].at = "none"
    BY <1>1, <2>1 DEF OneWorker
  <2> QED
    BY <1>2, <2>1, <2>2, IdleFacts
<1>6. OneWorker'
  BY <1>5, IdleFacts DEF OneWorker, Exchanging, Scheduled
<1>7. CursorsCovered'
  <2>1. base' \subseteq store'
    BY <1>1 DEF CursorsCovered
  <2>2. Reached(base, sent, 0)'
    BY <1>3, KeySets, InventoryAssumption DEF Reached, InventoryTypeOK
  <2> QED
    BY <1>5, <2>1, <2>2, IdleFacts DEF CursorsCovered
<1>8. CompleteCovers'
  BY <1>5 DEF CompleteCovers
<1>9. BudgetsKept'
  BY <1>1, <1>2, IdleFacts DEF BudgetsKept
<1> QED
  BY <1>3, <1>4, <1>6, <1>7, <1>8, <1>9 DEF InventoryInv

(* An exchange goes on. *)
LEMMA MovesInv ==
  ASSUME InventoryInv, NEW w \in Workers, NEW r \in Worker,
         Exchanging(w), r.at \in {"listing", "sending"}, Within(r),
         worker' = [worker EXCEPT ![w] = r],
         sent \subseteq sent', sent' \subseteq Keys,
         UNCHANGED <<store, conn, entry, base, outcome, starts, done>>,
         conn = "up" /\ r.at = "listing" => Reached(base, sent', r.cursor),
         conn = "up" /\ r.at = "sending" => Reached(base, sent', r.last) /\ PageCovers(base, sent', r.page)
  PROVE  InventoryInv'
<1>1. InventoryTypeOK /\ EntryKept /\ OneWorker /\ CursorsCovered /\ BudgetsKept /\ CompleteCovers
  BY DEF InventoryInv
<1>2. /\ worker' \in [Workers -> Worker] /\ worker'[w] = r
      /\ \A v \in Workers : v # w => worker'[v] = worker[v]
  BY <1>1, OneMoves
<1>3. InventoryTypeOK'
  BY <1>1, <1>2, TypesAre DEF InventoryTypeOK, EntryRec, Worker, WorkerAts
<1>4. EntryKept'
  BY <1>1, <1>2 DEF EntryKept
<1>5. \A v \in Workers :
        /\ worker'[v].at # "none" <=> worker[v].at # "none"
        /\ Exchanging(v)' <=> Exchanging(v)
        /\ Scheduled(v)' <=> Scheduled(v)
  BY <1>2 DEF Exchanging, Scheduled
<1>6. OneWorker'
  BY <1>1, <1>5 DEF OneWorker
<1>7. ASSUME conn' = "up", NEW v \in Workers, v # w PROVE worker'[v].at = "none"
  BY <1>1, <1>2, <1>7 DEF OneWorker, Exchanging
<1>8. CursorsCovered'
  <2>1. base' \subseteq store'
    BY <1>1 DEF CursorsCovered
  <2>2. ASSUME conn' = "up" PROVE Reached(base, sent, entry.cursor)'
    BY <1>1, <2>2 DEF CursorsCovered, Reached
  <2>3. ASSUME conn' = "up", NEW v \in Workers
        PROVE  /\ worker'[v].at = "listing" => Reached(base, sent, worker[v].cursor)'
               /\ worker'[v].at = "sending" => Reached(base, sent, worker[v].last)' /\ PageCovers(base, sent, worker[v].page)'
    <3>1. CASE v = w
      BY <1>2, <2>3, <3>1 DEF Reached, PageCovers
    <3>2. CASE v # w
      BY <1>7, <2>3, <3>2
    <3> QED
      BY <3>1, <3>2
  <2> QED
    BY <2>1, <2>2, <2>3 DEF CursorsCovered
<1>9. CompleteCovers'
  BY <1>1 DEF CompleteCovers
<1>10. BudgetsKept'
  BY <1>1, <1>2 DEF BudgetsKept
<1> QED
  BY <1>3, <1>4, <1>6, <1>8, <1>9, <1>10 DEF InventoryInv

(* The goroutine of w takes over an entry, or leaves it to the next one: w *)
(* and the entry's flags change together.                                  *)
LEMMA TurnsInv ==
  ASSUME InventoryInv, NEW w \in Workers, NEW r \in Worker, NEW e \in EntryRec,
         worker[w].at # "none", worker' = [worker EXCEPT ![w] = r], Within(r),
         entry' = e, entry.made, e.made,
         \/ r.at = "listing" /\ r.cursor = e.cursor /\ e.running /\ ~e.scheduled
         \/ r.at = "waiting" /\ ~e.running /\ e.scheduled,
         conn = "up" => Reached(base, sent, e.cursor),
         UNCHANGED <<store, conn, base, sent, outcome, starts, done>>
  PROVE  InventoryInv'
<1>1. InventoryTypeOK /\ EntryKept /\ OneWorker /\ CursorsCovered /\ BudgetsKept /\ CompleteCovers
  BY DEF InventoryInv
<1>2. /\ worker' \in [Workers -> Worker] /\ worker'[w] = r
      /\ \A v \in Workers : v # w => worker'[v] = worker[v]
  BY <1>1, OneMoves
<1>3. InventoryTypeOK'
  BY <1>1, <1>2, TypesAre DEF InventoryTypeOK, EntryRec, Worker, WorkerAts
<1>4. EntryKept'
  BY <1>2 DEF EntryKept
<1>5. ASSUME conn' = "up", NEW v \in Workers, v # w PROVE worker'[v].at = "none"
  BY <1>1, <1>2, <1>5 DEF OneWorker
<1>6. OneWorker'
  BY <1>2, <1>5 DEF OneWorker, Exchanging, Scheduled
<1>7. CursorsCovered'
  <2>1. base' \subseteq store'
    BY <1>1 DEF CursorsCovered
  <2>2. ASSUME conn' = "up" PROVE Reached(base, sent, entry.cursor)'
    BY <2>2 DEF Reached
  <2>3. ASSUME conn' = "up", NEW v \in Workers
        PROVE  /\ worker'[v].at = "listing" => Reached(base, sent, worker[v].cursor)'
               /\ worker'[v].at # "sending"
    <3>1. CASE v = w
      BY <1>2, <2>2, <2>3, <3>1 DEF Reached
    <3>2. CASE v # w
      BY <1>5, <2>3, <3>2
    <3> QED
      BY <3>1, <3>2
  <2> QED
    BY <2>1, <2>2, <2>3 DEF CursorsCovered
<1>8. CompleteCovers'
  BY <1>1 DEF CompleteCovers
<1>9. BudgetsKept'
  BY <1>1, <1>2 DEF BudgetsKept
<1> QED
  BY <1>3, <1>4, <1>6, <1>7, <1>8, <1>9 DEF InventoryInv

(* The goroutine of w finds no entry and returns: the connection is gone. *)
LEMMA StrayInv ==
  ASSUME InventoryInv, NEW w \in Workers, worker[w].at # "none", ~entry.made,
         worker' = [worker EXCEPT ![w] = Idle],
         UNCHANGED <<store, conn, entry, base, sent, outcome, starts, done>>
  PROVE  InventoryInv'
<1>1. InventoryTypeOK /\ EntryKept /\ OneWorker /\ CursorsCovered /\ BudgetsKept
  BY DEF InventoryInv
<1>2. /\ worker' \in [Workers -> Worker] /\ worker'[w] = Idle
      /\ \A v \in Workers : v # w => worker'[v] = worker[v]
  BY <1>1, OneMoves, IdleFacts
<1>3. InventoryTypeOK'
  BY <1>1, <1>2, TypesAre DEF InventoryTypeOK, EntryRec, Worker, WorkerAts
<1>4. EntryKept'
  BY <1>1 DEF EntryKept
<1>5. conn' # "up"
  BY <1>1 DEF OneWorker
<1>6. OneWorker' /\ CursorsCovered' /\ CompleteCovers'
  BY <1>1, <1>5 DEF OneWorker, CursorsCovered, CompleteCovers
<1>7. BudgetsKept'
  BY <1>1, <1>2, IdleFacts DEF BudgetsKept
<1> QED
  BY <1>3, <1>4, <1>6, <1>7 DEF InventoryInv

LEMMA LimitedInv ==
  ASSUME InventoryInv, NEW w \in Workers, Exchanging(w), NEW c \in Keys \cup {0},
         Limited(w, c), conn = "up" => Reached(base, sent, c), UNCHANGED <<store, sent, starts, done>>
  PROVE  InventoryInv'
<1>1. InventoryTypeOK
  BY DEF InventoryInv
<1>2. worker[w].at # "none" /\ UNCHANGED <<store, conn, base, sent, outcome, starts, done>>
  BY DEF Exchanging, Limited, history
<1>3. CASE entry.made
  <2> DEFINE r == [Idle EXCEPT !.at = "waiting"]
             e == [entry EXCEPT !.running = FALSE, !.scheduled = TRUE, !.cursor = c]
  <2>1. worker' = [worker EXCEPT ![w] = r] /\ entry' = e
    BY <1>3 DEF Limited
  <2>2. r \in Worker /\ r.at = "waiting" /\ r.keys = 0 /\ r.bytes = 0
    BY DEF Idle, Worker, WorkerAts
  <2>3. entry \in EntryRec
    BY <1>1, TypesAre
  <2>4. e \in EntryRec
    BY <2>3 DEF EntryRec
  <2>5. e.made = entry.made /\ e.cursor = c
    BY <2>3 DEF EntryRec
  <2>6. ~e.running /\ e.scheduled
    BY <2>3 DEF EntryRec
  <2> HIDE DEF r, e
  <2>7. Within(r)
    BY <2>2, InventoryAssumption DEF Within
  <2> QED
    BY <1>2, <1>3, <2>1, <2>2, <2>4, <2>5, <2>6, <2>7, TurnsInv
<1>4. CASE ~entry.made
  <2>1. worker' = [worker EXCEPT ![w] = Idle] /\ entry' = entry
    BY <1>4 DEF Limited
  <2> QED
    BY <1>2, <1>4, <2>1, StrayInv
<1> QED
  BY <1>3, <1>4

LEMMA RunInv ==
  ASSUME InventoryInv, NEW w \in Workers, Run(w)
  PROVE  InventoryInv'
<1>1. InventoryTypeOK /\ CursorsCovered
  BY DEF InventoryInv
<1>2. worker[w].at # "none" /\ UNCHANGED <<store, conn, base, sent, outcome, starts, done>>
  BY DEF Run, history
<1>3. CASE entry.made
  <2> DEFINE r == [Idle EXCEPT !.at = "listing", !.cursor = entry.cursor]
             e == [entry EXCEPT !.scheduled = FALSE, !.running = TRUE]
  <2>1. worker' = [worker EXCEPT ![w] = r] /\ entry' = e
    BY <1>3 DEF Run
  <2>2. entry \in EntryRec
    BY <1>1, TypesAre
  <2>3. entry.cursor \in Keys \cup {0}
    BY <2>2 DEF EntryRec
  <2>4. r \in Worker /\ r.at = "listing" /\ r.keys = 0 /\ r.bytes = 0 /\ r.cursor = entry.cursor
    BY <2>3 DEF Idle, Worker, WorkerAts
  <2>5. e \in EntryRec
    BY <2>2 DEF EntryRec
  <2>6. e.made = entry.made /\ e.cursor = entry.cursor
    BY <2>2 DEF EntryRec
  <2>7. e.running /\ ~e.scheduled
    BY <2>2 DEF EntryRec
  <2> HIDE DEF r, e
  <2>8. Within(r)
    BY <2>4, InventoryAssumption DEF Within
  <2>9. conn = "up" => Reached(base, sent, e.cursor)
    BY <1>1, <2>6 DEF CursorsCovered
  <2> QED
    BY <1>2, <1>3, <2>1, <2>4, <2>5, <2>6, <2>7, <2>8, <2>9, TurnsInv
<1>4. CASE ~entry.made
  <2>1. worker' = [worker EXCEPT ![w] = Idle] /\ entry' = entry
    BY <1>4 DEF Run
  <2> QED
    BY <1>2, <1>4, <2>1, StrayInv
<1> QED
  BY <1>3, <1>4

-----------------------------------------------------------------------------
(* The steps of an exchange                                                *)

LEMMA ListPageInv ==
  ASSUME InventoryInv, NEW w \in Workers, ListPage(w)
  PROVE  InventoryInv'
<1> DEFINE cursor == worker[w].cursor
           S == {k \in store : k > cursor}
           page == First(S, PageLimit(w))
<1>1. InventoryTypeOK /\ CursorsCovered /\ BudgetsKept
  BY DEF InventoryInv
<1>2. worker[w].at = "listing" /\ Exchanging(w) /\ UNCHANGED <<store, sent, starts, done>>
  BY DEF ListPage, Exchanging
<1>3. /\ worker[w] \in Worker /\ cursor \in Keys \cup {0}
      /\ worker[w].keys \in Nat /\ worker[w].bytes \in Nat
  BY <1>1, WorkerFacts
<1>4. conn = "up" => Reached(base, sent, cursor)
  BY <1>1, <1>2 DEF CursorsCovered
<1>5. S \in SUBSET Keys /\ base \subseteq store /\ store \subseteq Keys
  BY <1>1 DEF InventoryTypeOK, CursorsCovered
<1>6. cursor \in Nat /\ \A k \in store : k \in Nat
  <2>1. \A k \in Keys \cup {0} : k \in Nat
    BY InventoryAssumption
  <2> QED
    BY <1>3, <1>5, <2>1
<1>7. CASE KeysSpent(w) /\ Limited(w, cursor)
  BY <1>2, <1>3, <1>4, <1>7, LimitedInv
<1>8. CASE ~KeysSpent(w) /\ page = {} /\ Completed(w)
  <2>1. PageLimit(w) \in Nat /\ PageLimit(w) >= 1
    BY <1>1, <1>8, LimitFacts
  <2>2. S = {}
    <3> HIDE DEF S
    <3> QED
      BY <1>5, <1>8, <2>1, FirstAny
  <2>3. conn = "up" => base \subseteq sent
    <3> SUFFICES ASSUME conn = "up", NEW k \in base PROVE k \in sent
      OBVIOUS
    <3>1. k \in store /\ ~(k > cursor)
      BY <1>5, <2>2
    <3>2. k <= cursor
      BY <1>6, <3>1
    <3> QED
      BY <1>4, <3>2 DEF Reached
  <2>4. /\ worker' = [worker EXCEPT ![w] = Idle] /\ entry' = NoEntry /\ conn' = conn
        /\ outcome' = "complete" /\ base' = base
    BY <1>8 DEF Completed
  <2> QED
    BY <1>2, <2>3, <2>4, EndsInv
<1>9. CASE /\ ~KeysSpent(w) /\ page # {}
           /\ worker' = [worker EXCEPT ![w].at = "sending", ![w].page = page, ![w].last = 0]
           /\ UNCHANGED <<entry, conn, history>>
  <2> DEFINE r == [worker[w] EXCEPT !.at = "sending", !.page = page, !.last = 0]
  <2>1. PageLimit(w) \in Nat /\ (MaxKeys > 0 => worker[w].keys + PageLimit(w) <= MaxKeys)
    BY <1>1, <1>9, LimitFacts
  <2>2. page \in SUBSET S /\ page \in SUBSET Keys /\ Cardinality(page) <= PageLimit(w)
    <3> HIDE DEF S
    <3> QED
      BY <1>5, <2>1, FirstSubset, FirstBounded
  <2>3. Cardinality(page) \in Nat
    <3> HIDE DEF page
    <3> QED
      BY <2>2, KeySets
  <2>4. \A j \in page, k \in S : k <= j => k \in page
    <3> HIDE DEF S
    <3> QED
      BY <1>5, <2>1, FirstClosed
  <2> HIDE DEF page
  <2>5. worker' = [worker EXCEPT ![w] = r]
    <3>1. worker \in [Workers -> Worker]
      BY <1>1, WorkerFacts
    <3> QED
      BY <1>3, <1>9, <3>1 DEF Worker
  <2>6. /\ r \in Worker /\ r.at = "sending" /\ r.page = page /\ r.last = 0
        /\ r.keys = worker[w].keys /\ r.bytes = worker[w].bytes
    BY <1>3, <2>2 DEF Worker, WorkerAts
  <2> HIDE DEF r
  <2>7. Within(r)
    <3>1. Within(worker[w])
      BY <1>1 DEF BudgetsKept
    <3>2. MaxKeys > 0 => worker[w].keys + Cardinality(page) <= MaxKeys
      BY <1>3, <2>1, <2>2, <2>3, InventoryAssumption
    <3> QED
      BY <2>6, <3>1, <3>2 DEF Within
  <2>8. base' = base /\ outcome' = outcome /\ conn' = conn /\ entry' = entry
    BY <1>9 DEF history
  <2>9. Reached(base, sent', r.last)
    <3>1. \A k \in base : ~(k <= 0)
      BY <1>5, InventoryAssumption
    <3> QED
      BY <2>6, <2>8, <3>1 DEF Reached
  <2>10. conn = "up" => PageCovers(base, sent', r.page)
    <3> SUFFICES ASSUME conn = "up", NEW k \in base, k \notin sent, k \notin page
                 PROVE  \A j \in page : j < k
      BY <1>2, <2>6, <2>8 DEF PageCovers
    <3>1. k \in store /\ k \in Nat
      BY <1>5, <1>6
    <3>2. ~(k <= cursor)
      BY <1>4 DEF Reached
    <3>3. k \in S
      BY <1>6, <3>1, <3>2
    <3>4. \A j \in page : j \in Nat /\ ~(k <= j)
      BY <1>6, <2>2, <2>4, <3>3
    <3> QED
      BY <3>1, <3>4
  <2> QED
    BY <1>1, <1>2, <2>5, <2>6, <2>7, <2>8, <2>9, <2>10, MovesInv DEF InventoryTypeOK
<1> QED
  BY <1>7, <1>8, <1>9 DEF ListPage, Page

LEMMA PageSentInv ==
  ASSUME InventoryInv, NEW w \in Workers, PageSent(w)
  PROVE  InventoryInv'
<1> DEFINE r == [worker[w] EXCEPT !.at = "listing", !.cursor = worker[w].last]
<1>1. InventoryTypeOK /\ CursorsCovered /\ BudgetsKept
  BY DEF InventoryInv
<1>2. /\ worker[w].at = "sending" /\ Exchanging(w)
      /\ UNCHANGED <<store, conn, entry, base, outcome, sent, starts, done>>
  BY DEF PageSent, Exchanging, history
<1>3. /\ worker \in [Workers -> Worker] /\ worker[w] \in Worker
      /\ worker[w].last \in Keys \cup {0}
  BY <1>1, WorkerFacts
<1>4. worker' = [worker EXCEPT ![w] = r]
  BY <1>3 DEF PageSent, Worker
<1>5. /\ r \in Worker /\ r.at = "listing" /\ r.cursor = worker[w].last
      /\ r.keys = worker[w].keys /\ r.bytes = worker[w].bytes
  BY <1>3 DEF Worker, WorkerAts
<1> HIDE DEF r
<1>6. Within(r)
  BY <1>1, <1>5 DEF BudgetsKept, Within
<1>7. conn = "up" => Reached(base, sent', r.cursor)
  BY <1>1, <1>2, <1>5 DEF CursorsCovered, Reached
<1> QED
  BY <1>1, <1>2, <1>4, <1>5, <1>6, <1>7, MovesInv DEF InventoryTypeOK

LEMMA BudgetHitInv ==
  ASSUME InventoryInv, NEW w \in Workers, BudgetHit(w)
  PROVE  InventoryInv'
<1>1. InventoryTypeOK /\ CursorsCovered
  BY DEF InventoryInv
<1>2. /\ worker[w].at = "sending" /\ Exchanging(w) /\ UNCHANGED <<store, sent, starts, done>>
      /\ Limited(w, worker[w].last)
  BY DEF BudgetHit, Sending, Exchanging
<1>3. worker[w].last \in Keys \cup {0}
  BY <1>1, WorkerFacts
<1>4. conn = "up" => Reached(base, sent, worker[w].last)
  BY <1>1, <1>2 DEF CursorsCovered
<1> QED
  BY <1>2, <1>3, <1>4, LimitedInv

(* A frame: what is advertised is the page up to the new cursor, and only  *)
(* the first key of a run may exceed the byte budget.                      *)
LEMMA SendFrameInv ==
  ASSUME InventoryInv, NEW w \in Workers, SendFrame(w)
  PROVE  InventoryInv'
<1> DEFINE b == Batch(w)
           page == worker[w].page
           r == [worker[w] EXCEPT !.page = @ \ b, !.last = Max(b),
                                  !.keys = @ + Cardinality(b), !.bytes = @ + Payload(b)]
<1>1. InventoryTypeOK /\ CursorsCovered /\ BudgetsKept
  BY DEF InventoryInv
<1>2. /\ worker[w].at = "sending" /\ Exchanging(w) /\ page # {} /\ ~Exhausted(w)
      /\ UNCHANGED <<store, conn, entry, base, outcome, starts, done>>
      /\ sent' = sent \cup b
  BY DEF SendFrame, Sending, Exchanging, history
<1>3. /\ worker[w] \in Worker /\ page \in SUBSET Keys
      /\ worker[w].keys \in Nat /\ worker[w].bytes \in Nat
  BY <1>1, WorkerFacts
<1>4. /\ b \in SUBSET page /\ b # {}
      /\ \A j \in b, k \in page : k <= j => k \in b
      /\ Fits(w, b) \/ Cardinality(b) = 1
  BY <1>1, <1>2, BatchFacts
<1>5. worker' = [worker EXCEPT ![w] = r]
  BY DEF SendFrame
<1>6. ~(OverBudget(w, b) /\ worker[w].keys > 0)
  BY <1>2 DEF Exhausted
<1> HIDE DEF b
<1>7. b \in SUBSET Keys /\ Payload(b) \in Nat /\ Cardinality(b) \in Nat /\ IsFiniteSet(b)
  BY <1>3, <1>4, PayloadNat, KeySets
<1>8. Max(b) \in b /\ \A y \in b : Max(b) >= y
  BY <1>4, <1>7, GreatestKey
<1>9. r \in Worker /\ r.at = "sending"
  <2>1. Max(b) \in Keys \cup {0}
    BY <1>7, <1>8
  <2>2. page \ b \in SUBSET Keys
    BY <1>3
  <2>3. worker[w].keys + Cardinality(b) \in Nat /\ worker[w].bytes + Payload(b) \in Nat
    BY <1>3, <1>7
  <2> QED
    BY <1>2, <1>3, <2>1, <2>2, <2>3 DEF Worker
<1>10. /\ r.page = page \ b /\ r.last = Max(b)
       /\ r.keys = worker[w].keys + Cardinality(b) /\ r.bytes = worker[w].bytes + Payload(b)
  BY <1>3 DEF Worker
<1> HIDE DEF r
<1>11. Within(r)
  <2>1. Within(worker[w])
    BY <1>1 DEF BudgetsKept
  <2>2. /\ IsFiniteSet(page) /\ Cardinality(page) \in Nat
        /\ Cardinality(page \ b) \in Nat
    BY <1>3, KeySets
  <2>3. Cardinality(page \ b) = Cardinality(page) - Cardinality(b)
    <3>1. page \cap b = b
      BY <1>4
    <3>2. Cardinality(page \ b) = Cardinality(page) - Cardinality(page \cap b)
      BY <2>2, FS_Difference
    <3> QED
      BY <3>1, <3>2
  <2>4. MaxKeys > 0 => worker[w].keys + Cardinality(page) <= MaxKeys
    BY <1>2, <2>1 DEF Within
  <2>5. MaxKeys > 0 => r.keys <= MaxKeys /\ r.keys + Cardinality(r.page) <= MaxKeys
    BY <1>3, <1>7, <1>10, <2>2, <2>3, <2>4, InventoryAssumption
  <2>6. MaxBytes > 0 => r.bytes <= MaxBytes \/ r.keys = 1
    <3>1. CASE MaxBytes > 0 /\ OverBudget(w, b)
      <4>1. worker[w].keys = 0
        BY <1>3, <1>6, <3>1
      <4>2. Cardinality(b) = 1
        BY <1>4, <3>1 DEF Fits
      <4> QED
        BY <1>10, <4>1, <4>2
    <3>2. CASE MaxBytes > 0 /\ ~OverBudget(w, b)
      BY <1>3, <1>7, <1>10, <3>2, InventoryAssumption DEF OverBudget
    <3> QED
      BY <3>1, <3>2
  <2> QED
    BY <2>5, <2>6 DEF Within
<1>12. base \subseteq Keys /\ sent' \subseteq Keys /\ sent \subseteq sent'
  BY <1>1, <1>2, <1>7 DEF InventoryTypeOK
<1>13. \A k \in Keys : k \in Nat
  BY InventoryAssumption
<1>14. conn = "up" => PageCovers(base, sent, page)
  BY <1>1, <1>2 DEF CursorsCovered
<1>15. conn = "up" => Reached(base, sent', r.last)
  <2> SUFFICES ASSUME conn = "up", NEW k \in base, k <= Max(b) PROVE k \in sent'
    BY <1>2, <1>10 DEF Reached
  <2>1. k \in sent \/ k \in page \/ \A j \in page : j < k
    BY <1>14 DEF PageCovers
  <2>2. k \in Nat /\ Max(b) \in Nat /\ Max(b) \in page
    BY <1>4, <1>7, <1>8, <1>12, <1>13
  <2>3. k \in sent \/ k \in page
    BY <2>1, <2>2
  <2>4. k \in page => k \in b
    BY <1>4, <1>8
  <2> QED
    BY <1>2, <2>3, <2>4
<1>16. conn = "up" => PageCovers(base, sent', r.page)
  BY <1>2, <1>10, <1>14 DEF PageCovers
<1> QED
  BY <1>2, <1>5, <1>9, <1>11, <1>12, <1>15, <1>16, MovesInv

LEMMA StopsInv ==
  ASSUME InventoryInv, NEW w \in Workers,
         WaitCancelled(w) \/ SendFails(w) \/ ExchangeCancelled(w)
  PROVE  InventoryInv'
<1>1. worker[w].at # "none"
  BY DEF WaitCancelled, SendFails, Sending, ExchangeCancelled
<1>2. /\ worker' = [worker EXCEPT ![w] = Idle] /\ entry' = NoEntry
      /\ outcome' = "dropped" /\ UNCHANGED <<store, base, sent, starts, done>>
  BY DEF WaitCancelled, SendFails, ExchangeCancelled, Dropped
<1>3. conn' \in {conn, "closing"}
  BY DEF WaitCancelled, SendFails, ExchangeCancelled, Dropped
<1> QED
  BY <1>1, <1>2, <1>3, EndsInv

LEMMA StartInv ==
  ASSUME InventoryInv, NEW w \in Workers, Start(w)
  PROVE  InventoryInv'
<1> DEFINE launch == ~entry.running /\ ~entry.scheduled
           r == [worker[w] EXCEPT !.at = "launched"]
<1>1. InventoryTypeOK /\ EntryKept /\ OneWorker /\ CursorsCovered /\ BudgetsKept /\ CompleteCovers
  BY DEF InventoryInv
<1>2. /\ worker[w].at = "none" /\ starts < MaxStarts /\ starts' = starts + 1
      /\ UNCHANGED <<store, conn, done>>
  BY DEF Start
<1>3. entry \in EntryRec /\ entry.cursor \in Keys \cup {0}
  <2>1. entry \in EntryRec
    BY <1>1, TypesAre
  <2> QED
    BY <2>1 DEF EntryRec
<1>4. /\ entry' \in EntryRec /\ entry'.cursor = entry.cursor /\ entry'.made
      /\ entry'.running = entry.running /\ entry'.scheduled = (entry.scheduled \/ launch)
  <2>1. entry' = [entry EXCEPT !.made = TRUE, !.scheduled = entry.scheduled \/ launch]
    BY <1>3 DEF Start, EntryRec
  <2> HIDE DEF launch
  <2>2. (entry.scheduled \/ launch) \in BOOLEAN
    OBVIOUS
  <2>3. entry' \in EntryRec
    BY <1>3, <2>1, <2>2, Zenon DEF EntryRec
  <2>4. entry'.cursor = entry.cursor
    BY <1>3, <2>1 DEF EntryRec
  <2>5. entry'.made /\ entry'.running = entry.running
    BY <1>3, <2>1, Zenon DEF EntryRec
  <2>6. entry'.scheduled = (entry.scheduled \/ launch)
    BY <1>3, <2>1, Zenon DEF EntryRec
  <2> QED
    BY <2>3, <2>4, <2>5, <2>6
<1>5. /\ entry.made => base' = base /\ sent' = sent /\ outcome' = outcome
      /\ ~entry.made => base' = store /\ sent' = {} /\ outcome' = "none"
  BY DEF Start
<1>6. starts' \in 0 .. MaxStarts
  BY <1>1, <1>2, InventoryAssumption DEF InventoryTypeOK
<1>7. /\ worker[w] \in Worker /\ worker \in [Workers -> Worker]
      /\ r \in Worker /\ r.at = "launched" /\ r.page = worker[w].page
      /\ r.keys = worker[w].keys /\ r.bytes = worker[w].bytes
  <2>1. worker[w] \in Worker /\ worker \in [Workers -> Worker]
    BY <1>1, WorkerFacts
  <2> QED
    BY <2>1 DEF Worker, WorkerAts
<1>8. \/ launch /\ worker' = [worker EXCEPT ![w] = r]
      \/ ~launch /\ worker' = worker
  BY <1>7 DEF Start, Worker
<1>9. launch => /\ worker' \in [Workers -> Worker] /\ worker'[w] = r
                /\ \A v \in Workers : v # w => worker'[v] = worker[v]
  <2> HIDE DEF r
  <2> QED
    BY <1>1, <1>7, <1>8, OneMoves
<1> HIDE DEF r
<1>10. InventoryTypeOK'
  <2>1. worker' \in [Workers -> Worker]
    BY <1>7, <1>8, <1>9
  <2>2. /\ store' \subseteq Keys /\ base' \subseteq Keys /\ sent' \subseteq Keys
        /\ conn' \in {"up", "closing", "down"} /\ done' \in BOOLEAN
        /\ outcome' \in {"none", "complete", "dropped"}
    BY <1>1, <1>2, <1>5 DEF InventoryTypeOK
  <2> QED
    BY <1>4, <1>6, <2>1, <2>2 DEF InventoryTypeOK, EntryRec, Worker, WorkerAts
<1>11. ~launch => entry.made
  BY <1>1, IdleFacts DEF EntryKept
<1>12. EntryKept'
  <2>1. CASE launch
    BY <1>4, <1>7, <1>9, <2>1 DEF EntryKept
  <2>2. CASE ~launch
    BY <1>1, <1>4, <1>8, <1>11, <2>2 DEF EntryKept
  <2> QED
    BY <2>1, <2>2
<1>13. conn = "up" /\ launch => ~entry.made /\ \A v \in Workers : worker[v].at = "none"
  <2> SUFFICES ASSUME conn = "up", launch PROVE ~entry.made
    BY <1>1 DEF OneWorker
  <2>1. \A v \in Workers : worker[v].at \in WorkerAts
    BY <1>7 DEF Worker
  <2>2. \A v \in Workers : worker[v].at = "none"
    BY <1>1, <2>1 DEF OneWorker, Exchanging, Scheduled, WorkerAts
  <2> QED
    BY <1>1, <2>2 DEF EntryKept
<1>14. OneWorker'
  <2> SUFFICES ASSUME conn' = "up" PROVE
        /\ \A u, v \in Workers : worker'[u].at # "none" /\ worker'[v].at # "none" => u = v
        /\ entry'.running <=> \E v \in Workers : Exchanging(v)'
        /\ entry'.scheduled <=> \E v \in Workers : Scheduled(v)'
    BY <1>4 DEF OneWorker
  <2>1. CASE launch
    <3>1. \A v \in Workers : v # w => worker'[v].at = "none"
      BY <1>2, <1>9, <1>13, <2>1
    <3>2. worker'[w].at = "launched" /\ ~entry'.running /\ entry'.scheduled
      BY <1>4, <1>7, <1>9, <2>1
    <3> QED
      BY <3>1, <3>2 DEF Exchanging, Scheduled
  <2>2. CASE ~launch
    <3>1. worker' = worker /\ entry'.running = entry.running /\ entry'.scheduled = entry.scheduled
      BY <1>3, <1>4, <1>8, <2>2 DEF EntryRec
    <3> QED
      BY <1>1, <1>2, <3>1 DEF OneWorker, Exchanging, Scheduled
  <2> QED
    BY <2>1, <2>2
<1>15. CursorsCovered'
  <2>1. base' \subseteq store'
    BY <1>1, <1>2, <1>5 DEF CursorsCovered
  <2>2. CASE conn' # "up"
    BY <2>1, <2>2 DEF CursorsCovered
  <2>3. CASE conn' = "up" /\ launch
    <3>1. entry.cursor = 0
      BY <1>1, <1>2, <1>13, <2>3, IdleFacts DEF EntryKept
    <3>2. \A k \in Keys : ~(k <= 0)
      BY InventoryAssumption
    <3>3. Reached(base, sent, entry.cursor)'
      BY <1>4, <1>10, <3>1, <3>2 DEF Reached, InventoryTypeOK
    <3>4. \A v \in Workers : worker'[v].at \in {"none", "launched"}
      BY <1>2, <1>7, <1>9, <1>13, <2>3
    <3> QED
      BY <2>1, <3>3, <3>4 DEF CursorsCovered
  <2>4. CASE conn' = "up" /\ ~launch
    <3>1. worker' = worker /\ base' = base /\ sent' = sent
      BY <1>5, <1>8, <1>11, <2>4
    <3> QED
      BY <1>1, <1>2, <1>4, <2>1, <3>1 DEF CursorsCovered
  <2> QED
    BY <2>2, <2>3, <2>4
<1>16. CompleteCovers'
  BY <1>1, <1>2, <1>5 DEF CompleteCovers
<1>17. BudgetsKept'
  <2>1. Within(worker[w])
    BY <1>1 DEF BudgetsKept
  <2>2. Within(r)
    BY <1>7, <2>1 DEF Within
  <2> QED
    BY <1>1, <1>8, <1>9, <2>2 DEF BudgetsKept
<1> QED
  BY <1>10, <1>12, <1>14, <1>15, <1>16, <1>17 DEF InventoryInv

-----------------------------------------------------------------------------
(* The store, the connection and the context                               *)

LEMMA OutsideInv ==
  ASSUME InventoryInv, Disconnect \/ ContextDone \/ \E k \in Keys : StorePut(k)
  PROVE  InventoryInv'
<1>1. InventoryTypeOK /\ EntryKept /\ OneWorker /\ CursorsCovered /\ BudgetsKept /\ CompleteCovers
  BY DEF InventoryInv
<1>2. worker' = worker /\ base' = base /\ sent' = sent /\ starts' = starts
  BY DEF Disconnect, ContextDone, StorePut, history
<1>3. BudgetsKept'
  BY <1>1, <1>2 DEF BudgetsKept
<1>4. CASE Disconnect
  <2>1. /\ conn' = "down" /\ entry' = NoEntry /\ store' = store /\ done' = done
        /\ outcome' \in {outcome, "dropped"}
    BY <1>4 DEF Disconnect
  <2>2. InventoryTypeOK'
    BY <1>1, <1>2, <2>1, NoEntryTyped DEF InventoryTypeOK, EntryRec
  <2>3. EntryKept' /\ OneWorker' /\ CursorsCovered' /\ CompleteCovers'
    BY <1>1, <1>2, <2>1, IdleFacts DEF EntryKept, OneWorker, CursorsCovered, CompleteCovers
  <2> QED
    BY <1>3, <2>2, <2>3 DEF InventoryInv
<1>5. CASE ContextDone \/ \E k \in Keys : StorePut(k)
  <2>1. /\ conn' = conn /\ entry' = entry /\ outcome' = outcome /\ done' \in BOOLEAN
        /\ store \subseteq store' /\ store' \subseteq Keys
    BY <1>1, <1>5 DEF ContextDone, StorePut, history, InventoryTypeOK
  <2>2. InventoryTypeOK'
    BY <1>1, <1>2, <2>1 DEF InventoryTypeOK
  <2>3. EntryKept' /\ CompleteCovers'
    BY <1>1, <1>2, <2>1 DEF EntryKept, CompleteCovers
  <2>4. OneWorker'
    BY <1>1, <1>2, <2>1 DEF OneWorker, Exchanging, Scheduled
  <2>5. CursorsCovered'
    BY <1>1, <1>2, <2>1 DEF CursorsCovered
  <2> QED
    BY <1>3, <2>2, <2>3, <2>4, <2>5 DEF InventoryInv
<1> QED
  BY <1>4, <1>5

-----------------------------------------------------------------------------
(* The invariant                                                           *)

LEMMA InventoryStep == InventoryInv /\ [InventoryNext]_vars => InventoryInv'
<1> SUFFICES ASSUME InventoryInv, [InventoryNext]_vars PROVE InventoryInv'
  OBVIOUS
<1>1. ASSUME NEW w \in Workers, Work(w) PROVE InventoryInv'
  BY <1>1, RunInv, ListPageInv, PageSentInv, BudgetHitInv, SendFrameInv, StopsInv DEF Work
<1>2. CASE UNCHANGED vars
  BY <1>2 DEF vars, InventoryInv, InventoryTypeOK, EntryKept, OneWorker, Exchanging, Scheduled,
              CursorsCovered, CompleteCovers, BudgetsKept
<1> QED
  BY <1>1, <1>2, StartInv, OutsideInv DEF InventoryNext

LEMMA InventoryBegins == InventoryInit => InventoryInv
<1> SUFFICES ASSUME InventoryInit PROVE InventoryInv
  OBVIOUS
<1>1. \A w \in Workers : worker[w] = Idle /\ worker[w].at = "none"
  BY IdleFacts DEF InventoryInit
<1>2. InventoryTypeOK
  <2>1. worker \in [Workers -> Worker]
    BY IdleFacts DEF InventoryInit
  <2>2. starts \in 0 .. MaxStarts /\ entry \in EntryRec
    BY NoEntryTyped, InventoryAssumption DEF InventoryInit
  <2> QED
    BY <2>1, <2>2, TypesAre DEF InventoryInit
<1>3. EntryKept /\ OneWorker
  BY <1>1, IdleFacts DEF InventoryInit, EntryKept, OneWorker, Exchanging, Scheduled
<1>4. CursorsCovered /\ CompleteCovers
  BY <1>1 DEF InventoryInit, CursorsCovered, CompleteCovers, Reached
<1>5. BudgetsKept
  BY <1>1, IdleFacts DEF BudgetsKept
<1> QED
  BY <1>2, <1>3, <1>4, <1>5 DEF InventoryInv

(* Entries have their goroutine, cursors are covered and budgets kept in   *)
(* every reachable state of the scheduler.                                 *)
THEOREM InventoryInvariant == InventorySpec => []InventoryInv
<1> QED
  BY InventoryBegins, InventoryStep, PTL DEF InventorySpec

(* An entry always has a goroutine that will run it, and on a live         *)
(* connection exactly one: triggers that arrive together share it.         *)
THEOREM EntriesAreTended == InventorySpec => []EntryTended
<1>1. InventoryInv => EntryTended
  <2> SUFFICES ASSUME InventoryInv PROVE EntryTended
    OBVIOUS
  <2>1. InventoryTypeOK /\ EntryKept /\ OneWorker
    BY DEF InventoryInv
  <2>2. entry.made => Busy # {}
    BY <2>1 DEF EntryKept, Busy
  <2>3. ASSUME conn = "up" PROVE Cardinality(Busy) <= 1
    <3>1. CASE Busy = {}
      BY <3>1, FS_EmptySet
    <3>2. CASE Busy # {}
      <4>1. PICK w \in Busy : Busy = {w}
        BY <2>1, <2>3, <3>2 DEF OneWorker, Busy
      <4>2. Cardinality({w}) = 1
        BY FS_Singleton
      <4> QED
        BY <4>1, <4>2
    <3> QED
      BY <3>1, <3>2
  <2>4. ASSUME conn = "up"
        PROVE  /\ entry.running <=> \E w \in Busy : worker[w].at \in {"listing", "sending"}
               /\ entry.scheduled <=> \E w \in Busy : worker[w].at \in {"launched", "waiting"}
    BY <2>1, <2>4 DEF OneWorker, Exchanging, Scheduled, Busy
  <2> QED
    BY <2>1, <2>2, <2>3, <2>4 DEF EntryTended
<1> QED
  BY <1>1, InventoryInvariant, PTL

(* An exchange that completes on a live connection has advertised every    *)
(* key that the store held when the exchange began.                        *)
THEOREM CompletionCovers == InventorySpec => []CompleteCovers
<1>1. InventoryInv => CompleteCovers
  BY DEF InventoryInv
<1> QED
  BY <1>1, InventoryInvariant, PTL

(* One run keeps within both budgets, but for a single key.                *)
THEOREM BudgetsAreKept == InventorySpec => []BudgetKept
<1>1. InventoryInv => BudgetKept
  BY DEF InventoryInv, BudgetsKept, Within, BudgetKept
<1> QED
  BY <1>1, InventoryInvariant, PTL
=============================================================================
