------------------------ MODULE RepairSession_proofs ------------------------
(***************************************************************************)
(* Proofs about RepairSession for any history, batch size and number of    *)
(* stops, wipes and failures.                                              *)
(***************************************************************************)
EXTENDS RepairSession, FiniteSetTheorems, SequenceTheorems, TLAPS

(* Is what node m says of itself still true of it?  Not if it has lost its *)
(* directory since, and has not connected again.                           *)
Trusted(m) == m \notin lost \/ conn[m]

(* The largest version that a frame from node m may name. *)
Cap(m) == IF Trusted(m) THEN LastVersion(m) ELSE LastVersion(Source)

(* A batch has every record behind its first watermark. *)
FrameFits(frame, cap) ==
  /\ frame.to <= cap
  /\ frame.type = "batch" => frame.records = (frame.from + 1)..frame.to

FramesFit(frames, cap) == \A i \in 1..Len(frames) : FrameFits(frames[i], cap)

(* What is left of a batch continues the journal. *)
HandlerFits(h, cap, last) ==
  /\ h.to <= cap
  /\ h.pc = "apply" => \E r \in 1..(last + 1) : h.records = r..h.to
  /\ h.pc = "reply" => h.to <= last

JournalOK(n) ==
  /\ log[n] = (floor[n] + 1)..LastVersion(n)
  /\ book[n] <= LastVersion(n)
  /\ 1..LastVersion(n) \subseteq blobs[n]
  /\ LastVersion(n) <= LastVersion(Source)

Journals == \A n \in Nodes : JournalOK(n)

(* Nothing of a session outlives its end of the connection. *)
Ends ==
  \A n \in Nodes : /\ conn[n] => up[n]
                   /\ ~conn[n] => wire[n] = <<>> /\ run[n] = NoRun /\ handler[n] = Idle

Wires == \A n \in Nodes : FramesFit(wire[n], Cap(Other(n)))

Plans == \A n \in Nodes : FrameFits(run[n].frame, LastVersion(n))

Handlers == \A n \in Nodes : HandlerFits(handler[n], Cap(Other(n)), LastVersion(n))

RepairInv ==
  /\ RepairTypeOK
  /\ Source \notin lost
  /\ Journals /\ Ends /\ Wires /\ Plans /\ Handlers
  /\ WatermarkCovered

-----------------------------------------------------------------------------
(* Least and largest elements. *)

(* A set of naturals has a least element. *)
LEMMA LeastNat ==
  ASSUME NEW T \in SUBSET Nat, T # {}
  PROVE  \E x \in T : \A y \in T : x <= y
<1>1. PICK x \in T : \A y \in T : ~(<<y, x>> \in OpToRel(<, Nat))
  BY WFMin, NatLessThanWellFounded
<1>2. \A y \in T : ~(y < x)
  BY <1>1 DEF OpToRel
<1> QED
  BY <1>2

(* A bounded set of naturals has a largest one. *)
LEMMA GreatestNat ==
  ASSUME NEW T \in SUBSET Nat, NEW b \in Nat, T # {}, \A y \in T : y <= b
  PROVE  \E x \in T : \A y \in T : x >= y
<1> DEFINE U == {b - y : y \in T}
<1>1. U \in SUBSET Nat
  OBVIOUS
<1>2. U # {}
  <2>1. PICK t \in T : TRUE
    OBVIOUS
  <2>2. b - t \in U
    OBVIOUS
  <2> QED
    BY <2>2
<1> HIDE DEF U
<1>3. PICK u \in U : \A y \in U : u <= y
  BY <1>1, <1>2, LeastNat
<1>4. PICK x \in T : u = b - x
  BY <1>3 DEF U
<1>5. \A y \in T : x >= y
  <2> TAKE y \in T
  <2>1. b - y \in U
    BY DEF U
  <2> QED
    BY <1>3, <1>4, <2>1
<1> QED
  BY <1>5

(* The maximum is the one element that no other exceeds. *)
LEMMA MaxIs ==
  ASSUME NEW T \in SUBSET Nat, NEW x \in T, \A y \in T : y <= x
  PROVE  Max(T) = x
<1>1. \E z \in T : \A y \in T : z >= y
  OBVIOUS
<1>2. Max(T) \in T /\ \A y \in T : Max(T) >= y
  BY <1>1 DEF Max
<1>3. Max(T) >= x /\ Max(T) <= x /\ Max(T) \in Nat /\ x \in Nat
  BY <1>2
<1> HIDE DEF Max
<1> QED
  BY <1>3

(* The end of a journal that retains everything behind its floor. *)
LEMMA MaxJournal ==
  ASSUME NEW f \in Nat, NEW l \in Nat, f <= l
  PROVE  Max(((f + 1)..l) \cup {f}) = l
<1> DEFINE T == ((f + 1)..l) \cup {f}
<1>1. T \in SUBSET Nat /\ l \in T /\ \A y \in T : y <= l
  OBVIOUS
<1> HIDE DEF T
<1>2. Max(T) = l
  BY <1>1, MaxIs
<1> QED
  BY <1>2 DEF T

-----------------------------------------------------------------------------
(* The newest record of every key among the first w of a history. *)

LEMMA MinIs ==
  ASSUME NEW a \in Nat, NEW b \in Nat, a <= b
  PROVE  Min(a..b) = a
<1> DEFINE T == a..b
<1>1. \E z \in T : \A y \in T : z <= y
  OBVIOUS
<1>2. Min(T) \in T /\ \A y \in T : Min(T) <= y
  BY <1>1 DEF Min
<1>3. a \in T /\ Min(T) <= a /\ Min(T) >= a /\ Min(T) \in Nat
  BY <1>2
<1> HIDE DEF T
<1> QED
  BY <1>3 DEF T

(* The end of any journal. *)
LEMMA LastOf ==
  ASSUME NEW f \in Versions, NEW S \in SUBSET (1..MaxVersion)
  PROVE  Max(S \cup {f}) \in Versions /\ Max(S \cup {f}) >= f
<1> DEFINE T == S \cup {f}
<1>0. MaxVersion \in Nat
  BY RepairAssumption
<1>1. T \in SUBSET Nat /\ T # {} /\ \A y \in T : y <= MaxVersion
  BY <1>0 DEF Versions
<1>2. f \in T
  OBVIOUS
<1>3. T \subseteq Versions
  BY <1>0 DEF Versions
<1> HIDE DEF T
<1>4. PICK x \in T : \A y \in T : x >= y
  BY <1>0, <1>1, GreatestNat
<1>5. Max(T) = x
  BY <1>1, <1>4, MaxIs
<1> QED
  BY <1>2, <1>3, <1>4, <1>5 DEF T

-----------------------------------------------------------------------------
(* The two nodes. *)

LEMMA OtherIs ==
  ASSUME NEW n \in Nodes
  PROVE  /\ Other(n) \in Nodes /\ Other(n) # n /\ Other(Other(n)) = n
         /\ \A m \in Nodes : m # n => m = Other(n)
<1>1. PICK m \in Nodes : m # Source /\ Nodes = {Source, m}
  BY RepairAssumption
<1>2. \E x \in Nodes : x # n
  BY <1>1
<1>3. Other(n) \in Nodes /\ Other(n) # n
  BY <1>2 DEF Other
<1>4. \A x \in Nodes : x # n => x = Other(n)
  BY <1>1, <1>3
<1>5. \E x \in Nodes : x # Other(n)
  BY <1>3
<1>6. Other(Other(n)) \in Nodes /\ Other(Other(n)) # Other(n)
  BY <1>5 DEF Other
<1> QED
  BY <1>3, <1>4, <1>6

LEMMA SourceNode == Source \in Nodes
BY RepairAssumption

(* Where a journal ends. *)
LEMMA LastFacts ==
  ASSUME RepairTypeOK, NEW n \in Nodes
  PROVE  LastVersion(n) \in Versions /\ LastVersion(n) >= floor[n]
BY LastOf DEF RepairTypeOK, LastVersion

LEMMA VersionsNat == MaxVersion \in Nat /\ Versions \subseteq Nat /\ 0 \in Versions
BY RepairAssumption DEF Versions

(* What Journal.RepairBatch selects has no gap. *)
LEMMA SelectedRecords ==
  ASSUME RepairTypeOK, NEW n \in Nodes, log[n] = (floor[n] + 1)..LastVersion(n),
         floor[n] <= book[n], book[n] <= LastVersion(n)
  PROVE  \E to \in book[n]..LastVersion(n) : Selected(n) = (book[n] + 1)..to
<1> DEFINE l == LastVersion(n)
           from == book[n]
           rest == (from + 1)..l
           to == IF l - from <= MaxRecords THEN l ELSE from + MaxRecords
<1>1. floor[n] \in Nat /\ l \in Nat /\ MaxRecords \in Nat /\ from \in Nat
  BY LastFacts, VersionsNat, RepairAssumption DEF RepairTypeOK
<1> HIDE DEF l
<1>2. {v \in log[n] : v > from} = rest
  BY <1>1 DEF l
<1>3. ASSUME NEW v \in rest
      PROVE  Cardinality({u \in rest : u <= v}) = v - from
  <2>1. {u \in rest : u <= v} = (from + 1)..v
    BY <1>1
  <2>2. from + 1 \in Int /\ v \in Int /\ v >= from + 1
    BY <1>1
  <2>3. Cardinality((from + 1)..v) = IF from + 1 > v THEN 0 ELSE v - (from + 1) + 1
    BY <2>2, FS_Interval
  <2>4. (IF from + 1 > v THEN 0 ELSE v - (from + 1) + 1) = v - from
    BY <1>1, <2>2
  <2> QED
    BY <2>1, <2>3, <2>4
<1>4. Selected(n) = {v \in rest : Cardinality({u \in rest : u <= v}) <= MaxRecords}
  BY <1>2 DEF Selected
<1>5. Selected(n) = {v \in rest : v - from <= MaxRecords}
  BY <1>3, <1>4
<1>6. Selected(n) = (from + 1)..to /\ to \in from..l
  BY <1>1, <1>5 DEF l
<1> QED
  BY <1>6 DEF l

-----------------------------------------------------------------------------
(* What the invariant says of a node, in numbers. *)

LEMMA Basics ==
  ASSUME RepairInv, NEW n \in Nodes
  PROVE  /\ floor[n] \in Nat /\ book[n] \in Nat /\ LastVersion(n) \in Nat
         /\ floor[n] <= LastVersion(n) /\ book[n] <= LastVersion(n)
         /\ log[n] = (floor[n] + 1)..LastVersion(n)
         /\ 1..LastVersion(n) \subseteq blobs[n]
         /\ LastVersion(n) <= LastVersion(Source) /\ LastVersion(Source) \in Nat
<1>1. RepairTypeOK /\ JournalOK(n)
  BY DEF RepairInv, Journals
<1>2. floor[n] \in Versions /\ book[n] \in Versions
  BY <1>1 DEF RepairTypeOK
<1>3. LastVersion(n) \in Versions /\ LastVersion(n) >= floor[n] /\ LastVersion(Source) \in Versions
  BY <1>1, LastFacts, SourceNode
<1> QED
  BY <1>1, <1>2, <1>3, VersionsNat DEF JournalOK

LEMMA CapFacts ==
  ASSUME RepairInv, NEW n \in Nodes
  PROVE  /\ Cap(n) \in Nat /\ LastVersion(n) <= Cap(n) /\ Cap(n) <= LastVersion(Source)
         /\ n \notin lost \/ conn[n] => Cap(n) = LastVersion(n)
<1>1. CASE Trusted(n)
  <2>1. Cap(n) = LastVersion(n)
    BY <1>1 DEF Cap
  <2> QED
    BY <2>1, Basics
<1>2. CASE ~Trusted(n)
  <2>1. Cap(n) = LastVersion(Source)
    BY <1>2 DEF Cap
  <2>2. ~(n \notin lost \/ conn[n])
    BY <1>2 DEF Trusted
  <2> QED
    BY <2>1, <2>2, Basics
<1> QED
  BY <1>1, <1>2

LEMMA FrameTypes ==
  ASSUME NEW frame \in Frames
  PROVE  /\ frame.to \in Nat /\ frame.from \in Nat /\ frame.to \in Versions
         /\ frame.from \in Versions /\ frame.records \in SUBSET (1..MaxVersion)
BY VersionsNat DEF Frames

(* Frames and handlers still fit when what they may name grows. *)
LEMMA FrameGrows ==
  ASSUME NEW frame \in Frames, NEW c \in Nat, NEW d \in Nat, c <= d, FrameFits(frame, c)
  PROVE  FrameFits(frame, d)
<1>1. frame.to \in Nat /\ frame.to <= c
  BY FrameTypes DEF FrameFits
<1>2. frame.to <= d
  BY <1>1
<1> QED
  BY <1>2 DEF FrameFits

LEMMA FramesGrow ==
  ASSUME NEW w \in Seq(Frames), NEW c \in Nat, NEW d \in Nat, c <= d, FramesFit(w, c)
  PROVE  FramesFit(w, d)
<1> SUFFICES ASSUME NEW i \in 1..Len(w) PROVE FrameFits(w[i], d)
  BY DEF FramesFit
<1>1. w[i] \in Frames
  OBVIOUS
<1>2. FrameFits(w[i], c)
  BY DEF FramesFit
<1> QED
  BY <1>1, <1>2, FrameGrows

LEMMA FramesAppend ==
  ASSUME NEW w \in Seq(Frames), NEW frame \in Frames, NEW c \in Nat,
         FramesFit(w, c), FrameFits(frame, c)
  PROVE  FramesFit(Append(w, frame), c)
<1> SUFFICES ASSUME NEW i \in 1..Len(Append(w, frame))
             PROVE  FrameFits(Append(w, frame)[i], c)
  BY DEF FramesFit
<1>1. CASE i \in 1..Len(w)
  <2>1. Append(w, frame)[i] = w[i]
    BY <1>1
  <2> QED
    BY <1>1, <2>1 DEF FramesFit
<1>2. CASE i = Len(w) + 1
  <2>1. Append(w, frame)[i] = frame
    BY <1>2
  <2> QED
    BY <2>1
<1>3. i \in 1..Len(w) \/ i = Len(w) + 1
  OBVIOUS
<1> QED
  BY <1>1, <1>2, <1>3

LEMMA FramesTail ==
  ASSUME NEW w \in Seq(Frames), w # <<>>, NEW c \in Nat, FramesFit(w, c)
  PROVE  FramesFit(Tail(w), c) /\ Head(w) \in Frames /\ FrameFits(Head(w), c)
         /\ Tail(w) \in Seq(Frames)
<1>1. Len(w) \in Nat /\ Len(w) >= 1 /\ Head(w) = w[1] /\ w[1] \in Frames
  OBVIOUS
<1>2. FrameFits(w[1], c)
  BY <1>1 DEF FramesFit
<1>3. ASSUME NEW i \in 1..Len(Tail(w)) PROVE FrameFits(Tail(w)[i], c)
  <2>1. Tail(w)[i] = w[i + 1] /\ i + 1 \in 1..Len(w)
    BY <1>1
  <2> QED
    BY <2>1 DEF FramesFit
<1>4. FramesFit(Tail(w), c)
  BY <1>3 DEF FramesFit
<1> QED
  BY <1>1, <1>2, <1>4

LEMMA FramesEmpty == \A c : FramesFit(<<>>, c)
BY DEF FramesFit

LEMMA HandlerGrows ==
  ASSUME NEW h, h.to \in Nat, NEW c \in Nat, NEW d \in Nat, NEW l \in Nat, NEW k \in Nat,
         c <= d, l <= k, HandlerFits(h, c, l)
  PROVE  HandlerFits(h, d, k)
<1>1. h.to <= d
  BY DEF HandlerFits
<1>2. ASSUME h.pc = "apply" PROVE \E r \in 1..(k + 1) : h.records = r..h.to
  <2>1. PICK r \in 1..(l + 1) : h.records = r..h.to
    BY <1>2 DEF HandlerFits
  <2>2. r \in 1..(k + 1)
    OBVIOUS
  <2> QED
    BY <2>1, <2>2
<1>3. h.pc = "reply" => h.to <= k
  BY DEF HandlerFits
<1> QED
  BY <1>1, <1>2, <1>3 DEF HandlerFits

(* The frame of a fresh Run and the fresh handler fit anything. *)
LEMMA FreshFits ==
  /\ \A c \in Nat : FrameFits(NoRun.frame, c)
  /\ \A s, c : c \in Nat => FrameFits(NewRun(s).frame, c)
  /\ \A c \in Nat, l \in Nat : HandlerFits(Idle, c, l)
<1>1. \A c \in Nat : FrameFits(Ack(0), c)
  BY DEF FrameFits, Ack
<1>2. NoRun.frame = Ack(0) /\ \A s : NewRun(s).frame = Ack(0)
  BY DEF NoRun, NewRun
<1>3. \A c \in Nat, l \in Nat : HandlerFits(Idle, c, l)
  BY DEF HandlerFits, Idle
<1> QED
  BY <1>1, <1>2, <1>3

LEMMA AckFits ==
  ASSUME NEW w \in Versions, NEW c \in Nat, w <= c
  PROVE  Ack(w) \in Frames /\ FrameFits(Ack(w), c)
BY DEF Ack, Frames, FrameFits

-----------------------------------------------------------------------------
(* Types. *)

LEMMA FrameMembers ==
  /\ \A w \in Versions : Ack(w) \in Frames /\ Snapshot(w) \in Frames
  /\ \A f \in Versions, w \in Versions, R \in SUBSET (1..MaxVersion) : Batch(f, w, R) \in Frames
BY DEF Ack, Snapshot, Batch, Frames

LEMMA FreshTypes ==
  /\ Idle.pc = "idle" /\ Idle.to = 0 /\ Idle.records = {}
  /\ NoRun.frame = Ack(0) /\ NoRun.frame \in Frames
BY FrameMembers, VersionsNat DEF Idle, NoRun

(* The records that the goroutine of Run works on. *)
LEMMA PlanTypes ==
  ASSUME RepairInv, NEW n \in Nodes
  PROVE  /\ RawRecords(n) \in SUBSET (1..MaxVersion)
         /\ Selected(n) \in SUBSET (1..MaxVersion)
<1>1. /\ log[n] \in SUBSET (1..MaxVersion) /\ snapshot[n] \in Versions
      /\ MaxVersion \in Nat
  BY VersionsNat DEF RepairInv, RepairTypeOK
<1>2. 1..snapshot[n] \subseteq 1..MaxVersion
  BY <1>1 DEF Versions
<1>3. RawRecords(n) \in SUBSET (1..MaxVersion)
  BY <1>1, <1>2 DEF RawRecords
<1>4. Selected(n) \in SUBSET (1..MaxVersion)
  BY <1>1 DEF Selected
<1> QED
  BY <1>3, <1>4

(* The batch that PlanBatch plans has no gap and ends in the journal. *)
LEMMA PlannedBatch ==
  ASSUME RepairInv, NEW n \in Nodes, book[n] >= floor[n]
  PROVE  /\ Max(Selected(n) \cup {book[n]}) \in book[n]..LastVersion(n)
         /\ Selected(n) = (book[n] + 1)..Max(Selected(n) \cup {book[n]})
<1>1. PICK to \in book[n]..LastVersion(n) : Selected(n) = (book[n] + 1)..to
  BY Basics, SelectedRecords DEF RepairInv
<1>2. book[n] \in Nat /\ to \in Nat /\ book[n] <= to
  BY Basics
<1>3. Max(((book[n] + 1)..to) \cup {book[n]}) = to
  BY <1>2, MaxJournal
<1> QED
  BY <1>1, <1>3

LEMMA BatchTypes ==
  ASSUME RepairInv, NEW n \in Nodes, book[n] >= floor[n]
  PROVE  Max(Selected(n) \cup {book[n]}) \in Versions
<1>1. LastVersion(n) \in Versions /\ LastVersion(n) \in Nat /\ book[n] \in Nat /\ MaxVersion \in Nat
  BY Basics, LastFacts, VersionsNat DEF RepairInv
<1>2. Max(Selected(n) \cup {book[n]}) \in book[n]..LastVersion(n)
  BY PlannedBatch
<1> QED
  BY <1>1, <1>2 DEF Versions

Runs ==
  [pc : {"none", "start", "greeted", "preflight", "plan", "send", "check", "blocked",
         "done", "failed"},
   hello : BOOLEAN, notify : BOOLEAN, snapshot : Versions, frame : Frames,
   more : BOOLEAN, tail : Versions]

HandlerStates ==
  [pc : {"idle", "reconcile", "apply", "acknowledge", "reply"},
   to : Versions, records : SUBSET (1..MaxVersion)]

DurableTyped ==
  /\ floor \in [Nodes -> Versions]
  /\ log \in [Nodes -> SUBSET (1..MaxVersion)]
  /\ book \in [Nodes -> Versions]
  /\ blobs \in [Nodes -> SUBSET (1..MaxVersion)]

ProcessTyped ==
  /\ up \in [Nodes -> BOOLEAN]
  /\ mutated \in BOOLEAN
  /\ snapshot \in [Nodes -> Versions]
  /\ lost \subseteq Nodes
  /\ stops \in 0..MaxStops /\ wipes \in 0..MaxWipes /\ fails \in 0..MaxFails

SessionTyped ==
  /\ conn \in [Nodes -> BOOLEAN]
  /\ wire \in [Nodes -> Seq(Frames)]
  /\ run \in [Nodes -> Runs]
  /\ handler \in [Nodes -> HandlerStates]

LEMMA TypeParts == RepairTypeOK <=> DurableTyped /\ ProcessTyped /\ SessionTyped
BY DEF RepairTypeOK, DurableTyped, ProcessTyped, SessionTyped, Runs, HandlerStates

LEMMA DurableStep ==
  ASSUME RepairInv, RepairNext
  PROVE  DurableTyped'
<1>1. DurableTyped /\ SessionTyped
  BY TypeParts DEF RepairInv
<1>2. MaxVersion \in Nat /\ Versions = 0..MaxVersion
  BY VersionsNat DEF Versions
<1>3. CASE UNCHANGED durable
  BY <1>1, <1>3 DEF durable, DurableTyped
<1>4. CASE Mutate
  <2>1. LastVersion(Source) + 1 \in 1..MaxVersion
    BY <1>2, <1>4, LastFacts, SourceNode DEF Mutate, RepairInv
  <2>2. /\ log' = [log EXCEPT ![Source] = @ \cup {LastVersion(Source) + 1}]
        /\ blobs' = [blobs EXCEPT ![Source] = @ \cup {LastVersion(Source) + 1}]
        /\ floor' = floor /\ book' = book
    BY <1>4 DEF Mutate
  <2> QED
    BY <1>1, <2>1, <2>2, SourceNode DEF DurableTyped
<1>5. ASSUME NEW n \in Nodes, Wipe(n) PROVE DurableTyped'
  BY <1>1, <1>2, <1>5 DEF Wipe, DurableTyped
<1>6. ASSUME NEW n \in Nodes, Compact(n) PROVE DurableTyped'
  <2>1. LastVersion(n) \in Versions
    BY LastFacts DEF RepairInv
  <2> QED
    BY <1>1, <1>6, <2>1 DEF Compact, DurableTyped
<1>7. ASSUME NEW n \in Nodes, Preflight(n) PROVE DurableTyped'
  BY <1>1, <1>7, PlanTypes, OtherIs DEF Preflight, DurableTyped
<1>8. ASSUME NEW n \in Nodes, Reconcile(n) PROVE DurableTyped'
  <2>1. handler[n].to \in Versions
    BY <1>1 DEF SessionTyped, HandlerStates
  <2> QED
    BY <1>1, <1>8, <2>1 DEF Reconcile, DurableTyped
<1>9. ASSUME NEW n \in Nodes, HandleAck(n) PROVE DurableTyped'
  <2>1. wire[n] # <<>> /\ wire[n] \in Seq(Frames)
    BY <1>1, <1>9 DEF HandleAck, Receives, SessionTyped
  <2>2. Head(wire[n]) \in Frames
    BY <2>1
  <2>3. Head(wire[n]).to \in Versions
    BY <2>2, FrameTypes
  <2> QED
    BY <1>1, <1>9, <2>3 DEF HandleAck, DurableTyped
<1>10. ASSUME NEW n \in Nodes, ApplyRecord(n) PROVE DurableTyped'
  <2>1. handler[n].records \in SUBSET (1..MaxVersion) /\ handler[n].records # {}
    BY <1>1, <1>10 DEF ApplyRecord, SessionTyped, HandlerStates
  <2> DEFINE v == Min(handler[n].records)
  <2>2. v \in 1..MaxVersion
    <3> DEFINE T == handler[n].records
    <3>1. T \in SUBSET Nat /\ T # {}
      BY <2>1
    <3> HIDE DEF T
    <3>2. \E x \in T : \A y \in T : x <= y
      BY <3>1, LeastNat
    <3>3. Min(T) \in T
      BY <3>2 DEF Min
    <3> QED
      BY <2>1, <3>3 DEF T
  <2>3. /\ log' = IF Known(n, v) THEN log ELSE [log EXCEPT ![n] = @ \cup {v}]
        /\ floor' = floor /\ book' = book /\ blobs' = blobs
    BY <1>10 DEF ApplyRecord
  <2> HIDE DEF v
  <2> QED
    BY <1>1, <2>2, <2>3 DEF DurableTyped
<1>11. ASSUME NEW n \in Nodes, HandleSnapshot(n) PROVE DurableTyped'
  <2>1. wire[n] # <<>> /\ wire[n] \in Seq(Frames)
    BY <1>1, <1>11 DEF HandleSnapshot, Receives, SessionTyped
  <2>2. Head(wire[n]) \in Frames
    BY <2>1
  <2>3. Head(wire[n]).to \in Versions
    BY <2>2, FrameTypes
  <2> QED
    BY <1>1, <1>11, <2>3 DEF HandleSnapshot, DurableTyped
<1>12. ASSUME NEW n \in Nodes, Acknowledge(n) PROVE DurableTyped'
  <2>1. handler[n].to \in Versions
    BY <1>1 DEF SessionTyped, HandlerStates
  <2> QED
    BY <1>1, <1>12, <2>1 DEF Acknowledge, DurableTyped
<1>13. ASSUME NEW n \in Nodes, Start(n) \/ Stop(n) \/ Disconnect(n) PROVE UNCHANGED durable
  BY <1>13 DEF Start, Stop, Disconnect
<1>14. ASSUME NEW n \in Nodes, RunStep(n), ~Preflight(n) PROVE UNCHANGED durable
  BY <1>14 DEF RunStep, SendHello, HelloPassed, PreflightFails, PlanSnapshot, PlanFails,
               PlanBatch, SendFrame, CheckWatermark, AckNotified
<1>15. ASSUME NEW n \in Nodes, HandleHello(n) \/ HandleDuplicate(n) \/ HandleBatch(n)
                               \/ BatchApplied(n) \/ WriteAck(n) \/ HandleFails(n)
       PROVE  UNCHANGED durable
  BY <1>15 DEF HandleHello, HandleDuplicate, HandleBatch, BatchApplied, WriteAck, HandleFails
<1>16. Connect => UNCHANGED durable
  BY DEF Connect
<1> QED
  BY <1>3, <1>4, <1>5, <1>6, <1>7, <1>8, <1>9, <1>10, <1>11, <1>12, <1>13, <1>14, <1>15, <1>16
     DEF RepairNext, HandleStep

LEMMA ProcessStep ==
  ASSUME RepairInv, RepairNext
  PROVE  ProcessTyped'
<1>1. DurableTyped /\ ProcessTyped
  BY TypeParts DEF RepairInv
<1>2. MaxStops \in Nat /\ MaxWipes \in Nat /\ MaxFails \in Nat
  BY RepairAssumption
<1>3. CASE UNCHANGED <<process, lost, counts>>
  BY <1>1, <1>3 DEF process, counts, ProcessTyped
<1>4. CASE Mutate
  BY <1>1, <1>4 DEF Mutate, counts, ProcessTyped
<1>5. ASSUME NEW n \in Nodes, Start(n) PROVE ProcessTyped'
  <2>1. floor[n] \in Versions
    BY <1>1 DEF DurableTyped
  <2>2. mutated' \in BOOLEAN
    BY <1>1, <1>5 DEF Start, ProcessTyped
  <2>3. up' \in [Nodes -> BOOLEAN] /\ snapshot' \in [Nodes -> Versions]
    BY <1>1, <1>5, <2>1 DEF Start, ProcessTyped
  <2> QED
    BY <1>1, <1>5, <2>2, <2>3 DEF Start, counts, ProcessTyped
<1>6. ASSUME NEW n \in Nodes, Stop(n) PROVE ProcessTyped'
  <2>1. up' \in [Nodes -> BOOLEAN]
    BY <1>1, <1>6 DEF Stop, ProcessTyped
  <2>2. stops' \in 0..MaxStops
    BY <1>1, <1>2, <1>6 DEF Stop, ProcessTyped
  <2> QED
    BY <1>1, <1>6, <2>1, <2>2 DEF Stop, ProcessTyped
<1>7. ASSUME NEW n \in Nodes, Wipe(n) PROVE ProcessTyped'
  <2>1. wipes' \in 0..MaxWipes
    BY <1>1, <1>2, <1>7 DEF Wipe, ProcessTyped
  <2> QED
    BY <1>1, <1>7, <2>1 DEF Wipe, process, ProcessTyped
<1>8. ASSUME NEW n \in Nodes, PreflightFails(n) PROVE ProcessTyped'
  <2>1. fails' \in 0..MaxFails
    BY <1>1, <1>2, <1>8 DEF PreflightFails, ProcessTyped
  <2> QED
    BY <1>1, <1>8, <2>1 DEF PreflightFails, process, ProcessTyped
<1>9. ASSUME NEW n \in Nodes, Reconcile(n) PROVE ProcessTyped'
  BY <1>1, <1>9 DEF Reconcile, process, counts, ProcessTyped
<1>10. ASSUME NEW n \in Nodes, Compact(n) \/ Disconnect(n)
       PROVE  UNCHANGED <<process, lost, counts>>
  BY <1>10 DEF Compact, Disconnect
<1>11. ASSUME NEW n \in Nodes, RunStep(n), ~PreflightFails(n)
       PROVE  UNCHANGED <<process, lost, counts>>
  BY <1>11 DEF RunStep, SendHello, HelloPassed, Preflight, PlanSnapshot, PlanFails,
               PlanBatch, SendFrame, CheckWatermark, AckNotified
<1>12. ASSUME NEW n \in Nodes, HandleStep(n), ~Reconcile(n)
       PROVE  UNCHANGED <<process, lost, counts>>
  BY <1>12 DEF HandleStep, HandleHello, HandleAck, HandleDuplicate, HandleBatch, ApplyRecord,
               BatchApplied, HandleSnapshot, Acknowledge, WriteAck, HandleFails
<1>13. Connect => UNCHANGED <<process, lost, counts>>
  BY DEF Connect
<1> QED
  BY <1>3, <1>4, <1>5, <1>6, <1>7, <1>8, <1>9, <1>10, <1>11, <1>12, <1>13 DEF RepairNext

LEMMA ClosedTypes ==
  ASSUME SessionTyped, NEW n \in Nodes, Closed(n)
  PROVE  SessionTyped'
<1>1. Idle \in HandlerStates
  BY VersionsNat DEF Idle, HandlerStates
<1>2. NoRun \in Runs
  BY VersionsNat, FrameMembers DEF NoRun, Runs
<1>3. <<>> \in Seq(Frames)
  OBVIOUS
<1> QED
  BY <1>1, <1>2, <1>3 DEF Closed, SessionTyped

(* The parts of a session change one at a time. *)
LEMMA PcTypes ==
  ASSUME run \in [Nodes -> Runs], NEW n \in Nodes,
         NEW pc \in {"none", "start", "greeted", "preflight", "plan", "send", "check",
                     "blocked", "done", "failed"},
         Goto(n, pc)
  PROVE  run' \in [Nodes -> Runs]
BY DEF Goto, Runs

LEMMA SentTypes ==
  ASSUME wire \in [Nodes -> Seq(Frames)], NEW m \in Nodes, NEW frame \in Frames, Send(m, frame)
  PROVE  wire' \in [Nodes -> Seq(Frames)]
BY DEF Send

LEMMA PoppedTypes ==
  ASSUME wire \in [Nodes -> Seq(Frames)], NEW n \in Nodes, wire[n] # <<>>
  PROVE  /\ Popped(n) \in [Nodes -> Seq(Frames)]
         /\ \A frame \in Frames : PoppedReply(n, frame) \in [Nodes -> Seq(Frames)]
         /\ Head(wire[n]) \in Frames
<1>1. wire[n] \in Seq(Frames) /\ Tail(wire[n]) \in Seq(Frames) /\ Head(wire[n]) \in Frames
  OBVIOUS
<1>2. Popped(n) \in [Nodes -> Seq(Frames)]
  BY <1>1 DEF Popped
<1>3. ASSUME NEW frame \in Frames PROVE PoppedReply(n, frame) \in [Nodes -> Seq(Frames)]
  <2>1. Other(n) \in Nodes /\ Other(n) # n
    BY OtherIs
  <2>2. Append(wire[Other(n)], frame) \in Seq(Frames)
    BY <2>1
  <2> QED
    BY <1>1, <2>1, <2>2 DEF PoppedReply
<1> QED
  BY <1>1, <1>2, <1>3

LEMMA HandlerTypes ==
  ASSUME handler \in [Nodes -> HandlerStates], NEW n \in Nodes, NEW h \in HandlerStates,
         handler' = [handler EXCEPT ![n] = h]
  PROVE  handler' \in [Nodes -> HandlerStates]
OBVIOUS

LEMMA RunSessions ==
  ASSUME RepairInv, SessionTyped, NEW n \in Nodes, RunStep(n)
  PROVE  SessionTyped'
<1>1. /\ conn \in [Nodes -> BOOLEAN] /\ wire \in [Nodes -> Seq(Frames)]
      /\ run \in [Nodes -> Runs] /\ handler \in [Nodes -> HandlerStates]
  BY DEF SessionTyped
<1>2. conn' = conn /\ handler' = handler
  BY DEF RunStep, SendHello, HelloPassed, Preflight, PreflightFails, PlanSnapshot, PlanFails,
         PlanBatch, SendFrame, CheckWatermark, AckNotified
<1>3. Other(n) \in Nodes
  BY OtherIs
<1>4. wire' \in [Nodes -> Seq(Frames)]
  <2>1. CASE SendHello(n)
    <3>1. Ack(book[n]) \in Frames
      BY FrameMembers DEF RepairInv, RepairTypeOK
    <3>2. Send(Other(n), Ack(book[n]))
      BY <2>1 DEF SendHello
    <3> QED
      BY <1>1, <1>3, <3>1, <3>2, SentTypes
  <2>2. CASE SendFrame(n)
    <3>1. run[n].frame \in Frames
      BY <1>1 DEF Runs
    <3>2. Send(Other(n), run[n].frame)
      BY <2>2 DEF SendFrame
    <3> QED
      BY <1>1, <1>3, <3>1, <3>2, SentTypes
  <2>3. CASE ~SendHello(n) /\ ~SendFrame(n)
    <3>1. wire' = wire
      BY <2>3 DEF RunStep, HelloPassed, Preflight, PreflightFails, PlanSnapshot, PlanFails,
                  PlanBatch, CheckWatermark, AckNotified
    <3> QED
      BY <1>1, <3>1
  <2> QED
    BY <2>1, <2>2, <2>3
<1>5. run' \in [Nodes -> Runs]
  <2>1. ASSUME NEW frame \in Frames, NEW more \in BOOLEAN, Planned(n, frame, more)
        PROVE  run' \in [Nodes -> Runs]
    <3>1. LastVersion(n) \in Versions
      BY LastFacts DEF RepairInv
    <3> DEFINE r1 == [run[n] EXCEPT !.pc = "send"]
               r2 == [r1 EXCEPT !.frame = frame]
               r3 == [r2 EXCEPT !.more = more]
               r4 == [r3 EXCEPT !.tail = LastVersion(n)]
    <3>2. run' = [run EXCEPT ![n] = r4]
      BY <1>1, <2>1, Zenon DEF Planned
    <3>3. r1 \in Runs
      BY <1>1 DEF Runs
    <3> HIDE DEF r1
    <3>4. r2 \in Runs
      BY <3>3 DEF Runs
    <3> HIDE DEF r2
    <3>5. r3 \in Runs
      BY <3>4 DEF Runs
    <3> HIDE DEF r3
    <3>6. r4 \in Runs
      BY <3>1, <3>5 DEF Runs
    <3> HIDE DEF r4
    <3> QED
      BY <1>1, <3>2, <3>6
  <2>2. CASE PlanSnapshot(n)
    <3>1. Snapshot(floor[n]) \in Frames
      BY FrameMembers DEF RepairInv, RepairTypeOK
    <3>2. Planned(n, Snapshot(floor[n]), FALSE)
      BY <2>2 DEF PlanSnapshot
    <3> QED
      BY <2>1, <3>1, <3>2
  <2>3. CASE PlanBatch(n)
    <3> DEFINE to == Max(Selected(n) \cup {book[n]})
               more == \E v \in log[n] : v > to
    <3>1. book[n] >= floor[n] /\ Planned(n, Batch(book[n], to, Selected(n)), more)
      BY <2>3 DEF PlanBatch
    <3>2. to \in Versions /\ book[n] \in Versions /\ Selected(n) \in SUBSET (1..MaxVersion)
      BY <3>1, BatchTypes, PlanTypes DEF RepairInv, RepairTypeOK
    <3>3. Batch(book[n], to, Selected(n)) \in Frames
      BY <3>2, FrameMembers
    <3>4. more \in BOOLEAN
      OBVIOUS
    <3> HIDE DEF to, more
    <3> QED
      BY <2>1, <3>1, <3>3, <3>4
  <2>4. CASE AckNotified(n)
    BY <1>1, <2>4 DEF AckNotified, Runs
  <2>5. CASE SendHello(n)
    BY <1>1, <2>5, PcTypes DEF SendHello
  <2>6. CASE HelloPassed(n)
    BY <1>1, <2>6, PcTypes DEF HelloPassed
  <2>7. CASE Preflight(n)
    BY <1>1, <2>7, PcTypes DEF Preflight
  <2>8. CASE PreflightFails(n)
    BY <1>1, <2>8, PcTypes DEF PreflightFails
  <2>9. CASE PlanFails(n)
    BY <1>1, <2>9, PcTypes DEF PlanFails
  <2>10. CASE SendFrame(n)
    <3>1. PICK pc \in {"check", "done"} : Goto(n, pc)
      BY <2>10 DEF SendFrame
    <3> QED
      BY <1>1, <3>1, PcTypes
  <2>11. CASE CheckWatermark(n)
    <3>1. PICK pc \in {"blocked", "plan", "done"} : Goto(n, pc)
      BY <2>11 DEF CheckWatermark
    <3> QED
      BY <1>1, <3>1, PcTypes
  <2> QED
    BY <2>2, <2>3, <2>4, <2>5, <2>6, <2>7, <2>8, <2>9, <2>10, <2>11 DEF RunStep
<1> QED
  BY <1>1, <1>2, <1>4, <1>5 DEF SessionTyped

LEMMA HandleSessions ==
  ASSUME RepairInv, SessionTyped, NEW n \in Nodes, HandleStep(n)
  PROVE  SessionTyped'
<1>1. /\ conn \in [Nodes -> BOOLEAN] /\ wire \in [Nodes -> Seq(Frames)]
      /\ run \in [Nodes -> Runs] /\ handler \in [Nodes -> HandlerStates]
  BY DEF SessionTyped
<1>2. Other(n) \in Nodes
  BY OtherIs
<1>3. handler[n] \in HandlerStates
  BY <1>1
<1>4. Idle \in HandlerStates
  BY VersionsNat DEF Idle, HandlerStates
<1>5. ASSUME NEW type, Receives(n, type)
      PROVE  wire[n] # <<>> /\ Head(wire[n]).to \in Versions
             /\ Head(wire[n]).records \in SUBSET (1..MaxVersion)
  <2>1. wire[n] # <<>>
    BY <1>5 DEF Receives
  <2>2. Head(wire[n]) \in Frames
    BY <1>1, <2>1, PoppedTypes
  <2> QED
    BY <2>1, <2>2, FrameTypes
<1>6. CASE HandleFails(n)
  BY <1>6, ClosedTypes DEF HandleFails
<1>7. CASE HandleHello(n)
  <2>1. wire' \in [Nodes -> Seq(Frames)]
    BY <1>1, <1>5, <1>7, PoppedTypes DEF HandleHello
  <2>2. run' \in [Nodes -> Runs]
    BY <1>1, <1>7 DEF HandleHello, Runs
  <2> DEFINE h == [pc |-> "reconcile", to |-> Head(wire[n]).to, records |-> {}]
  <2>3. h \in HandlerStates
    BY <1>5, <1>7 DEF HandleHello, HandlerStates
  <2>4. handler' = [handler EXCEPT ![n] = h] /\ conn' = conn
    BY <1>7 DEF HandleHello
  <2> HIDE DEF h
  <2> QED
    BY <1>1, <2>1, <2>2, <2>3, <2>4 DEF SessionTyped
<1>8. CASE Reconcile(n)
  BY <1>1, <1>4, <1>8 DEF Reconcile, SessionTyped
<1>9. CASE HandleAck(n)
  <2>1. wire' \in [Nodes -> Seq(Frames)]
    BY <1>1, <1>5, <1>9, PoppedTypes DEF HandleAck
  <2>2. run' \in [Nodes -> Runs]
    BY <1>1, <1>9 DEF HandleAck, Runs
  <2>3. handler' = handler /\ conn' = conn
    BY <1>9 DEF HandleAck
  <2> QED
    BY <1>1, <2>1, <2>2, <2>3 DEF SessionTyped
<1>10. CASE HandleDuplicate(n)
  <2>1. Ack(book[n]) \in Frames
    BY FrameMembers DEF RepairInv, RepairTypeOK
  <2>2. wire[n] # <<>>
    BY <1>5, <1>10 DEF HandleDuplicate
  <2>3. wire' = PoppedReply(n, Ack(book[n]))
    BY <1>10 DEF HandleDuplicate
  <2>4. wire' \in [Nodes -> Seq(Frames)]
    BY <1>1, <2>1, <2>2, <2>3, PoppedTypes
  <2>5. handler' = handler /\ conn' = conn /\ run' = run
    BY <1>10 DEF HandleDuplicate
  <2> QED
    BY <1>1, <2>4, <2>5 DEF SessionTyped
<1>11. CASE HandleBatch(n)
  <2>1. wire' \in [Nodes -> Seq(Frames)]
    BY <1>1, <1>5, <1>11, PoppedTypes DEF HandleBatch
  <2> DEFINE h == [pc |-> "apply", to |-> Head(wire[n]).to, records |-> Head(wire[n]).records]
  <2>2. h \in HandlerStates
    BY <1>5, <1>11 DEF HandleBatch, HandlerStates
  <2>3. handler' = [handler EXCEPT ![n] = h] /\ conn' = conn /\ run' = run
    BY <1>11 DEF HandleBatch
  <2> HIDE DEF h
  <2> QED
    BY <1>1, <2>1, <2>2, <2>3 DEF SessionTyped
<1>12. CASE ApplyRecord(n)
  <2>1. handler' \in [Nodes -> HandlerStates]
    BY <1>1, <1>3, <1>12 DEF ApplyRecord, HandlerStates
  <2> QED
    BY <1>1, <1>12, <2>1 DEF ApplyRecord, SessionTyped
<1>13. CASE BatchApplied(n)
  <2>1. handler' \in [Nodes -> HandlerStates]
    BY <1>1, <1>13 DEF BatchApplied, HandlerStates
  <2> QED
    BY <1>1, <1>13, <2>1 DEF BatchApplied, SessionTyped
<1>14. CASE HandleSnapshot(n)
  <2>1. wire' \in [Nodes -> Seq(Frames)]
    BY <1>1, <1>5, <1>14, PoppedTypes DEF HandleSnapshot
  <2> DEFINE h == [pc |-> "acknowledge", to |-> Head(wire[n]).to, records |-> {}]
  <2>2. h \in HandlerStates
    BY <1>5, <1>14 DEF HandleSnapshot, HandlerStates
  <2>3. handler' = [handler EXCEPT ![n] = h] /\ conn' = conn /\ run' = run
    BY <1>14 DEF HandleSnapshot
  <2> HIDE DEF h
  <2> QED
    BY <1>1, <2>1, <2>2, <2>3 DEF SessionTyped
<1>15. CASE Acknowledge(n)
  <2>1. handler' \in [Nodes -> HandlerStates]
    BY <1>1, <1>15 DEF Acknowledge, HandlerStates
  <2> QED
    BY <1>1, <1>15, <2>1 DEF Acknowledge, SessionTyped
<1>16. CASE WriteAck(n)
  <2>1. Ack(handler[n].to) \in Frames
    BY <1>3, FrameMembers DEF HandlerStates
  <2>2. Send(Other(n), Ack(handler[n].to))
    BY <1>16 DEF WriteAck
  <2>3. wire' \in [Nodes -> Seq(Frames)]
    BY <1>1, <1>2, <2>1, <2>2, SentTypes
  <2> QED
    BY <1>1, <1>4, <1>16, <2>3 DEF WriteAck, SessionTyped
<1> QED
  BY <1>6, <1>7, <1>8, <1>9, <1>10, <1>11, <1>12, <1>13, <1>14, <1>15, <1>16 DEF HandleStep

LEMMA TypeStep ==
  ASSUME RepairInv, RepairNext
  PROVE  RepairTypeOK'
<1>1. SessionTyped /\ ProcessTyped
  BY TypeParts DEF RepairInv
<1>2. CASE Connect
  <2>1. ASSUME NEW n \in Nodes PROVE NewRun(snapshot[n]) \in Runs
    <3>1. NoRun \in Runs
      BY VersionsNat, FrameMembers DEF NoRun, Runs
    <3>2. snapshot[n] \in Versions
      BY <1>1 DEF ProcessTyped
    <3> QED
      BY <3>1, <3>2 DEF NewRun, Runs
  <2>2. conn' \in [Nodes -> BOOLEAN] /\ run' \in [Nodes -> Runs]
    BY <1>2, <2>1 DEF Connect
  <2>3. SessionTyped'
    BY <1>1, <1>2, <2>2 DEF Connect, SessionTyped
  <2> QED
    BY <2>3, DurableStep, ProcessStep, TypeParts, PTL
<1>3. ASSUME NEW n \in Nodes, Stop(n) \/ Disconnect(n) PROVE SessionTyped'
  BY <1>1, <1>3, ClosedTypes DEF Stop, Disconnect
<1>4. ASSUME NEW n \in Nodes, Start(n) \/ Wipe(n) \/ Compact(n) PROVE SessionTyped'
  BY <1>1, <1>4 DEF Start, Wipe, Compact, session, SessionTyped
<1>5. ASSUME Mutate PROVE SessionTyped'
  BY <1>1, <1>5 DEF Mutate, session, SessionTyped
<1>6. ~Connect => SessionTyped'
  BY <1>1, <1>3, <1>4, <1>5, RunSessions, HandleSessions DEF RepairNext
<1>7. DurableTyped' /\ ProcessTyped'
  BY DurableStep, ProcessStep
<1> QED
  BY <1>2, <1>6, <1>7, TypeParts, PTL

-----------------------------------------------------------------------------
(* Journals. *)

(* One journal grows, the other node's stays: a follower never gets ahead  *)
(* of the authority.                                                       *)
LEMMA JournalGrows ==
  ASSUME RepairInv, NEW n \in Nodes, NEW t \in Nat,
         LastVersion(n) <= t, n # Source => t <= LastVersion(Source),
         floor'[n] \in Nat, floor'[n] <= t, log'[n] = (floor'[n] + 1)..t,
         1..t \subseteq blobs'[n], book' = book,
         \A m \in Nodes : m # n => floor'[m] = floor[m] /\ log'[m] = log[m] /\ blobs'[m] = blobs[m]
  PROVE  /\ LastVersion(n)' = t
         /\ \A m \in Nodes : JournalOK(m)' /\ LastVersion(m)' >= LastVersion(m)
<1>1. LastVersion(n)' = t
  <2>1. Max(((floor'[n] + 1)..t) \cup {floor'[n]}) = t
    BY MaxJournal
  <2> QED
    BY <2>1 DEF LastVersion
<1>2. \A m \in Nodes : m # n => LastVersion(m)' = LastVersion(m)
  BY DEF LastVersion
<1>3. \A m \in Nodes : /\ book[m] \in Nat /\ LastVersion(m) \in Nat
                       /\ book[m] <= LastVersion(m) /\ LastVersion(m) <= LastVersion(Source)
                       /\ log[m] = (floor[m] + 1)..LastVersion(m)
                       /\ 1..LastVersion(m) \subseteq blobs[m]
  BY Basics
<1>4. LastVersion(Source)' >= LastVersion(Source) /\ LastVersion(Source)' \in Nat
      /\ t <= LastVersion(Source)'
  BY <1>1, <1>2, <1>3, SourceNode
<1>5. JournalOK(n)'
  <2>1. log'[n] = (floor'[n] + 1)..LastVersion(n)'
    BY <1>1
  <2>2. book'[n] <= LastVersion(n)'
    BY <1>1, <1>3
  <2>3. 1..LastVersion(n)' \subseteq blobs'[n]
    BY <1>1
  <2>4. LastVersion(n)' <= LastVersion(Source)'
    BY <1>1, <1>4
  <2> QED
    BY <2>1, <2>2, <2>3, <2>4 DEF JournalOK
<1>6. ASSUME NEW m \in Nodes, m # n PROVE JournalOK(m)'
  <2>1. LastVersion(m)' = LastVersion(m)
    BY <1>2, <1>6
  <2>2. log'[m] = (floor'[m] + 1)..LastVersion(m)' /\ 1..LastVersion(m)' \subseteq blobs'[m]
    BY <1>3, <1>6, <2>1
  <2>3. book'[m] <= LastVersion(m)'
    BY <1>3, <2>1
  <2>4. LastVersion(m)' <= LastVersion(Source)'
    BY <1>3, <1>4, <2>1, SourceNode
  <2> QED
    BY <2>2, <2>3, <2>4 DEF JournalOK
<1>7. \A m \in Nodes : LastVersion(m)' >= LastVersion(m)
  BY <1>1, <1>2, <1>3
<1> QED
  BY <1>1, <1>5, <1>6, <1>7

(* The journals stay; blobs are added and a watermark is set within the    *)
(* journal.                                                                *)
LEMMA JournalsStay ==
  ASSUME RepairInv, floor' = floor, log' = log,
         \A m \in Nodes : blobs[m] \subseteq blobs'[m] /\ book'[m] <= LastVersion(m)
  PROVE  \A m \in Nodes : JournalOK(m)' /\ LastVersion(m)' = LastVersion(m)
<1>1. \A m \in Nodes : LastVersion(m)' = LastVersion(m)
  BY DEF LastVersion
<1> SUFFICES ASSUME NEW m \in Nodes PROVE JournalOK(m)'
  BY <1>1
<1>2. /\ LastVersion(m) <= LastVersion(Source) /\ log[m] = (floor[m] + 1)..LastVersion(m)
      /\ 1..LastVersion(m) \subseteq blobs[m]
  BY Basics
<1>3. LastVersion(m)' = LastVersion(m) /\ LastVersion(Source)' = LastVersion(Source)
  BY <1>1, SourceNode
<1>4. log'[m] = (floor'[m] + 1)..LastVersion(m)'
  BY <1>2, <1>3
<1>5. 1..LastVersion(m)' \subseteq blobs'[m]
  BY <1>2, <1>3
<1>6. book'[m] <= LastVersion(m)' /\ LastVersion(m)' <= LastVersion(Source)'
  BY <1>2, <1>3
<1> QED
  BY <1>4, <1>5, <1>6 DEF JournalOK

(* The frame that a handler looks at. *)
LEMMA HeadFits ==
  ASSUME RepairInv, NEW n \in Nodes, wire[n] # <<>>
  PROVE  /\ Head(wire[n]) \in Frames /\ FrameFits(Head(wire[n]), Cap(Other(n)))
         /\ FramesFit(Tail(wire[n]), Cap(Other(n)))
         /\ Head(wire[n]).to \in Nat /\ Head(wire[n]).to <= Cap(Other(n))
<1>1. wire[n] \in Seq(Frames) /\ FramesFit(wire[n], Cap(Other(n)))
  BY DEF RepairInv, RepairTypeOK, Wires
<1>2. Cap(Other(n)) \in Nat
  BY CapFacts, OtherIs
<1>3. /\ Head(wire[n]) \in Frames /\ FrameFits(Head(wire[n]), Cap(Other(n)))
      /\ FramesFit(Tail(wire[n]), Cap(Other(n)))
  BY <1>1, <1>2, FramesTail
<1>4. Head(wire[n]).to \in Nat
  BY <1>3, FrameTypes
<1> QED
  BY <1>3, <1>4 DEF FrameFits

LEMMA HandlerFacts ==
  ASSUME RepairInv, NEW n \in Nodes
  PROVE  /\ handler[n].to \in Nat /\ handler[n].to <= Cap(Other(n))
         /\ handler[n].pc = "apply" =>
              \E r \in 1..(LastVersion(n) + 1) : handler[n].records = r..handler[n].to
         /\ handler[n].pc = "reply" => handler[n].to <= LastVersion(n)
<1>1. handler[n].to \in Nat
  BY VersionsNat DEF RepairInv, RepairTypeOK
<1> QED
  BY <1>1 DEF RepairInv, Handlers, HandlerFits

(* The next record of a batch is known or the next version. *)
LEMMA NextRecord ==
  ASSUME RepairInv, NEW n \in Nodes, ApplyRecord(n)
  PROVE  LET v == Min(handler[n].records)
         IN /\ handler[n].records = v..handler[n].to
            /\ v \in Nat /\ v >= 1 /\ v <= handler[n].to
            /\ Known(n, v) <=> v <= LastVersion(n)
            /\ ~Known(n, v) => v = LastVersion(n) + 1 /\ v \in blobs[n] /\ n # Source
<1> DEFINE v == Min(handler[n].records)
<1>1. PICK r \in 1..(LastVersion(n) + 1) : handler[n].records = r..handler[n].to
  BY HandlerFacts DEF ApplyRecord
<1>2. handler[n].to \in Nat /\ LastVersion(n) \in Nat /\ r \in Nat /\ r >= 1
      /\ r <= LastVersion(n) + 1
  BY HandlerFacts, Basics
<1>3. handler[n].records # {}
  BY DEF ApplyRecord
<1>4. r <= handler[n].to
  BY <1>1, <1>2, <1>3
<1>5. Min(r..handler[n].to) = r
  BY <1>2, <1>4, MinIs
<1>6. v = r
  BY <1>1, <1>5
<1> HIDE DEF v
<1>7. floor[n] \in Nat /\ floor[n] <= LastVersion(n) /\ log[n] = (floor[n] + 1)..LastVersion(n)
  BY Basics
<1>8. Known(n, v) <=> v <= LastVersion(n)
  BY <1>2, <1>6, <1>7 DEF Known
<1>9. ASSUME ~Known(n, v) PROVE v = LastVersion(n) + 1 /\ v \in blobs[n] /\ n # Source
  <2>1. CanApply(n, v)
    BY DEF ApplyRecord, v
  <2>2. v \in blobs[n] /\ v > LastVersion(n)
    BY <1>9, <2>1 DEF CanApply
  <2>3. v <= LastVersion(Source)
    <3>1. handler[n].to <= Cap(Other(n)) /\ Cap(Other(n)) \in Nat
          /\ Cap(Other(n)) <= LastVersion(Source) /\ LastVersion(Source) \in Nat
      BY HandlerFacts, CapFacts, OtherIs, Basics
    <3> QED
      BY <1>2, <1>4, <1>6, <3>1
  <2>4. n # Source
    <3> SUFFICES ASSUME n = Source PROVE FALSE
      OBVIOUS
    <3>1. v > LastVersion(Source)
      BY <2>2
    <3> QED
      BY <1>2, <1>6, <2>3, <3>1
  <2> QED
    BY <1>2, <1>6, <2>2, <2>4
<1> QED
  BY <1>1, <1>2, <1>4, <1>6, <1>8, <1>9 DEF v

(* A step that leaves the durable state alone. *)
Still ==
  \/ Connect
  \/ \E n \in Nodes : \/ Start(n) \/ Stop(n) \/ Disconnect(n)
                      \/ RunStep(n) /\ ~Preflight(n)
                      \/ HandleHello(n) \/ HandleDuplicate(n) \/ HandleBatch(n)
                      \/ BatchApplied(n) \/ WriteAck(n) \/ HandleFails(n)

LEMMA StillDurable == Still => UNCHANGED durable
<1>1. ASSUME NEW n \in Nodes, Start(n) \/ Stop(n) \/ Disconnect(n) PROVE UNCHANGED durable
  BY <1>1 DEF Start, Stop, Disconnect
<1>2. ASSUME NEW n \in Nodes, RunStep(n), ~Preflight(n) PROVE UNCHANGED durable
  BY <1>2 DEF RunStep, SendHello, HelloPassed, PreflightFails, PlanSnapshot, PlanFails,
               PlanBatch, SendFrame, CheckWatermark, AckNotified
<1>3. ASSUME NEW n \in Nodes, HandleHello(n) \/ HandleDuplicate(n) \/ HandleBatch(n)
                              \/ BatchApplied(n) \/ WriteAck(n) \/ HandleFails(n)
      PROVE  UNCHANGED durable
  BY <1>3 DEF HandleHello, HandleDuplicate, HandleBatch, BatchApplied, WriteAck, HandleFails
<1>4. Connect => UNCHANGED durable
  BY DEF Connect
<1> QED
  BY <1>1, <1>2, <1>3, <1>4 DEF Still

(* Only a wipe shortens a journal. *)
LEMMA JournalsStep ==
  ASSUME RepairInv, RepairNext, ~\E n \in Nodes : Wipe(n)
  PROVE  Journals' /\ \A m \in Nodes : LastVersion(m)' >= LastVersion(m)
<1>1. \A m \in Nodes : /\ book[m] \in Nat /\ LastVersion(m) \in Nat /\ floor[m] \in Nat
                       /\ book[m] <= LastVersion(m) /\ floor[m] <= LastVersion(m)
                       /\ LastVersion(m) <= LastVersion(Source)
                       /\ log[m] = (floor[m] + 1)..LastVersion(m)
                       /\ 1..LastVersion(m) \subseteq blobs[m]
  BY Basics
<1>2. DurableTyped
  BY TypeParts DEF RepairInv
<1>3. ASSUME \A m \in Nodes : JournalOK(m)' /\ LastVersion(m)' = LastVersion(m)
      PROVE  Journals' /\ \A m \in Nodes : LastVersion(m)' >= LastVersion(m)
  BY <1>1, <1>3 DEF Journals
<1>4. ASSUME UNCHANGED durable
      PROVE  Journals' /\ \A m \in Nodes : LastVersion(m)' >= LastVersion(m)
  <2>1. floor' = floor /\ log' = log /\ blobs' = blobs /\ book' = book
    BY <1>4 DEF durable
  <2>2. \A m \in Nodes : JournalOK(m)' /\ LastVersion(m)' = LastVersion(m)
    BY <1>1, <2>1, JournalsStay
  <2> QED
    BY <1>3, <2>2
<1>5. ASSUME Mutate PROVE Journals' /\ \A m \in Nodes : LastVersion(m)' >= LastVersion(m)
  <2> DEFINE t == LastVersion(Source) + 1
  <2>1. /\ log' = [log EXCEPT ![Source] = @ \cup {t}]
        /\ blobs' = [blobs EXCEPT ![Source] = @ \cup {t}]
        /\ floor' = floor /\ book' = book
    BY <1>5 DEF Mutate
  <2>2. t \in Nat /\ LastVersion(Source) <= t /\ floor'[Source] \in Nat /\ floor'[Source] <= t
    BY <1>1, <2>1, SourceNode
  <2>3. log'[Source] = (floor'[Source] + 1)..t
    <3>1. log'[Source] = log[Source] \cup {t}
      BY <1>2, <2>1, SourceNode DEF DurableTyped
    <3>2. LastVersion(Source) \in Nat /\ floor[Source] \in Nat
          /\ floor[Source] <= LastVersion(Source)
          /\ log[Source] = (floor[Source] + 1)..LastVersion(Source)
      BY <1>1, SourceNode
    <3>3. ((floor[Source] + 1)..LastVersion(Source)) \cup {t} = (floor[Source] + 1)..t
      BY <3>2
    <3> QED
      BY <2>1, <3>1, <3>2, <3>3
  <2>4. 1..t \subseteq blobs'[Source]
    <3>1. blobs'[Source] = blobs[Source] \cup {t}
      BY <1>2, <2>1, SourceNode DEF DurableTyped
    <3>2. LastVersion(Source) \in Nat /\ 1..LastVersion(Source) \subseteq blobs[Source]
      BY <1>1, SourceNode
    <3>3. 1..t = (1..LastVersion(Source)) \cup {t}
      BY <3>2
    <3> QED
      BY <3>1, <3>2, <3>3
  <2>5. \A m \in Nodes : m # Source =>
          floor'[m] = floor[m] /\ log'[m] = log[m] /\ blobs'[m] = blobs[m]
    BY <1>2, <2>1 DEF DurableTyped
  <2> HIDE DEF t
  <2>6. \A m \in Nodes : JournalOK(m)' /\ LastVersion(m)' >= LastVersion(m)
    BY <2>1, <2>2, <2>3, <2>4, <2>5, SourceNode, JournalGrows
  <2> QED
    BY <2>6 DEF Journals
<1>6. ASSUME NEW n \in Nodes, Compact(n)
      PROVE  Journals' /\ \A m \in Nodes : LastVersion(m)' >= LastVersion(m)
  <2> DEFINE t == LastVersion(n)
  <2>1. /\ floor' = [floor EXCEPT ![n] = t] /\ log' = [log EXCEPT ![n] = {}]
        /\ blobs' = blobs /\ book' = book
    BY <1>6 DEF Compact
  <2>2. t \in Nat /\ LastVersion(n) <= t /\ (n # Source => t <= LastVersion(Source))
        /\ 1..t \subseteq blobs'[n]
    BY <1>1, <2>1
  <2>3. floor'[n] = t /\ log'[n] = {}
    BY <1>2, <2>1 DEF DurableTyped
  <2>4. log'[n] = (floor'[n] + 1)..t /\ floor'[n] \in Nat /\ floor'[n] <= t
    BY <2>2, <2>3
  <2>5. \A m \in Nodes : m # n =>
          floor'[m] = floor[m] /\ log'[m] = log[m] /\ blobs'[m] = blobs[m]
    BY <1>2, <2>1 DEF DurableTyped
  <2> HIDE DEF t
  <2>6. \A m \in Nodes : JournalOK(m)' /\ LastVersion(m)' >= LastVersion(m)
    BY <2>1, <2>2, <2>4, <2>5, JournalGrows
  <2> QED
    BY <2>6 DEF Journals
<1>7. ASSUME NEW n \in Nodes, HandleSnapshot(n)
      PROVE  Journals' /\ \A m \in Nodes : LastVersion(m)' >= LastVersion(m)
  <2> DEFINE t == Head(wire[n]).to
  <2>1. /\ floor' = [floor EXCEPT ![n] = t] /\ log' = [log EXCEPT ![n] = {}]
        /\ blobs' = blobs /\ book' = book
        /\ 1..t \subseteq blobs[n] /\ t >= LastVersion(n)
    BY <1>7 DEF HandleSnapshot
  <2>2. wire[n] # <<>>
    BY <1>7 DEF HandleSnapshot, Receives
  <2>3. t \in Nat /\ t <= Cap(Other(n)) /\ Cap(Other(n)) \in Nat
        /\ Cap(Other(n)) <= LastVersion(Source) /\ LastVersion(Source) \in Nat
    BY <2>2, HeadFits, CapFacts, OtherIs, Basics
  <2>4. floor'[n] = t /\ log'[n] = {}
    BY <1>2, <2>1 DEF DurableTyped
  <2>5. log'[n] = (floor'[n] + 1)..t /\ floor'[n] \in Nat /\ floor'[n] <= t
    BY <2>3, <2>4
  <2>6. \A m \in Nodes : m # n =>
          floor'[m] = floor[m] /\ log'[m] = log[m] /\ blobs'[m] = blobs[m]
    BY <1>2, <2>1 DEF DurableTyped
  <2>7. LastVersion(n) <= t /\ t <= LastVersion(Source) /\ 1..t \subseteq blobs'[n]
    BY <1>1, <2>1, <2>3
  <2> HIDE DEF t
  <2>8. \A m \in Nodes : JournalOK(m)' /\ LastVersion(m)' >= LastVersion(m)
    BY <2>1, <2>3, <2>5, <2>6, <2>7, JournalGrows
  <2> QED
    BY <2>8 DEF Journals
<1>8. ASSUME NEW n \in Nodes, ApplyRecord(n)
      PROVE  Journals' /\ \A m \in Nodes : LastVersion(m)' >= LastVersion(m)
  <2> DEFINE t == Min(handler[n].records)
  <2>1. /\ log' = IF Known(n, t) THEN log ELSE [log EXCEPT ![n] = @ \cup {t}]
        /\ floor' = floor /\ blobs' = blobs /\ book' = book
    BY <1>8 DEF ApplyRecord
  <2>2. CASE Known(n, t)
    <3>1. UNCHANGED durable
      BY <2>1, <2>2 DEF durable
    <3> QED
      BY <1>4, <3>1
  <2>3. CASE ~Known(n, t)
    <3>1. t = LastVersion(n) + 1 /\ t \in blobs[n] /\ n # Source /\ t <= handler[n].to
      BY <1>8, <2>3, NextRecord
    <3>2. t <= LastVersion(Source)
      <4>1. handler[n].to <= Cap(Other(n)) /\ Cap(Other(n)) \in Nat /\ handler[n].to \in Nat
            /\ Cap(Other(n)) <= LastVersion(Source) /\ LastVersion(Source) \in Nat
        BY HandlerFacts, CapFacts, OtherIs, Basics
      <4>2. t \in Nat
        BY <1>1, <3>1
      <4> HIDE DEF t
      <4> QED
        BY <3>1, <4>1, <4>2
    <3>3. log'[n] = log[n] \cup {t}
      BY <1>2, <2>1, <2>3 DEF DurableTyped
    <3>4. \A m \in Nodes : m # n =>
            floor'[m] = floor[m] /\ log'[m] = log[m] /\ blobs'[m] = blobs[m]
      BY <1>2, <2>1, <2>3 DEF DurableTyped
    <3> HIDE DEF t
    <3>5. LastVersion(n) \in Nat /\ floor[n] \in Nat /\ floor[n] <= LastVersion(n)
          /\ log[n] = (floor[n] + 1)..LastVersion(n) /\ 1..LastVersion(n) \subseteq blobs[n]
      BY <1>1
    <3>6. log[n] \cup {t} = (floor[n] + 1)..t /\ t \in Nat /\ floor[n] <= t
          /\ 1..t = (1..LastVersion(n)) \cup {t}
      BY <3>1, <3>5
    <3>7. log'[n] = (floor'[n] + 1)..t /\ floor'[n] \in Nat /\ floor'[n] <= t
      BY <2>1, <3>3, <3>5, <3>6
    <3>8. 1..t \subseteq blobs'[n]
      BY <2>1, <3>1, <3>5, <3>6
    <3>9. LastVersion(n) <= t
      BY <3>1, <3>5
    <3>10. \A m \in Nodes : JournalOK(m)' /\ LastVersion(m)' >= LastVersion(m)
      BY <2>1, <3>2, <3>4, <3>6, <3>7, <3>8, <3>9, JournalGrows
    <3> QED
      BY <3>10 DEF Journals
  <2> QED
    BY <2>2, <2>3
<1>9. ASSUME NEW n \in Nodes, Preflight(n)
      PROVE  Journals' /\ \A m \in Nodes : LastVersion(m)' >= LastVersion(m)
  <2>1. floor' = floor /\ log' = log /\ book' = book
    BY <1>9 DEF Preflight
  <2>2. \A m \in Nodes : blobs[m] \subseteq blobs'[m]
    BY <1>2, <1>9 DEF Preflight, DurableTyped
  <2>3. \A m \in Nodes : JournalOK(m)' /\ LastVersion(m)' = LastVersion(m)
    BY <1>1, <2>1, <2>2, JournalsStay
  <2> QED
    BY <1>3, <2>3
<1>10. ASSUME NEW n \in Nodes, NEW w \in Nat, w <= LastVersion(n),
              book' = [book EXCEPT ![n] = w], floor' = floor, log' = log, blobs' = blobs
       PROVE  Journals' /\ \A m \in Nodes : LastVersion(m)' >= LastVersion(m)
  <2>1. \A m \in Nodes : book'[m] <= LastVersion(m)
    BY <1>1, <1>2, <1>10 DEF DurableTyped
  <2>2. \A m \in Nodes : JournalOK(m)' /\ LastVersion(m)' = LastVersion(m)
    BY <1>10, <2>1, JournalsStay
  <2> QED
    BY <1>3, <2>2
<1>11. ASSUME NEW n \in Nodes, Reconcile(n)
       PROVE  Journals' /\ \A m \in Nodes : LastVersion(m)' >= LastVersion(m)
  <2>1. floor' = floor /\ log' = log /\ blobs' = blobs
        /\ (handler[n].to <= LastVersion(n) \/ LastVersion(n) = 0)
        /\ book' = IF LastVersion(n) = 0 THEN book ELSE [book EXCEPT ![n] = handler[n].to]
    BY <1>11 DEF Reconcile
  <2>2. CASE LastVersion(n) = 0
    <3>1. UNCHANGED durable
      BY <2>1, <2>2 DEF durable
    <3> QED
      BY <1>4, <3>1
  <2>3. CASE LastVersion(n) # 0
    <3>1. handler[n].to \in Nat /\ handler[n].to <= LastVersion(n)
          /\ book' = [book EXCEPT ![n] = handler[n].to]
      BY <2>1, <2>3, HandlerFacts
    <3> QED
      BY <1>10, <2>1, <3>1
  <2> QED
    BY <2>2, <2>3
<1>12. ASSUME NEW n \in Nodes, HandleAck(n)
       PROVE  Journals' /\ \A m \in Nodes : LastVersion(m)' >= LastVersion(m)
  <2> DEFINE w == Head(wire[n]).to
  <2>1. floor' = floor /\ log' = log /\ blobs' = blobs
        /\ (w = 0 \/ (w <= LastVersion(n) /\ w >= book[n]))
        /\ book' = IF w = 0 THEN book ELSE [book EXCEPT ![n] = w]
    BY <1>12 DEF HandleAck
  <2>2. w \in Nat
    BY <1>12, HeadFits DEF HandleAck, Receives
  <2> HIDE DEF w
  <2>3. CASE w = 0
    <3>1. UNCHANGED durable
      BY <2>1, <2>3 DEF durable
    <3> QED
      BY <1>4, <3>1
  <2>4. CASE w # 0
    <3>1. w <= LastVersion(n) /\ book' = [book EXCEPT ![n] = w]
      BY <2>1, <2>4
    <3> QED
      BY <1>10, <2>1, <2>2, <3>1
  <2> QED
    BY <2>3, <2>4
<1>13. ASSUME NEW n \in Nodes, Acknowledge(n)
       PROVE  Journals' /\ \A m \in Nodes : LastVersion(m)' >= LastVersion(m)
  <2>1. floor' = floor /\ log' = log /\ blobs' = blobs /\ handler[n].to <= LastVersion(n)
        /\ book' = [book EXCEPT ![n] = handler[n].to]
    BY <1>13 DEF Acknowledge
  <2>2. handler[n].to \in Nat
    BY HandlerFacts
  <2> QED
    BY <1>10, <2>1, <2>2
<1>14. Still => Journals' /\ \A m \in Nodes : LastVersion(m)' >= LastVersion(m)
  BY <1>4, StillDurable
<1>15. \/ Still \/ Mutate
       \/ \E n \in Nodes : \/ Compact(n) \/ Preflight(n) \/ Reconcile(n) \/ HandleAck(n)
                           \/ ApplyRecord(n) \/ HandleSnapshot(n) \/ Acknowledge(n)
  BY DEF RepairNext, HandleStep, Still
<1> QED
  BY <1>5, <1>6, <1>7, <1>8, <1>9, <1>11, <1>12, <1>13, <1>14, <1>15

-----------------------------------------------------------------------------
(* What frames may name. *)

LastsNat == \A m \in Nodes : LastVersion(m) \in Nat

LEMMA LastNat == RepairTypeOK => LastsNat
BY LastFacts, VersionsNat DEF LastsNat

(* Only a connection and a hello bring trust back, and the hello needs the *)
(* connection.                                                             *)
LEMMA TrustStep ==
  ASSUME RepairInv, RepairNext, ~Connect, NEW m \in Nodes, Trusted(m)'
  PROVE  Trusted(m)
<1>1. m \notin lost' \/ conn'[m]
  BY DEF Trusted
<1>2. conn \in [Nodes -> BOOLEAN]
  BY DEF RepairInv, RepairTypeOK
<1>3. ASSUME NEW n \in Nodes, Closed(n), lost' = lost PROVE Trusted(m)
  <2>1. conn' = [conn EXCEPT ![n] = FALSE]
    BY <1>3 DEF Closed
  <2>2. conn'[m] => conn[m]
    BY <1>2, <2>1
  <2> QED
    BY <1>1, <1>3, <2>2 DEF Trusted
<1>4. ASSUME conn' = conn, lost \subseteq lost' PROVE Trusted(m)
  BY <1>1, <1>4 DEF Trusted
<1>5. ASSUME NEW n \in Nodes, Reconcile(n) PROVE Trusted(m)
  BY <1>1, <1>5 DEF Reconcile, Trusted
<1>6. ASSUME NEW n \in Nodes, Stop(n) \/ Disconnect(n) \/ HandleFails(n) PROVE Trusted(m)
  BY <1>3, <1>6 DEF Stop, Disconnect, HandleFails
<1>7. ASSUME NEW n \in Nodes, Start(n) \/ Wipe(n) \/ Compact(n) PROVE Trusted(m)
  BY <1>4, <1>7 DEF Start, Wipe, Compact, session
<1>8. ASSUME NEW n \in Nodes, RunStep(n) PROVE Trusted(m)
  BY <1>4, <1>8 DEF RunStep, SendHello, HelloPassed, Preflight, PreflightFails, PlanSnapshot,
                    PlanFails, PlanBatch, SendFrame, CheckWatermark, AckNotified
<1>9. ASSUME NEW n \in Nodes, HandleStep(n), ~HandleFails(n), ~Reconcile(n) PROVE Trusted(m)
  BY <1>4, <1>9 DEF HandleStep, HandleHello, HandleAck, HandleDuplicate, HandleBatch,
                    ApplyRecord, BatchApplied, HandleSnapshot, Acknowledge, WriteAck
<1>10. Mutate => Trusted(m)
  BY <1>4 DEF Mutate, session
<1> QED
  BY <1>5, <1>6, <1>7, <1>8, <1>9, <1>10 DEF RepairNext

LEMMA CapsGrow ==
  ASSUME RepairInv, RepairNext, ~Connect, ~\E n \in Nodes : Wipe(n), NEW m \in Nodes
  PROVE  Cap(m)' \in Nat /\ Cap(m)' >= Cap(m)
<1>1. Journals' /\ \A k \in Nodes : LastVersion(k)' >= LastVersion(k)
  BY JournalsStep
<1>2. \A k \in Nodes : LastVersion(k)' \in Nat
  <2>1. RepairTypeOK'
    BY TypeStep
  <2>2. LastsNat'
    BY <2>1, LastNat, PTL
  <2> QED
    BY <2>2 DEF LastsNat
<1>3. LastVersion(m)' <= LastVersion(Source)'
  BY <1>1 DEF Journals, JournalOK
<1>4. LastVersion(m) \in Nat /\ LastVersion(Source) \in Nat /\ LastVersion(m) <= LastVersion(Source)
  BY Basics
<1>5. CASE Trusted(m)'
  <2>1. Cap(m)' = LastVersion(m)'
    BY <1>5 DEF Cap
  <2>2. Cap(m) = LastVersion(m)
    BY <1>5, TrustStep DEF Cap
  <2> QED
    BY <1>1, <1>2, <2>1, <2>2
<1>6. CASE ~Trusted(m)'
  <2>1. Cap(m)' = LastVersion(Source)'
    BY <1>6 DEF Cap
  <2>2. Cap(m) <= LastVersion(Source) /\ Cap(m) \in Nat
    BY CapFacts
  <2>3. LastVersion(Source)' >= LastVersion(Source) /\ LastVersion(Source)' \in Nat
    BY <1>1, <1>2, SourceNode
  <2> QED
    BY <1>4, <2>1, <2>2, <2>3
<1> QED
  BY <1>5, <1>6

-----------------------------------------------------------------------------
(* Sessions. *)

LEMMA ClosedEnds ==
  ASSUME RepairInv, NEW n \in Nodes, Closed(n), \A m \in Nodes : m # n => up'[m] = up[m]
  PROVE  Ends'
<1>1. /\ conn \in [Nodes -> BOOLEAN] /\ wire \in [Nodes -> Seq(Frames)]
      /\ DOMAIN run = Nodes /\ DOMAIN handler = Nodes
  BY DEF RepairInv, RepairTypeOK
<1> SUFFICES ASSUME NEW m \in Nodes
             PROVE  /\ conn'[m] => up'[m]
                    /\ ~conn'[m] => wire'[m] = <<>> /\ run'[m] = NoRun /\ handler'[m] = Idle
  BY DEF Ends
<1>2. CASE m = n
  <2>1. conn'[m] = FALSE /\ wire'[m] = <<>> /\ run'[m] = NoRun /\ handler'[m] = Idle
    BY <1>1, <1>2, Zenon DEF Closed, RepairInv, RepairTypeOK
  <2> QED
    BY <2>1
<1>3. CASE m # n
  <2>1. conn'[m] = conn[m] /\ wire'[m] = wire[m] /\ run'[m] = run[m] /\ handler'[m] = handler[m]
    BY <1>1, <1>3, Zenon DEF Closed, RepairInv, RepairTypeOK
  <2> QED
    BY <1>3, <2>1 DEF RepairInv, Ends
<1> QED
  BY <1>2, <1>3

(* A goroutine works only while its end of the connection is registered.   *)
LEMMA WorksConnected ==
  ASSUME RepairInv, NEW n \in Nodes,
         (RunStep(n) \/ HandleStep(n)) /\ ~HandleFails(n)
  PROVE  conn[n]
<1> SUFFICES ASSUME ~conn[n] PROVE FALSE
  OBVIOUS
<1>1. run[n] = NoRun /\ handler[n] = Idle
  BY DEF RepairInv, Ends
<1>2. run[n].pc = "none" /\ handler[n].pc = "idle"
  BY <1>1 DEF NoRun, Idle
<1>3. ~RunStep(n)
  BY <1>2 DEF RunStep, SendHello, HelloPassed, Preflight, PreflightFails, PlanSnapshot,
              PlanFails, PlanBatch, SendFrame, CheckWatermark, AckNotified
<1>4. ASSUME NEW type PROVE ~Receives(n, type)
  BY DEF Receives
<1>5. HandleStep(n) => HandleFails(n)
  BY <1>2, <1>4 DEF HandleStep, HandleHello, Reconcile, HandleAck, HandleDuplicate,
       HandleBatch, ApplyRecord, BatchApplied, HandleSnapshot, Acknowledge, WriteAck
<1> QED
  BY <1>3, <1>5

(* What a working goroutine does to the end of the other node is to append *)
(* to its wire, if it is registered.                                       *)
LEMMA WorkTouches ==
  ASSUME RepairInv, NEW n \in Nodes, RunStep(n) \/ HandleStep(n), ~HandleFails(n)
  PROVE  /\ conn' = conn /\ up' = up
         /\ \A m \in Nodes : m # n => run'[m] = run[m] /\ handler'[m] = handler[m]
         /\ \A m \in Nodes : m # n /\ ~conn[m] => wire'[m] = wire[m]
<1>1. conn' = conn /\ up' = up
  BY DEF RunStep, SendHello, HelloPassed, Preflight, PreflightFails, PlanSnapshot,
         PlanFails, PlanBatch, SendFrame, CheckWatermark, AckNotified, HandleStep,
         HandleHello, Reconcile, HandleAck, HandleDuplicate, HandleBatch, ApplyRecord,
         BatchApplied, HandleSnapshot, Acknowledge, WriteAck, process
<1>2. /\ wire \in [Nodes -> Seq(Frames)] /\ DOMAIN run = Nodes /\ DOMAIN handler = Nodes
  BY DEF RepairInv, RepairTypeOK
<1>3. ASSUME NEW m \in Nodes, m # n PROVE run'[m] = run[m]
  BY <1>2, <1>3 DEF RunStep, SendHello, HelloPassed, Preflight, PreflightFails, PlanSnapshot,
         PlanFails, PlanBatch, SendFrame, CheckWatermark, AckNotified, HandleStep,
         HandleHello, Reconcile, HandleAck, HandleDuplicate, HandleBatch, ApplyRecord,
         BatchApplied, HandleSnapshot, Acknowledge, WriteAck, Goto, Planned
<1>4. ASSUME NEW m \in Nodes, m # n PROVE handler'[m] = handler[m]
  BY <1>2, <1>4 DEF RunStep, SendHello, HelloPassed, Preflight, PreflightFails, PlanSnapshot,
         PlanFails, PlanBatch, SendFrame, CheckWatermark, AckNotified, HandleStep,
         HandleHello, Reconcile, HandleAck, HandleDuplicate, HandleBatch, ApplyRecord,
         BatchApplied, HandleSnapshot, Acknowledge, WriteAck
<1>5. ASSUME NEW m \in Nodes, m # n, ~conn[m] PROVE wire'[m] = wire[m]
  <2>1. m = Other(n)
    BY <1>5, OtherIs
  <2> QED
    BY <1>2, <1>5, <2>1 DEF RunStep, SendHello, HelloPassed, Preflight, PreflightFails,
         PlanSnapshot, PlanFails, PlanBatch, SendFrame, CheckWatermark, AckNotified, HandleStep,
         HandleHello, Reconcile, HandleAck, HandleDuplicate, HandleBatch, ApplyRecord,
         BatchApplied, HandleSnapshot, Acknowledge, WriteAck, Send, Popped, PoppedReply
<1> QED
  BY <1>1, <1>3, <1>4, <1>5

LEMMA EndsStep ==
  ASSUME RepairInv, RepairNext
  PROVE  Ends'
<1>1. Ends /\ up \in [Nodes -> BOOLEAN] /\ conn \in [Nodes -> BOOLEAN]
  BY DEF RepairInv, RepairTypeOK
<1>2. CASE Connect
  BY <1>2 DEF Connect, Ends, process
<1>3. ASSUME NEW n \in Nodes, Stop(n) \/ Disconnect(n) \/ HandleFails(n) PROVE Ends'
  <2>1. Closed(n)
    BY <1>3 DEF Stop, Disconnect, HandleFails
  <2>2. \A m \in Nodes : m # n => up'[m] = up[m]
    BY <1>1, <1>3 DEF Stop, Disconnect, HandleFails, process
  <2> QED
    BY <2>1, <2>2, ClosedEnds
<1>4. ASSUME NEW n \in Nodes, Start(n) PROVE Ends'
  <2>1. \A m \in Nodes : up[m] => up'[m]
    BY <1>1, <1>4 DEF Start
  <2>2. conn' = conn /\ wire' = wire /\ run' = run /\ handler' = handler
    BY <1>4 DEF Start, session
  <2> QED
    BY <1>1, <2>1, <2>2 DEF Ends
<1>5. ASSUME UNCHANGED session, up' = up PROVE Ends'
  BY <1>1, <1>5 DEF session, Ends
<1>6. ASSUME NEW n \in Nodes, Wipe(n) \/ Compact(n) PROVE Ends'
  BY <1>5, <1>6 DEF Wipe, Compact, process
<1>7. Mutate => Ends'
  BY <1>5 DEF Mutate
<1>8. ASSUME NEW n \in Nodes, RunStep(n) \/ HandleStep(n), ~HandleFails(n) PROVE Ends'
  <2>1. conn[n]
    BY <1>8, WorksConnected
  <2>2. conn' = conn /\ up' = up
    BY <1>8, WorkTouches
  <2>3. ASSUME NEW m \in Nodes, ~conn[m]
        PROVE  wire'[m] = wire[m] /\ run'[m] = run[m] /\ handler'[m] = handler[m]
    <3>1. m # n
      BY <2>1, <2>3
    <3> QED
      BY <1>8, <2>3, <3>1, WorkTouches
  <2> QED
    BY <1>1, <2>2, <2>3 DEF Ends
<1> QED
  BY <1>2, <1>3, <1>4, <1>6, <1>7, <1>8 DEF RepairNext

(* A frame is sent to the other node: it fits when it names what this node *)
(* has.                                                                    *)
LEMMA SentFits ==
  ASSUME RepairInv, NEW n \in Nodes, NEW frame \in Frames, FrameFits(frame, LastVersion(n)),
         Send(Other(n), frame), NEW m \in Nodes
  PROVE  FramesFit(wire'[m], Cap(Other(m)))
<1>1. wire \in [Nodes -> Seq(Frames)] /\ FramesFit(wire[m], Cap(Other(m)))
  BY DEF RepairInv, RepairTypeOK, Wires
<1>2. Other(n) \in Nodes /\ Other(n) # n /\ Other(Other(n)) = n
  BY OtherIs
<1>3. CASE wire'[m] = wire[m]
  BY <1>1, <1>3
<1>4. CASE m = Other(n) /\ wire'[m] = Append(wire[m], frame)
  <2>1. Cap(n) \in Nat /\ LastVersion(n) <= Cap(n) /\ LastVersion(n) \in Nat
    BY CapFacts, Basics
  <2>2. FrameFits(frame, Cap(n))
    BY <2>1, FrameGrows
  <2>3. FramesFit(wire[m], Cap(n)) /\ wire[m] \in Seq(Frames)
    BY <1>1, <1>2, <1>4
  <2>4. FramesFit(Append(wire[m], frame), Cap(n))
    BY <2>1, <2>2, <2>3, FramesAppend
  <2> QED
    BY <1>2, <1>4, <2>4
<1>5. wire'[m] = wire[m] \/ (m = Other(n) /\ wire'[m] = Append(wire[m], frame))
  BY <1>1, <1>2 DEF Send
<1> QED
  BY <1>3, <1>4, <1>5

LEMMA PoppedFits ==
  ASSUME RepairInv, NEW n \in Nodes, wire[n] # <<>>, wire' = Popped(n), NEW m \in Nodes
  PROVE  FramesFit(wire'[m], Cap(Other(m)))
<1>1. wire \in [Nodes -> Seq(Frames)] /\ FramesFit(wire[m], Cap(Other(m)))
  BY DEF RepairInv, RepairTypeOK, Wires
<1>2. wire'[m] = IF m = n THEN Tail(wire[m]) ELSE wire[m]
  BY <1>1 DEF Popped
<1> QED
  BY <1>1, <1>2, HeadFits

LEMMA ReplyFits ==
  ASSUME RepairInv, NEW n \in Nodes, wire[n] # <<>>, wire' = PoppedReply(n, Ack(book[n])),
         NEW m \in Nodes
  PROVE  FramesFit(wire'[m], Cap(Other(m)))
<1>1. wire \in [Nodes -> Seq(Frames)] /\ FramesFit(wire[m], Cap(Other(m)))
  BY DEF RepairInv, RepairTypeOK, Wires
<1>2. Other(n) \in Nodes /\ Other(n) # n /\ Other(Other(n)) = n
  BY OtherIs
<1>3. CASE m = n
  <2>1. wire'[m] = Tail(wire[m])
    BY <1>1, <1>2, <1>3 DEF PoppedReply
  <2> QED
    BY <1>3, <2>1, HeadFits
<1>4. CASE m = Other(n)
  <2>1. wire'[m] = wire[m] \/ wire'[m] = Append(wire[m], Ack(book[n]))
    BY <1>1, <1>2, <1>4 DEF PoppedReply
  <2>2. Cap(n) \in Nat /\ book[n] <= Cap(n)
    <3>1. LastVersion(n) <= Cap(n) /\ LastVersion(n) \in Nat /\ Cap(n) \in Nat
          /\ book[n] <= LastVersion(n) /\ book[n] \in Nat
      BY CapFacts, Basics
    <3> QED
      BY <3>1
  <2>3. book[n] \in Versions
    BY DEF RepairInv, RepairTypeOK
  <2>4. Ack(book[n]) \in Frames /\ FrameFits(Ack(book[n]), Cap(n))
    BY <2>2, <2>3, AckFits
  <2>5. FramesFit(Append(wire[m], Ack(book[n])), Cap(n))
    BY <1>1, <1>2, <1>4, <2>2, <2>4, FramesAppend
  <2> QED
    BY <1>1, <1>2, <1>4, <2>1, <2>5
<1> QED
  BY <1>3, <1>4, OtherIs

LEMMA WiresStep ==
  ASSUME RepairInv, RepairNext, ~Connect, ~\E n \in Nodes : Wipe(n)
  PROVE  Wires'
<1> SUFFICES ASSUME NEW m \in Nodes PROVE FramesFit(wire'[m], Cap(Other(m))')
  BY DEF Wires
<1>1. wire \in [Nodes -> Seq(Frames)] /\ FramesFit(wire[m], Cap(Other(m)))
  BY DEF RepairInv, RepairTypeOK, Wires
<1>2. FramesFit(wire'[m], Cap(Other(m)))
  <2>1. CASE wire' = wire
    BY <1>1, <2>1
  <2>2. ASSUME NEW n \in Nodes, Stop(n) \/ Disconnect(n) \/ HandleFails(n)
        PROVE  FramesFit(wire'[m], Cap(Other(m)))
    <3>1. wire' = [wire EXCEPT ![n] = <<>>]
      BY <2>2 DEF Stop, Disconnect, HandleFails, Closed
    <3>2. wire'[m] = wire[m] \/ wire'[m] = <<>>
      BY <1>1, <3>1
    <3> QED
      BY <1>1, <3>2, FramesEmpty
  <2>3. ASSUME NEW n \in Nodes, SendHello(n) PROVE FramesFit(wire'[m], Cap(Other(m)))
    <3>1. book[n] \in Versions
      BY DEF RepairInv, RepairTypeOK
    <3>2. Ack(book[n]) \in Frames /\ FrameFits(Ack(book[n]), LastVersion(n))
      BY <3>1, AckFits, Basics
    <3>3. Send(Other(n), Ack(book[n]))
      BY <2>3 DEF SendHello
    <3> QED
      BY <3>2, <3>3, SentFits
  <2>4. ASSUME NEW n \in Nodes, SendFrame(n) PROVE FramesFit(wire'[m], Cap(Other(m)))
    <3>1. run[n].frame \in Frames /\ FrameFits(run[n].frame, LastVersion(n))
      BY DEF RepairInv, RepairTypeOK, Plans
    <3>2. Send(Other(n), run[n].frame)
      BY <2>4 DEF SendFrame
    <3> QED
      BY <3>1, <3>2, SentFits
  <2>5. ASSUME NEW n \in Nodes, WriteAck(n) PROVE FramesFit(wire'[m], Cap(Other(m)))
    <3>1. handler[n].to \in Versions
      BY DEF RepairInv, RepairTypeOK
    <3>2. handler[n].to <= LastVersion(n) /\ LastVersion(n) \in Nat
      BY <2>5, HandlerFacts, Basics DEF WriteAck
    <3>3. Ack(handler[n].to) \in Frames /\ FrameFits(Ack(handler[n].to), LastVersion(n))
      BY <3>1, <3>2, AckFits
    <3>4. Send(Other(n), Ack(handler[n].to))
      BY <2>5 DEF WriteAck
    <3> QED
      BY <3>3, <3>4, SentFits
  <2>6. ASSUME NEW n \in Nodes,
               HandleHello(n) \/ HandleAck(n) \/ HandleBatch(n) \/ HandleSnapshot(n)
        PROVE  FramesFit(wire'[m], Cap(Other(m)))
    <3>1. wire[n] # <<>> /\ wire' = Popped(n)
      BY <2>6 DEF HandleHello, HandleAck, HandleBatch, HandleSnapshot, Receives
    <3> QED
      BY <3>1, PoppedFits
  <2>7. ASSUME NEW n \in Nodes, HandleDuplicate(n) PROVE FramesFit(wire'[m], Cap(Other(m)))
    <3>1. wire[n] # <<>> /\ wire' = PoppedReply(n, Ack(book[n]))
      BY <2>7 DEF HandleDuplicate, Receives
    <3> QED
      BY <3>1, ReplyFits
  <2>8. ASSUME NEW n \in Nodes, RunStep(n), ~SendHello(n), ~SendFrame(n) PROVE wire' = wire
    BY <2>8 DEF RunStep, HelloPassed, Preflight, PreflightFails, PlanSnapshot, PlanFails,
                PlanBatch, CheckWatermark, AckNotified
  <2>9. ASSUME NEW n \in Nodes, Reconcile(n) \/ ApplyRecord(n) \/ BatchApplied(n) \/ Acknowledge(n)
                                \/ Start(n) \/ Compact(n)
        PROVE  wire' = wire
    BY <2>9 DEF Reconcile, ApplyRecord, BatchApplied, Acknowledge, Start, Compact, session
  <2>10. Mutate => wire' = wire
    BY DEF Mutate, session
  <2> QED
    BY <2>1, <2>2, <2>3, <2>4, <2>5, <2>6, <2>7, <2>8, <2>9, <2>10 DEF RepairNext, HandleStep
<1>3. wire'[m] \in Seq(Frames)
  BY TypeStep DEF RepairTypeOK
<1>4. Cap(Other(m)) \in Nat /\ Cap(Other(m))' \in Nat /\ Cap(Other(m))' >= Cap(Other(m))
  <2>1. Other(m) \in Nodes
    BY OtherIs
  <2> QED
    BY <2>1, CapFacts, CapsGrow
<1> QED
  BY <1>2, <1>3, <1>4, FramesGrow

LEMMA PlansStep ==
  ASSUME RepairInv, RepairNext, ~Connect, ~\E n \in Nodes : Wipe(n)
  PROVE  Plans'
<1> SUFFICES ASSUME NEW m \in Nodes PROVE FrameFits(run'[m].frame, LastVersion(m)')
  BY DEF Plans
<1>1. run \in [Nodes -> Runs] /\ FrameFits(run[m].frame, LastVersion(m))
  BY DEF RepairInv, RepairTypeOK, Plans, Runs
<1>2. LastVersion(m) \in Nat /\ LastVersion(m)' \in Nat /\ LastVersion(m)' >= LastVersion(m)
  <2>1. LastsNat'
    BY TypeStep, LastNat, PTL
  <2> QED
    BY <2>1, Basics, JournalsStep DEF LastsNat
<1>3. FrameFits(run'[m].frame, LastVersion(m))
  <2>1. CASE run'[m].frame = run[m].frame
    BY <1>1, <2>1
  <2>2. ASSUME NEW n \in Nodes, NEW frame, NEW more, Planned(n, frame, more)
        PROVE  run'[m].frame = IF m = n THEN frame ELSE run[m].frame
    BY <1>1, <2>2 DEF Planned, Runs
  <2>3. ASSUME NEW n \in Nodes, PlanSnapshot(n) PROVE FrameFits(run'[m].frame, LastVersion(m))
    <3>1. run'[m].frame = IF m = n THEN Snapshot(floor[n]) ELSE run[m].frame
      BY <2>2, <2>3 DEF PlanSnapshot
    <3>2. floor[n] <= LastVersion(n)
      BY Basics
    <3>3. FrameFits(Snapshot(floor[n]), LastVersion(n))
      BY <3>2 DEF FrameFits, Snapshot
    <3> QED
      BY <1>1, <3>1, <3>3
  <2>4. ASSUME NEW n \in Nodes, PlanBatch(n) PROVE FrameFits(run'[m].frame, LastVersion(m))
    <3> DEFINE to == Max(Selected(n) \cup {book[n]})
               more == \E v \in log[n] : v > to
    <3>1. book[n] >= floor[n] /\ Planned(n, Batch(book[n], to, Selected(n)), more)
      BY <2>4 DEF PlanBatch
    <3>2. to \in book[n]..LastVersion(n) /\ Selected(n) = (book[n] + 1)..to
      BY <3>1, PlannedBatch
    <3>3. book[n] \in Nat /\ LastVersion(n) \in Nat
      BY Basics
    <3> HIDE DEF to, more
    <3>4. run'[m].frame = IF m = n THEN Batch(book[n], to, Selected(n)) ELSE run[m].frame
      BY <2>2, <3>1
    <3>5. FrameFits(Batch(book[n], to, Selected(n)), LastVersion(n))
      BY <3>2, <3>3 DEF FrameFits, Batch
    <3> QED
      BY <1>1, <3>4, <3>5
  <2>5. ASSUME NEW n \in Nodes, Stop(n) \/ Disconnect(n) \/ HandleFails(n)
        PROVE  FrameFits(run'[m].frame, LastVersion(m))
    <3>1. run' = [run EXCEPT ![n] = NoRun]
      BY <2>5 DEF Stop, Disconnect, HandleFails, Closed
    <3>2. run'[m] = run[m] \/ run'[m] = NoRun
      BY <1>1, <3>1
    <3> QED
      BY <1>1, <1>2, <3>2, FreshFits
  <2>6. ASSUME NEW n \in Nodes, NEW pc, Goto(n, pc) PROVE run'[m].frame = run[m].frame
    BY <1>1, <2>6 DEF Goto, Runs
  <2>7. ASSUME NEW n \in Nodes, RunStep(n), ~PlanSnapshot(n), ~PlanBatch(n), ~AckNotified(n)
        PROVE  run'[m].frame = run[m].frame
    BY <2>6, <2>7 DEF RunStep, SendHello, HelloPassed, Preflight, PreflightFails, PlanFails,
                      SendFrame, CheckWatermark
  <2>8. ASSUME NEW n \in Nodes, AckNotified(n) \/ HandleHello(n) \/ HandleAck(n)
        PROVE  run'[m].frame = run[m].frame
    BY <1>1, <2>8 DEF AckNotified, HandleHello, HandleAck, Runs
  <2>9. ASSUME NEW n \in Nodes, \/ Reconcile(n) \/ ApplyRecord(n) \/ BatchApplied(n)
                                \/ Acknowledge(n) \/ Start(n) \/ Compact(n) \/ HandleDuplicate(n)
                                \/ HandleBatch(n) \/ HandleSnapshot(n) \/ WriteAck(n)
        PROVE  run' = run
    BY <2>9 DEF Reconcile, ApplyRecord, BatchApplied, Acknowledge, Start, Compact, session,
                HandleDuplicate, HandleBatch, HandleSnapshot, WriteAck
  <2>10. Mutate => run' = run
    BY DEF Mutate, session
  <2> QED
    BY <2>1, <2>3, <2>4, <2>5, <2>7, <2>8, <2>9, <2>10 DEF RepairNext, HandleStep
<1>4. run'[m].frame \in Frames
  BY TypeStep DEF RepairTypeOK
<1> QED
  BY <1>2, <1>3, <1>4, FrameGrows

LEMMA HandlersStep ==
  ASSUME RepairInv, RepairNext, ~Connect, ~\E n \in Nodes : Wipe(n)
  PROVE  Handlers'
<1> SUFFICES ASSUME NEW m \in Nodes
             PROVE  HandlerFits(handler'[m], Cap(Other(m))', LastVersion(m)')
  BY DEF Handlers
<1>1. /\ handler \in [Nodes -> HandlerStates]
      /\ HandlerFits(handler[m], Cap(Other(m)), LastVersion(m))
  BY DEF RepairInv, RepairTypeOK, Handlers, HandlerStates
<1>2. LastVersion(m) \in Nat /\ LastVersion(m)' \in Nat /\ LastVersion(m)' >= LastVersion(m)
  <2>1. LastsNat'
    BY TypeStep, LastNat, PTL
  <2> QED
    BY <2>1, Basics, JournalsStep DEF LastsNat
<1>3. Cap(Other(m)) \in Nat /\ Cap(Other(m))' \in Nat /\ Cap(Other(m))' >= Cap(Other(m))
  <2>1. Other(m) \in Nodes
    BY OtherIs
  <2> QED
    BY <2>1, CapFacts, CapsGrow
<1> DEFINE Fits == HandlerFits(handler'[m], Cap(Other(m)), LastVersion(m)')
<1>4. Fits
  <2>1. CASE handler'[m] = handler[m]
    <3>1. handler[m].to \in Nat
      BY HandlerFacts
    <3>2. HandlerFits(handler[m], Cap(Other(m)), LastVersion(m)')
      BY <1>1, <1>2, <1>3, <3>1, HandlerGrows
    <3> QED
      BY <2>1, <3>2
  <2>2. CASE handler'[m] = Idle
    BY <1>2, <1>3, <2>2, FreshFits
  <2>3. ASSUME HandleHello(m) PROVE Fits
    <3>1. handler'[m] = [pc |-> "reconcile", to |-> Head(wire[m]).to, records |-> {}]
      BY <1>1, <2>3 DEF HandleHello
    <3>2. Head(wire[m]).to <= Cap(Other(m))
      BY <2>3, HeadFits DEF HandleHello, Receives
    <3> QED
      BY <3>1, <3>2 DEF HandlerFits
  <2>4. ASSUME HandleBatch(m) PROVE Fits
    <3> DEFINE f == Head(wire[m])
    <3>1. handler'[m] = [pc |-> "apply", to |-> f.to, records |-> f.records]
      BY <1>1, <2>4 DEF HandleBatch
    <3>2. f.to <= Cap(Other(m)) /\ FrameFits(f, Cap(Other(m)))
      BY <2>4, HeadFits DEF HandleBatch, Receives
    <3>3. f.type = "batch" /\ f.from = book[m]
      BY <2>4 DEF HandleBatch, Receives
    <3>4. f.records = (book[m] + 1)..f.to
      BY <3>2, <3>3 DEF FrameFits
    <3>5. book[m] + 1 \in 1..(LastVersion(m)' + 1)
      BY <1>2, Basics
    <3> HIDE DEF f
    <3> QED
      BY <3>1, <3>2, <3>4, <3>5 DEF HandlerFits
  <2>5. ASSUME ApplyRecord(m) PROVE Fits
    <3> DEFINE v == Min(handler[m].records)
    <3>1. handler'[m] = [handler[m] EXCEPT !.records = @ \ {v}]
      BY <1>1, <2>5 DEF ApplyRecord
    <3>2. /\ handler[m].records = v..handler[m].to /\ v \in Nat /\ v >= 1 /\ v <= handler[m].to
          /\ Known(m, v) <=> v <= LastVersion(m)
          /\ ~Known(m, v) => v = LastVersion(m) + 1
      BY <2>5, NextRecord
    <3>3. v <= LastVersion(m)'
      <4>1. CASE Known(m, v)
        BY <1>2, <3>2, <4>1
      <4>2. CASE ~Known(m, v)
        <5>1. v \in log'[m]
          BY <2>5, <4>2 DEF ApplyRecord, RepairInv, RepairTypeOK
        <5>2. JournalOK(m)'
          BY JournalsStep DEF Journals
        <5>3. log'[m] = (floor'[m] + 1)..LastVersion(m)' /\ floor'[m] \in Nat
          BY <5>2, TypeStep, VersionsNat DEF JournalOK, RepairTypeOK
        <5> HIDE DEF v
        <5> QED
          BY <1>2, <5>1, <5>3
      <4> QED
        BY <4>1, <4>2
    <3>4. handler[m].to \in Nat /\ handler[m].to <= Cap(Other(m)) /\ handler[m].pc = "apply"
      BY <2>5, HandlerFacts DEF ApplyRecord
    <3> HIDE DEF v
    <3>5. handler[m].records \ {v} = (v + 1)..handler[m].to
      BY <3>2, <3>4
    <3>6. handler'[m].pc = "apply" /\ handler'[m].to = handler[m].to
          /\ handler'[m].records = (v + 1)..handler[m].to
      BY <1>1, <3>1, <3>4, <3>5 DEF HandlerStates
    <3>7. v + 1 \in 1..(LastVersion(m)' + 1)
      BY <1>2, <3>2, <3>3
    <3> QED
      BY <3>4, <3>6, <3>7 DEF HandlerFits
  <2>6. ASSUME BatchApplied(m) PROVE Fits
    <3>1. handler'[m].pc = "acknowledge" /\ handler'[m].to = handler[m].to
      BY <1>1, <2>6 DEF BatchApplied, HandlerStates
    <3> QED
      BY <3>1, HandlerFacts DEF HandlerFits
  <2>7. ASSUME HandleSnapshot(m) PROVE Fits
    <3>1. handler'[m] = [pc |-> "acknowledge", to |-> Head(wire[m]).to, records |-> {}]
      BY <1>1, <2>7 DEF HandleSnapshot
    <3>2. Head(wire[m]).to <= Cap(Other(m))
      BY <2>7, HeadFits DEF HandleSnapshot, Receives
    <3> QED
      BY <3>1, <3>2 DEF HandlerFits
  <2>8. ASSUME Acknowledge(m) PROVE Fits
    <3>1. handler'[m].pc = "reply" /\ handler'[m].to = handler[m].to
      BY <1>1, <2>8 DEF Acknowledge, HandlerStates
    <3>2. handler[m].to <= LastVersion(m) /\ handler[m].to \in Nat
      BY <2>8, HandlerFacts DEF Acknowledge
    <3>3. handler[m].to <= LastVersion(m)'
      BY <1>2, <3>2
    <3> QED
      BY <3>1, <3>3, HandlerFacts DEF HandlerFits
  <2>9. ASSUME NEW n \in Nodes, RunStep(n) \/ HandleStep(n), ~HandleFails(n), n # m
        PROVE  handler'[m] = handler[m]
    BY <2>9, WorkTouches
  <2>10. ASSUME NEW n \in Nodes, Stop(n) \/ Disconnect(n) \/ HandleFails(n)
         PROVE  handler'[m] = handler[m] \/ handler'[m] = Idle
    BY <1>1, <2>10 DEF Stop, Disconnect, HandleFails, Closed
  <2>11. ASSUME NEW n \in Nodes, Start(n) \/ Compact(n) PROVE handler'[m] = handler[m]
    BY <2>11 DEF Start, Compact, session
  <2>12. Mutate => handler'[m] = handler[m]
    BY DEF Mutate, session
  <2>13. RunStep(m) \/ HandleAck(m) \/ HandleDuplicate(m) => handler'[m] = handler[m]
    BY DEF RunStep, SendHello, HelloPassed, Preflight, PreflightFails, PlanSnapshot, PlanFails,
           PlanBatch, SendFrame, CheckWatermark, AckNotified, HandleAck, HandleDuplicate
  <2>14. Reconcile(m) \/ WriteAck(m) => handler'[m] = Idle
    BY <1>1 DEF Reconcile, WriteAck
  <2> HIDE DEF Fits
  <2> QED
    BY <2>1, <2>2, <2>3, <2>4, <2>5, <2>6, <2>7, <2>8, <2>9, <2>10, <2>11, <2>12, <2>13, <2>14
       DEF RepairNext, HandleStep
<1>5. handler'[m].to \in Nat
  BY TypeStep, VersionsNat DEF RepairTypeOK
<1> HIDE DEF Fits
<1>6. HandlerFits(handler'[m], Cap(Other(m)), LastVersion(m)')
  BY <1>4 DEF Fits
<1> QED
  BY <1>2, <1>3, <1>5, <1>6, HandlerGrows

-----------------------------------------------------------------------------
(* Watermarks. *)

LEMMA WatermarksStep ==
  ASSUME RepairInv, RepairNext, ~\E n \in Nodes : Wipe(n)
  PROVE  WatermarkCovered'
<1> SUFFICES ASSUME NEW m \in Nodes, Other(m) \notin lost'
             PROVE  book'[m] <= LastVersion(Other(m))'
  BY DEF WatermarkCovered
<1>1. Other(m) \in Nodes
  BY OtherIs
<1>2. /\ LastVersion(Other(m)) \in Nat /\ LastVersion(Other(m))' \in Nat
      /\ LastVersion(Other(m))' >= LastVersion(Other(m))
  <2>1. LastsNat'
    BY TypeStep, LastNat, PTL
  <2> QED
    BY <1>1, <2>1, Basics, JournalsStep DEF LastsNat
<1>3. book \in [Nodes -> Versions] /\ book[m] \in Nat /\ book'[m] \in Nat
  BY TypeStep, VersionsNat DEF RepairInv, RepairTypeOK
<1>4. Other(m) \notin lost => book[m] <= LastVersion(Other(m))
  BY DEF RepairInv, WatermarkCovered
<1>5. Other(m) \notin lost \/ conn[Other(m)] => Cap(Other(m)) = LastVersion(Other(m))
  BY <1>1, CapFacts
<1>6. book'[m] <= LastVersion(Other(m))
  <2>1. CASE book'[m] = book[m] /\ lost' = lost
    BY <1>4, <2>1
  <2>2. ASSUME Reconcile(m) PROVE book'[m] <= LastVersion(Other(m))
    <3>1. Other(m) \notin lost \/ conn[Other(m)]
      BY <2>2 DEF Reconcile
    <3>2. handler[m].to <= LastVersion(Other(m))
      BY <1>5, <3>1, HandlerFacts
    <3>3. book'[m] = IF LastVersion(m) = 0 THEN book[m] ELSE handler[m].to
      BY <1>3, <2>2 DEF Reconcile
    <3>4. LastVersion(m) = 0 => book[m] = 0
      BY <1>3, Basics
    <3> QED
      BY <1>2, <3>2, <3>3, <3>4
  <2>3. ASSUME Reconcile(Other(m)) PROVE book'[m] <= LastVersion(Other(m))
    <3>1. Other(Other(m)) = m /\ Other(m) # m
      BY OtherIs
    <3>2. book'[m] = book[m]
      BY <1>1, <1>3, <2>3, <3>1 DEF Reconcile
    <3>3. lost' = lost \/ lost' = lost \ {m}
      BY <2>3, <3>1 DEF Reconcile
    <3> QED
      BY <1>4, <3>1, <3>2, <3>3
  <2>4. ASSUME HandleAck(m) PROVE book'[m] <= LastVersion(Other(m))
    <3>1. lost' = lost
      BY <2>4 DEF HandleAck
    <3>2. Head(wire[m]).to <= Cap(Other(m))
      BY <2>4, HeadFits DEF HandleAck, Receives
    <3>3. Head(wire[m]).to <= LastVersion(Other(m))
      BY <1>5, <3>1, <3>2
    <3>4. book'[m] = book[m] \/ book'[m] = Head(wire[m]).to
      BY <1>3, <2>4 DEF HandleAck
    <3> QED
      BY <1>4, <3>1, <3>3, <3>4
  <2>5. ASSUME Acknowledge(m) PROVE book'[m] <= LastVersion(Other(m))
    <3>1. lost' = lost /\ book'[m] = handler[m].to
      BY <1>3, <2>5 DEF Acknowledge
    <3>2. handler[m].to <= LastVersion(Other(m))
      BY <1>5, <3>1, HandlerFacts
    <3> QED
      BY <3>1, <3>2
  <2>6. ASSUME HandleAck(Other(m)) \/ Acknowledge(Other(m))
        PROVE  book'[m] = book[m] /\ lost' = lost
    <3>1. Other(m) # m
      BY OtherIs
    <3> QED
      BY <1>3, <2>6, <3>1 DEF HandleAck, Acknowledge
  <2>7. Still => book' = book /\ lost' = lost
    <3>1. Still => book' = book
      BY StillDurable DEF durable
    <3>2. ASSUME NEW n \in Nodes, Start(n) \/ Stop(n) \/ Disconnect(n) PROVE lost' = lost
      BY <3>2 DEF Start, Stop, Disconnect
    <3>3. ASSUME NEW n \in Nodes, RunStep(n) PROVE lost' = lost
      BY <3>3 DEF RunStep, SendHello, HelloPassed, Preflight, PreflightFails, PlanSnapshot,
                  PlanFails, PlanBatch, SendFrame, CheckWatermark, AckNotified
    <3>4. ASSUME NEW n \in Nodes, \/ HandleHello(n) \/ HandleDuplicate(n) \/ HandleBatch(n)
                                  \/ BatchApplied(n) \/ WriteAck(n) \/ HandleFails(n)
          PROVE  lost' = lost
      BY <3>4 DEF HandleHello, HandleDuplicate, HandleBatch, BatchApplied, WriteAck, HandleFails
    <3>5. Connect => lost' = lost
      BY DEF Connect
    <3> QED
      BY <3>1, <3>2, <3>3, <3>4, <3>5 DEF Still
  <2>8. ASSUME NEW n \in Nodes, Compact(n) \/ Preflight(n) \/ ApplyRecord(n) \/ HandleSnapshot(n)
        PROVE  book' = book /\ lost' = lost
    BY <2>8 DEF Compact, Preflight, ApplyRecord, HandleSnapshot
  <2>9. Mutate => book' = book /\ lost' = lost
    BY DEF Mutate
  <2>10. \/ Still \/ Mutate
         \/ \E n \in Nodes : \/ Compact(n) \/ Preflight(n) \/ Reconcile(n) \/ HandleAck(n)
                             \/ ApplyRecord(n) \/ HandleSnapshot(n) \/ Acknowledge(n)
    BY DEF RepairNext, HandleStep, Still
  <2>11. \A n \in Nodes : n = m \/ n = Other(m)
    BY OtherIs
  <2> QED
    BY <2>1, <2>2, <2>3, <2>4, <2>5, <2>6, <2>7, <2>8, <2>9, <2>10, <2>11
<1> QED
  BY <1>2, <1>3, <1>6

-----------------------------------------------------------------------------
(* The invariant and what follows from it. *)

LEMMA ConnectInv ==
  ASSUME RepairInv, Connect
  PROVE  Wires' /\ Plans' /\ Handlers'
<1>1. \A n \in Nodes : wire[n] = <<>> /\ handler[n] = Idle
  BY DEF Connect, RepairInv, Ends
<1>2. wire' = wire /\ handler' = handler /\ run' = [n \in Nodes |-> NewRun(snapshot[n])]
      /\ floor' = floor /\ log' = log /\ lost' = lost
  BY DEF Connect, durable
<1>3. \A n \in Nodes : LastVersion(n)' = LastVersion(n) /\ LastVersion(n) \in Nat
  BY <1>2, Basics DEF LastVersion
<1>4. \A n \in Nodes : Cap(Other(n))' \in Nat
  <2> TAKE n \in Nodes
  <2>1. Cap(Other(n))' = LastVersion(Other(n))' \/ Cap(Other(n))' = LastVersion(Source)'
    BY DEF Cap
  <2> QED
    BY <1>3, <2>1, OtherIs, SourceNode
<1>5. Wires'
  BY <1>1, <1>2, FramesEmpty DEF Wires
<1>6. Plans'
  BY <1>2, <1>3, FreshFits DEF Plans
<1>7. ASSUME NEW n \in Nodes PROVE HandlerFits(handler'[n], Cap(Other(n))', LastVersion(n)')
  <2>1. handler'[n] = Idle /\ Cap(Other(n))' \in Nat /\ LastVersion(n)' \in Nat
    BY <1>1, <1>2, <1>3, <1>4
  <2> QED
    BY <2>1, FreshFits
<1> QED
  BY <1>5, <1>6, <1>7 DEF Handlers

(* The journal of a node that is down is lost: nothing that the other node *)
(* received from it can count as what it has.                              *)
LEMMA WipeInv ==
  ASSUME RepairInv, NEW n \in Nodes, Wipe(n)
  PROVE  Journals' /\ Wires' /\ Plans' /\ Handlers' /\ WatermarkCovered'
<1>1. /\ n # Source /\ ~up[n]
      /\ floor' = [floor EXCEPT ![n] = 0] /\ log' = [log EXCEPT ![n] = {}]
      /\ book' = [book EXCEPT ![n] = 0] /\ lost' = lost \cup {n} /\ blobs' = blobs
      /\ conn' = conn /\ wire' = wire /\ run' = run /\ handler' = handler
  BY DEF Wipe, session
<1>2. DurableTyped
  BY TypeParts DEF RepairInv
<1>3. wire[n] = <<>> /\ run[n] = NoRun /\ handler[n] = Idle /\ ~conn[n]
  BY <1>1 DEF RepairInv, Ends
<1>4. floor'[n] = 0 /\ log'[n] = {} /\ book'[n] = 0
  BY <1>1, <1>2 DEF DurableTyped
<1>5. LastVersion(n)' = 0
  <2>1. Max(((0 + 1)..0) \cup {0}) = 0
    BY MaxJournal
  <2>2. (0 + 1)..0 = {}
    OBVIOUS
  <2> QED
    BY <1>4, <2>1, <2>2 DEF LastVersion
<1>6. ASSUME NEW m \in Nodes, m # n
      PROVE  floor'[m] = floor[m] /\ log'[m] = log[m] /\ book'[m] = book[m]
             /\ LastVersion(m)' = LastVersion(m)
  <2>1. floor'[m] = floor[m] /\ log'[m] = log[m] /\ book'[m] = book[m]
    BY <1>1, <1>2, <1>6 DEF DurableTyped
  <2> QED
    BY <2>1 DEF LastVersion
<1>7. LastVersion(Source)' = LastVersion(Source) /\ LastVersion(Source) \in Nat
  BY <1>1, <1>6, SourceNode, Basics
<1>8. Journals'
  <2> SUFFICES ASSUME NEW m \in Nodes PROVE JournalOK(m)'
    BY DEF Journals
  <2>1. CASE m = n
    <3>1. log'[m] = (floor'[m] + 1)..LastVersion(m)' /\ 1..LastVersion(m)' \subseteq blobs'[m]
      <4>1. (0 + 1)..0 = {} /\ 1..0 = {}
        OBVIOUS
      <4> QED
        BY <1>4, <1>5, <2>1, <4>1
    <3>2. book'[m] <= LastVersion(m)' /\ LastVersion(m)' <= LastVersion(Source)'
      BY <1>4, <1>5, <1>7, <2>1
    <3> QED
      BY <3>1, <3>2 DEF JournalOK
  <2>2. CASE m # n
    <3>1. JournalOK(m)
      BY DEF RepairInv, Journals
    <3> QED
      BY <1>1, <1>6, <1>7, <2>2, <3>1 DEF JournalOK
  <2> QED
    BY <2>1, <2>2
<1>9. ASSUME NEW m \in Nodes PROVE Cap(m)' \in Nat /\ Cap(m)' >= Cap(m)
  <2>1. Cap(m) \in Nat /\ Cap(m) <= LastVersion(Source)
    BY CapFacts
  <2>2. CASE m = n
    <3>1. ~Trusted(m)'
      BY <1>1, <1>3, <2>2 DEF Trusted
    <3>2. Cap(m)' = LastVersion(Source)'
      BY <3>1 DEF Cap
    <3> QED
      BY <1>7, <2>1, <3>2
  <2>3. CASE m # n
    <3>1. Trusted(m)' <=> Trusted(m)
      BY <1>1, <2>3 DEF Trusted
    <3>2. Cap(m)' = Cap(m)
      BY <1>6, <1>7, <2>3, <3>1 DEF Cap
    <3> QED
      BY <2>1, <3>2
  <2> QED
    BY <2>2, <2>3
<1>10. Wires'
  <2> SUFFICES ASSUME NEW m \in Nodes PROVE FramesFit(wire'[m], Cap(Other(m))')
    BY DEF Wires
  <2>1. wire'[m] = wire[m] /\ wire[m] \in Seq(Frames) /\ FramesFit(wire[m], Cap(Other(m)))
    BY <1>1 DEF RepairInv, RepairTypeOK, Wires
  <2>2. Cap(Other(m)) \in Nat /\ Cap(Other(m))' \in Nat /\ Cap(Other(m))' >= Cap(Other(m))
    BY <1>9, CapFacts, OtherIs
  <2>3. FramesFit(wire[m], Cap(Other(m))')
    BY <2>1, <2>2, FramesGrow
  <2> QED
    BY <2>1, <2>3
<1>11. Plans'
  <2> SUFFICES ASSUME NEW m \in Nodes PROVE FrameFits(run'[m].frame, LastVersion(m)')
    BY DEF Plans
  <2>1. CASE m = n
    <3>1. FrameFits(NoRun.frame, 0)
      BY FreshFits
    <3> QED
      BY <1>1, <1>3, <1>5, <2>1, <3>1
  <2>2. CASE m # n
    <3>1. FrameFits(run[m].frame, LastVersion(m))
      BY DEF RepairInv, Plans
    <3> QED
      BY <1>1, <1>6, <2>2, <3>1
  <2> QED
    BY <2>1, <2>2
<1>12. Handlers'
  <2> SUFFICES ASSUME NEW m \in Nodes
               PROVE  HandlerFits(handler'[m], Cap(Other(m))', LastVersion(m)')
    BY DEF Handlers
  <2>1. Cap(Other(m)) \in Nat /\ Cap(Other(m))' \in Nat /\ Cap(Other(m))' >= Cap(Other(m))
    BY <1>9, CapFacts, OtherIs
  <2>2. CASE m = n
    <3>1. HandlerFits(Idle, Cap(Other(m))', 0)
      BY <2>1, FreshFits
    <3> QED
      BY <1>1, <1>3, <1>5, <2>2, <3>1
  <2>3. CASE m # n
    <3>1. HandlerFits(handler[m], Cap(Other(m)), LastVersion(m)) /\ LastVersion(m) \in Nat
          /\ handler[m].to \in Nat
      BY Basics, HandlerFacts DEF RepairInv, Handlers
    <3>2. HandlerFits(handler[m], Cap(Other(m))', LastVersion(m))
      BY <2>1, <3>1, HandlerGrows
    <3> QED
      BY <1>1, <1>6, <2>3, <3>2
  <2> QED
    BY <2>2, <2>3
<1>13. WatermarkCovered'
  <2> SUFFICES ASSUME NEW m \in Nodes, Other(m) \notin lost'
               PROVE  book'[m] <= LastVersion(Other(m))'
    BY DEF WatermarkCovered
  <2>1. Other(m) # n /\ Other(m) \notin lost
    BY <1>1
  <2>2. m = n /\ Other(m) \in Nodes
    BY <2>1, OtherIs
  <2>3. book'[m] = 0 /\ LastVersion(Other(m))' \in Nat
    BY <1>4, <1>6, <2>1, <2>2, Basics
  <2> QED
    BY <2>3
<1> QED
  BY <1>8, <1>10, <1>11, <1>12, <1>13

LEMMA InvInit == RepairInit => RepairInv
<1> SUFFICES ASSUME RepairInit PROVE RepairInv
  OBVIOUS
<1>1. MaxVersion \in Nat /\ MaxStops \in Nat /\ MaxWipes \in Nat /\ MaxFails \in Nat
      /\ 0 \in Versions
  BY RepairAssumption, VersionsNat
<1>2. NoRun \in Runs
  BY <1>1, FrameMembers DEF NoRun, Runs
<1>3. Idle \in HandlerStates
  BY <1>1 DEF Idle, HandlerStates
<1>4. DurableTyped
  BY <1>1 DEF RepairInit, DurableTyped
<1>5. ProcessTyped
  <2>1. up \in [Nodes -> BOOLEAN] /\ snapshot \in [Nodes -> Versions] /\ lost \subseteq Nodes
    BY <1>1 DEF RepairInit
  <2>2. mutated \in BOOLEAN
    BY DEF RepairInit
  <2>3. stops \in 0..MaxStops /\ wipes \in 0..MaxWipes /\ fails \in 0..MaxFails
    BY <1>1 DEF RepairInit
  <2> QED
    BY <2>1, <2>2, <2>3 DEF ProcessTyped
<1>6. SessionTyped
  BY <1>2, <1>3 DEF RepairInit, SessionTyped
<1>7. \A n \in Nodes : LastVersion(n) = 0
  <2>1. Max(((0 + 1)..0) \cup {0}) = 0
    BY MaxJournal
  <2>2. (0 + 1)..0 = {}
    OBVIOUS
  <2> QED
    BY <2>1, <2>2 DEF LastVersion, RepairInit
<1>8. \A n \in Nodes : Other(n) \in Nodes
  BY OtherIs
<1>9. \A n \in Nodes : Cap(Other(n)) = 0
  BY <1>7, <1>8, SourceNode DEF Cap
<1>10. Journals
  BY <1>7, SourceNode DEF Journals, JournalOK, RepairInit
<1>11. Ends
  BY DEF Ends, RepairInit
<1>12. Wires
  BY FramesEmpty DEF Wires, RepairInit
<1>13. Plans
  BY <1>7, FreshFits DEF Plans, RepairInit
<1>14. Handlers
  BY <1>7, <1>9, FreshFits DEF Handlers, RepairInit
<1>15. WatermarkCovered
  BY <1>7, <1>8 DEF WatermarkCovered, RepairInit
<1>16. Source \notin lost
  BY DEF RepairInit
<1> QED
  BY <1>4, <1>5, <1>6, <1>10, <1>11, <1>12, <1>13, <1>14, <1>15, <1>16, TypeParts DEF RepairInv

LEMMA SourceKept ==
  ASSUME RepairInv, RepairNext
  PROVE  Source \notin lost'
<1>1. Source \notin lost
  BY DEF RepairInv
<1>2. ASSUME NEW n \in Nodes, Wipe(n) PROVE Source \notin lost'
  BY <1>1, <1>2 DEF Wipe
<1>3. ASSUME NEW n \in Nodes, Start(n) \/ Stop(n) \/ Disconnect(n) \/ Compact(n)
      PROVE  lost' = lost
  BY <1>3 DEF Start, Stop, Disconnect, Compact
<1>4. ASSUME NEW n \in Nodes, RunStep(n) PROVE lost' = lost
  BY <1>4 DEF RunStep, SendHello, HelloPassed, Preflight, PreflightFails, PlanSnapshot,
              PlanFails, PlanBatch, SendFrame, CheckWatermark, AckNotified
<1>5. ASSUME NEW n \in Nodes, HandleStep(n) PROVE lost' \subseteq lost
  BY <1>5 DEF HandleStep, HandleHello, Reconcile, HandleAck, HandleDuplicate, HandleBatch,
              ApplyRecord, BatchApplied, HandleSnapshot, Acknowledge, WriteAck, HandleFails
<1>6. Connect \/ Mutate => lost' = lost
  BY DEF Connect, Mutate
<1> QED
  BY <1>1, <1>2, <1>3, <1>4, <1>5, <1>6 DEF RepairNext

LEMMA InvStep == RepairInv /\ [RepairNext]_vars => RepairInv'
<1> SUFFICES ASSUME RepairInv, [RepairNext]_vars PROVE RepairInv'
  OBVIOUS
<1>1. CASE RepairNext
  <2>1. RepairTypeOK' /\ Source \notin lost' /\ Ends'
    BY <1>1, TypeStep, SourceKept, EndsStep
  <2>2. CASE \E n \in Nodes : Wipe(n)
    <3>1. Journals' /\ Wires' /\ Plans' /\ Handlers' /\ WatermarkCovered'
      BY <2>2, WipeInv
    <3> QED
      BY <2>1, <3>1 DEF RepairInv
  <2>3. CASE ~\E n \in Nodes : Wipe(n)
    <3>1. Journals' /\ WatermarkCovered'
      BY <1>1, <2>3, JournalsStep, WatermarksStep
    <3>2. Wires' /\ Plans' /\ Handlers'
      BY <1>1, <2>3, ConnectInv, WiresStep, PlansStep, HandlersStep
    <3> QED
      BY <2>1, <3>1, <3>2 DEF RepairInv
  <2> QED
    BY <2>2, <2>3
<1>2. CASE UNCHANGED vars
  BY <1>2 DEF vars, durable, process, session, counts, RepairInv, RepairTypeOK, Journals,
       JournalOK, LastVersion, Ends, Wires, FramesFit, FrameFits, Cap, Trusted, Plans, Handlers,
       HandlerFits, WatermarkCovered
<1> QED
  BY <1>1, <1>2

(* The inductive invariant: journals without gaps behind the authority,    *)
(* sessions that end with their connection, and frames, plans and handlers *)
(* that name nothing that their sender does not have, unless it lost it    *)
(* since.                                                                  *)
THEOREM RepairInvariant == RepairSpec => []RepairInv
BY InvInit, InvStep, PTL DEF RepairSpec

LEMMA InvGaps == RepairInv => NoGaps
BY DEF RepairInv, Journals, JournalOK, NoGaps

LEMMA InvBlobs == RepairInv => BlobsPresent
BY DEF RepairInv, Journals, JournalOK, BlobsPresent

LEMMA InvCovered == RepairInv => WatermarkCovered
BY DEF RepairInv

(* Repair "refuses gaps": whatever frames cross, are lost with their       *)
(* connection or arrive when the receiver has already moved on, a journal  *)
(* stays the authority's history from its floor to its tail.               *)
THEOREM JournalsHaveNoGaps == RepairSpec => []NoGaps
BY RepairInvariant, InvGaps, PTL

(* The watermark that a node keeps for the other one never claims more     *)
(* than that node has, except for a node that lost its directory and has   *)
(* not said hello since.                                                   *)
THEOREM WatermarkIsCovered == RepairSpec => []WatermarkCovered
BY RepairInvariant, InvCovered, PTL

(* A record is in a node's journal only if its blob is in the node's store:*)
(* the preflight sends the blobs first, and applying a record checks.      *)
THEOREM BlobsArePresent == RepairSpec => []BlobsPresent
BY RepairInvariant, InvBlobs, PTL

(* The floor rises in a compaction, fenced by the watermark, and with a    *)
(* snapshot, whose watermark its sender has.                               *)
LEMMA FenceStep ==
  RepairInv /\ [RepairNext]_vars =>
    [\A n \in Nodes : floor'[n] > floor[n] =>
       Other(n) \in lost \/ floor'[n] <= LastVersion(Other(n))]_vars
<1> SUFFICES ASSUME RepairInv, RepairNext, NEW n \in Nodes, floor'[n] > floor[n],
                    Other(n) \notin lost
             PROVE  floor'[n] <= LastVersion(Other(n))
  OBVIOUS
<1>1. floor \in [Nodes -> Versions] /\ floor[n] \in Nat
  BY Basics DEF RepairInv, RepairTypeOK
<1>2. LastVersion(Other(n)) \in Nat /\ Other(n) \in Nodes /\ Other(n) # n
  BY Basics, OtherIs
<1>3. floor' # floor
  BY <1>1
<1>4. ASSUME Compact(n) PROVE floor'[n] <= LastVersion(Other(n))
  <2>1. floor'[n] = LastVersion(n) /\ book[n] >= LastVersion(n)
    BY <1>1, <1>4 DEF Compact
  <2>2. book[n] <= LastVersion(Other(n)) /\ book[n] \in Nat /\ LastVersion(n) \in Nat
    BY Basics DEF RepairInv, WatermarkCovered
  <2> QED
    BY <1>2, <2>1, <2>2
<1>5. ASSUME HandleSnapshot(n) PROVE floor'[n] <= LastVersion(Other(n))
  <2>1. floor'[n] = Head(wire[n]).to
    BY <1>1, <1>5 DEF HandleSnapshot
  <2>2. Head(wire[n]).to <= Cap(Other(n))
    BY <1>5, HeadFits DEF HandleSnapshot, Receives
  <2>3. Cap(Other(n)) = LastVersion(Other(n))
    BY <1>2, CapFacts
  <2> QED
    BY <2>1, <2>2, <2>3
<1>6. ASSUME NEW m \in Nodes, Wipe(m) PROVE floor'[n] <= floor[n]
  BY <1>1, <1>6 DEF Wipe
<1>7. ASSUME NEW m \in Nodes, m # n, Compact(m) \/ HandleSnapshot(m) PROVE floor'[n] = floor[n]
  BY <1>1, <1>7 DEF Compact, HandleSnapshot
<1>8. ASSUME NEW m \in Nodes, Preflight(m) \/ Reconcile(m) \/ HandleAck(m) \/ ApplyRecord(m)
                              \/ Acknowledge(m)
      PROVE  floor' = floor
  BY <1>8 DEF Preflight, Reconcile, HandleAck, ApplyRecord, Acknowledge
<1>9. Still \/ Mutate => floor' = floor
  BY StillDurable DEF durable, Mutate
<1>10. \/ Still \/ Mutate
       \/ \E m \in Nodes : \/ Compact(m) \/ Preflight(m) \/ Reconcile(m) \/ HandleAck(m)
                           \/ ApplyRecord(m) \/ HandleSnapshot(m) \/ Acknowledge(m) \/ Wipe(m)
  BY DEF RepairNext, HandleStep, Still
<1>11. ~(floor'[n] <= floor[n]) /\ floor'[n] # floor[n]
  <2>1. floor'[n] \in Nat
    BY TypeStep, VersionsNat DEF RepairTypeOK
  <2> QED
    BY <1>1, <2>1
<1>12. PICK m \in Nodes : Compact(m) \/ HandleSnapshot(m)
  BY <1>3, <1>6, <1>8, <1>9, <1>10, <1>11
<1>13. m = n
  BY <1>7, <1>11, <1>12
<1> QED
  BY <1>4, <1>5, <1>12, <1>13

(* A journal's floor rises only to what the other node has at that moment. *)
THEOREM FloorIsFenced == RepairSpec => CompactionFenced
BY RepairInvariant, FenceStep, PTL DEF RepairSpec, CompactionFenced
=============================================================================
