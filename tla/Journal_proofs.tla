--------------------------- MODULE Journal_proofs ---------------------------
(***************************************************************************)
(* Proofs about Journal for any number of versions, journal entries, file  *)
(* errors and crashes.                                                     *)
(***************************************************************************)
EXTENDS Journal, SequenceTheorems, WellFoundedInduction, TLAPS

InLog(log, v) == \E i \in 1..Len(log) : log[i] = v

(* The journal of floor b and entries s has v. *)
Has(b, s, v) == v <= b \/ InLog(s, v)

(* A file that OpenJournal reads to the end but for one torn envelope: the *)
(* first n entries are whole and in order.                                 *)
Sound(c, n) ==
  /\ c.head = "whole" /\ n \in 0..Len(c.log) /\ n <= MaxEntries
  /\ Ascending(c.floor, SubSeq(c.log, 1, n))
  /\ n = Len(c.log) \/ (n + 1 = Len(c.log) /\ c.log[n + 1] = 0)

Good(c) == \E n \in 0..Len(c.log) : Sound(c, n)

(* A file without its header is an empty one. *)
FileOK(c) ==
  /\ c.head = "whole" => Good(c)
  /\ c.head # "whole" => c.floor = 0 /\ c.log = <<>>

Keeps(c, v) == c.head = "whole" /\ Holds(Cut(c, WholeEntries(c.log)), v)

(* What a crash may leave: sound files, that have every acknowledged       *)
(* version, and whose floors are covered by every checkpoint.              *)
CrashOK ==
  \A c \in AfterCrash(jfile) :
    /\ FileOK(c)
    /\ c.floor <= jfile.vis.floor
    /\ \A w \in CheckpointAfterCrash(cfile) : c.floor <= w
    /\ \A v \in acked : Keeps(c, v)

(* What the open journal has in memory is in the file, which may have one  *)
(* more entry, torn or whole, of an append that failed.                    *)
MemOK ==
  /\ jfile.vis.head = "whole" /\ jfile.vis.floor = mem.floor
  /\ Ascending(mem.floor, mem.records)
  /\ jfile.vis.log = mem.records \/ \E x \in Versions : jfile.vis.log = Append(mem.records, x)
  /\ \A v \in acked : Has(mem.floor, mem.records, v)

(* The journal that a compaction or an installed snapshot leaves. *)
ReqOK ==
  /\ Ascending(req.version, req.tail)
  /\ \A v \in acked : Has(req.version, req.tail, v)

Rewriting == {"cprenamed", "checkpointed", "jrenamed"}

(* What each step of an operation relies on. *)
StepOK ==
  /\ ~linked => jpc \in {"jrenamed", "open"}
  /\ jpc = "header" => jfile.vis = Whole(0, <<>>) /\ acked = {}
  /\ jpc \notin {"down", "header"} /\ linked => MemOK
  /\ jpc = "written" =>
       /\ jfile.vis.log = Append(mem.records, req.version) /\ req.version > LastVersion(mem)
       /\ req.op = "put" => jfile.older = {}
  /\ jpc = "applied" =>
       /\ jfile.vis.log = mem.records /\ jfile.synced = Len(jfile.vis.log)
       /\ Has(mem.floor, mem.records, req.version)
  /\ jpc \in Rewriting => ReqOK
  /\ jpc \in {"cprenamed", "checkpointed"} => mem.floor <= req.version /\ cfile.vis = req.version
  /\ jpc = "checkpointed" => cfile.older = {}
  /\ jpc = "jrenamed" =>
       jfile.vis = Whole(req.version, req.tail) /\ jfile.synced = Len(jfile.vis.log)

(* These hold also when the file and the memory have parted. *)
SizesOK ==
  /\ JournalTypeOK
  /\ jfile.synced <= Len(jfile.vis.log)
  /\ jpc = "header" => jfile.synced = 0
  /\ jpc = "written" => Len(mem.records) < MaxEntries
  /\ jpc \in Rewriting => Len(req.tail) <= MaxEntries

JournalInv ==
  /\ SizesOK
  /\ ~astray => CrashOK /\ StepOK

-----------------------------------------------------------------------------
(* Sequences. *)

LEMMA LeastNat ==
  ASSUME NEW T \in SUBSET Nat, T # {}
  PROVE  \E x \in T : \A y \in T : x <= y
<1>1. PICK x \in T : \A y \in T : ~(<<y, x>> \in OpToRel(<, Nat))
  BY WFMin, NatLessThanWellFounded
<1>2. \A y \in T : ~(y < x)
  BY <1>1 DEF OpToRel
<1> QED
  BY <1>2

LEMMA PrefixFacts ==
  ASSUME NEW S, NEW s \in Seq(S), NEW k \in 0..Len(s)
  PROVE  /\ SubSeq(s, 1, k) \in Seq(S) /\ Len(SubSeq(s, 1, k)) = k
         /\ \A i \in 1..k : SubSeq(s, 1, k)[i] = s[i]
<1>1. Len(s) \in Nat /\ k \in Nat /\ k <= Len(s)
  BY LenProperties
<1>2. \A i \in 1..k : s[i] \in S
  BY <1>1, ElementOfSeq
<1> QED
  BY <1>1, <1>2, SubSeqProperties

LEMMA WholePrefix ==
  ASSUME NEW S, NEW s \in Seq(S)
  PROVE  SubSeq(s, 1, Len(s)) = s
<1>1. Len(s) \in 0..Len(s)
  BY LenProperties
<1> QED
  BY <1>1, PrefixFacts, SeqEqual

LEMMA PrefixOfAppend ==
  ASSUME NEW S, NEW s \in Seq(S), NEW e \in S, NEW k \in 0..Len(s)
  PROVE  SubSeq(Append(s, e), 1, k) = SubSeq(s, 1, k)
<1>1. Len(s) \in Nat /\ k \in Nat /\ k <= Len(s)
  BY LenProperties
<1>2. Append(s, e) \in Seq(S) /\ Len(Append(s, e)) = Len(s) + 1
      /\ \A i \in 1..Len(s) : Append(s, e)[i] = s[i]
  BY AppendProperties
<1>3. k \in 0..Len(Append(s, e))
  BY <1>1, <1>2
<1>4. \A i \in 1..k : i \in 1..Len(s)
  BY <1>1
<1>5. /\ SubSeq(Append(s, e), 1, k) \in Seq(S) /\ Len(SubSeq(Append(s, e), 1, k)) = k
      /\ \A i \in 1..k : SubSeq(Append(s, e), 1, k)[i] = Append(s, e)[i]
  BY <1>2, <1>3, PrefixFacts
<1>6. /\ SubSeq(s, 1, k) \in Seq(S) /\ Len(SubSeq(s, 1, k)) = k
      /\ \A i \in 1..k : SubSeq(s, 1, k)[i] = s[i]
  BY PrefixFacts
<1> QED
  BY <1>2, <1>4, <1>5, <1>6, SeqEqual

(* Entries in order: each one is newer than the floor and all before it. *)
LEMMA AscendingOrder ==
  ASSUME NEW b \in Nat, NEW s \in Seq(Nat), Ascending(b, s)
  PROVE  \A j \in 1..Len(s) : s[j] > b /\ \A i \in 1..Len(s) : i < j => s[i] < s[j]
<1>0. Len(s) \in Nat /\ \A i \in 1..Len(s) : s[i] \in Nat
  BY LenProperties, ElementOfSeq
<1>1. \A i \in 1..Len(s) : (i = 1 => s[i] > b) /\ (i # 1 => s[i] > s[i - 1])
  BY DEF Ascending
<1>2. ASSUME NEW j \in 1..Len(s), ~(s[j] > b)
      PROVE  FALSE
  <2> DEFINE T == {i \in 1..Len(s) : ~(s[i] > b)}
  <2>1. T \in SUBSET Nat /\ T # {}
    BY <1>2
  <2>2. PICK m \in T : \A y \in T : m <= y
    BY <2>1, LeastNat
  <2>3. m \in 1..Len(s) /\ ~(s[m] > b) /\ m # 1
    BY <1>1, <2>2
  <2>4. m - 1 \in 1..Len(s) /\ ~(m <= m - 1)
    BY <1>0, <2>3
  <2>5. s[m - 1] > b
    BY <2>2, <2>4
  <2>6. s[m] > s[m - 1] /\ s[m] \in Nat /\ s[m - 1] \in Nat
    BY <1>0, <1>1, <2>3, <2>4
  <2> QED
    BY <2>3, <2>5, <2>6
<1>3. ASSUME NEW i \in 1..Len(s), NEW j \in 1..Len(s), i < j, ~(s[i] < s[j])
      PROVE  FALSE
  <2> DEFINE T == {k \in 1..Len(s) : i < k /\ ~(s[i] < s[k])}
  <2>1. T \in SUBSET Nat /\ T # {}
    BY <1>3
  <2>2. PICK m \in T : \A y \in T : m <= y
    BY <2>1, LeastNat
  <2>3. m \in 1..Len(s) /\ ~(s[i] < s[m]) /\ i < m /\ m # 1
    BY <2>2
  <2>4. m - 1 \in 1..Len(s) /\ ~(m <= m - 1) /\ (m - 1 = i \/ i < m - 1)
    BY <1>0, <2>3
  <2>5. m - 1 = i \/ s[i] < s[m - 1]
    BY <2>2, <2>4
  <2>6. s[m] > s[m - 1] /\ s[m] \in Nat /\ s[m - 1] \in Nat /\ s[i] \in Nat
    BY <1>0, <1>1, <2>3, <2>4
  <2> QED
    BY <2>3, <2>5, <2>6
<1> QED
  BY <1>2, <1>3

-----------------------------------------------------------------------------
(* WholeEntries. *)

LEMMA WholeIs ==
  ASSUME NEW s \in Seq(Nat), NEW n \in 0..Len(s),
         \A i \in 1..n : s[i] # 0, n = Len(s) \/ s[n + 1] = 0
  PROVE  WholeEntries(s) = n
<1>0. Len(s) \in Nat
  BY LenProperties
<1> DEFINE P(m) == /\ \A i \in 1..m : s[i] # 0
                   /\ m = Len(s) \/ s[m + 1] = 0
<1>1. WholeEntries(s) = CHOOSE m \in 0..Len(s) : P(m)
  BY DEF WholeEntries
<1>2. P(n)
  OBVIOUS
<1>3. ASSUME NEW m \in 0..Len(s), P(m)
      PROVE  m = n
  <2>1. CASE m < n
    <3>1. m + 1 \in 1..n /\ m # Len(s)
      BY <1>0, <2>1
    <3> QED
      BY <1>2, <1>3, <3>1
  <2>2. CASE n < m
    <3>1. n + 1 \in 1..m /\ n # Len(s)
      BY <1>0, <2>2
    <3> QED
      BY <1>2, <1>3, <3>1
  <2> QED
    BY <1>0, <2>1, <2>2
<1> HIDE DEF P
<1> QED
  BY <1>1, <1>2, <1>3

LEMMA WholeExists ==
  ASSUME NEW s \in Seq(Nat)
  PROVE  WholeEntries(s) \in 0..Len(s)
<1>0. Len(s) \in Nat
  BY LenProperties
<1> DEFINE T == {i \in 1..Len(s) : s[i] = 0}
<1>1. CASE T = {}
  <2>1. Len(s) \in 0..Len(s) /\ \A i \in 1..Len(s) : s[i] # 0
    BY <1>0, <1>1
  <2> QED
    BY <2>1, WholeIs
<1>2. CASE T # {}
  <2>1. T \in SUBSET Nat
    OBVIOUS
  <2>2. PICK m \in T : \A y \in T : m <= y
    BY <1>2, <2>1, LeastNat
  <2>3. m \in 1..Len(s) /\ s[m] = 0
    BY <2>2
  <2>4. m - 1 \in 0..Len(s) /\ (m - 1) + 1 = m /\ \A i \in 1..m - 1 : i \in 1..Len(s) /\ ~(m <= i)
    BY <1>0, <2>3
  <2>5. \A i \in 1..m - 1 : s[i] # 0
    BY <2>2, <2>4
  <2> QED
    BY <2>3, <2>4, <2>5, WholeIs
<1> QED
  BY <1>1, <1>2

-----------------------------------------------------------------------------
(* Files. *)

Files == [vis : Content, synced : Nat, older : SUBSET Content]

LEMMA VersionsNat == Versions \subseteq Nat /\ 0 \in Versions /\ MaxEntries \in Nat
BY JournalAssumption DEF Versions

LEMMA LogTypes ==
  ASSUME NEW s \in Seq(Versions)
  PROVE  s \in Seq(Nat) /\ Len(s) \in Nat /\ \A i \in 1..Len(s) : s[i] \in Versions /\ s[i] \in Nat
<1>1. s \in Seq(Nat)
  BY VersionsNat, SeqMonotonic
<1> QED
  BY <1>1, LenProperties, ElementOfSeq

LEMMA ContentTypes ==
  ASSUME NEW c \in Content
  PROVE  /\ c.log \in Seq(Versions) /\ c.floor \in Nat /\ c.floor \in Versions
         /\ c.log \in Seq(Nat) /\ Len(c.log) \in Nat
         /\ \A i \in 1..Len(c.log) : c.log[i] \in Versions /\ c.log[i] \in Nat
<1>1. c.log \in Seq(Versions) /\ c.floor \in Nat /\ c.floor \in Versions
  BY VersionsNat DEF Content
<1> QED
  BY <1>1, LogTypes

LEMMA ContentFacts ==
  ASSUME NEW c \in Content, NEW s \in Seq(Versions)
  PROVE  /\ [c EXCEPT !.log = s] \in Content /\ [c EXCEPT !.log = s].log = s
         /\ [c EXCEPT !.log = s].head = c.head /\ [c EXCEPT !.log = s].floor = c.floor
         /\ s = c.log => [c EXCEPT !.log = s] = c
BY VersionsNat DEF Content

(* A file with no torn envelope. *)
Clean(c) == /\ c \in Content /\ c.head = "whole" /\ Len(c.log) <= MaxEntries
            /\ Ascending(c.floor, c.log)

LEMMA CleanFacts ==
  ASSUME NEW c, Clean(c)
  PROVE  /\ WholeEntries(c.log) = Len(c.log) /\ Sound(c, Len(c.log)) /\ Good(c) /\ FileOK(c)
         /\ Cut(c, Len(c.log)) = c /\ \A v : Keeps(c, v) <=> Has(c.floor, c.log, v)
<1>1. /\ c \in Content /\ c.log \in Seq(Versions) /\ c.log \in Seq(Nat) /\ Len(c.log) \in Nat
      /\ c.floor \in Nat /\ Len(c.log) \in 0..Len(c.log)
  BY ContentTypes DEF Clean
<1>2. \A i \in 1..Len(c.log) : c.log[i] # 0
  <2> TAKE i \in 1..Len(c.log)
  <2>1. c.log[i] > c.floor /\ c.log[i] \in Nat
    BY <1>1, AscendingOrder, LogTypes DEF Clean
  <2> QED
    BY <1>1, <2>1
<1>3. WholeEntries(c.log) = Len(c.log)
  BY <1>1, <1>2, WholeIs
<1>4. SubSeq(c.log, 1, Len(c.log)) = c.log
  BY <1>1, WholePrefix
<1>5. Cut(c, Len(c.log)) = c
  BY <1>1, <1>4, ContentFacts DEF Cut
<1>6. Sound(c, Len(c.log))
  BY <1>1, <1>4 DEF Clean, Sound
<1>7. \A v : Keeps(c, v) <=> Has(c.floor, c.log, v)
  BY <1>3, <1>5 DEF Clean, Keeps, Holds, Has, InLog
<1> QED
  BY <1>1, <1>3, <1>5, <1>6, <1>7 DEF Good, FileOK, Clean

(* The same with the beginning of another envelope. *)
LEMMA TornFacts ==
  ASSUME NEW c, Clean(c), NEW d, d = [c EXCEPT !.log = Append(c.log, 0)]
  PROVE  /\ d \in Content /\ d.head = "whole" /\ d.floor = c.floor
         /\ WholeEntries(d.log) = Len(c.log) /\ Good(d) /\ FileOK(d)
         /\ Cut(d, Len(c.log)) = c /\ \A v : Keeps(d, v) <=> Has(c.floor, c.log, v)
<1> DEFINE n == Len(c.log)
<1>1. /\ c \in Content /\ c.log \in Seq(Versions) /\ c.log \in Seq(Nat) /\ n \in Nat
      /\ c.floor \in Nat /\ n <= MaxEntries /\ c.head = "whole"
  BY ContentTypes DEF Clean
<1>2. /\ Append(c.log, 0) \in Seq(Versions) /\ Len(Append(c.log, 0)) = n + 1
      /\ Append(c.log, 0)[n + 1] = 0 /\ \A i \in 1..n : Append(c.log, 0)[i] = c.log[i]
  BY <1>1, VersionsNat, AppendProperties
<1>3. d \in Content /\ d.log = Append(c.log, 0) /\ d.head = "whole" /\ d.floor = c.floor
  BY <1>1, <1>2, ContentFacts
<1>4. \A i \in 1..n : d.log[i] # 0
  <2> TAKE i \in 1..n
  <2>1. c.log[i] > c.floor /\ c.log[i] \in Nat
    BY <1>1, AscendingOrder, LogTypes DEF Clean
  <2>2. d.log[i] = c.log[i]
    BY <1>2, <1>3
  <2> QED
    BY <1>1, <2>1, <2>2
<1>5. d.log \in Seq(Nat) /\ n \in 0..Len(d.log) /\ n + 1 = Len(d.log) /\ d.log[n + 1] = 0
  <2>1. d.log \in Seq(Nat)
    BY <1>2, <1>3, LogTypes
  <2>2. Len(d.log) = n + 1
    BY <1>2, <1>3
  <2> QED
    BY <1>1, <1>2, <1>3, <2>1, <2>2
<1>6. WholeEntries(d.log) = n
  BY <1>4, <1>5, WholeIs
<1>7. SubSeq(d.log, 1, n) = c.log
  <2>1. n \in 0..Len(c.log)
    BY <1>1
  <2>2. SubSeq(Append(c.log, 0), 1, n) = SubSeq(c.log, 1, n)
    BY <1>1, <2>1, VersionsNat, PrefixOfAppend
  <2> QED
    BY <1>1, <1>3, <2>2, WholePrefix
<1>8. Cut(d, n) = c
  <2>1. Cut(d, n) = [d EXCEPT !.log = c.log]
    BY <1>7 DEF Cut
  <2> QED
    BY <1>1, <1>3, <2>1 DEF Content
<1>9. Sound(d, n)
  BY <1>1, <1>3, <1>5, <1>7 DEF Clean, Sound
<1>10. \A v : Keeps(d, v) <=> Has(c.floor, c.log, v)
  BY <1>3, <1>6, <1>8 DEF Keeps, Holds, Has, InLog
<1> QED
  BY <1>3, <1>5, <1>6, <1>8, <1>9, <1>10 DEF Good, FileOK

(* A good file is a clean one, but for a torn envelope at its end. *)
LEMMA GoodFacts ==
  ASSUME NEW c \in Content, Good(c), NEW n, n = WholeEntries(c.log)
  PROVE  /\ c.head = "whole" /\ n \in 0..Len(c.log)
         /\ Clean(Cut(c, n)) /\ Cut(c, n).floor = c.floor /\ Cut(c, n).log = SubSeq(c.log, 1, n)
         /\ Len(Cut(c, n).log) = n /\ Readable(c)
         /\ n = Len(c.log) \/ (n + 1 = Len(c.log) /\ c.log[n + 1] = 0)
         /\ n = Len(c.log) => Cut(c, n) = c
<1>1. PICK m \in 0..Len(c.log) : Sound(c, m)
  BY DEF Good
<1>2. c.log \in Seq(Versions) /\ c.log \in Seq(Nat) /\ Len(c.log) \in Nat /\ c.floor \in Nat
  BY ContentTypes
<1>3. /\ SubSeq(c.log, 1, m) \in Seq(Versions) /\ Len(SubSeq(c.log, 1, m)) = m
      /\ \A i \in 1..m : SubSeq(c.log, 1, m)[i] = c.log[i]
  BY <1>2, PrefixFacts
<1>4. \A i \in 1..m : c.log[i] # 0
  <2> TAKE i \in 1..m
  <2>1. SubSeq(c.log, 1, m) \in Seq(Nat) /\ i \in 1..Len(SubSeq(c.log, 1, m))
    BY <1>3, LogTypes
  <2>2. SubSeq(c.log, 1, m)[i] > c.floor /\ SubSeq(c.log, 1, m)[i] \in Nat
    BY <1>1, <1>2, <1>3, <2>1, AscendingOrder, LogTypes DEF Sound
  <2> QED
    BY <1>2, <1>3, <2>2
<1>5. WholeEntries(c.log) = m
  BY <1>1, <1>2, <1>4, WholeIs DEF Sound
<1>6. n = m
  BY <1>5
<1>7. /\ Cut(c, m) \in Content /\ Cut(c, m).floor = c.floor /\ Cut(c, m).head = c.head
      /\ Cut(c, m).log = SubSeq(c.log, 1, m)
  BY <1>3, ContentFacts DEF Cut
<1>8. Clean(Cut(c, m))
  BY <1>1, <1>3, <1>7 DEF Clean, Sound
<1>9. m >= Len(c.log) - 1
  BY <1>1, <1>2 DEF Sound
<1>10. Readable(c)
  BY <1>1, <1>5, <1>9 DEF Readable, Parsed, Sound
<1>11. m = Len(c.log) => Cut(c, m) = c
  BY <1>2, WholePrefix, ContentFacts DEF Cut
<1> QED
  BY <1>1, <1>3, <1>6, <1>7, <1>8, <1>10, <1>11 DEF Sound

-----------------------------------------------------------------------------
(* What a crash leaves. *)

LEMMA CutTypes ==
  ASSUME NEW c \in Content, NEW k \in 0..Len(c.log)
  PROVE  Cut(c, k) \in Content /\ TornCut(c, k) \in Content
<1>1. c.log \in Seq(Versions)
  BY ContentTypes
<1>2. SubSeq(c.log, 1, k) \in Seq(Versions)
  BY <1>1, PrefixFacts
<1>3. Append(SubSeq(c.log, 1, k), 0) \in Seq(Versions)
  BY <1>2, VersionsNat, AppendProperties
<1> QED
  BY <1>2, <1>3, ContentFacts DEF Cut, TornCut

LEMMA CrashTypes ==
  ASSUME NEW f \in Files
  PROVE  AfterCrash(f) \in SUBSET Content
<1>1. f.vis \in Content /\ f.synced \in Nat /\ f.older \in SUBSET Content
  BY DEF Files
<1>2. \A k \in f.synced..Len(f.vis.log) : k \in 0..Len(f.vis.log)
  BY <1>1, ContentTypes
<1>3. \A k \in f.synced..Len(f.vis.log) : Cut(f.vis, k) \in Content /\ TornCut(f.vis, k) \in Content
  BY <1>1, <1>2, CutTypes
<1> QED
  BY <1>1, <1>3 DEF AfterCrash

LEMMA CrashVis ==
  ASSUME NEW f \in Files, f.synced <= Len(f.vis.log)
  PROVE  f.vis \in AfterCrash(f)
<1>1. f.vis \in Content /\ f.synced \in Nat /\ Len(f.vis.log) \in Nat /\ f.vis.log \in Seq(Versions)
  BY ContentTypes DEF Files
<1>2. Len(f.vis.log) \in f.synced..Len(f.vis.log)
  BY <1>1
<1>3. Cut(f.vis, Len(f.vis.log)) = f.vis
  BY <1>1, WholePrefix, ContentFacts DEF Cut
<1> QED
  BY <1>2, <1>3 DEF AfterCrash

(* A file that is synced to its end. *)
LEMMA CrashSynced ==
  ASSUME NEW f \in Files, f.synced = Len(f.vis.log)
  PROVE  AfterCrash(f) = {f.vis} \cup f.older
<1>1. f.vis \in Content /\ Len(f.vis.log) \in Nat /\ f.vis.log \in Seq(Versions)
  BY ContentTypes DEF Files
<1>2. f.synced..Len(f.vis.log) = {Len(f.vis.log)}
  BY <1>1
<1>3. Cut(f.vis, Len(f.vis.log)) = f.vis
  BY <1>1, WholePrefix, ContentFacts DEF Cut
<1>4. {i \in f.synced..Len(f.vis.log) : i < Len(f.vis.log)} = {}
  BY <1>1, <1>2
<1> QED
  BY <1>2, <1>3, <1>4 DEF AfterCrash

LEMMA SyncedDirFacts ==
  ASSUME NEW f \in Files
  PROVE  /\ SyncedDir(f) \in Files /\ SyncedDir(f).vis = f.vis
         /\ SyncedDir(f).synced = f.synced /\ SyncedDir(f).older = {}
         /\ AfterCrash(SyncedDir(f)) \subseteq AfterCrash(f)
<1>1. /\ SyncedDir(f) \in Files /\ SyncedDir(f).vis = f.vis
      /\ SyncedDir(f).synced = f.synced /\ SyncedDir(f).older = {}
  BY DEF SyncedDir, Files
<1> HIDE DEF SyncedDir
<1> QED
  BY <1>1 DEF AfterCrash

(* An entry is written to the end of the file. *)
LEMMA CrashWritten ==
  ASSUME NEW f \in Files, f.synced <= Len(f.vis.log), NEW e \in Versions, NEW g,
         g = [f EXCEPT !.vis.log = Append(f.vis.log, e)]
  PROVE  /\ g \in Files /\ g.synced = f.synced /\ g.older = f.older
         /\ g.vis = [f.vis EXCEPT !.log = Append(f.vis.log, e)]
         /\ Len(g.vis.log) = Len(f.vis.log) + 1
         /\ \A c \in AfterCrash(g) :
              \/ c \in AfterCrash(f)
              \/ c = g.vis
              \/ c = [f.vis EXCEPT !.log = Append(f.vis.log, 0)]
<1> DEFINE n == Len(f.vis.log)
           s == f.vis.log
           u == [f.vis EXCEPT !.log = Append(s, e)]
<1>1. f.vis \in Content /\ f.synced \in Nat /\ n \in Nat /\ s \in Seq(Versions)
  BY ContentTypes DEF Files
<1>2. Append(s, e) \in Seq(Versions) /\ Len(Append(s, e)) = n + 1
  BY <1>1, AppendProperties
<1>3. u \in Content /\ u.log = Append(s, e)
  BY <1>1, <1>2, ContentFacts
<1>4. g = [f EXCEPT !.vis = u]
  OBVIOUS
<1>5. g \in Files /\ g.synced = f.synced /\ g.older = f.older /\ g.vis = u
  <2> HIDE DEF u
  <2> QED
    BY <1>3, <1>4 DEF Files
<1>6. Len(g.vis.log) = n + 1
  BY <1>2, <1>3, <1>5
<1>7. \A k \in 0..n : Cut(u, k) = Cut(f.vis, k) /\ TornCut(u, k) = TornCut(f.vis, k)
  <2> TAKE k \in 0..n
  <2>1. SubSeq(Append(s, e), 1, k) = SubSeq(s, 1, k)
    BY <1>1, PrefixOfAppend
  <2>2. \A t : [u EXCEPT !.log = t] = [f.vis EXCEPT !.log = t]
    BY <1>1 DEF Content
  <2>3. Cut(u, k) = [u EXCEPT !.log = SubSeq(s, 1, k)]
        /\ TornCut(u, k) = [u EXCEPT !.log = Append(SubSeq(s, 1, k), 0)]
    BY <1>3, <2>1 DEF Cut, TornCut
  <2> QED
    BY <2>2, <2>3 DEF Cut, TornCut
<1>8. Cut(u, n + 1) = u
  <2>1. SubSeq(u.log, 1, n + 1) = u.log
    BY <1>2, <1>3, WholePrefix
  <2>2. Cut(u, n + 1) = [u EXCEPT !.log = u.log]
    BY <2>1 DEF Cut
  <2> HIDE DEF u
  <2> QED
    BY <1>3, <2>2 DEF Content
<1>9. TornCut(f.vis, n) = [f.vis EXCEPT !.log = Append(s, 0)]
  BY <1>1, WholePrefix DEF TornCut
<1> HIDE DEF u, n, s
<1>10. ASSUME NEW c \in AfterCrash(g)
       PROVE  c \in AfterCrash(f) \/ c = u \/ c = TornCut(f.vis, n)
  <2>1. CASE c \in f.older
    BY <2>1 DEF AfterCrash
  <2>2. CASE \E k \in f.synced..n + 1 : c = Cut(u, k)
    <3>1. PICK k \in f.synced..n + 1 : c = Cut(u, k)
      BY <2>2
    <3>2. CASE k = n + 1
      BY <1>8, <3>1, <3>2
    <3>3. CASE k # n + 1
      <4>1. k \in 0..n /\ k \in f.synced..n
        BY <1>1, <3>3
      <4>2. c = Cut(f.vis, k)
        BY <1>7, <3>1, <4>1
      <4> QED
        BY <4>1, <4>2 DEF AfterCrash, n, s
    <3> QED
      BY <3>2, <3>3
  <2>3. CASE \E k \in f.synced..n + 1 : k < n + 1 /\ c = TornCut(u, k)
    <3>1. PICK k \in f.synced..n + 1 : k < n + 1 /\ c = TornCut(u, k)
      BY <2>3
    <3>2. k \in 0..n /\ k \in f.synced..n
      BY <1>1, <3>1
    <3>3. c = TornCut(f.vis, k)
      BY <1>7, <3>1, <3>2
    <3>4. CASE k < n
      BY <3>2, <3>3, <3>4 DEF AfterCrash, n, s
    <3>5. CASE ~(k < n)
      BY <1>1, <3>2, <3>3, <3>5
    <3> QED
      BY <3>4, <3>5
  <2> QED
    BY <1>5, <1>6, <2>1, <2>2, <2>3 DEF AfterCrash
<1> QED
  BY <1>5, <1>6, <1>9, <1>10 DEF u, n, s

(* The checkpoint. *)
Checkpoints == [vis : Versions, older : SUBSET Versions]

LEMMA CheckpointFacts ==
  ASSUME NEW f \in Checkpoints, NEW w \in Versions
  PROVE  /\ SyncedDir(f) \in Checkpoints /\ SyncedDir(f).vis = f.vis /\ SyncedDir(f).older = {}
         /\ CheckpointAfterCrash(SyncedDir(f)) = {f.vis}
         /\ CheckpointAfterCrash(SyncedDir(f)) \subseteq CheckpointAfterCrash(f)
         /\ CheckpointReplaced(f, w) \in Checkpoints /\ CheckpointReplaced(f, w).vis = w
         /\ CheckpointAfterCrash(CheckpointReplaced(f, w)) = {w} \cup CheckpointAfterCrash(f)
BY DEF SyncedDir, Checkpoints, CheckpointAfterCrash, CheckpointReplaced

-----------------------------------------------------------------------------
(* Common parts of the steps. *)

Ops == {"none", "put", "apply", "compact", "install"}

Requests == [op : Ops, version : Versions, tail : Seq(Versions)]

Pcs == {"down", "header", "loading", "open", "written", "applied",
        "cprenamed", "checkpointed", "jrenamed"}

(* JournalTypeOK in the terms of this module. *)
LEMMA TypesAre ==
  JournalTypeOK <=>
    /\ jfile \in Files /\ cfile \in Checkpoints
    /\ mem \in Memory /\ Len(mem.records) <= MaxEntries
    /\ linked \in BOOLEAN /\ jpc \in Pcs /\ req \in Requests
    /\ acked \subseteq Versions /\ astray \in BOOLEAN /\ faults \in 0..MaxFaults
BY DEF JournalTypeOK, Files, Checkpoints, Requests, Ops, Pcs

LEMMA TypesOf ==
  ASSUME SizesOK
  PROVE  /\ jfile \in Files /\ cfile \in Checkpoints
         /\ mem \in Memory /\ Len(mem.records) <= MaxEntries
         /\ linked \in BOOLEAN /\ jpc \in Pcs /\ req \in Requests
         /\ acked \subseteq Versions /\ astray \in BOOLEAN /\ faults \in 0..MaxFaults
         /\ jfile.vis \in Content /\ jfile.synced \in Nat /\ jfile.older \subseteq Content
         /\ jfile.vis.log \in Seq(Versions) /\ Len(jfile.vis.log) \in Nat
         /\ jfile.synced <= Len(jfile.vis.log)
         /\ jfile.vis \in AfterCrash(jfile)
         /\ mem.floor \in Versions /\ mem.records \in Seq(Versions) /\ Len(mem.records) \in Nat
         /\ req.version \in Versions /\ req.tail \in Seq(Versions) /\ Len(req.tail) \in Nat
<1>1. /\ jfile \in Files /\ cfile \in Checkpoints
      /\ mem \in Memory /\ Len(mem.records) <= MaxEntries
      /\ linked \in BOOLEAN /\ jpc \in Pcs /\ req \in Requests
      /\ acked \subseteq Versions /\ astray \in BOOLEAN /\ faults \in 0..MaxFaults
      /\ jfile.synced <= Len(jfile.vis.log)
  BY TypesAre DEF SizesOK
<1>2. jfile.vis \in Content /\ jfile.synced \in Nat /\ jfile.older \subseteq Content
  BY <1>1 DEF Files
<1>3. mem.floor \in Versions /\ mem.records \in Seq(Versions)
  BY <1>1 DEF Memory
<1>4. req.version \in Versions /\ req.tail \in Seq(Versions)
  BY <1>1 DEF Requests
<1>5. jfile.vis \in AfterCrash(jfile)
  BY <1>1, CrashVis
<1> QED
  BY <1>1, <1>2, <1>3, <1>4, <1>5, ContentTypes, LogTypes

LEMMA CrashShrinks ==
  ASSUME CrashOK, jfile'.vis.floor = jfile.vis.floor,
         AfterCrash(jfile') \subseteq AfterCrash(jfile),
         CheckpointAfterCrash(cfile') \subseteq CheckpointAfterCrash(cfile), UNCHANGED acked
  PROVE  CrashOK'
BY DEF CrashOK

LEMMA SizesStep ==
  ASSUME jfile' \in Files, cfile' \in Checkpoints,
         mem' \in Memory, Len(mem'.records) <= MaxEntries,
         linked' \in BOOLEAN, jpc' \in Pcs, req' \in Requests,
         acked' \subseteq Versions, astray' \in BOOLEAN, faults' \in 0..MaxFaults,
         jfile'.synced <= Len(jfile'.vis.log),
         jpc' = "header" => jfile'.synced = 0,
         jpc' = "written" => Len(mem'.records) < MaxEntries,
         jpc' \in Rewriting => Len(req'.tail) <= MaxEntries
  PROVE  SizesOK'
<1>1. JournalTypeOK'
  BY DEF JournalTypeOK, Files, Checkpoints, Requests, Ops, Pcs
<1> QED
  BY <1>1 DEF SizesOK

LEMMA FaultTypes ==
  ASSUME faults \in 0..MaxFaults, Fault
  PROVE  faults' \in 0..MaxFaults
BY JournalAssumption DEF Fault

(* The runtime is open, or about to be, with a memory that fits the file.  *)
LEMMA OpenStep ==
  ASSUME jpc' \in {"open", "loading"}, linked' => MemOK', ~linked' => jpc' = "open"
  PROVE  StepOK'
BY DEF StepOK, Rewriting

LEMMA DownStep ==
  ASSUME jpc' = "down", linked'
  PROVE  StepOK'
BY DEF StepOK, Rewriting

LEMMA MemKept ==
  ASSUME MemOK, jfile'.vis = jfile.vis, UNCHANGED <<mem, acked>>
  PROVE  MemOK'
BY DEF MemOK

LEMMA Constants ==
  /\ NoMemory \in Memory /\ Len(NoMemory.records) <= MaxEntries
  /\ NoMemory.floor = 0 /\ NoMemory.records = <<>>
  /\ NoRequest \in Requests
  /\ \A h \in {"none", "empty", "partial"} :
       /\ Headless(h) \in Content /\ Headless(h).head = h /\ Headless(h).floor = 0
       /\ Headless(h).log = <<>> /\ Len(Headless(h).log) = 0 /\ FileOK(Headless(h))
<1>1. <<>> \in Seq(Versions) /\ Len(<<>>) = 0 /\ 0 \in Versions /\ MaxEntries \in Nat
  BY VersionsNat, EmptySeq
<1>2. /\ NoMemory \in Memory /\ NoMemory.floor = 0 /\ NoMemory.records = <<>>
      /\ NoRequest \in Requests
  BY <1>1 DEF NoMemory, Memory, NoRequest, Requests, Ops
<1>3. ASSUME NEW h \in {"none", "empty", "partial"}
      PROVE  /\ Headless(h) \in Content /\ Headless(h).head = h /\ Headless(h).floor = 0
             /\ Headless(h).log = <<>>
  BY <1>1 DEF Headless, Content
<1>4. \A h \in {"none", "empty", "partial"} : h # "whole"
  OBVIOUS
<1>5. 0 <= MaxEntries
  BY <1>1
<1>6. \A h \in {"none", "empty", "partial"} : FileOK(Headless(h))
  BY <1>3, <1>4 DEF FileOK
<1> QED
  BY <1>1, <1>2, <1>3, <1>5, <1>6

LEMMA WholeFacts ==
  ASSUME NEW b \in Versions, NEW t \in Seq(Versions), Ascending(b, t), Len(t) <= MaxEntries
  PROVE  /\ Clean(Whole(b, t)) /\ Whole(b, t) \in Content /\ Whole(b, t).head = "whole"
         /\ Whole(b, t).floor = b /\ Whole(b, t).log = t
BY DEF Whole, Content, Clean

LEMMA AscendingEmpty == \A b : Ascending(b, <<>>)
BY EmptySeq DEF Ascending

LEMMA AscendingAppend ==
  ASSUME NEW m \in Memory, Ascending(m.floor, m.records), NEW e \in Versions, e > LastVersion(m)
  PROVE  Ascending(m.floor, Append(m.records, e))
<1> DEFINE s == m.records
           n == Len(m.records)
<1>1. s \in Seq(Versions) /\ n \in Nat /\ m.floor \in Versions
  BY LogTypes DEF Memory
<1>2. /\ Append(s, e) \in Seq(Versions) /\ Len(Append(s, e)) = n + 1
      /\ Append(s, e)[n + 1] = e /\ \A i \in 1..n : Append(s, e)[i] = s[i]
  BY <1>1, AppendProperties
<1>3. n = 0 => e > m.floor
  BY <1>1, EmptySeq DEF LastVersion
<1>4. n # 0 => e > s[n]
  BY <1>1, EmptySeq DEF LastVersion
<1> HIDE DEF s, n
<1>5. ASSUME NEW i \in 1..n + 1
      PROVE  Append(s, e)[i] > (IF i = 1 THEN m.floor ELSE Append(s, e)[i - 1])
  <2>1. CASE i \in 1..n
    <3>1. s[i] > (IF i = 1 THEN m.floor ELSE s[i - 1])
      BY <2>1 DEF Ascending, s, n
    <3>2. i # 1 => i - 1 \in 1..n
      BY <1>1, <2>1
    <3> QED
      BY <1>2, <2>1, <3>1, <3>2
  <2>2. CASE i = n + 1 /\ n = 0
    BY <1>2, <1>3, <2>2
  <2>3. CASE i = n + 1 /\ n # 0
    <3>1. i # 1 /\ i - 1 = n /\ n \in 1..n
      BY <1>1, <2>3
    <3> QED
      BY <1>2, <1>4, <2>3, <3>1
  <2>4. i \in 1..n \/ i = n + 1
    BY <1>1
  <2> QED
    BY <2>1, <2>2, <2>3, <2>4
<1> QED
  BY <1>2, <1>5 DEF Ascending, s, n

LEMMA InAppend ==
  ASSUME NEW s \in Seq(Versions), NEW e \in Versions
  PROVE  /\ InLog(Append(s, e), e)
         /\ \A v : InLog(s, v) => InLog(Append(s, e), v)
<1>1. Len(s) \in Nat /\ Len(Append(s, e)) = Len(s) + 1 /\ Append(s, e)[Len(s) + 1] = e
      /\ \A i \in 1..Len(s) : Append(s, e)[i] = s[i]
  BY AppendProperties, LenProperties
<1>2. \A i \in 1..Len(s) : i \in 1..Len(s) + 1
  BY <1>1
<1>3. Len(s) + 1 \in 1..Len(s) + 1
  BY <1>1
<1>4. InLog(Append(s, e), e)
  BY <1>1, <1>3 DEF InLog
<1>5. ASSUME NEW v, InLog(s, v) PROVE InLog(Append(s, e), v)
  BY <1>1, <1>2, <1>5 DEF InLog
<1> QED
  BY <1>4, <1>5

(* With a memory that fits the file and no more in the file than in it,    *)
(* the file is clean.                                                      *)
LEMMA MemClean ==
  ASSUME SizesOK, MemOK, jfile.vis.log = mem.records
  PROVE  /\ Clean(jfile.vis)
         /\ \A v \in acked : Has(jfile.vis.floor, jfile.vis.log, v)
BY TypesOf DEF MemOK, Clean

-----------------------------------------------------------------------------
(* Opening. *)

LEMMA OpenCreateInv ==
  ASSUME JournalInv, OpenCreate
  PROVE  JournalInv'
<1> DEFINE u == Whole(0, <<>>)
           o == jfile.older \cup {jfile.vis, Headless("empty"), Headless("partial")}
<1>1. /\ jpc = "down" /\ jfile.vis.head \in {"none", "empty"} /\ jpc' = "header"
      /\ jfile' = [vis |-> u, synced |-> 0, older |-> o]
      /\ UNCHANGED <<cfile, mem, linked, req, acked, astray, faults>>
  BY DEF OpenCreate
<1>2. SizesOK
  BY DEF JournalInv
<1>3. 0 \in Versions /\ <<>> \in Seq(Versions) /\ Len(<<>>) = 0 /\ 0 <= MaxEntries
  <2>1. 0 \in Versions /\ MaxEntries \in Nat /\ <<>> \in Seq(Versions) /\ Len(<<>>) = 0
    BY VersionsNat, EmptySeq
  <2> QED
    BY <2>1
<1>4. Clean(u) /\ u \in Content /\ u.floor = 0 /\ u.log = <<>>
  BY <1>3, AscendingEmpty, WholeFacts
<1>5. o \in SUBSET Content
  BY <1>2, TypesOf, Constants
<1> HIDE DEF u, o
<1>6. jfile' \in Files /\ jfile'.vis = u /\ jfile'.synced = 0 /\ jfile'.older = o
  BY <1>1, <1>4, <1>5 DEF Files
<1>7. jfile'.synced = Len(jfile'.vis.log) /\ jfile'.synced <= Len(jfile'.vis.log)
  <2>1. Len(jfile'.vis.log) = 0
    BY <1>3, <1>4, <1>6
  <2> QED
    BY <1>6, <2>1
<1>8. SizesOK'
  <2>1. jpc' \in Pcs /\ jpc' \notin Rewriting /\ jpc' # "written"
    BY <1>1 DEF Pcs, Rewriting
  <2> QED
    BY <1>1, <1>2, <1>6, <1>7, <2>1, TypesOf, SizesStep
<1>9. ASSUME ~astray
      PROVE  CrashOK' /\ StepOK'
  <2>1. CrashOK /\ StepOK
    BY <1>9 DEF JournalInv
  <2>2. jfile.vis.floor = 0 /\ acked = {}
    <3>1. jfile.vis \in AfterCrash(jfile) /\ jfile.vis.head # "whole"
      BY <1>1, <1>2, TypesOf
    <3>2. FileOK(jfile.vis) /\ \A v \in acked : Keeps(jfile.vis, v)
      BY <2>1, <3>1 DEF CrashOK
    <3> QED
      BY <3>1, <3>2 DEF FileOK, Keeps
  <2>3. AfterCrash(jfile') = {u} \cup o
    BY <1>6, <1>7, CrashSynced
  <2>4. \A w \in CheckpointAfterCrash(cfile) : w \in Nat
    BY <1>2, TypesOf, VersionsNat DEF CheckpointAfterCrash, Checkpoints
  <2>5. ASSUME NEW c \in AfterCrash(jfile')
        PROVE  FileOK(c) /\ c.floor = 0
    <3>1. CASE c = u
      BY <1>4, <3>1, CleanFacts
    <3>2. CASE c = jfile.vis \/ c \in jfile.older
      <4>1. c \in AfterCrash(jfile)
        BY <1>2, <3>2, TypesOf DEF AfterCrash
      <4>2. FileOK(c) /\ c.floor <= 0 /\ c \in Content
        BY <1>2, <2>1, <2>2, <4>1, TypesOf, CrashTypes DEF CrashOK
      <4>3. c.floor \in Nat
        BY <4>2, ContentTypes
      <4> QED
        BY <4>2, <4>3
    <3>3. CASE c \in {Headless("empty"), Headless("partial")}
      BY <3>3, Constants
    <3> QED
      BY <2>3, <3>1, <3>2, <3>3 DEF o
  <2>6. \A w \in CheckpointAfterCrash(cfile) : 0 <= w
    BY <2>4
  <2>7. CrashOK'
    BY <1>1, <1>4, <1>6, <2>2, <2>5, <2>6 DEF CrashOK
  <2>8. StepOK'
    BY <1>1, <1>6, <2>1, <2>2 DEF StepOK, Rewriting, u
  <2> QED
    BY <2>7, <2>8
<1> QED
  BY <1>1, <1>8, <1>9 DEF JournalInv

LEMMA HeaderSyncedInv ==
  ASSUME JournalInv, HeaderSynced
  PROVE  JournalInv'
<1>1. /\ jpc = "header" /\ jpc' = "loading" /\ mem' = NoMemory
      /\ jfile' = [jfile EXCEPT !.older = jfile.older \cap {Headless("none")}]
      /\ UNCHANGED <<cfile, linked, req, acked, astray, faults>>
  BY DEF HeaderSynced
<1>2. SizesOK
  BY DEF JournalInv
<1>3. /\ jfile' \in Files /\ jfile'.vis = jfile.vis /\ jfile'.synced = jfile.synced
      /\ jfile'.older \subseteq jfile.older
  BY <1>1, <1>2, TypesOf DEF Files
<1>4. SizesOK'
  <2>1. jpc' \in Pcs /\ jpc' \notin Rewriting /\ jpc' # "written" /\ jpc' # "header"
    BY <1>1 DEF Pcs, Rewriting
  <2>2. jfile'.synced <= Len(jfile'.vis.log)
    BY <1>2, <1>3, TypesOf
  <2> QED
    BY <1>1, <1>2, <1>3, <2>1, <2>2, TypesOf, Constants, SizesStep
<1>5. ASSUME ~astray
      PROVE  CrashOK' /\ StepOK'
  <2>1. CrashOK /\ StepOK
    BY <1>5 DEF JournalInv
  <2>2. AfterCrash(jfile') \subseteq AfterCrash(jfile)
    BY <1>3 DEF AfterCrash
  <2>3. CrashOK'
    BY <1>1, <1>3, <2>1, <2>2, CrashShrinks
  <2>4. jfile.vis = Whole(0, <<>>) /\ acked = {} /\ linked
    BY <1>1, <2>1 DEF StepOK
  <2>5. Whole(0, <<>>).head = "whole" /\ Whole(0, <<>>).floor = 0 /\ Whole(0, <<>>).log = <<>>
    BY DEF Whole
  <2>6. MemOK'
    BY <1>1, <1>3, <2>4, <2>5, Constants, AscendingEmpty DEF MemOK
  <2> QED
    BY <1>1, <2>3, <2>4, <2>6, OpenStep
<1> QED
  BY <1>1, <1>4, <1>5 DEF JournalInv

LEMMA HeaderFailsInv ==
  ASSUME JournalInv, HeaderFails
  PROVE  JournalInv'
<1>1. /\ jpc = "header" /\ jpc' = "down" /\ Fault
      /\ UNCHANGED <<cfile, mem, linked, req, acked, astray>>
  BY DEF HeaderFails
<1>2. PICK u \in {Headless("empty"), Headless("partial"), jfile.vis} :
        jfile' = [jfile EXCEPT !.vis = u]
  BY DEF HeaderFails
<1>3. SizesOK
  BY DEF JournalInv
<1>4. u \in Content /\ Len(u.log) \in Nat
  BY <1>2, <1>3, TypesOf, Constants, ContentTypes
<1>5. jfile' \in Files /\ jfile'.vis = u /\ jfile'.synced = 0 /\ jfile'.older = jfile.older
  BY <1>1, <1>2, <1>3, <1>4, TypesOf DEF Files, SizesOK
<1>6. jfile'.synced <= Len(jfile'.vis.log)
  BY <1>4, <1>5
<1>7. SizesOK'
  <2>1. jpc' \in Pcs /\ jpc' \notin Rewriting /\ jpc' # "written" /\ jpc' # "header"
    BY <1>1 DEF Pcs, Rewriting
  <2> QED
    BY <1>1, <1>3, <1>5, <1>6, <2>1, TypesOf, FaultTypes, SizesStep
<1>8. ASSUME ~astray
      PROVE  CrashOK' /\ StepOK'
  <2>1. CrashOK /\ StepOK
    BY <1>8 DEF JournalInv
  <2>2. jfile.vis = Whole(0, <<>>) /\ acked = {} /\ linked
    BY <1>1, <2>1 DEF StepOK
  <2>3. Whole(0, <<>>).floor = 0 /\ Whole(0, <<>>).log = <<>> /\ Len(<<>>) = 0
    BY EmptySeq DEF Whole
  <2>4. u.floor = 0 /\ Len(u.log) = 0
    BY <1>2, <2>2, <2>3, Constants
  <2>5. AfterCrash(jfile') = {u} \cup jfile.older
    BY <1>5, <2>4, CrashSynced
  <2>6. \A w \in CheckpointAfterCrash(cfile) : 0 <= w
    <3>1. \A w \in CheckpointAfterCrash(cfile) : w \in Nat
      BY <1>3, TypesOf, VersionsNat DEF CheckpointAfterCrash, Checkpoints
    <3> QED
      BY <3>1
  <2>7. FileOK(u)
    <3>1. jfile.vis \in AfterCrash(jfile)
      BY <1>3, TypesOf
    <3> QED
      BY <1>2, <2>1, <3>1, Constants DEF CrashOK
  <2>8. ASSUME NEW c \in AfterCrash(jfile')
        PROVE  FileOK(c) /\ c.floor <= 0 /\ \A w \in CheckpointAfterCrash(cfile) : c.floor <= w
    <3>1. CASE c = u
      BY <2>4, <2>6, <2>7, <3>1
    <3>2. CASE c \in jfile.older
      <4>1. c \in AfterCrash(jfile)
        BY <3>2 DEF AfterCrash
      <4> QED
        BY <2>1, <2>2, <2>3, <4>1 DEF CrashOK
    <3> QED
      BY <2>5, <3>1, <3>2
  <2>9. CrashOK'
    BY <1>1, <1>5, <2>2, <2>4, <2>8 DEF CrashOK
  <2> QED
    BY <1>1, <2>2, <2>9, DownStep
<1> QED
  BY <1>1, <1>7, <1>8 DEF JournalInv

(* A torn tail is cut off; what is read is what the file keeps. *)
LEMMA OpenExistingInv ==
  ASSUME JournalInv, OpenExisting
  PROVE  JournalInv'
<1> DEFINE u == jfile.vis
           n == WholeEntries(jfile.vis.log)
           r == SubSeq(jfile.vis.log, 1, n)
<1>1. /\ jpc = "down" /\ jpc' = "loading" /\ Parsed(u)
      /\ mem' = [floor |-> u.floor, records |-> r]
      /\ jfile' = IF n < Len(u.log) THEN [jfile EXCEPT !.vis = Cut(u, n), !.synced = n] ELSE jfile
      /\ UNCHANGED <<cfile, linked, req, acked, astray, faults>>
  BY DEF OpenExisting, Readable, Swallowed
<1>2. SizesOK
  BY DEF JournalInv
<1>3. u \in Content /\ u.log \in Seq(Versions) /\ u.log \in Seq(Nat) /\ Len(u.log) \in Nat
      /\ u.floor \in Versions
  BY <1>2, TypesOf, ContentTypes
<1>4. n \in 0..Len(u.log) /\ n \in Nat /\ n <= Len(u.log)
  <2>1. n \in 0..Len(u.log)
    BY <1>3, WholeExists
  <2> QED
    BY <1>3, <2>1
<1>5. r \in Seq(Versions) /\ Len(r) = n /\ n <= MaxEntries
  BY <1>1, <1>3, <1>4, PrefixFacts DEF Parsed
<1>6. Cut(u, n) \in Content /\ Cut(u, n).log = r /\ Cut(u, n).floor = u.floor
      /\ Cut(u, n).head = u.head
  BY <1>3, <1>5, ContentFacts DEF Cut
<1>7. mem' \in Memory /\ mem'.floor = u.floor /\ mem'.records = r
  BY <1>1, <1>3, <1>5 DEF Memory
<1>8. n < Len(u.log) =>
        /\ jfile' \in Files /\ jfile'.vis = Cut(u, n) /\ jfile'.synced = n
        /\ jfile'.older = jfile.older
  <2> HIDE DEF n, u, r
  <2> QED
    BY <1>1, <1>2, <1>4, <1>6, TypesOf DEF Files
<1>9. ~(n < Len(u.log)) => jfile' = jfile /\ n = Len(u.log)
  BY <1>1, <1>3, <1>4
<1> HIDE DEF n, u, r
<1>10. jfile' \in Files /\ jfile'.synced <= Len(jfile'.vis.log)
  <2>1. CASE n < Len(u.log)
    BY <1>4, <1>5, <1>6, <1>8, <2>1
  <2>2. CASE ~(n < Len(u.log))
    BY <1>2, <1>9, <2>2, TypesOf
  <2> QED
    BY <2>1, <2>2
<1>11. SizesOK'
  <2>1. jpc' \in Pcs /\ jpc' \notin Rewriting /\ jpc' # "written" /\ jpc' # "header"
    BY <1>1 DEF Pcs, Rewriting
  <2> QED
    BY <1>1, <1>2, <1>5, <1>7, <1>10, <2>1, TypesOf, SizesStep
<1>12. ASSUME ~astray
      PROVE  CrashOK' /\ StepOK'
  <2>1. CrashOK /\ StepOK /\ linked /\ u \in AfterCrash(jfile)
    BY <1>1, <1>2, <1>12, TypesOf DEF JournalInv, StepOK, u
  <2>2. Good(u) /\ u.head = "whole"
    BY <1>1, <2>1 DEF CrashOK, FileOK, Parsed
  <2>3. Clean(Cut(u, n)) /\ (n = Len(u.log) => Cut(u, n) = u)
    BY <1>3, <2>2, GoodFacts DEF n, u
  <2>4. \A v \in acked : Has(u.floor, r, v)
    <3>1. \A v \in acked : Holds(Cut(u, n), v)
      BY <2>1 DEF CrashOK, Keeps, n, u
    <3> QED
      BY <1>6, <3>1 DEF Holds, Has, InLog
  <2>5. CrashOK'
    <3>1. CASE n < Len(u.log)
      <4>1. AfterCrash(jfile') = {Cut(u, n)} \cup jfile.older
        BY <1>5, <1>6, <1>8, <3>1, CrashSynced
      <4>2. FileOK(Cut(u, n)) /\ \A v \in acked : Keeps(Cut(u, n), v)
        BY <1>6, <2>3, <2>4, CleanFacts
      <4>3. ASSUME NEW c \in AfterCrash(jfile')
            PROVE  /\ FileOK(c) /\ c.floor <= u.floor
                   /\ \A w \in CheckpointAfterCrash(cfile) : c.floor <= w
                   /\ \A v \in acked : Keeps(c, v)
        <5>1. CASE c = Cut(u, n)
          BY <1>6, <2>1, <4>2, <5>1 DEF CrashOK, u
        <5>2. CASE c \in jfile.older
          BY <2>1, <5>2 DEF CrashOK, AfterCrash, u
        <5> QED
          BY <4>1, <5>1, <5>2
      <4> QED
        BY <1>1, <1>6, <1>8, <3>1, <4>3 DEF CrashOK
    <3>2. CASE ~(n < Len(u.log))
      BY <1>1, <1>9, <2>1, <3>2, CrashShrinks
    <3> QED
      BY <3>1, <3>2
  <2>6. jfile'.vis = Cut(u, n)
    BY <1>8, <1>9, <2>3 DEF u
  <2>7. MemOK'
    BY <1>1, <1>6, <1>7, <2>2, <2>3, <2>4, <2>6 DEF MemOK, Clean
  <2> QED
    BY <1>1, <2>1, <2>5, <2>7, OpenStep
<1> QED
  BY <1>1, <1>11, <1>12 DEF JournalInv

(* An operation ends, with an error or without, and nothing else changes.  *)
LEMMA ToOpenInv ==
  ASSUME JournalInv, \/ Loaded \/ AppendSyncFails \/ AckFails \/ RewriteFails \/ RewriteSyncFails
  PROVE  JournalInv'
<1>1. /\ jpc \notin {"down", "header"} /\ jpc' = "open" /\ (Fault \/ UNCHANGED faults)
      /\ UNCHANGED <<jfile, cfile, mem, linked, req, acked, astray>>
  BY DEF Loaded, AppendSyncFails, AckFails, RewriteFails, RewriteSyncFails
<1>2. SizesOK
  BY DEF JournalInv
<1>3. SizesOK'
  <2>1. jpc' \in Pcs /\ jpc' \notin Rewriting /\ jpc' # "written" /\ jpc' # "header"
    BY <1>1 DEF Pcs, Rewriting
  <2>2. faults' \in 0..MaxFaults
    BY <1>1, <1>2, TypesOf, FaultTypes
  <2> QED
    BY <1>1, <1>2, <2>1, <2>2, TypesOf, SizesStep
<1>4. ASSUME ~astray
      PROVE  CrashOK' /\ StepOK'
  <2>1. CrashOK /\ (linked => MemOK)
    BY <1>1, <1>4 DEF JournalInv, StepOK
  <2>2. linked' => MemOK'
    BY <1>1, <2>1, MemKept
  <2>3. CrashOK'
    BY <1>1, <2>1, CrashShrinks
  <2> QED
    BY <1>1, <2>2, <2>3, OpenStep
<1> QED
  BY <1>1, <1>3, <1>4 DEF JournalInv

LEMMA ToDownInv ==
  ASSUME JournalInv, LoadRefused \/ ProcessExit
  PROVE  JournalInv'
<1>1. /\ jpc' = "down" /\ mem' = NoMemory /\ UNCHANGED <<jfile, cfile, acked, astray, faults>>
  BY DEF LoadRefused, ProcessExit
<1>2. SizesOK
  BY DEF JournalInv
<1>3. req' \in Requests /\ linked' \in BOOLEAN
  BY <1>2, TypesOf, Constants DEF LoadRefused, ProcessExit
<1>4. SizesOK'
  <2>1. jpc' \in Pcs /\ jpc' \notin Rewriting /\ jpc' # "written" /\ jpc' # "header"
    BY <1>1 DEF Pcs, Rewriting
  <2> QED
    BY <1>1, <1>2, <1>3, <2>1, TypesOf, Constants, SizesStep
<1>5. ASSUME ~astray
      PROVE  CrashOK' /\ StepOK'
  <2>1. CrashOK /\ StepOK
    BY <1>5 DEF JournalInv
  <2>2. linked'
    BY <2>1 DEF LoadRefused, ProcessExit, StepOK
  <2>3. CrashOK'
    BY <1>1, <2>1, CrashShrinks
  <2> QED
    BY <1>1, <2>2, <2>3, DownStep
<1> QED
  BY <1>1, <1>4, <1>5 DEF JournalInv

LEMMA MachineCrashInv ==
  ASSUME JournalInv, MachineCrash
  PROVE  JournalInv'
<1>1. PICK c \in AfterCrash(jfile) : jfile' = [vis |-> c, synced |-> Len(c.log), older |-> {}]
  BY DEF MachineCrash
<1>2. PICK w \in CheckpointAfterCrash(cfile) : cfile' = [vis |-> w, older |-> {}]
  BY DEF MachineCrash
<1>3. /\ jpc' = "down" /\ mem' = NoMemory /\ linked' = TRUE /\ req' = NoRequest
      /\ UNCHANGED <<acked, astray, faults>>
  BY DEF MachineCrash
<1>4. SizesOK
  BY DEF JournalInv
<1>5. c \in Content /\ Len(c.log) \in Nat
  BY <1>4, TypesOf, CrashTypes, ContentTypes
<1>6. w \in Versions
  BY <1>4, TypesOf DEF CheckpointAfterCrash, Checkpoints
<1>7. jfile' \in Files /\ jfile'.vis = c /\ jfile'.synced = Len(c.log) /\ jfile'.older = {}
  BY <1>1, <1>5 DEF Files
<1>8. cfile' \in Checkpoints /\ CheckpointAfterCrash(cfile') = {w}
  BY <1>2, <1>6 DEF Checkpoints, CheckpointAfterCrash
<1>9. SizesOK'
  <2>1. jpc' \in Pcs /\ jpc' \notin Rewriting /\ jpc' # "written" /\ jpc' # "header"
    BY <1>3 DEF Pcs, Rewriting
  <2>2. jfile'.synced <= Len(jfile'.vis.log)
    BY <1>5, <1>7
  <2> QED
    BY <1>3, <1>4, <1>7, <1>8, <2>1, <2>2, TypesOf, Constants, SizesStep
<1>10. ASSUME ~astray
      PROVE  CrashOK' /\ StepOK'
  <2>1. CrashOK
    BY <1>10 DEF JournalInv
  <2>2. AfterCrash(jfile') = {c}
    BY <1>7, CrashSynced
  <2>3. c.floor <= c.floor
    BY <1>5, ContentTypes
  <2>4. CrashOK'
    BY <1>3, <1>7, <1>8, <2>1, <2>2, <2>3 DEF CrashOK
  <2> QED
    BY <1>3, <2>4, DownStep
<1> QED
  BY <1>3, <1>9, <1>10 DEF JournalInv

-----------------------------------------------------------------------------
(* Appending. *)

WrittenTo(f, e) == [f EXCEPT !.vis.log = Append(f.vis.log, e)]

(* The write of an envelope, or of a part of one, to a file that has what  *)
(* memory has.                                                             *)
LEMMA WriteCrash ==
  ASSUME SizesOK, CrashOK, MemOK, jfile.vis.log = mem.records, Len(mem.records) < MaxEntries,
         NEW f \in Files, f.vis = jfile.vis, f.synced = jfile.synced,
         AfterCrash(f) \subseteq AfterCrash(jfile),
         NEW e \in Versions, e = 0 \/ e > LastVersion(mem), jfile' = WrittenTo(f, e),
         CheckpointAfterCrash(cfile') \subseteq CheckpointAfterCrash(cfile), UNCHANGED <<mem, acked>>
  PROVE  CrashOK' /\ MemOK' /\ jfile'.vis.log = Append(mem.records, e)
<1> DEFINE u == jfile.vis
           d == [u EXCEPT !.log = Append(u.log, 0)]
           g == [u EXCEPT !.log = Append(u.log, e)]
<1>1. /\ u \in Content /\ Clean(u) /\ u \in AfterCrash(jfile)
      /\ \A v \in acked : Has(u.floor, u.log, v)
  BY TypesOf, MemClean
<1>2. jfile'.vis = g
      /\ \A c \in AfterCrash(jfile') : c \in AfterCrash(jfile) \/ c = g \/ c = d
  <2>1. f.synced <= Len(f.vis.log)
    BY TypesOf
  <2>2. jfile' = [f EXCEPT !.vis.log = Append(f.vis.log, e)]
    BY DEF WrittenTo
  <2>3. jfile'.vis = [f.vis EXCEPT !.log = Append(f.vis.log, e)]
    BY <2>1, <2>2, CrashWritten
  <2>4. \A c \in AfterCrash(jfile') : \/ c \in AfterCrash(f) \/ c = jfile'.vis
                                     \/ c = [f.vis EXCEPT !.log = Append(f.vis.log, 0)]
    BY <2>1, <2>2, CrashWritten
  <2>5. jfile'.vis = g
    BY <2>3
  <2>6. d = [f.vis EXCEPT !.log = Append(f.vis.log, 0)]
    OBVIOUS
  <2> HIDE DEF d, g
  <2> QED
    BY <2>4, <2>5, <2>6
<1>3. Append(u.log, e) \in Seq(Versions) /\ Append(u.log, 0) \in Seq(Versions)
  BY <1>1, ContentTypes, VersionsNat, AppendProperties
<1>4. g \in Content /\ g.log = Append(u.log, e) /\ g.floor = u.floor /\ g.head = u.head
  BY <1>1, <1>3, ContentFacts
<1>5. FileOK(d) /\ d.floor = u.floor /\ \A v \in acked : Keeps(d, v)
  <2> HIDE DEF u
  <2> QED
    BY <1>1, TornFacts
<1>6. FileOK(g) /\ \A v \in acked : Keeps(g, v)
  <2>1. CASE e = 0
    BY <1>5, <2>1
  <2>2. CASE e > LastVersion(mem)
    <3>1. Ascending(g.floor, g.log)
      <4>1. mem \in Memory /\ Ascending(mem.floor, mem.records) /\ u.floor = mem.floor
        BY TypesOf DEF MemOK
      <4>2. Ascending(mem.floor, Append(mem.records, e))
        BY <2>2, <4>1, AscendingAppend
      <4> QED
        BY <1>4, <4>1, <4>2
    <3>2. Len(g.log) <= MaxEntries
      <4>1. Len(Append(u.log, e)) = Len(mem.records) + 1 /\ Len(mem.records) \in Nat
        BY <1>1, TypesOf, AppendProperties
      <4> QED
        BY <1>4, <4>1, VersionsNat
    <3>3. g.head = "whole"
      BY <1>1, <1>4 DEF Clean
    <3> HIDE DEF g
    <3>4. Clean(g)
      BY <1>4, <3>1, <3>2, <3>3 DEF Clean
    <3>5. \A v \in acked : Has(g.floor, g.log, v)
      <4>1. \A v : InLog(u.log, v) => InLog(Append(u.log, e), v)
        BY <1>1, ContentTypes, InAppend
      <4> QED
        BY <1>1, <1>4, <4>1 DEF Has
    <3> QED
      BY <3>4, <3>5, CleanFacts
  <2> QED
    BY <2>1, <2>2
<1> HIDE DEF u, d, g
<1>7. CrashOK'
  <2>1. \A c \in AfterCrash(jfile') : FileOK(c) /\ \A v \in acked : Keeps(c, v)
    BY <1>2, <1>5, <1>6 DEF CrashOK
  <2>2. \A c \in AfterCrash(jfile') :
          c.floor <= u.floor /\ \A w \in CheckpointAfterCrash(cfile) : c.floor <= w
    BY <1>1, <1>2, <1>4, <1>5 DEF CrashOK, u
  <2> QED
    BY <1>2, <1>4, <2>1, <2>2 DEF CrashOK
<1>8. MemOK'
  <2>1. jfile'.vis.log = Append(mem.records, e) /\ jfile'.vis.head = jfile.vis.head
        /\ jfile'.vis.floor = jfile.vis.floor
    BY <1>2, <1>4 DEF u
  <2> QED
    BY <2>1 DEF MemOK
<1> QED
  BY <1>2, <1>4, <1>7, <1>8 DEF u

(* Types of the file that is written to. *)
LEMMA WriteTypes ==
  ASSUME SizesOK, NEW f \in Files, f.vis = jfile.vis, f.synced = jfile.synced, NEW e \in Versions,
         jfile' = Written(f, e)
  PROVE  jfile' \in Files /\ jfile'.synced <= Len(jfile'.vis.log) /\ jfile'.older = f.older
<1>1. f.synced <= Len(f.vis.log) /\ f.synced \in Nat /\ Len(f.vis.log) \in Nat
  BY TypesOf
<1>2. CASE linked
  <2>1. jfile' = [f EXCEPT !.vis.log = Append(f.vis.log, e)]
    BY <1>2 DEF Written
  <2>2. jfile' \in Files /\ jfile'.older = f.older /\ jfile'.synced = f.synced
        /\ Len(jfile'.vis.log) = Len(f.vis.log) + 1
    BY <1>1, <2>1, CrashWritten
  <2> QED
    BY <1>1, <2>2
<1>3. CASE ~linked
  BY <1>1, <1>3 DEF Written
<1> QED
  BY <1>2, <1>3

LEMMA WriteInv ==
  ASSUME JournalInv, NEW v \in 1..MaxVersion, PutWrite(v) \/ ApplyWrite(v)
  PROVE  JournalInv'
<1>1. /\ jpc = "open" /\ v > LastVersion(mem) /\ Len(mem.records) < MaxEntries
      /\ jpc' = "written" /\ astray' = (astray \/ Astray) /\ UNCHANGED <<mem, linked, acked, faults>>
  BY DEF PutWrite, ApplyWrite, CanAppend
<1>2. SizesOK
  BY DEF JournalInv
<1>3. v \in Versions
  BY JournalAssumption DEF Versions
<1>4. PICK g \in Files :
        /\ g.vis = jfile.vis /\ g.synced = jfile.synced
        /\ AfterCrash(g) \subseteq AfterCrash(jfile) /\ jfile' = Written(g, v)
        /\ req'.op = "put" => g.older = {}
  <2>1. CASE PutWrite(v)
    <3>1. jfile' = Written(SyncedDir(jfile), v)
      BY <2>1 DEF PutWrite
    <3> QED
      BY <1>2, <3>1, TypesOf, SyncedDirFacts
  <2>2. CASE ApplyWrite(v)
    <3>1. jfile' = Written(jfile, v) /\ req'.op = "apply"
      BY <2>2 DEF ApplyWrite, NoRequest
    <3> QED
      BY <1>2, <3>1, TypesOf
  <2> QED
    BY <2>1, <2>2
<1>5. cfile' \in Checkpoints /\ CheckpointAfterCrash(cfile') \subseteq CheckpointAfterCrash(cfile)
  BY <1>2, <1>3, TypesOf, CheckpointFacts DEF PutWrite, ApplyWrite
<1>6. req' \in Requests /\ req'.version = v
  BY <1>3, Constants DEF PutWrite, ApplyWrite, Requests, Ops
<1>7. jfile' \in Files /\ jfile'.synced <= Len(jfile'.vis.log) /\ jfile'.older = g.older
  BY <1>2, <1>3, <1>4, WriteTypes
<1>8. SizesOK'
  <2>1. jpc' \in Pcs /\ jpc' \notin Rewriting /\ jpc' # "header"
    BY <1>1 DEF Pcs, Rewriting
  <2>2. astray' \in BOOLEAN
    BY <1>1
  <2> QED
    BY <1>1, <1>2, <1>5, <1>6, <1>7, <2>1, <2>2, TypesOf, SizesStep
<1>9. ASSUME ~astray'
      PROVE  CrashOK' /\ StepOK'
  <2>1. ~astray /\ linked /\ jfile.vis.log = mem.records
    BY <1>1, <1>9 DEF Astray
  <2>2. CrashOK /\ StepOK /\ MemOK
    BY <1>1, <2>1 DEF JournalInv, StepOK
  <2>3. jfile' = WrittenTo(g, v)
    BY <1>4, <2>1 DEF Written, WrittenTo
  <2>4. CrashOK' /\ MemOK' /\ jfile'.vis.log = Append(mem.records, v)
    BY <1>1, <1>2, <1>3, <1>4, <1>5, <2>1, <2>2, <2>3, WriteCrash
  <2>5. StepOK'
    BY <1>1, <1>4, <1>6, <1>7, <2>1, <2>4 DEF StepOK, Rewriting
  <2> QED
    BY <2>4, <2>5
<1> QED
  BY <1>8, <1>9 DEF JournalInv

LEMMA AppendTornInv ==
  ASSUME JournalInv, NEW v \in 1..MaxVersion, AppendTorn(v)
  PROVE  JournalInv'
<1>1. /\ jpc = "open" /\ Len(mem.records) < MaxEntries /\ Fault /\ jfile' = Written(jfile, 0)
      /\ astray' = (astray \/ Astray) /\ UNCHANGED <<cfile, mem, linked, jpc, req, acked>>
  BY DEF AppendTorn, CanAppend
<1>2. SizesOK
  BY DEF JournalInv
<1>3. jfile' \in Files /\ jfile'.synced <= Len(jfile'.vis.log)
  BY <1>1, <1>2, VersionsNat, TypesOf, WriteTypes
<1>4. SizesOK'
  <2>1. jpc' \in Pcs /\ jpc' \notin Rewriting /\ jpc' # "header" /\ jpc' # "written"
    BY <1>1 DEF Pcs, Rewriting
  <2>2. astray' \in BOOLEAN
    BY <1>1
  <2> QED
    BY <1>1, <1>2, <1>3, <2>1, <2>2, TypesOf, FaultTypes, SizesStep
<1>5. ASSUME ~astray'
      PROVE  CrashOK' /\ StepOK'
  <2>1. ~astray /\ linked /\ jfile.vis.log = mem.records
    BY <1>1, <1>5 DEF Astray
  <2>2. CrashOK /\ StepOK /\ MemOK
    BY <1>1, <2>1 DEF JournalInv, StepOK
  <2>3. jfile' = WrittenTo(jfile, 0)
    BY <1>1, <2>1 DEF Written, WrittenTo
  <2>4. CrashOK' /\ MemOK'
    BY <1>1, <1>2, <2>1, <2>2, <2>3, VersionsNat, TypesOf, WriteCrash
  <2> QED
    BY <1>1, <2>1, <2>4, OpenStep
<1> QED
  BY <1>4, <1>5 DEF JournalInv

(* The file holds one more version, and is synced with its directory: the  *)
(* version may be acknowledged.                                            *)
LEMMA AckCrash ==
  ASSUME CrashOK, jfile' \in Files, jfile'.vis = jfile.vis, jfile'.older = {},
         jfile'.synced = Len(jfile'.vis.log), Clean(jfile.vis),
         CheckpointAfterCrash(cfile') \subseteq CheckpointAfterCrash(cfile),
         jfile.vis \in AfterCrash(jfile),
         NEW v, Has(jfile.vis.floor, jfile.vis.log, v), acked' = acked \cup {v}
  PROVE  CrashOK'
<1>1. AfterCrash(jfile') = {jfile.vis}
  BY CrashSynced
<1>2. Keeps(jfile.vis, v)
  BY CleanFacts
<1> QED
  BY <1>1, <1>2 DEF CrashOK

LEMMA AppendSyncedInv ==
  ASSUME JournalInv, AppendSynced
  PROVE  JournalInv'
<1> DEFINE s == Append(mem.records, req.version)
<1>1. /\ jpc = "written"
      /\ jfile' = IF linked THEN [jfile EXCEPT !.synced = Len(jfile.vis.log)] ELSE jfile
      /\ mem' = [mem EXCEPT !.records = s]
      /\ acked' = IF req.op = "put" THEN acked \cup {req.version} ELSE acked
      /\ jpc' = IF req.op = "put" THEN "open" ELSE "applied"
      /\ UNCHANGED <<cfile, linked, req, astray, faults>>
  BY DEF AppendSynced
<1>2. SizesOK
  BY DEF JournalInv
<1>3. /\ mem \in Memory /\ mem.records \in Seq(Versions) /\ Len(mem.records) \in Nat
      /\ Len(mem.records) < MaxEntries /\ req.version \in Versions /\ mem.floor \in Versions
      /\ MaxEntries \in Nat
  BY <1>1, <1>2, TypesOf, VersionsNat DEF SizesOK
<1>4. s \in Seq(Versions) /\ Len(s) = Len(mem.records) + 1
  BY <1>3, AppendProperties
<1> HIDE DEF s
<1>5. mem' \in Memory /\ mem'.records = s /\ mem'.floor = mem.floor /\ Len(mem'.records) <= MaxEntries
  <2>1. mem' \in Memory /\ mem'.records = s /\ mem'.floor = mem.floor
    BY <1>1, <1>3, <1>4 DEF Memory
  <2>2. Len(s) <= MaxEntries
    BY <1>3, <1>4
  <2> QED
    BY <2>1, <2>2
<1>6. /\ jfile' \in Files /\ jfile'.vis = jfile.vis /\ jfile'.older = jfile.older
      /\ jfile'.synced \in {jfile.synced, Len(jfile.vis.log)}
      /\ linked => jfile'.synced = Len(jfile'.vis.log)
  BY <1>1, <1>2, TypesOf DEF Files
<1>7. SizesOK'
  <2>1. jpc' \in Pcs /\ jpc' \notin Rewriting /\ jpc' # "header" /\ jpc' # "written"
    BY <1>1 DEF Pcs, Rewriting
  <2>2. jfile'.synced <= Len(jfile'.vis.log)
    BY <1>2, <1>6, TypesOf
  <2>3. acked' \subseteq Versions
    BY <1>1, <1>2, <1>3, TypesOf
  <2> QED
    BY <1>1, <1>2, <1>5, <1>6, <2>1, <2>2, <2>3, TypesOf, SizesStep
<1>8. ASSUME ~astray
      PROVE  CrashOK' /\ StepOK'
  <2>1. CrashOK /\ linked /\ MemOK /\ jfile.vis.log = s /\ req.version > LastVersion(mem)
        /\ (req.op = "put" => jfile.older = {})
    BY <1>1, <1>8 DEF JournalInv, StepOK, s
  <2>2. Ascending(mem.floor, s)
    BY <1>3, <2>1, AscendingAppend DEF MemOK, s
  <2>3. Clean(jfile.vis) /\ jfile.vis.floor = mem.floor /\ jfile.vis \in AfterCrash(jfile)
    <3>1. Len(s) <= MaxEntries
      BY <1>5
    <3> QED
      BY <1>2, <2>1, <2>2, <3>1, TypesOf DEF MemOK, Clean
  <2>4. InLog(s, req.version) /\ \A v : InLog(mem.records, v) => InLog(s, v)
    BY <1>3, InAppend DEF s
  <2>5. Has(mem.floor, s, req.version) /\ \A v \in acked : Has(mem.floor, s, v)
    BY <2>1, <2>4 DEF MemOK, Has
  <2>6. CrashOK'
    <3>1. CASE req.op = "put"
      BY <1>1, <1>6, <2>1, <2>3, <2>5, <3>1, AckCrash
    <3>2. CASE req.op # "put"
      <4>1. AfterCrash(jfile') = {jfile.vis} \cup jfile.older
        BY <1>6, <2>1, CrashSynced
      <4>2. AfterCrash(jfile') \subseteq AfterCrash(jfile)
        BY <2>3, <4>1 DEF AfterCrash
      <4> QED
        BY <1>1, <1>6, <2>1, <3>2, <4>2, CrashShrinks
    <3> QED
      BY <3>1, <3>2
  <2>7. MemOK'
    BY <1>1, <1>5, <1>6, <2>1, <2>2, <2>5 DEF MemOK
  <2>8. StepOK'
    BY <1>1, <1>5, <1>6, <2>1, <2>5, <2>7 DEF StepOK, Rewriting
  <2> QED
    BY <2>6, <2>8
<1> QED
  BY <1>1, <1>7, <1>8 DEF JournalInv

LEMMA AckPersistedInv ==
  ASSUME JournalInv, AckPersisted
  PROVE  JournalInv'
<1>1. /\ jpc = "applied" /\ jpc' = "open"
      /\ jfile' = SyncedDir(jfile) /\ cfile' = SyncedDir(cfile)
      /\ acked' = acked \cup {req.version} /\ UNCHANGED <<mem, linked, req, astray, faults>>
  BY DEF AckPersisted
<1>2. SizesOK
  BY DEF JournalInv
<1>3. /\ jfile' \in Files /\ jfile'.vis = jfile.vis /\ jfile'.synced = jfile.synced
      /\ jfile'.older = {}
  BY <1>1, <1>2, TypesOf, SyncedDirFacts
<1>4. cfile' \in Checkpoints /\ CheckpointAfterCrash(cfile') \subseteq CheckpointAfterCrash(cfile)
  BY <1>1, <1>2, TypesOf, VersionsNat, CheckpointFacts
<1>5. SizesOK'
  <2>1. jpc' \in Pcs /\ jpc' \notin Rewriting /\ jpc' # "header" /\ jpc' # "written"
    BY <1>1 DEF Pcs, Rewriting
  <2>2. jfile'.synced <= Len(jfile'.vis.log) /\ acked' \subseteq Versions
    BY <1>1, <1>2, <1>3, TypesOf
  <2> QED
    BY <1>1, <1>2, <1>3, <1>4, <2>1, <2>2, TypesOf, SizesStep
<1>6. ASSUME ~astray
      PROVE  CrashOK' /\ StepOK'
  <2>1. /\ CrashOK /\ linked /\ MemOK /\ jfile.vis.log = mem.records
        /\ jfile.synced = Len(jfile.vis.log) /\ Has(mem.floor, mem.records, req.version)
    BY <1>1, <1>6 DEF JournalInv, StepOK
  <2>2. Clean(jfile.vis) /\ jfile.vis.floor = mem.floor /\ jfile.vis \in AfterCrash(jfile)
    BY <1>2, <2>1, MemClean, TypesOf DEF MemOK
  <2>3. CrashOK'
    BY <1>1, <1>3, <1>4, <2>1, <2>2, AckCrash
  <2>4. MemOK'
    BY <1>1, <1>3, <2>1 DEF MemOK
  <2> QED
    BY <1>1, <2>1, <2>3, <2>4, OpenStep
<1> QED
  BY <1>1, <1>5, <1>6 DEF JournalInv

-----------------------------------------------------------------------------
(* Compaction and snapshots. *)

LEMMA GreatestNat ==
  ASSUME NEW T \in SUBSET Nat, NEW b \in Nat, T # {}, \A y \in T : y <= b
  PROVE  \E x \in T : \A y \in T : y <= x
<1> DEFINE U == {b - y : y \in T}
<1>1. U \in SUBSET Nat
  OBVIOUS
<1>2. U # {}
  <2>1. PICK t \in T : TRUE
    OBVIOUS
  <2>2. b - t \in U
    OBVIOUS
  <2> QED
    BY <2>2
<1> HIDE DEF U
<1>3. PICK u \in U : \A y \in U : u <= y
  BY <1>1, <1>2, LeastNat
<1>4. PICK x \in T : u = b - x
  BY <1>3 DEF U
<1>5. \A y \in T : y <= x
  <2> TAKE y \in T
  <2>1. b - y \in U
    BY DEF U
  <2> QED
    BY <1>3, <1>4, <2>1
<1> QED
  BY <1>5

(* TailAfter(w) is what follows the last record up to w. *)
LEMMA TailFacts ==
  ASSUME mem \in Memory, Len(mem.records) <= MaxEntries, NEW w \in Versions
  PROVE  \E n \in 0..Len(mem.records) :
           /\ TailAfter(w) = SubSeq(mem.records, n + 1, Len(mem.records))
           /\ n # 0 => mem.records[n] <= w
           /\ \A i \in 1..Len(mem.records) : n < i => ~(mem.records[i] <= w)
<1> DEFINE s == mem.records
           T == {i \in 1..Len(s) : s[i] <= w}
           n == IF T = {} THEN 0 ELSE CHOOSE i \in T : \A k \in T : k <= i
<1>1. s \in Seq(Versions) /\ Len(s) \in Nat
  BY LogTypes DEF Memory
<1>2. TailAfter(w) = SubSeq(s, n + 1, Len(s))
  BY DEF TailAfter
<1>3. CASE T = {}
  <2>1. n = 0 /\ n \in 0..Len(s)
    BY <1>1, <1>3
  <2>2. \A i \in 1..Len(s) : ~(s[i] <= w)
    BY <1>3
  <2> QED
    BY <1>2, <2>1, <2>2
<1>4. CASE T # {}
  <2>1. T \in SUBSET Nat /\ \A y \in T : y <= Len(s)
    BY <1>1
  <2>2. \E i \in T : \A k \in T : k <= i
    BY <1>1, <1>4, <2>1, GreatestNat
  <2>3. n \in T /\ \A k \in T : k <= n
    BY <1>4, <2>2
  <2>4. n \in 1..Len(s) /\ s[n] <= w
    BY <2>3
  <2> HIDE DEF n
  <2>5. \A i \in 1..Len(s) : n < i => i \notin T
    <3> SUFFICES ASSUME NEW i \in 1..Len(s), n < i, i \in T PROVE FALSE
      OBVIOUS
    <3>1. i <= n
      BY <2>3
    <3> QED
      BY <1>1, <2>4, <3>1
  <2>6. n \in 0..Len(s)
    BY <1>1, <2>4
  <2> QED
    BY <1>2, <2>4, <2>5, <2>6
<1> QED
  BY <1>3, <1>4

LEMMA SuffixFacts ==
  ASSUME NEW s \in Seq(Versions), NEW n \in 0..Len(s), NEW t, t = SubSeq(s, n + 1, Len(s))
  PROVE  /\ t \in Seq(Versions) /\ Len(t) = Len(s) - n
         /\ \A i \in 1..Len(s) - n : t[i] = s[n + i]
<1>1. Len(s) \in Nat /\ n \in Nat /\ n <= Len(s) /\ n + 1 \in Int /\ Len(s) \in Int
  BY LogTypes
<1>2. \A i \in n + 1..Len(s) : s[i] \in Versions
  BY <1>1, LogTypes
<1>3. /\ t \in Seq(Versions)
      /\ Len(t) = IF n + 1 <= Len(s) THEN Len(s) - (n + 1) + 1 ELSE 0
      /\ \A i \in 1..Len(s) - (n + 1) + 1 : t[i] = s[n + 1 + i - 1]
  BY <1>1, <1>2, SubSeqProperties
<1>4. Len(s) - (n + 1) + 1 = Len(s) - n /\ \A i \in Nat : n + 1 + i - 1 = n + i
  BY <1>1
<1>5. Len(t) = Len(s) - n
  BY <1>1, <1>3
<1>6. \A i \in 1..Len(s) - n : t[i] = s[n + i]
  <2> TAKE i \in 1..Len(s) - n
  <2>1. t[i] = s[n + 1 + i - 1]
    BY <1>3, <1>4
  <2>2. n + 1 + i - 1 = n + i
    BY <1>1
  <2> QED
    BY <2>1, <2>2
<1> QED
  BY <1>3, <1>5, <1>6

LEMMA TailTypes ==
  ASSUME mem \in Memory, Len(mem.records) <= MaxEntries, NEW w \in Versions
  PROVE  TailAfter(w) \in Seq(Versions) /\ Len(TailAfter(w)) <= MaxEntries
<1>1. PICK n \in 0..Len(mem.records) : TailAfter(w) = SubSeq(mem.records, n + 1, Len(mem.records))
  BY TailFacts
<1>2. mem.records \in Seq(Versions) /\ Len(mem.records) \in Nat
  BY LogTypes DEF Memory
<1>3. TailAfter(w) \in Seq(Versions) /\ Len(TailAfter(w)) = Len(mem.records) - n
  BY <1>1, <1>2, SuffixFacts
<1> QED
  BY <1>2, <1>3, VersionsNat

(* The checkpoint up to w and the tail after it have what the journal has. *)
LEMMA TailKeeps ==
  ASSUME mem \in Memory, Len(mem.records) <= MaxEntries, NEW w \in Versions,
         Ascending(mem.floor, mem.records), mem.floor <= w
  PROVE  /\ Ascending(w, TailAfter(w))
         /\ \A v : Has(mem.floor, mem.records, v) /\ v \in Nat => Has(w, TailAfter(w), v)
<1> DEFINE s == mem.records
           t == TailAfter(w)
<1>1. /\ s \in Seq(Versions) /\ s \in Seq(Nat) /\ Len(s) \in Nat /\ mem.floor \in Nat /\ w \in Nat
      /\ \A i \in 1..Len(s) : s[i] \in Nat
  BY LogTypes, VersionsNat DEF Memory
<1>2. PICK n \in 0..Len(s) : /\ t = SubSeq(s, n + 1, Len(s))
                             /\ n # 0 => s[n] <= w
                             /\ \A i \in 1..Len(s) : n < i => ~(s[i] <= w)
  BY TailFacts
<1>3. Len(t) = Len(s) - n /\ \A i \in 1..Len(s) - n : t[i] = s[n + i]
  BY <1>1, <1>2, SuffixFacts
<1>4. \A j \in 1..Len(s) : \A i \in 1..Len(s) : i < j => s[i] < s[j]
  BY <1>1, AscendingOrder
<1> HIDE DEF s, t
<1>5. Ascending(w, t)
  <2> SUFFICES ASSUME NEW i \in 1..Len(t)
               PROVE  t[i] > (IF i = 1 THEN w ELSE t[i - 1])
    BY DEF Ascending
  <2>1. n + i \in 1..Len(s) /\ n < n + i /\ i \in 1..Len(s) - n
    BY <1>1, <1>3
  <2>2. t[i] = s[n + i] /\ s[n + i] \in Nat
    BY <1>1, <1>3, <2>1
  <2>3. CASE i = 1
    <3>1. ~(s[n + i] <= w)
      BY <1>2, <2>1
    <3> QED
      BY <1>1, <2>2, <2>3, <3>1
  <2>4. CASE i # 1
    <3>1. i - 1 \in 1..Len(s) - n /\ n + (i - 1) \in 1..Len(s) /\ n + (i - 1) < n + i
      BY <1>1, <2>1, <2>4
    <3>2. t[i - 1] = s[n + (i - 1)] /\ s[n + (i - 1)] \in Nat
      BY <1>1, <1>3, <3>1
    <3>3. s[n + (i - 1)] < s[n + i]
      BY <1>4, <2>1, <3>1
    <3> QED
      BY <2>2, <2>4, <3>2, <3>3
  <2> QED
    BY <2>3, <2>4
<1>6. ASSUME NEW v \in Nat, Has(mem.floor, s, v)
      PROVE  Has(w, t, v)
  <2>1. CASE v <= mem.floor
    BY <1>1, <2>1 DEF Has
  <2>2. CASE InLog(s, v)
    <3>1. PICK i \in 1..Len(s) : s[i] = v
      BY <2>2 DEF InLog
    <3>2. CASE i <= n
      <4>1. n \in 1..Len(s) /\ n # 0 /\ s[n] <= w
        BY <1>1, <1>2, <3>2
      <4>2. i = n \/ s[i] < s[n]
        BY <1>1, <1>4, <3>2, <4>1
      <4>3. v <= w
        BY <1>1, <3>1, <4>1, <4>2
      <4> QED
        BY <4>3 DEF Has
    <3>3. CASE ~(i <= n)
      <4>1. i - n \in 1..Len(s) - n /\ n + (i - n) = i
        BY <1>1, <3>3
      <4>2. t[i - n] = v /\ i - n \in 1..Len(t)
        BY <1>3, <3>1, <4>1
      <4> QED
        BY <4>2 DEF Has, InLog
    <3> QED
      BY <3>2, <3>3
  <2> QED
    BY <1>6, <2>1, <2>2 DEF Has
<1> QED
  BY <1>5, <1>6 DEF s, t

(* No record is newer than the last one. *)
LEMMA LastIsLargest ==
  ASSUME mem \in Memory, Ascending(mem.floor, mem.records)
  PROVE  /\ LastVersion(mem) \in Nat /\ mem.floor <= LastVersion(mem)
         /\ \A v \in Nat : Has(mem.floor, mem.records, v) => v <= LastVersion(mem)
<1> DEFINE s == mem.records
           n == Len(mem.records)
<1>1. /\ s \in Seq(Versions) /\ s \in Seq(Nat) /\ n \in Nat /\ mem.floor \in Nat
      /\ \A i \in 1..n : s[i] \in Nat
  BY LogTypes, VersionsNat DEF Memory
<1>2. \A j \in 1..n : s[j] > mem.floor /\ \A i \in 1..n : i < j => s[i] < s[j]
  BY <1>1, AscendingOrder
<1>3. CASE s = <<>>
  <2>1. LastVersion(mem) = mem.floor /\ n = 0
    BY <1>3, EmptySeq DEF LastVersion
  <2>2. \A v : ~InLog(s, v)
    BY <2>1 DEF InLog
  <2>3. mem.floor <= mem.floor
    BY <1>1
  <2> QED
    BY <1>1, <2>1, <2>2, <2>3 DEF Has
<1>4. CASE s # <<>>
  <2>1. n # 0 /\ LastVersion(mem) = s[n]
    BY <1>1, <1>4, EmptySeq DEF LastVersion
  <2>2. n \in 1..n /\ s[n] \in Nat /\ s[n] > mem.floor
    BY <1>1, <1>2, <2>1
  <2> HIDE DEF s, n
  <2>3. ASSUME NEW v \in Nat, Has(mem.floor, s, v)
        PROVE  v <= s[n]
    <3>1. CASE v <= mem.floor
      BY <1>1, <2>2, <3>1
    <3>2. CASE InLog(s, v)
      <4>1. PICK i \in 1..n : s[i] = v
        BY <3>2 DEF InLog, s, n
      <4>2. i = n \/ i < n
        BY <1>1
      <4>3. i = n \/ s[i] < s[n]
        BY <1>2, <2>2, <4>2
      <4> QED
        BY <1>1, <2>2, <4>1, <4>3
    <3> QED
      BY <2>3, <3>1, <3>2 DEF Has
  <2>4. mem.floor <= s[n]
    BY <1>1, <2>2
  <2> QED
    BY <2>1, <2>2, <2>3, <2>4 DEF s
<1> QED
  BY <1>3, <1>4

(* Compact and InstallSnapshot up to the rename of the checkpoint. *)
LEMMA CheckpointInv ==
  ASSUME JournalInv, NEW w \in 1..MaxVersion, CompactCheckpoint(w) \/ InstallCheckpoint(w)
  PROVE  JournalInv'
<1>1. /\ jpc = "open" /\ jpc' = "cprenamed" /\ cfile' = CheckpointReplaced(cfile, w)
      /\ astray' = (astray \/ ~linked) /\ UNCHANGED <<jfile, mem, linked, acked, faults>>
  BY DEF CompactCheckpoint, InstallCheckpoint
<1>2. SizesOK
  BY DEF JournalInv
<1>3. w \in Versions /\ w \in Nat
  BY JournalAssumption DEF Versions
<1>4. \/ /\ mem.floor < w /\ req' = [op |-> "compact", version |-> w, tail |-> TailAfter(w)]
      \/ /\ w >= LastVersion(mem) /\ req' = [op |-> "install", version |-> w, tail |-> <<>>]
  BY DEF CompactCheckpoint, InstallCheckpoint
<1>5. /\ TailAfter(w) \in Seq(Versions) /\ Len(TailAfter(w)) <= MaxEntries
      /\ <<>> \in Seq(Versions) /\ Len(<<>>) <= MaxEntries
  <2>1. TailAfter(w) \in Seq(Versions) /\ Len(TailAfter(w)) <= MaxEntries
    BY <1>2, <1>3, TypesOf, TailTypes
  <2>2. <<>> \in Seq(Versions) /\ Len(<<>>) = 0 /\ MaxEntries \in Nat
    BY EmptySeq, VersionsNat
  <2>3. 0 <= MaxEntries
    BY <2>2
  <2> QED
    BY <2>1, <2>2, <2>3
<1>6. req' \in Requests /\ req'.version = w /\ Len(req'.tail) <= MaxEntries
  <2>1. \A x \in Ops, t \in Seq(Versions) :
          [op |-> x, version |-> w, tail |-> t] \in Requests
    BY <1>3 DEF Requests
  <2>2. CASE req' = [op |-> "compact", version |-> w, tail |-> TailAfter(w)]
    <3>1. req' \in Requests /\ req'.version = w /\ req'.tail = TailAfter(w)
      BY <1>5, <2>1, <2>2 DEF Ops
    <3> QED
      BY <1>5, <3>1
  <2>3. CASE req' = [op |-> "install", version |-> w, tail |-> <<>>]
    <3>1. req' \in Requests /\ req'.version = w /\ req'.tail = <<>>
      BY <1>5, <2>1, <2>3 DEF Ops
    <3> QED
      BY <1>5, <3>1
  <2> QED
    BY <1>4, <2>2, <2>3
<1>7. /\ cfile' \in Checkpoints /\ cfile'.vis = w
      /\ CheckpointAfterCrash(cfile') = {w} \cup CheckpointAfterCrash(cfile)
  BY <1>1, <1>2, <1>3, TypesOf, CheckpointFacts
<1>8. SizesOK'
  <2>1. jpc' \in Pcs /\ jpc' # "header" /\ jpc' # "written"
    BY <1>1 DEF Pcs
  <2>2. astray' \in BOOLEAN
    BY <1>1
  <2> QED
    BY <1>1, <1>2, <1>6, <1>7, <2>1, <2>2, TypesOf, SizesStep
<1>9. ASSUME ~astray'
      PROVE  CrashOK' /\ StepOK'
  <2>1. CrashOK /\ linked /\ MemOK /\ mem \in Memory /\ Ascending(mem.floor, mem.records)
        /\ jfile.vis.floor = mem.floor
    BY <1>1, <1>2, <1>9, TypesOf DEF JournalInv, StepOK, MemOK
  <2>2. LastVersion(mem) \in Nat /\ mem.floor <= LastVersion(mem) /\ mem.floor \in Nat
    BY <1>2, <2>1, LastIsLargest, TypesOf, VersionsNat
  <2>3. mem.floor <= w
    BY <1>3, <1>4, <2>2
  <2>4. \A v \in acked : Has(mem.floor, mem.records, v) /\ v \in Nat
    BY <1>2, <2>1, TypesOf, VersionsNat DEF MemOK
  <2>5. Ascending(w, req'.tail) /\ \A v \in acked : Has(w, req'.tail, v)
    <3>1. CASE req' = [op |-> "compact", version |-> w, tail |-> TailAfter(w)]
      <4>1. req'.tail = TailAfter(w)
        BY <3>1
      <4>2. /\ Ascending(w, TailAfter(w))
            /\ \A v : Has(mem.floor, mem.records, v) /\ v \in Nat => Has(w, TailAfter(w), v)
        BY <1>2, <1>3, <2>1, <2>3, TypesOf, TailKeeps
      <4> QED
        BY <2>4, <4>1, <4>2
    <3>2. CASE w >= LastVersion(mem) /\ req' = [op |-> "install", version |-> w, tail |-> <<>>]
      <4>1. req'.tail = <<>>
        BY <3>2
      <4>2. \A v \in acked : v <= LastVersion(mem) /\ v \in Nat
        BY <2>1, <2>4, LastIsLargest
      <4>3. \A v \in acked : v <= w
        BY <1>3, <2>2, <3>2, <4>2
      <4> QED
        BY <4>1, <4>3, AscendingEmpty DEF Has
    <3> QED
      BY <1>4, <3>1, <3>2
  <2>6. CrashOK'
    <3>1. ASSUME NEW c \in AfterCrash(jfile)
          PROVE  c.floor <= w
      <4>1. c.floor <= mem.floor /\ c \in Content
        BY <1>2, <2>1, TypesOf, CrashTypes DEF CrashOK
      <4>2. c.floor \in Nat
        BY <4>1, ContentTypes
      <4> QED
        BY <1>3, <2>2, <2>3, <4>1, <4>2
    <3> QED
      BY <1>1, <1>7, <2>1, <3>1 DEF CrashOK
  <2>7. MemOK'
    BY <1>1, <2>1, MemKept
  <2>8. ReqOK'
    BY <1>1, <1>6, <2>5 DEF ReqOK
  <2>9. StepOK'
    BY <1>1, <1>6, <1>7, <2>1, <2>3, <2>7, <2>8 DEF StepOK
  <2> QED
    BY <2>6, <2>9
<1> QED
  BY <1>8, <1>9 DEF JournalInv

LEMMA CheckpointSyncedInv ==
  ASSUME JournalInv, CheckpointSynced
  PROVE  JournalInv'
<1>1. /\ jpc = "cprenamed" /\ jpc' = "checkpointed"
      /\ jfile' = SyncedDir(jfile) /\ cfile' = SyncedDir(cfile)
      /\ UNCHANGED <<mem, linked, req, acked, astray, faults>>
  BY DEF CheckpointSynced
<1>2. SizesOK
  BY DEF JournalInv
<1>3. /\ jfile' \in Files /\ jfile'.vis = jfile.vis /\ jfile'.synced = jfile.synced
      /\ AfterCrash(jfile') \subseteq AfterCrash(jfile)
  BY <1>1, <1>2, TypesOf, SyncedDirFacts
<1>4. /\ cfile' \in Checkpoints /\ cfile'.vis = cfile.vis /\ cfile'.older = {}
      /\ CheckpointAfterCrash(cfile') \subseteq CheckpointAfterCrash(cfile)
  BY <1>1, <1>2, TypesOf, VersionsNat, CheckpointFacts
<1>5. SizesOK'
  <2>1. jpc' \in Pcs /\ jpc' # "header" /\ jpc' # "written"
    BY <1>1 DEF Pcs
  <2>2. jfile'.synced <= Len(jfile'.vis.log) /\ Len(req'.tail) <= MaxEntries
    BY <1>1, <1>2, <1>3, TypesOf DEF SizesOK, Rewriting
  <2> QED
    BY <1>1, <1>2, <1>3, <1>4, <2>1, <2>2, TypesOf, SizesStep
<1>6. ASSUME ~astray
      PROVE  CrashOK' /\ StepOK'
  <2>1. CrashOK /\ linked /\ MemOK /\ ReqOK /\ mem.floor <= req.version /\ cfile.vis = req.version
    BY <1>1, <1>6 DEF JournalInv, StepOK, Rewriting
  <2>2. CrashOK'
    BY <1>1, <1>3, <1>4, <2>1, CrashShrinks
  <2>3. MemOK' /\ ReqOK'
    BY <1>1, <1>3, <2>1, MemKept DEF ReqOK
  <2>4. StepOK'
    BY <1>1, <1>4, <2>1, <2>3 DEF StepOK
  <2> QED
    BY <2>2, <2>4
<1> QED
  BY <1>1, <1>5, <1>6 DEF JournalInv

(* The rewritten journal keeps what the old one kept, and its floor is the *)
(* watermark of a checkpoint that is on the disk.                          *)
LEMMA JournalRenameInv ==
  ASSUME JournalInv, JournalRename
  PROVE  JournalInv'
<1> DEFINE u == Whole(req.version, req.tail)
<1>1. /\ jpc = "checkpointed" /\ jpc' = "jrenamed" /\ linked' = FALSE
      /\ jfile' = [vis |-> u, synced |-> Len(u.log), older |-> AfterCrash(jfile)]
      /\ UNCHANGED <<cfile, mem, req, acked, astray, faults>>
  BY DEF JournalRename, JournalReplaced
<1>2. SizesOK /\ Len(req.tail) <= MaxEntries
  BY <1>1 DEF JournalInv, SizesOK, Rewriting
<1>3. u \in Content /\ u.floor = req.version /\ u.log = req.tail /\ Len(u.log) \in Nat
  BY <1>2, TypesOf DEF Whole, Content
<1>4. AfterCrash(jfile) \in SUBSET Content
  BY <1>2, TypesOf, CrashTypes
<1> HIDE DEF u
<1>5. jfile' \in Files /\ jfile'.vis = u /\ jfile'.synced = Len(u.log)
      /\ jfile'.older = AfterCrash(jfile)
  BY <1>1, <1>3, <1>4 DEF Files
<1>6. SizesOK'
  <2>1. jpc' \in Pcs /\ jpc' # "header" /\ jpc' # "written" /\ linked' \in BOOLEAN
    BY <1>1 DEF Pcs
  <2>2. jfile'.synced <= Len(jfile'.vis.log)
    BY <1>3, <1>5
  <2> QED
    BY <1>1, <1>2, <1>5, <2>1, <2>2, TypesOf, SizesStep
<1>7. ASSUME ~astray
      PROVE  CrashOK' /\ StepOK'
  <2>1. /\ CrashOK /\ linked /\ MemOK /\ ReqOK /\ mem.floor <= req.version
        /\ cfile.vis = req.version /\ cfile.older = {}
    BY <1>1, <1>7 DEF JournalInv, StepOK, Rewriting
  <2>2. Clean(u)
    BY <1>2, <2>1, TypesOf, WholeFacts DEF ReqOK, u
  <2>3. FileOK(u) /\ \A v \in acked : Keeps(u, v)
    BY <1>3, <2>1, <2>2, CleanFacts DEF ReqOK
  <2>4. AfterCrash(jfile') = {u} \cup AfterCrash(jfile)
    BY <1>5, CrashSynced
  <2>5. CheckpointAfterCrash(cfile) = {req.version} /\ req.version \in Nat
    BY <1>2, <2>1, TypesOf, VersionsNat DEF CheckpointAfterCrash
  <2>6. ASSUME NEW c \in AfterCrash(jfile)
        PROVE  c.floor <= req.version
    BY <2>1, <2>5, <2>6 DEF CrashOK
  <2>7. req.version <= req.version
    BY <2>5
  <2>8. CrashOK'
    BY <1>1, <1>3, <1>5, <2>1, <2>3, <2>4, <2>5, <2>6, <2>7 DEF CrashOK
  <2>9. ReqOK'
    BY <1>1, <2>1 DEF ReqOK
  <2>10. StepOK'
    BY <1>1, <1>5, <2>9 DEF StepOK, u
  <2> QED
    BY <2>8, <2>10
<1> QED
  BY <1>1, <1>6, <1>7 DEF JournalInv

LEMMA RewriteDoneInv ==
  ASSUME JournalInv, RewriteDone
  PROVE  JournalInv'
<1>1. /\ jpc = "jrenamed" /\ jpc' = IF req.op = "compact" THEN "open" ELSE "applied"
      /\ jfile' = SyncedDir(jfile) /\ cfile' = SyncedDir(cfile) /\ linked' = TRUE
      /\ mem' = [floor |-> req.version, records |-> req.tail]
      /\ UNCHANGED <<req, acked, astray, faults>>
  BY DEF RewriteDone
<1>2. SizesOK /\ Len(req.tail) <= MaxEntries
  BY <1>1 DEF JournalInv, SizesOK, Rewriting
<1>3. /\ jfile' \in Files /\ jfile'.vis = jfile.vis /\ jfile'.synced = jfile.synced
      /\ AfterCrash(jfile') \subseteq AfterCrash(jfile)
  BY <1>1, <1>2, TypesOf, SyncedDirFacts
<1>4. /\ cfile' \in Checkpoints
      /\ CheckpointAfterCrash(cfile') \subseteq CheckpointAfterCrash(cfile)
  BY <1>1, <1>2, TypesOf, VersionsNat, CheckpointFacts
<1>5. mem' \in Memory /\ mem'.floor = req.version /\ mem'.records = req.tail
  BY <1>1, <1>2, TypesOf DEF Memory
<1>6. SizesOK'
  <2>1. jpc' \in Pcs /\ jpc' # "header" /\ jpc' # "written" /\ linked' \in BOOLEAN
        /\ jpc' \notin Rewriting
    BY <1>1 DEF Pcs, Rewriting
  <2>2. jfile'.synced <= Len(jfile'.vis.log) /\ Len(mem'.records) <= MaxEntries
    BY <1>2, <1>3, <1>5, TypesOf
  <2> QED
    BY <1>1, <1>2, <1>3, <1>4, <1>5, <2>1, <2>2, TypesOf, SizesStep
<1>7. ASSUME ~astray
      PROVE  CrashOK' /\ StepOK'
  <2>1. /\ CrashOK /\ ReqOK /\ jfile.vis = Whole(req.version, req.tail)
        /\ jfile.synced = Len(jfile.vis.log)
    BY <1>1, <1>7 DEF JournalInv, StepOK, Rewriting
  <2>2. jfile.vis.head = "whole" /\ jfile.vis.floor = req.version /\ jfile.vis.log = req.tail
    BY <2>1 DEF Whole
  <2>3. CrashOK'
    BY <1>1, <1>3, <1>4, <2>1, CrashShrinks
  <2>4. MemOK'
    BY <1>1, <1>3, <1>5, <2>1, <2>2 DEF MemOK, ReqOK
  <2>5. Has(req.version, req.tail, req.version)
    <3>1. req.version \in Nat
      BY <1>2, TypesOf, VersionsNat
    <3> QED
      BY <3>1 DEF Has
  <2>6. StepOK'
    BY <1>1, <1>3, <1>5, <2>1, <2>2, <2>4, <2>5 DEF StepOK, Rewriting
  <2> QED
    BY <2>3, <2>6
<1> QED
  BY <1>1, <1>6, <1>7 DEF JournalInv

-----------------------------------------------------------------------------
LEMMA InitInv == JournalInit => JournalInv
<1> SUFFICES ASSUME JournalInit PROVE JournalInv
  OBVIOUS
<1> DEFINE u == Headless("none")
<1>1. /\ jfile = [vis |-> u, synced |-> 0, older |-> {}] /\ cfile = [vis |-> 0, older |-> {}]
      /\ mem = NoMemory /\ linked = TRUE /\ jpc = "down" /\ req = NoRequest /\ acked = {}
      /\ astray = FALSE /\ faults = 0
  BY DEF JournalInit
<1>2. u \in Content /\ u.floor = 0 /\ Len(u.log) = 0 /\ FileOK(u)
  BY Constants
<1> HIDE DEF u
<1>3. jfile \in Files /\ jfile.vis = u /\ jfile.synced = 0 /\ jfile.older = {}
  BY <1>1, <1>2 DEF Files
<1>4. cfile \in Checkpoints /\ CheckpointAfterCrash(cfile) = {0}
  BY <1>1, VersionsNat DEF Checkpoints, CheckpointAfterCrash
<1>5. faults \in 0..MaxFaults /\ 0 <= 0
  BY <1>1, JournalAssumption
<1>6. JournalTypeOK
  BY <1>1, <1>3, <1>4, <1>5, Constants, TypesAre DEF Pcs
<1>7. jfile.synced <= Len(jfile.vis.log)
  BY <1>2, <1>3, <1>5
<1>8. SizesOK
  BY <1>1, <1>6, <1>7 DEF SizesOK, Rewriting
<1>9. AfterCrash(jfile) = {u}
  BY <1>2, <1>3, CrashSynced
<1>10. CrashOK
  BY <1>1, <1>2, <1>3, <1>4, <1>5, <1>9 DEF CrashOK
<1>11. StepOK
  BY <1>1 DEF StepOK, Rewriting
<1> QED
  BY <1>8, <1>10, <1>11 DEF JournalInv

LEMMA StutterInv == JournalInv /\ UNCHANGED jvars => JournalInv'
<1> SUFFICES ASSUME JournalInv, UNCHANGED jvars PROVE JournalInv'
  OBVIOUS
<1>1. /\ jfile' = jfile /\ cfile' = cfile /\ mem' = mem /\ linked' = linked /\ jpc' = jpc
      /\ req' = req /\ acked' = acked /\ astray' = astray /\ faults' = faults
  BY DEF jvars
<1>2. SizesOK'
  BY <1>1 DEF JournalInv, SizesOK, JournalTypeOK
<1>3. CrashOK => CrashOK'
  BY <1>1 DEF CrashOK
<1>4. MemOK' = MemOK /\ ReqOK' = ReqOK
  BY <1>1 DEF MemOK, ReqOK
<1>5. StepOK => StepOK'
  BY <1>1, <1>4 DEF StepOK
<1> QED
  BY <1>1, <1>2, <1>3, <1>5 DEF JournalInv

LEMMA NextInv == JournalInv /\ [JournalNext]_jvars => JournalInv'
<1> SUFFICES ASSUME JournalInv, [JournalNext]_jvars PROVE JournalInv'
  OBVIOUS
<1>1. CASE OpenCreate \/ HeaderSynced \/ HeaderFails \/ OpenExisting \/ Loaded \/ LoadRefused
  BY <1>1, OpenCreateInv, HeaderSyncedInv, HeaderFailsInv, OpenExistingInv, ToOpenInv, ToDownInv
<1>2. ASSUME NEW v \in 1..MaxVersion,
             \/ PutWrite(v) \/ ApplyWrite(v) \/ AppendTorn(v)
             \/ CompactCheckpoint(v) \/ InstallCheckpoint(v)
      PROVE  JournalInv'
  BY <1>2, WriteInv, AppendTornInv, CheckpointInv
<1>3. CASE AppendSynced \/ AppendSyncFails \/ AckPersisted \/ AckFails
  BY <1>3, AppendSyncedInv, ToOpenInv, AckPersistedInv
<1>4. CASE CheckpointSynced \/ RewriteFails \/ JournalRename \/ RewriteDone \/ RewriteSyncFails
  BY <1>4, CheckpointSyncedInv, ToOpenInv, JournalRenameInv, RewriteDoneInv
<1>5. CASE ProcessExit \/ MachineCrash
  BY <1>5, ToDownInv, MachineCrashInv
<1>6. CASE UNCHANGED jvars
  BY <1>6, StutterInv
<1> QED
  BY <1>1, <1>2, <1>3, <1>4, <1>5, <1>6 DEF JournalNext

(* JournalInv is an invariant of the journal, whichever file operations    *)
(* fail and wherever the process or the machine stops.                     *)
THEOREM JournalInvariant == JournalSpec => []JournalInv
BY InitInv, NextInv, PTL DEF JournalSpec

LEMMA InvSurvive == JournalInv => AckedSurvive
<1> SUFFICES ASSUME JournalInv PROVE AckedSurvive
  OBVIOUS
<1>1. SizesOK
  BY DEF JournalInv
<1>2. ASSUME ~astray, acked # {}, NEW c \in AfterCrash(jfile)
      PROVE  Readable(c) /\ \A v \in acked : Holds(Cut(c, WholeEntries(c.log)), v)
  <2>1. FileOK(c) /\ \A v \in acked : Keeps(c, v)
    BY <1>2 DEF JournalInv, CrashOK
  <2>2. c \in Content
    BY <1>1, TypesOf, CrashTypes
  <2>3. c.head = "whole"
    BY <1>2, <2>1 DEF Keeps
  <2>4. Readable(c)
    BY <2>1, <2>2, <2>3, GoodFacts DEF FileOK
  <2> QED
    BY <2>1, <2>4 DEF Keeps
<1> QED
  BY <1>1, <1>2 DEF AckedSurvive, SizesOK

LEMMA InvCovered == JournalInv => TruncationCovered
BY DEF JournalInv, CrashOK, TruncationCovered

(* Append and InstallSnapshot: whatever a crash leaves of the journal can  *)
(* be opened and holds every acknowledged mutation, unless the node went   *)
(* on after a file error had parted the file from the journal's memory.    *)
THEOREM AcknowledgedSurvive == JournalSpec => []AckedSurvive
BY JournalInvariant, InvSurvive, PTL

(* Compact and InstallSnapshot: no crash leaves a journal whose floor is   *)
(* past its checkpoint.                                                    *)
THEOREM TruncationIsCovered == JournalSpec => []TruncationCovered
BY JournalInvariant, InvCovered, PTL
=============================================================================
