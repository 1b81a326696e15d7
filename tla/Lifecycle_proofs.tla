-------------------------- MODULE Lifecycle_proofs --------------------------
(***************************************************************************)
(* Proofs about Lifecycle for any number of nodes, keys, records, restarts *)
(* and connections: what a node passes on is the history of the authority, *)
(* watermarks are covered, compaction is fenced, and the whole implements  *)
(* module Replication.  Before them, those about the Authority that gives  *)
(* the records their tokens, for every MaxUint: its types, that the        *)
(* allocator file always covers what was returned, and that no token is    *)
(* returned twice.                                                         *)
(***************************************************************************)
EXTENDS Authority, Lifecycle, FiniteSetTheorems, SequenceTheorems, TLAPS

-----------------------------------------------------------------------------
(* The order of tokens. *)

(* Version.Compare is transitive, also where one side may be equal. *)
LEMMA LessTransitive ==
  ASSUME NEW u \in Version, NEW v \in Version, NEW w \in Version,
         Leq(u, v), Less(v, w)
  PROVE  Less(u, w)
  BY MaxUintAssumption DEF Version, Leq, Less

LEMMA LeqTransitive ==
  ASSUME NEW u \in Version, NEW v \in Version, NEW w \in Version,
         Leq(u, v), Leq(v, w)
  PROVE  Leq(u, w)
  BY MaxUintAssumption DEF Version, Leq, Less

(* Newer, the adoption of an observed version, is an upper bound of both. *)
LEMMA NewerBounds ==
  ASSUME NEW v \in Version, NEW w \in Version
  PROVE  /\ Newer(v, w) \in Version
         /\ Leq(v, Newer(v, w))
  BY MaxUintAssumption DEF Version, Newer, Leq, Less

(* incrementAuthorityVersion stays in range and is strictly newer, the     *)
(* carry into the epoch included.                                          *)
LEMMA IncrementGreater ==
  ASSUME NEW v \in Version, ~Exhausted(v)
  PROVE  /\ Increment(v) \in AllocatorState
         /\ Less(v, Increment(v))
  BY MaxUintAssumption
     DEF Version, AllocatorState, Exhausted, Increment, Less

LEMMA AllocatorStateIsVersion == AllocatorState \subseteq Version
  BY DEF AllocatorState

LEMMA ZeroIsVersion == ZeroVersion \in Version
  BY MaxUintAssumption DEF ZeroVersion, Version

-----------------------------------------------------------------------------
(* The inductive invariant. *)

LEMMA InitEstablishesInv == AuthorityInit => AuthorityInv
  BY ZeroIsVersion
     DEF AuthorityInit, AuthorityInv, AuthorityTypeOK, IssuedCovered,
         PendingFresh

(* A rename of the file to a content that covers what the file covered.    *)
LEMMA RenamedCovers ==
  ASSUME AuthorityInv, NEW c \in AllocatorState,
         \A v \in issued : Leq(v, c),
         afile' = Renamed(afile, c), issued' = issued
  PROVE  /\ afile' \in [vis : AllocatorState \cup {NoFile},
                       older : SUBSET (AllocatorState \cup {NoFile})]
         /\ afile'.vis = c
         /\ \A v \in issued' : \A d \in AfterCrash(afile') :
              d # NoFile /\ Leq(v, d)
  <1>1. afile \in [vis : AllocatorState \cup {NoFile},
                   older : SUBSET (AllocatorState \cup {NoFile})]
    BY DEF AuthorityInv, AuthorityTypeOK
  <1>2. c # NoFile
    BY NoFileAssumption, AllocatorStateIsVersion
  <1>3. \A v \in issued : \A d \in {afile.vis} \cup afile.older :
          d # NoFile /\ Leq(v, d)
    BY DEF AuthorityInv, IssuedCovered, AfterCrash
  <1> QED
    BY <1>1, <1>2, <1>3 DEF Renamed, AfterCrash

LEMMA StepPreservesInv == AuthorityInv /\ [AuthorityNext]_avars => AuthorityInv'
  <1> SUFFICES ASSUME AuthorityInv, [AuthorityNext]_avars
               PROVE  AuthorityInv'
    OBVIOUS
  <1> USE DEF AuthorityInv
  <1>t. /\ current \in Version
        /\ issued \subseteq Version
        /\ afile \in [vis : AllocatorState \cup {NoFile},
                      older : SUBSET (AllocatorState \cup {NoFile})]
    BY DEF AuthorityTypeOK
  <1>c. \A v \in issued : apc # "down" => Leq(v, current)
    BY DEF IssuedCovered
  <1>f. \A v \in issued : afile.vis # NoFile /\ Leq(v, afile.vis)
    BY DEF IssuedCovered, AfterCrash
  <1>1. ASSUME NEW observed \in Version, OpenFresh(observed)
        PROVE  AuthorityInv'
    <2>1. PICK v \in InitialVersion(observed) :
            current' = v /\ afile' = Renamed(afile, v)
      BY <1>1 DEF OpenFresh
    <2>2. v \in AllocatorState
      BY <2>1, MaxUintAssumption DEF InitialVersion, AllocatorState, Version
    <2>3. issued = {}
      BY <1>1, <1>f DEF OpenFresh
    <2>4. issued' = issued /\ apc' = "opening"
      BY <1>1 DEF OpenFresh
    <2>5. /\ afile' \in [vis : AllocatorState \cup {NoFile},
                         older : SUBSET (AllocatorState \cup {NoFile})]
      BY <2>1, <2>2, <2>3, <2>4, RenamedCovers
    <2> QED
      BY <2>1, <2>2, <2>3, <2>4, <2>5, AllocatorStateIsVersion
         DEF AuthorityTypeOK, IssuedCovered, PendingFresh
  <1>2. ASSUME NEW observed \in Version, OpenExisting(observed)
        PROVE  AuthorityInv'
    <2>1. afile.vis \in AllocatorState
      BY <1>2, <1>t DEF OpenExisting
    <2>2. afile.vis \in Version
      BY <2>1, AllocatorStateIsVersion
    <2>3. current' = Newer(afile.vis, observed) /\ issued' = issued
      BY <1>2 DEF OpenExisting
    <2>4. \A v \in issued : Leq(v, current')
      BY <2>2, <2>3, <1>f, <1>t, NewerBounds, LeqTransitive
    <2>5. current' \in Version
      BY <2>2, <2>3, NewerBounds
    <2>6. CASE Less(afile.vis, observed)
      <3>1. observed \in AllocatorState
        BY <2>1, <2>6, MaxUintAssumption DEF AllocatorState, Version, Less
      <3>2. current' = observed
        BY <2>3, <2>6 DEF Newer
      <3>3. afile' = Renamed(afile, observed) /\ apc' = "opening"
        BY <1>2, <2>6 DEF OpenExisting
      <3>4. /\ afile' \in [vis : AllocatorState \cup {NoFile},
                           older : SUBSET (AllocatorState \cup {NoFile})]
            /\ \A v \in issued' : \A d \in AfterCrash(afile') :
                 d # NoFile /\ Leq(v, d)
        BY <3>1, <3>2, <3>3, <2>3, <2>4, RenamedCovers
      <3> QED
        BY <3>3, <3>4, <2>3, <2>4, <2>5, <1>t
           DEF AuthorityTypeOK, IssuedCovered, PendingFresh
    <2>7. CASE ~Less(afile.vis, observed)
      <3>1. UNCHANGED afile /\ apc' = "ready"
        BY <1>2, <2>7 DEF OpenExisting
      <3> QED
        BY <3>1, <2>3, <2>4, <2>5, <1>t
           DEF AuthorityTypeOK, IssuedCovered, PendingFresh, AfterCrash
    <2> QED
      BY <2>6, <2>7
  <1>3. ASSUME NEW observed \in Version, NextRename(observed)
        PROVE  AuthorityInv'
    <2> DEFINE n == Newer(current, observed)
    <2>1. n \in Version /\ Leq(current, n) /\ ~Exhausted(n)
      BY <1>3, <1>t, NewerBounds DEF NextRename
    <2>2. Increment(n) \in AllocatorState /\ Less(n, Increment(n))
      BY <2>1, IncrementGreater
    <2> HIDE DEF n
    <2>3. current' = Increment(n) /\ afile' = Renamed(afile, Increment(n))
          /\ apc' = "persisting" /\ issued' = issued
      BY <1>3 DEF NextRename, n
    <2>4. \A v \in issued : Less(v, Increment(n))
      <3>1. \A v \in issued : Leq(v, n)
        BY <1>3, <1>c, <1>t, <2>1, LeqTransitive DEF NextRename
      <3> QED
        BY <3>1, <2>1, <2>2, <1>t, LessTransitive, AllocatorStateIsVersion
    <2>5. \A v \in issued : Leq(v, Increment(n))
      BY <2>4 DEF Leq
    <2>6. /\ afile' \in [vis : AllocatorState \cup {NoFile},
                         older : SUBSET (AllocatorState \cup {NoFile})]
          /\ afile'.vis = Increment(n)
          /\ \A v \in issued' : \A d \in AfterCrash(afile') :
               d # NoFile /\ Leq(v, d)
      BY <2>2, <2>3, <2>5, RenamedCovers
    <2> QED
      BY <2>2, <2>3, <2>4, <2>5, <2>6, <1>t, AllocatorStateIsVersion
         DEF AuthorityTypeOK, IssuedCovered, PendingFresh
  <1>4. ASSUME NEW observed \in Version, NextFails(observed)
        PROVE  AuthorityInv'
    <2> DEFINE n == Newer(current, observed)
    <2>1. n \in Version /\ Leq(current, n)
      BY <1>t, NewerBounds
    <2>2. ~Exhausted(n) => /\ Increment(n) \in Version
                           /\ Leq(n, Increment(n))
      BY <2>1, IncrementGreater, AllocatorStateIsVersion DEF Leq
    <2>3. current' \in Version /\ Leq(n, current')
      BY <2>1, <2>2, <1>4 DEF NextFails, Leq
    <2> HIDE DEF n
    <2>4. UNCHANGED <<afile, apc, issued>> /\ apc = "ready"
      BY <1>4 DEF NextFails
    <2>5. \A v \in issued : Leq(v, n)
      BY <2>1, <2>4, <1>c, <1>t, LeqTransitive
    <2>6. \A v \in issued : Leq(v, current')
      BY <2>1, <2>3, <2>5, <1>t, LeqTransitive
    <2> QED
      BY <2>3, <2>4, <2>6
         DEF AuthorityTypeOK, IssuedCovered, PendingFresh, AfterCrash
  <1>5. CASE PersistDone
    <2>1. afile' = [afile EXCEPT !.older = {}] /\ apc' = "ready"
          /\ UNCHANGED current
      BY <1>5 DEF PersistDone, SyncedDir
    <2>2. issued' \subseteq Version
      BY <1>5, <1>t DEF PersistDone
    <2>3. \A v \in issued' : afile.vis # NoFile /\ Leq(v, afile.vis)
                              /\ Leq(v, current)
      <3>1. CASE apc = "persisting"
        <4>1. afile.vis = current /\ current # NoFile
          BY <3>1, <1>t, NoFileAssumption DEF PendingFresh
        <4> QED
          BY <3>1, <4>1, <1>5, <1>c DEF PersistDone, Leq
      <3>2. CASE apc # "persisting"
        BY <3>2, <1>5, <1>c, <1>f DEF PersistDone
      <3> QED
        BY <3>1, <3>2
    <2> QED
      BY <2>1, <2>2, <2>3, <1>t
         DEF AuthorityTypeOK, IssuedCovered, PendingFresh, AfterCrash
  <1>6. CASE PersistFails
    BY <1>6, <1>t, <1>c, ZeroIsVersion
       DEF PersistFails, AuthorityTypeOK, IssuedCovered, PendingFresh, AfterCrash
  <1>7. CASE AuthorityExit
    BY <1>7, <1>t, ZeroIsVersion
       DEF AuthorityExit, AuthorityTypeOK, IssuedCovered, PendingFresh, AfterCrash
  <1>8. CASE AuthorityCrash
    <2>1. PICK c \in {afile.vis} \cup afile.older :
            afile' = [vis |-> c, older |-> {}]
      BY <1>8 DEF AuthorityCrash, AfterCrash
    <2>2. c \in AllocatorState \cup {NoFile}
      BY <2>1, <1>t
    <2>3. \A v \in issued : c # NoFile /\ Leq(v, c)
      BY <2>1 DEF IssuedCovered, AfterCrash
    <2>4. apc' = "down" /\ current' = ZeroVersion /\ issued' = issued
      BY <1>8 DEF AuthorityCrash
    <2> QED
      BY <2>1, <2>2, <2>3, <2>4, <1>t, ZeroIsVersion
         DEF AuthorityTypeOK, IssuedCovered, PendingFresh, AfterCrash
  <1>9. CASE UNCHANGED avars
    BY <1>9 DEF avars, AuthorityTypeOK, IssuedCovered, PendingFresh, AfterCrash
  <1> QED
    BY <1>1, <1>2, <1>3, <1>4, <1>5, <1>6, <1>7, <1>8, <1>9 DEF AuthorityNext

-----------------------------------------------------------------------------
(* The allocator's state has its type in every reachable state; with it,   *)
(* the file never holds a state that validateAuthorityVersion refuses.     *)
THEOREM AuthorityTypeCorrect == AuthoritySpec => []AuthorityTypeOK
  <1>1. AuthorityInv => AuthorityTypeOK
    BY DEF AuthorityInv
  <1> QED
    BY <1>1, InitEstablishesInv, StepPreservesInv, PTL DEF AuthoritySpec

(* Every content the allocator file may have after a crash covers every    *)
(* token that Authority.Next has returned.                                 *)
THEOREM IssuedAlwaysCovered == AuthoritySpec => []IssuedCovered
  <1>1. AuthorityInv => IssuedCovered
    BY DEF AuthorityInv
  <1> QED
    BY <1>1, InitEstablishesInv, StepPreservesInv, PTL DEF AuthoritySpec

(* Authority.Next never returns a token twice, nor one older than a token  *)
(* it has returned, over any sequence of crashes, exits and failed writes. *)
THEOREM TokensAreFresh == AuthoritySpec => FreshTokens
  <1>1. ASSUME AuthorityInv, [AuthorityNext]_avars,
               NEW v \in issued' \ issued, NEW w \in issued
        PROVE  Less(w, v)
    <2>1. PersistDone
      BY <1>1 DEF AuthorityNext, avars, OpenFresh, OpenExisting, NextRename,
                  NextFails, PersistFails, AuthorityExit, AuthorityCrash
    <2>2. apc = "persisting" /\ v = current
      BY <1>1, <2>1 DEF PersistDone
    <2> QED
      BY <1>1, <2>2 DEF AuthorityInv, PendingFresh
  <1>2. AuthorityInv /\ [AuthorityNext]_avars
          => [\A v \in issued' \ issued : \A w \in issued : Less(w, v)]_avars
    BY <1>1
  <1> QED
    BY <1>2, InitEstablishesInv, StepPreservesInv, PTL
       DEF AuthoritySpec, FreshTokens

-----------------------------------------------------------------------------
(* Largest elements. *)

(* A set of naturals has a least element. *)
LEMMA LeastNat ==
  ASSUME NEW T \in SUBSET Nat, T # {}
  PROVE  \E x \in T : \A y \in T : x <= y
<1>1. PICK x \in T : \A y \in T : ~(<<y, x>> \in OpToRel(<, Nat))
  BY WFMin, NatLessThanWellFounded
<1>2. \A y \in T : ~(y < x)
  BY <1>1 DEF OpToRel
<1> QED
  BY <1>2

(* A bounded set of naturals has a largest one. *)
LEMMA GreatestNat ==
  ASSUME NEW T \in SUBSET Nat, NEW b \in Nat, T # {}, \A y \in T : y <= b
  PROVE  \E x \in T : \A y \in T : x >= y
<1> DEFINE U == {b - y : y \in T}
<1>1. U \in SUBSET Nat
  OBVIOUS
<1>2. U # {}
  <2>1. PICK t \in T : TRUE
    OBVIOUS
  <2>2. b - t \in U
    OBVIOUS
  <2> QED
    BY <2>2
<1> HIDE DEF U
<1>3. PICK u \in U : \A y \in U : u <= y
  BY <1>1, <1>2, LeastNat
<1>4. PICK x \in T : u = b - x
  BY <1>3 DEF U
<1>5. \A y \in T : x >= y
  <2> TAKE y \in T
  <2>1. b - y \in U
    BY DEF U
  <2> QED
    BY <1>3, <1>4, <2>1
<1> QED
  BY <1>5

(* The maximum is the one element that no other exceeds. *)
LEMMA MaxIs ==
  ASSUME NEW T \in SUBSET Nat, NEW x \in T, \A y \in T : y <= x
  PROVE  Max(T) = x
<1>1. \E z \in T : \A y \in T : z >= y
  OBVIOUS
<1>2. Max(T) \in T /\ \A y \in T : Max(T) >= y
  BY <1>1 DEF Max
<1>3. Max(T) >= x /\ Max(T) <= x /\ Max(T) \in Nat /\ x \in Nat
  BY <1>2
<1> HIDE DEF Max
<1> QED
  BY <1>3

(* The end of a journal that retains everything behind its floor. *)
LEMMA MaxJournal ==
  ASSUME NEW f \in Nat, NEW l \in Nat, f <= l
  PROVE  Max(((f + 1)..l) \cup {f}) = l
<1> DEFINE T == ((f + 1)..l) \cup {f}
<1>1. T \in SUBSET Nat /\ l \in T /\ \A y \in T : y <= l
  OBVIOUS
<1> HIDE DEF T
<1>2. Max(T) = l
  BY <1>1, MaxIs
<1> QED
  BY <1>2 DEF T

-----------------------------------------------------------------------------
(* The newest record of every key among the first w of a history. *)

(* What is the newest record x of key k among the first w. *)
Newest(h, w, k, x) ==
  /\ x \in 0..w
  /\ x # 0 => h[x] = k
  /\ \A v \in 1..w : h[v] = k => v <= x

LEMMA ViewNewest ==
  ASSUME NEW h \in Seq(LogicalKeys), NEW w \in 0..Len(h), NEW k \in LogicalKeys
  PROVE  Newest(h, w, k, R!ViewAt(h, w)[k])
<1> DEFINE T == {0} \cup {v \in 1..w : h[v] = k}
<1>1. w \in Nat
  BY LenProperties
<1>2. T \in SUBSET Nat /\ T # {} /\ \A y \in T : y <= w
  BY <1>1
<1>3. R!ViewAt(h, w)[k] = Max(T)
  BY DEF R!ViewAt, R!Max, Max
<1> HIDE DEF T
<1>4. \E x \in T : \A y \in T : x >= y
  BY <1>1, <1>2, GreatestNat
<1>5. Max(T) \in T /\ \A y \in T : Max(T) >= y
  BY <1>4 DEF Max
<1> QED
  BY <1>1, <1>3, <1>5 DEF T, Newest

LEMMA NewestUnique ==
  ASSUME NEW h, NEW w \in Nat, NEW k, NEW x, NEW y,
         Newest(h, w, k, x), Newest(h, w, k, y)
  PROVE  x = y
BY DEF Newest

(* A function on the keys that gives the newest records is the view.       *)
LEMMA ViewIs ==
  ASSUME NEW h \in Seq(LogicalKeys), NEW w \in 0..Len(h), NEW f,
         f = [k \in LogicalKeys |-> f[k]],
         \A k \in LogicalKeys : Newest(h, w, k, f[k])
  PROVE  f = R!ViewAt(h, w)
<1>1. w \in Nat
  BY LenProperties
<1>2. \A k \in LogicalKeys : f[k] = R!ViewAt(h, w)[k]
  BY <1>1, ViewNewest, NewestUnique
<1>3. R!ViewAt(h, w) = [k \in LogicalKeys |-> R!ViewAt(h, w)[k]]
  BY DEF R!ViewAt
<1> QED
  BY <1>2, <1>3

LEMMA ViewType ==
  ASSUME NEW h \in Seq(LogicalKeys), NEW w \in 0..Len(h)
  PROVE  R!ViewAt(h, w) \in [LogicalKeys -> 0..w]
<1>1. \A k \in LogicalKeys : R!ViewAt(h, w)[k] \in 0..w
  BY ViewNewest DEF Newest
<1>2. R!ViewAt(h, w) = [k \in LogicalKeys |-> R!ViewAt(h, w)[k]]
  BY DEF R!ViewAt
<1> QED
  BY <1>1, <1>2

LEMMA ViewEmpty ==
  ASSUME NEW h \in Seq(LogicalKeys)
  PROVE  R!ViewAt(h, 0) = Empty
<1>1. 0 \in 0..Len(h)
  BY LenProperties
<1>2. R!ViewAt(h, 0) \in [LogicalKeys -> 0..0]
  BY <1>1, ViewType
<1> QED
  BY <1>2 DEF Empty

(* A new record leaves the views of the past alone. *)
LEMMA ViewPrefix ==
  ASSUME NEW h \in Seq(LogicalKeys), NEW key \in LogicalKeys, NEW w \in 0..Len(h)
  PROVE  R!ViewAt(Append(h, key), w) = R!ViewAt(h, w)
<1> DEFINE g == Append(h, key)
<1>1. g \in Seq(LogicalKeys) /\ Len(g) = Len(h) + 1 /\ \A i \in 1..Len(h) : g[i] = h[i]
  BY AppendProperties
<1>2. Len(h) \in Nat
  BY LenProperties
<1> HIDE DEF g
<1>3. R!ViewAt(h, w) = [k \in LogicalKeys |-> R!ViewAt(h, w)[k]]
  BY DEF R!ViewAt
<1>4. \A k \in LogicalKeys : Newest(g, w, k, R!ViewAt(h, w)[k])
  <2> TAKE k \in LogicalKeys
  <2> DEFINE x == R!ViewAt(h, w)[k]
  <2>1. Newest(h, w, k, x)
    BY ViewNewest
  <2> HIDE DEF x
  <2>2. \A v \in 1..w : v \in 1..Len(h) /\ g[v] = h[v]
    BY <1>1, <1>2
  <2>3. x # 0 => g[x] = k
    BY <1>2, <2>1, <2>2 DEF Newest
  <2>4. Newest(g, w, k, x)
    BY <2>1, <2>2, <2>3 DEF Newest
  <2> QED
    BY <2>4 DEF x
<1>5. w \in 0..Len(g)
  BY <1>1, <1>2
<1> QED
  BY <1>1, <1>3, <1>4, <1>5, ViewIs DEF g

(* The record behind a prefix, applied to its view. *)
LEMMA ViewNext ==
  ASSUME NEW h \in Seq(LogicalKeys), NEW v \in 1..Len(h)
  PROVE  R!ViewAt(h, v) = [R!ViewAt(h, v - 1) EXCEPT ![h[v]] = v]
<1> DEFINE f == [R!ViewAt(h, v - 1) EXCEPT ![h[v]] = v]
<1>1. Len(h) \in Nat /\ h[v] \in LogicalKeys
  BY LenProperties, ElementOfSeq
<1>2. v - 1 \in 0..Len(h) /\ v \in 0..Len(h)
  BY <1>1
<1>3. R!ViewAt(h, v - 1) \in [LogicalKeys -> 0..(v - 1)]
  BY <1>2, ViewType
<1>4. f = [k \in LogicalKeys |-> f[k]]
  BY <1>3
<1>5. ASSUME NEW k \in LogicalKeys
      PROVE  Newest(h, v, k, f[k])
  <2>1. Newest(h, v - 1, k, R!ViewAt(h, v - 1)[k])
    BY <1>2, ViewNewest
  <2>2. CASE k = h[v]
    BY <1>1, <1>3, <2>1, <2>2 DEF Newest
  <2>3. CASE k # h[v]
    BY <1>1, <1>3, <2>1, <2>3 DEF Newest
  <2> QED
    BY <2>2, <2>3
<1> HIDE DEF f
<1>6. f = R!ViewAt(h, v)
  BY <1>2, <1>4, <1>5, ViewIs
<1> QED
  BY <1>6 DEF f

-----------------------------------------------------------------------------
(* Store.Apply and Replay. *)

(* A record of the past changes nothing. *)
LEMMA AppliedOld ==
  ASSUME hist \in Seq(LogicalKeys), NEW w \in 0..Len(hist), NEW v \in 1..w
  PROVE  Applied(R!ViewAt(hist, w), v) = R!ViewAt(hist, w)
<1>1. Len(hist) \in Nat /\ hist[v] \in LogicalKeys
  BY LenProperties, ElementOfSeq
<1>2. Newest(hist, w, hist[v], R!ViewAt(hist, w)[hist[v]])
  BY <1>1, ViewNewest
<1>3. ~(v > R!ViewAt(hist, w)[hist[v]])
  BY <1>1, <1>2 DEF Newest
<1> QED
  BY <1>3 DEF Applied, Outcome, KeyOf

(* The next record brings the view to the next prefix. *)
LEMMA AppliedNext ==
  ASSUME hist \in Seq(LogicalKeys), NEW v \in 1..Len(hist)
  PROVE  Applied(R!ViewAt(hist, v - 1), v) = R!ViewAt(hist, v)
<1>1. Len(hist) \in Nat /\ hist[v] \in LogicalKeys
  BY LenProperties, ElementOfSeq
<1>2. R!ViewAt(hist, v - 1) \in [LogicalKeys -> 0..(v - 1)]
  BY <1>1, ViewType
<1>3. v > R!ViewAt(hist, v - 1)[hist[v]]
  BY <1>1, <1>2
<1> QED
  BY <1>3, ViewNext DEF Applied, Outcome, KeyOf

(* The prefix whose view the records up to v, of those behind a and up to  *)
(* b, make of the view at l.                                               *)
Reach(l, b, v) ==
  IF v <= l THEN l ELSE IF v <= b THEN v ELSE IF b <= l THEN l ELSE b

(* Replay, record by record: on a view of the history at l, the records    *)
(* behind a <= l and up to b give the view at b, or leave it at l if l is  *)
(* further.                                                                *)
LEMMA ReplayedView ==
  ASSUME hist \in Seq(LogicalKeys), MaxVersion \in Nat, Len(hist) <= MaxVersion,
         NEW l \in 0..Len(hist), NEW a \in 0..l, NEW b \in 0..Len(hist)
  PROVE  Replayed(R!ViewAt(hist, l), (a + 1)..b) = R!ViewAt(hist, IF b <= l THEN l ELSE b)
<1> DEFINE recs == R!ViewAt(hist, l)
           S == (a + 1)..b
           Rhs(g, v) == IF v = 0 THEN recs
                        ELSE IF v \in S THEN Applied(g[v - 1], v) ELSE g[v - 1]
           closed == [v \in Versions |-> R!ViewAt(hist, Reach(l, b, v))]
           upto == CHOOSE g : g = [v \in Versions |-> Rhs(g, v)]
<1>1. Len(hist) \in Nat
  BY LenProperties
<1>2. Replayed(recs, S) = upto[MaxVersion]
  BY DEF Replayed
<1>3. ASSUME NEW v \in Versions \ {0}, NEW g, g[v - 1] = R!ViewAt(hist, Reach(l, b, v - 1))
      PROVE  (IF v \in S THEN Applied(g[v - 1], v) ELSE g[v - 1])
               = R!ViewAt(hist, Reach(l, b, v))
  <2>1. v \in Nat \ {0}
    BY DEF Versions
  <2>2. CASE v \in S /\ v <= l
    <3>1. Reach(l, b, v - 1) = l /\ Reach(l, b, v) = l /\ v \in 1..l
      BY <1>1, <2>1, <2>2 DEF Reach
    <3> QED
      BY <1>3, <2>2, <3>1, AppliedOld
  <2>3. CASE v \in S /\ ~(v <= l)
    <3>1. Reach(l, b, v - 1) = v - 1 /\ Reach(l, b, v) = v /\ v \in 1..Len(hist)
      BY <1>1, <2>1, <2>3 DEF Reach
    <3> QED
      BY <1>3, <2>3, <3>1, AppliedNext
  <2>4. CASE v \notin S
    <3>1. Reach(l, b, v - 1) = Reach(l, b, v)
      BY <1>1, <2>1, <2>4 DEF Reach
    <3> QED
      BY <1>3, <2>4, <3>1
  <2> QED
    BY <2>2, <2>3, <2>4
<1>4. Reach(l, b, 0) = l
  BY <1>1 DEF Reach
<1>5. closed = [v \in Versions |-> Rhs(closed, v)]
  <2> SUFFICES ASSUME NEW v \in Versions
               PROVE  closed[v] = Rhs(closed, v)
    BY Zenon
  <2>1. CASE v = 0
    BY <1>4, <2>1
  <2>2. CASE v # 0
    <3>1. v - 1 \in Versions
      BY <2>2 DEF Versions
    <3>2. closed[v - 1] = R!ViewAt(hist, Reach(l, b, v - 1))
      BY <3>1
    <3> HIDE DEF closed, S
    <3>3. Rhs(closed, v) = R!ViewAt(hist, Reach(l, b, v))
      BY <1>3, <2>2, <3>2
    <3> QED
      BY <3>3 DEF closed
  <2> QED
    BY <2>1, <2>2
<1>6. upto = [v \in Versions |-> Rhs(upto, v)]
  <2> HIDE DEF closed, recs, S
  <2> QED
    BY <1>5
<1> HIDE DEF upto
<1>7. \A v \in Versions : upto[v] = R!ViewAt(hist, Reach(l, b, v))
  <2> DEFINE Bad == {v \in Versions : upto[v] # R!ViewAt(hist, Reach(l, b, v))}
  <2> SUFFICES ASSUME Bad # {} PROVE FALSE
    OBVIOUS
  <2>1. Bad \in SUBSET Nat
    BY DEF Versions
  <2>2. PICK v \in Bad : \A y \in Bad : v <= y
    BY <2>1, LeastNat
  <2>3. v \in Versions /\ upto[v] # R!ViewAt(hist, Reach(l, b, v))
    BY <2>2
  <2>4. upto[v] = Rhs(upto, v)
    BY <1>6, <2>3
  <2>5. v # 0
    BY <1>4, <2>3, <2>4
  <2>6. v - 1 \in Versions /\ v - 1 \notin Bad
    BY <2>1, <2>2, <2>3, <2>5 DEF Versions
  <2>7. upto[v - 1] = R!ViewAt(hist, Reach(l, b, v - 1))
    BY <2>6
  <2> HIDE DEF S
  <2> QED
    BY <1>3, <2>3, <2>4, <2>5, <2>7
<1>8. Reach(l, b, MaxVersion) = IF b <= l THEN l ELSE b
  BY <1>1 DEF Reach
<1>9. MaxVersion \in Versions
  BY DEF Versions
<1> QED
  BY <1>2, <1>7, <1>8, <1>9
-----------------------------------------------------------------------------
(* The inductive invariant. *)

Checkpoints == [to : Versions, recs : Views]

Sessions == [pc : {"none", "plan", "wait"}, snapshot : Checkpoints,
             to : Versions, more : BOOLEAN]

Frames == [type : {"ack", "batch", "snapshot"}, from : Versions, to : Versions,
           records : SUBSET (1..MaxVersion), recs : Views]

(* What LifecycleTypeOK leaves open. *)
LinksTyped ==
  /\ sess \in [Nodes -> [Nodes -> Sessions]]
  /\ wire \in [Nodes -> [Nodes -> Seq(Frames)]]

(* A checkpoint, of a file or in memory, is a view of the history. *)
IsCheckpoint(h, s) == s.to <= Len(h) /\ s.recs = R!ViewAt(h, s.to)

JournalOK(n) ==
  /\ floor[n] <= LastVersion(n) /\ LastVersion(n) \in 0..Len(hist)
  /\ log[n] = (floor[n] + 1)..LastVersion(n)
  /\ checkpoint[n] = R!ViewAt(hist, floor[n])
  /\ up[n] => view[n] = R!ViewAt(hist, LastVersion(n))
  /\ IsCheckpoint(hist, snapshot[n])

(* Every node has a prefix of the history, the authority all of it. *)
Journals ==
  /\ Len(hist) <= MaxVersion
  /\ LastVersion(Source) = Len(hist)
  /\ \A n \in Nodes : JournalOK(n)

(* What frame f, or every frame of a connection, carries is a piece of the *)
(* first l records of history h.                                           *)
IsPiece(h, l, f) ==
  /\ f.to <= l
  /\ f.type = "batch" => f.from <= f.to /\ f.records = (f.from + 1)..f.to
  /\ f.type = "snapshot" => f.recs = R!ViewAt(h, f.to)

Pieces(h, l, frames) == \A i \in 1..Len(frames) : IsPiece(h, l, frames[i])

LinkOK(n, m) ==
  /\ Connected(n, m) \/ wire[n][m] # <<>> => n # m /\ up[n] /\ up[m]
  /\ IsCheckpoint(hist, sess[n][m].snapshot)
  /\ Pieces(hist, LastVersion(n), wire[n][m])

Links == \A n, m \in Nodes : LinkOK(n, m)

(* A watermark is behind the node's own journal, and behind the peer's.    *)
Books ==
  \A n, m \in Nodes : /\ book[n][m] <= LastVersion(n)
                      /\ <<n, m>> \notin lost => book[n][m] <= LastVersion(m)

LifecycleInv == LifecycleTypeOK /\ LinksTyped /\ Journals /\ Links /\ Books
-----------------------------------------------------------------------------
(* Journals and views. *)

(* What the rest of the proof uses of the types. *)
LEMMA Basics ==
  ASSUME LifecycleInv
  PROVE  /\ hist \in Seq(LogicalKeys) /\ Len(hist) \in Nat
         /\ MaxVersion \in Nat /\ Len(hist) <= MaxVersion /\ Source \in Nodes
         /\ \A n \in Nodes : /\ floor[n] \in 0..Len(hist)
                             /\ LastVersion(n) \in floor[n]..Len(hist)
                             /\ LastVersion(n) \in Nat
         /\ \A n, m \in Nodes : book[n][m] \in Versions /\ book[n][m] \in 0..LastVersion(n)
<1>1. hist \in Seq(LogicalKeys) /\ Len(hist) \in Nat
  BY LenProperties DEF LifecycleInv, LifecycleTypeOK
<1>2. \A n \in Nodes : floor[n] \in Nat /\ JournalOK(n)
  BY DEF LifecycleInv, LifecycleTypeOK, Versions, Journals
<1>3. \A n, m \in Nodes : /\ book[n][m] \in Versions
                          /\ book[n][m] \in Nat /\ book[n][m] <= LastVersion(n)
  <2>1. book \in [Nodes -> [Nodes -> Versions]] /\ Books
    BY DEF LifecycleInv, LifecycleTypeOK
  <2> TAKE n, m \in Nodes
  <2>2. book[n][m] \in Versions
    BY <2>1
  <2>3. book[n][m] <= LastVersion(n)
    BY <2>1 DEF Books
  <2> QED
    BY <2>2, <2>3, LifecycleAssumption DEF Versions
<1> QED
  BY <1>1, <1>2, <1>3, LifecycleAssumption DEF LifecycleInv, Journals, JournalOK

(* How a journal is known to be a piece of the history. *)
LEMMA JournalAt ==
  ASSUME hist' \in Seq(LogicalKeys), NEW n \in Nodes,
         NEW f \in 0..Len(hist'), NEW l \in f..Len(hist'),
         floor'[n] = f, log'[n] = (f + 1)..l, checkpoint'[n] = R!ViewAt(hist', f),
         up'[n] => view'[n] = R!ViewAt(hist', l),
         IsCheckpoint(hist', snapshot'[n])
  PROVE  JournalOK(n)' /\ LastVersion(n)' = l
<1>1. Len(hist') \in Nat
  BY LenProperties
<1>2. Max(log'[n] \cup {floor'[n]}) = l
  BY <1>1, MaxJournal
<1>3. LastVersion(n)' = l
  BY <1>2 DEF LastVersion
<1> QED
  BY <1>1, <1>3 DEF JournalOK

(* The history as it was is a part of what it is. *)
Grown ==
  /\ hist' \in Seq(LogicalKeys) /\ Len(hist) <= Len(hist')
  /\ \A w \in 0..Len(hist) : R!ViewAt(hist', w) = R!ViewAt(hist, w)

LEMMA GrownStep ==
  ASSUME LifecycleInv, hist' = hist \/ \E k \in LogicalKeys : hist' = Append(hist, k)
  PROVE  Grown
<1>1. CASE hist' = hist
  BY <1>1, Basics DEF Grown
<1>2. ASSUME NEW k \in LogicalKeys, hist' = Append(hist, k)
      PROVE  Grown
  BY <1>2, Basics, AppendProperties, ViewPrefix DEF Grown
<1> QED
  BY <1>1, <1>2

LEMMA CheckpointStays ==
  ASSUME LifecycleInv, Grown, NEW s \in Checkpoints, IsCheckpoint(hist, s)
  PROVE  IsCheckpoint(hist', s)
<1>1. s.to \in 0..Len(hist) /\ Len(hist') \in Nat
  BY Basics, LenProperties DEF Checkpoints, IsCheckpoint, Versions, Grown
<1> QED
  BY <1>1, Basics DEF Grown, IsCheckpoint

(* A step that does not concern node n. *)
Same(n) ==
  /\ floor'[n] = floor[n] /\ log'[n] = log[n] /\ checkpoint'[n] = checkpoint[n]
  /\ up'[n] = up[n] /\ view'[n] = view[n] /\ snapshot'[n] = snapshot[n]

LEMMA SameJournal ==
  ASSUME LifecycleInv, Grown, NEW n \in Nodes, Same(n)
  PROVE  JournalOK(n)' /\ LastVersion(n)' = LastVersion(n)
<1>1. /\ JournalOK(n) /\ snapshot[n] \in Checkpoints
  BY DEF LifecycleInv, Journals, LifecycleTypeOK, Checkpoints
<1>2. IsCheckpoint(hist', snapshot'[n])
  BY <1>1, CheckpointStays DEF Same, IsCheckpoint, JournalOK
<1>3. LastVersion(n)' = LastVersion(n)
  BY DEF Same, LastVersion
<1>4. Len(hist') \in Nat
  BY LenProperties DEF Grown
<1>5. /\ floor[n] \in 0..Len(hist) /\ LastVersion(n) \in 0..Len(hist) /\ Len(hist) \in Nat
  BY Basics, <1>1 DEF JournalOK
<1>6. /\ R!ViewAt(hist', floor[n]) = R!ViewAt(hist, floor[n])
      /\ R!ViewAt(hist', LastVersion(n)) = R!ViewAt(hist, LastVersion(n))
  BY <1>5 DEF Grown
<1> QED
  BY <1>1, <1>2, <1>3, <1>4, <1>5, <1>6 DEF JournalOK, Same, Grown

(* What a step does to the prefixes that the nodes have. *)
Elsewhere(n) == \A m \in Nodes \ {n} : LastVersion(m)' = LastVersion(m)

HistoryStep ==
  \/ \E k \in LogicalKeys : /\ hist' = Append(hist, k)
                            /\ LastVersion(Source)' = Len(hist) + 1
                            /\ Elsewhere(Source)
  \/ /\ hist' = hist
     /\ \E n \in Nodes : /\ Elsewhere(n)
                         /\ \/ LastVersion(n)' >= LastVersion(n)
                            \/ Wipe(n) /\ LastVersion(n)' = 0

JournalStep == Journals' /\ Grown /\ HistoryStep

(* A step that changes the journal of one node. *)
LEMMA OneNode ==
  ASSUME LifecycleInv, hist' = hist, NEW n \in Nodes,
         \A m \in Nodes \ {n} : Same(m),
         JournalOK(n)',
         LastVersion(n)' >= LastVersion(n) \/ (Wipe(n) /\ LastVersion(n)' = 0)
  PROVE  JournalStep
<1>1. Grown
  BY GrownStep
<1>2. \A m \in Nodes \ {n} : JournalOK(m)' /\ LastVersion(m)' = LastVersion(m)
  BY <1>1, SameJournal
<1>3. HistoryStep
  BY <1>2 DEF HistoryStep, Elsewhere
<1>4. LastVersion(Source)' = Len(hist')
  <2>1. LastVersion(Source) = Len(hist) /\ Len(hist) \in Nat /\ Source \in Nodes
    BY Basics DEF LifecycleInv, Journals
  <2>2. CASE n = Source
    <3>1. LastVersion(n)' >= LastVersion(n)
      BY <2>2 DEF Wipe
    <3>2. LastVersion(n)' \in 0..Len(hist')
      BY DEF JournalOK
    <3> QED
      BY <2>1, <2>2, <3>1, <3>2
  <2>3. CASE n # Source
    BY <1>2, <2>1, <2>3
  <2> QED
    BY <2>2, <2>3
<1> QED
  BY <1>1, <1>2, <1>3, <1>4 DEF JournalStep, Journals, LifecycleInv
(* The frame that node n is about to handle. *)
LEMMA ReceivedOK ==
  ASSUME LifecycleInv, NEW n \in Nodes, NEW m \in Nodes, wire[m][n] # <<>>
  PROVE  /\ n # m /\ up[n] /\ up[m]
         /\ Received(n, m) \in Frames /\ IsPiece(hist, LastVersion(m), Received(n, m))
         /\ wire[m][n] \in Seq(Frames)
<1>1. wire[m][n] \in Seq(Frames) /\ LinkOK(m, n)
  BY DEF LifecycleInv, LinksTyped, Links
<1>2. Head(wire[m][n]) = wire[m][n][1] /\ 1 \in 1..Len(wire[m][n])
  BY <1>1, EmptySeq
<1>3. Head(wire[m][n]) \in Frames
  BY <1>1, HeadTailProperties
<1> QED
  BY <1>1, <1>2, <1>3 DEF LinkOK, Pieces, Received

(* The journal of a running node, brought to prefix l. *)
LEMMA JournalExtended ==
  ASSUME LifecycleInv, hist' = hist, NEW n \in Nodes, up[n],
         NEW l \in LastVersion(n)..Len(hist),
         floor' = floor, checkpoint' = checkpoint, up' = up, snapshot' = snapshot,
         log' = [log EXCEPT ![n] = (floor[n] + 1)..l],
         view' = [view EXCEPT ![n] = R!ViewAt(hist, l)]
  PROVE  JournalStep /\ LastVersion(n)' = l
<1>1. JournalOK(n)
  BY DEF LifecycleInv, Journals
<1>2. log'[n] = (floor[n] + 1)..l /\ view'[n] = R!ViewAt(hist, l)
  BY DEF LifecycleInv, LifecycleTypeOK
<1>3. floor[n] \in 0..Len(hist) /\ l \in floor[n]..Len(hist) /\ LastVersion(n) \in Nat
  BY Basics
<1>4. JournalOK(n)' /\ LastVersion(n)' = l
  BY <1>1, <1>2, <1>3, Basics, JournalAt DEF JournalOK, IsCheckpoint
<1>5. \A m \in Nodes \ {n} : Same(m)
  BY DEF Same, LifecycleInv, LifecycleTypeOK
<1> QED
  BY <1>3, <1>4, <1>5, OneNode

(* The journal of a node, replaced by a checkpoint. *)
LEMMA JournalReplaced ==
  ASSUME LifecycleInv, hist' = hist, NEW n \in Nodes,
         NEW w \in 0..Len(hist),
         w >= LastVersion(n) \/ (Wipe(n) /\ w = 0),
         floor' = [floor EXCEPT ![n] = w], log' = [log EXCEPT ![n] = {}],
         checkpoint' = [checkpoint EXCEPT ![n] = R!ViewAt(hist, w)],
         up' = up, snapshot' = snapshot,
         up[n] => view' = [view EXCEPT ![n] = R!ViewAt(hist, w)],
         ~up[n] => view' = view
  PROVE  JournalStep /\ LastVersion(n)' = w
<1>1. JournalOK(n) /\ Len(hist) \in Nat
  BY Basics DEF LifecycleInv, Journals
<1>2. /\ floor'[n] = w /\ log'[n] = (w + 1)..w
      /\ checkpoint'[n] = R!ViewAt(hist, w)
      /\ up[n] => view'[n] = R!ViewAt(hist, w)
  BY <1>1 DEF LifecycleInv, LifecycleTypeOK
<1>3. w \in w..Len(hist)
  BY <1>1
<1>4. JournalOK(n)' /\ LastVersion(n)' = w
  BY <1>1, <1>2, <1>3, Basics, JournalAt DEF JournalOK, IsCheckpoint
<1>5. \A m \in Nodes \ {n} : Same(m)
  BY DEF Same, LifecycleInv, LifecycleTypeOK
<1> QED
  BY <1>4, <1>5, OneNode

(* The records of a batch that a node does not have yet. *)
LEMMA FreshRecords ==
  ASSUME LifecycleInv, NEW n \in Nodes, up[n],
         NEW a \in 0..LastVersion(n), NEW b \in 0..Len(hist)
  PROVE  Fresh(n, (a + 1)..b) = (LastVersion(n) + 1)..b
<1> DEFINE l == LastVersion(n)
<1>1. /\ l \in 0..Len(hist) /\ Len(hist) \in Nat /\ hist \in Seq(LogicalKeys)
      /\ view[n] = R!ViewAt(hist, l)
  BY Basics DEF LifecycleInv, Journals, JournalOK
<1> HIDE DEF l
<1>2. ASSUME NEW v \in (a + 1)..b
      PROVE  v > view[n][hist[v]] <=> v > l
  <2>1. v \in 1..Len(hist) /\ hist[v] \in LogicalKeys
    BY <1>1, ElementOfSeq DEF l
  <2>2. Newest(hist, l, hist[v], view[n][hist[v]])
    BY <1>1, <2>1, ViewNewest
  <2> QED
    BY <1>1, <2>1, <2>2 DEF Newest
<1>3. \A v \in (a + 1)..b : Outcome(v, view[n][KeyOf(v)]) = "applied" <=> v > l
  BY <1>2 DEF Outcome, KeyOf
<1> QED
  BY <1>1, <1>3 DEF Fresh, l

(* Applier.Apply for every record of a batch that begins in the journal.   *)
LEMMA AppliedAllStep ==
  ASSUME LifecycleInv, hist' = hist, NEW n \in Nodes, up[n],
         NEW a \in 0..LastVersion(n), NEW b \in 0..Len(hist),
         AppliedAll(n, (a + 1)..b),
         floor' = floor, checkpoint' = checkpoint, up' = up, snapshot' = snapshot
  PROVE  /\ JournalStep
         /\ LastVersion(n)' = IF b <= LastVersion(n) THEN LastVersion(n) ELSE b
<1> DEFINE l == LastVersion(n)
           e == IF b <= l THEN l ELSE b
<1>1. /\ l \in 0..Len(hist) /\ Len(hist) \in Nat /\ hist \in Seq(LogicalKeys)
      /\ view[n] = R!ViewAt(hist, l) /\ log[n] = (floor[n] + 1)..l
      /\ floor[n] \in Nat /\ floor[n] <= l
  BY Basics DEF LifecycleInv, Journals, JournalOK
<1>2. Fresh(n, (a + 1)..b) = (l + 1)..b
  BY FreshRecords
<1>3. Replayed(view[n], (a + 1)..b) = R!ViewAt(hist, e)
  BY <1>1, Basics, ReplayedView
<1>4. e \in l..Len(hist)
  BY <1>1
<1>5. log[n] \cup ((l + 1)..b) = (floor[n] + 1)..e
  <2> HIDE DEF l
  <2> QED
    BY <1>1
<1>6. /\ log' = [log EXCEPT ![n] = log[n] \cup Fresh(n, (a + 1)..b)]
      /\ view' = [view EXCEPT ![n] = Replayed(view[n], (a + 1)..b)]
  BY DEF AppliedAll
<1>7. /\ log' = [log EXCEPT ![n] = (floor[n] + 1)..e]
      /\ view' = [view EXCEPT ![n] = R!ViewAt(hist, e)]
  BY <1>2, <1>3, <1>5, <1>6
<1> HIDE DEF e
<1>8. JournalStep /\ LastVersion(n)' = e
  BY <1>4, <1>7, JournalExtended DEF l
<1> QED
  BY <1>8 DEF e
(* A step that leaves every journal and view alone. *)
LEMMA JournalsAlone ==
  ASSUME LifecycleInv, UNCHANGED <<hist, floor, log, checkpoint, up, view, snapshot>>
  PROVE  JournalStep /\ \A n \in Nodes : LastVersion(n)' = LastVersion(n)
<1>1. \A n \in Nodes : Same(n)
  BY DEF Same
<1>2. \A n \in Nodes : JournalOK(n)' /\ LastVersion(n)' = LastVersion(n)
  BY <1>1, GrownStep, SameJournal
<1>3. \A n \in Nodes : LastVersion(n)' >= LastVersion(n)
  BY <1>2, Basics
<1> QED
  BY <1>1, <1>2, <1>3, Basics, OneNode

(* What Replay makes of the files of a node. *)
LEMMA ReplayedFiles ==
  ASSUME LifecycleInv, NEW n \in Nodes
  PROVE  Replayed(checkpoint[n], log[n]) = R!ViewAt(hist, LastVersion(n))
<1>1. JournalOK(n) /\ floor[n] \in 0..Len(hist) /\ LastVersion(n) \in floor[n]..Len(hist)
  BY Basics DEF LifecycleInv, Journals
<1>2. /\ Replayed(R!ViewAt(hist, floor[n]), (floor[n] + 1)..LastVersion(n))
           = R!ViewAt(hist, IF LastVersion(n) <= floor[n] THEN floor[n] ELSE LastVersion(n))
  BY <1>1, Basics, ReplayedView
<1>3. (IF LastVersion(n) <= floor[n] THEN floor[n] ELSE LastVersion(n)) = LastVersion(n)
  BY <1>1, Basics
<1> QED
  BY <1>1, <1>2, <1>3 DEF JournalOK

LEMMA MutateJournals ==
  ASSUME LifecycleInv, NEW k \in LogicalKeys, Mutate(k)
  PROVE  JournalStep
<1> DEFINE v == Len(hist) + 1
<1>1. /\ LastVersion(Source) = Len(hist) /\ JournalOK(Source) /\ Len(hist) \in Nat
      /\ hist \in Seq(LogicalKeys) /\ Source \in Nodes
  BY Basics DEF LifecycleInv, Journals
<1>2. /\ hist' = Append(hist, k) /\ up[Source]
      /\ log' = [log EXCEPT ![Source] = log[Source] \cup {v}]
      /\ view' = [view EXCEPT ![Source][k] = v]
      /\ UNCHANGED <<floor, checkpoint, up, snapshot>>
      /\ Len(hist) < MaxVersion
  BY <1>1 DEF Mutate
<1>3. Grown
  BY <1>2, GrownStep
<1>4. hist' \in Seq(LogicalKeys) /\ Len(hist') = v /\ hist'[v] = k
  BY <1>1, <1>2, AppendProperties
<1>5. \A m \in Nodes \ {Source} : Same(m)
  BY <1>2 DEF Same, LifecycleInv, LifecycleTypeOK
<1>6. \A m \in Nodes \ {Source} : JournalOK(m)' /\ LastVersion(m)' = LastVersion(m)
  BY <1>3, <1>5, SameJournal
<1>7. JournalOK(Source)' /\ LastVersion(Source)' = v
  <2>1. floor[Source] \in 0..Len(hist)
    BY <1>1, Basics
  <2>2. log'[Source] = (floor[Source] + 1)..v
    <3>1. log'[Source] = log[Source] \cup {v}
      BY <1>1, <1>2 DEF LifecycleInv, LifecycleTypeOK
    <3> QED
      BY <1>1, <2>1, <3>1 DEF JournalOK
  <2>3. view'[Source] = R!ViewAt(hist', v)
    <3>1. view[Source] = R!ViewAt(hist', Len(hist))
      BY <1>1, <1>2, <1>3 DEF JournalOK, Grown
    <3>2. R!ViewAt(hist', v) = [R!ViewAt(hist', v - 1) EXCEPT ![hist'[v]] = v]
      BY <1>1, <1>4, ViewNext
    <3>3. view'[Source] = [view[Source] EXCEPT ![k] = v]
      BY <1>1, <1>2 DEF LifecycleInv, LifecycleTypeOK
    <3> QED
      BY <1>1, <1>4, <3>1, <3>2, <3>3
  <2>4. checkpoint'[Source] = R!ViewAt(hist', floor[Source])
    BY <1>1, <1>2, <1>3, <2>1 DEF JournalOK, Grown
  <2>5. IsCheckpoint(hist', snapshot'[Source])
    <3>1. snapshot[Source] \in Checkpoints /\ IsCheckpoint(hist, snapshot[Source])
      BY <1>1 DEF LifecycleInv, LifecycleTypeOK, Checkpoints, JournalOK
    <3> QED
      BY <1>2, <1>3, <3>1, CheckpointStays DEF IsCheckpoint
  <2>6. floor[Source] \in 0..Len(hist') /\ v \in floor[Source]..Len(hist')
    BY <1>1, <1>4, <2>1
  <2> QED
    BY <1>1, <1>2, <1>4, <2>2, <2>3, <2>4, <2>5, <2>6, JournalAt
<1>8. HistoryStep
  BY <1>2, <1>6, <1>7 DEF HistoryStep, Elsewhere
<1> QED
  BY <1>1, <1>2, <1>3, <1>4, <1>6, <1>7, <1>8, LifecycleAssumption DEF JournalStep, Journals

LEMMA StartJournals ==
  ASSUME LifecycleInv, NEW n \in Nodes, NEW flag, Start(n, flag)
  PROVE  JournalStep
<1>1. JournalOK(n) /\ floor[n] \in 0..Len(hist) /\ LastVersion(n) \in floor[n]..Len(hist)
  BY Basics DEF LifecycleInv, Journals
<1>2. \A m \in Nodes \ {n} : Same(m)
  BY DEF Start, Same, LifecycleInv, LifecycleTypeOK
<1>3. /\ view'[n] = R!ViewAt(hist, LastVersion(n)) /\ UNCHANGED <<hist, floor, log, checkpoint>>
      /\ snapshot'[n] = [to |-> floor[n], recs |-> checkpoint[n]]
  BY ReplayedFiles DEF Start, LifecycleInv, LifecycleTypeOK
<1>4. IsCheckpoint(hist', snapshot'[n])
  BY <1>1, <1>3, Basics DEF IsCheckpoint, JournalOK
<1>5. JournalOK(n)' /\ LastVersion(n)' = LastVersion(n)
  BY <1>1, <1>3, <1>4, Basics, JournalAt DEF JournalOK
<1> QED
  BY <1>2, <1>3, <1>5, Basics, OneNode

LEMMA StopJournals ==
  ASSUME LifecycleInv, NEW n \in Nodes, Stop(n)
  PROVE  JournalStep
<1>1. JournalOK(n) /\ floor[n] \in 0..Len(hist) /\ LastVersion(n) \in floor[n]..Len(hist)
  BY Basics DEF LifecycleInv, Journals
<1>2. \A m \in Nodes \ {n} : Same(m)
  BY DEF Stop, files, Same, LifecycleInv, LifecycleTypeOK
<1>3. /\ ~up'[n] /\ UNCHANGED <<hist, floor, log, checkpoint>>
      /\ snapshot'[n] = NoSnapshot
  BY DEF Stop, files, LifecycleInv, LifecycleTypeOK
<1>4. IsCheckpoint(hist', snapshot'[n])
  BY <1>3, Basics, ViewEmpty DEF IsCheckpoint, NoSnapshot
<1>5. JournalOK(n)' /\ LastVersion(n)' = LastVersion(n)
  BY <1>1, <1>3, <1>4, Basics, JournalAt DEF JournalOK
<1> QED
  BY <1>2, <1>3, <1>5, Basics, OneNode

LEMMA WipeJournals ==
  ASSUME LifecycleInv, NEW n \in Nodes, Wipe(n)
  PROVE  JournalStep /\ LastVersion(n)' = 0
<1>1. 0 \in 0..Len(hist) /\ R!ViewAt(hist, 0) = Empty
  BY Basics, ViewEmpty
<1> QED
  BY <1>1, JournalReplaced DEF Wipe, process

LEMMA CompactJournals ==
  ASSUME LifecycleInv, NEW n \in Nodes, NEW flag, CompactRun(n, flag)
  PROVE  JournalStep /\ LastVersion(n)' = LastVersion(n)
<1>1. CASE Compacted(n)
  <2>1. checkpoint' = [checkpoint EXCEPT ![n] = R!ViewAt(hist, LastVersion(n))]
    BY <1>1, ReplayedFiles DEF Compacted
  <2>2. LastVersion(n) \in 0..Len(hist) /\ LastVersion(n) >= LastVersion(n)
    BY Basics
  <2> QED
    BY <1>1, <2>1, <2>2, JournalReplaced DEF CompactRun, Compacted, process
<1>2. CASE UNCHANGED <<checkpoint, floor, log>>
  BY <1>2, JournalsAlone DEF CompactRun, process
<1> QED
  BY <1>1, <1>2 DEF CompactRun

(* The prefix of a batch that Apply gets through. *)
LEMMA BatchJournals ==
  ASSUME LifecycleInv, NEW n \in Nodes, NEW m \in Nodes,
         HandleBatch(n, m) \/ HandleBatchFails(n, m)
  PROVE  JournalStep
<1> DEFINE f == Received(n, m)
<1>1. StartsAt(n, m, "batch")
  BY DEF HandleBatch, HandleBatchFails
<1>2. wire[m][n] # <<>> /\ f.type = "batch" /\ f.from = book[n][m]
  BY <1>1 DEF StartsAt, Receives, Received
<1>3. up[n] /\ f \in Frames /\ IsPiece(hist, LastVersion(m), f)
  BY <1>2, ReceivedOK
<1> HIDE DEF f
<1>4. /\ f.from \in 0..LastVersion(n) /\ f.to \in 0..Len(hist) /\ f.from <= f.to
      /\ f.records = (f.from + 1)..f.to /\ Len(hist) \in Nat
  BY <1>2, <1>3, Basics, LifecycleAssumption DEF IsPiece, Frames, Versions
<1>5. UNCHANGED <<hist, floor, checkpoint, up, snapshot>>
  BY DEF HandleBatch, HandleBatchFails
<1>6. CASE HandleBatch(n, m)
  <2>1. AppliedAll(n, (f.from + 1)..f.to)
    BY <1>4, <1>6 DEF HandleBatch, f
  <2> QED
    BY <1>3, <1>4, <1>5, <2>1, AppliedAllStep
<1>7. CASE HandleBatchFails(n, m)
  <2>1. PICK cut \in f.records \cup {f.to + 1} :
          AppliedAll(n, {v \in f.records : v < cut})
    BY <1>7 DEF HandleBatchFails, f
  <2>2. cut - 1 \in 0..Len(hist) /\ {v \in f.records : v < cut} = (f.from + 1)..(cut - 1)
    BY <1>4, <2>1
  <2> QED
    BY <1>3, <1>4, <1>5, <2>1, <2>2, AppliedAllStep
<1> QED
  BY <1>6, <1>7

LEMMA SnapshotJournals ==
  ASSUME LifecycleInv, NEW n \in Nodes, NEW m \in Nodes,
         HandleSnapshot(n, m) \/ HandleSnapshotFails(n, m)
  PROVE  JournalStep /\ LastVersion(n)' = Received(n, m).to
<1> DEFINE f == Received(n, m)
<1>1. StartsAt(n, m, "snapshot")
  BY DEF HandleSnapshot, HandleSnapshotFails
<1>2. wire[m][n] # <<>> /\ f.type = "snapshot"
  BY <1>1 DEF StartsAt, Receives, Received
<1>3. up[n] /\ f \in Frames /\ IsPiece(hist, LastVersion(m), f)
  BY <1>2, ReceivedOK
<1>4. Installed(n, f) /\ UNCHANGED <<hist, up, snapshot>>
  BY DEF HandleSnapshot, HandleSnapshotFails
<1> HIDE DEF f
<1>5. f.to \in 0..Len(hist) /\ f.recs = R!ViewAt(hist, f.to) /\ Len(hist) \in Nat
  BY <1>2, <1>3, Basics, LifecycleAssumption DEF IsPiece, Frames, Versions
<1> QED
  BY <1>3, <1>4, <1>5, JournalReplaced DEF Installed, CanInstall, f

LEMMA NextJournals ==
  ASSUME LifecycleInv, LifecycleNext
  PROVE  JournalStep
<1>1. CASE \E k \in LogicalKeys : Mutate(k)
  BY <1>1, MutateJournals
<1>2. CASE \E pair \in OpenConns : Disconnect(pair)
  BY <1>2, JournalsAlone DEF Disconnect, files, process
<1>3. ASSUME NEW n \in Nodes, Stop(n) \/ Wipe(n)
      PROVE  JournalStep
  BY <1>3, StopJournals, WipeJournals
<1>4. ASSUME NEW n \in Nodes, NEW flag \in Flags(n), Start(n, flag) \/ CompactRun(n, flag)
      PROVE  JournalStep
  BY <1>4, StartJournals, CompactJournals
<1>5. ASSUME NEW n \in Nodes, NEW m \in Nodes, SessionStep(n, m)
      PROVE  JournalStep
  <2>1. CASE HandleBatch(n, m) \/ HandleBatchFails(n, m)
    BY <2>1, BatchJournals
  <2>2. CASE HandleSnapshot(n, m) \/ HandleSnapshotFails(n, m)
    BY <2>2, SnapshotJournals
  <2>3. CASE \/ Connect(n, m) \/ SendBatch(n, m) \/ SendSnapshot(n, m) \/ SendFails(n, m)
             \/ HandleAck(n, m) \/ HandleDuplicate(n, m) \/ HandleFails(n, m)
    BY <2>3, JournalsAlone DEF Connect, SendBatch, SendSnapshot, SendFails, HandleAck,
         HandleDuplicate, HandleFails, files, process
  <2> QED
    BY <1>5, <2>1, <2>2, <2>3 DEF SessionStep
<1> QED
  BY <1>1, <1>2, <1>3, <1>4, <1>5 DEF LifecycleNext
-----------------------------------------------------------------------------
(* Sessions and frames. *)

LEMMA PieceStays ==
  ASSUME LifecycleInv, Grown, NEW l \in 0..Len(hist), NEW e \in Nat, l <= e,
         NEW f \in Frames, IsPiece(hist, l, f)
  PROVE  IsPiece(hist', e, f)
<1>1. f.to \in 0..Len(hist)
  BY Basics DEF IsPiece, Frames, Versions
<1> QED
  BY <1>1, Basics DEF IsPiece, Grown

LEMMA PiecesStay ==
  ASSUME LifecycleInv, Grown, NEW l \in 0..Len(hist), NEW e \in Nat, l <= e,
         NEW fs \in Seq(Frames), Pieces(hist, l, fs)
  PROVE  Pieces(hist', e, fs)
BY PieceStays, ElementOfSeq DEF Pieces

LEMMA PiecesAppend ==
  ASSUME NEW h, NEW l, NEW fs \in Seq(Frames), Pieces(h, l, fs),
         NEW f \in Frames, IsPiece(h, l, f)
  PROVE  Append(fs, f) \in Seq(Frames) /\ Pieces(h, l, Append(fs, f))
<1> DEFINE gs == Append(fs, f)
<1>1. /\ gs \in Seq(Frames) /\ Len(gs) = Len(fs) + 1 /\ Len(fs) \in Nat
      /\ \A i \in 1..Len(fs) : gs[i] = fs[i]
      /\ gs[Len(fs) + 1] = f
  BY AppendProperties, LenProperties
<1> HIDE DEF gs
<1>2. Pieces(h, l, gs)
  <2> SUFFICES ASSUME NEW i \in 1..Len(gs) PROVE IsPiece(h, l, gs[i])
    BY DEF Pieces
  <2>1. i \in 1..Len(fs) \/ i = Len(fs) + 1
    BY <1>1
  <2> QED
    BY <1>1, <2>1 DEF Pieces
<1> QED
  BY <1>1, <1>2 DEF gs

LEMMA PiecesTail ==
  ASSUME NEW h, NEW l, NEW fs \in Seq(Frames), fs # <<>>, Pieces(h, l, fs)
  PROVE  Tail(fs) \in Seq(Frames) /\ Pieces(h, l, Tail(fs))
<1>1. /\ Tail(fs) \in Seq(Frames) /\ Len(Tail(fs)) = Len(fs) - 1 /\ Len(fs) \in Nat
      /\ \A i \in 1..Len(Tail(fs)) : Tail(fs)[i] = fs[i + 1]
  BY HeadTailProperties, LenProperties
<1>2. \A i \in 1..Len(Tail(fs)) : i + 1 \in 1..Len(fs)
  BY <1>1
<1> QED
  BY <1>1, <1>2 DEF Pieces

(* The sessions and frames before and after a step, as far as it leaves    *)
(* them alone.                                                             *)
LEMMA LinkKept ==
  ASSUME LifecycleInv, JournalStep, NEW p \in Nodes, NEW q \in Nodes,
         IsCheckpoint(hist', sess'[p][q].snapshot),
         sess'[p][q].pc # "none" => Connected(p, q),
         wire'[p][q] = wire[p][q],
         wire[p][q] # <<>> => LastVersion(p)' >= LastVersion(p),
         up[p] /\ up[q] => up'[p] /\ up'[q]
  PROVE  LinkOK(p, q)'
<1>1. LinkOK(p, q) /\ wire[p][q] \in Seq(Frames)
  BY DEF LifecycleInv, Links, LinksTyped
<1>2. Pieces(hist', LastVersion(p)', wire[p][q])
  <2>1. CASE wire[p][q] = <<>>
    BY <2>1 DEF Pieces
  <2>2. CASE wire[p][q] # <<>>
    <3>1. /\ LastVersion(p) \in 0..Len(hist) /\ LastVersion(p) \in Nat
          /\ LastVersion(p)' \in 0..Len(hist')
      BY Basics DEF JournalStep, Journals, JournalOK
    <3>2. LastVersion(p)' \in Nat
      BY <3>1, LenProperties DEF JournalStep, Grown
    <3> QED
      BY <1>1, <2>2, <3>1, <3>2, PiecesStay DEF LinkOK, JournalStep
  <2> QED
    BY <2>1, <2>2
<1> QED
  BY <1>1, <1>2 DEF LinkOK, Connected

LEMMA LinkClosed ==
  ASSUME hist' \in Seq(LogicalKeys), NEW p \in Nodes, NEW q \in Nodes,
         sess'[p][q] = NoSession, wire'[p][q] = <<>>
  PROVE  LinkOK(p, q)'
<1>1. IsCheckpoint(hist', NoSession.snapshot)
  BY ViewEmpty, LenProperties DEF IsCheckpoint, NoSession, NoSnapshot
<1>2. Pieces(hist', LastVersion(p)', wire'[p][q])
  BY DEF Pieces
<1> QED
  BY <1>1, <1>2 DEF LinkOK, Connected, NoSession

LEMMA SnapshotsStay ==
  ASSUME LifecycleInv, Grown, NEW p \in Nodes, NEW q \in Nodes
  PROVE  IsCheckpoint(hist', sess[p][q].snapshot)
BY CheckpointStays DEF LifecycleInv, Links, LinkOK, LinksTyped, Sessions

LEMMA EmptyTyped ==
  Empty \in Views /\ NoSnapshot \in Checkpoints /\ NoSession \in Sessions
BY LifecycleAssumption DEF Empty, Views, Versions, NoSnapshot, Checkpoints, NoSession, Sessions

(* Connections are closed, among them all of a node that stops. *)
LEMMA ClosedLinks ==
  ASSUME LifecycleInv, JournalStep, NEW pairs, Closed(pairs),
         \A p \in Nodes : LastVersion(p)' >= LastVersion(p),
         \A p, q \in Nodes : {p, q} \notin pairs /\ up[p] /\ up[q] => up'[p] /\ up'[q]
  PROVE  LinksTyped' /\ Links'
<1>1. LinksTyped'
  BY EmptyTyped, EmptySeq DEF Closed, LifecycleInv, LinksTyped
<1>2. ASSUME NEW p \in Nodes, NEW q \in Nodes
      PROVE  LinkOK(p, q)'
  <2>1. CASE {p, q} \in pairs
    BY <2>1, LinkClosed DEF Closed, JournalStep, Grown
  <2>2. CASE {p, q} \notin pairs
    <3>1. sess'[p][q] = sess[p][q] /\ wire'[p][q] = wire[p][q]
      BY <2>2 DEF Closed
    <3> QED
      BY <2>2, <3>1, SnapshotsStay, LinkKept DEF Connected, JournalStep
  <2> QED
    BY <2>1, <2>2
<1> QED
  BY <1>1, <1>2 DEF Links

(* No connection is concerned. *)
LEMMA SameLinks ==
  ASSUME LifecycleInv, JournalStep, UNCHANGED <<sess, wire>>,
         \A p \in Nodes : up[p] => up'[p] /\ LastVersion(p)' >= LastVersion(p)
  PROVE  LinksTyped' /\ Links'
<1>1. LinksTyped'
  BY DEF LifecycleInv, LinksTyped
<1>2. ASSUME NEW p \in Nodes, NEW q \in Nodes
      PROVE  LinkOK(p, q)'
  <2>1. wire[p][q] # <<>> => up[p]
    BY DEF LifecycleInv, Links, LinkOK
  <2> QED
    BY <2>1, SnapshotsStay, LinkKept DEF Connected, JournalStep
<1> QED
  BY <1>1, <1>2 DEF Links
(* Updates of a function of two nodes. *)
LEMMA PairUpdate ==
  ASSUME NEW S, NEW g \in [Nodes -> [Nodes -> S]], NEW n \in Nodes, NEW m \in Nodes,
         NEW x \in S
  PROVE  /\ [g EXCEPT ![n][m] = x] \in [Nodes -> [Nodes -> S]]
         /\ [g EXCEPT ![n][m] = x][n][m] = x
         /\ \A p, q \in Nodes : <<p, q>> # <<n, m>> => [g EXCEPT ![n][m] = x][p][q] = g[p][q]
OBVIOUS

LEMMA SessionUpdate ==
  ASSUME NEW x \in Sessions, NEW to \in Versions, NEW more \in BOOLEAN
  PROVE  /\ [x EXCEPT !.pc = "wait", !.to = to, !.more = more] \in Sessions
         /\ [x EXCEPT !.pc = "wait", !.to = to, !.more = more].snapshot = x.snapshot
         /\ [x EXCEPT !.pc = "wait", !.more = more] \in Sessions
         /\ [x EXCEPT !.pc = "wait", !.more = more].snapshot = x.snapshot
BY DEF Sessions

LEMMA SessionBegins ==
  ASSUME NEW s \in Checkpoints
  PROVE  /\ [NoSession EXCEPT !.pc = "plan", !.snapshot = s] \in Sessions
         /\ [NoSession EXCEPT !.pc = "plan", !.snapshot = s].snapshot = s
BY EmptyTyped DEF Sessions

(* A step in which no prefix changes. *)
LEMMA LinkAlone ==
  ASSUME LifecycleInv, NEW p \in Nodes, NEW q \in Nodes,
         UNCHANGED <<hist, floor, log, checkpoint, up, view, snapshot>>,
         sess'[p][q].snapshot = sess[p][q].snapshot,
         sess'[p][q].pc # "none" => Connected(p, q),
         wire'[p][q] = wire[p][q]
  PROVE  LinkOK(p, q)'
<1>1. JournalStep /\ LastVersion(p)' = LastVersion(p) /\ LastVersion(p) \in Nat
  BY JournalsAlone, Basics
<1>2. IsCheckpoint(hist', sess'[p][q].snapshot)
  BY <1>1, SnapshotsStay DEF JournalStep
<1>3. LastVersion(p)' >= LastVersion(p)
  BY <1>1
<1> QED
  BY <1>1, <1>2, <1>3, LinkKept

(* One session changes, its frames stay or are followed by another one.    *)
LEMMA SentLinks ==
  ASSUME LifecycleInv, NEW n \in Nodes, NEW m \in Nodes, Connected(n, m),
         NEW f \in Frames, IsPiece(hist, LastVersion(n), f), NEW more \in BOOLEAN,
         Sent(n, m, f, more),
         UNCHANGED <<hist, floor, log, checkpoint, up, view, snapshot>>
  PROVE  LinksTyped' /\ Links'
<1>1. JournalStep /\ \A p \in Nodes : LastVersion(p)' = LastVersion(p)
  BY JournalsAlone
<1>2. /\ sess \in [Nodes -> [Nodes -> Sessions]] /\ wire \in [Nodes -> [Nodes -> Seq(Frames)]]
      /\ LinkOK(n, m)
  BY DEF LifecycleInv, LinksTyped, Links
<1>3. /\ Append(wire[n][m], f) \in Seq(Frames)
      /\ Pieces(hist, LastVersion(n), Append(wire[n][m], f))
  BY <1>2, PiecesAppend DEF LinkOK
<1>4. /\ wire'[n][m] = Append(wire[n][m], f)
      /\ \A p, q \in Nodes : <<p, q>> # <<n, m>> => wire'[p][q] = wire[p][q]
      /\ wire' \in [Nodes -> [Nodes -> Seq(Frames)]]
  BY <1>2, <1>3 DEF Sent
<1> DEFINE x == [sess[n][m] EXCEPT !.pc = "wait", !.to = f.to, !.more = more]
<1>5. x \in Sessions /\ x.snapshot = sess[n][m].snapshot
  <2>1. sess[n][m] \in Sessions /\ f.to \in Versions
    BY <1>2 DEF Frames
  <2> QED
    BY <2>1, SessionUpdate
<1>6. sess' = [sess EXCEPT ![n][m] = x]
  BY <1>2 DEF Sent
<1> HIDE DEF x
<1>7. /\ sess' \in [Nodes -> [Nodes -> Sessions]] /\ sess'[n][m] = x
      /\ \A p, q \in Nodes : <<p, q>> # <<n, m>> => sess'[p][q] = sess[p][q]
  BY <1>2, <1>5, <1>6, PairUpdate
<1>8. ASSUME NEW p \in Nodes, NEW q \in Nodes
      PROVE  LinkOK(p, q)'
  <2>1. CASE p = n /\ q = m
    BY <1>1, <1>2, <1>3, <1>4, <1>5, <1>7, <2>1 DEF LinkOK, Connected
  <2>2. CASE <<p, q>> # <<n, m>>
    <3>1. sess'[p][q] = sess[p][q] /\ wire'[p][q] = wire[p][q]
      BY <1>4, <1>7, <2>2
    <3> QED
      BY <3>1, LinkAlone DEF Connected
  <2> QED
    BY <2>1, <2>2
<1> QED
  BY <1>4, <1>7, <1>8 DEF LinksTyped, Links

(* RepairBatch selects the next records, without a gap. *)
LEMMA SelectedRecords ==
  ASSUME LifecycleInv, NEW n \in Nodes, NEW from \in floor[n]..LastVersion(n)
  PROVE  \E to \in from..LastVersion(n) : Selected(n, from) = (from + 1)..to
<1> DEFINE l == LastVersion(n)
           rest == (from + 1)..l
           to == IF l - from <= MaxRecords THEN l ELSE from + MaxRecords
<1>1. /\ floor[n] \in Nat /\ l \in Nat /\ MaxRecords \in Nat /\ from \in Nat
      /\ log[n] = (floor[n] + 1)..l
  BY Basics, LifecycleAssumption DEF LifecycleInv, Journals, JournalOK
<1> HIDE DEF l
<1>2. {v \in log[n] : v > from} = rest
  BY <1>1 DEF l
<1>3. ASSUME NEW v \in rest
      PROVE  Cardinality({u \in rest : u <= v}) = v - from
  <2>1. {u \in rest : u <= v} = (from + 1)..v
    BY <1>1
  <2>2. from + 1 \in Int /\ v \in Int /\ v >= from + 1
    BY <1>1
  <2>3. Cardinality((from + 1)..v) = IF from + 1 > v THEN 0 ELSE v - (from + 1) + 1
    BY <2>2, FS_Interval
  <2>4. (IF from + 1 > v THEN 0 ELSE v - (from + 1) + 1) = v - from
    BY <1>1, <2>2
  <2> QED
    BY <2>1, <2>3, <2>4
<1>4. Selected(n, from) = {v \in rest : Cardinality({u \in rest : u <= v}) <= MaxRecords}
  BY <1>2 DEF Selected
<1>5. Selected(n, from) = {v \in rest : v - from <= MaxRecords}
  BY <1>3, <1>4
<1>6. Selected(n, from) = (from + 1)..to /\ to \in from..l
  BY <1>1, <1>5 DEF l
<1> QED
  BY <1>6 DEF l

LEMMA SendBatchLinks ==
  ASSUME LifecycleInv, NEW n \in Nodes, NEW m \in Nodes, SendBatch(n, m)
  PROVE  LinksTyped' /\ Links'
<1> DEFINE from == book[n][m]
           to == Max(Selected(n, from) \cup {from})
           f == Frame("batch", from, to, Selected(n, from), Empty)
           more == \E v \in log[n] : v > to
<1>1. from \in floor[n]..LastVersion(n) /\ LastVersion(n) \in Nat /\ floor[n] \in Nat
  BY Basics DEF SendBatch
<1>2. PICK e \in from..LastVersion(n) : Selected(n, from) = (from + 1)..e
  BY <1>1, SelectedRecords
<1>3. to = e
  BY <1>1, <1>2, MaxJournal
<1>4. LastVersion(n) <= MaxVersion /\ MaxVersion \in Nat
  BY Basics
<1>5. f \in Frames /\ IsPiece(hist, LastVersion(n), f)
  BY <1>1, <1>2, <1>3, <1>4, EmptyTyped DEF Frames, Frame, IsPiece, Versions
<1>6. Connected(n, m) /\ Sent(n, m, f, more)
  BY DEF SendBatch, AtSendNext, Connected
<1>7. UNCHANGED <<hist, floor, log, checkpoint, up, view, snapshot>>
  BY DEF SendBatch, files, process
<1>8. more \in BOOLEAN
  OBVIOUS
<1> HIDE DEF f, more
<1> QED
  BY <1>5, <1>6, <1>7, <1>8, SentLinks

LEMMA SendSnapshotLinks ==
  ASSUME LifecycleInv, NEW n \in Nodes, NEW m \in Nodes, SendSnapshot(n, m)
  PROVE  LinksTyped' /\ Links'
<1> DEFINE snap == sess[n][m].snapshot
           f == Frame("snapshot", book[n][m], snap.to, {}, snap.recs)
<1>1. snap \in Checkpoints /\ IsCheckpoint(hist, snap) /\ book[n][m] \in Versions
  BY DEF LifecycleInv, LifecycleTypeOK, LinksTyped, Sessions, Links, LinkOK
<1>2. snap.to = floor[n] /\ floor[n] <= LastVersion(n)
  BY Basics DEF SendSnapshot
<1>3. f \in Frames /\ IsPiece(hist, LastVersion(n), f)
  BY <1>1, <1>2 DEF Frames, Frame, Checkpoints, IsPiece, IsCheckpoint
<1>4. Connected(n, m) /\ Sent(n, m, f, FALSE)
  BY DEF SendSnapshot, AtSendNext, Connected
<1>5. UNCHANGED <<hist, floor, log, checkpoint, up, view, snapshot>>
  BY DEF SendSnapshot, files, process
<1> HIDE DEF f
<1> QED
  BY <1>3, <1>4, <1>5, SentLinks

LEMMA SendFailsLinks ==
  ASSUME LifecycleInv, NEW n \in Nodes, NEW m \in Nodes, SendFails(n, m)
  PROVE  LinksTyped' /\ Links'
<1>1. UNCHANGED <<hist, floor, log, checkpoint, up, view, snapshot>>
  BY DEF SendFails, files, process
<1>2. /\ sess \in [Nodes -> [Nodes -> Sessions]] /\ wire' = wire /\ up' = up
      /\ wire \in [Nodes -> [Nodes -> Seq(Frames)]]
  BY DEF LifecycleInv, LinksTyped, SendFails, process
<1> DEFINE x == [sess[n][m] EXCEPT !.pc = "wait", !.more = FALSE]
<1>3. x \in Sessions /\ x.snapshot = sess[n][m].snapshot
  <2>1. sess[n][m] \in Sessions /\ 0 \in Versions /\ FALSE \in BOOLEAN
    BY <1>2, LifecycleAssumption DEF Versions
  <2> QED
    BY <2>1, SessionUpdate
<1>4. sess' = [sess EXCEPT ![n][m] = x]
  BY <1>2 DEF SendFails
<1> HIDE DEF x
<1>5. /\ sess' \in [Nodes -> [Nodes -> Sessions]] /\ sess'[n][m] = x
      /\ \A p, q \in Nodes : <<p, q>> # <<n, m>> => sess'[p][q] = sess[p][q]
  BY <1>2, <1>3, <1>4, PairUpdate
<1>6. Connected(n, m)
  BY DEF SendFails, AtSendNext, Connected
<1>7. ASSUME NEW p \in Nodes, NEW q \in Nodes
      PROVE  LinkOK(p, q)'
  <2>1. sess'[p][q].snapshot = sess[p][q].snapshot
    BY <1>3, <1>5
  <2>2. sess'[p][q].pc # "none" => Connected(p, q)
    BY <1>5, <1>6 DEF Connected
  <2> QED
    BY <1>1, <1>2, <2>1, <2>2, LinkAlone
<1> QED
  BY <1>2, <1>5, <1>7 DEF Links, LinksTyped

LEMMA ConnectLinks ==
  ASSUME LifecycleInv, NEW n \in Nodes, NEW m \in Nodes, Connect(n, m)
  PROVE  LinksTyped' /\ Links'
<1> /\ UNCHANGED <<hist, floor, log, checkpoint, up, view, snapshot>>
  BY DEF Connect, process
<1>1. JournalStep /\ \A p \in Nodes : LastVersion(p)' = LastVersion(p)
  BY JournalsAlone
<1>2. /\ sess \in [Nodes -> [Nodes -> Sessions]] /\ wire' = wire /\ up' = up /\ hist' = hist
      /\ wire \in [Nodes -> [Nodes -> Seq(Frames)]]
      /\ n # m /\ up[n] /\ up[m]
  BY DEF LifecycleInv, LinksTyped, Connect, process
<1>3. CASE sess' = sess
  <2>1. \A p \in Nodes : LastVersion(p)' >= LastVersion(p)
    BY <1>1, Basics
  <2> QED
    BY <1>1, <1>2, <1>3, <2>1, SameLinks
<1>4. CASE sess' = [sess EXCEPT ![n][m] = Attached(n), ![m][n] = Attached(m)]
  <2>1. \A p \in Nodes : /\ Attached(p) \in Sessions
                         /\ IsCheckpoint(hist', Attached(p).snapshot)
    <3> TAKE p \in Nodes
    <3>1. snapshot[p] \in Checkpoints /\ IsCheckpoint(hist, snapshot[p])
      BY DEF Checkpoints, LifecycleInv, LifecycleTypeOK, Journals, JournalOK
    <3>2. Attached(p) \in Sessions /\ Attached(p).snapshot = snapshot[p]
      BY <3>1, SessionBegins DEF Attached
    <3> QED
      BY <1>2, <3>1, <3>2
  <2>2. /\ sess' \in [Nodes -> [Nodes -> Sessions]]
        /\ sess'[n][m] = Attached(n) /\ sess'[m][n] = Attached(m)
        /\ \A p, q \in Nodes : <<p, q>> # <<n, m>> /\ <<p, q>> # <<m, n>>
                                 => sess'[p][q] = sess[p][q]
    BY <1>2, <1>4, <2>1
  <2>3. ASSUME NEW p \in Nodes, NEW q \in Nodes
        PROVE  LinkOK(p, q)'
    <3>1. CASE <<p, q>> = <<n, m>> \/ <<p, q>> = <<m, n>>
      <4>1. p # q /\ up'[p] /\ up'[q] /\ IsCheckpoint(hist', sess'[p][q].snapshot)
        BY <1>2, <2>1, <2>2, <3>1
      <4>2. Pieces(hist, LastVersion(p), wire[p][q])
        BY DEF LifecycleInv, Links, LinkOK
      <4> QED
        BY <1>1, <1>2, <4>1, <4>2 DEF LinkOK
    <3>2. CASE <<p, q>> # <<n, m>> /\ <<p, q>> # <<m, n>>
      <4>1. sess'[p][q] = sess[p][q] /\ wire'[p][q] = wire[p][q]
        BY <1>2, <2>2, <3>2
      <4> QED
        BY <4>1, LinkAlone DEF Connected
    <3> QED
      BY <3>1, <3>2
  <2> QED
    BY <1>2, <2>2, <2>3 DEF LinksTyped, Links
<1> QED
  BY <1>3, <1>4 DEF Connect

(* A frame is taken off the wire, and perhaps answered. *)
LEMMA HandledLinks ==
  ASSUME LifecycleInv, JournalStep, NEW n \in Nodes, NEW m \in Nodes, wire[m][n] # <<>>,
         \A p \in Nodes : LastVersion(p)' >= LastVersion(p),
         UNCHANGED <<up, sess>>,
         \/ wire' = Taken(n, m)
         \/ \E w \in Versions : w <= LastVersion(n)' /\ wire' = Replied(n, m, w)
  PROVE  LinksTyped' /\ Links'
<1>1. n # m /\ up[n] /\ up[m]
  BY ReceivedOK
<1>2. /\ wire \in [Nodes -> [Nodes -> Seq(Frames)]] /\ sess \in [Nodes -> [Nodes -> Sessions]]
      /\ \A p, q \in Nodes : LinkOK(p, q)
  BY DEF LifecycleInv, LinksTyped, Links
<1>3. \A p, q \in Nodes : Pieces(hist', LastVersion(p)', wire[p][q])
  <2> TAKE p, q \in Nodes
  <2>1. /\ LastVersion(p) \in 0..Len(hist) /\ LastVersion(p) \in Nat
        /\ LastVersion(p)' \in 0..Len(hist')
    BY Basics DEF JournalStep, Journals, JournalOK
  <2>2. LastVersion(p)' \in Nat
    BY <2>1, LenProperties DEF JournalStep, Grown
  <2> QED
    BY <1>2, <2>1, <2>2, PiecesStay DEF LinkOK, JournalStep
<1>4. Tail(wire[m][n]) \in Seq(Frames) /\ Pieces(hist', LastVersion(m)', Tail(wire[m][n]))
  BY <1>2, <1>3, PiecesTail
<1>5. ASSUME NEW w \in Versions, w <= LastVersion(n)'
      PROVE  /\ Append(wire[n][m], Ack(w)) \in Seq(Frames)
             /\ Pieces(hist', LastVersion(n)', Append(wire[n][m], Ack(w)))
  <2>1. Ack(w) \in Frames /\ IsPiece(hist', LastVersion(n)', Ack(w))
    BY <1>5, EmptyTyped, LifecycleAssumption DEF Ack, Frame, Frames, IsPiece, Versions
  <2> QED
    BY <1>2, <1>3, <2>1, PiecesAppend
<1>6. \A p, q \in Nodes : wire'[p][q] \in Seq(Frames) /\ Pieces(hist', LastVersion(p)', wire'[p][q])
  <2> TAKE p, q \in Nodes
  <2>1. CASE wire' = Taken(n, m)
    BY <1>2, <1>3, <1>4, <2>1 DEF Taken
  <2>2. ASSUME NEW w \in Versions, w <= LastVersion(n)', wire' = Replied(n, m, w)
        PROVE  wire'[p][q] \in Seq(Frames) /\ Pieces(hist', LastVersion(p)', wire'[p][q])
    <3> DEFINE a == Append(wire[n][m], Ack(w))
               t == Tail(wire[m][n])
    <3>1. wire' = [wire EXCEPT ![m][n] = t, ![n][m] = a]
      BY <1>1, <1>2, <2>2 DEF Replied
    <3>2. /\ a \in Seq(Frames) /\ Pieces(hist', LastVersion(n)', a)
          /\ t \in Seq(Frames) /\ Pieces(hist', LastVersion(m)', t)
      BY <1>4, <1>5, <2>2
    <3> HIDE DEF a, t
    <3>3. wire'[n][m] = a /\ wire'[m][n] = t
      BY <1>1, <1>2, <3>1
    <3>4. <<p, q>> # <<n, m>> /\ <<p, q>> # <<m, n>> => wire'[p][q] = wire[p][q]
      BY <1>1, <1>2, <3>1
    <3>5. wire[p][q] \in Seq(Frames) /\ Pieces(hist', LastVersion(p)', wire[p][q])
      BY <1>2, <1>3
    <3>6. CASE p = n /\ q = m
      BY <3>2, <3>3, <3>6
    <3>7. CASE p = m /\ q = n
      BY <3>2, <3>3, <3>7
    <3> QED
      BY <3>4, <3>5, <3>6, <3>7
  <2> QED
    BY <2>1, <2>2
<1>7. wire' \in [Nodes -> [Nodes -> Seq(Frames)]]
  <2>1. wire' = [p \in Nodes |-> [q \in Nodes |-> wire'[p][q]]]
    BY <1>2 DEF Taken, Replied
  <2> QED
    BY <1>6, <2>1
<1>8. \A p, q \in Nodes : wire'[p][q] # <<>> =>
                            wire[p][q] # <<>> \/ (p = n /\ q = m) \/ (p = m /\ q = n)
  <2> TAKE p, q \in Nodes
  <2>1. ~(p = n /\ q = m) /\ ~(p = m /\ q = n) => wire'[p][q] = wire[p][q]
    <3>1. CASE wire' = Taken(n, m)
      BY <1>2, <3>1 DEF Taken
    <3>2. ASSUME NEW w \in Versions, wire' = Replied(n, m, w)
          PROVE  ~(p = n /\ q = m) /\ ~(p = m /\ q = n) => wire'[p][q] = wire[p][q]
      BY <1>2, <3>2 DEF Replied
    <3> QED
      BY <3>1, <3>2
  <2> QED
    BY <2>1
<1>9. ASSUME NEW p \in Nodes, NEW q \in Nodes
      PROVE  LinkOK(p, q)'
  BY <1>1, <1>2, <1>6, <1>8, SnapshotsStay DEF LinkOK, Connected, JournalStep
<1> QED
  BY <1>2, <1>7, <1>9 DEF LinksTyped, Links
(* Only a node that lost its directory goes back. *)
LEMMA PrefixGrows ==
  ASSUME LifecycleInv, JournalStep
  PROVE  /\ \A p \in Nodes : LastVersion(p)' \in Nat
         /\ \A p \in Nodes : up[p] => LastVersion(p)' >= LastVersion(p)
         /\ wipes' = wipes => \A p \in Nodes : LastVersion(p)' >= LastVersion(p)
<1>1. \A p \in Nodes : LastVersion(p)' \in Nat
  BY LenProperties DEF JournalStep, Journals, JournalOK, Grown
<1>2. \A p \in Nodes : LastVersion(p) \in Nat
  BY Basics
<1>3. wipes \in Nat /\ LastVersion(Source) = Len(hist) /\ Len(hist) \in Nat
  BY Basics, LifecycleAssumption DEF LifecycleInv, LifecycleTypeOK, Journals
<1>4. CASE \E k \in LogicalKeys : /\ hist' = Append(hist, k)
                                  /\ LastVersion(Source)' = Len(hist) + 1
                                  /\ Elsewhere(Source)
  BY <1>1, <1>2, <1>3, <1>4 DEF Elsewhere
<1>5. ASSUME NEW n \in Nodes, Elsewhere(n),
             LastVersion(n)' >= LastVersion(n) \/ (Wipe(n) /\ LastVersion(n)' = 0)
      PROVE  /\ \A p \in Nodes : up[p] => LastVersion(p)' >= LastVersion(p)
             /\ wipes' = wipes => \A p \in Nodes : LastVersion(p)' >= LastVersion(p)
  <2>1. \A p \in Nodes \ {n} : LastVersion(p)' >= LastVersion(p)
    BY <1>1, <1>2, <1>5 DEF Elsewhere
  <2>2. CASE LastVersion(n)' >= LastVersion(n)
    BY <2>1, <2>2
  <2>3. CASE Wipe(n)
    BY <1>3, <2>1, <2>3 DEF Wipe
  <2> QED
    BY <1>5, <2>2, <2>3
<1> QED
  BY <1>1, <1>4, <1>5 DEF JournalStep, HistoryStep

LEMMA NextLinks ==
  ASSUME LifecycleInv, LifecycleNext, JournalStep
  PROVE  LinksTyped' /\ Links'
<1>1. ASSUME NEW k \in LogicalKeys, Mutate(k)
      PROVE  LinksTyped' /\ Links'
  BY <1>1, PrefixGrows, SameLinks DEF Mutate
<1>2. ASSUME NEW pair \in OpenConns, Disconnect(pair)
      PROVE  LinksTyped' /\ Links'
  BY <1>2, PrefixGrows, ClosedLinks DEF Disconnect, process, counts
<1>3. ASSUME NEW n \in Nodes, Stop(n)
      PROVE  LinksTyped' /\ Links'
  <2>1. \A p, q \in Nodes : {p, q} \notin {{n, m} : m \in Nodes} /\ up[p] /\ up[q]
                              => up'[p] /\ up'[q]
    <3> TAKE p, q \in Nodes
    <3>1. CASE p = n \/ q = n
      BY <3>1
    <3>2. CASE p # n /\ q # n
      BY <1>3, <3>2 DEF Stop, LifecycleInv, LifecycleTypeOK
    <3> QED
      BY <3>1, <3>2
  <2> QED
    BY <1>3, <2>1, PrefixGrows, ClosedLinks DEF Stop
<1>4. ASSUME NEW n \in Nodes, Wipe(n)
      PROVE  LinksTyped' /\ Links'
  BY <1>4, PrefixGrows, SameLinks DEF Wipe, process
<1>5. ASSUME NEW n \in Nodes, NEW flag \in Flags(n), Start(n, flag) \/ CompactRun(n, flag)
      PROVE  LinksTyped' /\ Links'
  <2>1. \A p \in Nodes : up[p] => up'[p]
    BY <1>5 DEF Start, CompactRun, process, LifecycleInv, LifecycleTypeOK
  <2> QED
    BY <1>5, <2>1, PrefixGrows, SameLinks DEF Start, CompactRun
<1>6. ASSUME NEW n \in Nodes, NEW m \in Nodes, SessionStep(n, m)
      PROVE  LinksTyped' /\ Links'
  <2>1. CASE Connect(n, m)
    BY <2>1, ConnectLinks
  <2>2. CASE SendBatch(n, m) \/ SendSnapshot(n, m) \/ SendFails(n, m)
    BY <2>2, SendBatchLinks, SendSnapshotLinks, SendFailsLinks
  <2>3. CASE HandleBatchFails(n, m) \/ HandleSnapshotFails(n, m) \/ HandleFails(n, m)
    BY <2>3, PrefixGrows, ClosedLinks
       DEF HandleBatchFails, HandleSnapshotFails, HandleFails, process, counts
  <2>4. CASE HandleAck(n, m)
    BY <2>4, PrefixGrows, HandledLinks DEF HandleAck, Receives, process, counts
  <2>5. CASE HandleDuplicate(n, m)
    <3>1. book[n][m] \in Versions /\ book[n][m] <= LastVersion(n)'
      <4>1. book[n][m] \in Versions /\ book[n][m] \in Nat /\ book[n][m] <= LastVersion(n)
        BY Basics
      <4>2. LastVersion(n)' >= LastVersion(n) /\ LastVersion(n)' \in Nat /\ LastVersion(n) \in Nat
        BY <2>5, PrefixGrows, Basics DEF HandleDuplicate, counts
      <4> QED
        BY <4>1, <4>2
    <3> QED
      BY <2>5, <3>1, PrefixGrows, HandledLinks DEF HandleDuplicate, Receives, process, counts
  <2>6. CASE HandleBatch(n, m)
    <3>1. wire[m][n] # <<>> /\ Received(n, m) \in Frames
      BY <2>6, ReceivedOK DEF HandleBatch, StartsAt, Receives
    <3>2. Received(n, m).to \in Versions /\ Received(n, m).to <= LastVersion(n)'
      BY <2>6, <3>1 DEF HandleBatch, Frames, LastVersion
    <3> QED
      BY <2>6, <3>1, <3>2, PrefixGrows, HandledLinks DEF HandleBatch, counts
  <2>7. CASE HandleSnapshot(n, m)
    <3>1. wire[m][n] # <<>> /\ Received(n, m) \in Frames
      BY <2>7, ReceivedOK DEF HandleSnapshot, StartsAt, Receives
    <3>2. Received(n, m).to \in Versions /\ Received(n, m).to <= LastVersion(n)'
      BY <2>7, <3>1, SnapshotJournals, PrefixGrows DEF Frames
    <3> QED
      BY <2>7, <3>1, <3>2, PrefixGrows, HandledLinks DEF HandleSnapshot, counts
  <2> QED
    BY <1>6, <2>1, <2>2, <2>3, <2>4, <2>5, <2>6, <2>7 DEF SessionStep
<1> QED
  BY <1>1, <1>2, <1>3, <1>4, <1>5, <1>6 DEF LifecycleNext
-----------------------------------------------------------------------------
(* Watermarks. *)

(* The book of one node: its entries, and room for those it has. *)
IsBook(b) ==
  /\ b \in [Nodes -> Versions]
  /\ Cardinality({m \in Nodes : b[m] # 0}) <= MaxPeers

BooksTyped ==
  /\ book \in [Nodes -> [Nodes -> Versions]]
  /\ \A n \in Nodes : IsBook(book[n])

LEMMA BooksAreTyped ==
  ASSUME LifecycleTypeOK
  PROVE  BooksTyped
BY DEF LifecycleTypeOK, BooksTyped, IsBook

LEMMA EntrySet ==
  ASSUME NEW b, IsBook(b), NEW m \in Nodes, NEW w \in Versions,
         w = 0 \/ b[m] # 0 \/ Cardinality({p \in Nodes : b[p] # 0}) < MaxPeers
  PROVE  IsBook([b EXCEPT ![m] = w])
<1> DEFINE c == [b EXCEPT ![m] = w]
           A == {p \in Nodes : b[p] # 0}
           C == {p \in Nodes : c[p] # 0}
<1>1. c \in [Nodes -> Versions] /\ \A p \in Nodes : c[p] = IF p = m THEN w ELSE b[p]
  BY DEF IsBook
<1>2. IsFiniteSet(A) /\ IsFiniteSet(A \cup {m}) /\ IsFiniteSet(C)
  BY LifecycleAssumption, FS_Subset, FS_AddElement
<1>3. /\ Cardinality(A) \in Nat /\ Cardinality(C) \in Nat /\ Cardinality(A) <= MaxPeers
      /\ MaxPeers \in Nat
  BY <1>2, FS_CardinalityType, LifecycleAssumption DEF IsBook
<1>4. CASE C \subseteq A
  <2>1. Cardinality(C) <= Cardinality(A)
    BY <1>2, <1>4, FS_Subset
  <2> QED
    BY <1>1, <1>3, <2>1 DEF IsBook
<1>5. CASE ~(C \subseteq A)
  <2>1. w # 0 /\ b[m] = 0
    BY <1>1, <1>5
  <2>2. C \subseteq A \cup {m}
    BY <1>1
  <2>3. Cardinality(A \cup {m}) = Cardinality(A) + 1
    BY <1>2, <2>1, FS_AddElement
  <2>4. Cardinality(C) <= Cardinality(A \cup {m})
    BY <1>2, <2>2, FS_Subset
  <2>5. Cardinality(A) < MaxPeers
    BY <2>1
  <2> QED
    BY <1>1, <1>3, <2>3, <2>4, <2>5 DEF IsBook
<1> QED
  BY <1>4, <1>5

(* What a step makes of the books. *)
BooksStep == BooksTyped' /\ Books'

LEMMA BooksAlone ==
  ASSUME LifecycleInv, JournalStep, UNCHANGED <<book, lost, wipes>>
  PROVE  BooksStep
<1>1. BooksTyped /\ book \in [Nodes -> [Nodes -> Versions]]
  BY BooksAreTyped DEF LifecycleInv, LifecycleTypeOK
<1>2. ASSUME NEW n \in Nodes, NEW m \in Nodes
      PROVE  /\ book'[n][m] <= LastVersion(n)'
             /\ <<n, m>> \notin lost' => book'[n][m] <= LastVersion(m)'
  <2>1. /\ book[n][m] \in Nat /\ LastVersion(n) \in Nat /\ LastVersion(m) \in Nat
        /\ book[n][m] <= LastVersion(n)
        /\ <<n, m>> \notin lost => book[n][m] <= LastVersion(m)
    BY Basics DEF LifecycleInv, Books
  <2>2. /\ LastVersion(n)' >= LastVersion(n) /\ LastVersion(m)' >= LastVersion(m)
        /\ LastVersion(n)' \in Nat /\ LastVersion(m)' \in Nat
    BY PrefixGrows
  <2> QED
    BY <2>1, <2>2
<1> QED
  BY <1>1, <1>2 DEF BooksStep, BooksTyped, Books

(* Node n takes w for the watermark of m. *)
LEMMA WatermarkSet ==
  ASSUME LifecycleInv, JournalStep, UNCHANGED <<lost, wipes>>,
         NEW n \in Nodes, NEW m \in Nodes, NEW w \in Versions,
         w = 0 \/ HasRoom(n, m),
         book' = [book EXCEPT ![n][m] = w],
         w <= LastVersion(n)', w <= LastVersion(m)'
  PROVE  BooksStep
<1>1. /\ book \in [Nodes -> [Nodes -> Versions]] /\ \A p \in Nodes : IsBook(book[p])
  BY BooksAreTyped DEF LifecycleInv, LifecycleTypeOK, BooksTyped
<1>2. /\ book' \in [Nodes -> [Nodes -> Versions]] /\ book'[n][m] = w
      /\ \A p, q \in Nodes : <<p, q>> # <<n, m>> => book'[p][q] = book[p][q]
  BY <1>1, PairUpdate
<1>3. book'[n] = [book[n] EXCEPT ![m] = w] /\ \A p \in Nodes \ {n} : book'[p] = book[p]
  BY <1>1
<1>4. IsBook(book'[n])
  BY <1>1, <1>3, EntrySet DEF HasRoom
<1>5. ASSUME NEW p \in Nodes, NEW q \in Nodes
      PROVE  /\ book'[p][q] <= LastVersion(p)'
             /\ <<p, q>> \notin lost' => book'[p][q] <= LastVersion(q)'
  <2>1. CASE p = n /\ q = m
    BY <1>2, <2>1
  <2>2. CASE <<p, q>> # <<n, m>>
    <3>1. /\ book[p][q] \in Nat /\ LastVersion(p) \in Nat /\ LastVersion(q) \in Nat
          /\ book[p][q] <= LastVersion(p)
          /\ <<p, q>> \notin lost => book[p][q] <= LastVersion(q)
      BY Basics DEF LifecycleInv, Books
    <3>2. /\ LastVersion(p)' >= LastVersion(p) /\ LastVersion(q)' >= LastVersion(q)
          /\ LastVersion(p)' \in Nat /\ LastVersion(q)' \in Nat
      BY PrefixGrows
    <3> QED
      BY <1>2, <2>2, <3>1, <3>2
  <2> QED
    BY <2>1, <2>2
<1> QED
  BY <1>1, <1>2, <1>3, <1>4, <1>5 DEF BooksStep, BooksTyped, Books

LEMMA WipeBooks ==
  ASSUME LifecycleInv, JournalStep, NEW n \in Nodes, Wipe(n)
  PROVE  BooksStep
<1> DEFINE none == [m \in Nodes |-> 0]
<1>1. book \in [Nodes -> [Nodes -> Versions]] /\ \A p \in Nodes : IsBook(book[p])
  BY BooksAreTyped DEF LifecycleInv, LifecycleTypeOK, BooksTyped
<1>2. book' = [book EXCEPT ![n] = none]
  BY DEF Wipe
<1>3. IsBook(none)
  <2>1. none \in [Nodes -> Versions] /\ {m \in Nodes : none[m] # 0} = {}
    BY LifecycleAssumption DEF Versions
  <2> HIDE DEF none
  <2>2. Cardinality({m \in Nodes : none[m] # 0}) = 0
    BY <2>1, FS_EmptySet
  <2> QED
    BY <2>1, <2>2, LifecycleAssumption DEF IsBook
<1>4. book' \in [Nodes -> [Nodes -> Versions]] /\ \A p \in Nodes : IsBook(book'[p])
  BY <1>1, <1>2, <1>3 DEF IsBook
<1>5. ASSUME NEW p \in Nodes, NEW q \in Nodes
      PROVE  /\ book'[p][q] <= LastVersion(p)'
             /\ <<p, q>> \notin lost' => book'[p][q] <= LastVersion(q)'
  <2>1. CASE p = n
    <3>1. book'[p][q] = 0
      BY <1>1, <1>2, <2>1
    <3> QED
      BY <3>1, PrefixGrows
  <2>2. CASE p # n
    <3>1. book'[p][q] = book[p][q]
      BY <1>1, <1>2, <2>2
    <3>2. /\ LastVersion(p)' = LastVersion(p) /\ LastVersion(p) \in Nat
          /\ q # n => LastVersion(q)' = LastVersion(q)
      <4>1. \A m \in Nodes \ {n} : Same(m)
        BY DEF Wipe, process, Same, LifecycleInv, LifecycleTypeOK
      <4> QED
        BY <2>2, <4>1, Basics, SameJournal DEF JournalStep
    <3>3. <<p, q>> \notin lost' => <<p, q>> \notin lost /\ q # n
      BY <2>2 DEF Wipe
    <3> QED
      BY <3>1, <3>2, <3>3 DEF LifecycleInv, Books
  <2> QED
    BY <2>1, <2>2
<1> QED
  BY <1>4, <1>5 DEF BooksStep, BooksTyped, Books
(* acceptStartupWatermark: what n makes of the watermark w that m says.    *)
LEMMA ReconciledWatermark ==
  ASSUME LifecycleInv, NEW n \in Nodes, NEW m \in Nodes,
         NEW w \in Versions, w <= LastVersion(m)
  PROVE  /\ Reconciled(n, m, w) \in Versions
         /\ Reconciled(n, m, w) <= LastVersion(n)
         /\ Reconciled(n, m, w) = 0 \/ HasRoom(n, m)
         /\ Hears(n, m, w) => Reconciled(n, m, w) <= LastVersion(m)
         /\ ~Hears(n, m, w) => Reconciled(n, m, w) = book[n][m]
<1>1. /\ book[n][m] \in Versions /\ book[n][m] \in 0..LastVersion(n)
      /\ LastVersion(n) \in Nat /\ LastVersion(m) \in Nat
  BY Basics
<1>2. CASE LastVersion(n) = 0 \/ ~Hears(n, m, w)
  <2>1. Reconciled(n, m, w) = book[n][m]
    BY <1>2 DEF Reconciled
  <2>2. Hears(n, m, w) => book[n][m] = 0
    BY <1>1, <1>2
  <2> QED
    BY <1>1, <2>1, <2>2 DEF HasRoom
<1>3. CASE LastVersion(n) # 0 /\ Hears(n, m, w)
  BY <1>1, <1>3 DEF Reconciled, Hears, CanReconcile
<1> QED
  BY <1>2, <1>3

LEMMA ConnectBooks ==
  ASSUME LifecycleInv, JournalStep, NEW n \in Nodes, NEW m \in Nodes, Connect(n, m)
  PROVE  BooksStep
<1> DEFINE v == book[m][n]
           r == Reconciled(n, m, v)
<1>1. /\ book \in [Nodes -> [Nodes -> Versions]] /\ \A p \in Nodes : IsBook(book[p])
  BY BooksAreTyped DEF LifecycleInv, LifecycleTypeOK, BooksTyped
<1>2. n # m /\ \A p \in Nodes : LastVersion(p)' = LastVersion(p) /\ LastVersion(p) \in Nat
  BY JournalsAlone, Basics DEF Connect, process
<1>3. v \in Versions /\ v <= LastVersion(m)
  BY Basics
<1>4. /\ r \in Versions /\ r <= LastVersion(n) /\ (r = 0 \/ HasRoom(n, m))
      /\ Hears(n, m, v) => r <= LastVersion(m)
      /\ ~Hears(n, m, v) => r = book[n][m]
  BY <1>3, ReconciledWatermark
<1>5. PICK w \in {book[n][m], r} :
        /\ book' = [book EXCEPT ![n][m] = r, ![m][n] = Reconciled(m, n, w)]
        /\ lost' = lost \ {p \in {<<n, m>>, <<m, n>>} :
                             IF p[1] = n THEN Hears(n, m, v) ELSE Hears(m, n, w)}
  BY DEF Connect
<1>6. w \in Versions /\ w <= LastVersion(n)
  BY <1>4, <1>5, Basics
<1> DEFINE s == Reconciled(m, n, w)
<1>7. /\ s \in Versions /\ s <= LastVersion(m) /\ (s = 0 \/ HasRoom(m, n))
      /\ Hears(m, n, w) => s <= LastVersion(n)
      /\ ~Hears(m, n, w) => s = book[m][n]
  BY <1>6, ReconciledWatermark
<1> HIDE DEF r, s
<1>8. /\ book' \in [Nodes -> [Nodes -> Versions]]
      /\ book'[n] = [book[n] EXCEPT ![m] = r] /\ book'[m] = [book[m] EXCEPT ![n] = s]
      /\ \A p \in Nodes \ {n, m} : book'[p] = book[p]
  <2>1. book' = [book EXCEPT ![n][m] = r, ![m][n] = s]
    BY <1>5 DEF s
  <2> QED
    BY <1>1, <1>2, <1>4, <1>7, <2>1
<1>9. \A p \in Nodes : IsBook(book'[p])
  <2>1. IsBook(book'[n])
    <3>1. IsBook(book[n]) /\ r \in Versions /\ (r = 0 \/ HasRoom(n, m))
      BY <1>1, <1>4
    <3>2. IsBook([book[n] EXCEPT ![m] = r])
      BY <3>1, EntrySet DEF HasRoom
    <3> QED
      BY <1>8, <3>2
  <2>2. IsBook(book'[m])
    <3>1. IsBook(book[m]) /\ s \in Versions /\ (s = 0 \/ HasRoom(m, n))
      BY <1>1, <1>7
    <3>2. IsBook([book[m] EXCEPT ![n] = s])
      BY <3>1, EntrySet DEF HasRoom
    <3> QED
      BY <1>8, <3>2
  <2> QED
    BY <1>1, <1>8, <2>1, <2>2
<1>10. /\ <<n, m>> \notin lost' => <<n, m>> \notin lost \/ Hears(n, m, v)
       /\ <<m, n>> \notin lost' => <<m, n>> \notin lost \/ Hears(m, n, w)
       /\ \A p, q \in Nodes : <<p, q>> # <<n, m>> /\ <<p, q>> # <<m, n>> /\ <<p, q>> \notin lost'
                                => <<p, q>> \notin lost
  BY <1>2, <1>5
<1>11. \A p, q \in Nodes : /\ book[p][q] <= LastVersion(p)
                           /\ <<p, q>> \notin lost => book[p][q] <= LastVersion(q)
  BY DEF LifecycleInv, Books
<1>12. ASSUME NEW p \in Nodes, NEW q \in Nodes
       PROVE  /\ book'[p][q] <= LastVersion(p)
              /\ <<p, q>> \notin lost' => book'[p][q] <= LastVersion(q)
  <2>1. CASE p = n /\ q = m
    <3>1. book'[p][q] = r
      BY <1>1, <1>8, <2>1
    <3> QED
      BY <1>4, <1>10, <1>11, <2>1, <3>1
  <2>2. CASE p = m /\ q = n
    <3>1. book'[p][q] = s
      BY <1>1, <1>8, <2>2
    <3> QED
      BY <1>7, <1>10, <1>11, <2>2, <3>1
  <2>3. CASE <<p, q>> # <<n, m>> /\ <<p, q>> # <<m, n>>
    <3>1. book'[p][q] = book[p][q]
      BY <1>1, <1>8, <2>3
    <3> QED
      BY <1>10, <1>11, <2>3, <3>1
  <2> QED
    BY <2>1, <2>2, <2>3
<1> QED
  BY <1>2, <1>8, <1>9, <1>12 DEF BooksStep, BooksTyped, Books

LEMMA NextBooks ==
  ASSUME LifecycleInv, LifecycleNext, JournalStep
  PROVE  BooksStep
<1>1. CASE \E k \in LogicalKeys : Mutate(k)
  BY <1>1, BooksAlone DEF Mutate, counts
<1>2. CASE \E pair \in OpenConns : Disconnect(pair)
  BY <1>2, BooksAlone DEF Disconnect, files, counts
<1>3. ASSUME NEW n \in Nodes, Stop(n) \/ Wipe(n)
      PROVE  BooksStep
  BY <1>3, BooksAlone, WipeBooks DEF Stop, files
<1>4. ASSUME NEW n \in Nodes, NEW flag \in Flags(n), Start(n, flag) \/ CompactRun(n, flag)
      PROVE  BooksStep
  BY <1>4, BooksAlone DEF Start, CompactRun, counts
<1>5. ASSUME NEW n \in Nodes, NEW m \in Nodes, SessionStep(n, m)
      PROVE  BooksStep
  <2>1. CASE Connect(n, m)
    BY <2>1, ConnectBooks
  <2>2. CASE \/ SendBatch(n, m) \/ SendSnapshot(n, m) \/ SendFails(n, m)
             \/ HandleDuplicate(n, m) \/ HandleFails(n, m)
             \/ HandleBatchFails(n, m) \/ HandleSnapshotFails(n, m)
    BY <2>2, BooksAlone DEF SendBatch, SendSnapshot, SendFails, HandleDuplicate, HandleFails,
         HandleBatchFails, HandleSnapshotFails, files, counts
  <2> DEFINE f == Received(n, m)
  <2>3. ASSUME HandleAck(n, m) \/ HandleBatch(n, m) \/ HandleSnapshot(n, m)
        PROVE  /\ wire[m][n] # <<>> /\ f \in Frames /\ f.to \in Versions /\ f.to \in Nat
               /\ f.to <= LastVersion(m)'
               /\ UNCHANGED <<lost, wipes>>
    <3>1. wire[m][n] # <<>> /\ UNCHANGED <<lost, wipes>>
      BY <2>3 DEF HandleAck, HandleBatch, HandleSnapshot, StartsAt, Receives, counts
    <3>2. f \in Frames /\ IsPiece(hist, LastVersion(m), f)
      BY <3>1, ReceivedOK
    <3>3. f.to \in Versions /\ f.to \in Nat /\ f.to <= LastVersion(m)
      BY <3>2, LifecycleAssumption DEF Frames, Versions, IsPiece
    <3>4. LastVersion(m)' >= LastVersion(m) /\ LastVersion(m)' \in Nat /\ LastVersion(m) \in Nat
      BY <3>1, PrefixGrows, Basics
    <3> QED
      BY <3>1, <3>2, <3>3, <3>4
  <2> HIDE DEF f
  <2>4. CASE HandleAck(n, m)
    <3>1. CASE f.to = 0
      BY <2>3, <2>4, <3>1, BooksAlone DEF HandleAck, AcknowledgedAt, f
    <3>2. CASE f.to # 0
      <4>1. /\ book' = [book EXCEPT ![n][m] = f.to]
            /\ f.to <= LastVersion(n) /\ HasRoom(n, m)
        BY <2>4, <3>2 DEF HandleAck, AcknowledgedAt, CanAcknowledge, f
      <4>2. f.to <= LastVersion(n)'
        BY <2>3, <2>4, <4>1, PrefixGrows, Basics
      <4> QED
        BY <2>3, <2>4, <4>1, <4>2, WatermarkSet
    <3> QED
      BY <3>1, <3>2
  <2>5. CASE HandleBatch(n, m)
    <3>1. /\ book' = [book EXCEPT ![n][m] = f.to] /\ HasRoom(n, m)
          /\ f.to <= LastVersion(n)'
      BY <2>5 DEF HandleBatch, LastVersion, f
    <3> QED
      BY <2>3, <2>5, <3>1, WatermarkSet
  <2>6. CASE HandleSnapshot(n, m)
    <3>1. /\ book' = [book EXCEPT ![n][m] = f.to] /\ HasRoom(n, m)
      BY <2>6 DEF HandleSnapshot, f
    <3>2. f.to <= LastVersion(n)'
      BY <2>3, <2>6, SnapshotJournals DEF f
    <3> QED
      BY <2>3, <2>6, <3>1, <3>2, WatermarkSet
  <2> QED
    BY <1>5, <2>1, <2>2, <2>4, <2>5, <2>6 DEF SessionStep
<1> QED
  BY <1>1, <1>2, <1>3, <1>4, <1>5 DEF LifecycleNext
-----------------------------------------------------------------------------
(* Types. *)

FilesTyped ==
  /\ hist \in Seq(LogicalKeys)
  /\ floor \in [Nodes -> Versions]
  /\ log \in [Nodes -> SUBSET (1..MaxVersion)]
  /\ checkpoint \in [Nodes -> Views]
  /\ view \in [Nodes -> Views]
  /\ snapshot \in [Nodes -> Checkpoints]

RestTyped ==
  /\ \A n \in Nodes : Cardinality(members[n].ids) <= MaxPeers
  /\ members \in [Nodes -> [configured : BOOLEAN, ids : SUBSET Nodes]]
  /\ up \in [Nodes -> BOOLEAN] /\ mutated \in BOOLEAN
  /\ lost \subseteq Nodes \X Nodes
  /\ conns \in 0..MaxConns /\ stops \in 0..MaxStops /\ wipes \in 0..MaxWipes

LEMMA TypeParts ==
  FilesTyped /\ RestTyped /\ LinksTyped /\ BooksTyped => LifecycleTypeOK
<1> SUFFICES ASSUME FilesTyped, RestTyped, LinksTyped, BooksTyped
             PROVE  LifecycleTypeOK
  OBVIOUS
<1>1. \A n, m \in Nodes : sess[n][m].pc \in {"none", "plan", "wait"}
  BY DEF LinksTyped, Sessions
<1>2. \A n, m \in Nodes : \A i \in 1..Len(wire[n][m]) : wire[n][m][i].to \in Versions
  <2> TAKE n, m \in Nodes
  <2>1. wire[n][m] \in Seq(Frames)
    BY DEF LinksTyped
  <2> TAKE i \in 1..Len(wire[n][m])
  <2>2. wire[n][m][i] \in Frames
    BY <2>1, ElementOfSeq
  <2> QED
    BY <2>2 DEF Frames
<1> QED
  BY <1>1, <1>2 DEF LifecycleTypeOK, FilesTyped, RestTyped, Checkpoints,
                       BooksTyped, IsBook

LEMMA PartsOfType ==
  ASSUME LifecycleTypeOK
  PROVE  FilesTyped /\ RestTyped
BY DEF LifecycleTypeOK, FilesTyped, RestTyped, Checkpoints

(* What a journal holds is typed once it is a piece of the history. *)
LEMMA FilesTypedStep ==
  ASSUME LifecycleInv, JournalStep,
         floor' = floor \/ \E n \in Nodes, x \in Versions : floor' = [floor EXCEPT ![n] = x],
         log' = log \/ \E n \in Nodes : \E x : log' = [log EXCEPT ![n] = x],
         checkpoint' = checkpoint
           \/ \E n \in Nodes : \E x : checkpoint' = [checkpoint EXCEPT ![n] = x],
         view' = view
           \/ \E n \in Nodes : \E x : /\ view' = [view EXCEPT ![n] = x]
                                      /\ up'[n] \/ x \in Views,
         snapshot' = snapshot
           \/ \E n \in Nodes, x \in Checkpoints : snapshot' = [snapshot EXCEPT ![n] = x]
  PROVE  FilesTyped'
<1>1. FilesTyped
  BY PartsOfType DEF LifecycleInv
<1>2. hist' \in Seq(LogicalKeys) /\ Len(hist') \in Nat /\ Len(hist') <= MaxVersion
  BY LenProperties DEF JournalStep, Grown, Journals
<1>3. floor' \in [Nodes -> Versions]
  BY <1>1 DEF FilesTyped
<1>4. \A n \in Nodes : /\ JournalOK(n)' /\ floor'[n] \in 0..Len(hist')
                       /\ LastVersion(n)' \in 0..Len(hist')
  BY <1>2, <1>3, LifecycleAssumption DEF JournalStep, Journals, JournalOK, Versions
<1>5. \A w \in 0..Len(hist') : R!ViewAt(hist', w) \in Views
  <2> TAKE w \in 0..Len(hist')
  <2>1. R!ViewAt(hist', w) \in [LogicalKeys -> 0..w]
    BY <1>2, ViewType
  <2>2. 0..w \subseteq Versions
    BY <1>2, LifecycleAssumption DEF Versions
  <2> QED
    BY <2>1, <2>2 DEF Views
<1>6. log' \in [Nodes -> SUBSET (1..MaxVersion)]
  <2>1. log' = [n \in Nodes |-> log'[n]]
    BY <1>1 DEF FilesTyped
  <2>2. \A n \in Nodes : log'[n] \in SUBSET (1..MaxVersion)
    BY <1>2, <1>4, LifecycleAssumption DEF JournalOK
  <2> QED
    BY <2>1, <2>2
<1>7. checkpoint' \in [Nodes -> Views]
  <2>1. checkpoint' = [n \in Nodes |-> checkpoint'[n]]
    BY <1>1 DEF FilesTyped
  <2>2. \A n \in Nodes : checkpoint'[n] \in Views
    BY <1>4, <1>5 DEF JournalOK
  <2> QED
    BY <2>1, <2>2
<1>8. view' \in [Nodes -> Views]
  <2>1. CASE view' = view
    BY <1>1, <2>1 DEF FilesTyped
  <2>2. ASSUME NEW n \in Nodes, NEW x, view' = [view EXCEPT ![n] = x], up'[n] \/ x \in Views
        PROVE  view' \in [Nodes -> Views]
    <3>1. view'[n] = x
      BY <1>1, <2>2 DEF FilesTyped
    <3>2. x \in Views
      BY <1>4, <1>5, <2>2, <3>1 DEF JournalOK
    <3> QED
      BY <1>1, <2>2, <3>2 DEF FilesTyped
  <2> QED
    BY <2>1, <2>2
<1>9. snapshot' \in [Nodes -> Checkpoints]
  BY <1>1 DEF FilesTyped
<1> QED
  BY <1>2, <1>3, <1>6, <1>7, <1>8, <1>9 DEF FilesTyped

LEMMA NextFiles ==
  ASSUME LifecycleInv, LifecycleNext, JournalStep
  PROVE  FilesTyped'
<1>0. FilesTyped
  BY PartsOfType DEF LifecycleInv
<1>1. ASSUME NEW k \in LogicalKeys, Mutate(k)
      PROVE  FilesTyped'
  <2> DEFINE v == LastVersion(Source) + 1
  <2>1. /\ log' = [log EXCEPT ![Source] = log[Source] \cup {v}]
        /\ view' = [view EXCEPT ![Source] = [view[Source] EXCEPT ![k] = v]]
        /\ up'[Source] /\ UNCHANGED <<floor, checkpoint, snapshot>>
    BY <1>0, <1>1 DEF Mutate, FilesTyped
  <2>2. Source \in Nodes
    BY LifecycleAssumption
  <2> HIDE DEF v
  <2> QED
    BY <2>1, <2>2, FilesTypedStep
<1>2. CASE \E pair \in OpenConns : Disconnect(pair)
  BY <1>2, FilesTypedStep DEF Disconnect, files, process
<1>3. ASSUME NEW n \in Nodes, Stop(n) \/ Wipe(n)
      PROVE  FilesTyped'
  <2>1. 0 \in Versions
    BY LifecycleAssumption DEF Versions
  <2>2. CASE Stop(n)
    BY <2>2, EmptyTyped, FilesTypedStep DEF Stop, files
  <2>3. CASE Wipe(n)
    BY <2>1, <2>3, EmptyTyped, FilesTypedStep DEF Wipe, process
  <2> QED
    BY <1>3, <2>2, <2>3
<1>4. ASSUME NEW n \in Nodes, NEW flag \in Flags(n), Start(n, flag)
      PROVE  FilesTyped'
  <2>1. /\ view' = [view EXCEPT ![n] = Replayed(checkpoint[n], log[n])] /\ up'[n]
        /\ UNCHANGED <<floor, log, checkpoint>>
    BY <1>4 DEF Start, LifecycleInv, LifecycleTypeOK
  <2>2. [to |-> floor[n], recs |-> checkpoint[n]] \in Checkpoints
    BY <1>0 DEF FilesTyped, Checkpoints
  <2>3. \E x \in Checkpoints : snapshot' = [snapshot EXCEPT ![n] = x]
    BY <1>4, <2>2 DEF Start
  <2> QED
    BY <2>1, <2>3, FilesTypedStep
<1>5. ASSUME NEW n \in Nodes, NEW flag \in Flags(n), CompactRun(n, flag)
      PROVE  FilesTyped'
  <2>1. LastVersion(n) \in Versions
    BY Basics DEF Versions
  <2>2. UNCHANGED <<view, snapshot>>
    BY <1>5 DEF CompactRun, process
  <2>3. CASE Compacted(n)
    BY <2>1, <2>2, <2>3, FilesTypedStep DEF Compacted
  <2>4. CASE UNCHANGED <<checkpoint, floor, log>>
    BY <2>2, <2>4, FilesTypedStep
  <2> QED
    BY <1>5, <2>3, <2>4 DEF CompactRun
<1>6. ASSUME NEW n \in Nodes, NEW m \in Nodes, SessionStep(n, m)
      PROVE  FilesTyped'
  <2>1. CASE \/ Connect(n, m) \/ SendBatch(n, m) \/ SendSnapshot(n, m) \/ SendFails(n, m)
             \/ HandleAck(n, m) \/ HandleDuplicate(n, m) \/ HandleFails(n, m)
    BY <2>1, FilesTypedStep DEF Connect, SendBatch, SendSnapshot, SendFails, HandleAck,
         HandleDuplicate, HandleFails, files, process
  <2>2. CASE HandleBatch(n, m) \/ HandleBatchFails(n, m)
    <3>1. /\ UNCHANGED <<floor, checkpoint, snapshot, up>> /\ wire[m][n] # <<>>
      BY <2>2 DEF HandleBatch, HandleBatchFails, StartsAt, Receives
    <3>2. \E records : AppliedAll(n, records)
      BY <2>2 DEF HandleBatch, HandleBatchFails
    <3>3. \E x, y : log' = [log EXCEPT ![n] = x] /\ view' = [view EXCEPT ![n] = y]
      BY <3>2 DEF AppliedAll
    <3> QED
      BY <3>1, <3>3, ReceivedOK, FilesTypedStep
  <2>3. CASE HandleSnapshot(n, m) \/ HandleSnapshotFails(n, m)
    <3>1. Installed(n, Received(n, m)) /\ UNCHANGED <<snapshot, up>> /\ wire[m][n] # <<>>
      BY <2>3 DEF HandleSnapshot, HandleSnapshotFails, StartsAt, Receives
    <3>2. up[n] /\ Received(n, m).to \in Versions
      BY <3>1, ReceivedOK DEF Frames
    <3> QED
      BY <3>1, <3>2, FilesTypedStep DEF Installed
  <2> QED
    BY <1>6, <2>1, <2>2, <2>3 DEF SessionStep
<1> QED
  BY <1>1, <1>2, <1>3, <1>4, <1>5, <1>6 DEF LifecycleNext
LEMMA MembersTyped ==
  ASSUME LifecycleInv, NEW n \in Nodes, NEW flag \in Flags(n), Replaces(n, flag)
  PROVE  /\ members' \in [Nodes -> [configured : BOOLEAN, ids : SUBSET Nodes]]
         /\ \A m \in Nodes : Cardinality(members'[m].ids) <= MaxPeers
<1>1. RestTyped
  BY PartsOfType DEF LifecycleInv
<1>2. flag \in [configured : BOOLEAN, ids : SUBSET Nodes]
  <2>1. CASE flag = Unconfigured
    BY <2>1 DEF Unconfigured
  <2>2. CASE flag \in [configured : {TRUE}, ids : MemberSets]
    BY <2>2, LifecycleAssumption
  <2> QED
    BY <2>1, <2>2 DEF Flags
<1> QED
  BY <1>1, <1>2 DEF RestTyped, Replaces

LEMMA UnconfiguredTyped ==
  /\ Unconfigured \in [configured : BOOLEAN, ids : SUBSET Nodes]
  /\ Cardinality(Unconfigured.ids) <= MaxPeers
<1>1. Unconfigured.ids = {} /\ Unconfigured \in [configured : BOOLEAN, ids : SUBSET Nodes]
  BY DEF Unconfigured
<1> QED
  BY <1>1, FS_EmptySet, LifecycleAssumption

LEMMA NextRest ==
  ASSUME LifecycleInv, LifecycleNext
  PROVE  RestTyped'
<1>0. RestTyped
  BY PartsOfType DEF LifecycleInv
<1>1. CASE \E k \in LogicalKeys : Mutate(k)
  BY <1>0, <1>1 DEF Mutate, RestTyped, counts
<1>2. CASE \E pair \in OpenConns : Disconnect(pair)
  BY <1>0, <1>2 DEF Disconnect, RestTyped, files, process, counts
<1>3. ASSUME NEW n \in Nodes, Stop(n)
      PROVE  RestTyped'
  <2>1. up' \in [Nodes -> BOOLEAN]
    BY <1>0, <1>3 DEF Stop, RestTyped
  <2>2. stops' \in 0..MaxStops
    BY <1>0, <1>3, LifecycleAssumption DEF Stop, RestTyped
  <2> QED
    BY <1>0, <1>3, <2>1, <2>2 DEF Stop, RestTyped, files
<1>4. ASSUME NEW n \in Nodes, Wipe(n)
      PROVE  RestTyped'
  <2>1. members' \in [Nodes -> [configured : BOOLEAN, ids : SUBSET Nodes]]
    BY <1>0, <1>4, UnconfiguredTyped DEF Wipe, RestTyped
  <2>2. \A m \in Nodes : Cardinality(members'[m].ids) <= MaxPeers
    BY <1>0, <1>4, UnconfiguredTyped DEF Wipe, RestTyped
  <2>3. wipes' \in 0..MaxWipes /\ lost' \subseteq Nodes \X Nodes
    BY <1>0, <1>4, LifecycleAssumption DEF Wipe, RestTyped
  <2> QED
    BY <1>0, <1>4, <2>1, <2>2, <2>3 DEF Wipe, RestTyped, process
<1>5. ASSUME NEW n \in Nodes, NEW flag \in Flags(n), Start(n, flag)
      PROVE  RestTyped'
  <2>1. up' \in [Nodes -> BOOLEAN] /\ mutated' \in BOOLEAN
    BY <1>0, <1>5 DEF Start, RestTyped
  <2> QED
    BY <1>0, <1>5, <2>1, MembersTyped DEF Start, RestTyped, counts
<1>6. ASSUME NEW n \in Nodes, NEW flag \in Flags(n), CompactRun(n, flag)
      PROVE  RestTyped'
  BY <1>0, <1>6, MembersTyped DEF CompactRun, RestTyped, process, counts
<1>7. ASSUME NEW n \in Nodes, NEW m \in Nodes, Connect(n, m)
      PROVE  RestTyped'
  <2>1. lost' \subseteq lost /\ UNCHANGED <<members, up, mutated, stops, wipes>>
    BY <1>7 DEF Connect, process
  <2>2. conns' \in 0..MaxConns
    <3>1. OpenConns \in SUBSET SUBSET Nodes
      BY DEF OpenConns
    <3>2. IsFiniteSet(OpenConns)
      BY <3>1, LifecycleAssumption, FS_SUBSET, FS_Subset
    <3>3. Cardinality(OpenConns) \in Nat
      BY <3>2, FS_CardinalityType
    <3> QED
      BY <1>0, <1>7, <3>3, LifecycleAssumption DEF Connect, RestTyped
  <2> QED
    BY <1>0, <2>1, <2>2 DEF RestTyped
<1>8. ASSUME NEW n \in Nodes, NEW m \in Nodes,
             \/ SendBatch(n, m) \/ SendSnapshot(n, m) \/ SendFails(n, m)
             \/ HandleAck(n, m) \/ HandleDuplicate(n, m) \/ HandleFails(n, m)
             \/ HandleBatch(n, m) \/ HandleBatchFails(n, m)
             \/ HandleSnapshot(n, m) \/ HandleSnapshotFails(n, m)
      PROVE  RestTyped'
  <2>1. UNCHANGED <<members, up, mutated, lost, conns, stops, wipes>>
    BY <1>8 DEF SendBatch, SendSnapshot, SendFails, HandleAck, HandleDuplicate, HandleFails,
         HandleBatch, HandleBatchFails, HandleSnapshot, HandleSnapshotFails,
         files, process, counts
  <2> QED
    BY <1>0, <2>1 DEF RestTyped
<1> QED
  BY <1>1, <1>2, <1>3, <1>4, <1>5, <1>6, <1>7, <1>8 DEF LifecycleNext, SessionStep

-----------------------------------------------------------------------------
(* The theorems. *)

LEMMA InvInit ==
  ASSUME LifecycleInit
  PROVE  LifecycleInv
<1>1. hist \in Seq(LogicalKeys) /\ Len(hist) = 0 /\ hist = <<>>
  BY EmptySeq DEF LifecycleInit
<1>2. 0 \in Versions /\ R!ViewAt(hist, 0) = Empty
  <2>1. 0 \in Versions
    BY LifecycleAssumption DEF Versions
  <2>2. hist \in Seq(LogicalKeys)
    BY <1>1
  <2> QED
    BY <2>1, <2>2, ViewEmpty
<1>3. \A n \in Nodes : LastVersion(n) = 0
  <2>1. \A n \in Nodes : log[n] \cup {floor[n]} = ((0 + 1)..0) \cup {0}
    BY DEF LifecycleInit
  <2> QED
    BY <2>1, MaxJournal DEF LastVersion
<1>4. Journals
  BY <1>1, <1>2, <1>3, LifecycleAssumption DEF LifecycleInit, Journals, JournalOK,
       IsCheckpoint, NoSnapshot
<1>5. LinksTyped
  BY EmptyTyped, EmptySeq DEF LifecycleInit, LinksTyped
<1>6. Links
  BY <1>1, <1>2 DEF LifecycleInit, Links, LinkOK, Connected, NoSession, NoSnapshot,
       IsCheckpoint, Pieces
<1>7. Books
  BY <1>3 DEF LifecycleInit, Books
<1>8. FilesTyped
  BY <1>1, <1>2, EmptyTyped DEF LifecycleInit, FilesTyped
<1>9. RestTyped
  <2>1. members \in [Nodes -> [configured : BOOLEAN, ids : SUBSET Nodes]]
    BY UnconfiguredTyped DEF LifecycleInit
  <2>2. \A n \in Nodes : Cardinality(members[n].ids) <= MaxPeers
    BY UnconfiguredTyped DEF LifecycleInit
  <2>3. up \in [Nodes -> BOOLEAN] /\ mutated \in BOOLEAN /\ lost \subseteq Nodes \X Nodes
    BY DEF LifecycleInit
  <2>4. conns \in 0..MaxConns /\ stops \in 0..MaxStops /\ wipes \in 0..MaxWipes
    BY LifecycleAssumption DEF LifecycleInit
  <2> QED
    BY <2>1, <2>2, <2>3, <2>4 DEF RestTyped
<1>10. BooksTyped
  <2> DEFINE none == [m \in Nodes |-> 0]
  <2>1. none \in [Nodes -> Versions] /\ {m \in Nodes : none[m] # 0} = {}
    BY <1>2
  <2>2. book = [n \in Nodes |-> none]
    BY DEF LifecycleInit
  <2> HIDE DEF none
  <2>3. Cardinality({m \in Nodes : none[m] # 0}) = 0
    BY <2>1, FS_EmptySet
  <2>4. IsBook(none)
    BY <2>1, <2>3, LifecycleAssumption DEF IsBook
  <2> QED
    BY <2>1, <2>2, <2>4 DEF BooksTyped
<1> QED
  BY <1>4, <1>5, <1>6, <1>7, <1>8, <1>9, <1>10, TypeParts DEF LifecycleInv

LEMMA InvStep ==
  ASSUME LifecycleInv, [LifecycleNext]_lvars
  PROVE  LifecycleInv' /\ JournalStep
<1>1. CASE LifecycleNext
  <2>1. JournalStep
    BY <1>1, NextJournals
  <2>2. LinksTyped' /\ Links' /\ BooksStep /\ FilesTyped' /\ RestTyped'
    BY <1>1, <2>1, NextLinks, NextBooks, NextFiles, NextRest
  <2>3. LifecycleTypeOK'
    BY <2>2, TypeParts, PTL DEF BooksStep
  <2> QED
    BY <2>1, <2>2, <2>3 DEF LifecycleInv, JournalStep, BooksStep
<1>2. CASE UNCHANGED lvars
  <2>1. UNCHANGED <<hist, floor, log, checkpoint, book, members, up, mutated, view, snapshot,
                    sess, wire, lost, conns, stops, wipes>>
    BY <1>2 DEF lvars, files, process, counts
  <2>2. JournalStep
    BY <2>1, JournalsAlone
  <2>3. LinksTyped' /\ Links' /\ BooksStep
    BY <2>1, <2>2, PrefixGrows, SameLinks, BooksAlone
  <2>4. FilesTyped' /\ RestTyped'
    BY <2>1, PartsOfType DEF LifecycleInv, FilesTyped, RestTyped
  <2>5. LifecycleTypeOK'
    BY <2>3, <2>4, TypeParts, PTL DEF BooksStep
  <2> QED
    BY <2>2, <2>3, <2>5 DEF LifecycleInv, JournalStep, BooksStep
<1> QED
  BY <1>1, <1>2

(* The inductive invariant. *)
THEOREM LifecycleInvariant == LifecycleSpec => []LifecycleInv
<1>1. LifecycleInit => LifecycleInv
  BY InvInit
<1>2. LifecycleInv /\ [LifecycleNext]_lvars => LifecycleInv'
  BY InvStep
<1> QED
  BY <1>1, <1>2, PTL DEF LifecycleSpec

(* What any node passes on to any other is the history of the authority:   *)
(* the checkpoint file is the view at the journal's floor, and the journal *)
(* is every record behind it (journal.go, applier.go).                     *)
THEOREM HistoryPassedOn == LifecycleSpec => []PassesOnHistory
<1>1. LifecycleInv => PassesOnHistory
  BY DEF LifecycleInv, PassesOnHistory, Journals, JournalOK
<1> QED
  BY <1>1, LifecycleInvariant, PTL

(* A watermark in a node's book never claims more than the peer has, unless*)
(* the peer lost its directory and has not been heard since (watermark.go).*)
THEOREM WatermarksAreCovered == LifecycleSpec => []WatermarksCovered
<1>1. LifecycleInv => WatermarksCovered
  BY DEF LifecycleInv, WatermarksCovered, Books
<1> QED
  BY <1>1, LifecycleInvariant, PTL

-----------------------------------------------------------------------------
(* The refinement. *)

(* What a node answers from is the view of the prefix it has. *)
AnswersFromPrefix == \A n \in Nodes : Answer(n) = R!ViewAt(hist, LastVersion(n))

LEMMA AnswersView == LifecycleInv => AnswersFromPrefix
<1> SUFFICES ASSUME LifecycleInv, NEW n \in Nodes
             PROVE  Answer(n) = R!ViewAt(hist, LastVersion(n))
  BY DEF AnswersFromPrefix
<1>1. Replayed(checkpoint[n], log[n]) = R!ViewAt(hist, LastVersion(n))
  BY ReplayedFiles
<1>2. up[n] => view[n] = R!ViewAt(hist, LastVersion(n))
  BY DEF LifecycleInv, Journals, JournalOK
<1> QED
  BY <1>1, <1>2 DEF Answer

LEMMA RefinesInit ==
  ASSUME LifecycleInit
  PROVE  R!ReplicationInit
<1>1. LifecycleInv /\ hist = <<>> /\ Len(hist) = 0
  BY InvInit, EmptySeq DEF LifecycleInit
<1>2. \A n \in Nodes : LastVersion(n) = 0
  BY <1>1, Basics
<1>3. \A n \in Nodes : Answer(n) = R!ViewAt(<<>>, 0)
  BY <1>1, <1>2, AnswersView DEF AnswersFromPrefix
<1> QED
  BY <1>1, <1>2, <1>3 DEF R!ReplicationInit

(* The prefix of node n becomes the first w records. *)
LEMMA RefinesHolds ==
  ASSUME LifecycleInv, LifecycleInv', Grown, NEW n \in Nodes, Elsewhere(n)
  PROVE  R!Holds(n, LastVersion(n)')
<1>1. \A m \in Nodes : Answer(m) = R!ViewAt(hist, LastVersion(m))
  BY AnswersView DEF AnswersFromPrefix
<1>2. \A m \in Nodes : Answer(m)' = R!ViewAt(hist', LastVersion(m)')
  <2>1. AnswersFromPrefix'
    BY AnswersView, PTL
  <2> QED
    BY <2>1 DEF AnswersFromPrefix
<1>3. \A m \in Nodes \ {n} : LastVersion(m)' = LastVersion(m) /\ Answer(m)' = Answer(m)
  <2> TAKE m \in Nodes \ {n}
  <2>1. LastVersion(m)' = LastVersion(m)
    BY DEF Elsewhere
  <2>2. LastVersion(m) \in 0..Len(hist)
    BY Basics
  <2>3. R!ViewAt(hist', LastVersion(m)) = R!ViewAt(hist, LastVersion(m))
    BY <2>2 DEF Grown
  <2> QED
    BY <1>1, <1>2, <2>1, <2>3
<1>4. [m \in Nodes |-> LastVersion(m)']
        = [[m \in Nodes |-> LastVersion(m)] EXCEPT ![n] = LastVersion(n)']
  BY <1>3
<1>5. [m \in Nodes |-> Answer(m)']
        = [[m \in Nodes |-> Answer(m)] EXCEPT ![n] = R!ViewAt(hist', LastVersion(n)')]
  BY <1>2, <1>3
<1> QED
  BY <1>4, <1>5 DEF R!Holds

LEMMA RefinesStep ==
  ASSUME LifecycleInv, LifecycleInv', JournalStep
  PROVE  [R!ReplicationNext]_(R!avars)
<1>0. Grown /\ HistoryStep
  BY DEF JournalStep
<1>1. ASSUME NEW k \in LogicalKeys, hist' = Append(hist, k),
             LastVersion(Source)' = Len(hist) + 1, Elsewhere(Source)
      PROVE  R!ReplicationNext
  <2>1. R!Holds(Source, LastVersion(Source)')
    BY <1>0, <1>1, Basics, RefinesHolds
  <2>2. LastVersion(Source)' = Len(hist')
    BY <1>1, Basics, AppendProperties
  <2>3. R!Author(k)
    BY <1>1, <2>1, <2>2 DEF R!Author
  <2> QED
    BY <2>3 DEF R!ReplicationNext
<1>2. ASSUME hist' = hist, NEW n \in Nodes, Elsewhere(n),
             LastVersion(n)' >= LastVersion(n) \/ (Wipe(n) /\ LastVersion(n)' = 0)
      PROVE  [R!ReplicationNext]_(R!avars)
  <2>1. R!Holds(n, LastVersion(n)')
    BY <1>0, <1>2, RefinesHolds
  <2>2. LastVersion(n) \in Nat /\ Len(hist') \in Nat /\ LastVersion(n)' \in 0..Len(hist)
    BY <1>2, Basics DEF LifecycleInv, Journals, JournalOK
  <2>3. CASE LastVersion(n)' = LastVersion(n)
    <3>1. \A m \in Nodes : LastVersion(m)' = LastVersion(m)
      BY <1>2, <2>3 DEF Elsewhere
    <3>2. \A m \in Nodes : Answer(m)' = Answer(m)
      <4>1. AnswersFromPrefix /\ AnswersFromPrefix'
        BY AnswersView, PTL
      <4> QED
        BY <1>2, <3>1, <4>1 DEF AnswersFromPrefix
    <3>3. UNCHANGED <<hist, [m \in Nodes |-> LastVersion(m)], [m \in Nodes |-> Answer(m)]>>
      BY <1>2, <3>1, <3>2
    <3> QED
      BY <3>3 DEF R!avars
  <2>4. CASE LastVersion(n)' > LastVersion(n)
    <3>1. LastVersion(n)' \in (LastVersion(n) + 1)..Len(hist)
      BY <2>2, <2>4
    <3>2. R!CatchUp(n, LastVersion(n)')
      BY <1>2, <2>1 DEF R!CatchUp
    <3> QED
      BY <3>1, <3>2 DEF R!ReplicationNext
  <2>5. CASE Wipe(n) /\ LastVersion(n)' = 0
    <3>1. n # Source /\ LastVersion(n) # 0
      BY <2>5 DEF Wipe
    <3>2. R!Lose(n)
      BY <1>2, <2>1, <2>5, <3>1 DEF R!Lose
    <3> QED
      BY <3>2 DEF R!ReplicationNext
  <2> QED
    BY <1>2, <2>2, <2>3, <2>4, <2>5
<1> QED
  BY <1>0, <1>1, <1>2 DEF HistoryStep

(* Lifecycle replication keeps its promise, module Replication: any number *)
(* of nodes, repaired by any others in any order, with restarts, crashes,  *)
(* compactions and lost directories in between, answer from a prefix of    *)
(* the authority's history that only a lost directory shortens.            *)
THEOREM ReplicationImplemented == LifecycleSpec => ImplementsReplication
<1>1. LifecycleInit => R!ReplicationInit
  BY RefinesInit
<1>2. LifecycleInv /\ LifecycleInv' /\ [LifecycleNext]_lvars => [R!ReplicationNext]_(R!avars)
  BY InvStep, RefinesStep
<1> QED
  BY <1>1, <1>2, LifecycleInvariant, PTL DEF LifecycleSpec, ImplementsReplication, R!ReplicationSpec

(* When a node compacts there is a membership file, and every member of it *)
(* has what is dropped, or has lost its directory and not been heard since *)
(* (lifecycle_cli.go, membership.go).                                      *)
THEOREM CompactionIsFenced == LifecycleSpec => CompactionFencedByMembers
<1> DEFINE Fenced ==
      \A n \in Nodes :
        floor'[n] > floor[n] /\ ~up[n] =>
          /\ members'[n].configured
          /\ \A m \in members'[n].ids : <<n, m>> \in lost \/ floor'[n] <= LastVersion(m)
<1>1. ASSUME LifecycleInv, LifecycleInv', LifecycleNext
      PROVE  Fenced
  <2> SUFFICES ASSUME NEW n \in Nodes, floor'[n] > floor[n], ~up[n]
               PROVE  /\ members'[n].configured
                      /\ \A m \in members'[n].ids :
                           <<n, m>> \in lost \/ floor'[n] <= LastVersion(m)
    OBVIOUS
  <2>1. /\ floor \in [Nodes -> Versions] /\ floor[n] \in Nat
        /\ \A m \in Nodes : LastVersion(m) \in Nat
    <3>1. floor \in [Nodes -> Versions]
      BY <1>1 DEF LifecycleInv, LifecycleTypeOK
    <3>2. floor[n] \in 0..Len(hist) /\ Len(hist) \in Nat /\ \A m \in Nodes : LastVersion(m) \in Nat
      BY <1>1, Basics
    <3> QED
      BY <3>1, <3>2
  <2>2. PICK p \in Nodes : Compacted(p) /\ \E flag \in Flags(p) : CompactRun(p, flag)
    <3>1. floor' # floor
      BY <2>1
    <3>2. ASSUME NEW p \in Nodes, Wipe(p)
          PROVE  FALSE
      <4>1. floor' = [floor EXCEPT ![p] = 0]
        BY <3>2 DEF Wipe
      <4> QED
        BY <2>1, <4>1
    <3>3. ASSUME NEW p \in Nodes, NEW q \in Nodes, SessionStep(p, q)
          PROVE  FALSE
      <4>1. HandleSnapshot(p, q) \/ HandleSnapshotFails(p, q)
        BY <3>1, <3>3 DEF SessionStep, Connect, SendBatch, SendSnapshot, SendFails, HandleAck,
             HandleDuplicate, HandleBatch, HandleBatchFails, HandleFails, files
      <4>2. Installed(p, Received(p, q)) /\ wire[q][p] # <<>>
        BY <4>1 DEF HandleSnapshot, HandleSnapshotFails, StartsAt, Receives
      <4>3. up[p] /\ floor' = [floor EXCEPT ![p] = Received(p, q).to]
        BY <1>1, <4>2, ReceivedOK DEF Installed
      <4>4. p # n
        BY <4>3
      <4> QED
        BY <2>1, <4>3, <4>4
    <3> QED
      BY <1>1, <3>1, <3>2, <3>3 DEF LifecycleNext, Mutate, Disconnect, Stop, Start, CompactRun, files
  <2>3. floor' = [floor EXCEPT ![p] = LastVersion(p)]
    BY <2>2 DEF Compacted
  <2>4. p = n /\ floor'[n] = LastVersion(n)
    BY <2>1, <2>3
  <2>5. LastVersion(n) > floor[n] /\ WatermarksAt(n, members'[n], LastVersion(n))
    BY <2>1, <2>2, <2>4 DEF CompactRun
  <2>6. members'[n].ids \subseteq Nodes
    BY <1>1 DEF LifecycleInv, LifecycleTypeOK
  <2> QED
    <3>1. members'[n].configured /\ \A m \in members'[n].ids : book[n][m] >= LastVersion(n)
      BY <2>5 DEF WatermarksAt
    <3>2. ASSUME NEW m \in members'[n].ids
          PROVE  <<n, m>> \in lost \/ floor'[n] <= LastVersion(m)
      <4>1. m \in Nodes /\ book[n][m] \in Nat
        BY <1>1, <2>6, Basics, LifecycleAssumption DEF Versions
      <4>2. <<n, m>> \notin lost => book[n][m] <= LastVersion(m)
        BY <1>1, <4>1 DEF LifecycleInv, Books
      <4> QED
        BY <2>1, <2>4, <3>1, <4>1, <4>2
    <3> QED
      BY <3>1, <3>2
<1>2. LifecycleInv /\ LifecycleInv' /\ [LifecycleNext]_lvars => [Fenced]_lvars
  BY <1>1
<1> QED
  BY <1>2, LifecycleInvariant, PTL DEF LifecycleSpec, CompactionFencedByMembers
=============================================================================
