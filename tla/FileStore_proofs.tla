-------------------------- MODULE FileStore_proofs --------------------------
(***************************************************************************)
(* Proofs about FileStore for any number of callers, keys, contents,       *)
(* changes and crashes.                                                    *)
(***************************************************************************)
EXTENDS FileStore, SequenceTheorems, TLAPS

Pcs == {"idle", "found", "opened", "create", "created", "written",
        "committed", "scanning", "scanned", "listing", "done"}

(* A call is inside its critical section. *)
Critical == {"committed", "scanning", "scanned"}

Values == Contents \cup {"absent", "true", "false", "error"}

Ops == [kind : Kinds, pc : Pcs, key : Keys, val : Values, from : Nat, file : Nat,
        same : BOOLEAN, safe : BOOLEAN, found : SUBSET (Keys \cup Values)]

(* What ReadsSound asks of the call o that has ended, l being the log. *)
DoneOK(l, o) ==
  /\ o.val \in Contents => o.val \in o.found /\ o.val \notin {"torn", "damaged"}
  /\ o.val = "absent" => "absent" \in o.found
  /\ o.val = "true" => o.found \cap ContentOf[o.key] # {}
  /\ o.val = "false" => {"absent", "damaged"} \cap o.found # {} \/ o.from < Len(l[o.key])

(* A call that has found a file knows one that the key has named since the *)
(* call began; a file is synced before it is renamed.                      *)
OpOK(l, o) ==
  /\ o \in Ops
  /\ o.kind = "handler" \/ o.pc \in {"create", "created", "written"} => o.val \in ContentOf[o.key]
  /\ o.pc = "written" => o.safe
  /\ o.pc \in {"found", "opened"} =>
       /\ o.kind \in {"get", "has", "handler"}
       /\ 1 <= o.from /\ o.from <= o.file /\ o.file <= Len(l[o.key])
  /\ o.pc = "committed" => o.file <= Len(l[o.key])
  /\ o.pc = "scanned" => o.found \subseteq Keys
  /\ o.pc = "done" => DoneOK(l, o)

FileOK(k, f) == f \in File /\ f.safe /\ f.val \in ContentOf[k] \cup {"absent", "damaged"}

(* Every file that a key has named is whole, and a crash leaves one that   *)
(* is not older than the last change that was acknowledged.                *)
LogOK(k) ==
  /\ \A i \in 1..Len(log[k]) : FileOK(k, log[k][i])
  /\ 1 <= floor[k] /\ floor[k] <= Len(log[k]) /\ acked[k] <= floor[k]

(* A lock is held by the one call that is inside its critical section.     *)
LockOK ==
  /\ lock \in [Handles -> Clients \cup {Nobody}]
  /\ \A h \in Handles : lock[h] # Nobody => HandleOf[lock[h]] = h
  /\ \A c \in Clients : op[c].pc \in Critical <=> lock[HandleOf[c]] = c

OneHandle == \A g, h \in Handles : g = h

(* With one handle, all that changes the directory changes the index. *)
IndexOK ==
  /\ index \in [Handles -> [built : BOOLEAN, keys : SUBSET Keys]]
  /\ fresh \in [Handles -> BOOLEAN]
  /\ OneHandle =>
       /\ \A h \in Handles : index[h].built => index[h].keys = Present
       /\ \A c \in Clients : op[c].pc = "scanned" => op[c].found = Present

StoreInv ==
  /\ log \in [Keys -> Seq(File)] /\ floor \in [Keys -> Nat] /\ acked \in [Keys -> Nat]
  /\ op \in [Clients -> Ops] /\ \A c \in Clients : OpOK(log, op[c])
  /\ \A k \in Keys : LogOK(k)
  /\ LockOK
  /\ IndexOK

-----------------------------------------------------------------------------
(* Calls. *)

LEMMA ValueFacts ==
  /\ Contents \subseteq Values
  /\ \A k \in Keys : ContentOf[k] \subseteq Contents
  /\ {"absent", "true", "false", "error", "damaged", "torn"} \subseteq Values
  /\ {"absent", "true", "false", "error"} \cap Contents = {}
  /\ \A k \in Keys : \A v \in ContentOf[k] :
       v \notin {"absent", "damaged", "torn", "true", "false", "error"}
<1>1. \A k \in Keys : ContentOf[k] \subseteq Contents
  BY DEF Contents
<1>2. \A k \in Keys : \A v \in ContentOf[k] :
        v \notin {"absent", "damaged", "torn", "true", "false", "error"}
  BY StoreAssumption
<1>3. {"absent", "true", "false", "error"} \cap Contents = {}
  <2> SUFFICES ASSUME NEW v \in Contents, v \in {"absent", "true", "false", "error"}
               PROVE  FALSE
    OBVIOUS
  <2>1. v \notin {"damaged", "torn"}
    OBVIOUS
  <2>2. PICK k \in Keys : v \in ContentOf[k]
    BY <2>1 DEF Contents
  <2> QED
    BY <1>2, <2>2
<1>4. Contents \subseteq Values /\ {"absent", "true", "false", "error"} \subseteq Values
  BY DEF Values
<1>5. {"damaged", "torn"} \subseteq Contents
  BY DEF Contents
<1> QED
  BY <1>1, <1>2, <1>3, <1>4, <1>5

LEMMA IdleFacts ==
  /\ Idle \in Ops /\ Idle.kind = "none" /\ Idle.pc = "idle" /\ Idle.found = {}
  /\ Idle.from = 0 /\ Idle.file = 0
<1>1. (CHOOSE k \in Keys : TRUE) \in Keys
  BY StoreAssumption
<1>2. "absent" \in Values
  BY ValueFacts
<1> QED
  BY <1>1, <1>2 DEF Idle, Ops, Kinds, Pcs

LEMMA IdleOK == \A l : OpOK(l, Idle)
BY IdleFacts DEF OpOK

LEMMA CallFacts ==
  ASSUME NEW kind \in Kinds, NEW pc \in Pcs, NEW k \in Keys, NEW v \in Values
  PROVE  /\ Call(kind, pc, k, v) \in Ops
         /\ Call(kind, pc, k, v).kind = kind /\ Call(kind, pc, k, v).pc = pc
         /\ Call(kind, pc, k, v).key = k /\ Call(kind, pc, k, v).val = v
         /\ Call(kind, pc, k, v).found = {}
BY IdleFacts DEF Call, Ops

(* Two records of a call that differ in what it knows of the stamp only. *)
Alike(o, y) ==
  /\ o \in Ops /\ o.kind = y.kind /\ o.pc = y.pc /\ o.key = y.key /\ o.val = y.val
  /\ o.from = y.from /\ o.file = y.file /\ o.safe = y.safe /\ o.found = y.found

LEMMA AlikeOK ==
  ASSUME NEW l, NEW o, NEW y, OpOK(l, y), Alike(o, y)
  PROVE  OpOK(l, o)
<1>1. DoneOK(l, y) => DoneOK(l, o)
  BY DEF Alike, DoneOK
<1> QED
  BY <1>1 DEF OpOK, Alike

(* The call of client c becomes x. *)
Becomes(c, x) ==
  /\ op' \in [Clients -> Ops]
  /\ Alike(op'[c], x)
  /\ \A d \in Clients \ {c} : Alike(op'[d], op[d])

LEMMA BecomesWith ==
  ASSUME op \in [Clients -> Ops], NEW c \in Clients, NEW x \in Ops, op' = With(c, x)
  PROVE  Becomes(c, x)
BY DEF With, Becomes, Alike

LEMMA BecomesStale ==
  ASSUME op \in [Clients -> Ops], NEW c \in Clients, NEW x \in Ops, op' = Stale(With(c, x))
  PROVE  Becomes(c, x)
<1>1. With(c, x) \in [Clients -> Ops] /\ With(c, x)[c] = x
      /\ \A d \in Clients \ {c} : With(c, x)[d] = op[d]
  BY DEF With
<1>2. \A y \in Ops : [y EXCEPT !.same = FALSE] \in Ops /\ Alike([y EXCEPT !.same = FALSE], y)
  BY DEF Ops, Alike
<1>3. op' = [d \in Clients |-> [With(c, x)[d] EXCEPT !.same = FALSE]]
  BY DEF Stale
<1>4. \A d \in Clients : op'[d] \in Ops /\ Alike(op'[d], With(c, x)[d])
  BY <1>1, <1>2, <1>3
<1>5. op' \in [Clients -> Ops]
  BY <1>3, <1>4
<1> QED
  BY <1>1, <1>4, <1>5 DEF Becomes

LEMMA BecomesTouch ==
  ASSUME op \in [Clients -> Ops], fresh \in [Handles -> BOOLEAN],
         NEW c \in Clients, NEW x \in Ops, Touch(With(c, x))
  PROVE  Becomes(c, x) /\ fresh' \in [Handles -> BOOLEAN]
BY BecomesWith, BecomesStale DEF Touch

LEMMA BecomesRefreshed ==
  ASSUME op \in [Clients -> Ops], fresh \in [Handles -> BOOLEAN], NEW h \in Handles,
         index \in [Handles -> [built : BOOLEAN, keys : SUBSET Keys]],
         NEW c \in Clients, NEW x \in Ops, TouchAndRefresh(With(c, x), h)
  PROVE  Becomes(c, x) /\ fresh' \in [Handles -> BOOLEAN]
<1>1. PICK ticked \in BOOLEAN, ok \in BOOLEAN :
        /\ op' = IF ticked THEN Stale(With(c, x)) ELSE With(c, x)
        /\ fresh' = [g \in Handles |-> IF g = h THEN ok /\ index[h].built
                                                ELSE fresh[g] /\ ~ticked]
  BY DEF TouchAndRefresh
<1>2. \A g \in Handles : (IF g = h THEN ok /\ index[h].built ELSE fresh[g] /\ ~ticked) \in BOOLEAN
  OBVIOUS
<1>3. fresh' \in [Handles -> BOOLEAN]
  BY <1>1, <1>2
<1> QED
  BY <1>1, <1>3, BecomesWith, BecomesStale

(* A call is not disturbed by files that are added to the log. *)
LEMMA OpStays ==
  ASSUME NEW l, NEW l2, NEW o, OpOK(l, o),
         Len(l[o.key]) \in Nat, Len(l2[o.key]) \in Nat, Len(l[o.key]) <= Len(l2[o.key])
  PROVE  OpOK(l2, o)
<1>1. o \in Ops /\ o.from \in Nat /\ o.file \in Nat
  BY DEF OpOK, Ops
<1>2. DoneOK(l, o) => DoneOK(l2, o)
  <2>1. o.from < Len(l[o.key]) => o.from < Len(l2[o.key])
    BY <1>1
  <2> QED
    BY <2>1 DEF DoneOK
<1>3. o.file <= Len(l[o.key]) => o.file <= Len(l2[o.key])
  BY <1>1
<1> QED
  BY <1>2, <1>3 DEF OpOK

-----------------------------------------------------------------------------
(* Locks. *)

LEMMA LockKept ==
  ASSUME LockOK, NEW c \in Clients, NEW x, Becomes(c, x),
         x.pc \in Critical <=> op[c].pc \in Critical, UNCHANGED lock
  PROVE  LockOK'
<1>1. \A d \in Clients : op'[d].pc \in Critical <=> op[d].pc \in Critical
  BY DEF Becomes, Alike
<1> QED
  BY <1>1 DEF LockOK

LEMMA LockTaken ==
  ASSUME LockOK, NEW c \in Clients, NEW x, Becomes(c, x), x.pc \in Critical,
         lock[HandleOf[c]] = Nobody, lock' = [lock EXCEPT ![HandleOf[c]] = c]
  PROVE  LockOK'
<1> DEFINE h == HandleOf[c]
<1>1. h \in Handles /\ c # Nobody /\ \A d \in Clients : HandleOf[d] \in Handles
  BY StoreAssumption
<1>2. /\ lock' \in [Handles -> Clients \cup {Nobody}] /\ lock'[h] = c
      /\ \A g \in Handles \ {h} : lock'[g] = lock[g]
  BY <1>1 DEF LockOK
<1>3. op'[c].pc \in Critical /\ \A d \in Clients \ {c} : op'[d].pc = op[d].pc
  BY DEF Becomes, Alike
<1>4. \A g \in Handles : lock'[g] # Nobody => HandleOf[lock'[g]] = g
  BY <1>2 DEF LockOK
<1>5. ASSUME NEW d \in Clients
      PROVE  op'[d].pc \in Critical <=> lock'[HandleOf[d]] = d
  <2>1. CASE d = c
    BY <1>2, <1>3, <2>1
  <2>2. CASE d # c
    <3>1. op[d].pc \in Critical <=> lock[HandleOf[d]] = d
      BY DEF LockOK
    <3>2. lock'[HandleOf[d]] = d <=> lock[HandleOf[d]] = d
      <4>1. CASE HandleOf[d] = h
        <5>1. lock[h] # d /\ lock'[h] # d
          BY <1>2, <2>2, StoreAssumption
        <5> QED
          BY <4>1, <5>1
      <4>2. CASE HandleOf[d] # h
        BY <1>1, <1>2, <4>2
      <4> QED
        BY <4>1, <4>2
    <3> QED
      BY <1>3, <2>2, <3>1, <3>2
  <2> QED
    BY <2>1, <2>2
<1> QED
  BY <1>2, <1>4, <1>5 DEF LockOK

LEMMA LockReleased ==
  ASSUME LockOK, NEW c \in Clients, NEW x, Becomes(c, x),
         op[c].pc \in Critical, x.pc \notin Critical, Released(c)
  PROVE  LockOK'
<1> DEFINE h == HandleOf[c]
<1>1. h \in Handles /\ c # Nobody /\ \A d \in Clients : HandleOf[d] \in Handles
  BY StoreAssumption
<1>2. /\ lock' \in [Handles -> Clients \cup {Nobody}] /\ lock'[h] = Nobody
      /\ \A g \in Handles \ {h} : lock'[g] = lock[g]
  BY <1>1 DEF LockOK, Released
<1>3. op'[c].pc \notin Critical /\ \A d \in Clients \ {c} : op'[d].pc = op[d].pc
  BY DEF Becomes, Alike
<1>4. \A g \in Handles : lock'[g] # Nobody => HandleOf[lock'[g]] = g
  BY <1>2 DEF LockOK
<1>5. lock[h] = c
  BY DEF LockOK
<1>6. ASSUME NEW d \in Clients
      PROVE  op'[d].pc \in Critical <=> lock'[HandleOf[d]] = d
  <2>1. CASE HandleOf[d] = h
    <3>1. lock'[h] # d
      BY <1>2, StoreAssumption
    <3>2. d # c => op[d].pc \notin Critical
      BY <1>5, <2>1 DEF LockOK
    <3> QED
      BY <1>3, <2>1, <3>1, <3>2
  <2>2. CASE HandleOf[d] # h
    BY <1>1, <1>2, <1>3, <2>2 DEF LockOK
  <2> QED
    BY <2>1, <2>2
<1> QED
  BY <1>2, <1>4, <1>6 DEF LockOK

-----------------------------------------------------------------------------
(* Steps that leave the directory alone. *)

LEMMA TypesOf ==
  ASSUME StoreInv
  PROVE  /\ op \in [Clients -> Ops] /\ fresh \in [Handles -> BOOLEAN]
         /\ index \in [Handles -> [built : BOOLEAN, keys : SUBSET Keys]]
         /\ \A c \in Clients : op[c] \in Ops /\ OpOK(log, op[c]) /\ HandleOf[c] \in Handles
         /\ log \in [Keys -> Seq(File)] /\ \A k \in Keys : Len(log[k]) \in Nat /\ Len(log[k]) >= 1
         /\ floor \in [Keys -> Nat] /\ acked \in [Keys -> Nat]
<1>1. \A k \in Keys : Len(log[k]) \in Nat
  BY LenProperties DEF StoreInv
<1>2. \A k \in Keys : floor[k] \in Nat /\ 1 <= floor[k] /\ floor[k] <= Len(log[k])
  BY DEF StoreInv, LogOK
<1>3. \A k \in Keys : Len(log[k]) >= 1
  BY <1>1, <1>2
<1> QED
  BY <1>1, <1>3, StoreAssumption DEF StoreInv, IndexOK

(* The parts of the invariant that are about the calls. *)
LEMMA OpsStep ==
  ASSUME StoreInv, NEW c \in Clients, NEW x, OpOK(log, x), Becomes(c, x), UNCHANGED log
  PROVE  op' \in [Clients -> Ops] /\ \A d \in Clients : OpOK(log', op'[d])
<1>1. OpOK(log', op'[c])
  BY AlikeOK DEF Becomes
<1>2. \A d \in Clients \ {c} : OpOK(log', op'[d])
  BY TypesOf, AlikeOK DEF Becomes
<1> QED
  BY <1>1, <1>2 DEF Becomes

(* The parts that are about the index, when neither it nor the directory   *)
(* changes.                                                                *)
LEMMA IndexKept ==
  ASSUME StoreInv, NEW c \in Clients, NEW x, Becomes(c, x),
         x.pc = "scanned" => x.found = Present,
         UNCHANGED <<log, index>>, fresh' \in [Handles -> BOOLEAN]
  PROVE  IndexOK'
<1>1. Present' = Present
  BY DEF Present, Newest
<1>2. ASSUME OneHandle, NEW d \in Clients, op'[d].pc = "scanned"
      PROVE  op'[d].found = Present
  <2>1. CASE d = c
    BY <1>2, <2>1 DEF Becomes, Alike
  <2>2. CASE d # c
    BY <1>2, <2>2 DEF Becomes, Alike, StoreInv, IndexOK
  <2> QED
    BY <2>1, <2>2
<1> QED
  BY <1>1, <1>2 DEF StoreInv, IndexOK, OneHandle

LEMMA QuietStep ==
  ASSUME StoreInv, NEW c \in Clients, NEW x, OpOK(log, x), Becomes(c, x),
         x.pc \in Critical <=> op[c].pc \in Critical,
         x.pc = "scanned" => x.found = Present,
         UNCHANGED <<log, floor, lock, index, acked>>, fresh' \in [Handles -> BOOLEAN]
  PROVE  StoreInv'
<1>1. op' \in [Clients -> Ops] /\ \A d \in Clients : OpOK(log', op'[d])
  BY OpsStep
<1>2. LockOK'
  BY LockKept DEF StoreInv
<1>3. IndexOK'
  BY IndexKept
<1>4. \A k \in Keys : LogOK(k)'
  BY DEF StoreInv, LogOK
<1> QED
  BY <1>1, <1>2, <1>3, <1>4 DEF StoreInv

(* The most frequent case: the call becomes x, and nothing else happens.   *)
LEMMA CallStep ==
  ASSUME StoreInv, NEW c \in Clients, NEW x, OpOK(log, x), op' = With(c, x),
         op[c].pc \notin Critical, x.pc \notin Critical,
         UNCHANGED <<log, floor, lock, index, fresh, acked>>
  PROVE  StoreInv'
<1>1. Becomes(c, x)
  BY TypesOf, BecomesWith DEF OpOK
<1>2. x.pc # "scanned"
  BY DEF Critical
<1> QED
  BY <1>1, <1>2, TypesOf, QuietStep

-----------------------------------------------------------------------------
(* Reads. *)

(* A read that ends with what the key held, or with an error when the key  *)
(* was replaced.                                                           *)
LEMMA ReadEndsOK ==
  ASSUME StoreInv, NEW c \in Clients, NEW o \in Ops, NEW v, ReadEnds(c, o, v),
         o.kind \in {"get", "has", "handler"},
         o.kind = "handler" => o.val \in ContentOf[o.key],
         1 <= o.from,
         \/ v = "error" /\ o.from < Len(log[o.key])
         \/ v \in Held(o) /\ v \in ContentOf[o.key] \cup {"absent", "damaged"}
  PROVE  \E x : OpOK(log, x) /\ op' = With(c, x) /\ x.pc \notin Critical
<1>1. o.key \in Keys /\ o.val \in Values
  BY DEF Ops
<1>2. /\ ContentOf[o.key] \subseteq Contents /\ Contents \subseteq Values
      /\ {"absent", "true", "false", "error"} \subseteq Values
      /\ {"absent", "true", "false", "error"} \cap Contents = {}
      /\ \A u \in ContentOf[o.key] :
           u \notin {"absent", "damaged", "torn", "true", "false", "error"}
  BY <1>1, ValueFacts
<1>3. CASE o.kind = "handler"
  <2>1. CASE v \in {o.val, "error"}
    <3>1. op' = With(c, Idle)
      BY <1>3, <2>1 DEF ReadEnds
    <3> QED
      BY <3>1, IdleOK, IdleFacts DEF Critical
  <2>2. CASE v \notin {o.val, "error"}
    <3> DEFINE x == Call("handler", "create", o.key, o.val)
    <3>1. op' = With(c, x)
      BY <1>3, <2>2 DEF ReadEnds
    <3>2. /\ x \in Ops /\ x.kind = "handler" /\ x.pc = "create" /\ x.key = o.key
          /\ x.val = o.val
      BY <1>1, CallFacts DEF Kinds, Pcs
    <3> HIDE DEF x
    <3>3. OpOK(log, x) /\ x.pc \notin Critical
      BY <1>3, <3>2 DEF OpOK, Critical
    <3> QED
      BY <3>1, <3>3
  <2> QED
    BY <2>1, <2>2
<1>4. ASSUME NEW u \in Values, o.kind \in {"get", "has"},
             op' = With(c, [o EXCEPT !.pc = "done", !.found = Held(o), !.val = u]),
             /\ u \in Contents => u \in Held(o) /\ u \notin {"torn", "damaged"}
             /\ u = "absent" => "absent" \in Held(o)
             /\ u = "true" => Held(o) \cap ContentOf[o.key] # {}
             /\ u = "false" => \/ {"absent", "damaged"} \cap Held(o) # {}
                               \/ o.from < Len(log[o.key])
      PROVE  \E x : OpOK(log, x) /\ op' = With(c, x) /\ x.pc \notin Critical
  <2> DEFINE x == [o EXCEPT !.pc = "done", !.found = Held(o), !.val = u]
  <2>1. Held(o) \in SUBSET (Keys \cup Values)
    <3>1. o.from \in Nat /\ log[o.key] \in Seq(File)
      BY <1>1, TypesOf DEF Ops
    <3>2. ASSUME NEW i \in o.from..Len(log[o.key])
          PROVE  log[o.key][i].val \in Values
      <4>1. i \in 1..Len(log[o.key])
        BY <3>1, LenProperties
      <4>2. log[o.key][i] \in File
        BY <3>1, <4>1
      <4> QED
        BY <1>2, <4>2 DEF File
    <3> QED
      BY <3>2 DEF Held
  <2> HIDE DEF Held
  <2>2. /\ x \in Ops /\ x.pc = "done" /\ x.found = Held(o) /\ x.val = u
        /\ x.kind = o.kind /\ x.key = o.key /\ x.from = o.from
    BY <1>4, <2>1 DEF Ops, Pcs
  <2>3. op' = With(c, x)
    BY <1>4
  <2> HIDE DEF x
  <2>4. DoneOK(log, x)
    BY <1>4, <2>2 DEF DoneOK
  <2>5. OpOK(log, x) /\ x.pc \notin Critical
    BY <1>4, <2>2, <2>4 DEF OpOK, Critical
  <2> QED
    BY <2>3, <2>5
<1>5. CASE o.kind = "get"
  <2> DEFINE u == IF v = "damaged" THEN "error" ELSE v
  <2>1. op' = With(c, [o EXCEPT !.pc = "done", !.found = Held(o), !.val = u])
    BY <1>5 DEF ReadEnds
  <2>2. /\ u \in Values
        /\ u \in Contents => u \in Held(o) /\ u \notin {"torn", "damaged"}
        /\ u = "absent" => "absent" \in Held(o)
        /\ u \notin {"true", "false"}
    BY <1>2
  <2> HIDE DEF u
  <2> QED
    BY <1>4, <1>5, <2>1, <2>2
<1>6. CASE o.kind = "has"
  <2> DEFINE u == IF v \in {"absent", "damaged", "error"} THEN "false" ELSE "true"
  <2>1. op' = With(c, [o EXCEPT !.pc = "done", !.found = Held(o), !.val = u])
    BY <1>6 DEF ReadEnds
  <2>2. /\ u \in Values /\ u \notin Contents /\ u # "absent"
        /\ u = "true" => Held(o) \cap ContentOf[o.key] # {}
        /\ u = "false" => \/ {"absent", "damaged"} \cap Held(o) # {}
                          \/ o.from < Len(log[o.key])
    BY <1>2
  <2> HIDE DEF u
  <2> QED
    BY <1>4, <1>6, <2>1, <2>2
<1> QED
  BY <1>3, <1>5, <1>6

(* What the newest file of a key says. *)
LEMMA NewestFile ==
  ASSUME StoreInv, NEW k \in Keys, NEW i \in 1..Len(log[k])
  PROVE  FileOK(k, log[k][i]) /\ (k \notin Present => log[k][Len(log[k])].val = "absent")
<1>1. FileOK(k, log[k][i])
  BY DEF StoreInv, LogOK
<1>2. k \notin Present => log[k][Len(log[k])] = Absent
  BY DEF Present, Newest
<1>3. Absent.val = "absent"
  BY DEF Absent
<1> QED
  BY <1>1, <1>2, <1>3

LEMMA LookupInv ==
  ASSUME StoreInv, NEW c \in Clients, NEW kind \in Kinds, NEW k \in Keys,
         NEW v \in Contents \cup {"absent"}, Lookup(c, kind, k, v)
  PROVE  StoreInv'
<1> DEFINE n == Len(log[k])
           o == [Call(kind, "found", k, v) EXCEPT !.from = n, !.file = n]
<1>0. n \in Nat /\ n >= 1 /\ n \in 1..Len(log[k])
  BY TypesOf
<1>1. /\ op[c].pc = "idle"
      /\ UNCHANGED <<log, floor, lock, index, fresh, acked>>
      /\ kind \in {"get", "has", "handler"} /\ (kind = "handler" => v \in ContentOf[k])
      /\ IF k \in Present THEN op' = With(c, o) ELSE ReadEnds(c, o, "absent")
  BY DEF Lookup
<1>2. /\ o \in Ops /\ o.kind = kind /\ o.pc = "found" /\ o.key = k /\ o.val = v
      /\ o.from = n /\ o.file = n
  <2>1. v \in Values
    BY ValueFacts
  <2>2. Call(kind, "found", k, v) \in Ops
        /\ Call(kind, "found", k, v).kind = kind /\ Call(kind, "found", k, v).pc = "found"
        /\ Call(kind, "found", k, v).key = k /\ Call(kind, "found", k, v).val = v
    BY <2>1, CallFacts DEF Pcs
  <2> HIDE DEF n
  <2> QED
    BY <1>0, <2>2 DEF Ops
<1>3. op[c].pc \notin Critical
  BY <1>1 DEF Critical
<1> HIDE DEF o
<1>4. CASE k \in Present
  <2>1. OpOK(log, o) /\ o.pc \notin Critical
    BY <1>0, <1>1, <1>2 DEF OpOK, Critical
  <2> QED
    BY <1>1, <1>3, <1>4, <2>1, CallStep
<1>5. CASE k \notin Present
  <2>1. "absent" \in Held(o)
    BY <1>0, <1>2, <1>5, NewestFile DEF Held
  <2>2. \E x : OpOK(log, x) /\ op' = With(c, x) /\ x.pc \notin Critical
    BY <1>0, <1>1, <1>2, <1>5, <2>1, ReadEndsOK
  <2> QED
    BY <1>1, <1>3, <2>2, CallStep
<1> QED
  BY <1>4, <1>5

LEMMA OpenInv ==
  ASSUME StoreInv, NEW c \in Clients, Open(c) \/ ReadAll(c)
  PROVE  StoreInv'
<1> DEFINE o == op[c]
           k == o.key
           n == Len(log[k])
<1>1. /\ o \in Ops /\ OpOK(log, o) /\ k \in Keys
  BY TypesOf DEF Ops
<1>2. /\ o.pc \in {"found", "opened"} /\ UNCHANGED <<log, floor, lock, index, fresh, acked>>
  BY DEF Open, ReadAll
<1>3. /\ o.kind \in {"get", "has", "handler"} /\ o.from \in Nat /\ o.file \in Nat /\ n \in Nat
      /\ 1 <= o.from /\ o.from <= o.file /\ o.file <= n
      /\ o.kind = "handler" => o.val \in ContentOf[k]
  BY <1>1, <1>2, TypesOf DEF OpOK, Ops
<1>4. op[c].pc \notin Critical
  BY <1>2 DEF Critical
<1>5. ASSUME NEW v, ReadEnds(c, o, v),
             \/ v = "error" /\ o.from < n
             \/ v \in Held(o) /\ v \in ContentOf[k] \cup {"absent", "damaged"}
      PROVE  StoreInv'
  <2>1. \E x : OpOK(log, x) /\ op' = With(c, x) /\ x.pc \notin Critical
    BY <1>1, <1>3, <1>5, ReadEndsOK
  <2> QED
    BY <1>2, <1>4, <2>1, CallStep
<1>6. CASE Open(c)
  <2>1. CASE k \notin Present
    <3>1. ReadEnds(c, o, "absent")
      BY <1>6, <2>1 DEF Open
    <3>2. n \in 1..Len(log[k]) /\ n \in o.from..Len(log[k])
      BY <1>3
    <3>3. "absent" \in Held(o)
      BY <1>1, <2>1, <3>2, NewestFile DEF Held
    <3> QED
      BY <1>5, <3>1, <3>3
  <2>2. CASE k \in Present /\ o.file # n
    <3>1. ReadEnds(c, o, "error")
      BY <1>6, <2>2 DEF Open
    <3>2. o.from < n
      BY <1>3, <2>2
    <3> QED
      BY <1>5, <3>1, <3>2
  <2>3. CASE k \in Present /\ o.file = n
    <3> DEFINE x == [o EXCEPT !.pc = "opened"]
    <3>1. op' = With(c, x)
      BY <1>6, <2>3 DEF Open
    <3>2. /\ x \in Ops /\ x.pc = "opened" /\ x.kind = o.kind /\ x.key = o.key /\ x.val = o.val
          /\ x.from = o.from /\ x.file = o.file
      BY <1>1 DEF Ops, Pcs
    <3> HIDE DEF x
    <3>3. OpOK(log, x) /\ x.pc \notin Critical
      BY <1>3, <3>2 DEF OpOK, Critical
    <3> QED
      BY <1>2, <1>4, <3>1, <3>3, CallStep
  <2> QED
    BY <2>1, <2>2, <2>3
<1>7. CASE ReadAll(c)
  <2> DEFINE v == log[k][o.file].val
  <2>1. o.file \in 1..Len(log[k]) /\ o.file \in o.from..Len(log[k])
    BY <1>3
  <2>2. v \in Held(o) /\ v \in ContentOf[k] \cup {"absent", "damaged"}
    BY <1>1, <2>1, NewestFile DEF Held, FileOK
  <2>3. ReadEnds(c, o, v)
    BY <1>7 DEF ReadAll
  <2> QED
    BY <1>5, <2>2, <2>3
<1> QED
  BY <1>6, <1>7

-----------------------------------------------------------------------------
(* Steps of a call that change no file and take no lock. *)

(* A call ends. *)
LEMMA EndsInv ==
  ASSUME StoreInv, NEW c \in Clients, Return(c) \/ PutFails(c) \/ Listed(c)
  PROVE  StoreInv'
<1>1. /\ op' = With(c, Idle) /\ op[c].pc \notin Critical
      /\ UNCHANGED <<log, floor, lock, index, fresh, acked>>
  BY DEF Return, PutFails, Listed, Critical
<1>2. OpOK(log, Idle) /\ Idle.pc \notin Critical
  BY IdleOK, IdleFacts DEF Critical
<1> QED
  BY <1>1, <1>2, CallStep

LEMMA CreateTempInv ==
  ASSUME StoreInv, NEW c \in Clients, NEW k \in Keys, NEW v \in Contents \cup {"absent"},
         CreateTemp(c, k, v)
  PROVE  StoreInv'
<1> DEFINE x == Call("put", "created", k, v)
<1>1. v \in ContentOf[k] /\ op[c].pc \notin Critical
  BY TypesOf DEF CreateTemp, OpOK, Critical
<1>2. x \in Ops /\ x.kind = "put" /\ x.pc = "created" /\ x.key = k /\ x.val = v
  BY ValueFacts, CallFacts DEF Kinds, Pcs
<1>3. Touch(With(c, x)) /\ UNCHANGED <<log, floor, lock, index, acked>>
  BY DEF CreateTemp
<1> HIDE DEF x
<1>4. Becomes(c, x) /\ fresh' \in [Handles -> BOOLEAN]
  BY <1>2, <1>3, TypesOf, BecomesTouch
<1>5. OpOK(log, x) /\ x.pc \notin Critical /\ x.pc # "scanned"
  BY <1>1, <1>2 DEF OpOK, Critical
<1> QED
  BY <1>1, <1>3, <1>4, <1>5, QuietStep

LEMMA WriteTempInv ==
  ASSUME StoreInv, NEW c \in Clients, WriteTemp(c)
  PROVE  StoreInv'
<1> DEFINE x == [op[c] EXCEPT !.pc = "written", !.safe = TRUE]
<1>1. /\ op[c] \in Ops /\ op[c].val \in ContentOf[op[c].key] /\ op[c].pc \notin Critical
  BY TypesOf DEF WriteTemp, OpOK, Critical
<1>2. /\ x \in Ops /\ x.kind = op[c].kind /\ x.pc = "written" /\ x.key = op[c].key
      /\ x.val = op[c].val /\ x.safe
  BY <1>1 DEF Ops, Pcs
<1>3. op' = With(c, x) /\ UNCHANGED <<log, floor, lock, index, fresh, acked>>
  BY DEF WriteTemp
<1> HIDE DEF x
<1>4. OpOK(log, x) /\ x.pc \notin Critical
  BY <1>1, <1>2 DEF OpOK, Critical
<1> QED
  BY <1>1, <1>3, <1>4, CallStep

LEMMA PutAbortsInv ==
  ASSUME StoreInv, NEW c \in Clients, PutAborts(c)
  PROVE  StoreInv'
<1>1. /\ Touch(With(c, Idle)) /\ op[c].pc \notin Critical
      /\ UNCHANGED <<log, floor, lock, index, acked>>
  BY DEF PutAborts, Critical
<1>2. Becomes(c, Idle) /\ fresh' \in [Handles -> BOOLEAN]
  BY <1>1, TypesOf, IdleFacts, BecomesTouch
<1>3. OpOK(log, Idle) /\ Idle.pc \notin Critical /\ Idle.pc # "scanned"
  BY IdleOK, IdleFacts DEF Critical
<1> QED
  BY <1>1, <1>2, <1>3, QuietStep

-----------------------------------------------------------------------------
(* Changes of the directory. *)

(* Rename and Remove. *)
LEMMA ChangedInv ==
  ASSUME StoreInv, NEW c \in Clients, NEW k \in Keys, NEW f, FileOK(k, f),
         op[c].pc \notin Critical, lock[HandleOf[c]] = Nobody, Changed(c, k, f)
  PROVE  StoreInv'
<1> DEFINE h == HandleOf[c]
           n == Len(log[k])
           x == [Call("put", "committed", k, f.val) EXCEPT !.file = n + 1]
           keys == IF f = Absent THEN index[h].keys \ {k} ELSE index[h].keys \cup {k}
<1>1. /\ h \in Handles /\ n \in Nat /\ n >= 1 /\ log[k] \in Seq(File) /\ f \in File
      /\ f.val \in Values
  BY TypesOf, ValueFacts DEF FileOK, File
<1>2. /\ lock' = [lock EXCEPT ![h] = c]
      /\ log' = [log EXCEPT ![k] = Append(log[k], f)]
      /\ TouchAndRefresh(With(c, x), h)
      /\ index' = [index EXCEPT ![h].keys = IF index[h].built THEN keys ELSE {}]
      /\ UNCHANGED <<floor, acked>>
  BY DEF Changed
<1>3. /\ x \in Ops /\ x.kind = "put" /\ x.pc = "committed" /\ x.key = k /\ x.file = n + 1
  <2>1. /\ Call("put", "committed", k, f.val) \in Ops
        /\ Call("put", "committed", k, f.val).kind = "put"
        /\ Call("put", "committed", k, f.val).pc = "committed"
        /\ Call("put", "committed", k, f.val).key = k
    BY <1>1, CallFacts DEF Kinds, Pcs
  <2> HIDE DEF n
  <2> QED
    BY <1>1, <2>1 DEF Ops
<1> HIDE DEF x
<1>4. Becomes(c, x) /\ fresh' \in [Handles -> BOOLEAN]
  BY <1>1, <1>2, <1>3, TypesOf, BecomesRefreshed
<1>5. /\ Append(log[k], f) \in Seq(File) /\ Len(Append(log[k], f)) = n + 1
      /\ Append(log[k], f)[n + 1] = f
      /\ \A i \in 1..n : Append(log[k], f)[i] = log[k][i]
  BY <1>1, AppendProperties
<1>6. /\ log' \in [Keys -> Seq(File)] /\ log'[k] = Append(log[k], f)
      /\ \A j \in Keys \ {k} : log'[j] = log[j]
  BY <1>2, <1>5, TypesOf
<1>7. \A j \in Keys : /\ Len(log[j]) \in Nat /\ Len(log'[j]) \in Nat
                      /\ Len(log[j]) <= Len(log'[j])
  <2> TAKE j \in Keys
  <2>1. CASE j = k
    <3>1. log'[j] = Append(log[k], f) /\ Len(log'[j]) = n + 1 /\ Len(log[j]) = n
      BY <1>5, <1>6, <2>1
    <3> QED
      BY <1>1, <3>1
  <2>2. CASE j # k
    <3>1. log'[j] = log[j] /\ Len(log[j]) \in Nat
      BY <1>6, <2>2, TypesOf
    <3> QED
      BY <3>1
  <2> QED
    BY <2>1, <2>2
<1>8. \A d \in Clients : OpOK(log', op'[d])
  <2>1. OpOK(log', x)
    BY <1>3, <1>5, <1>6 DEF OpOK
  <2>2. OpOK(log', op'[c])
    BY <1>4, <2>1, AlikeOK DEF Becomes
  <2>3. ASSUME NEW d \in Clients \ {c}
        PROVE  OpOK(log', op'[d])
    <3>1. op[d].key \in Keys /\ OpOK(log, op[d])
      BY TypesOf DEF Ops
    <3>2. OpOK(log', op[d])
      BY <1>7, <3>1, OpStays
    <3> QED
      BY <1>4, <3>2, AlikeOK DEF Becomes
  <2> QED
    BY <2>2, <2>3
<1>9. ASSUME NEW j \in Keys
      PROVE  LogOK(j)'
  <2>1. LogOK(j)
    BY DEF StoreInv
  <2>2. floor[j] \in Nat /\ acked[j] \in Nat
    BY TypesOf
  <2>3. ASSUME NEW i \in 1..Len(log'[j])
        PROVE  FileOK(j, log'[j][i])
    <3>1. CASE j = k /\ i = n + 1
      BY <1>5, <1>6, <3>1
    <3>2. CASE j = k /\ i # n + 1
      <4>1. i \in 1..n
        BY <1>1, <1>5, <1>6, <3>2
      <4> QED
        BY <1>5, <1>6, <2>1, <3>2, <4>1 DEF LogOK
    <3>3. CASE j # k
      BY <1>6, <2>1, <3>3 DEF LogOK
    <3> QED
      BY <3>1, <3>2, <3>3
  <2>4. 1 <= floor[j] /\ floor[j] <= Len(log'[j]) /\ acked[j] <= floor[j]
    BY <1>7, <2>1, <2>2 DEF LogOK
  <2> QED
    BY <1>2, <2>3, <2>4 DEF LogOK
<1>10. LockOK'
  <2>1. LockOK /\ x.pc \in Critical
    BY <1>3 DEF StoreInv, Critical
  <2> QED
    BY <1>2, <1>4, <2>1, LockTaken
<1>11. IndexOK'
  <2> DEFINE e == [index[h] EXCEPT !.keys = IF index[h].built THEN keys ELSE {}]
  <2>1. index[h] \in [built : BOOLEAN, keys : SUBSET Keys] /\ keys \in SUBSET Keys
    BY <1>1, TypesOf
  <2>2. index' = [index EXCEPT ![h] = e]
    BY <1>2
  <2> HIDE DEF keys
  <2>3. /\ e \in [built : BOOLEAN, keys : SUBSET Keys] /\ e.built = index[h].built
        /\ index[h].built => e.keys = keys
    BY <2>1
  <2> HIDE DEF e
  <2>4. index' \in [Handles -> [built : BOOLEAN, keys : SUBSET Keys]] /\ index'[h] = e
    BY <1>1, <2>2, <2>3, TypesOf
  <2>5. Present' = IF f = Absent THEN Present \ {k} ELSE Present \cup {k}
    <3>1. Newest(k)' = f /\ \A j \in Keys \ {k} : Newest(j)' = Newest(j)
      BY <1>1, <1>5, <1>6 DEF Newest
    <3> QED
      BY <3>1 DEF Present
  <2>6. ASSUME OneHandle
        PROVE  /\ \A g \in Handles : index'[g].built => index'[g].keys = Present'
               /\ \A d \in Clients : op'[d].pc = "scanned" => op'[d].found = Present'
    <3>1. \A g \in Handles : g = h
      BY <1>1, <2>6 DEF OneHandle
    <3>2. index[h].built => index[h].keys = Present
      BY <1>1, <2>6 DEF StoreInv, IndexOK
    <3>3. index[h].built => keys = Present'
      BY <2>5, <3>2 DEF keys
    <3>4. \A d \in Clients : op[d].pc \notin Critical
      <4> TAKE d \in Clients
      <4>1. lock[HandleOf[d]] = Nobody /\ d # Nobody
        BY <3>1, StoreAssumption
      <4> QED
        BY <4>1 DEF StoreInv, LockOK
    <3>5. \A d \in Clients : op'[d].pc # "scanned"
      BY <1>3, <1>4, <3>4 DEF Becomes, Alike, Critical
    <3> QED
      BY <2>3, <2>4, <3>1, <3>3, <3>5
  <2> QED
    BY <1>4, <2>4, <2>6 DEF IndexOK, OneHandle
<1>12. floor' \in [Keys -> Nat] /\ acked' \in [Keys -> Nat] /\ op' \in [Clients -> Ops]
  BY <1>2, <1>4, TypesOf DEF Becomes
<1> QED
  BY <1>6, <1>8, <1>9, <1>10, <1>11, <1>12 DEF StoreInv

LEMMA PutCommitInv ==
  ASSUME StoreInv, NEW c \in Clients, PutCommit(c)
  PROVE  StoreInv'
<1> DEFINE f == [val |-> op[c].val, safe |-> op[c].safe]
<1>1. /\ op[c].pc = "written" /\ lock[HandleOf[c]] = Nobody /\ Changed(c, op[c].key, f)
  BY DEF PutCommit
<1>2. op[c] \in Ops /\ op[c].key \in Keys /\ op[c].safe /\ op[c].val \in ContentOf[op[c].key]
      /\ op[c].safe \in BOOLEAN
  BY <1>1, TypesOf DEF OpOK, Ops
<1>3. f \in File /\ f.safe /\ f.val \in ContentOf[op[c].key]
  BY <1>2, ValueFacts DEF File
<1>4. FileOK(op[c].key, f) /\ op[c].pc \notin Critical
  BY <1>1, <1>3 DEF FileOK, Critical
<1> HIDE DEF f
<1> QED
  BY <1>1, <1>2, <1>4, ChangedInv

LEMMA DeleteCommitInv ==
  ASSUME StoreInv, NEW c \in Clients, NEW k \in Keys, DeleteCommit(c, k)
  PROVE  StoreInv'
<1>1. FileOK(k, Absent)
  BY DEF FileOK, File, Absent
<1>2. op[c].pc \notin Critical /\ lock[HandleOf[c]] = Nobody /\ Changed(c, k, Absent)
  BY DEF DeleteCommit, Critical
<1> QED
  BY <1>1, <1>2, ChangedInv

(* Delete of a missing key: an exact index does not have it. *)
LEMMA DeleteMissingInv ==
  ASSUME StoreInv, NEW c \in Clients, NEW k \in Keys, DeleteMissing(c, k)
  PROVE  StoreInv'
<1> DEFINE h == HandleOf[c]
           e == [index[h] EXCEPT !.keys = index[h].keys \ {k}]
<1>1. /\ k \notin Present /\ UNCHANGED <<log, floor, lock, op, acked>>
      /\ index' = [index EXCEPT ![h] = e] /\ h \in Handles
  BY TypesOf DEF DeleteMissing
<1>2. PICK ok \in BOOLEAN : fresh' = [fresh EXCEPT ![h] = ok /\ index[h].built]
  BY DEF DeleteMissing
<1>3. fresh' \in [Handles -> BOOLEAN]
  <2>1. (ok /\ index[h].built) \in BOOLEAN
    OBVIOUS
  <2> QED
    BY <1>2, <2>1, TypesOf
<1>4. index[h] \in [built : BOOLEAN, keys : SUBSET Keys]
  BY <1>1, TypesOf
<1>5. /\ e \in [built : BOOLEAN, keys : SUBSET Keys] /\ e.built = index[h].built
      /\ e.keys = index[h].keys \ {k}
  BY <1>4
<1> HIDE DEF e
<1>6. /\ index' \in [Handles -> [built : BOOLEAN, keys : SUBSET Keys]] /\ index'[h] = e
      /\ \A g \in Handles \ {h} : index'[g] = index[g]
  BY <1>1, <1>5, TypesOf
<1>7. Present' = Present
  BY <1>1 DEF Present, Newest
<1>8. ASSUME OneHandle
      PROVE  /\ \A g \in Handles : index'[g].built => index'[g].keys = Present
             /\ \A d \in Clients : op[d].pc = "scanned" => op[d].found = Present
  <2>1. \A g \in Handles : index[g].built => index[g].keys = Present
    BY <1>8 DEF StoreInv, IndexOK
  <2>2. e.built => e.keys = Present
    BY <1>1, <1>5, <2>1
  <2> QED
    BY <1>6, <1>8, <2>1, <2>2 DEF StoreInv, IndexOK
<1>9. IndexOK'
  BY <1>1, <1>3, <1>6, <1>7, <1>8 DEF IndexOK, OneHandle
<1>10. LockOK' /\ \A j \in Keys : LogOK(j)'
  BY <1>1 DEF StoreInv, LockOK, LogOK
<1> QED
  BY <1>1, <1>9, <1>10 DEF StoreInv

-----------------------------------------------------------------------------
(* The end of a critical section. *)

(* The call releases the lock and becomes x; the directory and the index   *)
(* stay.                                                                   *)
LEMMA ReleaseStep ==
  ASSUME StoreInv, NEW c \in Clients, NEW x, OpOK(log, x), op' = With(c, x),
         op[c].pc \in Critical, x.pc \notin Critical, Released(c),
         UNCHANGED <<log, index, fresh>>,
         floor' \in [Keys -> Nat], acked' \in [Keys -> Nat], \A k \in Keys : LogOK(k)'
  PROVE  StoreInv'
<1>1. Becomes(c, x)
  BY TypesOf, BecomesWith DEF OpOK
<1>2. op' \in [Clients -> Ops] /\ \A d \in Clients : OpOK(log', op'[d])
  BY <1>1, OpsStep
<1>3. LockOK'
  BY <1>1, LockReleased DEF StoreInv
<1>4. x.pc # "scanned"
  BY DEF Critical
<1>5. IndexOK'
  BY <1>1, <1>4, TypesOf, IndexKept
<1> QED
  BY <1>2, <1>3, <1>5, TypesOf DEF StoreInv

(* The directory is on the disk: nothing older than the change of this     *)
(* call can be left by a crash.                                            *)
LEMMA SyncDirInv ==
  ASSUME StoreInv, NEW c \in Clients, SyncDir(c)
  PROVE  StoreInv'
<1> DEFINE o == op[c]
           q == o.key
<1>1. /\ o.pc = "committed" /\ Released(c) /\ UNCHANGED <<log, index, fresh>>
      /\ floor' = [k \in Keys |-> Len(log[k])]
      /\ acked' = [acked EXCEPT ![q] = IF o.file > acked[q] THEN o.file ELSE acked[q]]
      /\ op' = With(c, Idle)
  BY DEF SyncDir, Newer
<1>2. o \in Ops /\ o.file \in Nat /\ q \in Keys /\ o.file <= Len(log[q])
  BY <1>1, TypesOf DEF OpOK, Ops
<1>3. floor' \in [Keys -> Nat] /\ \A k \in Keys : floor'[k] = Len(log[k])
  BY <1>1, TypesOf
<1>4. acked' \in [Keys -> Nat]
  BY <1>1, <1>2, TypesOf
<1>5. ASSUME NEW k \in Keys
      PROVE  LogOK(k)'
  <2>1. /\ floor[k] \in Nat /\ acked[k] \in Nat /\ Len(log[k]) \in Nat /\ Len(log[k]) >= 1
        /\ floor[k] <= Len(log[k]) /\ acked[k] <= floor[k]
    BY TypesOf DEF StoreInv, LogOK
  <2>2. acked[k] <= Len(log[k])
    BY <2>1
  <2>3. acked'[k] <= Len(log[k])
    <3>1. CASE k = q
      <4>1. acked'[k] = o.file \/ acked'[k] = acked[k]
        BY <1>1, <1>2, <3>1, TypesOf
      <4> QED
        BY <1>2, <2>2, <3>1, <4>1
    <3>2. CASE k # q
      BY <1>1, <2>2, <3>2, TypesOf
    <3> QED
      BY <3>1, <3>2
  <2>4. \A i \in 1..Len(log[k]) : FileOK(k, log[k][i])
    BY DEF StoreInv, LogOK
  <2>5. 1 <= Len(log[k]) /\ Len(log[k]) <= Len(log[k])
    BY <2>1
  <2> QED
    BY <1>1, <1>3, <2>3, <2>4, <2>5 DEF LogOK
<1>6. OpOK(log, Idle) /\ Idle.pc \notin Critical /\ o.pc \in Critical
  BY <1>1, IdleOK, IdleFacts DEF Critical
<1> QED
  BY <1>1, <1>3, <1>4, <1>5, <1>6, ReleaseStep

LEMMA FailsInv ==
  ASSUME StoreInv, NEW c \in Clients, SyncDirFails(c) \/ ScanFails(c)
  PROVE  StoreInv'
<1>1. /\ op[c].pc \in Critical /\ Released(c) /\ op' = With(c, Idle)
      /\ UNCHANGED <<log, floor, index, fresh, acked>>
  BY DEF SyncDirFails, ScanFails, Critical
<1>2. OpOK(log, Idle) /\ Idle.pc \notin Critical
  BY IdleOK, IdleFacts DEF Critical
<1>3. floor' \in [Keys -> Nat] /\ acked' \in [Keys -> Nat] /\ \A k \in Keys : LogOK(k)'
  BY <1>1, TypesOf DEF StoreInv, LogOK
<1> QED
  BY <1>1, <1>2, <1>3, ReleaseStep

-----------------------------------------------------------------------------
(* Listings. *)

LEMMA ListBeginsInv ==
  ASSUME StoreInv, NEW c \in Clients, ListBegins(c)
  PROVE  StoreInv'
<1> DEFINE h == HandleOf[c]
           a == [Idle EXCEPT !.kind = "list", !.pc = "listing"]
           x == [Idle EXCEPT !.kind = "list", !.pc = "scanning", !.same = TRUE]
<1>1. /\ op[c].pc = "idle" /\ lock[h] = Nobody
      /\ UNCHANGED <<log, floor, index, fresh, acked>>
      /\ \/ op' = With(c, a) /\ UNCHANGED lock
         \/ op' = With(c, x) /\ lock' = [lock EXCEPT ![h] = c]
  BY DEF ListBegins
<1>2. op[c].pc \notin Critical
  BY <1>1 DEF Critical
<1>3. /\ a \in Ops /\ a.kind = "list" /\ a.pc = "listing"
      /\ x \in Ops /\ x.kind = "list" /\ x.pc = "scanning"
  BY IdleFacts DEF Ops, Kinds, Pcs
<1> HIDE DEF a, x
<1>4. OpOK(log, a) /\ OpOK(log, x) /\ a.pc \notin Critical /\ x.pc \in Critical
  BY <1>3 DEF OpOK, Critical
<1>5. CASE op' = With(c, a) /\ UNCHANGED lock
  BY <1>1, <1>2, <1>4, <1>5, CallStep
<1>6. CASE op' = With(c, x) /\ lock' = [lock EXCEPT ![h] = c]
  <2>1. Becomes(c, x)
    BY <1>3, <1>6, TypesOf, BecomesWith
  <2>2. op' \in [Clients -> Ops] /\ \A d \in Clients : OpOK(log', op'[d])
    BY <1>1, <1>4, <2>1, OpsStep
  <2>3. LockOK'
    BY <1>1, <1>4, <1>6, <2>1, LockTaken DEF StoreInv
  <2>4. IndexOK'
    BY <1>1, <1>3, <2>1, TypesOf, IndexKept
  <2>5. \A k \in Keys : LogOK(k)'
    BY <1>1 DEF StoreInv, LogOK
  <2> QED
    BY <1>1, <2>2, <2>3, <2>4, <2>5, TypesOf DEF StoreInv
<1> QED
  BY <1>1, <1>5, <1>6

LEMMA ScanInv ==
  ASSUME StoreInv, NEW c \in Clients, Scan(c)
  PROVE  StoreInv'
<1> DEFINE x == [op[c] EXCEPT !.pc = "scanned", !.found = Present]
<1>1. /\ op[c].pc = "scanning" /\ op' = With(c, x)
      /\ UNCHANGED <<log, floor, lock, index, fresh, acked>>
  BY DEF Scan
<1>2. op[c] \in Ops /\ OpOK(log, op[c]) /\ Present \subseteq Keys
  BY TypesOf DEF Present
<1>3. /\ x \in Ops /\ x.kind = op[c].kind /\ x.pc = "scanned" /\ x.found = Present
      /\ x.val = op[c].val /\ x.key = op[c].key
  BY <1>2 DEF Ops, Pcs
<1> HIDE DEF x
<1>4. OpOK(log, x) /\ x.pc \in Critical /\ op[c].pc \in Critical
  BY <1>1, <1>2, <1>3 DEF OpOK, Critical
<1>5. Becomes(c, x)
  BY <1>1, <1>3, TypesOf, BecomesWith
<1> QED
  BY <1>1, <1>3, <1>4, <1>5, TypesOf, QuietStep

(* With one handle no file is renamed or removed between a scan and its    *)
(* end: the lock is held.                                                  *)
LEMMA ScanEndsInv ==
  ASSUME StoreInv, NEW c \in Clients, ScanEnds(c)
  PROVE  StoreInv'
<1> DEFINE h == HandleOf[c]
           o == op[c]
           e == [built |-> TRUE, keys |-> o.found]
           x == [o EXCEPT !.pc = "listing", !.same = FALSE, !.found = {}]
           y == [o EXCEPT !.pc = "scanning", !.same = TRUE, !.found = {}]
<1>1. /\ o.pc = "scanned" /\ UNCHANGED <<log, floor, acked>>
      /\ \/ /\ index' = [index EXCEPT ![h] = e] /\ fresh' = [fresh EXCEPT ![h] = TRUE]
            /\ Released(c) /\ op' = With(c, x)
         \/ op' = With(c, y) /\ UNCHANGED <<index, fresh, lock>>
  BY DEF ScanEnds
<1>2. o \in Ops /\ OpOK(log, o) /\ h \in Handles
  BY TypesOf
<1>3. /\ x \in Ops /\ x.kind = o.kind /\ x.pc = "listing" /\ x.val = o.val /\ x.key = o.key
      /\ y \in Ops /\ y.kind = o.kind /\ y.pc = "scanning" /\ y.val = o.val /\ y.key = o.key
  BY <1>2 DEF Ops, Pcs
<1> HIDE DEF x, y
<1>4. /\ OpOK(log, x) /\ x.pc \notin Critical /\ o.pc \in Critical
      /\ OpOK(log, y) /\ y.pc \in Critical
  BY <1>1, <1>2, <1>3 DEF OpOK, Critical
<1>5. CASE op' = With(c, y) /\ UNCHANGED <<index, fresh, lock>>
  <2>1. Becomes(c, y)
    BY <1>3, <1>5, TypesOf, BecomesWith
  <2> QED
    BY <1>1, <1>3, <1>4, <1>5, <2>1, TypesOf, QuietStep
<1>6. CASE /\ index' = [index EXCEPT ![h] = e] /\ fresh' = [fresh EXCEPT ![h] = TRUE]
           /\ Released(c) /\ op' = With(c, x)
  <2>1. Becomes(c, x)
    BY <1>3, <1>6, TypesOf, BecomesWith
  <2>2. op' \in [Clients -> Ops] /\ \A d \in Clients : OpOK(log', op'[d])
    BY <1>1, <1>4, <2>1, OpsStep
  <2>3. LockOK'
    BY <1>4, <1>6, <2>1, LockReleased DEF StoreInv
  <2>4. IndexOK'
    <3>1. Present' = Present
      BY <1>1 DEF Present, Newest
    <3>2. fresh' \in [Handles -> BOOLEAN]
      BY <1>6, TypesOf
    <3>3. o.found \in SUBSET Keys
      BY <1>1, <1>2 DEF OpOK
    <3>4. index' \in [Handles -> [built : BOOLEAN, keys : SUBSET Keys]] /\ index'[h] = e
      BY <1>2, <1>6, <3>3, TypesOf
    <3>5. ASSUME OneHandle
          PROVE  /\ \A g \in Handles : index'[g].built => index'[g].keys = Present
                 /\ \A d \in Clients : op'[d].pc = "scanned" => op'[d].found = Present
      <4>1. \A g \in Handles : g = h
        BY <1>2, <3>5 DEF OneHandle
      <4>2. o.found = Present
        BY <1>1, <3>5 DEF StoreInv, IndexOK
      <4>3. \A d \in Clients \ {c} : op[d].pc = "scanned" => op[d].found = Present
        BY <3>5 DEF StoreInv, IndexOK
      <4> QED
        BY <1>3, <2>1, <3>4, <4>1, <4>2, <4>3 DEF Becomes, Alike
    <3> QED
      BY <3>1, <3>2, <3>4, <3>5 DEF IndexOK, OneHandle
  <2>5. \A k \in Keys : LogOK(k)'
    BY <1>1 DEF StoreInv, LogOK
  <2> QED
    BY <1>1, <2>2, <2>3, <2>4, <2>5, TypesOf DEF StoreInv
<1> QED
  BY <1>1, <1>5, <1>6

-----------------------------------------------------------------------------
(* Restarts, crashes and damage. *)

LEMMA RestartInv ==
  ASSUME StoreInv, NEW h \in Handles, Restart(h)
  PROVE  StoreInv'
<1>1. /\ lock' = [lock EXCEPT ![h] = Nobody] /\ index' = [index EXCEPT ![h] = NoIndex]
      /\ fresh' = [fresh EXCEPT ![h] = FALSE] /\ UNCHANGED <<log, floor, acked>>
      /\ op' = [c \in Clients |-> IF HandleOf[c] = h THEN Idle ELSE op[c]]
  BY DEF Restart
<1>2. op' \in [Clients -> Ops] /\ \A c \in Clients : OpOK(log', op'[c])
  BY <1>1, TypesOf, IdleFacts, IdleOK
<1>3. LockOK'
  <2>1. /\ lock' \in [Handles -> Clients \cup {Nobody}] /\ lock'[h] = Nobody
        /\ \A g \in Handles \ {h} : lock'[g] = lock[g]
    BY <1>1 DEF StoreInv, LockOK
  <2>2. \A g \in Handles : lock'[g] # Nobody => HandleOf[lock'[g]] = g
    BY <2>1 DEF StoreInv, LockOK
  <2>3. ASSUME NEW c \in Clients
        PROVE  op'[c].pc \in Critical <=> lock'[HandleOf[c]] = c
    <3>1. HandleOf[c] \in Handles /\ c # Nobody
      BY StoreAssumption
    <3>2. CASE HandleOf[c] = h
      <4>1. op'[c] = Idle /\ Idle.pc \notin Critical
        BY <1>1, <3>2, IdleFacts DEF Critical
      <4> QED
        BY <2>1, <3>1, <3>2, <4>1
    <3>3. CASE HandleOf[c] # h
      <4>1. op'[c] = op[c] /\ lock'[HandleOf[c]] = lock[HandleOf[c]]
        BY <1>1, <2>1, <3>1, <3>3
      <4> QED
        BY <4>1 DEF StoreInv, LockOK
    <3> QED
      BY <3>2, <3>3
  <2> QED
    BY <2>1, <2>2, <2>3 DEF LockOK
<1>4. IndexOK'
  <2>1. Present' = Present
    BY <1>1 DEF Present, Newest
  <2>2. NoIndex \in [built : BOOLEAN, keys : SUBSET Keys] /\ ~NoIndex.built
    BY DEF NoIndex
  <2>3. /\ index' \in [Handles -> [built : BOOLEAN, keys : SUBSET Keys]]
        /\ fresh' \in [Handles -> BOOLEAN]
        /\ \A g \in Handles : index'[g] = IF g = h THEN NoIndex ELSE index[g]
    BY <1>1, <2>2, TypesOf
  <2>4. ASSUME OneHandle
        PROVE  /\ \A g \in Handles : index'[g].built => index'[g].keys = Present
               /\ \A c \in Clients : op'[c].pc = "scanned" => op'[c].found = Present
    <3>1. \A g \in Handles : index'[g].built => index'[g].keys = Present
      BY <2>2, <2>3, <2>4 DEF StoreInv, IndexOK
    <3>2. \A c \in Clients : op'[c].pc = "scanned" => op'[c].found = Present
      BY <1>1, <2>4, IdleFacts DEF StoreInv, IndexOK
    <3> QED
      BY <3>1, <3>2
  <2> QED
    BY <2>1, <2>3, <2>4 DEF IndexOK, OneHandle
<1>5. \A k \in Keys : LogOK(k)'
  BY <1>1 DEF StoreInv, LogOK
<1> QED
  BY <1>1, <1>2, <1>3, <1>4, <1>5, TypesOf DEF StoreInv

(* Nobody holds a lock or has a call under way after a crash. *)
LEMMA CrashInv ==
  ASSUME StoreInv, Crash
  PROVE  StoreInv'
<1>1. PICK left \in [Keys -> 1..MaxWrites + 1] :
        /\ \A k \in Keys : floor[k] <= left[k] /\ left[k] <= Len(log[k])
        /\ log' = [k \in Keys |-> Append(SubSeq(log[k], 1, left[k] - 1),
                                         Survives(log[k][left[k]]))]
        /\ floor' = left
  BY DEF Crash
<1>2. /\ lock' = [h \in Handles |-> Nobody] /\ index' = [h \in Handles |-> NoIndex]
      /\ fresh' = [h \in Handles |-> FALSE] /\ op' = [c \in Clients |-> Idle]
      /\ UNCHANGED acked
  BY DEF Crash
<1>3. ASSUME NEW k \in Keys
      PROVE  /\ log'[k] \in Seq(File) /\ floor'[k] \in Nat /\ LogOK(k)'
  <2> DEFINE m == left[k]
             s == SubSeq(log[k], 1, m - 1)
             f == log[k][m]
  <2>1. /\ m \in Nat /\ m >= 1 /\ m <= Len(log[k]) /\ floor[k] <= m
        /\ log[k] \in Seq(File) /\ Len(log[k]) \in Nat
    <3>1. m \in 1..MaxWrites + 1
      BY <1>1
    <3>2. m \in Nat /\ m >= 1
      BY <3>1, StoreAssumption
    <3> QED
      BY <1>1, <3>2, TypesOf
  <2>2. FileOK(k, f) /\ Survives(f) = f /\ f \in File
    <3>1. m \in 1..Len(log[k])
      BY <2>1
    <3>2. FileOK(k, f)
      BY <3>1 DEF StoreInv, LogOK
    <3> QED
      BY <3>2 DEF FileOK, Survives
  <2>3. s \in Seq(File) /\ Len(s) = m - 1 /\ \A i \in 1..m - 1 : s[i] = log[k][i]
    <3>1. /\ 1 \in 1..Len(log[k]) + 1 /\ m - 1 \in 0..Len(log[k])
          /\ 1 \in Nat /\ m - 1 \in Nat /\ 1 >= 1 /\ m - 1 <= Len(log[k])
      BY <2>1
    <3> HIDE DEF m
    <3> QED
      BY <2>1, <3>1, SubSeqProperties
  <2>4. log'[k] = Append(s, f)
    BY <1>1, <2>2
  <2> HIDE DEF s, f
  <2>5. /\ Append(s, f) \in Seq(File) /\ Len(Append(s, f)) = Len(s) + 1
        /\ Append(s, f)[Len(s) + 1] = f
        /\ \A i \in 1..Len(s) : Append(s, f)[i] = s[i]
    BY <2>2, <2>3, AppendProperties
  <2>6. Len(s) + 1 = m
    BY <2>1, <2>3
  <2>7. ASSUME NEW i \in 1..Len(log'[k])
        PROVE  FileOK(k, log'[k][i])
    <3>1. CASE i = m
      BY <2>2, <2>4, <2>5, <2>6, <3>1
    <3>2. CASE i # m
      <4> HIDE DEF m
      <4>1. i \in 1..m - 1 /\ i \in 1..Len(log[k]) /\ i \in 1..Len(s)
        BY <2>1, <2>3, <2>4, <2>5, <2>6, <3>2
      <4>2. log'[k][i] = log[k][i]
        BY <2>3, <2>4, <2>5, <4>1
      <4> QED
        BY <4>1, <4>2 DEF StoreInv, LogOK
    <3> QED
      BY <3>1, <3>2
  <2>8. floor'[k] = m /\ Len(log'[k]) = m
    BY <1>1, <2>4, <2>5, <2>6
  <2>9. acked[k] <= m
    <3>1. acked[k] \in Nat /\ floor[k] \in Nat /\ acked[k] <= floor[k]
      BY TypesOf DEF StoreInv, LogOK
    <3> QED
      BY <2>1, <3>1
  <2>10. acked'[k] = acked[k]
    BY <1>2
  <2> HIDE DEF m
  <2>11. 1 <= floor'[k] /\ floor'[k] <= Len(log'[k]) /\ acked'[k] <= floor'[k]
    BY <2>1, <2>8, <2>9, <2>10
  <2> QED
    BY <2>1, <2>4, <2>5, <2>7, <2>8, <2>11 DEF LogOK
<1>4. log' \in [Keys -> Seq(File)] /\ floor' \in [Keys -> Nat] /\ acked' \in [Keys -> Nat]
  <2>1. log' = [k \in Keys |-> log'[k]] /\ floor' = [k \in Keys |-> floor'[k]]
    BY <1>1
  <2> QED
    BY <1>2, <1>3, <2>1, TypesOf
<1>5. op' \in [Clients -> Ops] /\ \A c \in Clients : OpOK(log', op'[c])
  BY <1>2, IdleFacts, IdleOK
<1>6. LockOK'
  <2>1. \A c \in Clients : op'[c] = Idle /\ HandleOf[c] \in Handles /\ c # Nobody
    BY <1>2, StoreAssumption
  <2>2. Idle.pc \notin Critical
    BY IdleFacts DEF Critical
  <2> QED
    BY <1>2, <2>1, <2>2 DEF LockOK
<1>7. IndexOK'
  <2>1. NoIndex \in [built : BOOLEAN, keys : SUBSET Keys] /\ ~NoIndex.built
    BY DEF NoIndex
  <2>2. /\ \A h \in Handles : index'[h] = NoIndex
        /\ \A c \in Clients : op'[c].pc # "scanned"
    BY <1>2, IdleFacts
  <2>3. index' \in [Handles -> [built : BOOLEAN, keys : SUBSET Keys]]
        /\ fresh' \in [Handles -> BOOLEAN]
    BY <1>2, <2>1
  <2> QED
    BY <2>1, <2>2, <2>3 DEF IndexOK
<1> QED
  BY <1>3, <1>4, <1>5, <1>6, <1>7 DEF StoreInv

LEMMA DamageInv ==
  ASSUME StoreInv, NEW k \in Keys, Damage(k)
  PROVE  StoreInv'
<1> DEFINE n == Len(log[k])
           f == [log[k][n] EXCEPT !.val = "damaged"]
           s == [log[k] EXCEPT ![n] = f]
<1>1. /\ k \in Present /\ UNCHANGED <<floor, lock, index, fresh, op, acked>>
      /\ log' = [log EXCEPT ![k] = s]
  BY DEF Damage
<1>2. n \in Nat /\ n >= 1 /\ log[k] \in Seq(File) /\ n \in 1..n
  BY TypesOf
<1>3. FileOK(k, log[k][n])
  BY <1>2 DEF StoreInv, LogOK
<1>4. f \in File /\ f.safe /\ f.val = "damaged" /\ FileOK(k, f)
  BY <1>3, ValueFacts DEF FileOK, File, Contents
<1> HIDE DEF f
<1>5. s \in Seq(File) /\ Len(s) = n /\ s[n] = f /\ \A i \in 1..n : i # n => s[i] = log[k][i]
  BY <1>2, <1>4, ExceptSeq
<1> HIDE DEF s
<1>6. /\ log' \in [Keys -> Seq(File)] /\ log'[k] = s
      /\ \A j \in Keys \ {k} : log'[j] = log[j]
  BY <1>1, <1>5, TypesOf
<1>7. \A j \in Keys : Len(log'[j]) = Len(log[j]) /\ Len(log[j]) \in Nat
  BY <1>5, <1>6, TypesOf
<1>8. \A c \in Clients : OpOK(log', op'[c])
  <2> TAKE c \in Clients
  <2>1. op[c].key \in Keys /\ OpOK(log, op[c])
    BY TypesOf DEF Ops
  <2>2. Len(log[op[c].key]) \in Nat /\ Len(log'[op[c].key]) = Len(log[op[c].key])
    BY <1>7, <2>1
  <2>3. Len(log[op[c].key]) <= Len(log'[op[c].key])
    BY <2>2
  <2> QED
    BY <1>1, <2>1, <2>2, <2>3, OpStays
<1>9. \A j \in Keys : LogOK(j)'
  <2> TAKE j \in Keys
  <2>1. LogOK(j)
    BY DEF StoreInv
  <2>2. ASSUME NEW i \in 1..Len(log[j])
        PROVE  FileOK(j, log'[j][i])
    <3>1. CASE j = k
      BY <1>4, <1>5, <1>6, <2>1, <3>1 DEF LogOK
    <3>2. CASE j # k
      BY <1>6, <2>1, <3>2 DEF LogOK
    <3> QED
      BY <3>1, <3>2
  <2> QED
    BY <1>1, <1>7, <2>1, <2>2 DEF LogOK
<1>10. Present' = Present
  <2>1. Absent.val # "damaged" /\ f # Absent
    BY <1>4 DEF Absent
  <2>2. Newest(k)' = f /\ \A j \in Keys \ {k} : Newest(j)' = Newest(j)
    BY <1>5, <1>6 DEF Newest
  <2> QED
    BY <1>1, <2>1, <2>2 DEF Present
<1>11. IndexOK' /\ LockOK'
  BY <1>1, <1>10 DEF StoreInv, IndexOK, LockOK, OneHandle
<1> QED
  BY <1>1, <1>6, <1>8, <1>9, <1>11, TypesOf DEF StoreInv

-----------------------------------------------------------------------------
LEMMA InitInv == StoreInit => StoreInv
<1> SUFFICES ASSUME StoreInit PROVE StoreInv
  OBVIOUS
<1>1. Absent \in File /\ \A k \in Keys : FileOK(k, Absent)
  BY DEF Absent, File, FileOK
<1>2. <<Absent>> \in Seq(File) /\ Len(<<Absent>>) = 1 /\ <<Absent>>[1] = Absent
  BY <1>1
<1>3. /\ \A k \in Keys : log[k] = <<Absent>> /\ floor[k] = 1 /\ acked[k] = 1
      /\ log \in [Keys -> Seq(File)] /\ floor \in [Keys -> Nat] /\ acked \in [Keys -> Nat]
  BY <1>2 DEF StoreInit
<1>4. ASSUME NEW k \in Keys PROVE LogOK(k)
  <2>1. log[k] = <<Absent>> /\ Len(log[k]) = 1 /\ log[k][1] = Absent
    BY <1>2, <1>3
  <2>2. \A i \in 1..Len(log[k]) : i = 1
    BY <2>1
  <2>3. 1 <= floor[k] /\ floor[k] <= Len(log[k]) /\ acked[k] <= floor[k]
    BY <1>3, <2>1
  <2> QED
    BY <1>1, <2>1, <2>2, <2>3 DEF LogOK
<1>5. op \in [Clients -> Ops] /\ \A c \in Clients : OpOK(log, op[c]) /\ op[c] = Idle
  BY IdleFacts, IdleOK DEF StoreInit
<1>6. LockOK
  BY <1>5, IdleFacts, StoreAssumption DEF StoreInit, LockOK, Critical
<1>7. IndexOK
  <2>1. NoIndex \in [built : BOOLEAN, keys : SUBSET Keys] /\ ~NoIndex.built
    BY DEF NoIndex
  <2>2. /\ index \in [Handles -> [built : BOOLEAN, keys : SUBSET Keys]]
        /\ fresh \in [Handles -> BOOLEAN] /\ \A h \in Handles : index[h] = NoIndex
    BY <2>1 DEF StoreInit
  <2> QED
    BY <1>5, <2>1, <2>2, IdleFacts DEF IndexOK
<1> QED
  BY <1>3, <1>4, <1>5, <1>6, <1>7 DEF StoreInv

LEMMA StutterInv == StoreInv /\ UNCHANGED svars => StoreInv'
<1> SUFFICES ASSUME StoreInv, UNCHANGED svars PROVE StoreInv'
  OBVIOUS
<1>1. UNCHANGED log /\ UNCHANGED floor /\ UNCHANGED lock /\ UNCHANGED index
      /\ UNCHANGED fresh /\ UNCHANGED op /\ UNCHANGED acked
  BY DEF svars
<1>2. Present' = Present /\ \A k \in Keys : LogOK(k)' <=> LogOK(k)
  BY <1>1 DEF Present, Newest, LogOK
<1>3. LockOK' /\ IndexOK'
  BY <1>1, <1>2 DEF StoreInv, LockOK, IndexOK, OneHandle
<1> QED
  BY <1>1, <1>2, <1>3 DEF StoreInv

LEMMA NextInv == StoreInv /\ [StoreNext]_svars => StoreInv'
<1> SUFFICES ASSUME StoreInv, [StoreNext]_svars PROVE StoreInv'
  OBVIOUS
<1>1. ASSUME NEW c \in Clients, Step(c) PROVE StoreInv'
  <2>1. CASE \/ Open(c) \/ ReadAll(c) \/ Return(c) \/ WriteTemp(c) \/ PutFails(c)
             \/ PutAborts(c) \/ PutCommit(c)
    BY <2>1, OpenInv, EndsInv, WriteTempInv, PutAbortsInv, PutCommitInv
  <2>2. CASE \/ SyncDir(c) \/ SyncDirFails(c) \/ ListBegins(c) \/ Scan(c)
             \/ ScanEnds(c) \/ ScanFails(c) \/ Listed(c)
    BY <2>2, SyncDirInv, FailsInv, ListBeginsInv, ScanInv, ScanEndsInv, EndsInv
  <2>3. ASSUME NEW k \in Keys, DeleteCommit(c, k) \/ DeleteMissing(c, k) PROVE StoreInv'
    BY <2>3, DeleteCommitInv, DeleteMissingInv
  <2>4. ASSUME NEW k \in Keys, NEW v \in Contents \cup {"absent"},
               \/ CreateTemp(c, k, v)
               \/ \E kind \in Kinds : Lookup(c, kind, k, v)
        PROVE  StoreInv'
    BY <2>4, CreateTempInv, LookupInv
  <2> QED
    BY <1>1, <2>1, <2>2, <2>3, <2>4 DEF Step
<1>2. CASE UNCHANGED svars
  BY <1>2, StutterInv
<1> QED
  BY <1>1, <1>2, RestartInv, CrashInv, DamageInv DEF StoreNext

(* StoreInv is an invariant of the store, whatever its callers do and      *)
(* wherever it crashes.                                                    *)
THEOREM StoreInvariant == StoreSpec => []StoreInv
BY InitInv, NextInv, PTL DEF StoreSpec

LEMMA InvSurvive == StoreInv => ChangesSurvive
<1> SUFFICES ASSUME StoreInv, NEW k \in Keys
             PROVE  /\ acked[k] <= floor[k]
                    /\ \A i \in floor[k]..Len(log[k]) : Survives(log[k][i]).val # "torn"
  BY DEF ChangesSurvive
<1>1. LogOK(k)
  BY DEF StoreInv
<1>2. ASSUME NEW i \in floor[k]..Len(log[k])
      PROVE  Survives(log[k][i]).val # "torn"
  <2>1. i \in 1..Len(log[k])
    <3>1. floor[k] \in Nat /\ Len(log[k]) \in Nat /\ 1 <= floor[k]
      BY <1>1, TypesOf DEF LogOK
    <3> QED
      BY <3>1
  <2>2. FileOK(k, log[k][i])
    BY <1>1, <2>1 DEF LogOK
  <2> QED
    BY <2>2, ValueFacts DEF FileOK, Survives
<1> QED
  BY <1>1, <1>2 DEF LogOK

LEMMA InvReads == StoreInv => ReadsSound
<1> SUFFICES ASSUME StoreInv PROVE ReadsSound
  OBVIOUS
<1> SUFFICES ASSUME NEW c \in Clients, op[c].pc = "done"
             PROVE  LET k == op[c].key
                    IN CASE op[c].val \in Contents -> /\ op[c].val \in op[c].found
                                                      /\ op[c].val \notin {"torn", "damaged"}
                         [] op[c].val = "absent" -> "absent" \in op[c].found
                         [] op[c].val = "true" -> op[c].found \cap ContentOf[k] # {}
                         [] op[c].val = "false" -> \/ {"absent", "damaged"} \cap op[c].found # {}
                                                   \/ op[c].from < Len(log[k])
                         [] OTHER -> TRUE
  BY DEF ReadsSound
<1>1. DoneOK(log, op[c]) /\ op[c].val \in Values
  BY TypesOf DEF OpOK, Ops
<1>2. {"absent", "true", "false", "error"} \cap Contents = {}
  BY ValueFacts
<1>3. CASE op[c].val \in Contents
  BY <1>1, <1>2, <1>3 DEF DoneOK
<1>4. CASE op[c].val = "absent"
  BY <1>1, <1>2, <1>4 DEF DoneOK
<1>5. CASE op[c].val = "true"
  BY <1>1, <1>2, <1>5 DEF DoneOK
<1>6. CASE op[c].val = "false"
  BY <1>1, <1>2, <1>6 DEF DoneOK
<1>7. CASE op[c].val = "error"
  BY <1>2, <1>7
<1> QED
  BY <1>1, <1>3, <1>4, <1>5, <1>6, <1>7 DEF Values

LEMMA InvTypes == StoreInv => StoreTypeOK
<1> SUFFICES ASSUME StoreInv PROVE StoreTypeOK
  OBVIOUS
<1>1. \A k \in Keys : 1 <= floor[k] /\ floor[k] <= Len(log[k])
  BY DEF StoreInv, LogOK
<1>2. ASSUME NEW h \in Handles, lock[h] # Nobody
      PROVE  HandleOf[lock[h]] = h /\ op[lock[h]].pc \in {"committed", "scanning", "scanned"}
  <2>1. lock[h] \in Clients /\ HandleOf[lock[h]] = h
    BY <1>2 DEF StoreInv, LockOK
  <2> QED
    BY <2>1 DEF StoreInv, LockOK, Critical
<1>3. \A c \in Clients : /\ op[c].kind \in Kinds /\ op[c].key \in Keys
                         /\ op[c].pc \in Pcs /\ op[c].val \in Values
  BY TypesOf DEF Ops
<1>4. lock \in [Handles -> Clients \cup {Nobody}]
  BY DEF StoreInv, LockOK
<1> QED
  BY <1>1, <1>2, <1>3, <1>4, TypesOf DEF StoreTypeOK, Pcs, Values

LEMMA InvExact == StoreInv /\ OneHandle => IndexExact
BY InvTypes DEF StoreInv, IndexOK, IndexExact

(* file.go: "Successful mutations flush file contents and the containing   *)
(* directory before returning".  Whatever a crash leaves of a key is whole *)
(* and not older than a change that a Put or a Delete has returned nil     *)
(* for, for any number of callers, handles, changes and crashes.           *)
THEOREM AcknowledgedChangesSurvive == StoreSpec => []ChangesSurvive
BY StoreInvariant, InvSurvive, PTL

(* A Get or a Has, which takes no lock, answers with what the key held at  *)
(* some moment of the call, or reports it missing because it was missing,  *)
(* damaged or replaced.                                                    *)
THEOREM ReadsAreSound == StoreSpec => []ReadsSound
BY StoreInvariant, InvReads, PTL

(* The state of the store is well-formed and a lock is held by a call that *)
(* is inside its critical section.                                         *)
THEOREM StoreTypes == StoreSpec => []StoreTypeOK
BY StoreInvariant, InvTypes, PTL

(* The index of a directory that one FileStore value uses is the directory *)
(* whenever it is built; TLC shows that with two handles it is not.        *)
THEOREM IndexIsExact ==
  ASSUME OneHandle
  PROVE  StoreSpec => []IndexExact
BY StoreInvariant, InvExact, PTL
=============================================================================
