----------------------------- MODULE FileStore -----------------------------
(***************************************************************************)
(* storage.FileStore (storage/file.go): blobs as files of one directory,   *)
(* with a lazily built key index per handle, used by concurrent callers    *)
(* and by the blob.put handler of main.go, over a directory whose changes  *)
(* reach the disk when it is synced.                                       *)
(*                                                                         *)
(* The files that a key has named, oldest first, are its log: a rename or  *)
(* a removal appends to it.  A crash may leave any of them that the last   *)
(* sync of the directory does not exclude.  Modification stamps are only   *)
(* compared, so the model keeps the outcome of the comparison; a change    *)
(* within one tick of the clock does not show in the stamp.                *)
(***************************************************************************)
EXTENDS Naturals, Sequences, FiniteSets

CONSTANTS
  Clients,     \* goroutines that call the store
  Handles,     \* FileStore values on the directory
  HandleOf,    \* the handle that a client uses
  Keys,
  ContentOf,   \* what callers may store under a key
  Addressed,   \* keys of 32 bytes: Get and Has verify their content
  Nobody,      \* the holder of a free lock
  MaxWrites    \* bound: changes of the directory

ASSUME StoreAssumption ==
  /\ HandleOf \in [Clients -> Handles]
  /\ Keys # {} /\ Addressed \subseteq Keys
  /\ \A k \in Keys :
       ContentOf[k] \cap {"absent", "damaged", "torn", "true", "false", "error"} = {}
  /\ \A k \in Addressed : Cardinality(ContentOf[k]) = 1
  /\ Nobody \notin Clients
  /\ MaxWrites \in Nat \ {0}

VARIABLES
  log,        \* the files a key has named: contents, and whether they are synced
  floor,      \* the oldest of them that a crash may leave
  lock,       \* FileStore.mu
  index,      \* FileStore.keys: built or nil, and the keys in it
  fresh,      \* does indexModTime equal the stamp of the directory?
  op,         \* the call of each client
  acked       \* history: the last change that a call returned nil for

svars == <<log, floor, lock, index, fresh, op, acked>>

-----------------------------------------------------------------------------
(* "damaged" bytes are not what the key's hash says; "torn" ones are what  *)
(* a crash leaves of a file that was not synced.                           *)
Contents == (UNION {ContentOf[k] : k \in Keys}) \cup {"damaged", "torn"}
File == [val : Contents \cup {"absent"}, safe : BOOLEAN]

Absent == [val |-> "absent", safe |-> TRUE]

Newest(k) == log[k][Len(log[k])]

Present == {k \in Keys : Newest(k) # Absent}

NoIndex == [built |-> FALSE, keys |-> {}]

(* from: the newest file at the call.  file: the one that was found.       *)
Idle == [kind |-> "none", pc |-> "idle", key |-> CHOOSE k \in Keys : TRUE, val |-> "absent",
         from |-> 0, file |-> 0, same |-> FALSE, safe |-> FALSE, found |-> {}]

Kinds == {"none", "put", "get", "has", "list", "handler"}

(* A key's newest file can survive a crash, and every lock is held by a    *)
(* client of its handle that has a call under way.                         *)
StoreTypeOK ==
  /\ log \in [Keys -> Seq(File)]
  /\ floor \in [Keys -> Nat]
  /\ \A k \in Keys : 1 <= floor[k] /\ floor[k] <= Len(log[k])
  /\ lock \in [Handles -> Clients \cup {Nobody}]
  /\ \A h \in Handles : lock[h] # Nobody =>
       /\ HandleOf[lock[h]] = h
       /\ op[lock[h]].pc \in {"committed", "scanning", "scanned"}
  /\ index \in [Handles -> [built : BOOLEAN, keys : SUBSET Keys]]
  /\ fresh \in [Handles -> BOOLEAN]
  /\ \A c \in Clients :
       /\ op[c].kind \in Kinds /\ op[c].key \in Keys
       /\ op[c].pc \in {"idle", "found", "opened", "create", "created", "written",
                        "committed", "scanning", "scanned", "listing", "done"}
       /\ op[c].val \in Contents \cup {"absent", "true", "false", "error"}
  /\ acked \in [Keys -> Nat]

StoreInit ==
  /\ log = [k \in Keys |-> <<Absent>>]
  /\ floor = [k \in Keys |-> 1]
  /\ lock = [h \in Handles |-> Nobody]
  /\ index = [h \in Handles |-> NoIndex]
  /\ fresh = [h \in Handles |-> FALSE]
  /\ op = [c \in Clients |-> Idle]
  /\ acked = [k \in Keys |-> 1]

-----------------------------------------------------------------------------
(* The call of client c goes on with the fields of r. *)
With(c, r) == [op EXCEPT ![c] = r]

(* The directory changed: no handle's stamp, and no stamp that a scan has  *)
(* read, is up to date, unless the clock has not ticked.                   *)
Stale(ops) == [c \in Clients |-> [ops[c] EXCEPT !.same = FALSE]]

Touch(ops) ==
  \/ op' = Stale(ops) /\ fresh' = [h \in Handles |-> FALSE]
  \/ op' = ops /\ UNCHANGED fresh

(* The same, and refreshIndexModTimeLocked of handle h, whose Stat may     *)
(* fail, if it has an index.                                               *)
TouchAndRefresh(ops, h) ==
  \E ticked, ok \in BOOLEAN :
    /\ op' = IF ticked THEN Stale(ops) ELSE ops
    /\ fresh' = [g \in Handles |-> IF g = h THEN ok /\ index[h].built
                                             ELSE fresh[g] /\ ~ticked]

(* The bound: changes that happened, and calls that may make one. *)
Changes == {a \in Keys \X (2..MaxWrites + 1) : a[2] <= Len(log[a[1]])}

Writers == {c \in Clients : op[c].kind \in {"put", "handler"} /\ op[c].pc # "committed"}

CanWrite == Cardinality(Changes) + Cardinality(Writers) < MaxWrites

(* A call that is refused before it changed anything, because its context  *)
(* is canceled or the directory cannot be read, leaves no trace and is no  *)
(* step.                                                                   *)
Call(kind, pc, k, v) == [Idle EXCEPT !.kind = kind, !.pc = pc, !.key = k, !.val = v]

-----------------------------------------------------------------------------
(* openRegularBlobFile, Get and Has: Lstat, Open, and a comparison of the  *)
(* two files; the content is read from the file that was opened.           *)

(* What the key of call o held since it began. *)
Held(o) == {log[o.key][i].val : i \in o.from..Len(log[o.key])}

(* Mutant: Has does not verify the content of a content-addressed key.     *)
ReadEndsUnverified(c, o, v) ==
  op' = With(c,
    CASE o.kind = "handler" /\ v \in {o.val, "error"} -> Idle
      [] o.kind = "handler" /\ v \notin {o.val, "error"} -> Call("handler", "create", o.key, o.val)
      [] o.kind = "get" -> [o EXCEPT !.pc = "done", !.found = Held(o),
                              !.val = IF v = "damaged" THEN "error" ELSE v]
      [] o.kind = "has" -> [o EXCEPT !.pc = "done", !.found = Held(o),
                              !.val = IF v \in {"absent", "error"}
                                        THEN "false" ELSE "true"])

(* The read of call o ends with result v: a Get or a Has returns it, the   *)
(* handler answers for an equal blob, fails, or goes on to store its own.  *)
ReadEnds(c, o, v) ==
  op' = With(c,
    CASE o.kind = "handler" /\ v \in {o.val, "error"} -> Idle
      [] o.kind = "handler" /\ v \notin {o.val, "error"} -> Call("handler", "create", o.key, o.val)
      [] o.kind = "get" -> [o EXCEPT !.pc = "done", !.found = Held(o),
                              !.val = IF v = "damaged" THEN "error" ELSE v]
      [] o.kind = "has" -> [o EXCEPT !.pc = "done", !.found = Held(o),
                              !.val = IF v \in {"absent", "damaged", "error"}
                                        THEN "false" ELSE "true"])

(* Lstat.  The message of a blob.put has been verified before.             *)
Lookup(c, kind, k, v) ==
  /\ op[c].pc = "idle"
  /\ \/ kind \in {"get", "has"} /\ v = "absent"
     \/ kind = "handler" /\ v \in ContentOf[k] /\ CanWrite
  /\ LET o == [Call(kind, "found", k, v) EXCEPT !.from = Len(log[k]), !.file = Len(log[k])]
     IN IF k \in Present THEN op' = With(c, o) ELSE ReadEnds(c, o, "absent")
  /\ UNCHANGED <<log, floor, lock, index, fresh, acked>>

(* The path may be gone by now, or name another file: ErrNonRegularEntry.  *)
Open(c) ==
  /\ op[c].pc = "found"
  /\ LET k == op[c].key
     IN CASE k \notin Present -> ReadEnds(c, op[c], "absent")
          [] k \in Present /\ op[c].file # Len(log[k]) -> ReadEnds(c, op[c], "error")
          [] k \in Present /\ op[c].file = Len(log[k]) ->
               op' = With(c, [op[c] EXCEPT !.pc = "opened"])
  /\ UNCHANGED <<log, floor, lock, index, fresh, acked>>

(* ReadAll and VerifySHA256Key. *)
ReadAll(c) ==
  /\ op[c].pc = "opened"
  /\ ReadEnds(c, op[c], log[op[c].key][op[c].file].val)
  /\ UNCHANGED <<log, floor, lock, index, fresh, acked>>

(* A Get or a Has returns. *)
Return(c) ==
  /\ op[c].pc = "done"
  /\ op' = With(c, Idle)
  /\ UNCHANGED <<log, floor, lock, index, fresh, acked>>

-----------------------------------------------------------------------------
(* Put. *)

CreateTemp(c, k, v) ==
  /\ \/ op[c].pc = "idle" /\ v \in ContentOf[k] /\ CanWrite
     \/ op[c].pc = "create" /\ op[c].key = k /\ op[c].val = v
  /\ Touch(With(c, Call("put", "created", k, v)))
  /\ UNCHANGED <<log, floor, lock, index, acked>>

(* Mutant: the temporary file is not synced. *)
WriteTempUnsynced(c) ==
  /\ op[c].pc = "created"
  /\ op' = With(c, [op[c] EXCEPT !.pc = "written"])
  /\ UNCHANGED <<log, floor, lock, index, fresh, acked>>

(* Write, Sync and Close. *)
WriteTemp(c) ==
  /\ op[c].pc = "created"
  /\ op' = With(c, [op[c] EXCEPT !.pc = "written", !.safe = TRUE])
  /\ UNCHANGED <<log, floor, lock, index, fresh, acked>>

(* CreateTemp fails for the handler, which returns the error. *)
PutFails(c) ==
  /\ op[c].pc = "create"
  /\ op' = With(c, Idle)
  /\ UNCHANGED <<log, floor, lock, index, fresh, acked>>

(* One of the next steps fails, or the context is canceled before the      *)
(* rename: the deferred function removes the temporary file.               *)
PutAborts(c) ==
  /\ op[c].pc \in {"created", "written"}
  /\ Touch(With(c, Idle))
  /\ UNCHANGED <<log, floor, lock, index, acked>>

(* The file of key k is f now; the caller holds the lock until the sync,   *)
(* updates an index that was built, and takes the new stamp for it.        *)
Changed(c, k, f) ==
  LET h == HandleOf[c]
      keys == IF f = Absent THEN index[h].keys \ {k} ELSE index[h].keys \cup {k}
  IN /\ lock' = [lock EXCEPT ![h] = c]
     /\ log' = [log EXCEPT ![k] = Append(@, f)]
     /\ TouchAndRefresh(With(c, [Call("put", "committed", k, f.val)
                                   EXCEPT !.file = Len(log[k]) + 1]), h)
     /\ index' = [index EXCEPT ![h].keys = IF index[h].built THEN keys ELSE {}]
     /\ UNCHANGED <<floor, acked>>

(* Rename, the index and refreshIndexModTimeLocked. *)
PutCommit(c) ==
  /\ op[c].pc = "written" /\ lock[HandleOf[c]] = Nobody
  /\ Changed(c, op[c].key, [val |-> op[c].val, safe |-> op[c].safe])

Released(c) == lock' = [lock EXCEPT ![HandleOf[c]] = Nobody]

Newer(h, k, i) == [h EXCEPT ![k] = IF i > @ THEN i ELSE @]

(* syncDirectory: the directory as it is now is on the disk, and the call  *)
(* returns nil; the handler sends its acknowledgement.                     *)
SyncDir(c) ==
  /\ op[c].pc = "committed"
  /\ Released(c)
  /\ floor' = [k \in Keys |-> Len(log[k])]
  /\ acked' = Newer(acked, op[c].key, op[c].file)
  /\ op' = With(c, Idle)
  /\ UNCHANGED <<log, index, fresh>>

(* The error is returned, the change stays. *)
SyncDirFails(c) ==
  /\ op[c].pc = "committed"
  /\ Released(c)
  /\ op' = With(c, Idle)
  /\ UNCHANGED <<log, floor, index, fresh, acked>>

-----------------------------------------------------------------------------
(* Delete. *)

DeleteCommit(c, k) ==
  /\ op[c].pc = "idle" /\ CanWrite
  /\ lock[HandleOf[c]] = Nobody /\ k \in Present
  /\ Changed(c, k, Absent)

(* A missing key is not an error, and there is nothing to sync.            *)
DeleteMissing(c, k) ==
  /\ op[c].pc = "idle"
  /\ lock[HandleOf[c]] = Nobody /\ k \notin Present
  /\ index' = [index EXCEPT ![HandleOf[c]].keys = @ \ {k}]
  /\ \E ok \in BOOLEAN : fresh' = [fresh EXCEPT ![HandleOf[c]] = ok /\ index[HandleOf[c]].built]
  /\ UNCHANGED <<log, floor, lock, op, acked>>

-----------------------------------------------------------------------------
(* ListKeys and ListKeyPage. *)

(* Mutant: the directory is scanned without the lock. *)
ListBeginsUnlocked(c) ==
  /\ op[c].pc = "idle"
  /\ LET h == HandleOf[c]
         scan == [Idle EXCEPT !.kind = "list", !.pc = "scanning", !.same = TRUE]
     IN /\ lock[h] = Nobody
        /\ IF index[h].built /\ fresh[h]
             THEN op' = With(c, [Idle EXCEPT !.kind = "list", !.pc = "listing"]) /\ UNCHANGED lock
             ELSE op' = With(c, scan) /\ UNCHANGED lock
  /\ UNCHANGED <<log, floor, index, fresh, acked>>

(* ensureKeyIndex: the index is up to date, or the directory is scanned.   *)
ListBegins(c) ==
  /\ op[c].pc = "idle"
  /\ LET h == HandleOf[c]
         scan == [Idle EXCEPT !.kind = "list", !.pc = "scanning", !.same = TRUE]
     IN /\ lock[h] = Nobody
        /\ IF index[h].built /\ fresh[h]
             THEN op' = With(c, [Idle EXCEPT !.kind = "list", !.pc = "listing"]) /\ UNCHANGED lock
             ELSE op' = With(c, scan) /\ lock' = [lock EXCEPT ![h] = c]
  /\ UNCHANGED <<log, floor, index, fresh, acked>>

(* readKeyIndex. *)
Scan(c) ==
  /\ op[c].pc = "scanning"
  /\ op' = With(c, [op[c] EXCEPT !.pc = "scanned", !.found = Present])
  /\ UNCHANGED <<log, floor, lock, index, fresh, acked>>

(* The stamp is what it was before the scan, or the scan is repeated.      *)
ScanEnds(c) ==
  /\ op[c].pc = "scanned"
  /\ LET h == HandleOf[c]
     IN IF op[c].same
          THEN /\ index' = [index EXCEPT ![h] = [built |-> TRUE, keys |-> op[c].found]]
               /\ fresh' = [fresh EXCEPT ![h] = TRUE]
               /\ Released(c)
               /\ op' = With(c, [op[c] EXCEPT !.pc = "listing", !.same = FALSE, !.found = {}])
          ELSE /\ op' = With(c, [op[c] EXCEPT !.pc = "scanning", !.same = TRUE, !.found = {}])
               /\ UNCHANGED <<index, fresh, lock>>
  /\ UNCHANGED <<log, floor, acked>>

(* The context is canceled, or the directory cannot be read. *)
ScanFails(c) ==
  /\ op[c].pc \in {"scanning", "scanned"}
  /\ Released(c)
  /\ op' = With(c, Idle)
  /\ UNCHANGED <<log, floor, index, fresh, acked>>

(* The keys are read from the index, under a lock of its own. *)
Listed(c) ==
  /\ op[c].pc = "listing"
  /\ lock[HandleOf[c]] = Nobody
  /\ op' = With(c, Idle)
  /\ UNCHANGED <<log, floor, lock, index, fresh, acked>>

-----------------------------------------------------------------------------
(* The process of a handle stops and starts again: NewFileStore.  What it  *)
(* has not synced is still in the directory.                               *)
Restart(h) ==
  /\ lock' = [lock EXCEPT ![h] = Nobody]
  /\ index' = [index EXCEPT ![h] = NoIndex]
  /\ fresh' = [fresh EXCEPT ![h] = FALSE]
  /\ op' = [c \in Clients |-> IF HandleOf[c] = h THEN Idle ELSE op[c]]
  /\ UNCHANGED <<log, floor, acked>>

(* The machine crashes: of every key's files one survives that the last    *)
(* sync of the directory allows, with its contents if they were synced.    *)
Survives(f) == IF f.safe THEN f ELSE [val |-> "torn", safe |-> TRUE]

Crash ==
  /\ \E left \in [Keys -> 1..MaxWrites + 1] :
       /\ \A k \in Keys : floor[k] <= left[k] /\ left[k] <= Len(log[k])
       /\ log' = [k \in Keys |-> Append(SubSeq(log[k], 1, left[k] - 1),
                                        Survives(log[k][left[k]]))]
       /\ floor' = left
  /\ lock' = [h \in Handles |-> Nobody]
  /\ index' = [h \in Handles |-> NoIndex]
  /\ fresh' = [h \in Handles |-> FALSE]
  /\ op' = [c \in Clients |-> Idle]
  /\ UNCHANGED acked

(* External: the bytes of a content-addressed blob are damaged in place.   *)
Damage(k) ==
  /\ k \in Addressed \cap Present
  /\ log' = [log EXCEPT ![k][Len(log[k])].val = "damaged"]
  /\ UNCHANGED <<floor, lock, index, fresh, op, acked>>

-----------------------------------------------------------------------------
Step(c) ==
  \/ Open(c) \/ ReadAll(c) \/ Return(c)
  \/ WriteTemp(c) \/ PutFails(c) \/ PutAborts(c) \/ PutCommit(c)
  \/ SyncDir(c) \/ SyncDirFails(c)
  \/ ListBegins(c) \/ Scan(c) \/ ScanEnds(c) \/ ScanFails(c) \/ Listed(c)
  \/ \E k \in Keys :
       \/ DeleteCommit(c, k) \/ DeleteMissing(c, k)
       \/ \E v \in Contents \cup {"absent"} :
            \/ CreateTemp(c, k, v)
            \/ \E kind \in Kinds : Lookup(c, kind, k, v)

StoreNext ==
  \/ \E c \in Clients : Step(c)
  \/ \E h \in Handles : Restart(h)
  \/ Crash
  \/ \E k \in Keys : Damage(k)

StoreSpec == StoreInit /\ [][StoreNext]_svars

-----------------------------------------------------------------------------
(* file.go: "Successful mutations flush file contents and the containing   *)
(* directory before returning".  Whatever a crash leaves of a key is not   *)
(* older than a change that a Put or a Delete has returned nil for, and is *)
(* no part of a file.                                                      *)
ChangesSurvive ==
  \A k \in Keys : /\ acked[k] <= floor[k]
                  /\ \A i \in floor[k]..Len(log[k]) : Survives(log[k][i]).val # "torn"

(* docs/ARCHITECTURE.md: the index is "maintained after successful         *)
(* mutations".  Between two critical sections the index of a store with    *)
(* one handle is the directory, also after a sync that failed, a scan that *)
(* temporary files disturbed and a change that did not show in the stamp;  *)
(* and a lock is held only by a call that is inside its critical section.  *)
IndexExact ==
  /\ StoreTypeOK
  /\ \A h \in Handles :
       index[h].built /\ lock[h] = Nobody => index[h].keys = Present

(* A read that is not under the lock returns what the key held at some     *)
(* moment of the call, whole and undamaged; it reports a key as missing    *)
(* only if the key was missing, damaged or replaced meanwhile.             *)
ReadsSound ==
  \A c \in Clients : op[c].pc = "done" =>
    LET k == op[c].key
    IN CASE op[c].val \in Contents -> /\ op[c].val \in op[c].found
                                      /\ op[c].val \notin {"torn", "damaged"}
         [] op[c].val = "absent" -> "absent" \in op[c].found
         [] op[c].val = "true" -> op[c].found \cap ContentOf[k] # {}
         [] op[c].val = "false" -> \/ {"absent", "damaged"} \cap op[c].found # {}
                                   \/ op[c].from < Len(log[k])
         [] OTHER -> TRUE

-----------------------------------------------------------------------------
(* Not so.  A Delete that finds the key removed by one whose sync failed,  *)
(* or a blob.put that finds an equal blob whose Put failed there, answers  *)
(* without a sync of its own: a crash takes the answer back.               *)
AnsweredDurable ==
  [][\A c \in Clients, k \in Keys :
       \/ DeleteMissing(c, k)
       \/ ReadAll(c) /\ op[c].kind = "handler" /\ op[c].key = k /\ op'[c].pc = "idle"
       => floor[k] = Len(log[k])]_svars

(* Not so.  "Has reports whether key exists": it reports a key that is     *)
(* replaced between its Lstat and its Open as missing.                     *)
HasTruthful ==
  \A c \in Clients : op[c].pc = "done" /\ op[c].val = "false" =>
    {"absent", "damaged"} \cap op[c].found # {}

(* Not so with two handles.  "FileStore rebuilds from hex filenames when   *)
(* its directory stamp changes, including mutations made through another   *)
(* store handle": a handle takes the stamp after its own change for that   *)
(* of its index, whatever another handle changed before.                   *)
FreshIsExact ==
  \A h \in Handles :
    index[h].built /\ fresh[h] /\ (\A g \in Handles : lock[g] = Nobody)
      => index[h].keys = Present
=============================================================================
