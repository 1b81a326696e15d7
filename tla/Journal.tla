------------------------------ MODULE Journal ------------------------------
(***************************************************************************)
(* The lifecycle journal and its checkpoint (internal/lifecycle/journal.go)*)
(* on a disk that may crash, under the runtime that opens them, appends to *)
(* them, compacts them and installs snapshots (lifecycle_cli.go).          *)
(*                                                                         *)
(* A record is its version, a number: the journal only compares versions.  *)
(* 0 is the zero Version, which no record has.  In a file's log, 0 is an   *)
(* envelope of which only a part was written.                              *)
(***************************************************************************)
EXTENDS Naturals, Sequences

CONSTANTS
  MaxVersion,   \* the versions of records are 1..MaxVersion
  MaxEntries,   \* JournalOptions.MaxJournalEntries
  MaxFaults     \* bound: how many file operations may fail

ASSUME JournalAssumption ==
  /\ MaxVersion \in Nat
  /\ MaxEntries \in Nat \ {0}
  /\ MaxFaults \in Nat

VARIABLES
  jfile,    \* the journal file: what its path names, and what a crash may leave
  cfile,    \* the checkpoint file: its watermark, 0 when there is none
  mem,      \* Journal.floor and Journal.records
  linked,   \* is Journal.file the file that the path names?
  jpc,      \* where the runtime is
  req,      \* the operation under way
  acked,    \* history: the versions acknowledged to a client or a peer
  astray,   \* history: an operation ran on a file that mem does not describe
  faults    \* file operations that have failed

jvars == <<jfile, cfile, mem, linked, jpc, req, acked, astray, faults>>

-----------------------------------------------------------------------------
(* Files. *)

Versions == 0..MaxVersion

(* head: the 28 byte header is missing with the file, has no byte yet, is  *)
(* cut, or is whole.                                                       *)
Content == [head : {"none", "empty", "partial", "whole"},
            floor : Versions,
            log : Seq(Versions)]

Headless(h) == [head |-> h, floor |-> 0, log |-> <<>>]

Whole(floor, log) == [head |-> "whole", floor |-> floor, log |-> log]

(* The first k entries, without or with the beginning of the next one.     *)
Cut(c, k) == [c EXCEPT !.log = SubSeq(c.log, 1, k)]

TornCut(c, k) == [c EXCEPT !.log = Append(SubSeq(c.log, 1, k), 0)]

(* What the path may name after a machine crash: the file as it is, cut    *)
(* anywhere behind its last fsync, or what it named before a rename that   *)
(* no directory sync has settled.                                          *)
AfterCrash(f) ==
  {Cut(f.vis, k) : k \in f.synced..Len(f.vis.log)}
    \cup {TornCut(f.vis, k) : k \in {i \in f.synced..Len(f.vis.log) : i < Len(f.vis.log)}}
    \cup f.older

SyncedDir(f) == [f EXCEPT !.older = {}]

(* The rename of a complete, synced temporary file over the path.          *)
JournalReplaced(f, c) == [vis |-> c, synced |-> Len(c.log), older |-> AfterCrash(f)]

CheckpointReplaced(f, w) == [vis |-> w, older |-> f.older \cup {f.vis}]

CheckpointAfterCrash(f) == {f.vis} \cup f.older

-----------------------------------------------------------------------------
(* parseJournal. *)

Ascending(floor, log) ==
  \A i \in 1..Len(log) : log[i] > (IF i = 1 THEN floor ELSE log[i - 1])

(* The number of whole envelopes before the first torn one, if any. *)
WholeEntries(log) ==
  CHOOSE n \in 0..Len(log) :
    /\ \A i \in 1..n : log[i] # 0
    /\ n = Len(log) \/ log[n + 1] = 0

(* The header is whole, and the envelopes before the first torn one are in *)
(* order and not too many.                                                 *)
Parsed(c) ==
  /\ c.head = "whole"
  /\ Ascending(c.floor, SubSeq(c.log, 1, WholeEntries(c.log)))
  /\ WholeEntries(c.log) <= MaxEntries

(* OpenJournal accepts the file: nothing follows a torn envelope.          *)
Readable(c) == Parsed(c) /\ WholeEntries(c.log) >= Len(c.log) - 1

(* Bytes that follow a torn envelope are taken for its missing part: the   *)
(* checksum fails, or the length runs past the end of the file and all of  *)
(* it is cut off as a short final envelope.                                *)
Swallowed(c) == Parsed(c) /\ WholeEntries(c.log) < Len(c.log) - 1

(* openLifecycleRuntime: the checkpoint must be the one of the floor.      *)
CheckpointFits(floor, watermark) == watermark = floor

-----------------------------------------------------------------------------
Memory == [floor : Versions, records : Seq(Versions)]

NoMemory == [floor |-> 0, records |-> <<>>]

LastVersion(m) == IF m.records = <<>> THEN m.floor ELSE m.records[Len(m.records)]

NoRequest == [op |-> "none", version |-> 0, tail |-> <<>>]

JournalTypeOK ==
  /\ jfile \in [vis : Content, synced : Nat, older : SUBSET Content]
  /\ cfile \in [vis : Versions, older : SUBSET Versions]
  /\ mem \in Memory
  /\ Len(mem.records) <= MaxEntries
  /\ linked \in BOOLEAN
  /\ jpc \in {"down", "header", "loading", "open", "written", "applied",
              "cprenamed", "checkpointed", "jrenamed"}
  /\ req \in [op : {"none", "put", "apply", "compact", "install"},
              version : Versions, tail : Seq(Versions)]
  /\ acked \subseteq Versions
  /\ astray \in BOOLEAN
  /\ faults \in 0..MaxFaults

JournalInit ==
  /\ jfile = [vis |-> Headless("none"), synced |-> 0, older |-> {}]
  /\ cfile = [vis |-> 0, older |-> {}]
  /\ mem = NoMemory
  /\ linked = TRUE
  /\ jpc = "down"
  /\ req = NoRequest
  /\ acked = {}
  /\ astray = FALSE
  /\ faults = 0

Fault == faults < MaxFaults /\ faults' = faults + 1

-----------------------------------------------------------------------------
(* Opening. *)

(* OpenJournal on a missing or empty file writes the header of floor zero. *)
OpenCreate ==
  /\ jpc = "down"
  /\ jfile.vis.head \in {"none", "empty"}
  /\ jfile' = [vis |-> Whole(0, <<>>), synced |-> 0,
               older |-> jfile.older \cup {jfile.vis, Headless("empty"),
                                           Headless("partial")}]
  /\ jpc' = "header"
  /\ UNCHANGED <<cfile, mem, linked, req, acked, astray, faults>>

(* The fsync of the header; the name of a new file is not synced with it.  *)
HeaderSynced ==
  /\ jpc = "header"
  /\ jfile' = [jfile EXCEPT !.older = jfile.older \cap {Headless("none")}]
  /\ mem' = NoMemory
  /\ jpc' = "loading"
  /\ UNCHANGED <<cfile, linked, req, acked, astray, faults>>

(* Writing the header fails somewhere: OpenJournal closes the file as it is*)
HeaderFails ==
  /\ jpc = "header"
  /\ Fault
  /\ \E c \in {Headless("empty"), Headless("partial"), jfile.vis} :
       jfile' = [jfile EXCEPT !.vis = c]
  /\ jpc' = "down"
  /\ UNCHANGED <<cfile, mem, linked, req, acked, astray>>

(* OpenJournal on an existing file.  A torn tail is cut off and the file   *)
(* synced; a file that parses to its end is not synced.                    *)
OpenExisting ==
  /\ jpc = "down"
  /\ Readable(jfile.vis) \/ Swallowed(jfile.vis)
  /\ LET n == WholeEntries(jfile.vis.log)
     IN /\ mem' = [floor |-> jfile.vis.floor,
                   records |-> SubSeq(jfile.vis.log, 1, n)]
        /\ jfile' = IF n < Len(jfile.vis.log)
                      THEN [jfile EXCEPT !.vis = Cut(jfile.vis, n), !.synced = n]
                      ELSE jfile
  /\ jpc' = "loading"
  /\ UNCHANGED <<cfile, linked, req, acked, astray, faults>>

(* openLifecycleRuntime after the journal: the authority, the checkpoint,  *)
(* the replay.                                                             *)
Loaded ==
  /\ jpc = "loading"
  /\ CheckpointFits(mem.floor, cfile.vis)
  /\ jpc' = "open"
  /\ UNCHANGED <<jfile, cfile, mem, linked, req, acked, astray, faults>>

LoadRefused ==
  /\ jpc = "loading"
  /\ ~CheckpointFits(mem.floor, cfile.vis)
  /\ jpc' = "down"
  /\ mem' = NoMemory
  /\ UNCHANGED <<jfile, cfile, linked, req, acked, astray, faults>>

-----------------------------------------------------------------------------
(* Appending.  The entry goes to the end of the file, which holds more than*)
(* mem.records when an earlier append failed after it had written, and is  *)
(* not the file of the path when a rewrite failed after its rename.        *)

Astray == ~linked \/ jfile.vis.log # mem.records

(* Journal.Append up to the write. *)
CanAppend(v) ==
  /\ jpc = "open"
  /\ v > LastVersion(mem)
  /\ Len(mem.records) < MaxEntries

Written(f, e) == IF linked THEN [f EXCEPT !.vis.log = Append(f.vis.log, e)] ELSE f

(* lifecycleRuntime.put and delete: Authority.Next persists the token in   *)
(* the same directory, then Journal.Append writes the envelope.            *)
PutWrite(v) ==
  /\ CanAppend(v)
  /\ jfile' = Written(SyncedDir(jfile), v)
  /\ cfile' = SyncedDir(cfile)
  /\ req' = [NoRequest EXCEPT !.op = "put", !.version = v]
  /\ jpc' = "written"
  /\ astray' = (astray \/ Astray)
  /\ UNCHANGED <<mem, linked, acked, faults>>

(* The Append of a record that a peer sent. *)
ApplyWrite(v) ==
  /\ CanAppend(v)
  /\ jfile' = Written(jfile, v)
  /\ req' = [NoRequest EXCEPT !.op = "apply", !.version = v]
  /\ jpc' = "written"
  /\ astray' = (astray \/ Astray)
  /\ UNCHANGED <<cfile, mem, linked, acked, faults>>

(* writeFull fails inside the envelope: Append returns the error.          *)
AppendTorn(v) ==
  /\ CanAppend(v)
  /\ Fault
  /\ jfile' = Written(jfile, 0)
  /\ astray' = (astray \/ Astray)
  /\ UNCHANGED <<cfile, mem, linked, jpc, req, acked>>

(* Mutant: Append updates memory and returns without the fsync.            *)
AppendUnsynced ==
  /\ jpc = "written"
  /\ mem' = [mem EXCEPT !.records = Append(mem.records, req.version)]
  /\ acked' = IF req.op = "put" THEN acked \cup {req.version} ELSE acked
  /\ jpc' = IF req.op = "put" THEN "open" ELSE "applied"
  /\ UNCHANGED <<jfile, cfile, linked, req, astray, faults>>

(* The fsync that ends Append; a local mutation is then committed.         *)
AppendSynced ==
  /\ jpc = "written"
  /\ jfile' = IF linked THEN [jfile EXCEPT !.synced = Len(jfile.vis.log)] ELSE jfile
  /\ mem' = [mem EXCEPT !.records = Append(mem.records, req.version)]
  /\ acked' = IF req.op = "put" THEN acked \cup {req.version} ELSE acked
  /\ jpc' = IF req.op = "put" THEN "open" ELSE "applied"
  /\ UNCHANGED <<cfile, linked, req, astray, faults>>

(* The fsync fails: Append returns an error and leaves the entry behind.   *)
AppendSyncFails ==
  /\ jpc = "written"
  /\ Fault
  /\ jpc' = "open"
  /\ UNCHANGED <<jfile, cfile, mem, linked, req, acked, astray>>

(* The watermark of what a peer sent is persisted, which syncs the         *)
(* directory, and then acknowledged to the peer.                           *)
AckPersisted ==
  /\ jpc = "applied"
  /\ jfile' = SyncedDir(jfile)
  /\ cfile' = SyncedDir(cfile)
  /\ acked' = acked \cup {req.version}
  /\ jpc' = "open"
  /\ UNCHANGED <<mem, linked, req, astray, faults>>

AckFails ==
  /\ jpc = "applied"
  /\ Fault
  /\ jpc' = "open"
  /\ UNCHANGED <<jfile, cfile, mem, linked, req, acked, astray>>

-----------------------------------------------------------------------------
(* Compaction and snapshot installation. *)

(* The records of mem behind watermark w. *)
TailAfter(w) ==
  LET prefix == {i \in 1..Len(mem.records) : mem.records[i] <= w}
      n == IF prefix = {} THEN 0 ELSE CHOOSE i \in prefix : \A k \in prefix : k <= i
  IN SubSeq(mem.records, n + 1, Len(mem.records))

(* Journal.Compact up to the rename of the checkpoint. *)
CompactCheckpoint(w) ==
  /\ jpc = "open"
  /\ mem.floor < w /\ w <= LastVersion(mem)
  /\ TailAfter(w) # mem.records
  /\ cfile' = CheckpointReplaced(cfile, w)
  /\ req' = [op |-> "compact", version |-> w, tail |-> TailAfter(w)]
  /\ jpc' = "cprenamed"
  /\ astray' = (astray \/ ~linked)
  /\ UNCHANGED <<jfile, mem, linked, acked, faults>>

(* Journal.InstallSnapshot up to the rename of the checkpoint. *)
InstallCheckpoint(w) ==
  /\ jpc = "open"
  /\ w >= LastVersion(mem)
  /\ w > 0
  /\ cfile' = CheckpointReplaced(cfile, w)
  /\ req' = [op |-> "install", version |-> w, tail |-> <<>>]
  /\ jpc' = "cprenamed"
  /\ astray' = (astray \/ ~linked)
  /\ UNCHANGED <<jfile, mem, linked, acked, faults>>

(* Mutant: atomicWrite does not sync the directory.                        *)
CheckpointUnsynced ==
  /\ jpc = "cprenamed"
  /\ jpc' = "checkpointed"
  /\ UNCHANGED <<jfile, cfile, mem, linked, req, acked, astray, faults>>

(* The directory sync that ends the checkpoint's atomicWrite. *)
CheckpointSynced ==
  /\ jpc = "cprenamed"
  /\ jfile' = SyncedDir(jfile)
  /\ cfile' = SyncedDir(cfile)
  /\ jpc' = "checkpointed"
  /\ UNCHANGED <<mem, linked, req, acked, astray, faults>>

(* That sync fails, or the temporary file of rewriteLocked cannot be       *)
(* written: the operation returns an error with the checkpoint replaced.   *)
RewriteFails ==
  /\ jpc \in {"cprenamed", "checkpointed"}
  /\ Fault
  /\ jpc' = "open"
  /\ UNCHANGED <<jfile, cfile, mem, linked, req, acked, astray>>

(* rewriteLocked up to its rename: from here on Journal.file is unlinked.  *)
JournalRename ==
  /\ jpc = "checkpointed"
  /\ jfile' = JournalReplaced(jfile, Whole(req.version, req.tail))
  /\ linked' = FALSE
  /\ jpc' = "jrenamed"
  /\ UNCHANGED <<cfile, mem, req, acked, astray, faults>>

(* The directory sync, the reopened file and the new memory. *)
RewriteDone ==
  /\ jpc = "jrenamed"
  /\ jfile' = SyncedDir(jfile)
  /\ cfile' = SyncedDir(cfile)
  /\ mem' = [floor |-> req.version, records |-> req.tail]
  /\ linked' = TRUE
  /\ jpc' = IF req.op = "compact" THEN "open" ELSE "applied"
  /\ UNCHANGED <<req, acked, astray, faults>>

(* The sync or the reopening fails: the journal keeps the unlinked file.   *)
RewriteSyncFails ==
  /\ jpc = "jrenamed"
  /\ Fault
  /\ jpc' = "open"
  /\ UNCHANGED <<jfile, cfile, mem, linked, req, acked, astray>>

-----------------------------------------------------------------------------
(* The process ends, by Close, by an error or by a signal. *)
ProcessExit ==
  /\ jpc # "down"
  /\ jpc' = "down"
  /\ mem' = NoMemory
  /\ linked' = TRUE
  /\ req' = NoRequest
  /\ UNCHANGED <<jfile, cfile, acked, astray, faults>>

(* The machine crashes. *)
MachineCrash ==
  /\ \E c \in AfterCrash(jfile) :
       jfile' = [vis |-> c, synced |-> Len(c.log), older |-> {}]
  /\ \E w \in CheckpointAfterCrash(cfile) : cfile' = [vis |-> w, older |-> {}]
  /\ jpc' = "down"
  /\ mem' = NoMemory
  /\ linked' = TRUE
  /\ req' = NoRequest
  /\ UNCHANGED <<acked, astray, faults>>

JournalNext ==
  \/ OpenCreate \/ HeaderSynced \/ HeaderFails
  \/ OpenExisting \/ Loaded \/ LoadRefused
  \/ \E v \in 1..MaxVersion : \/ PutWrite(v) \/ ApplyWrite(v) \/ AppendTorn(v)
                              \/ CompactCheckpoint(v) \/ InstallCheckpoint(v)
  \/ AppendSynced \/ AppendSyncFails \/ AckPersisted \/ AckFails
  \/ CheckpointSynced \/ RewriteFails
  \/ JournalRename \/ RewriteDone \/ RewriteSyncFails
  \/ ProcessExit \/ MachineCrash

JournalSpec == JournalInit /\ [][JournalNext]_jvars

-----------------------------------------------------------------------------
Holds(c, v) == v <= c.floor \/ \E i \in 1..Len(c.log) : c.log[i] = v

(* What Append and InstallSnapshot promise: whatever a crash leaves of the *)
(* journal file can be read again and holds every acknowledged mutation,   *)
(* as a record or below the floor, unless the node went on appending after *)
(* a file error had parted the file from the journal's memory.  The journal*)
(* in memory keeps within the entries that it can be opened with.          *)
AckedSurvive ==
  /\ JournalTypeOK
  /\ ~astray /\ acked # {} =>
       \A c \in AfterCrash(jfile) :
         Readable(c) /\ \A v \in acked : Holds(Cut(c, WholeEntries(c.log)), v)

(* "Journal truncation is allowed only after the checkpoint and its        *)
(* compaction watermark are durable": no crash leaves a journal whose floor*)
(* is past its checkpoint.                                                 *)
TruncationCovered ==
  ~astray =>
    \A c \in AfterCrash(jfile), w \in CheckpointAfterCrash(cfile) : c.floor <= w

(* What docs/LIFECYCLE_V0_13.md says of recovery, that it "replays the     *)
(* checkpoint tail": whenever a crash comes, the journal and the checkpoint*)
(* it leaves are ones that openLifecycleRuntime starts from.               *)
RestartAccepted ==
  \A c \in AfterCrash(jfile), w \in CheckpointAfterCrash(cfile) :
    Readable(c) => CheckpointFits(c.floor, w)

(* journal.go: "Journal is an ordered, append-only lifecycle mutation log":*)
(* a journal file with a header can be opened again.  It does not hold     *)
(* after a failed append (README, "Disagreements").                        *)
JournalReopens == jfile.vis.head = "whole" => Readable(jfile.vis)

(* journal.go: "Append persists one strictly newer mutation and fsyncs it  *)
(* before returning": what the open journal retains is in the file that the*)
(* path names, where the next start will look for it.  It does not hold    *)
(* after a failed directory sync (README, "Disagreements").                *)
RetainedInFile ==
  jpc = "open" => \A i \in 1..Len(mem.records) : Holds(jfile.vis, mem.records[i])
=============================================================================
