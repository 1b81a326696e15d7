----------------------------- MODULE Authority -----------------------------
(***************************************************************************)
(* The durable token allocator of internal/lifecycle/authority.go.         *)
(*                                                                         *)
(* The allocator file is replaced by a synced temporary file, a rename and *)
(* a directory sync.  `afile.vis` is what the path names now;              *)
(* `afile.older` holds what it may still name after a machine crash,       *)
(* because the directory has not been synced since the rename.             *)
(* A process exit leaves both as they are.                                 *)
(***************************************************************************)
EXTENDS Versions

CONSTANT NoFile      \* the path does not exist

ASSUME NoFileAssumption == NoFile \notin Version

VARIABLES
  afile,    \* the allocator file: [vis, older]
  current,  \* Authority.current, in memory
  apc,      \* "down", "opening", "ready" or "persisting"
  issued    \* history: every token Next has returned, in any run

avars == <<afile, current, apc, issued>>

AllocatorState == {v \in Version : v.epoch # 0}

AuthorityTypeOK ==
  /\ afile \in [vis : AllocatorState \cup {NoFile},
                older : SUBSET (AllocatorState \cup {NoFile})]
  /\ current \in Version
  /\ apc \in {"down", "opening", "ready", "persisting"}
  /\ issued \subseteq Version

AuthorityInit ==
  /\ afile = [vis |-> NoFile, older |-> {}]
  /\ current = ZeroVersion
  /\ apc = "down"
  /\ issued = {}

-----------------------------------------------------------------------------
(* The rename of atomicWrite: the new content is visible, the old one may  *)
(* come back with a crash until the directory is synced.                   *)
Renamed(f, content) == [vis |-> content, older |-> f.older \cup {f.vis}]

SyncedDir(f) == [f EXCEPT !.older = {}]

AfterCrash(f) == {f.vis} \cup f.older

(* initialAuthorityVersion: the journal tail, or a random non-zero epoch.  *)
InitialVersion(observed) ==
  IF observed.epoch # 0
    THEN {observed}
    ELSE {[epoch |-> e, sequence |-> 0] : e \in 1..MaxUint}

(* OpenAuthority when there is no file: choose an epoch and persist it.    *)
OpenFresh(observed) ==
  /\ apc = "down"
  /\ afile.vis = NoFile
  /\ \E v \in InitialVersion(observed) :
       /\ current' = v
       /\ afile' = Renamed(afile, v)
  /\ apc' = "opening"
  /\ UNCHANGED issued

(* OpenAuthority on an existing file adopts a newer journal tail, and      *)
(* persists only when it did.                                              *)
OpenExisting(observed) ==
  /\ apc = "down"
  /\ afile.vis # NoFile
  /\ current' = Newer(afile.vis, observed)
  /\ IF Less(afile.vis, observed)
       THEN apc' = "opening" /\ afile' = Renamed(afile, observed)
       ELSE apc' = "ready" /\ UNCHANGED afile
  /\ UNCHANGED issued

(* Mutant: the state before the increment is the one persisted.            *)
NextRenameStale(observed) ==
  /\ apc = "ready"
  /\ ~Exhausted(Newer(current, observed))
  /\ current' = Increment(Newer(current, observed))
  /\ afile' = Renamed(afile, Newer(current, observed))
  /\ apc' = "persisting"
  /\ UNCHANGED issued

(* Authority.Next up to the rename: the token is taken in memory first, so *)
(* that a failed write consumes it.                                        *)
NextRename(observed) ==
  /\ apc = "ready"
  /\ ~Exhausted(Newer(current, observed))
  /\ current' = Increment(Newer(current, observed))
  /\ afile' = Renamed(afile, current')
  /\ apc' = "persisting"
  /\ UNCHANGED issued

(* Authority.Next failing before the rename: in the increment, after the   *)
(* observed tail was adopted, or while writing the temporary file.         *)
NextFails(observed) ==
  /\ apc = "ready"
  /\ current' = IF Exhausted(Newer(current, observed))
                  THEN Newer(current, observed)
                  ELSE Increment(Newer(current, observed))
  /\ UNCHANGED <<afile, apc, issued>>

(* The directory sync that ends OpenAuthority or Next; Next then returns   *)
(* the token.                                                              *)
PersistDone ==
  /\ apc \in {"opening", "persisting"}
  /\ afile' = SyncedDir(afile)
  /\ issued' = IF apc = "persisting" THEN issued \cup {current} ELSE issued
  /\ apc' = "ready"
  /\ UNCHANGED current

(* The directory sync fails: OpenAuthority gives up, Next returns an error.*)
PersistFails ==
  /\ apc \in {"opening", "persisting"}
  /\ \/ apc = "opening" /\ apc' = "down" /\ current' = ZeroVersion
     \/ apc = "persisting" /\ apc' = "ready" /\ UNCHANGED current
  /\ UNCHANGED <<afile, issued>>

(* The process ends; the files stay as the operating system sees them.     *)
AuthorityExit ==
  /\ apc # "down"
  /\ apc' = "down"
  /\ current' = ZeroVersion
  /\ UNCHANGED <<afile, issued>>

(* The machine crashes: an unsynced rename may or may not have happened.   *)
AuthorityCrash ==
  /\ \E c \in AfterCrash(afile) : afile' = [vis |-> c, older |-> {}]
  /\ apc' = "down"
  /\ current' = ZeroVersion
  /\ UNCHANGED issued

AuthorityNext ==
  \/ \E observed \in Version : \/ OpenFresh(observed)
                               \/ OpenExisting(observed)
                               \/ NextRename(observed)
                               \/ NextFails(observed)
  \/ PersistDone
  \/ PersistFails
  \/ AuthorityExit
  \/ AuthorityCrash

AuthoritySpec == AuthorityInit /\ [][AuthorityNext]_avars

-----------------------------------------------------------------------------
(* A token is never reused: whatever crashes, exits and failed writes came *)
(* between, a token that Next returns is newer than every token it ever    *)
(* returned before (authority.go: "A failed mutation may consume a token;  *)
(* it must never be reused").                                              *)
FreshTokens ==
  [][\A v \in issued' \ issued : \A w \in issued : Less(w, v)]_avars

(* What makes it so: every content the allocator file may have after a     *)
(* crash is at or past every token returned so far, and so is the          *)
(* allocator in memory while it serves.                                    *)
IssuedCovered ==
  \A v \in issued :
    /\ \A c \in AfterCrash(afile) : c # NoFile /\ Leq(v, c)
    /\ apc # "down" => Leq(v, current)

(* While a token is on its way to the disk it is already in the file, and  *)
(* newer than every token returned before.                                 *)
PendingFresh ==
  apc = "persisting" => /\ afile.vis = current
                        /\ \A v \in issued : Less(v, current)

AuthorityInv == AuthorityTypeOK /\ IssuedCovered /\ PendingFresh

(* What authority.go says of Current: "Current returns the last durably    *)
(* allocated token".  It does not hold: Next assigns the token before it   *)
(* persists it (README, "Disagreements").                                  *)
CurrentIsDurable == apc = "ready" => AfterCrash(afile) = {current}
=============================================================================
