------------------------------ MODULE Archive -------------------------------
(***************************************************************************)
(* collectors/base/archive.py: the immutable raw archive below             *)
(* data/raw/<source>/.  Several collector processes share the directory    *)
(* tree without a lock, and any of them can die between two file system    *)
(* calls.  A payload stands for its SHA-256 digest; a directory is named   *)
(* by a digest prefix, or by a shorter prefix and a time stamp.            *)
(*                                                                         *)
(* One action stands for the file system calls between two points where    *)
(* another process can make a difference: directories and metadata are     *)
(* only ever added, so what an early check found still holds at the call   *)
(* that relies on it.                                                      *)
(***************************************************************************)
EXTENDS Naturals, FiniteSets

CONSTANTS
  Procs,         \* collector processes
  Contents,      \* payloads, each standing for its SHA-256 digest
  Buckets,       \* <category>/<year> directories of one source
  Names,         \* digest prefixes used as directory names
  Prefix,        \* Prefix[c]: the first 16 hex digits of c's digest
  Short,         \* Short[c]: the first 12 hex digits
  Stamps,        \* retrieved_at, to the microsecond
  None,          \* an absent stamp, payload, metadata, directory or request
  Damaged,       \* a payload file that lost the bytes written to it
  MaxCaptures,   \* bound: calls of archive_raw
  MaxCrashes,    \* bound: processes dying inside archive_raw
  MaxDamages     \* bound: payload files damaged from outside

Place    == [bucket: Buckets, name: Names, stamp: Stamps \cup {None}]
Request  == [content: Contents, bucket: Buckets, stamp: Stamps]
(* metadata.json: the digest, the time of retrieval, and the directory of  *)
(* the file that "payload_file" names: its own, or another if absolute.    *)
Metadata == [sha: Contents, at: Stamps, path: Place]
Returned == [place: Place, path: Place]

ASSUME ProcsAssumption == IsFiniteSet(Procs)
ASSUME NamesAssumption ==
  /\ Prefix \in [Contents -> Names] /\ Short \in [Contents -> Names]
  /\ \A c, d \in Contents : Prefix[c] = Prefix[d] => Short[c] = Short[d]
ASSUME MarkersAssumption ==
  /\ None \notin Contents \cup Stamps \cup Place \cup Request \cup Metadata \cup Returned
              \cup [sha: Contents, bytes: {"intact", "damaged"}]
  /\ Damaged \notin Contents \cup {None}
ASSUME BoundsAssumption ==
  MaxCaptures \in Nat /\ MaxCrashes \in Nat /\ MaxDamages \in Nat

VARIABLES
  dirs,       \* directories that exist
  file,       \* file[l]: the regular payload file in directory l
  link,       \* link[l]: where the symlink in directory l points
  meta,       \* meta[l]: l/metadata.json
  pc,         \* where each process is in archive_raw
  req,        \* the artifact it is archiving
  dir,        \* its archive_dir
  found,      \* what _find_existing_payload gave it
  out,        \* what archive_raw returned to it
  captures, crashes, damages

fs    == <<dirs, file, link, meta>>
local == <<pc, req, dir, found, out>>
vars  == <<dirs, file, link, meta, pc, req, dir, found, out, captures, crashes, damages>>

Home(r)     == [bucket |-> r.bucket, name |-> Prefix[r.content], stamp |-> None]
Isolated(r) == [bucket |-> r.bucket, name |-> Short[r.content], stamp |-> r.stamp]

(* The directory whose regular file is read when a path in l is opened.    *)
Resolve(l) == IF link[l] = None THEN l ELSE link[l]
BytesAt(l) == file[Resolve(l)]

(* verify_artifact: the file the metadata names has the recorded digest.   *)
Verifies(l) == meta[l] # None /\ BytesAt(meta[l].path) = meta[l].sha

(* _find_existing_payload, run to its end: any observation of the same     *)
(* digest, in any bucket, whose payload still hashes to it.                *)
CandidatesNone(c) == {l \in Place : FALSE}
Candidates(c) == {l \in Place : Verifies(l) /\ meta[l].sha = c}

Inside(p) == pc[p] \in {"lookup", "mkdir", "scan", "store", "seal"}
Building(p) == pc[p] \in {"scan", "store", "seal"}

-----------------------------------------------------------------------------
Init ==
  /\ dirs = {}
  /\ file = [l \in Place |-> None]
  /\ link = [l \in Place |-> None]
  /\ meta = [l \in Place |-> None]
  /\ pc = [p \in Procs |-> "idle"]
  /\ req = [p \in Procs |-> None]
  /\ dir = [p \in Procs |-> None]
  /\ found = [p \in Procs |-> None]
  /\ out = [p \in Procs |-> None]
  /\ captures = 0 /\ crashes = 0 /\ damages = 0

(* A collector calls archive_raw with bytes it fetched.                    *)
Begin(p) ==
  /\ pc[p] = "idle"
  /\ captures < MaxCaptures
  /\ captures' = captures + 1
  /\ \E r \in Request : req' = [req EXCEPT ![p] = r]
  /\ pc' = [pc EXCEPT ![p] = "lookup"]
  /\ UNCHANGED <<fs, dir, found, out, crashes, damages>>

(* The first directory of that name with the same digest is handed back    *)
(* as it is; a directory without metadata or with another digest under the *)
(* same prefix makes the observation move to a stamped directory.          *)
LookupByName(p) ==
  LET home == Home(req[p]) IN
  /\ pc[p] = "lookup"
  /\ IF home \in dirs /\ meta[home] # None
       THEN /\ out' = [out EXCEPT ![p] = [place |-> home, path |-> meta[home].path]]
            /\ pc' = [pc EXCEPT ![p] = "done"]
            /\ UNCHANGED dir
       ELSE /\ dir' = [dir EXCEPT ![p] = IF home \in dirs THEN Isolated(req[p]) ELSE home]
            /\ pc' = [pc EXCEPT ![p] = "mkdir"]
            /\ UNCHANGED out
  /\ UNCHANGED <<fs, req, found, captures, crashes, damages>>
Lookup(p) ==
  LET home == Home(req[p])
      same == home \in dirs /\ meta[home] # None /\ meta[home].sha = req[p].content
  IN
  /\ pc[p] = "lookup"
  /\ \/ /\ same
        /\ out' = [out EXCEPT ![p] = [place |-> home, path |-> meta[home].path]]
        /\ pc' = [pc EXCEPT ![p] = "done"]
        /\ UNCHANGED dir
     \/ /\ ~same
        /\ dir' = [dir EXCEPT ![p] = IF home \in dirs THEN Isolated(req[p]) ELSE home]
        /\ pc' = [pc EXCEPT ![p] = "mkdir"]
        /\ UNCHANGED out
  /\ UNCHANGED <<fs, req, found, captures, crashes, damages>>

(* "refusing to overwrite", or FileExistsError when another process made   *)
(* the directory in between; otherwise mkdir(exist_ok=False).              *)
MakeDirExistOk(p) ==
  /\ pc[p] = "mkdir"
  /\ dirs' = dirs \cup {dir[p]}
  /\ pc' = [pc EXCEPT ![p] = "scan"]
  /\ UNCHANGED <<file, link, meta, req, dir, found, out, captures, crashes, damages>>
MakeDir(p) ==
  /\ pc[p] = "mkdir"
  /\ dirs' = dirs \cup {dir[p]}
  /\ pc' = [pc EXCEPT ![p] = IF dir[p] \in dirs THEN "refused" ELSE "scan"]
  /\ UNCHANGED <<file, link, meta, req, dir, found, out, captures, crashes, damages>>

(* candidate.resolve(): the link target, never the link.                   *)
ScanUnresolved(p) ==
  LET candidates == Candidates(req[p].content) IN
  /\ pc[p] = "scan"
  /\ \/ \E l \in candidates : found' = [found EXCEPT ![p] = l]
     \/ candidates = {} /\ UNCHANGED found
  /\ pc' = [pc EXCEPT ![p] = "store"]
  /\ UNCHANGED <<fs, req, dir, out, captures, crashes, damages>>
Scan(p) ==
  LET candidates == Candidates(req[p].content) IN
  /\ pc[p] = "scan"
  /\ \/ \E l \in candidates : found' = [found EXCEPT ![p] = Resolve(meta[l].path)]
     \/ candidates = {} /\ UNCHANGED found
  /\ pc' = [pc EXCEPT ![p] = "store"]
  /\ UNCHANGED <<fs, req, dir, out, captures, crashes, damages>>

(* The payload: a symlink to the bytes found, nothing when the file system *)
(* refuses the symlink, or an atomic write (temporary file, fsync, rename).*)
Store(p) ==
  /\ pc[p] = "store"
  /\ \/ /\ found[p] = None
        /\ file' = [file EXCEPT ![dir[p]] = req[p].content]
        /\ UNCHANGED link
     \/ /\ found[p] # None
        /\ link' = [link EXCEPT ![dir[p]] = found[p]]
        /\ UNCHANGED file
     \/ /\ found[p] # None
        /\ UNCHANGED <<file, link>>
  /\ pc' = [pc EXCEPT ![p] = "seal"]
  /\ UNCHANGED <<dirs, meta, req, dir, found, out, captures, crashes, damages>>

(* metadata.json is written last, atomically, and the call returns.        *)
PathOfFound(p) == found[p]
PathOf(p) == IF found[p] = None \/ link[dir[p]] # None THEN dir[p] ELSE found[p]
SealAt(p, path) ==
  /\ meta' = [meta EXCEPT ![dir[p]] =
                [sha |-> req[p].content, at |-> req[p].stamp, path |-> path]]
  /\ out' = [out EXCEPT ![p] = [place |-> dir[p], path |-> path]]
  /\ pc' = [pc EXCEPT ![p] = "done"]
  /\ UNCHANGED <<dirs, file, link, req, dir, found, captures, crashes, damages>>
SealEarly(p) == pc[p] \in {"store", "seal"} /\ SealAt(p, PathOf(p))
Seal(p) == pc[p] = "seal" /\ SealAt(p, PathOf(p))

(* The caller is done with the result, or with the exception.              *)
Forget(p) ==
  /\ pc' = [pc EXCEPT ![p] = "idle"]
  /\ req' = [req EXCEPT ![p] = None]
  /\ dir' = [dir EXCEPT ![p] = None]
  /\ found' = [found EXCEPT ![p] = None]
  /\ out' = [out EXCEPT ![p] = None]
Return(p) ==
  /\ pc[p] \in {"done", "refused"}
  /\ Forget(p)
  /\ UNCHANGED <<fs, captures, crashes, damages>>

(* The process dies, or a write raises OSError: what it made stays behind. *)
Crash(p) ==
  /\ Inside(p)
  /\ crashes < MaxCrashes
  /\ crashes' = crashes + 1
  /\ Forget(p)
  /\ UNCHANGED <<fs, captures, damages>>

(* Outside the program, a payload file is truncated, edited or deleted.    *)
Damage(l) ==
  /\ file[l] \in Contents
  /\ damages < MaxDamages
  /\ damages' = damages + 1
  /\ file' = [file EXCEPT ![l] = Damaged]
  /\ UNCHANGED <<dirs, link, meta, local, captures, crashes>>

Next ==
  \/ \E p \in Procs : \/ Begin(p) \/ Lookup(p) \/ MakeDir(p) \/ Scan(p)
                      \/ Store(p) \/ Seal(p) \/ Return(p) \/ Crash(p)
  \/ \E l \in Place : Damage(l)

Spec == Init /\ [][Next]_vars

-----------------------------------------------------------------------------
TypeOK ==
  /\ dirs \subseteq Place
  /\ file \in [Place -> Contents \cup {None, Damaged}]
  /\ link \in [Place -> Place \cup {None}]
  /\ meta \in [Place -> Metadata \cup {None}]
  /\ pc \in [Procs -> {"idle", "lookup", "mkdir", "scan", "store", "seal", "done", "refused"}]
  /\ req \in [Procs -> Request \cup {None}]
  /\ dir \in [Procs -> Place \cup {None}]
  /\ found \in [Procs -> Place \cup {None}]
  /\ out \in [Procs -> Returned \cup {None}]
  /\ captures \in 0..MaxCaptures /\ crashes \in 0..MaxCrashes /\ damages \in 0..MaxDamages

(* verify_artifact succeeds on every observation that has metadata, unless *)
(* the bytes it refers to were damaged from outside: no crash, no race and *)
(* no prefix collision leaves metadata for bytes that are not there.       *)
ObservationsVerify ==
  \A l \in Place : meta[l] # None =>
    l \in dirs /\ (Verifies(l) \/ BytesAt(meta[l].path) = Damaged)

(* What archive_raw returns opens the bytes the caller handed in, also     *)
(* when it returned a directory that another process is responsible for.   *)
HandlesAreSound ==
  \A p \in Procs : pc[p] = "done" =>
    /\ meta[out[p].place] # None /\ meta[out[p].place].sha = req[p].content
    /\ BytesAt(out[p].path) \in {req[p].content, Damaged}

(* Two processes never fill the same directory, whatever they archive.     *)
OneWriterPerDirectory ==
  \A p, q \in Procs : p # q /\ Building(p) /\ Building(q) => dir[p] # dir[q]

(* Every symlink and every absolute payload_file leads to a regular file:  *)
(* removing one observation's metadata never breaks a chain of links.      *)
LinksAreFlat ==
  \A l \in Place :
    /\ link[l] # None => file[link[l]] # None /\ file[l] = None
    /\ meta[l] # None => file[Resolve(meta[l].path)] # None

(* "Same SHA-256 content reuses the first payload bytes on disk": beyond   *)
(* one intact copy per process that may race, a further one takes a crash; *)
(* damage never adds to them, since what it spoils is no longer a copy.    *)
Copies(c) == {l \in Place : file[l] = c}
CopiesAreBounded ==
  \A c \in Contents : Cardinality(Copies(c)) <= Cardinality(Procs) + crashes

(* archive_raw never changes a payload, a link or metadata once written:   *)
(* only damage from outside does, and it cannot restore bytes.             *)
NeverOverwritten ==
  [][\A l \in Place :
       /\ meta[l] # None => meta'[l] = meta[l]
       /\ link[l] # None => link'[l] = link[l]
       /\ file[l] # None => file'[l] \in {file[l], Damaged}]_vars

(* The archive is an immutable store of observations.                      *)
Observed == [l \in Place |->
  IF meta[l] = None THEN None
  ELSE [sha |-> meta[l].sha, bytes |-> IF Verifies(l) THEN "intact" ELSE "damaged"]]
Promise == INSTANCE ImmutableStore
             WITH Places <- Place, Hashes <- Contents, NoObs <- None, obs <- Observed
IsImmutableStore == Promise!StoreSpec

(* The docstring of archive_raw: "a new observation metadata directory is  *)
(* still created" for content seen before.  A call that returned has left  *)
(* metadata with its own time of retrieval.                                *)
EveryCaptureIsObserved ==
  \A p \in Procs : pc[p] = "done" => meta[out[p].place].at = req[p].stamp
=============================================================================
