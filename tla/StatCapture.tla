---------------------------- MODULE StatCapture -----------------------------
(***************************************************************************)
(* collectors/eci/statistical_reports/capture.py: a downloaded statistical *)
(* report is compared with the latest earlier observation of the same      *)
(* report, archived through archive_raw, and described in                  *)
(* capture_report.json beside it.  Captures of several processes can run   *)
(* against one raw_root, and a process can die between the steps.          *)
(*                                                                         *)
(* Here archive_raw is one step that either finds the digest's directory   *)
(* with its metadata, or makes it, or raises; how it does that, and digest *)
(* prefixes that collide, are Archive's subject.  The directory is named   *)
(* by report number, year and digest; the election type is not part of it. *)
(***************************************************************************)
EXTENDS Naturals, FiniteSets

CONSTANTS
  Procs,        \* capturing processes
  Types,        \* election types; the report number and the year are fixed
  Shas,         \* downloaded bytes, each standing for its SHA-256 digest
  Unsupported,  \* bytes that detect_container_format rejects
  None,         \* no prior observation, no metadata, no report, no capture
  MaxCaptures,  \* bound: downloads
  MaxCrashes    \* bound: processes that die

SourceStatuses == {"FIRST_OBSERVATION", "UNCHANGED", "SOURCE_CHANGED"}
Capture     == [type: Types, sha: Shas, at: 1..MaxCaptures]
Observation == [type: Types, at: 1..MaxCaptures, status: SourceStatuses, prior: Shas \cup {None}]
Described   == [type: Types, at: 1..MaxCaptures, status: SourceStatuses]

ASSUME StatAssumption ==
  /\ IsFiniteSet(Procs) /\ Unsupported \subseteq Shas
  /\ None \notin Shas \cup Capture \cup Observation \cup Described
  /\ MaxCaptures \in Nat /\ MaxCrashes \in Nat

VARIABLES
  meta,    \* meta[s]: metadata.json of the directory for digest s
  report,  \* report[s]: capture_report.json there
  pc,      \* where each process is in capture_report
  mine,    \* what it downloaded, with its retrieved_at
  prior,   \* the digest _find_prior_observation gave it
  now,     \* downloads so far: the clock
  crashes

vars == <<meta, report, pc, mine, prior, now, crashes>>

(* The most recent metadata of the same logical report, if any.            *)
Known(t)  == {s \in Shas : meta[s] # None /\ meta[s].type = t}
Newest(t) == {s \in Known(t) : \A r \in Known(t) : meta[r].at <= meta[s].at}

Status(p) ==
  IF prior[p] = None THEN "FIRST_OBSERVATION"
  ELSE IF prior[p] = mine[p].sha THEN "UNCHANGED" ELSE "SOURCE_CHANGED"

-----------------------------------------------------------------------------
Init ==
  /\ meta = [s \in Shas |-> None] /\ report = [s \in Shas |-> None]
  /\ pc = [p \in Procs |-> "idle"]
  /\ mine = [p \in Procs |-> None] /\ prior = [p \in Procs |-> None]
  /\ now = 0 /\ crashes = 0

(* The guarded client returned a body; rejected bytes are not archived.    *)
Download(p) ==
  /\ pc[p] = "idle" /\ now < MaxCaptures
  /\ now' = now + 1
  /\ \E t \in Types, s \in Shas :
       \/ s \in Unsupported /\ UNCHANGED <<pc, mine>>
       \/ /\ s \notin Unsupported
          /\ mine' = [mine EXCEPT ![p] = [type |-> t, sha |-> s, at |-> now']]
          /\ pc' = [pc EXCEPT ![p] = "prior"]
  /\ UNCHANGED <<meta, report, prior, crashes>>

FindPriorOfAnyType(p) ==
  /\ pc[p] = "prior"
  /\ \/ \E t \in Types : \E s \in Newest(t) : prior' = [prior EXCEPT ![p] = s]
     \/ (\A t \in Types : Known(t) = {}) /\ prior' = [prior EXCEPT ![p] = None]
  /\ pc' = [pc EXCEPT ![p] = "archive"]
  /\ UNCHANGED <<meta, report, mine, now, crashes>>
FindPriorForgets(p) ==
  /\ pc[p] = "prior"
  /\ prior' = [prior EXCEPT ![p] = None]
  /\ pc' = [pc EXCEPT ![p] = "archive"]
  /\ UNCHANGED <<meta, report, mine, now, crashes>>
FindPrior(p) ==
  /\ pc[p] = "prior"
  /\ \/ \E s \in Newest(mine[p].type) : prior' = [prior EXCEPT ![p] = s]
     \/ Known(mine[p].type) = {} /\ prior' = [prior EXCEPT ![p] = None]
  /\ pc' = [pc EXCEPT ![p] = "archive"]
  /\ UNCHANGED <<meta, report, mine, now, crashes>>

Forget(p) ==
  /\ pc' = [pc EXCEPT ![p] = "idle"]
  /\ mine' = [mine EXCEPT ![p] = None]
  /\ prior' = [prior EXCEPT ![p] = None]

(* archive_raw: the digest's directory is handed back untouched when it    *)
(* has metadata, whatever election type that names; it can raise.          *)
New(p) == [type |-> mine[p].type, at |-> mine[p].at, status |-> Status(p), prior |-> prior[p]]
ArchiveAgain(p) ==
  /\ pc[p] = "archive"
  /\ meta' = [meta EXCEPT ![mine[p].sha] = New(p)]
  /\ pc' = [pc EXCEPT ![p] = "report"]
  /\ UNCHANGED <<report, mine, prior, now, crashes>>
Archive(p) ==
  /\ pc[p] = "archive"
  /\ \/ /\ meta[mine[p].sha] # None
        /\ pc' = [pc EXCEPT ![p] = "report"]
        /\ UNCHANGED <<meta, mine, prior>>
     \/ /\ meta[mine[p].sha] = None
        /\ meta' = [meta EXCEPT ![mine[p].sha] = New(p)]
        /\ pc' = [pc EXCEPT ![p] = "report"]
        /\ UNCHANGED <<mine, prior>>
     \/ Forget(p) /\ UNCHANGED meta
  /\ UNCHANGED <<report, now, crashes>>

(* capture_report.json is rewritten with the status of this capture.       *)
DescribeAt(p, place) ==
  /\ pc[p] = place
  /\ report' = [report EXCEPT ![mine[p].sha] =
                  [type |-> mine[p].type, at |-> mine[p].at, status |-> Status(p)]]
  /\ Forget(p)
  /\ UNCHANGED <<meta, now, crashes>>
DescribeFirst(p) == DescribeAt(p, "archive")
Describe(p) == DescribeAt(p, "report")

Crash(p) ==
  /\ pc[p] # "idle" /\ crashes < MaxCrashes
  /\ crashes' = crashes + 1
  /\ Forget(p)
  /\ UNCHANGED <<meta, report, now>>

Next == \E p \in Procs : Download(p) \/ FindPrior(p) \/ Archive(p) \/ Describe(p) \/ Crash(p)
Spec == Init /\ [][Next]_vars

-----------------------------------------------------------------------------
TypeOK ==
  /\ meta \in [Shas -> Observation \cup {None}]
  /\ report \in [Shas -> Described \cup {None}]
  /\ pc \in [Procs -> {"idle", "prior", "archive", "report"}]
  /\ mine \in [Procs -> Capture \cup {None}]
  /\ prior \in [Procs -> Shas \cup {None}]
  /\ now \in 0..MaxCaptures /\ crashes \in 0..MaxCrashes

(* A report speaks of an observation that is there, and its status has     *)
(* evidence: UNCHANGED that very observation, SOURCE_CHANGED another one   *)
(* of the same logical report.                                             *)
ReportsHaveEvidence ==
  \A s \in Shas : report[s] # None =>
    LET t == report[s].type IN
    /\ meta[s] # None
    /\ report[s].status = "UNCHANGED" => s \in Known(t)
    /\ report[s].status = "SOURCE_CHANGED" => Known(t) \ {s} # {}

(* "both observations preserved": a changed report names the observation   *)
(* it differs from, which is there, and some first observation is behind   *)
(* it.  An observation never records that nothing changed.                 *)
ChangesAreLinked ==
  \A s \in Shas : meta[s] # None =>
    /\ meta[s].status = "SOURCE_CHANGED" => meta[s].prior \in Known(meta[s].type) \ {s}
    /\ meta[s].status = "FIRST_OBSERVATION" <=> meta[s].prior = None
    /\ meta[s].status # "UNCHANGED"
    /\ \E r \in Known(meta[s].type) : meta[r].status = "FIRST_OBSERVATION"

(* Only processes that race can both record a first observation.           *)
FirstsAreRaces ==
  \A t \in Types :
    Cardinality({s \in Known(t) : meta[s].status = "FIRST_OBSERVATION"}) <= Cardinality(Procs)

(* CaptureStorage.store: "Never overwrite prior observations".             *)
ObservationsAreKept == [][\A s \in Shas : meta[s] # None => meta'[s] = meta[s]]_vars

(* docs/eci-statistical-report-acquisition.md: "same SHA -> UNCHANGED".    *)
(* A capture with the bytes of the last reported one of its kind.          *)
Reported(t) == {s \in Shas : report[s] # None /\ report[s].type = t}
LastReported(t) == {s \in Reported(t) : \A r \in Reported(t) : report[r].at <= report[s].at}
SameBytesAreUnchanged ==
  [][\A p \in Procs : Describe(p) /\ mine[p].sha \in LastReported(mine[p].type)
       => report'[mine[p].sha].status = "UNCHANGED"]_vars
=============================================================================
