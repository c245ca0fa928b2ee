------------------------- MODULE StatCaptureProofs -------------------------
(***************************************************************************)
(* Captures of any reports by any finite set of processes, wherever they   *)
(* crash: evidence for every status, and first observations only by races. *)
(***************************************************************************)
EXTENDS StatCapture, FiniteSetTheorems, TLAPS

(* Types, and a capture for every process under way.                       *)
Typed == TypeOK /\ \A p \in Procs : pc[p] # "idle" => mine[p] \in Capture

LEMMA CaptureTyped ==
  ASSUME Typed, NEW p \in Procs, pc[p] # "idle"
  PROVE  /\ mine[p] \in Capture /\ mine[p] # None
         /\ mine[p].sha \in Shas /\ mine[p].type \in Types /\ mine[p].at \in 1..MaxCaptures
         /\ Status(p) \in SourceStatuses /\ New(p) \in Observation /\ New(p) # None
<1>1. mine[p] \in Capture /\ prior[p] \in Shas \cup {None}
  BY DEF Typed, TypeOK
<1>2. mine[p].sha \in Shas /\ mine[p].type \in Types /\ mine[p].at \in 1..MaxCaptures
  BY <1>1 DEF Capture
<1>3. Status(p) \in SourceStatuses
  BY DEF Status, SourceStatuses
<1>4. New(p) \in Observation
  BY <1>1, <1>2, <1>3 DEF New, Observation
<1> QED
  BY <1>1, <1>2, <1>3, <1>4, StatAssumption

LEMMA DownloadTyped == ASSUME Typed, NEW p \in Procs, Download(p) PROVE Typed'
<1>1. now' \in 1..MaxCaptures
  BY StatAssumption DEF Typed, TypeOK, Download
<1>2. PICK t \in Types, s \in Shas :
        \/ UNCHANGED <<pc, mine>>
        \/ /\ mine' = [mine EXCEPT ![p] = [type |-> t, sha |-> s, at |-> now']]
           /\ pc' = [pc EXCEPT ![p] = "prior"]
  BY DEF Download
<1>3. [type |-> t, sha |-> s, at |-> now'] \in Capture
  BY <1>1 DEF Capture
<1> QED
  BY <1>1, <1>2, <1>3 DEF Typed, TypeOK, Download

LEMMA FindPriorTyped == ASSUME Typed, NEW p \in Procs, FindPrior(p) PROVE Typed'
BY DEF Typed, TypeOK, FindPrior, Newest, Known

LEMMA ArchiveTyped == ASSUME Typed, NEW p \in Procs, Archive(p) PROVE Typed'
<1>1. New(p) \in Observation /\ mine[p].sha \in Shas
  BY CaptureTyped DEF Archive
<1>2. meta' \in [Shas -> Observation \cup {None}]
  BY <1>1 DEF Typed, TypeOK, Archive
<1> QED
  BY <1>2 DEF Typed, TypeOK, Archive, Forget

LEMMA DescribeTyped == ASSUME Typed, NEW p \in Procs, Describe(p) PROVE Typed'
<1>1. [type |-> mine[p].type, at |-> mine[p].at, status |-> Status(p)] \in Described
  BY CaptureTyped DEF Describe, DescribeAt, Described
<1>2. report' \in [Shas -> Described \cup {None}]
  BY <1>1 DEF Typed, TypeOK, Describe, DescribeAt
<1> QED
  BY <1>2 DEF Typed, TypeOK, Describe, DescribeAt, Forget

LEMMA CrashTyped == ASSUME Typed, NEW p \in Procs, Crash(p) PROVE Typed'
BY StatAssumption DEF Typed, TypeOK, Crash, Forget

(* The fields of metadata, reports and captures are of their types.        *)
THEOREM TypeInvariant == Spec => []Typed
<1>1. Init => Typed
  BY StatAssumption DEF Init, Typed, TypeOK
<1>2. Typed /\ [Next]_vars => Typed'
  <2>1. SUFFICES ASSUME Typed, [Next]_vars PROVE Typed'
    OBVIOUS
  <2>2. CASE UNCHANGED vars
    BY <2>1, <2>2 DEF Typed, TypeOK, vars
  <2> QED
    BY <2>1, <2>2, DownloadTyped, FindPriorTyped, ArchiveTyped, DescribeTyped, CrashTyped DEF Next
<1> QED
  BY <1>1, <1>2, PTL DEF Spec

-----------------------------------------------------------------------------
(* Metadata stays, so that what is known of a report only grows.           *)
MetaKept == \A s \in Shas : meta[s] # None => meta'[s] = meta[s]
KnownIn(m, t) == {s \in Shas : m[s] # None /\ m[s].type = t}

LEMMA StepKeeps ==
  ASSUME Typed, [Next]_vars
  PROVE  MetaKept /\ \A t : KnownIn(meta, t) \subseteq KnownIn(meta', t)
<1>1. MetaKept
  <2>1. CASE meta' = meta
    BY <2>1 DEF MetaKept
  <2>2. ASSUME NEW p \in Procs, Archive(p), meta' # meta PROVE MetaKept
    BY <2>2 DEF Typed, TypeOK, Archive, MetaKept
  <2> QED
    BY <2>1, <2>2 DEF Next, vars, Download, FindPrior, Describe, DescribeAt, Crash
<1> QED
  BY <1>1 DEF MetaKept, KnownIn

(* Whatever processes do, no metadata is written a second time.            *)
THEOREM Kept == Spec => ObservationsAreKept
<1>1. Typed /\ [Next]_vars => [\A s \in Shas : meta[s] # None => meta'[s] = meta[s]]_vars
  BY StepKeeps DEF MetaKept
<1> QED
  BY <1>1, TypeInvariant, PTL DEF Spec, ObservationsAreKept

-----------------------------------------------------------------------------
(* What a process has found is still there, and what it archived too.      *)
Holds(m, place, capture, found) ==
  /\ place \in {"archive", "report"} /\ found # None => found \in KnownIn(m, capture.type)
  /\ place = "report" => m[capture.sha] # None
Informed == \A p \in Procs : Holds(meta, pc[p], mine[p], prior[p])

LEMMA StepInformed == ASSUME Typed, Informed, [Next]_vars PROVE Informed'
<1>0. MetaKept /\ \A t : KnownIn(meta, t) \subseteq KnownIn(meta', t)
  BY StepKeeps
<1>1. ASSUME NEW p \in Procs PROVE Holds(meta', pc[p], mine[p], prior[p])
  <2>1. pc[p] = "report" => mine[p].sha \in Shas
    BY CaptureTyped
  <2> QED
    BY <1>0, <2>1 DEF Informed, MetaKept, Holds
<1>2. ASSUME NEW p \in Procs, Download(p) \/ FindPrior(p) \/ Archive(p) \/ Describe(p) \/ Crash(p)
      PROVE  Informed'
  <2>1. \A q \in Procs : q # p => mine'[q] = mine[q] /\ prior'[q] = prior[q] /\ pc'[q] = pc[q]
    BY <1>2 DEF Typed, TypeOK, Download, FindPrior, Archive, Describe, DescribeAt, Crash, Forget
  <2>2. Holds(meta', pc'[p], mine'[p], prior'[p])
    <3>1. CASE FindPrior(p)
      <4>1. /\ pc'[p] = "archive" /\ mine' = mine /\ meta' = meta
            /\ prior'[p] = None \/ prior'[p] \in Newest(mine[p].type)
        BY <3>1 DEF FindPrior, Typed, TypeOK
      <4> QED
        BY <4>1 DEF Newest, Known, KnownIn, Holds
    <3>2. CASE Archive(p)
      <4>1. pc[p] = "archive" /\ New(p) # None /\ mine[p].sha \in Shas
        BY <3>2, CaptureTyped DEF Archive
      <4>2. pc'[p] = "idle" \/ (meta'[mine[p].sha] # None /\ mine' = mine /\ prior' = prior)
        BY <3>2, <4>1 DEF Archive, Forget, Typed, TypeOK
      <4> QED
        BY <1>1, <4>1, <4>2 DEF Holds
    <3>3. CASE Describe(p) \/ Crash(p)
      <4>1. pc'[p] = "idle"
        BY <3>3 DEF Describe, DescribeAt, Crash, Forget, Typed, TypeOK
      <4> QED
        BY <4>1 DEF Holds
    <3>4. CASE Download(p)
      <4>1. pc'[p] \in {"idle", "prior"}
        BY <3>4 DEF Download, Typed, TypeOK
      <4> QED
        BY <4>1 DEF Holds
    <3> QED
      BY <1>2, <3>1, <3>2, <3>3, <3>4
  <2> QED
    BY <1>1, <2>1, <2>2 DEF Informed
<1>3. CASE UNCHANGED vars
  BY <1>3 DEF vars, Informed
<1> QED
  BY <1>2, <1>3 DEF Next

(* The evidence of a report: the observation, and an equal or another one. *)
Evidence(m, s, row) ==
  row # None =>
    /\ m[s] # None
    /\ row.status = "UNCHANGED" => s \in KnownIn(m, row.type)
    /\ row.status = "SOURCE_CHANGED" => KnownIn(m, row.type) \ {s} # {}
Evidenced == \A s \in Shas : Evidence(meta, s, report[s])

LEMMA StepReports == ASSUME Typed, Informed, Evidenced, [Next]_vars PROVE Evidenced'
<1>0. MetaKept /\ \A t : KnownIn(meta, t) \subseteq KnownIn(meta', t)
  BY StepKeeps
<1>1. \A s \in Shas : Evidence(meta', s, report[s])
  BY <1>0 DEF Evidenced, Evidence, MetaKept
<1>2. CASE report' = report
  BY <1>1, <1>2 DEF Evidenced
<1>3. ASSUME NEW p \in Procs, Describe(p) PROVE Evidenced'
  <2> DEFINE s == mine[p].sha
  <2> DEFINE row == [type |-> mine[p].type, at |-> mine[p].at, status |-> Status(p)]
  <2>1. pc[p] = "report" /\ s \in Shas /\ meta' = meta /\ report' = [report EXCEPT ![s] = row]
    BY <1>3, CaptureTyped DEF Describe, DescribeAt
  <2>2. report'[s] = row /\ \A r \in Shas \ {s} : report'[r] = report[r]
    BY <2>1 DEF Typed, TypeOK
  <2>3. meta[s] # None /\ (prior[p] # None => prior[p] \in KnownIn(meta, mine[p].type))
    BY <2>1 DEF Informed, Holds
  <2>4. /\ Status(p) = "UNCHANGED" => prior[p] # None /\ prior[p] = s
        /\ Status(p) = "SOURCE_CHANGED" => prior[p] # None /\ prior[p] # s
    BY DEF Status
  <2>5. row.type = mine[p].type /\ row.status = Status(p)
    OBVIOUS
  <2> HIDE DEF row, s
  <2>6. Evidence(meta', s, row)
    BY <2>1, <2>3, <2>4, <2>5 DEF Evidence
  <2> QED
    BY <1>1, <2>2, <2>6 DEF Evidenced
<1> QED
  BY <1>2, <1>3 DEF Next, vars, Download, FindPrior, Archive, Crash

(* A status in a report always has the observation that it speaks of.      *)
THEOREM Reports == Spec => []ReportsHaveEvidence
<1>1. Init => Informed /\ Evidenced
  BY DEF Init, Informed, Evidenced, Holds, Evidence
<1>2. Evidenced => ReportsHaveEvidence
  BY DEF Evidenced, Evidence, KnownIn, ReportsHaveEvidence, Known
<1> QED
  BY <1>1, <1>2, StepInformed, StepReports, TypeInvariant, PTL DEF Spec

-----------------------------------------------------------------------------
(* Each observation names what it differs from, and a first one is behind. *)
Linked(m, s) ==
  m[s] # None =>
    /\ m[s].status = "SOURCE_CHANGED" => m[s].prior \in KnownIn(m, m[s].type) \ {s}
    /\ m[s].status = "FIRST_OBSERVATION" <=> m[s].prior = None
    /\ m[s].status # "UNCHANGED"
    /\ \E r \in KnownIn(m, m[s].type) : m[r].status = "FIRST_OBSERVATION"
Chained == \A s \in Shas : Linked(meta, s)

LEMMA StepChained == ASSUME Typed, Informed, Chained, [Next]_vars PROVE Chained'
<1>0. MetaKept /\ \A t : KnownIn(meta, t) \subseteq KnownIn(meta', t)
  BY StepKeeps
<1>1. ASSUME NEW s \in Shas, meta[s] # None PROVE Linked(meta', s)
  <2>1. meta'[s] = meta[s] /\ Linked(meta, s)
    BY <1>0, <1>1 DEF MetaKept, Chained
  <2>2. \A r \in KnownIn(meta, meta[s].type) : meta'[r] = meta[r] /\ r \in KnownIn(meta', meta[s].type)
    BY <1>0 DEF KnownIn, MetaKept
  <2> QED
    BY <1>0, <1>1, <2>1, <2>2 DEF Linked
<1>2. ASSUME NEW p \in Procs, Archive(p), meta' # meta PROVE Chained'
  <2> DEFINE s == mine[p].sha
  <2> DEFINE t == mine[p].type
  <2>1. pc[p] = "archive" /\ s \in Shas /\ meta[s] = None /\ meta' = [meta EXCEPT ![s] = New(p)]
    BY <1>2, CaptureTyped DEF Archive
  <2>2. meta'[s] = New(p) /\ New(p) # None /\ \A r \in Shas \ {s} : meta'[r] = meta[r]
    BY <2>1, CaptureTyped DEF Typed, TypeOK
  <2>3. New(p).type = t /\ New(p).status = Status(p) /\ New(p).prior = prior[p]
    BY DEF New
  <2>4. prior[p] # None => prior[p] \in KnownIn(meta, t) /\ prior[p] # s
    BY <2>1 DEF Informed, Holds, KnownIn
  <2>5. s \in KnownIn(meta', t)
    BY <2>1, <2>2, <2>3 DEF KnownIn
  <2>6. Linked(meta', s)
    <3>1. CASE prior[p] = None
      <4>1. Status(p) = "FIRST_OBSERVATION"
        BY <3>1 DEF Status
      <4> HIDE DEF s, t
      <4> QED
        BY <2>2, <2>3, <2>5, <3>1, <4>1 DEF Linked
    <3>2. CASE prior[p] # None
      <4>1. Status(p) = "SOURCE_CHANGED"
        BY <2>4, <3>2 DEF Status
      <4>2. prior[p] \in Shas /\ meta[prior[p]] # None /\ meta[prior[p]].type = t
        BY <2>4, <3>2 DEF KnownIn
      <4>3. PICK r \in KnownIn(meta, t) : meta[r].status = "FIRST_OBSERVATION"
        BY <4>2 DEF Chained, Linked
      <4>4. r \in KnownIn(meta', t) /\ meta'[r].status = "FIRST_OBSERVATION"
        BY <1>0, <4>3 DEF KnownIn, MetaKept
      <4>5. prior[p] \in KnownIn(meta', t) \ {s}
        BY <1>0, <2>4, <3>2
      <4> HIDE DEF s, t
      <4> QED
        BY <2>2, <2>3, <3>2, <4>1, <4>4, <4>5 DEF Linked
    <3> QED
      BY <3>1, <3>2
  <2>7. \A r \in Shas \ {s} : Linked(meta', r)
    BY <1>1, <2>2 DEF Linked
  <2> QED
    BY <2>6, <2>7 DEF Chained
<1>3. CASE meta' = meta
  BY <1>3 DEF Chained
<1> QED
  BY <1>2, <1>3 DEF Next, vars, Download, FindPrior, Describe, DescribeAt, Crash

(* Every change names what it differs from, which is there, and some first *)
(* observation is behind it.                                               *)
THEOREM Changes == Spec => []ChangesAreLinked
<1>1. Init => Informed /\ Chained
  BY DEF Init, Informed, Chained, Holds, Linked
<1>2. Chained => ChangesAreLinked
  BY DEF Chained, Linked, KnownIn, ChangesAreLinked, Known
<1> QED
  BY <1>1, <1>2, StepInformed, StepChained, TypeInvariant, PTL DEF Spec

-----------------------------------------------------------------------------
(* Every first observation is of a process of its own, none of which is    *)
(* about to make another one.                                              *)
FirstsOf(m, t) == {s \in KnownIn(m, t) : m[s].status = "FIRST_OBSERVATION"}
Seeks(place, capture, found, t) == place = "archive" /\ found = None /\ capture.type = t
Seekers(place, capture, found, t) == {p \in Procs : Seeks(place[p], capture[p], found[p], t)}
Apart(S, T) == \E f \in Injection(S, Procs) : \A x \in S : f[x] \notin T
Raced == \A t \in Types : Apart(FirstsOf(meta, t), Seekers(pc, mine, prior, t))

LEMMA ApartNone == ASSUME NEW T PROVE Apart({}, T)
<1>1. [x \in {} |-> x] \in Injection({}, Procs)
  BY DEF Injection, IsInjective
<1> QED
  BY <1>1 DEF Apart

LEMMA ApartLess == ASSUME NEW S, NEW T, Apart(S, T), NEW U \in SUBSET T PROVE Apart(S, U)
BY DEF Apart

LEMMA ApartMore ==
  ASSUME NEW S, NEW T \in SUBSET Procs, Apart(S, T), NEW s, s \notin S, NEW p \in T,
         NEW U \in SUBSET (T \ {p})
  PROVE  Apart(S \cup {s}, U)
<1>1. PICK f \in Injection(S, Procs) : \A x \in S : f[x] \notin T
  BY DEF Apart
<1> DEFINE g == [x \in S \cup {s} |-> IF x = s THEN p ELSE f[x]]
<1>2. /\ f \in [S -> Procs] /\ \A x, y \in S : f[x] = f[y] => x = y
  BY <1>1 DEF Injection, IsInjective
<1>3. g \in [S \cup {s} -> Procs]
  BY <1>2
<1>4. ASSUME NEW x \in S \cup {s}, NEW y \in S \cup {s}, g[x] = g[y] PROVE x = y
  BY <1>1, <1>2, <1>4
<1>5. g \in Injection(S \cup {s}, Procs)
  BY <1>3, <1>4 DEF Injection, IsInjective
<1>6. \A x \in S \cup {s} : g[x] \notin U
  BY <1>1
<1> QED
  BY <1>5, <1>6 DEF Apart

LEMMA StepRaced == ASSUME Typed, Raced, [Next]_vars PROVE Raced'
<1>1. SUFFICES ASSUME NEW t \in Types
               PROVE  Apart(FirstsOf(meta', t), Seekers(pc', mine', prior', t))
  BY DEF Raced
<1>2. Apart(FirstsOf(meta, t), Seekers(pc, mine, prior, t))
  BY DEF Raced
<1>3. CASE UNCHANGED vars
  BY <1>2, <1>3 DEF vars
<1>4. ASSUME NEW p \in Procs, Download(p) \/ FindPrior(p) \/ Archive(p) \/ Describe(p) \/ Crash(p)
      PROVE  Apart(FirstsOf(meta', t), Seekers(pc', mine', prior', t))
  <2>1. \A q \in Procs : q # p => mine'[q] = mine[q] /\ prior'[q] = prior[q] /\ pc'[q] = pc[q]
    BY <1>4 DEF Typed, TypeOK, Download, FindPrior, Archive, Describe, DescribeAt, Crash, Forget
  <2>2. CASE FindPrior(p)
    <3>1. meta' = meta /\ mine' = mine
      BY <2>2 DEF FindPrior
    <3>2. prior'[p] # None \/ Known(mine[p].type) = {}
      <4>1. ASSUME NEW s \in Newest(mine[p].type), prior' = [prior EXCEPT ![p] = s]
            PROVE  prior'[p] # None
        BY <4>1, StatAssumption DEF Typed, TypeOK, Newest, Known
      <4> QED
        BY <2>2, <4>1 DEF FindPrior
    <3>3. CASE prior'[p] # None \/ mine[p].type # t
      <4>1. ~Seeks(pc'[p], mine'[p], prior'[p], t)
        BY <3>1, <3>3 DEF Seeks
      <4>2. Seekers(pc', mine', prior', t) \subseteq Seekers(pc, mine, prior, t)
        BY <2>1, <4>1 DEF Seekers
      <4> QED
        BY <1>2, <3>1, <4>2, ApartLess
    <3>4. CASE prior'[p] = None /\ mine[p].type = t
      <4>1. FirstsOf(meta', t) = {}
        BY <3>1, <3>2, <3>4 DEF FirstsOf, KnownIn, Known
      <4> QED
        BY <4>1, ApartNone
    <3> QED
      BY <3>3, <3>4
  <2>3. CASE ~FindPrior(p)
    <3>1. pc'[p] # "archive"
      BY <1>4, <2>3 DEF Typed, TypeOK, Download, Archive, Describe, DescribeAt, Crash, Forget
    <3>2. ~Seeks(pc'[p], mine'[p], prior'[p], t)
      BY <3>1 DEF Seeks
    <3>3. Seekers(pc', mine', prior', t) \subseteq Seekers(pc, mine, prior, t) \ {p}
      BY <2>1, <3>2 DEF Seekers
    <3>4. CASE meta' = meta
      BY <1>2, <3>3, <3>4, ApartLess
    <3>5. CASE meta' # meta
      <4> DEFINE s == mine[p].sha
      <4>1. Archive(p)
        BY <1>4, <3>5 DEF Download, FindPrior, Describe, DescribeAt, Crash
      <4>2. pc[p] = "archive" /\ s \in Shas /\ meta[s] = None /\ meta' = [meta EXCEPT ![s] = New(p)]
        BY <3>5, <4>1, CaptureTyped DEF Archive
      <4>3. meta'[s] = New(p) /\ New(p) # None /\ \A r \in Shas \ {s} : meta'[r] = meta[r]
        BY <4>2, CaptureTyped DEF Typed, TypeOK
      <4>4. New(p).type = mine[p].type /\ New(p).status = Status(p)
        BY DEF New
      <4>5. s \notin FirstsOf(meta, t)
        BY <4>2 DEF FirstsOf, KnownIn
      <4>6. CASE mine[p].type = t /\ Status(p) = "FIRST_OBSERVATION"
        <5>1. p \in Seekers(pc, mine, prior, t)
          BY <4>2, <4>6 DEF Seekers, Seeks, Status
        <5> HIDE DEF s
        <5>2. FirstsOf(meta', t) = FirstsOf(meta, t) \cup {s}
          BY <4>2, <4>3, <4>4, <4>6 DEF FirstsOf, KnownIn
        <5>3. Seekers(pc, mine, prior, t) \in SUBSET Procs
          BY DEF Seekers
        <5> QED
          BY <1>2, <3>3, <4>5, <5>1, <5>2, <5>3, ApartMore
      <4>7. CASE ~(mine[p].type = t /\ Status(p) = "FIRST_OBSERVATION")
        <5> HIDE DEF s
        <5>1. FirstsOf(meta', t) = FirstsOf(meta, t)
          BY <4>2, <4>3, <4>4, <4>7 DEF FirstsOf, KnownIn
        <5> QED
          BY <1>2, <3>3, <5>1, ApartLess
      <4> QED
        BY <4>6, <4>7
    <3> QED
      BY <3>4, <3>5
  <2> QED
    BY <2>2, <2>3
<1> QED
  BY <1>3, <1>4 DEF Next

(* No more first observations of a report than processes that raced.       *)
THEOREM Races == Spec => []FirstsAreRaces
<1>1. Init => Raced
  <2>1. SUFFICES ASSUME Init, NEW t \in Types
                 PROVE  Apart(FirstsOf(meta, t), Seekers(pc, mine, prior, t))
    BY DEF Raced
  <2>2. FirstsOf(meta, t) = {}
    BY <2>1 DEF Init, FirstsOf, KnownIn
  <2> QED
    BY <2>2, ApartNone
<1>2. Raced => FirstsAreRaces
  <2>1. SUFFICES ASSUME Raced, NEW t \in Types PROVE Cardinality(FirstsOf(meta, t)) <= Cardinality(Procs)
    BY DEF FirstsAreRaces, FirstsOf, KnownIn, Known
  <2>2. PICK f \in Injection(FirstsOf(meta, t), Procs) : TRUE
    BY <2>1 DEF Raced, Apart
  <2> QED
    BY <2>2, FS_Injection, StatAssumption
<1> QED
  BY <1>1, <1>2, StepRaced, TypeInvariant, PTL DEF Spec
=============================================================================
