--------------------------- MODULE ArchiveProofs ----------------------------
(***************************************************************************)
(* Safety of the raw archive for any number of processes, payloads,        *)
(* buckets, crashes and damaged files, with any digest prefixes.           *)
(***************************************************************************)
EXTENDS Archive, FiniteSetTheorems, TLAPS

(* The strengthening.  A directory is empty before mkdir, and the process  *)
(* that made it is the only one that writes into it; what a process knows  *)
(* of the file system between two steps stays true until it uses it.       *)
EmptyBeforeMkdir ==
  \A l \in Place : l \notin dirs => file[l] = None /\ link[l] = None /\ meta[l] = None

KnowsRequest(p) == pc[p] # "idle" => req[p] \in Request
KnowsDirectory(p) ==
  /\ pc[p] = "mkdir" => dir[p] \in Place
  /\ Building(p) => dir[p] \in dirs /\ meta[dir[p]] = None
  /\ pc[p] \in {"scan", "store"} => file[dir[p]] = None /\ link[dir[p]] = None
KnowsPayload(p) ==
  /\ pc[p] \in {"idle", "lookup", "mkdir", "scan"} => found[p] = None
  /\ pc[p] \in {"store", "seal"} /\ found[p] # None
       => file[found[p]] \in {req[p].content, Damaged}
  /\ pc[p] = "seal" /\ found[p] = None
       => file[dir[p]] \in {req[p].content, Damaged} /\ link[dir[p]] = None
  /\ pc[p] = "seal" /\ found[p] # None
       => file[dir[p]] = None /\ link[dir[p]] \in {None, found[p]}
KnowsResult(p) == pc[p] = "done" => out[p] \in Returned

IInv ==
  /\ TypeOK /\ EmptyBeforeMkdir /\ ObservationsVerify /\ LinksAreFlat
  /\ OneWriterPerDirectory /\ HandlesAreSound
  /\ \A p \in Procs : KnowsRequest(p) /\ KnowsDirectory(p) /\ KnowsPayload(p) /\ KnowsResult(p)

-----------------------------------------------------------------------------
LEMMA NamedPlaces ==
  ASSUME NEW r \in Request
  PROVE  Home(r) \in Place /\ Isolated(r) \in Place
BY NamesAssumption DEF Request, Place, Home, Isolated

LEMMA Markers == None \notin Contents /\ None \notin Place /\ None \notin Request
                 /\ None \notin Metadata /\ None \notin Returned /\ Damaged \notin Contents /\ Damaged # None
BY MarkersAssumption

(* A request, metadata and a returned handle have typed fields.            *)
LEMMA Fields ==
  /\ \A r \in Request : r.content \in Contents /\ r.stamp \in Stamps
  /\ \A m \in Metadata : m.sha \in Contents /\ m.path \in Place
  /\ \A o \in Returned : o.place \in Place /\ o.path \in Place
BY DEF Request, Metadata, Returned

LEMMA Initially == Init => IInv
BY MarkersAssumption, BoundsAssumption
   DEF Init, IInv, TypeOK, EmptyBeforeMkdir, ObservationsVerify, LinksAreFlat,
       OneWriterPerDirectory, HandlesAreSound, KnowsRequest, KnowsDirectory, KnowsPayload,
       KnowsResult, Building

(* A step that leaves the file system and the other processes alone keeps  *)
(* the invariant if what it leaves in p's own variables is right.          *)
LEMMA LocalStep ==
  ASSUME IInv, TypeOK', NEW p \in Procs, UNCHANGED fs,
         \A q \in Procs \ {p} : /\ pc'[q] = pc[q] /\ req'[q] = req[q] /\ dir'[q] = dir[q]
                                /\ found'[q] = found[q] /\ out'[q] = out[q],
         (KnowsRequest(p) /\ KnowsDirectory(p) /\ KnowsPayload(p) /\ KnowsResult(p))',
         Building(p)' => Building(p) /\ dir'[p] = dir[p],
         pc'[p] = "done" => /\ meta[out'[p].place] # None
                            /\ meta[out'[p].place].sha = req'[p].content
                            /\ BytesAt(out'[p].path) \in {req'[p].content, Damaged}
  PROVE  IInv'
<1>1. EmptyBeforeMkdir' /\ ObservationsVerify' /\ LinksAreFlat'
  BY DEF IInv, EmptyBeforeMkdir, ObservationsVerify, LinksAreFlat, Verifies, BytesAt, Resolve, fs
<1>2. OneWriterPerDirectory'
  BY DEF IInv, OneWriterPerDirectory, Building
<1>3. HandlesAreSound'
  BY DEF IInv, HandlesAreSound, BytesAt, Resolve, fs
<1>4. ASSUME NEW q \in Procs \ {p}
      PROVE  (KnowsRequest(q) /\ KnowsDirectory(q) /\ KnowsPayload(q) /\ KnowsResult(q))'
  BY DEF IInv, KnowsRequest, KnowsDirectory, KnowsPayload, KnowsResult, Building, fs
<1> QED
  BY <1>1, <1>2, <1>3, <1>4 DEF IInv

-----------------------------------------------------------------------------
LEMMA BeginStep == ASSUME IInv, NEW p \in Procs, Begin(p) PROVE IInv'
<1>1. TypeOK'
  BY BoundsAssumption DEF IInv, TypeOK, Begin, fs
<1>2. UNCHANGED fs /\ pc'[p] = "lookup" /\ req'[p] \in Request /\ found'[p] = None
  BY DEF IInv, TypeOK, Begin, KnowsPayload
<1>3. \A q \in Procs \ {p} : /\ pc'[q] = pc[q] /\ req'[q] = req[q] /\ dir'[q] = dir[q]
                             /\ found'[q] = found[q] /\ out'[q] = out[q]
  BY DEF IInv, TypeOK, Begin
<1>4. (KnowsRequest(p) /\ KnowsDirectory(p) /\ KnowsPayload(p) /\ KnowsResult(p))' /\ ~Building(p)'
  BY <1>2 DEF KnowsRequest, KnowsDirectory, KnowsPayload, KnowsResult, Building
<1> QED
  BY <1>1, <1>2, <1>3, <1>4, LocalStep

LEMMA LookupStep == ASSUME IInv, NEW p \in Procs, Lookup(p) PROVE IInv'
<1>1. req[p] \in Request /\ Home(req[p]) \in Place /\ Isolated(req[p]) \in Place
  BY NamedPlaces DEF IInv, KnowsRequest, Lookup
<1>2. UNCHANGED fs /\ req' = req /\ found' = found /\ pc'[p] \in {"done", "mkdir"}
  BY DEF IInv, TypeOK, Lookup, fs
<1>3. \A q \in Procs \ {p} : /\ pc'[q] = pc[q] /\ req'[q] = req[q] /\ dir'[q] = dir[q]
                             /\ found'[q] = found[q] /\ out'[q] = out[q]
  BY DEF IInv, TypeOK, Lookup
<1>4. CASE pc'[p] = "done"
  <2> DEFINE h == Home(req[p])
  <2>1. meta[h] \in Metadata /\ meta[h].sha = req[p].content
    BY <1>1, <1>4 DEF IInv, TypeOK, Lookup
  <2>2. out' = [out EXCEPT ![p] = [place |-> h, path |-> meta[h].path]] /\ dir' = dir
    BY <1>4 DEF IInv, TypeOK, Lookup
  <2>3. out'[p] = [place |-> h, path |-> meta[h].path] /\ out'[p] \in Returned
    BY <1>1, <2>1, <2>2, Fields DEF IInv, TypeOK, Returned
  <2>4. TypeOK'
    BY <1>2, <1>4, <2>2, <2>3 DEF IInv, TypeOK, Lookup, fs
  <2>5. meta[h] # None /\ BytesAt(meta[h].path) \in {req[p].content, Damaged}
    BY <1>1, <2>1, Markers DEF IInv, ObservationsVerify, Verifies
  <2>6. (KnowsRequest(p) /\ KnowsDirectory(p) /\ KnowsPayload(p) /\ KnowsResult(p))' /\ ~Building(p)'
    BY <1>1, <1>2, <1>4, <2>3 DEF KnowsRequest, KnowsDirectory, KnowsPayload, KnowsResult, Building
  <2> QED
    BY <1>2, <1>3, <2>1, <2>3, <2>4, <2>5, <2>6, LocalStep
<1>5. CASE pc'[p] = "mkdir"
  <2>1. dir'[p] \in Place /\ out' = out
    BY <1>1, <1>5 DEF IInv, TypeOK, Lookup
  <2>2. TypeOK'
    BY <1>1, <1>2, <1>5 DEF IInv, TypeOK, Lookup, fs
  <2>3. (KnowsRequest(p) /\ KnowsDirectory(p) /\ KnowsPayload(p) /\ KnowsResult(p))' /\ ~Building(p)'
    BY <1>1, <1>2, <1>5, <2>1
       DEF IInv, KnowsRequest, KnowsDirectory, KnowsPayload, KnowsResult, Building, Lookup
  <2> QED
    BY <1>2, <1>3, <1>5, <2>2, <2>3, LocalStep
<1> QED
  BY <1>2, <1>4, <1>5

LEMMA ScanStep == ASSUME IInv, NEW p \in Procs, Scan(p) PROVE IInv'
<1>1. /\ UNCHANGED fs /\ req' = req /\ dir' = dir /\ out' = out
      /\ pc[p] = "scan" /\ pc'[p] = "store" /\ found[p] = None
  BY DEF IInv, TypeOK, KnowsPayload, Scan, fs
<1>2. \A q \in Procs \ {p} : pc'[q] = pc[q] /\ found'[q] = found[q]
  BY DEF IInv, TypeOK, Scan
<1>3. found'[p] # None => found'[p] \in Place /\ file[found'[p]] = req[p].content
  <2>1. ASSUME NEW l \in Candidates(req[p].content)
        PROVE  /\ Resolve(meta[l].path) \in Place
               /\ file[Resolve(meta[l].path)] = req[p].content
    BY Fields DEF IInv, TypeOK, Candidates, Verifies, BytesAt, Resolve
  <2> QED
    BY <1>1, <2>1 DEF IInv, TypeOK, Scan
<1>4. TypeOK'
  BY <1>1, <1>3 DEF IInv, TypeOK, Scan, fs
<1>5. (KnowsRequest(p) /\ KnowsDirectory(p) /\ KnowsPayload(p) /\ KnowsResult(p))' /\ Building(p)
  BY <1>1, <1>3 DEF IInv, KnowsRequest, KnowsDirectory, KnowsPayload, KnowsResult, Building, fs
<1> QED
  BY <1>1, <1>2, <1>4, <1>5, LocalStep

(* Return and Crash only make a process forget.                            *)
LEMMA ForgetStep == ASSUME IInv, NEW p \in Procs, Return(p) \/ Crash(p) PROVE IInv'
<1>1. UNCHANGED fs /\ pc'[p] = "idle" /\ found'[p] = None
  BY DEF IInv, TypeOK, Return, Crash, Forget, fs
<1>2. \A q \in Procs \ {p} : /\ pc'[q] = pc[q] /\ req'[q] = req[q] /\ dir'[q] = dir[q]
                             /\ found'[q] = found[q] /\ out'[q] = out[q]
  BY DEF IInv, TypeOK, Return, Crash, Forget
<1>3. TypeOK'
  BY BoundsAssumption DEF IInv, TypeOK, Return, Crash, Forget, fs
<1>4. (KnowsRequest(p) /\ KnowsDirectory(p) /\ KnowsPayload(p) /\ KnowsResult(p))' /\ ~Building(p)'
  BY <1>1 DEF KnowsRequest, KnowsDirectory, KnowsPayload, KnowsResult, Building
<1> QED
  BY <1>1, <1>2, <1>3, <1>4, LocalStep

-----------------------------------------------------------------------------
(* The steps that change the file system.                                  *)
LEMMA MakeDirStep == ASSUME IInv, NEW p \in Procs, MakeDir(p) PROVE IInv'
<1>1. /\ UNCHANGED <<file, link, meta, req, dir, found, out>> /\ dirs' = dirs \cup {dir[p]}
      /\ pc[p] = "mkdir" /\ dir[p] \in Place
      /\ \A q \in Procs \ {p} : pc'[q] = pc[q]
      /\ pc'[p] = (IF dir[p] \in dirs THEN "refused" ELSE "scan")
  BY DEF IInv, TypeOK, MakeDir, KnowsDirectory
<1>2. TypeOK'
  BY <1>1 DEF IInv, TypeOK, MakeDir
<1>3. EmptyBeforeMkdir' /\ ObservationsVerify' /\ LinksAreFlat'
  BY <1>1 DEF IInv, EmptyBeforeMkdir, ObservationsVerify, LinksAreFlat, Verifies, BytesAt, Resolve
<1>4. OneWriterPerDirectory'
  BY <1>1 DEF IInv, OneWriterPerDirectory, KnowsDirectory, Building
<1>5. HandlesAreSound'
  BY <1>1 DEF IInv, HandlesAreSound, BytesAt, Resolve
<1>6. ASSUME NEW q \in Procs
      PROVE  (KnowsRequest(q) /\ KnowsDirectory(q) /\ KnowsPayload(q) /\ KnowsResult(q))'
  BY <1>1 DEF IInv, KnowsRequest, KnowsDirectory, KnowsPayload, KnowsResult, Building, EmptyBeforeMkdir
<1> QED
  BY <1>2, <1>3, <1>4, <1>5, <1>6 DEF IInv

LEMMA StoreStep == ASSUME IInv, NEW p \in Procs, Store(p) PROVE IInv'
<1> DEFINE d == dir[p]
<1>1. /\ UNCHANGED <<dirs, meta, req, dir, found, out>>
      /\ pc[p] = "store" /\ pc' = [pc EXCEPT ![p] = "seal"]
      /\ req[p] \in Request /\ d \in Place /\ d \in dirs
      /\ meta[d] = None /\ file[d] = None /\ link[d] = None
  BY DEF IInv, TypeOK, Store, KnowsRequest, KnowsDirectory, Building
<1>2. \A l \in Place \ {d} : file'[l] = file[l] /\ link'[l] = link[l]
  BY <1>1 DEF IInv, TypeOK, Store
<1>3. \/ found[p] = None /\ file'[d] = req[p].content /\ link'[d] = None
      \/ found[p] # None /\ file'[d] = None /\ link'[d] \in {None, found[p]}
  BY <1>1 DEF IInv, TypeOK, Store
<1>4. found[p] # None => file[found[p]] \in {req[p].content, Damaged} /\ found[p] \in Place \ {d}
  BY <1>1, Markers, Fields DEF IInv, TypeOK, KnowsPayload
<1>5. TypeOK'
  <2>1. file' \in [Place -> Contents \cup {None, Damaged}] /\ link' \in [Place -> Place \cup {None}]
    BY <1>1, <1>4, Fields DEF IInv, TypeOK, Store
  <2> QED
    BY <1>1, <2>1 DEF IInv, TypeOK, Store
<1>6. EmptyBeforeMkdir'
  BY <1>1, <1>2 DEF IInv, EmptyBeforeMkdir
<1>7. \A l \in Place : BytesAt(l) # None => Resolve(l)' = Resolve(l) /\ BytesAt(l)' = BytesAt(l)
  BY <1>1, <1>2 DEF IInv, TypeOK, BytesAt, Resolve
<1>8. ObservationsVerify'
  BY <1>1, <1>7, Fields, Markers DEF IInv, TypeOK, ObservationsVerify, Verifies, BytesAt
<1>9. LinksAreFlat'
  <2>1. ASSUME NEW l \in Place, link'[l] # None PROVE file'[link'[l]] # None /\ file'[l] = None
    BY <1>1, <1>2, <1>3, <1>4, <2>1, Fields, Markers DEF IInv, TypeOK, LinksAreFlat
  <2>2. ASSUME NEW l \in Place, meta'[l] # None PROVE file'[Resolve(meta[l].path)'] # None
    BY <1>1, <1>7, <2>2, Fields DEF IInv, TypeOK, LinksAreFlat, BytesAt
  <2> QED
    BY <1>1, <2>1, <2>2 DEF LinksAreFlat, Resolve
<1>10. OneWriterPerDirectory'
  BY <1>1 DEF IInv, TypeOK, OneWriterPerDirectory, Building
<1>11. HandlesAreSound'
  BY <1>1, <1>7, Fields, Markers
     DEF IInv, TypeOK, HandlesAreSound, KnowsRequest, KnowsResult
<1>12. ASSUME NEW q \in Procs
       PROVE  (KnowsRequest(q) /\ KnowsDirectory(q) /\ KnowsPayload(q) /\ KnowsResult(q))'
  <2>1. CASE q = p
    BY <1>1, <1>2, <1>3, <1>4, <2>1
       DEF IInv, TypeOK, KnowsRequest, KnowsDirectory, KnowsPayload, KnowsResult, Building
  <2>2. CASE q # p
    <3>1. pc'[q] = pc[q] /\ (Building(q) => dir[q] \in Place \ {d})
      BY <1>1, <2>2 DEF IInv, TypeOK, OneWriterPerDirectory, Building, KnowsDirectory
    <3>2. pc[q] \in {"store", "seal"} /\ found[q] # None => found[q] \in Place \ {d}
      BY <1>1, Markers, Fields DEF IInv, TypeOK, KnowsPayload, KnowsRequest
    <3> QED
      BY <1>1, <1>2, <3>1, <3>2
         DEF IInv, KnowsRequest, KnowsDirectory, KnowsPayload, KnowsResult, Building
  <2> QED
    BY <2>1, <2>2
<1> QED
  BY <1>5, <1>6, <1>8, <1>9, <1>10, <1>11, <1>12 DEF IInv

LEMMA SealStep == ASSUME IInv, NEW p \in Procs, Seal(p) PROVE IInv'
<1> DEFINE d == dir[p]
           m == [sha |-> req[p].content, at |-> req[p].stamp, path |-> PathOf(p)]
           o == [place |-> d, path |-> PathOf(p)]
<1>1. /\ UNCHANGED <<dirs, file, link, req, dir, found>>
      /\ pc[p] = "seal" /\ pc' = [pc EXCEPT ![p] = "done"]
      /\ meta' = [meta EXCEPT ![d] = m] /\ out' = [out EXCEPT ![p] = o]
      /\ req[p] \in Request /\ d \in Place /\ d \in dirs /\ meta[d] = None
  BY DEF IInv, TypeOK, Seal, SealAt, KnowsRequest, KnowsDirectory, Building
<1>2. PathOf(p) \in Place /\ BytesAt(PathOf(p)) \in {req[p].content, Damaged}
  <2>1. CASE found[p] = None
    BY <1>1, <2>1 DEF IInv, KnowsPayload, PathOf, BytesAt, Resolve
  <2>2. CASE found[p] # None /\ link[d] # None
    BY <1>1, <2>2 DEF IInv, KnowsPayload, PathOf, BytesAt, Resolve
  <2>3. CASE found[p] # None /\ link[d] = None
    <3>1. found[p] \in Place /\ file[found[p]] \in {req[p].content, Damaged}
      BY <1>1, <2>3 DEF IInv, TypeOK, KnowsPayload
    <3>2. link[found[p]] = None
      BY <1>1, <3>1, Fields, Markers DEF IInv, LinksAreFlat
    <3> QED
      BY <2>3, <3>1, <3>2 DEF PathOf, BytesAt, Resolve
  <2> QED
    BY <2>1, <2>2, <2>3
<1>3. m \in Metadata /\ o \in Returned /\ m # None
  BY <1>1, <1>2, Fields, Markers DEF Metadata, Returned
<1>4. TypeOK'
  BY <1>1, <1>3 DEF IInv, TypeOK, Seal, SealAt
<1>5. meta'[d] = m /\ (\A l \in Place \ {d} : meta'[l] = meta[l]) /\ \A l \in Place : BytesAt(l)' = BytesAt(l)
  BY <1>1 DEF IInv, TypeOK, BytesAt, Resolve
<1>6. EmptyBeforeMkdir'
  BY <1>1, <1>5 DEF IInv, EmptyBeforeMkdir
<1>7. ObservationsVerify'
  BY <1>1, <1>2, <1>3, <1>5, Fields DEF IInv, TypeOK, ObservationsVerify, Verifies
<1>8. LinksAreFlat'
  BY <1>1, <1>2, <1>3, <1>5, Fields, Markers DEF IInv, TypeOK, LinksAreFlat, BytesAt, Resolve
<1>9. OneWriterPerDirectory'
  BY <1>1 DEF IInv, TypeOK, OneWriterPerDirectory, Building
<1>10. HandlesAreSound'
  <2>1. ASSUME NEW q \in Procs \ {p}, pc'[q] = "done"
        PROVE  /\ meta'[out'[q].place] # None /\ meta'[out'[q].place].sha = req'[q].content
               /\ BytesAt(out[q].path)' \in {req'[q].content, Damaged}
    <3>1. pc[q] = "done" /\ out'[q] = out[q] /\ req'[q] = req[q] /\ out[q] \in Returned
      BY <1>1, <2>1 DEF IInv, TypeOK, KnowsResult
    <3>2. /\ meta[out[q].place] # None /\ meta[out[q].place].sha = req[q].content
          /\ BytesAt(out[q].path) \in {req[q].content, Damaged}
          /\ out[q].place \in Place \ {d} /\ out[q].path \in Place
      BY <1>1, <3>1, Fields DEF IInv, HandlesAreSound
    <3> QED
      BY <1>1, <1>5, <3>1, <3>2 DEF BytesAt, Resolve
  <2>2. /\ meta'[out'[p].place] # None /\ meta'[out'[p].place].sha = req'[p].content
        /\ BytesAt(out[p].path)' \in {req'[p].content, Damaged}
    <3>1. out'[p] = o /\ req'[p] = req[p] /\ meta'[d] = m
      BY <1>1 DEF IInv, TypeOK
    <3>2. BytesAt(out[p].path)' = BytesAt(PathOf(p))
      BY <1>1, <3>1 DEF BytesAt, Resolve
    <3> QED
      BY <1>2, <1>3, <3>1, <3>2
  <2> QED
    BY <2>1, <2>2 DEF HandlesAreSound
<1>11. ASSUME NEW q \in Procs
       PROVE  (KnowsRequest(q) /\ KnowsDirectory(q) /\ KnowsPayload(q) /\ KnowsResult(q))'
  <2>1. CASE q = p
    BY <1>1, <1>3, <2>1
       DEF IInv, TypeOK, KnowsRequest, KnowsDirectory, KnowsPayload, KnowsResult, Building
  <2>2. CASE q # p
    <3>1. pc'[q] = pc[q] /\ (Building(q) => dir[q] # d)
      BY <1>1, <2>2 DEF IInv, TypeOK, OneWriterPerDirectory, Building
    <3> QED
      BY <1>1, <1>5, <2>2, <3>1
         DEF IInv, TypeOK, KnowsRequest, KnowsDirectory, KnowsPayload, KnowsResult, Building
  <2> QED
    BY <2>1, <2>2
<1> QED
  BY <1>4, <1>6, <1>7, <1>8, <1>9, <1>10, <1>11 DEF IInv

LEMMA DamageStep == ASSUME IInv, NEW l \in Place, Damage(l) PROVE IInv'
<1>1. /\ UNCHANGED <<dirs, link, meta, pc, req, dir, found, out>>
      /\ file[l] \in Contents /\ file' = [file EXCEPT ![l] = Damaged]
  BY DEF Damage, local
<1>2. TypeOK'
  BY <1>1, BoundsAssumption DEF IInv, TypeOK, Damage
<1>3. \A k \in Place : \/ file'[k] = file[k]
                       \/ file[k] \in Contents /\ file'[k] = Damaged
  BY <1>1 DEF IInv, TypeOK
<1>4. \A k \in Place : (file[k] = None <=> file'[k] = None)
  BY <1>3, Markers
<1>5. \A k \in Place : Resolve(k) \in Place /\ Resolve(k)' = Resolve(k)
  BY <1>1 DEF IInv, TypeOK, Resolve
<1>6. EmptyBeforeMkdir' /\ LinksAreFlat'
  BY <1>1, <1>4, <1>5, Fields DEF IInv, TypeOK, EmptyBeforeMkdir, LinksAreFlat
<1>7. ObservationsVerify'
  BY <1>1, <1>3, <1>5, Fields DEF IInv, TypeOK, ObservationsVerify, Verifies, BytesAt
<1>8. HandlesAreSound'
  BY <1>1, <1>3, <1>5, Fields DEF IInv, TypeOK, HandlesAreSound, KnowsResult, BytesAt
<1>9. OneWriterPerDirectory'
  BY <1>1 DEF IInv, OneWriterPerDirectory, Building
<1>10. ASSUME NEW q \in Procs
       PROVE  (KnowsRequest(q) /\ KnowsDirectory(q) /\ KnowsPayload(q) /\ KnowsResult(q))'
  BY <1>1, <1>3, <1>4 DEF IInv, TypeOK, KnowsRequest, KnowsDirectory, KnowsPayload, KnowsResult, Building
<1> QED
  BY <1>2, <1>6, <1>7, <1>8, <1>9, <1>10 DEF IInv

LEMMA StutterStep == ASSUME IInv, UNCHANGED vars PROVE IInv'
BY DEF IInv, TypeOK, EmptyBeforeMkdir, ObservationsVerify, LinksAreFlat, OneWriterPerDirectory,
       HandlesAreSound, KnowsRequest, KnowsDirectory, KnowsPayload, KnowsResult, Building,
       Verifies, BytesAt, Resolve, vars

(* The strengthened invariant is inductive.                                *)
THEOREM Inductive == Spec => []IInv
<1>1. ASSUME IInv, [Next]_vars PROVE IInv'
  BY <1>1, BeginStep, LookupStep, MakeDirStep, ScanStep, StoreStep, SealStep, ForgetStep,
     DamageStep, StutterStep DEF Next
<1> QED
  BY Initially, <1>1, PTL DEF Spec

(* verify_artifact succeeds on every observation with metadata, except     *)
(* where bytes were damaged from outside.                                  *)
THEOREM ArchiveVerifies == Spec => []ObservationsVerify
<1>1. IInv => ObservationsVerify
  BY DEF IInv
<1> QED
  BY Inductive, <1>1, PTL

(* Every handle archive_raw returns opens the caller's bytes.              *)
THEOREM HandlesSound == Spec => []HandlesAreSound
<1>1. IInv => HandlesAreSound
  BY DEF IInv
<1> QED
  BY Inductive, <1>1, PTL

(* mkdir keeps two processes out of one directory.                         *)
THEOREM DirectoriesExclusive == Spec => []OneWriterPerDirectory
<1>1. IInv => OneWriterPerDirectory
  BY DEF IInv
<1> QED
  BY Inductive, <1>1, PTL

(* Symlinks and absolute payload files lead to a regular file in one step. *)
THEOREM LinksFlat == Spec => []LinksAreFlat
<1>1. IInv => LinksAreFlat
  BY DEF IInv
<1> QED
  BY Inductive, <1>1, PTL

(* Types: whatever the processes do, a directory holds at most one payload *)
(* file, link and metadata, and each process is at one step of the call.   *)
THEOREM TypeCorrect == Spec => []TypeOK
<1>1. IInv => TypeOK
  BY DEF IInv
<1> QED
  BY Inductive, <1>1, PTL

-----------------------------------------------------------------------------
(* Nothing that was written is changed, but by damage from outside.        *)
NoOverwrite ==
  \A l \in Place : /\ meta[l] # None => meta'[l] = meta[l]
                   /\ link[l] # None => link'[l] = link[l]
                   /\ file[l] # None => file'[l] \in {file[l], Damaged}

LEMMA NoOverwriteStep == ASSUME IInv, Next PROVE NoOverwrite
<1>1. ASSUME NEW p \in Procs, Store(p) PROVE NoOverwrite
  BY <1>1 DEF IInv, TypeOK, KnowsDirectory, Store, NoOverwrite
<1>2. ASSUME NEW p \in Procs, Seal(p) PROVE NoOverwrite
  BY <1>2 DEF IInv, TypeOK, KnowsDirectory, Building, Seal, SealAt, NoOverwrite
<1>3. ASSUME NEW l \in Place, Damage(l) PROVE NoOverwrite
  BY <1>3 DEF IInv, TypeOK, Damage, NoOverwrite
<1>4. ASSUME NEW p \in Procs,
             Begin(p) \/ Lookup(p) \/ MakeDir(p) \/ Scan(p) \/ Return(p) \/ Crash(p)
      PROVE  NoOverwrite
  BY <1>4 DEF Begin, Lookup, MakeDir, Scan, Return, Crash, fs, NoOverwrite
<1> QED
  BY <1>1, <1>2, <1>3, <1>4 DEF Next

(* Observations are written once and for all.                              *)
THEOREM WriteOnce == Spec => NeverOverwritten
<1>1. IInv /\ [Next]_vars => [NoOverwrite]_vars
  BY NoOverwriteStep
<1>2. [][NoOverwrite]_vars => NeverOverwritten
  BY PTL DEF NoOverwrite, NeverOverwritten
<1> QED
  BY Inductive, <1>1, <1>2, PTL DEF Spec

(* The archive implements the abstract store: sealing records an           *)
(* observation, damage makes those that share the file fail verification,  *)
(* and every other step leaves what is observed alone.                     *)
LEMMA ObservedUnchanged ==
  ASSUME IInv, UNCHANGED meta, \A l \in Place : BytesAt(l) # None => BytesAt(l)' = BytesAt(l)
  PROVE  Observed' = Observed
<1>1. ASSUME NEW l \in Place, meta[l] # None
      PROVE  BytesAt(meta[l].path)' = BytesAt(meta[l].path)
  <2>1. meta[l].path \in Place /\ BytesAt(meta[l].path) # None
    BY <1>1, Fields DEF IInv, TypeOK, LinksAreFlat, BytesAt
  <2> QED
    BY <2>1
<1>2. ASSUME NEW l \in Place PROVE Verifies(l)' = Verifies(l)
  BY <1>1 DEF Verifies, BytesAt, Resolve
<1> QED
  BY <1>2 DEF Observed

LEMMA RecordsOnSeal == ASSUME IInv, NEW p \in Procs, Seal(p) PROVE Promise!Record(dir[p])
<1> DEFINE d == dir[p]
           m == [sha |-> req[p].content, at |-> req[p].stamp, path |-> PathOf(p)]
<1>1. /\ UNCHANGED <<file, link>> /\ d \in Place /\ meta[d] = None
      /\ meta' = [meta EXCEPT ![d] = m] /\ req[p] \in Request
  BY DEF IInv, TypeOK, Seal, SealAt, KnowsRequest, KnowsDirectory, Building
<1>2. Observed[d] = None
  BY <1>1 DEF Observed
<1>3. m # None
  <2>1. PathOf(p) \in Place
    BY <1>1 DEF IInv, TypeOK, PathOf
  <2> QED
    BY <1>1, <2>1, Markers, Fields DEF Metadata
<1>4. Observed'[d] \in Promise!Observation
  <2>1. meta'[d] = m
    BY <1>1 DEF IInv, TypeOK
  <2> QED
    BY <1>1, <1>3, <2>1, Fields DEF Observed, Promise!Observation
<1>5. ASSUME NEW l \in Place \ {d} PROVE Observed'[l] = Observed[l]
  <2>1. meta'[l] = meta[l] /\ (Verifies(l)' <=> Verifies(l))
    BY <1>1 DEF IInv, TypeOK, Verifies, BytesAt, Resolve
  <2> QED
    BY <2>1 DEF Observed
<1>6. Observed' = [Observed EXCEPT ![d] = Observed'[d]]
  <2>1. Observed' = [l \in Place |-> Observed'[l]] /\ Observed = [l \in Place |-> Observed[l]]
    BY DEF Observed
  <2> QED
    BY <1>1, <1>5, <2>1
<1> QED
  BY <1>2, <1>4, <1>6 DEF Promise!Record

LEMMA RotsOnDamage ==
  ASSUME IInv, NEW l \in Place, Damage(l)
  PROVE  \E lost \in SUBSET Place : Promise!Rot(lost)
<1> DEFINE lost == {k \in Place : meta[k] # None /\ Resolve(meta[k].path) = l}
<1>1. UNCHANGED <<link, meta>> /\ file[l] \in Contents /\ file' = [file EXCEPT ![l] = Damaged]
  BY DEF Damage
<1>2. ASSUME NEW k \in Place, meta[k] # None
      PROVE  Observed'[k] = IF k \in lost THEN [Observed[k] EXCEPT !.bytes = "damaged"] ELSE Observed[k]
  <2>1. /\ meta[k].sha \in Contents /\ Resolve(meta[k].path) \in Place
        /\ Resolve(meta[k].path)' = Resolve(meta[k].path)
    BY <1>1, <1>2, Fields DEF IInv, TypeOK, Resolve
  <2>2. CASE k \in lost
    <3>1. ~Verifies(k)'
      BY <1>1, <1>2, <2>1, <2>2, Markers DEF IInv, TypeOK, Verifies, BytesAt
    <3> QED
      BY <1>1, <1>2, <2>2, <3>1 DEF Observed
  <2>3. CASE k \notin lost
    <3>1. Verifies(k)' <=> Verifies(k)
      BY <1>1, <1>2, <2>1, <2>3 DEF IInv, TypeOK, Verifies, BytesAt
    <3> QED
      BY <1>1, <2>3, <3>1 DEF Observed
  <2> QED
    BY <2>2, <2>3
<1>3. ASSUME NEW k \in Place, meta[k] = None PROVE Observed'[k] = Observed[k] /\ k \notin lost
  BY <1>1, <1>3 DEF Observed
<1>4. \A k \in lost : Observed[k] # None
  <2>1. ASSUME NEW k \in lost
        PROVE  Observed[k] \in [sha: Contents, bytes: {"intact", "damaged"}]
    BY Fields DEF Observed, IInv, TypeOK
  <2> QED
    BY <2>1, MarkersAssumption
<1>5. Observed' = [k \in Place |-> IF k \in lost THEN [Observed[k] EXCEPT !.bytes = "damaged"] ELSE Observed[k]]
  BY <1>2, <1>3 DEF Observed
<1> QED
  BY <1>4, <1>5 DEF Promise!Rot

(* The files, links and metadata of archive_raw implement the promise of   *)
(* an immutable store: each step records one observation, loses the bytes  *)
(* of some, or is invisible.                                               *)
THEOREM ImplementsStore == Spec => IsImmutableStore
<1>1. Init => Promise!StoreInit
  BY DEF Init, Observed, Promise!StoreInit
<1>2. ASSUME IInv, [Next]_vars PROVE [Promise!StoreNext]_Observed
  <2>1. ASSUME NEW p \in Procs, Seal(p) PROVE Promise!StoreNext
    <3>1. dir[p] \in Place
      BY <1>2, <2>1 DEF IInv, TypeOK, KnowsDirectory, Building, Seal
    <3> QED
      BY <1>2, <2>1, <3>1, RecordsOnSeal DEF Promise!StoreNext
  <2>2. ASSUME NEW l \in Place, Damage(l) PROVE Promise!StoreNext
    BY <1>2, <2>2, RotsOnDamage DEF Promise!StoreNext
  <2>3. ASSUME NEW p \in Procs, Store(p) PROVE Observed' = Observed
    <3>1. UNCHANGED meta /\ file[dir[p]] = None /\ link[dir[p]] = None
      BY <1>2, <2>3 DEF IInv, Store, KnowsDirectory
    <3>2. \A l \in Place \ {dir[p]} : file'[l] = file[l] /\ link'[l] = link[l]
      BY <1>2, <2>3 DEF IInv, TypeOK, Store
    <3>3. \A l \in Place : BytesAt(l) # None => BytesAt(l)' = BytesAt(l)
      BY <1>2, <3>1, <3>2 DEF IInv, TypeOK, BytesAt, Resolve
    <3> QED
      BY <1>2, <3>1, <3>3, ObservedUnchanged
  <2>4. ASSUME UNCHANGED <<file, link, meta>> PROVE Observed' = Observed
    BY <1>2, <2>4, ObservedUnchanged DEF BytesAt, Resolve
  <2>5. ASSUME NEW p \in Procs,
               Begin(p) \/ Lookup(p) \/ MakeDir(p) \/ Scan(p) \/ Return(p) \/ Crash(p)
        PROVE  UNCHANGED <<file, link, meta>>
    BY <2>5 DEF Begin, Lookup, MakeDir, Scan, Return, Crash, fs
  <2>6. CASE UNCHANGED vars
    BY <2>4, <2>6 DEF vars
  <2> QED
    BY <2>1, <2>2, <2>3, <2>4, <2>5, <2>6, <1>2 DEF Next
<1> QED
  BY Inductive, <1>1, <1>2, PTL DEF Spec, IsImmutableStore, Promise!StoreSpec

-----------------------------------------------------------------------------
(* How many copies of a payload there can be.  A directory without         *)
(* metadata that no process is building was left by a crash.  A process    *)
(* that is about to write a copy found none that verifies, so that every   *)
(* copy there was lay in such a directory or in one being built.           *)
Orphans == {l \in dirs : meta[l] = None /\ \A p \in Procs : Building(p) => dir[p] # l}
Armed(c)  == {p \in Procs : pc[p] = "store" /\ found[p] = None /\ req[p].content = c}
Filled(c) == {p \in Procs : pc[p] = "seal" /\ found[p] = None /\ req[p].content = c}
OwnBytes == \A l \in Place : meta[l] # None /\ file[l] # None => meta[l].path = l
Tally ==
  /\ IsFiniteSet(dirs)
  /\ OwnBytes
  /\ Cardinality(Orphans) <= crashes
  /\ \A c \in Contents :
       Cardinality(Copies(c)) + Cardinality(Armed(c)) <= Cardinality(Procs) + crashes

(* Everything that is counted is finite.                                   *)
LEMMA Countable ==
  ASSUME IInv, Tally
  PROVE  /\ IsFiniteSet(Orphans) /\ Cardinality(Orphans) \in Nat /\ crashes \in Nat
         /\ IsFiniteSet(Procs) /\ Cardinality(Procs) \in Nat
         /\ \A c \in Contents : /\ IsFiniteSet(Copies(c)) /\ Cardinality(Copies(c)) \in Nat
                                /\ IsFiniteSet(Armed(c)) /\ Cardinality(Armed(c)) \in Nat
                                /\ IsFiniteSet(Filled(c)) /\ Cardinality(Filled(c)) \in Nat
<1>1. IsFiniteSet(Procs) /\ IsFiniteSet(dirs) /\ crashes \in Nat
  BY ProcsAssumption, BoundsAssumption DEF Tally, IInv, TypeOK
<1>2. Orphans \subseteq dirs
  BY DEF Orphans
<1>3. ASSUME NEW c \in Contents PROVE Copies(c) \subseteq dirs /\ Armed(c) \subseteq Procs /\ Filled(c) \subseteq Procs
  BY Markers DEF Copies, Armed, Filled, IInv, EmptyBeforeMkdir
<1> QED
  BY <1>1, <1>2, <1>3, FS_Subset, FS_CardinalityType

(* Steps that leave no more to count than there was.                       *)
LEMMA NoMore ==
  ASSUME IInv, Tally, IsFiniteSet(dirs'), OwnBytes', Orphans' \subseteq Orphans,
         \A c \in Contents : Copies(c)' \subseteq Copies(c) /\ Armed(c)' \subseteq Armed(c),
         crashes' = crashes
  PROVE  Tally'
<1>1. Cardinality(Orphans') <= crashes
  <2>1. Cardinality(Orphans') \in Nat /\ Cardinality(Orphans') <= Cardinality(Orphans)
    BY Countable, FS_Subset, FS_CardinalityType
  <2> QED
    BY <2>1, Countable DEF Tally
<1>2. ASSUME NEW c \in Contents
      PROVE  Cardinality(Copies(c)') + Cardinality(Armed(c)') <= Cardinality(Procs) + crashes
  <2>1. /\ Cardinality(Copies(c)') \in Nat /\ Cardinality(Copies(c)') <= Cardinality(Copies(c))
        /\ Cardinality(Armed(c)') \in Nat /\ Cardinality(Armed(c)') <= Cardinality(Armed(c))
    BY Countable, FS_Subset, FS_CardinalityType
  <2> QED
    BY <2>1, Countable DEF Tally
<1> QED
  BY <1>1, <1>2 DEF Tally

LEMMA QuietTally ==
  ASSUME IInv, Tally, NEW p \in Procs, Begin(p) \/ Lookup(p) \/ Return(p)
  PROVE  Tally'
<1>1. /\ UNCHANGED <<dirs, file, link, meta, crashes>>
      /\ \A q \in Procs \ {p} : /\ pc'[q] = pc[q] /\ req'[q] = req[q] /\ dir'[q] = dir[q]
                                /\ found'[q] = found[q]
      /\ pc[p] \notin {"scan", "store", "seal"} /\ pc'[p] \notin {"scan", "store", "seal"}
  BY DEF IInv, TypeOK, Begin, Lookup, Return, Forget, fs
<1>2. \A q \in Procs : (Building(q)' <=> Building(q)) /\ (Building(q) => dir'[q] = dir[q])
  BY <1>1 DEF Building
<1>3. OwnBytes' /\ Orphans' \subseteq Orphans
  BY <1>1, <1>2 DEF Tally, OwnBytes, Orphans
<1>4. \A c \in Contents : Copies(c)' \subseteq Copies(c) /\ Armed(c)' \subseteq Armed(c)
  BY <1>1 DEF Copies, Armed
<1> QED
  BY <1>1, <1>3, <1>4, NoMore DEF Tally

LEMMA MakeDirTally == ASSUME IInv, Tally, NEW p \in Procs, MakeDir(p) PROVE Tally'
<1>1. /\ UNCHANGED <<file, link, meta, req, dir, found, crashes>> /\ dirs' = dirs \cup {dir[p]}
      /\ pc[p] = "mkdir" /\ \A q \in Procs \ {p} : pc'[q] = pc[q]
      /\ pc'[p] = (IF dir[p] \in dirs THEN "refused" ELSE "scan")
  BY DEF IInv, TypeOK, MakeDir
<1>2. IsFiniteSet(dirs')
  BY <1>1, FS_AddElement DEF Tally
<1>3. \A q \in Procs : Building(q) => Building(q)'
  BY <1>1 DEF Building
<1>4. dir[p] \notin dirs => Building(p)' /\ dir'[p] = dir[p]
  BY <1>1 DEF Building
<1>5. OwnBytes' /\ Orphans' \subseteq Orphans
  BY <1>1, <1>3, <1>4 DEF Tally, OwnBytes, Orphans
<1>6. \A c \in Contents : Copies(c)' \subseteq Copies(c) /\ Armed(c)' \subseteq Armed(c)
  BY <1>1 DEF Copies, Armed
<1> QED
  BY <1>1, <1>2, <1>5, <1>6, NoMore

(* The heart of it: a scan that found nothing.                             *)
LEMMA NoneVerifies ==
  ASSUME IInv, Tally, NEW c \in Contents, Candidates(c) = {}
  PROVE  Cardinality(Copies(c)) <= Cardinality(Filled(c)) + crashes
<1> DEFINE Fill == Filled(c)
           At   == {dir[q] : q \in Fill}
           f    == [q \in Fill |-> dir[q]]
<1>1. IsFiniteSet(Fill)
  BY Countable
<1>2. f \in Surjection(Fill, At)
  BY DEF Surjection
<1>3. IsFiniteSet(At) /\ Cardinality(At) <= Cardinality(Fill)
  BY <1>1, <1>2, FS_Surjection
<1>4. ASSUME NEW l \in Copies(c) PROVE l \in Orphans \/ l \in At
  <2>1. l \in Place /\ file[l] = c /\ c # None /\ c # Damaged /\ link[l] = None /\ l \in dirs
    BY Markers DEF Copies, IInv, EmptyBeforeMkdir, LinksAreFlat
  <2>2. meta[l] = None
    <3>1. SUFFICES ASSUME meta[l] # None PROVE FALSE
      OBVIOUS
    <3>2. meta[l].path = l
      BY <2>1, <3>1 DEF Tally, OwnBytes
    <3>3. BytesAt(l) = c
      BY <2>1 DEF BytesAt, Resolve
    <3>4. Verifies(l) /\ meta[l].sha = c
      BY <2>1, <3>1, <3>2, <3>3 DEF IInv, ObservationsVerify, Verifies
    <3> QED
      BY <2>1, <3>4 DEF Candidates
  <2>3. ASSUME NEW q \in Procs, Building(q), dir[q] = l PROVE q \in Fill
    <3>1. pc[q] = "seal" /\ found[q] = None
      BY <2>1, <2>3, Markers DEF IInv, KnowsDirectory, KnowsPayload, Building
    <3>2. req[q].content = c
      BY <2>1, <2>3, <3>1 DEF IInv, KnowsPayload
    <3> QED
      BY <3>1, <3>2 DEF Filled
  <2> QED
    BY <2>1, <2>2, <2>3 DEF Orphans
<1>5. Copies(c) \subseteq Orphans \cup At
  BY <1>4
<1> HIDE DEF Fill, At, f
<1>6. /\ IsFiniteSet(Orphans \cup At)
      /\ Cardinality(Orphans \cup At) = Cardinality(Orphans) + Cardinality(At) - Cardinality(Orphans \cap At)
  BY <1>3, Countable, FS_Union
<1>7. Cardinality(Orphans \cap At) \in Nat /\ Cardinality(At) \in Nat /\ Cardinality(Fill) \in Nat
  BY <1>1, <1>3, FS_Intersection, FS_CardinalityType
<1>8. Cardinality(Copies(c)) <= Cardinality(Orphans \cup At)
  BY <1>5, <1>6, FS_Subset
<1>9. Cardinality(Copies(c)) <= Cardinality(Orphans) + Cardinality(Fill)
  BY <1>3, <1>6, <1>7, <1>8, Countable
<1>10. Cardinality(Orphans) <= crashes
  BY DEF Tally
<1> QED
  BY <1>7, <1>9, <1>10, Countable DEF Fill

LEMMA ScanTally == ASSUME IInv, Tally, NEW p \in Procs, Scan(p) PROVE Tally'
<1> DEFINE b == req[p].content
<1>1. /\ UNCHANGED <<dirs, file, link, meta, req, dir, crashes>>
      /\ pc[p] = "scan" /\ pc'[p] = "store" /\ found[p] = None
      /\ \A q \in Procs \ {p} : pc'[q] = pc[q] /\ found'[q] = found[q]
  BY DEF IInv, TypeOK, KnowsPayload, Scan, fs
<1>2. \A q \in Procs : Building(q)' <=> Building(q)
  BY <1>1 DEF Building
<1>3. OwnBytes' /\ Orphans' \subseteq Orphans
  BY <1>1, <1>2 DEF Tally, OwnBytes, Orphans
<1>4. \A c \in Contents : Copies(c)' = Copies(c)
  BY <1>1 DEF Copies
<1>5. ASSUME NEW c \in Contents, found'[p] # None \/ c # b PROVE Armed(c)' \subseteq Armed(c)
  BY <1>1, <1>5 DEF Armed
<1>6. CASE found'[p] # None
  BY <1>1, <1>3, <1>4, <1>5, <1>6, NoMore DEF Tally
<1>7. CASE found'[p] = None
  <2>1. Candidates(b) = {}
    <3>1. SUFFICES ASSUME Candidates(b) # {} PROVE FALSE
      OBVIOUS
    <3>2. PICK l \in Candidates(b) : found' = [found EXCEPT ![p] = Resolve(meta[l].path)]
      BY <3>1 DEF Scan
    <3>3. Resolve(meta[l].path) \in Place
      BY Fields DEF IInv, TypeOK, Candidates, Verifies, Resolve
    <3>4. found'[p] = Resolve(meta[l].path)
      BY <3>2 DEF IInv, TypeOK
    <3> QED
      BY <1>7, <3>3, <3>4, Markers
  <2>2. b \in Contents
    BY <1>1, Fields DEF IInv, KnowsRequest
  <2>3. Cardinality(Copies(b)) <= Cardinality(Filled(b)) + crashes
    BY <2>1, <2>2, NoneVerifies
  <2>4. Armed(b)' \subseteq Procs /\ Filled(b) \subseteq Procs /\ Armed(b)' \cap Filled(b) = {}
    BY <1>1 DEF Armed, Filled
  <2>5. /\ IsFiniteSet(Armed(b)') /\ Cardinality(Armed(b)') \in Nat
        /\ IsFiniteSet(Filled(b)) /\ Cardinality(Filled(b)) \in Nat
    BY <2>2, <2>4, Countable, FS_Subset, FS_CardinalityType
  <2>6. /\ IsFiniteSet(Armed(b)' \cup Filled(b))
        /\ Cardinality(Armed(b)' \cup Filled(b)) = Cardinality(Armed(b)') + Cardinality(Filled(b)) - Cardinality(Armed(b)' \cap Filled(b))
    BY <2>5, FS_Union
  <2>7. Cardinality(Armed(b)' \cup Filled(b)) <= Cardinality(Procs)
    BY <2>4, Countable, FS_Subset
  <2>8. Cardinality(Armed(b)') + Cardinality(Filled(b)) <= Cardinality(Procs)
    <3>1. Cardinality(Armed(b)' \cap Filled(b)) = 0
      BY <2>4, FS_EmptySet
    <3> QED
      BY <2>5, <2>6, <2>7, <3>1, Countable
  <2>9. Cardinality(Copies(b)') + Cardinality(Armed(b)') <= Cardinality(Procs) + crashes
    <3>1. Copies(b)' = Copies(b) /\ Cardinality(Copies(b)) \in Nat
      BY <1>1, <1>4, <2>2, Countable
    <3> QED
      BY <2>3, <2>5, <2>8, <3>1, Countable
  <2>10. ASSUME NEW c \in Contents, c # b
         PROVE  Cardinality(Copies(c)') + Cardinality(Armed(c)') <= Cardinality(Procs) + crashes
    <3>1. Cardinality(Armed(c)') \in Nat /\ Cardinality(Armed(c)') <= Cardinality(Armed(c))
      BY <1>5, <2>10, Countable, FS_Subset, FS_CardinalityType
    <3> QED
      BY <1>4, <3>1, Countable DEF Tally
  <2>11. IsFiniteSet(Orphans) /\ Cardinality(Orphans') <= crashes
    <3>1. Cardinality(Orphans') \in Nat /\ Cardinality(Orphans') <= Cardinality(Orphans)
      BY <1>3, Countable, FS_Subset, FS_CardinalityType
    <3> QED
      BY <3>1, Countable DEF Tally
  <2> QED
    BY <1>1, <1>3, <2>9, <2>10, <2>11 DEF Tally
<1> QED
  BY <1>6, <1>7

(* A copy written is one process less that is about to write one.          *)
LEMMA StoreTally == ASSUME IInv, Tally, NEW p \in Procs, Store(p) PROVE Tally'
<1> DEFINE b == req[p].content
           d == dir[p]
<1>1. /\ UNCHANGED <<dirs, meta, req, dir, found, crashes>>
      /\ pc[p] = "store" /\ pc'[p] = "seal" /\ \A q \in Procs \ {p} : pc'[q] = pc[q]
      /\ b \in Contents /\ d \in Place /\ meta[d] = None /\ file[d] = None
  BY Fields DEF IInv, TypeOK, Store, KnowsRequest, KnowsDirectory, Building
<1>2. \A l \in Place \ {d} : file'[l] = file[l]
  BY <1>1 DEF IInv, TypeOK, Store
<1>3. \A q \in Procs : Building(q)' <=> Building(q)
  BY <1>1 DEF Building
<1>4. OwnBytes' /\ Orphans' \subseteq Orphans
  BY <1>1, <1>2, <1>3 DEF Tally, OwnBytes, Orphans
<1>5. CASE found[p] # None
  <2>1. file' = file
    BY <1>5 DEF Store
  <2>2. \A c \in Contents : Copies(c)' \subseteq Copies(c) /\ Armed(c)' \subseteq Armed(c)
    BY <1>1, <2>1 DEF Copies, Armed
  <2> QED
    BY <1>1, <1>4, <2>2, NoMore DEF Tally
<1>6. CASE found[p] = None
  <2>1. file'[d] = b
    BY <1>1, <1>6 DEF IInv, TypeOK, Store
  <2>2. Copies(b)' = Copies(b) \cup {d} /\ d \notin Copies(b)
    BY <1>1, <1>2, <2>1, Markers DEF Copies
  <2>3. Armed(b)' = Armed(b) \ {p} /\ p \in Armed(b)
    BY <1>1, <1>6 DEF Armed
  <2>4. /\ Cardinality(Copies(b)') = Cardinality(Copies(b)) + 1
        /\ Cardinality(Armed(b)') = Cardinality(Armed(b)) - 1
    <3>1. IsFiniteSet(Copies(b)) /\ IsFiniteSet(Armed(b))
      BY <1>1, Countable
    <3>2. Cardinality(Copies(b) \cup {d}) = Cardinality(Copies(b)) + 1
      BY <2>2, <3>1, FS_AddElement
    <3>3. Cardinality(Armed(b) \ {p}) = Cardinality(Armed(b)) - 1
      BY <2>3, <3>1, FS_RemoveElement
    <3> QED
      BY <2>2, <2>3, <3>2, <3>3
  <2>5. Cardinality(Copies(b)') + Cardinality(Armed(b)') <= Cardinality(Procs) + crashes
    BY <1>1, <2>4, Countable DEF Tally
  <2>6. ASSUME NEW c \in Contents \ {b} PROVE Copies(c)' = Copies(c) /\ Armed(c)' = Armed(c)
    <3>1. Copies(c)' = Copies(c)
      BY <1>1, <1>2, <2>1, Markers DEF Copies
    <3>2. Armed(c)' = Armed(c)
      BY <1>1 DEF Armed
    <3> QED
      BY <3>1, <3>2
  <2>7. Cardinality(Orphans') <= crashes
    <3>1. Cardinality(Orphans') \in Nat /\ Cardinality(Orphans') <= Cardinality(Orphans)
      BY <1>4, Countable, FS_Subset, FS_CardinalityType
    <3> QED
      BY <3>1, Countable DEF Tally
  <2> QED
    BY <1>1, <1>4, <2>5, <2>6, <2>7 DEF Tally
<1> QED
  BY <1>5, <1>6

LEMMA SealTally == ASSUME IInv, Tally, NEW p \in Procs, Seal(p) PROVE Tally'
<1> DEFINE d == dir[p]
           m == [sha |-> req[p].content, at |-> req[p].stamp, path |-> PathOf(p)]
<1>1. /\ UNCHANGED <<dirs, file, link, req, dir, found, crashes>>
      /\ pc[p] = "seal" /\ pc'[p] = "done" /\ \A q \in Procs \ {p} : pc'[q] = pc[q]
      /\ meta' = [meta EXCEPT ![d] = m] /\ d \in Place /\ req[p] \in Request
  BY DEF IInv, TypeOK, Seal, SealAt, KnowsRequest, KnowsDirectory, Building
<1>2. meta'[d] = m /\ \A l \in Place \ {d} : meta'[l] = meta[l]
  BY <1>1 DEF IInv, TypeOK
<1>3. m.path = d \/ file[d] = None
  BY <1>1 DEF IInv, KnowsPayload, PathOf
<1>4. OwnBytes'
  BY <1>1, <1>2, <1>3 DEF Tally, OwnBytes
<1>5. m \in Metadata
  <2>1. PathOf(p) \in Place
    BY <1>1 DEF IInv, TypeOK, PathOf
  <2> QED
    BY <1>1, <2>1, Fields DEF Metadata
<1>6. ASSUME NEW l \in Orphans' PROVE l \in Orphans
  <2>1. l \in dirs /\ l # d /\ meta[l] = None
    BY <1>1, <1>2, <1>5, Markers DEF Orphans, IInv, TypeOK
  <2>2. \A q \in Procs \ {p} : Building(q) => Building(q)' /\ dir'[q] = dir[q]
    BY <1>1 DEF Building
  <2> QED
    BY <1>1, <2>1, <2>2 DEF Orphans
<1>7. \A c \in Contents : Copies(c)' \subseteq Copies(c) /\ Armed(c)' \subseteq Armed(c)
  BY <1>1 DEF Copies, Armed
<1> QED
  BY <1>1, <1>4, <1>6, <1>7, NoMore DEF Tally

(* A crash leaves at most one more directory behind.                       *)
LEMMA CrashTally == ASSUME IInv, Tally, NEW p \in Procs, Crash(p) PROVE Tally'
<1>1. /\ UNCHANGED <<dirs, file, link, meta>> /\ crashes' = crashes + 1 /\ pc'[p] = "idle"
      /\ \A q \in Procs \ {p} : /\ pc'[q] = pc[q] /\ req'[q] = req[q] /\ dir'[q] = dir[q]
                                /\ found'[q] = found[q]
  BY DEF IInv, TypeOK, Crash, Forget, fs
<1>2. \A q \in Procs \ {p} : (Building(q)' <=> Building(q))
  BY <1>1 DEF Building
<1>3. OwnBytes' /\ Orphans' \subseteq Orphans \cup {dir[p]}
  BY <1>1, <1>2 DEF Tally, OwnBytes, Orphans
<1>4. Cardinality(Orphans') <= crashes'
  <2>1. /\ IsFiniteSet(Orphans \cup {dir[p]}) /\ Cardinality(Orphans \cup {dir[p]}) \in Nat
        /\ Cardinality(Orphans \cup {dir[p]}) <= Cardinality(Orphans) + 1
    <3>1. /\ IsFiniteSet(Orphans \cup {dir[p]})
          /\ \/ Cardinality(Orphans \cup {dir[p]}) = Cardinality(Orphans)
             \/ Cardinality(Orphans \cup {dir[p]}) = Cardinality(Orphans) + 1
      BY Countable, FS_AddElement
    <3> QED
      BY <3>1, Countable
  <2>2. Cardinality(Orphans') \in Nat /\ Cardinality(Orphans') <= Cardinality(Orphans \cup {dir[p]})
    BY <1>3, <2>1, FS_Subset, FS_CardinalityType
  <2> QED
    BY <1>1, <2>1, <2>2, Countable DEF Tally
<1>5. ASSUME NEW c \in Contents
      PROVE  Cardinality(Copies(c)') + Cardinality(Armed(c)') <= Cardinality(Procs) + crashes'
  <2>1. Copies(c)' = Copies(c) /\ Armed(c)' \subseteq Armed(c)
    BY <1>1 DEF Copies, Armed
  <2>2. Cardinality(Armed(c)') \in Nat /\ Cardinality(Armed(c)') <= Cardinality(Armed(c))
    BY <2>1, Countable, FS_Subset, FS_CardinalityType
  <2> QED
    BY <1>1, <2>1, <2>2, Countable DEF Tally
<1> QED
  BY <1>1, <1>3, <1>4, <1>5 DEF Tally

LEMMA DamageTally == ASSUME IInv, Tally, NEW l \in Place, Damage(l) PROVE Tally'
<1>1. /\ UNCHANGED <<dirs, link, meta, pc, req, dir, found, crashes>>
      /\ file[l] \in Contents /\ file' = [file EXCEPT ![l] = Damaged]
  BY DEF Damage, local
<1>2. \A k \in Place : \/ file'[k] = file[k]
                       \/ file[k] # None /\ file'[k] = Damaged
  <2>1. file[l] # None
    BY <1>1, Markers
  <2> QED
    BY <1>1, <2>1 DEF IInv, TypeOK
<1>3. OwnBytes' /\ Orphans' \subseteq Orphans
  BY <1>1, <1>2 DEF Tally, OwnBytes, Orphans, Building
<1>4. \A c \in Contents : Copies(c)' \subseteq Copies(c) /\ Armed(c)' \subseteq Armed(c)
  BY <1>1, <1>2, Markers DEF Copies, Armed
<1> QED
  BY <1>1, <1>3, <1>4, NoMore DEF Tally

LEMMA InitTally == Init => Tally
<1> SUFFICES ASSUME Init PROVE Tally
  OBVIOUS
<1>1. Orphans = {} /\ crashes = 0 /\ IsFiniteSet(dirs) /\ OwnBytes
  BY FS_EmptySet DEF Init, Orphans, OwnBytes
<1>2. ASSUME NEW c \in Contents PROVE Copies(c) = {} /\ Armed(c) = {}
  BY Markers DEF Init, Copies, Armed
<1>3. Cardinality({}) = 0 /\ Cardinality(Procs) \in Nat
  BY ProcsAssumption, FS_EmptySet, FS_CardinalityType
<1> QED
  BY <1>1, <1>2, <1>3 DEF Tally

(* Content that was seen is stored again only where processes race or one  *)
(* of them died: the number of intact copies never exceeds the number of   *)
(* processes and crashes.                                                  *)
THEOREM CopiesBounded == Spec => []CopiesAreBounded
<1>1. ASSUME IInv, Tally, UNCHANGED vars PROVE Tally'
  <2>1. OwnBytes' /\ Orphans' = Orphans /\ \A c \in Contents : Copies(c)' = Copies(c) /\ Armed(c)' = Armed(c)
    BY <1>1 DEF vars, Tally, OwnBytes, Orphans, Copies, Armed, Building
  <2> QED
    BY <1>1, <2>1 DEF Tally, vars
<1>2. IInv /\ Tally /\ [Next]_vars => Tally'
  BY <1>1, QuietTally, MakeDirTally, ScanTally, StoreTally, SealTally, CrashTally, DamageTally DEF Next
<1>3. IInv /\ Tally => CopiesAreBounded
  <2> SUFFICES ASSUME IInv, Tally, NEW c \in Contents
               PROVE  Cardinality(Copies(c)) <= Cardinality(Procs) + crashes
    BY DEF CopiesAreBounded
  <2> QED
    BY Countable DEF Tally
<1> QED
  BY Inductive, InitTally, <1>2, <1>3, PTL DEF Spec
=============================================================================
