-------------------------- MODULE LiveCanaryProofs --------------------------
(***************************************************************************)
(* The canary for any configuration, servers that answer anything, and a   *)
(* process that dies anywhere: what its run rows say, what it persists.    *)
(***************************************************************************)
EXTENDS LiveCanary, GuardedHttpProofs

Hard   == NetworkErrors \cup {"refused"}
Row    == [status: {"RUNNING", "SUCCESS", "PARTIAL", "FAILED"}, saved: SUBSET Pages]
Stages == {"off", "urls", "call", "page", "close", "abort"}

(* Types, the row of a run that persists, and which outcomes of the client *)
(* a stage may see.                                                        *)
Shape ==
  /\ mode \in {"capture", "persist"} /\ stage \in Stages
  /\ index \in 0..Len(Config) /\ stopped \in BOOLEAN /\ tx \subseteq Pages
Rows ==
  /\ runs \in Seq(Row)
  /\ mode = "persist" /\ stage # "off" => runs # <<>>
Seen ==
  /\ Busy => stage = "call"
  /\ stage = "page" => outcome \in Responses
  /\ stage = "urls" => outcome \in Responses \cup {"none"}
  /\ stage \in {"call", "page"} => index \in Pages
Placed == Typed /\ Shape /\ Rows /\ Seen

LEMMA Configured ==
  /\ Len(Config) \in Nat /\ \A i \in Pages : Config[i] \in Urls
  /\ MaxRequests \in Nat
<1>1. Config \in Seq(Allowed) /\ Allowed \subseteq Urls /\ MaxRequests \in Nat
  BY ConfigAssumption, HttpAssumption
<1>2. \A i \in 1..Len(Config) : Config[i] \in Allowed
  BY <1>1, ElementOfSeq
<1> QED
  BY <1>1, <1>2, LenProperties DEF Pages

LEMMA RunsTyped ==
  ASSUME NEW r \in Seq(Row), NEW row \in Row
  PROVE  /\ Append(r, row) \in Seq(Row) /\ Append(r, row) # <<>>
         /\ [r EXCEPT ![Len(r)] = row] \in Seq(Row) \/ r = <<>>
<1>1. Append(r, row) \in Seq(Row) /\ Append(r, row) # <<>>
  BY AppendProperties
<1>2. ASSUME r # <<>> PROVE [r EXCEPT ![Len(r)] = row] \in Seq(Row)
  <2>1. Len(r) \in Nat \ {0}
    BY <1>2, EmptySeq
  <2>2. Len(r) \in 1..Len(r)
    BY <2>1
  <2> QED
    BY <2>2, ExceptSeq
<1> QED
  BY <1>1, <1>2

LEMMA ClientStep == ASSUME Typed, NextHttp PROVE Typed'
<1>1. [NextHttp]_http
  OBVIOUS
<1> QED
  BY <1>1, StepTyped
LEMMA ClientRests == ASSUME Typed, UNCHANGED http PROVE Typed'
<1>1. [NextHttp]_http
  OBVIOUS
<1> QED
  BY <1>1, StepTyped
LEMMA ClientDrops ==
  ASSUME Typed, phase' = "idle", UNCHANGED <<made, current, counters, status, outcome, tried>>
  PROVE  Typed'
BY DEF Typed, Busy, counters

(* A launch, and what the loop calls the client for.                       *)
LEMMA LaunchPlaced == ASSUME Placed, NEW m \in {"capture", "persist"}, Launch(m) PROVE Placed'
<1>1. phase = "idle" /\ phase' = "idle" /\ <<>> \in Seq(Urls)
  BY EmptySeq DEF Placed, Seen, Busy, Launch
<1>2. Typed'
  <2>1. /\ UNCHANGED <<current, hops, errors, timeouts, status>>
        /\ made' = 0 /\ outcome' = "none" /\ tried' = <<>>
    BY DEF Launch, counters
  <2>2. made' \in 0..MaxRequests /\ outcome' \in Outcomes
    BY <2>1, Configured DEF Outcomes
  <2>3. ~Busy' /\ phase' \in {"idle", "consume", "sent", "body"}
    BY <1>1 DEF Busy
  <2> QED
    BY <1>1, <2>1, <2>2, <2>3 DEF Placed, Typed
<1>3. Rows'
  <2>1. [status |-> "RUNNING", saved |-> {}] \in Row
    BY DEF Row
  <2>2. runs' \in Seq(Row) /\ (m = "persist" => runs' # <<>>)
    BY <2>1, RunsTyped DEF Placed, Rows, Launch
  <2> QED
    BY <2>2 DEF Rows, Launch
<1>4. Shape'
  <2>1. /\ mode' \in {"capture", "persist"} /\ stage' = "urls"
        /\ index' = 0 /\ stopped' = FALSE /\ tx' = {}
    BY DEF Launch
  <2>2. index' \in 0..Len(Config)
    BY <2>1, Configured
  <2> QED
    BY <2>1, <2>2 DEF Shape, Stages
<1>5. Seen'
  BY <1>1 DEF Launch, Seen, Busy
<1> QED
  BY <1>2, <1>3, <1>4, <1>5 DEF Placed

LEMMA NextUrlPlaced == ASSUME Placed, NextUrl PROVE Placed'
<1>1. index + 1 \in Pages /\ Config[index + 1] \in Urls
  BY Configured DEF Placed, Shape, NextUrl, Pages
<1>2. Typed'
  <2>1. Get(Config[index + 1])
    BY DEF NextUrl
  <2>2. NextHttp
    BY <1>1, <2>1 DEF NextHttp
  <2> QED
    BY <2>2, ClientStep DEF Placed
<1>3. stage' = "call" /\ index' = index + 1 /\ UNCHANGED <<mode, stopped, runs, tx>> /\ stage = "urls"
  BY DEF NextUrl
<1>4. index' \in 0..Len(Config) /\ index' \in Pages
  BY <1>1, <1>3, Configured DEF Pages
<1>5. Shape'
  BY <1>3, <1>4 DEF Placed, Shape, Stages
<1>6. Rows' /\ Seen'
  BY <1>3, <1>4 DEF Placed, Rows, Seen
<1> QED
  BY <1>2, <1>5, <1>6 DEF Placed

LEMMA InGetPlaced == ASSUME Placed, InGet PROVE Placed'
<1>1. Typed'
  <2>1. InCall
    BY DEF InGet
  <2>2. NextHttp
    BY <2>1 DEF NextHttp
  <2> QED
    BY <2>2, ClientStep DEF Placed
<1>2. stage = "call" /\ UNCHANGED <<mode, stage, index, stopped, tx, runs>>
  BY DEF InGet, canary
<1> QED
  BY <1>1, <1>2 DEF Placed, Shape, Rows, Seen

(* The steps that leave the client alone.                                  *)
LEMMA LocalPlaced ==
  ASSUME Placed, LastUrl \/ CallFails \/ CallRaises \/ Archive \/ RefusePage \/ AcceptCapture
                 \/ PersistPage \/ UNCHANGED vars
  PROVE  Placed'
<1>1. UNCHANGED http /\ UNCHANGED <<mode, index, runs>>
  BY DEF LastUrl, CallFails, CallRaises, Archive, RefusePage, AcceptCapture, PersistPage, vars, canary
<1>2. UNCHANGED <<phase, outcome>>
  BY <1>1 DEF http
<1>3. Typed'
  BY <1>1, ClientRests DEF Placed
<1>4. /\ stage' \in Stages /\ stopped' \in BOOLEAN /\ tx' \subseteq Pages
      /\ stage = "off" => stage' = "off"
  BY DEF LastUrl, CallFails, CallRaises, Archive, RefusePage, AcceptCapture, PersistPage, vars, canary,
         Returned, Placed, Shape, Seen, Stages
<1>5. /\ Busy => stage' = "call"
      /\ stage' = "page" => outcome \in Responses
      /\ stage' = "urls" => outcome \in Responses \cup {"none"}
      /\ stage' \in {"call", "page"} => index \in Pages
  <2>1. Seen
    BY DEF Placed
  <2>2. CASE LastUrl
    BY <2>1, <2>2 DEF LastUrl, Seen
  <2>3. CASE CallFails \/ CallRaises
    BY <2>1, <2>3 DEF CallFails, CallRaises, Returned, Seen, Busy
  <2>4. CASE Archive
    BY <2>1, <2>4 DEF Archive, Returned, Seen, Busy
  <2>5. CASE RefusePage \/ AcceptCapture \/ PersistPage
    BY <2>1, <2>5 DEF RefusePage, AcceptCapture, PersistPage, Seen
  <2>6. CASE UNCHANGED vars
    BY <2>1, <2>6 DEF vars, canary, Seen
  <2> QED
    BY <2>2, <2>3, <2>4, <2>5, <2>6
<1>6. Shape' /\ Rows'
  BY <1>1, <1>4 DEF Placed, Shape, Rows
<1>7. Seen'
  BY <1>1, <1>2, <1>5 DEF Seen, Busy
<1> QED
  BY <1>3, <1>6, <1>7 DEF Placed

LEMMA ClosePlaced == ASSUME Placed, Close \/ Abort \/ Die PROVE Placed'
<1>1. UNCHANGED <<mode, index>> /\ stage' \in {"off", "abort"} /\ stopped' \in BOOLEAN /\ tx' \subseteq Pages
  BY DEF Close, Abort, Die, Placed, Shape
<1>2. Typed' /\ ~Busy'
  <2>1. CASE Close \/ Abort
    <3>1. UNCHANGED http /\ ~Busy
      BY <2>1 DEF Close, Abort, Placed, Seen, Busy
    <3> QED
      BY <3>1, ClientRests DEF Placed, http, Busy
  <2>2. CASE Die
    BY <2>2, ClientDrops DEF Die, Placed, Busy
  <2> QED
    BY <2>1, <2>2
<1>3. runs' \in Seq(Row) /\ (mode = "persist" /\ stage' # "off" => runs' # <<>>)
  <2>1. runs \in Seq(Row) /\ (mode = "persist" /\ stage # "off" => runs # <<>>)
    BY DEF Placed, Rows
  <2>2. CASE runs' = runs
    BY <1>1, <2>1, <2>2 DEF Close, Abort, Die
  <2>3. ASSUME NEW row \in Row, mode = "persist", stage # "off", runs' = [runs EXCEPT ![Len(runs)] = row],
               stage' = "off"
        PROVE  runs' \in Seq(Row)
    BY <2>1, <2>3, RunsTyped
  <2>4. CASE Close
    <3>1. tx \subseteq Pages
      BY DEF Placed, Shape
    <3>2. [status |-> IF stopped THEN "PARTIAL" ELSE "SUCCESS", saved |-> tx] \in Row
      BY <3>1 DEF Row
    <3> QED
      BY <2>2, <2>3, <2>4, <3>2 DEF Close, LastRun
  <2>5. CASE Abort
    <3>1. CASE mode = "persist"
      <4>1. runs[Len(runs)] \in Row
        <5>1. Len(runs) \in 1..Len(runs)
          BY <2>1, <2>5, <3>1, EmptySeq DEF Abort
        <5> QED
          BY <2>1, <5>1, ElementOfSeq
      <4>2. [runs[Len(runs)] EXCEPT !.status = "FAILED"] \in Row
        BY <4>1 DEF Row
      <4>3. runs' = [runs EXCEPT ![Len(runs)] = [runs[Len(runs)] EXCEPT !.status = "FAILED"]]
        BY <2>5, <3>1 DEF Abort, LastRun
      <4> QED
        BY <2>3, <2>5, <3>1, <4>2, <4>3 DEF Abort
    <3>2. CASE mode # "persist"
      BY <2>2, <2>5, <3>2 DEF Abort
    <3> QED
      BY <3>1, <3>2
  <2>6. CASE Die
    BY <2>2, <2>6 DEF Die
  <2> QED
    BY <2>4, <2>5, <2>6
<1>4. Shape' /\ Rows'
  BY <1>1, <1>3 DEF Placed, Shape, Rows, Stages
<1>5. Seen'
  BY <1>1, <1>2 DEF Seen
<1> QED
  BY <1>2, <1>4, <1>5 DEF Placed

LEMMA AlwaysPlaced == Spec => []Placed
<1>1. Init => Placed
  <2> SUFFICES ASSUME Init PROVE Placed
    OBVIOUS
  <2>1. Typed
    <3>1. made \in 0..MaxRequests /\ <<>> \in Seq(Urls)
      BY Configured, EmptySeq DEF Init, InitHttp
    <3> QED
      BY <3>1 DEF Init, InitHttp, Typed, Busy, Responses, Outcomes
  <2>2. <<>> \in Seq(Row) /\ 0 \in 0..Len(Config)
    BY Configured, EmptySeq
  <2> QED
    BY <2>1, <2>2 DEF Init, InitHttp, Placed, Shape, Rows, Seen, Busy, Stages
<1>2. Placed /\ [Next]_vars => Placed'
  <2> SUFFICES ASSUME Placed, [Next]_vars PROVE Placed'
    OBVIOUS
  <2>1. CASE \E m \in {"capture", "persist"} : Launch(m)
    BY <2>1, LaunchPlaced
  <2>2. CASE NextUrl
    BY <2>2, NextUrlPlaced
  <2>3. CASE InGet
    BY <2>3, InGetPlaced
  <2>4. CASE LastUrl \/ CallFails \/ CallRaises \/ Archive \/ RefusePage \/ AcceptCapture
             \/ PersistPage \/ UNCHANGED vars
    BY <2>4, LocalPlaced
  <2>5. CASE Close \/ Abort \/ Die
    BY <2>5, ClosePlaced
  <2> QED
    BY <2>1, <2>2, <2>3, <2>4, <2>5 DEF Next, Proceed
<1> QED
  BY <1>1, <1>2, PTL DEF Spec

(* Being told to stop, a cap, a loop, a timeout or a refused redirect: no  *)
(* further request goes out in that canary (http_client.py, canary.py).    *)
THEOREM HardStop == Spec => NoCallAfterHardStop
<1>1. ASSUME Placed, [Next]_vars
      PROVE  [stage # "off" /\ outcome \in NetworkErrors \cup {"refused"} => phase' = "idle"]_vars
  <2> SUFFICES ASSUME Next, stage # "off", outcome \in NetworkErrors \cup {"refused"} PROVE phase' = "idle"
    BY <1>1
  <2>1. phase = "idle"
    BY <1>1, "none" \notin NetworkErrors \cup {"refused"} DEF Placed, Typed, Busy, NetworkErrors
  <2>2. stage # "urls"
    BY <1>1 DEF Placed, Seen, NetworkErrors, Responses
  <2>3. CASE \E m \in {"capture", "persist"} : Launch(m)
    BY <2>3 DEF Launch
  <2>4. CASE NextUrl
    BY <2>2, <2>4 DEF NextUrl
  <2>5. CASE InGet
    BY <2>1, <2>5 DEF InGet, InCall, Consume, TimesOut, ServerError, TransportFails, ToldToStop,
                      ReadBody, RedirectIsRefused, FollowRedirect, Answer
  <2>6. CASE LastUrl \/ CallFails \/ CallRaises \/ Archive \/ RefusePage \/ AcceptCapture \/ PersistPage
    BY <2>1, <2>6 DEF LastUrl, CallFails, CallRaises, Archive, RefusePage, AcceptCapture, PersistPage, http
  <2>7. CASE Close \/ Abort \/ Die
    BY <2>1, <2>7 DEF Close, Abort, Die, http
  <2> QED
    BY <2>3, <2>4, <2>5, <2>6, <2>7 DEF Next, Proceed
<1> QED
  BY <1>1, AlwaysPlaced, PTL DEF Spec, NoCallAfterHardStop

(* What the open transaction holds, at each stage of a run that persists.  *)
Before(n) == 1..(n - 1)
Proper    == {1..k : k \in 0..(Len(Config) - 1)}
Held ==
  /\ stage = "urls" => tx = 1..index /\ ~stopped
  /\ stage \in {"call", "page"} => tx = Before(index) /\ ~stopped
  /\ stage = "close" => IF stopped THEN tx \in Proper ELSE tx = Pages
Kept ==
  /\ tx \subseteq archived
  /\ stage = "page" => index \in archived
  /\ mode = "capture" => tx = {}
  /\ mode = "persist" => Held

LEMMA PagesBegun ==
  /\ 1..0 = {} /\ {} \in Proper
  /\ 1..Len(Config) = Pages
  /\ \A i \in Pages : Before(i) \in Proper /\ Before(i) \cup {i} = 1..i
  /\ \A i \in 0..Len(Config) : Before(i + 1) = 1..i
<1>1. 1..0 = {} /\ 0 \in 0..(Len(Config) - 1) /\ Len(Config) \in Nat
  <2>1. Len(Config) \in 1..5
    BY ConfigAssumption
  <2>2. 1..0 = {}
    BY \A n \in Nat : ~(1 <= n /\ n <= 0)
  <2> QED
    BY <2>1, <2>2
<1>2. ASSUME NEW i \in Pages PROVE Before(i) \in Proper /\ Before(i) \cup {i} = 1..i
  <2>1. i \in Nat \ {0} /\ i - 1 \in 0..(Len(Config) - 1)
    BY <1>1 DEF Pages
  <2> QED
    BY <2>1 DEF Before, Proper
<1>3. ASSUME NEW i \in 0..Len(Config) PROVE Before(i + 1) = 1..i
  BY <1>1 DEF Before
<1> QED
  BY <1>1, <1>2, <1>3 DEF Proper, Pages

LEMMA StepKept == ASSUME Placed, Kept, [Next]_vars PROVE Kept'
<1> USE DEF Kept, Held
<1>1. CASE \E m \in {"capture", "persist"} : Launch(m)
  BY <1>1, PagesBegun DEF Launch
<1>2. CASE NextUrl
  <2>1. stage = "urls" /\ stage' = "call" /\ index' = index + 1 /\ UNCHANGED <<mode, stopped, archived, tx>>
    BY <1>2 DEF NextUrl
  <2>2. Before(index') = 1..index
    BY <2>1, PagesBegun DEF Placed, Shape
  <2> QED
    BY <2>1, <2>2
<1>3. CASE LastUrl
  BY <1>3, PagesBegun DEF LastUrl
<1>4. CASE InGet
  BY <1>4 DEF InGet, canary
<1>5. CASE CallFails
  BY <1>5, PagesBegun DEF CallFails, Returned, Placed, Seen
<1>6. CASE CallRaises
  BY <1>6 DEF CallRaises
<1>7. CASE Archive
  BY <1>7 DEF Archive, Returned
<1>8. CASE RefusePage
  <2>1. index \in Pages
    BY <1>8 DEF RefusePage, Placed, Seen
  <2>2. Before(index) \in Proper /\ mode \in {"capture", "persist"}
    BY <2>1, PagesBegun DEF Placed, Shape
  <2> QED
    BY <1>8, <2>2 DEF RefusePage
<1>9. CASE AcceptCapture
  BY <1>9 DEF AcceptCapture
<1>10. CASE PersistPage
  <2>1. index \in Pages /\ index \in archived /\ tx = Before(index) /\ tx \subseteq archived
    BY <1>10 DEF PersistPage, Placed, Seen
  <2>2. Before(index) \in Proper /\ tx \cup {index} = 1..index /\ tx \cup {index} \subseteq archived
    BY <2>1, PagesBegun
  <2> QED
    BY <1>10, <2>1, <2>2 DEF PersistPage
<1>11. CASE Close
  BY <1>11 DEF Close
<1>12. CASE Abort \/ Die
  BY <1>12 DEF Abort, Die
<1>13. CASE UNCHANGED vars
  BY <1>13 DEF vars, canary
<1> QED
  BY <1>1, <1>2, <1>3, <1>4, <1>5, <1>6, <1>7, <1>8, <1>9, <1>10, <1>11, <1>12, <1>13 DEF Next, Proceed

LEMMA AlwaysKept == Spec => []Kept
<1>1. Init => Kept
  BY PagesBegun DEF Init, Kept, Held
<1>2. Placed /\ Kept /\ [Next]_vars => Kept'
  BY StepKept
<1> QED
  BY <1>1, <1>2, AlwaysPlaced, PTL DEF Spec

(* "Never parse an active HTTP response body without archiving first", and *)
(* no page is persisted past one that failed.                              *)
THEOREM Prefix == Spec => []PersistsArchivedPrefix
<1>1. Kept => PersistsArchivedPrefix
  BY DEF Kept, Held, PersistsArchivedPrefix
<1> QED
  BY <1>1, AlwaysKept, PTL

(* The rows: each tells the truth, and the one that is open is RUNNING.    *)
Truth(row) ==
  /\ row.status = "SUCCESS" => row.saved = Pages
  /\ row.status = "PARTIAL" => row.saved \in Proper
  /\ row.status \in {"RUNNING", "FAILED"} => row.saved = {}
Told ==
  /\ \A r \in DOMAIN runs : Truth(runs[r])
  /\ mode = "persist" /\ stage # "off" => runs[Len(runs)].status = "RUNNING"

LEMMA LastRowTold ==
  ASSUME NEW s \in Seq(Row), NEW row \in Row, Truth(row), \A r \in DOMAIN s : Truth(s[r]), s # <<>>
  PROVE  LET t == [s EXCEPT ![Len(s)] = row]
         IN  (\A r \in DOMAIN t : Truth(t[r])) /\ t[Len(t)] = row
<1> DEFINE t == [s EXCEPT ![Len(s)] = row]
<1>1. Len(s) \in Nat \ {0} /\ DOMAIN s = 1..Len(s)
  BY EmptySeq, LenProperties
<1>2. t \in Seq(Row) /\ Len(t) = Len(s) /\ DOMAIN t = DOMAIN s
  BY <1>1, ExceptSeq
<1>3. \A r \in DOMAIN s : t[r] = IF r = Len(s) THEN row ELSE s[r]
  BY <1>1
<1>4. Len(s) \in DOMAIN s
  BY <1>1
<1> HIDE DEF t, Truth
<1>5. \A r \in DOMAIN t : Truth(t[r])
  BY <1>2, <1>3
<1>6. t[Len(t)] = row
  BY <1>2, <1>3, <1>4
<1> QED
  BY <1>5, <1>6 DEF t

LEMMA StepTold == ASSUME Placed, Kept, Told, [Next]_vars PROVE Told'
<1>0. runs \in Seq(Row) /\ (mode = "persist" /\ stage # "off" => runs # <<>>)
  BY DEF Placed, Rows
<1>1. ASSUME NEW m \in {"capture", "persist"}, Launch(m) PROVE Told'
  <2> DEFINE row == [status |-> "RUNNING", saved |-> {}]
  <2>1. row \in Row /\ Truth(row) /\ row.status = "RUNNING"
    BY DEF Row, Truth
  <2>2. mode' = m /\ runs' = IF m = "persist" THEN Append(runs, row) ELSE runs
    BY <1>1 DEF Launch
  <2> HIDE DEF row, Truth
  <2>3. CASE m = "persist"
    <3>1. /\ Len(runs') = Len(runs) + 1 /\ Len(runs) \in Nat /\ DOMAIN runs' = 1..(Len(runs) + 1)
          /\ runs'[Len(runs) + 1] = row /\ DOMAIN runs = 1..Len(runs)
          /\ \A r \in 1..Len(runs) : runs'[r] = runs[r]
      BY <1>0, <2>1, <2>2, <2>3, AppendProperties, LenProperties
    <3>2. \A r \in DOMAIN runs' : r \in 1..Len(runs) \/ r = Len(runs) + 1
      BY <3>1
    <3>3. \A r \in DOMAIN runs' : Truth(runs'[r])
      BY <2>1, <3>1, <3>2 DEF Told
    <3> QED
      BY <2>1, <3>1, <3>3 DEF Told
  <2>4. CASE m # "persist"
    BY <2>2, <2>4 DEF Told
  <2> QED
    BY <2>3, <2>4
<1>2. CASE Close
  <2> DEFINE row == [status |-> IF stopped THEN "PARTIAL" ELSE "SUCCESS", saved |-> tx]
  <2>1. CASE runs' = runs /\ stage # "off" /\ mode' = mode
    BY <2>1 DEF Told
  <2>2. CASE mode = "persist" /\ stage' = "off" /\ runs' = [runs EXCEPT ![Len(runs)] = row]
    <3>1. row \in Row
      BY DEF Row, Placed, Shape
    <3>2. IF stopped THEN tx \in Proper ELSE tx = Pages
      BY <1>2, <2>2 DEF Close, Kept, Held
    <3>3. Truth(row)
      BY <3>2 DEF Truth
    <3>4. runs # <<>>
      BY <1>0, <1>2, <2>2 DEF Close
    <3>5. \A r \in DOMAIN runs : Truth(runs[r])
      BY DEF Told
    <3> HIDE DEF row, Truth
    <3>6. \A r \in DOMAIN runs' : Truth(runs'[r])
      BY <1>0, <2>2, <3>1, <3>3, <3>4, <3>5, LastRowTold
    <3> QED
      BY <2>2, <3>6 DEF Told
  <2> QED
    BY <1>2, <2>1, <2>2 DEF Close, LastRun
<1>3. CASE Abort
  <2>1. CASE mode # "persist"
    BY <1>3, <2>1 DEF Abort, Told
  <2>2. CASE mode = "persist"
    <3> DEFINE old == runs[Len(runs)]
               row == [old EXCEPT !.status = "FAILED"]
    <3>1. runs # <<>> /\ old.status = "RUNNING"
      BY <1>0, <1>3, <2>2 DEF Abort, Told
    <3>2. Len(runs) \in DOMAIN runs
      BY <1>0, <3>1, EmptySeq, LenProperties
    <3>3. old \in Row /\ Truth(old)
      BY <1>0, <3>2, ElementOfSeq, LenProperties DEF Told
    <3>4. row \in Row /\ Truth(row)
      BY <3>1, <3>3 DEF Row, Truth
    <3>5. runs' = [runs EXCEPT ![Len(runs)] = row] /\ stage' = "off"
      BY <1>3, <2>2 DEF Abort, LastRun
    <3>6. \A r \in DOMAIN runs : Truth(runs[r])
      BY DEF Told
    <3> HIDE DEF row, old, Truth
    <3>7. \A r \in DOMAIN runs' : Truth(runs'[r])
      BY <1>0, <3>1, <3>4, <3>5, <3>6, LastRowTold
    <3> QED
      BY <3>5, <3>7 DEF Told
  <2> QED
    BY <2>1, <2>2
<1>4. CASE Die
  BY <1>4 DEF Die, Told
<1>5. CASE NextUrl \/ LastUrl \/ InGet \/ CallFails \/ CallRaises \/ Archive \/ RefusePage
           \/ AcceptCapture \/ PersistPage \/ UNCHANGED vars
  <2>1. UNCHANGED <<mode, runs>> /\ (stage' # "off" => stage # "off")
    BY <1>5 DEF NextUrl, LastUrl, InGet, CallFails, CallRaises, Archive, RefusePage, AcceptCapture,
                PersistPage, vars, canary, Returned
  <2> QED
    BY <2>1 DEF Told
<1> QED
  BY <1>1, <1>2, <1>3, <1>4, <1>5 DEF Next, Proceed

(* The row of a run says what its commit saved: every page, the pages up to*)
(* the first that failed, or none (canary.py).                             *)
THEOREM StatusTruth == Spec => []StatusTellsTruth
<1>1. Init => Told
  BY EmptySeq DEF Init, Told
<1>2. Placed /\ Kept /\ Told /\ [Next]_vars => Told'
  BY StepTold
<1>3. Told => StatusTellsTruth
  BY DEF Told, Truth, Proper, StatusTellsTruth
<1> QED
  BY <1>1, <1>2, <1>3, AlwaysPlaced, AlwaysKept, PTL DEF Spec

-----------------------------------------------------------------------------
(* The rest of the types: what the client counts, the pages archived, and  *)
(* the bounds.                                                             *)
Ledger ==
  /\ Counted /\ archived \subseteq Pages
  /\ launched \in 0..MaxCanaries /\ deaths \in 0..MaxDeaths

LEMMA StepLedger == ASSUME Placed, Ledger, [Next]_vars PROVE Ledger'
<1>0. Typed /\ MaxCanaries \in Nat /\ MaxDeaths \in Nat /\ launched \in Nat /\ deaths \in Nat
  BY CanaryBounds DEF Placed, Ledger
<1>1. CASE \E m \in {"capture", "persist"} : Launch(m)
  <2>1. /\ UNCHANGED <<counters, deaths>> /\ launched < MaxCanaries /\ launched' = launched + 1
        /\ archived' = {} /\ made' = 0 /\ tried' = <<>>
    BY <1>1 DEF Launch
  <2>2. Counted'
    <3>1. Len(tried') <= made'
      BY <2>1, EmptySeq
    <3> QED
      BY <2>1, <3>1 DEF Ledger, Counted, counters
  <2>3. launched' \in 0..MaxCanaries
    BY <1>0, <2>1
  <2> QED
    BY <2>1, <2>2, <2>3 DEF Ledger
<1>2. CASE NextUrl \/ InGet
  <2>1. NextHttp /\ UNCHANGED <<archived, launched, deaths>>
    <3>1. CASE NextUrl
      <4>1. Config[index + 1] \in Urls
        BY <3>1, Configured DEF NextUrl, Placed, Shape, Pages
      <4> QED
        BY <3>1, <4>1 DEF NextUrl, NextHttp
    <3>2. CASE InGet
      BY <3>2 DEF InGet, NextHttp, canary
    <3> QED
      BY <1>2, <3>1, <3>2
  <2>2. [NextHttp]_http
    BY <2>1
  <2>3. Counted'
    BY <1>0, <2>2, StepCounted DEF Ledger
  <2> QED
    BY <2>1, <2>3 DEF Ledger
<1>3. CASE LastUrl \/ CallFails \/ CallRaises \/ Archive \/ RefusePage \/ AcceptCapture
           \/ PersistPage \/ Close \/ Abort \/ UNCHANGED vars
  <2>1. UNCHANGED <<http, launched, deaths>>
    BY <1>3 DEF LastUrl, CallFails, CallRaises, Archive, RefusePage, AcceptCapture, PersistPage,
                Close, Abort, vars, canary
  <2>2. archived' \in {archived, archived \cup {index}} /\ (archived' = archived \/ index \in Pages)
    BY <1>3 DEF LastUrl, CallFails, CallRaises, Archive, RefusePage, AcceptCapture, PersistPage,
                Close, Abort, vars, canary, Returned, Placed, Seen
  <2>3. Counted'
    BY <2>1 DEF http, counters, Ledger, Counted
  <2> QED
    BY <2>1, <2>2, <2>3 DEF Ledger
<1>4. CASE Die
  <2>1. /\ UNCHANGED <<made, counters, tried, archived, launched>>
        /\ deaths < MaxDeaths /\ deaths' = deaths + 1
    BY <1>4 DEF Die
  <2>2. Counted'
    BY <2>1 DEF counters, Ledger, Counted
  <2>3. deaths' \in 0..MaxDeaths
    BY <1>0, <2>1
  <2> QED
    BY <2>1, <2>2, <2>3 DEF Ledger
<1> QED
  BY <1>1, <1>2, <1>3, <1>4 DEF Next, Proceed

(* Types of the canary with the client it drives: at most one page of the  *)
(* configuration is under way, only configured pages are archived and      *)
(* persisted, and the client's counters keep to their limits.              *)
THEOREM CanaryTypeCorrect == Spec => []TypeOK
<1>1. Init => Ledger
  <2> SUFFICES ASSUME Init PROVE Ledger
    OBVIOUS
  <2>1. Counted
    BY InitCounted DEF Init
  <2>2. 0 \in 0..MaxCanaries /\ 0 \in 0..MaxDeaths
    BY CanaryBounds
  <2> QED
    BY <2>1, <2>2 DEF Init, Ledger
<1>2. Placed /\ Ledger /\ [Next]_vars => Ledger'
  BY StepLedger
<1>3. Placed /\ Ledger => TypeOK
  BY Bounded DEF Placed, Shape, Rows, Row, Stages, Ledger, TypeOK
<1> QED
  BY <1>1, <1>2, <1>3, AlwaysPlaced, PTL DEF Spec
=============================================================================
