------------------------ MODULE ElectionIngestProofs ------------------------
(***************************************************************************)
(* Safety of the ingestion transaction for any payloads, documents, runs,  *)
(* faults and crashes.                                                     *)
(***************************************************************************)
EXTENDS ElectionIngest, SequenceTheorems, TLAPS

Result  == [candidacy: Nat, score: Score, source: Nat]
SeatRow == [state: Nat, name: SeatNames, code: Codes \cup {NoCode}]
PollRow == [poll: Polls, seat: Nat, state: Nat]
CandRow == [person: Nat, election: Nat, party: Nat]
CsiRow  == [value: Exts, election: Nat, candidacy: Nat]

(* The strengthening of the types: the loop never leaves the payload's     *)
(* candidates, and every run that is not idle has a row.                   *)
Turn == {"source", "state", "seat", "election", "party", "person", "candidacy", "identifier"}
InPayload ==
  /\ step \in {"idle", "fetch"} => cur.cand = 1
  /\ step \in Turn => cur.cand \in Ids(Parsed.cands)
HasRow == step # "idle" => run # <<>>
WellTyped == TypeOK /\ InPayload /\ HasRow

-----------------------------------------------------------------------------
LEMMA DocumentExists == NoDoc \in Document
<1>1. PICK u \in Urls, s \in Shas : TRUE
  BY DocumentsAssumption
<1>2. [url |-> u, sha |-> s] \in Document
  BY DEF Document
<1> QED
  BY <1>2 DEF NoDoc

(* What the payload under the cursor is made of.                           *)
LEMMA Parses ==
  ASSUME TypeOK
  PROVE  /\ Parsed \in Parse
         /\ cur.cand \in Ids(Parsed.cands) => Cand \in Candidate
<1>1. doc.sha \in Shas
  BY DEF TypeOK, Document
<1>2. Parsed \in Parse
  BY <1>1, PayloadAssumption DEF Parsed
<1>3. Parsed.cands \in Seq(Candidate)
  BY <1>2 DEF Parse
<1> QED
  BY <1>2, <1>3, ElementOfSeq DEF Cand, Ids

(* Session.flush changes the results only.                                 *)
LEMMA Flushing ==
  ASSUME TypeOK
  PROVE  /\ Flush(tx) \in Tables
         /\ Flush(tx) = [tx EXCEPT !.result = tx.result \o pending]
<1>1. tx.result \in Seq(Result) /\ pending \in Seq(Result)
  BY DEF TypeOK, Tables, Result
<1>2. tx.result \o pending \in Seq(Result)
  BY <1>1, ConcatProperties
<1>3. tx \in Tables
  BY DEF TypeOK
<1> QED
  BY <1>2, <1>3 DEF Flush, Tables, Result

(* The tables have lengths, their rows have types.                         *)
LEMMA Columns ==
  ASSUME NEW t \in Tables
  PROVE  /\ t.source \in Seq(Document) /\ t.state \in Seq(States) /\ t.seat \in Seq(SeatRow)
         /\ t.election \in Seq(PollRow) /\ t.party \in Seq(Parties) /\ t.person \in Seq(Names)
         /\ t.candidacy \in Seq(CandRow) /\ t.result \in Seq(Result) /\ t.csi \in Seq(CsiRow)
         /\ t.review \subseteq Nat
         /\ Len(t.source) \in Nat /\ Len(t.state) \in Nat /\ Len(t.seat) \in Nat
         /\ Len(t.election) \in Nat /\ Len(t.party) \in Nat /\ Len(t.person) \in Nat
         /\ Len(t.candidacy) \in Nat /\ Len(t.result) \in Nat /\ Len(t.csi) \in Nat
<1>1. /\ t.source \in Seq(Document) /\ t.state \in Seq(States) /\ t.seat \in Seq(SeatRow)
      /\ t.election \in Seq(PollRow) /\ t.party \in Seq(Parties) /\ t.person \in Seq(Names)
      /\ t.candidacy \in Seq(CandRow) /\ t.result \in Seq(Result) /\ t.csi \in Seq(CsiRow)
      /\ t.review \subseteq Nat
  BY DEF Tables, SeatRow, PollRow, CandRow, Result, CsiRow
<1> QED
  BY <1>1, LenProperties

(* A row appended to one table.                                            *)
LEMMA Appending ==
  ASSUME NEW t \in Tables
  PROVE  /\ \A r \in Document  : [t EXCEPT !.source = Append(@, r)] \in Tables
         /\ \A r \in States    : [t EXCEPT !.state = Append(@, r)] \in Tables
         /\ \A r \in SeatRow   : [t EXCEPT !.seat = Append(@, r)] \in Tables
         /\ \A r \in PollRow   : [t EXCEPT !.election = Append(@, r)] \in Tables
         /\ \A r \in Parties   : [t EXCEPT !.party = Append(@, r)] \in Tables
         /\ \A r \in Names     : [t EXCEPT !.person = Append(@, r)] \in Tables
         /\ \A r \in CandRow   : [t EXCEPT !.candidacy = Append(@, r)] \in Tables
         /\ \A r \in CsiRow    : [t EXCEPT !.csi = Append(@, r)] \in Tables
         /\ \A n \in Nat       : [t EXCEPT !.review = @ \cup {n}] \in Tables
<1>1. /\ \A r \in Document : Append(t.source, r) \in Seq(Document)
      /\ \A r \in States : Append(t.state, r) \in Seq(States)
      /\ \A r \in SeatRow : Append(t.seat, r) \in Seq(SeatRow)
      /\ \A r \in PollRow : Append(t.election, r) \in Seq(PollRow)
      /\ \A r \in Parties : Append(t.party, r) \in Seq(Parties)
      /\ \A r \in Names : Append(t.person, r) \in Seq(Names)
      /\ \A r \in CandRow : Append(t.candidacy, r) \in Seq(CandRow)
      /\ \A r \in CsiRow : Append(t.csi, r) \in Seq(CsiRow)
  BY Columns, AppendProperties
<1> QED
  BY <1>1 DEF Tables, SeatRow, PollRow, CandRow, CsiRow

LEMMA InitWellTyped == Init => WellTyped
<1>1. Empty \in Tables
  BY EmptySeq DEF Empty, Tables
<1>2. <<>> \in Seq(Result)
  BY EmptySeq
<1>3. <<>> \in Seq({"RUNNING", "SUCCESS", "FAILED"}) /\ Len(<<>>) <= MaxRuns
  BY EmptySeq, BoundsAssumption
<1>4. Fresh \in Cursor /\ Fresh.cand = 1
  BY DEF Fresh, Cursor
<1>5. 0 \in 0..MaxFaults /\ 0 \in 0..MaxCrashes
  BY BoundsAssumption
<1> QED
  BY <1>1, <1>2, <1>3, <1>4, <1>5, DocumentExists
     DEF Init, WellTyped, TypeOK, InPayload, HasRow, Steps, Statuses, Turn, Result

LEMMA StartTyped == ASSUME WellTyped, StartRun PROVE WellTyped'
<1>1. /\ run' \in Seq({"RUNNING", "SUCCESS", "FAILED"})
      /\ run' # <<>> /\ Len(run') = Len(run) + 1
  BY AppendProperties DEF WellTyped, TypeOK, StartRun
<1>2. Len(run') <= MaxRuns
  BY <1>1, BoundsAssumption, LenProperties DEF WellTyped, TypeOK, StartRun
<1> QED
  BY <1>1, <1>2 DEF WellTyped, TypeOK, InPayload, HasRow, Turn, Steps, StartRun, tables

LEMMA FetchTyped == ASSUME WellTyped, Fetch PROVE WellTyped'
<1>1. doc' \in Document /\ doc'.sha \in Shas
  BY DEF Fetch, Document
<1>2. Parsed' = Payload[doc'.sha] /\ Parsed' \in Parse
  BY <1>1, PayloadAssumption DEF Parsed
<1>3. step' = "source" => 1 \in Ids(Parsed'.cands)
  BY <1>2, LenProperties DEF Fetch, Valid, Ids, Parse
<1> QED
  BY <1>1, <1>3 DEF WellTyped, TypeOK, InPayload, HasRow, Turn, Steps, Fetch, tables

LEMMA SourceTyped == ASSUME WellTyped, GetSource PROVE WellTyped'
<1>1. tx' \in Tables
  <2>1. Len(tx.source) + 1 \in Nat /\ doc \in Document /\ tx \in Tables
    BY Columns DEF WellTyped, TypeOK
  <2>2. CASE status' = "UNCHANGED"
    BY <2>1, <2>2 DEF GetSource
  <2>3. CASE status' = "INSERTED"
    BY <2>1, <2>3, Appending DEF GetSource
  <2>4. CASE status' = "SOURCE_CHANGED"
    <3> DEFINE t == [tx EXCEPT !.source = Append(@, doc)]
    <3>1. t \in Tables
      BY <2>1, Appending
    <3>2. tx' = [t EXCEPT !.review = @ \cup {Len(tx.source) + 1}]
      BY <2>1, <2>4 DEF GetSource, Tables
    <3> QED
      BY <2>1, <3>1, <3>2, Appending
  <2> QED
    BY <2>2, <2>3, <2>4 DEF GetSource
<1>2. status' \in Statuses
  BY DEF GetSource, SourceStatus, Statuses
<1> QED
  BY <1>1, <1>2 DEF WellTyped, TypeOK, InPayload, HasRow, Turn, Steps, GetSource, Parsed

LEMMA StateTyped == ASSUME WellTyped, GetState PROVE WellTyped'
<1>1. tx' \in Tables /\ cur' \in Cursor /\ cur'.cand = cur.cand
  <2>1. tx \in Tables /\ cur \in Cursor /\ Parsed.state \in States /\ Len(tx.state) + 1 \in Nat
    BY Parses, Columns DEF WellTyped, TypeOK, Parse
  <2>2. CASE \E i \in Find(tx.state, Parsed.state) : cur' = [cur EXCEPT !.state = i] /\ UNCHANGED tx
    BY <2>1, <2>2 DEF Find, Ids, Cursor
  <2>3. CASE /\ tx' = [tx EXCEPT !.state = Append(@, Parsed.state)]
             /\ cur' = [cur EXCEPT !.state = Len(tx.state) + 1]
    <3>1. tx' \in Tables
      BY <2>1, <2>3, Appending
    <3> QED
      BY <2>1, <2>3, <3>1 DEF Cursor
  <2> QED
    BY <2>2, <2>3 DEF GetState
<1> QED
  BY <1>1 DEF WellTyped, TypeOK, InPayload, HasRow, Turn, Steps, GetState, Parsed

LEMMA SeatTyped == ASSUME WellTyped, GetSeat PROVE WellTyped'
<1> DEFINE row == [state |-> cur.state, name |-> Parsed.seat, code |-> Parsed.code]
<1>1. tx' \in Tables /\ cur' \in Cursor /\ cur'.cand = cur.cand
  <2>1. tx \in Tables /\ cur \in Cursor /\ row \in SeatRow /\ Len(tx.seat) + 1 \in Nat
    BY Parses, Columns DEF WellTyped, TypeOK, Parse, SeatRow, Cursor
  <2>2. CASE \E i \in SeatsFound : cur' = [cur EXCEPT !.seat = i] /\ UNCHANGED tx
    BY <2>1, <2>2 DEF SeatsFound, SeatsByCode, SeatsByName, Ids, Cursor
  <2>3. CASE /\ tx' = [tx EXCEPT !.seat = Append(@, row)]
             /\ cur' = [cur EXCEPT !.seat = Len(tx.seat) + 1]
    <3>1. tx' \in Tables
      BY <2>1, <2>3, Appending
    <3> QED
      BY <2>1, <2>3, <3>1 DEF Cursor
  <2> QED
    BY <2>2, <2>3 DEF GetSeat
<1> QED
  BY <1>1 DEF WellTyped, TypeOK, InPayload, HasRow, Turn, Steps, GetSeat, Parsed

LEMMA ElectionTyped == ASSUME WellTyped, GetElection PROVE WellTyped'
<1> DEFINE row == [poll |-> Parsed.poll, seat |-> cur.seat, state |-> cur.state]
<1>1. tx' \in Tables /\ cur' \in Cursor /\ cur'.cand = cur.cand
  <2>1. tx \in Tables /\ cur \in Cursor /\ row \in PollRow /\ Len(tx.election) + 1 \in Nat
    BY Parses, Columns DEF WellTyped, TypeOK, Parse, PollRow, Cursor
  <2>2. CASE \E i \in ElectionsFound : cur' = [cur EXCEPT !.election = i] /\ UNCHANGED tx
    BY <2>1, <2>2 DEF ElectionsFound, Ids, Cursor
  <2>3. CASE /\ tx' = [tx EXCEPT !.election = Append(@, row)]
             /\ cur' = [cur EXCEPT !.election = Len(tx.election) + 1]
    <3>1. tx' \in Tables
      BY <2>1, <2>3, Appending
    <3> QED
      BY <2>1, <2>3, <3>1 DEF Cursor
  <2> QED
    BY <2>2, <2>3 DEF GetElection
<1> QED
  BY <1>1 DEF WellTyped, TypeOK, InPayload, HasRow, Turn, Steps, GetElection, Parsed

LEMMA PartyTyped == ASSUME WellTyped, GetParty PROVE WellTyped'
<1>1. tx' \in Tables /\ cur' \in Cursor /\ cur'.cand = cur.cand /\ pending' \in Seq(Result)
  <2>1. /\ tx \in Tables /\ cur \in Cursor /\ pending \in Seq(Result)
        /\ Cand.party \in Parties /\ Len(tx.party) + 1 \in Nat
    BY Parses, Columns DEF WellTyped, TypeOK, InPayload, Turn, GetParty, Candidate, Result
  <2>2. CASE /\ \E i \in Find(tx.party, Cand.party) : cur' = [cur EXCEPT !.party = i]
             /\ UNCHANGED <<tx, pending>>
    BY <2>1, <2>2 DEF Find, Ids, Cursor
  <2>3. CASE /\ tx' = [Flush(tx) EXCEPT !.party = Append(@, Cand.party)]
             /\ cur' = [cur EXCEPT !.party = Len(tx.party) + 1]
             /\ pending' = <<>>
    <3>1. tx' \in Tables
      BY <2>1, <2>3, Appending, Flushing DEF WellTyped
    <3> QED
      BY <2>1, <2>3, <3>1, EmptySeq DEF Cursor
  <2> QED
    BY <2>2, <2>3 DEF GetParty
<1> QED
  BY <1>1 DEF WellTyped, TypeOK, InPayload, HasRow, Turn, Steps, GetParty, Parsed, Result

LEMMA PersonTyped == ASSUME WellTyped, ResolvePerson PROVE WellTyped'
<1>1. tx' \in Tables /\ cur' \in Cursor /\ cur'.cand = cur.cand /\ pending' \in Seq(Result)
  <2>1. /\ tx \in Tables /\ cur \in Cursor /\ pending \in Seq(Result)
        /\ Cand.name \in Names /\ Len(tx.person) + 1 \in Nat
    BY Parses, Columns DEF WellTyped, TypeOK, InPayload, Turn, ResolvePerson, Candidate, Result
  <2>2. CASE /\ \E i \in Ids(tx.person) : cur' = [cur EXCEPT !.person = i]
             /\ UNCHANGED <<tx, pending>>
    BY <2>1, <2>2 DEF Ids, Cursor
  <2>3. CASE /\ tx' = [Flush(tx) EXCEPT !.person = Append(@, Cand.name)]
             /\ cur' = [cur EXCEPT !.person = Len(tx.person) + 1]
             /\ pending' = <<>>
    <3>1. tx' \in Tables
      BY <2>1, <2>3, Appending, Flushing DEF WellTyped
    <3> QED
      BY <2>1, <2>3, <3>1, EmptySeq DEF Cursor
  <2> QED
    BY <2>2, <2>3 DEF ResolvePerson
<1> QED
  BY <1>1 DEF WellTyped, TypeOK, InPayload, HasRow, Turn, Steps, ResolvePerson, Parsed, Result

LEMMA RowTyped ==
  ASSUME WellTyped, step \in Turn, NEW k \in Nat
  PROVE  ResultRow(k) \in Result
BY Parses, Columns DEF WellTyped, TypeOK, InPayload, Candidate, Result, ResultRow, ThisSource

LEMMA NewCandidacyTyped == ASSUME WellTyped, NewCandidacy PROVE WellTyped'
<1> DEFINE k == Len(tx.candidacy) + 1
           row == [person |-> cur.person, election |-> cur.election, party |-> cur.party]
<1>1. /\ tx \in Tables /\ cur \in Cursor /\ row \in CandRow /\ k \in Nat /\ step \in Turn
  BY Columns DEF WellTyped, TypeOK, NewCandidacy, Cursor, CandRow, Turn
<1>2. tx' \in Tables
  <2>1. tx' = [Flush(tx) EXCEPT !.candidacy = Append(@, row)]
    BY DEF NewCandidacy
  <2> QED
    BY <1>1, <2>1, Appending, Flushing DEF WellTyped
<1>3. pending' \in Seq(Result)
  <2>1. pending' = <<ResultRow(k)>>
    BY DEF NewCandidacy
  <2> QED
    BY <1>1, <2>1, RowTyped
<1>4. cur' \in Cursor /\ cur'.cand = cur.cand
  BY <1>1 DEF NewCandidacy, Cursor
<1> QED
  BY <1>2, <1>3, <1>4
     DEF WellTyped, TypeOK, InPayload, HasRow, Turn, Steps, NewCandidacy, Parsed, Result

LEMMA AddResultTyped == ASSUME WellTyped, AddResult PROVE WellTyped'
<1>1. PICK k \in CandidaciesFound :
        pending' = Append(pending, ResultRow(k)) /\ cur' = [cur EXCEPT !.candidacy = k]
  BY DEF AddResult
<1>2. k \in Nat /\ cur \in Cursor /\ pending \in Seq(Result) /\ step \in Turn
  BY Columns DEF CandidaciesFound, Ids, WellTyped, TypeOK, Result, AddResult, Turn
<1>3. pending' \in Seq(Result)
  BY <1>1, <1>2, RowTyped, AppendProperties
<1>4. cur' \in Cursor /\ cur'.cand = cur.cand
  BY <1>1, <1>2 DEF Cursor
<1> QED
  BY <1>3, <1>4
     DEF WellTyped, TypeOK, InPayload, HasRow, Turn, Steps, AddResult, Parsed, Result

LEMMA CompareResultTyped == ASSUME WellTyped, CompareResult PROVE WellTyped'
<1>1. PICK k \in CandidaciesFound : cur' = [cur EXCEPT !.candidacy = k]
  BY DEF CompareResult
<1>2. /\ k \in Nat /\ cur \in Cursor /\ tx \in Tables /\ ThisSource \in Nat
      /\ pending \in Seq(Result)
  BY Columns DEF CandidaciesFound, Ids, WellTyped, TypeOK, ThisSource, Result
<1>3. cur' \in Cursor /\ cur'.cand = cur.cand
  BY <1>1, <1>2 DEF Cursor
<1>4. tx' \in Tables /\ pending' \in Seq(Result)
  <2>1. CASE UNCHANGED <<tx, pending>>
    BY <1>2, <2>1
  <2>2. CASE tx' = [Flush(tx) EXCEPT !.review = @ \cup {ThisSource}] /\ pending' = <<>>
    BY <1>2, <2>2, Appending, Flushing, EmptySeq DEF WellTyped
  <2> QED
    BY <2>1, <2>2 DEF CompareResult
<1> QED
  BY <1>3, <1>4
     DEF WellTyped, TypeOK, InPayload, HasRow, Turn, Steps, CompareResult, Parsed, Result

LEMMA AttachIdentifierTyped == ASSUME WellTyped, AttachIdentifier PROVE WellTyped'
<1> DEFINE row == [value |-> Cand.ext, election |-> cur.election, candidacy |-> cur.candidacy]
<1>1. /\ cur \in Cursor /\ tx \in Tables /\ Cand \in Candidate /\ pending \in Seq(Result)
      /\ cur.cand \in Ids(Parsed.cands) /\ Len(Parsed.cands) \in Nat
  BY Parses, LenProperties DEF WellTyped, TypeOK, InPayload, AttachIdentifier, Turn, Parse, Result
<1>2. cur' \in Cursor /\ step' \in {"party", "finish", "raise"}
      /\ (step' = "party" => cur'.cand \in Ids(Parsed.cands))
  <2>1. CASE NextTurn
    BY <1>1, <2>1 DEF NextTurn, Cursor, Ids
  <2>2. CASE step' = "raise" /\ UNCHANGED cur
    BY <1>1, <2>2
  <2> QED
    BY <2>1, <2>2 DEF AttachIdentifier
<1>3. tx' \in Tables /\ pending' \in Seq(Result)
  <2>1. CASE UNCHANGED <<tx, pending>>
    BY <1>1, <2>1
  <2>2. CASE /\ Cand.ext # NoExt /\ tx' = [Flush(tx) EXCEPT !.csi = Append(@, row)]
             /\ pending' = <<>>
    <3>1. row \in CsiRow
      BY <1>1, <2>2 DEF Candidate, CsiRow, Cursor
    <3> QED
      BY <2>2, <3>1, Appending, Flushing, EmptySeq DEF WellTyped
  <2> QED
    BY <2>1, <2>2 DEF AttachIdentifier
<1> QED
  BY <1>2, <1>3
     DEF WellTyped, TypeOK, InPayload, HasRow, Turn, Steps, AttachIdentifier, Parsed, Result

LEMMA ClosedTyped ==
  ASSUME WellTyped, Rest, db' \in Tables, tx' \in Tables,
         run' \in Seq({"RUNNING", "SUCCESS", "FAILED"}), Len(run') <= MaxRuns,
         faults' \in 0..MaxFaults, crashes' \in 0..MaxCrashes
  PROVE  WellTyped'
<1>1. Fresh \in Cursor /\ Fresh.cand = 1
  BY DEF Fresh, Cursor
<1> QED
  BY <1>1, DocumentExists, EmptySeq
     DEF WellTyped, TypeOK, InPayload, HasRow, Turn, Steps, Statuses, Rest

LEMMA FinishTyped == ASSUME WellTyped, FinishRun \/ FailRun PROVE WellTyped'
<1>1. PICK outcome \in {"SUCCESS", "FAILED"} : Close(outcome)
  BY DEF FinishRun, FailRun
<1>2. Len(run) \in 1..Len(run) /\ run \in Seq({"RUNNING", "SUCCESS", "FAILED"})
  BY EmptySeq, LenProperties DEF WellTyped, TypeOK, HasRow, FinishRun, FailRun
<1>3. run' \in Seq({"RUNNING", "SUCCESS", "FAILED"}) /\ Len(run') = Len(run)
  BY <1>1, <1>2, ExceptSeq DEF Close
<1> QED
  BY <1>1, <1>3, Flushing, ClosedTyped DEF WellTyped, TypeOK, FinishRun, FailRun, Close

LEMMA CrashTyped == ASSUME WellTyped, Crash PROVE WellTyped'
BY BoundsAssumption, ClosedTyped DEF WellTyped, TypeOK, Crash

LEMMA FaultTyped == ASSUME WellTyped, Fault PROVE WellTyped'
BY BoundsAssumption DEF WellTyped, TypeOK, InPayload, HasRow, Turn, Steps, Fault, tables

LEMMA StutterTyped == ASSUME WellTyped, UNCHANGED vars PROVE WellTyped'
BY DEF WellTyped, TypeOK, InPayload, HasRow, Parsed, vars, tables

(* Types: every table keeps its columns, the loop over a payload's         *)
(* candidates stays inside it, and whatever is under way has a run row.    *)
THEOREM Typed == Spec => []WellTyped
<1>1. WellTyped /\ [Next]_vars => WellTyped'
  BY StartTyped, FetchTyped, SourceTyped, StateTyped, SeatTyped, ElectionTyped, PartyTyped,
     PersonTyped, NewCandidacyTyped, AddResultTyped, CompareResultTyped, AttachIdentifierTyped,
     FinishTyped, CrashTyped, FaultTyped, StutterTyped DEF Next, Proceed
<1> QED
  BY <1>1, InitWellTyped, PTL DEF Spec

(* Types, as the run checks them: rows have their columns and ids.         *)
THEOREM TypeCorrect == Spec => []TypeOK
BY Typed, PTL DEF WellTyped

-----------------------------------------------------------------------------
(* History.  What the session sees extends what is committed; the session  *)
(* differs from it only for a document whose bytes are new.                *)
GrowsTo(t, u) ==
  /\ Extends(t.source, u.source) /\ Extends(t.election, u.election)
  /\ Extends(t.person, u.person) /\ Extends(t.candidacy, u.candidacy)
  /\ Extends(t.result, u.result) /\ Extends(t.csi, u.csi) /\ t.review \subseteq u.review
Clean == tx = db /\ pending = <<>>
NewBytes == \A i \in Ids(db.source) : db.source[i].sha # doc.sha
History ==
  /\ GrowsTo(db, tx)
  /\ step \in {"idle", "fetch", "source"} => Clean
  /\ step \in Turn \ {"source"} => NewBytes
  /\ step = "finish" => Clean \/ NewBytes

LEMMA Longer ==
  ASSUME NEW S, NEW s \in Seq(S), NEW t \in Seq(S), NEW e \in S
  PROVE  Extends(s, s) /\ Extends(s, Append(s, e)) /\ Extends(s, s \o t)
BY LenProperties, AppendProperties, ConcatProperties DEF Extends, Ids

LEMMA LongerStill ==
  ASSUME NEW S, NEW s \in Seq(S), NEW t \in Seq(S), NEW u \in Seq(S), Extends(s, t), Extends(t, u)
  PROVE  Extends(s, u)
BY LenProperties DEF Extends, Ids

LEMMA GrowsSame == \A t \in Tables : GrowsTo(t, t)
BY Columns DEF GrowsTo, Extends

LEMMA GrowsTransitively ==
  ASSUME NEW t \in Tables, NEW u \in Tables, NEW v \in Tables, GrowsTo(t, u), GrowsTo(u, v)
  PROVE  GrowsTo(t, v)
<1>1. /\ \A w \in {t, u, v} : w.source \in Seq(Document) /\ w.election \in Seq(PollRow)
      /\ \A w \in {t, u, v} : w.person \in Seq(Names) /\ w.candidacy \in Seq(CandRow)
      /\ \A w \in {t, u, v} : w.result \in Seq(Result) /\ w.csi \in Seq(CsiRow)
  BY Columns
<1>2. Extends(t.source, v.source) /\ Extends(t.election, v.election) /\ Extends(t.person, v.person)
  BY <1>1, LongerStill DEF GrowsTo
<1>3. Extends(t.candidacy, v.candidacy) /\ Extends(t.result, v.result) /\ Extends(t.csi, v.csi)
  BY <1>1, LongerStill DEF GrowsTo
<1> QED
  BY <1>2, <1>3 DEF GrowsTo

LEMMA GrowsByFlush == ASSUME TypeOK PROVE GrowsTo(tx, Flush(tx))
<1>1. tx \in Tables /\ tx.result \in Seq(Result) /\ pending \in Seq(Result)
  BY Columns DEF TypeOK, Result
<1>2. Extends(tx.result, tx.result \o pending)
  BY <1>1, Longer
<1>3. /\ Flush(tx).source = tx.source /\ Flush(tx).election = tx.election
      /\ Flush(tx).person = tx.person /\ Flush(tx).candidacy = tx.candidacy
      /\ Flush(tx).csi = tx.csi /\ Flush(tx).review = tx.review
      /\ Flush(tx).result = tx.result \o pending
  BY <1>1, Flushing DEF Tables
<1> QED
  BY <1>1, <1>2, <1>3, GrowsSame DEF GrowsTo

LEMMA GrowsByRow ==
  ASSUME NEW t \in Tables
  PROVE  /\ \A r \in Document  : GrowsTo(t, [t EXCEPT !.source = Append(@, r)])
         /\ \A r \in States    : GrowsTo(t, [t EXCEPT !.state = Append(@, r)])
         /\ \A r \in SeatRow   : GrowsTo(t, [t EXCEPT !.seat = Append(@, r)])
         /\ \A r \in PollRow   : GrowsTo(t, [t EXCEPT !.election = Append(@, r)])
         /\ \A r \in Parties   : GrowsTo(t, [t EXCEPT !.party = Append(@, r)])
         /\ \A r \in Names     : GrowsTo(t, [t EXCEPT !.person = Append(@, r)])
         /\ \A r \in CandRow   : GrowsTo(t, [t EXCEPT !.candidacy = Append(@, r)])
         /\ \A r \in CsiRow    : GrowsTo(t, [t EXCEPT !.csi = Append(@, r)])
         /\ \A n \in Nat       : GrowsTo(t, [t EXCEPT !.review = @ \cup {n}])
<1>1. /\ \A r \in Document : Extends(t.source, Append(t.source, r))
      /\ \A r \in PollRow : Extends(t.election, Append(t.election, r))
      /\ \A r \in Names : Extends(t.person, Append(t.person, r))
      /\ \A r \in CandRow : Extends(t.candidacy, Append(t.candidacy, r))
      /\ \A r \in CsiRow : Extends(t.csi, Append(t.csi, r))
  BY Columns, Longer
<1>2. GrowsTo(t, t)
  BY GrowsSame
<1> QED
  BY <1>1, <1>2 DEF GrowsTo, Tables

(* The steps that work inside the transaction, and the rows they add.      *)
Session ==
  \/ GetSource \/ GetState \/ GetSeat \/ GetElection \/ GetParty \/ ResolvePerson
  \/ NewCandidacy \/ AddResult \/ CompareResult \/ AttachIdentifier
SeatEntry == [state |-> cur.state, name |-> Parsed.seat, code |-> Parsed.code]
PollEntry == [poll |-> Parsed.poll, seat |-> cur.seat, state |-> cur.state]
CandEntry == [person |-> cur.person, election |-> cur.election, party |-> cur.party]
CsiEntry  == [value |-> Cand.ext, election |-> cur.election, candidacy |-> cur.candidacy]

LEMMA RowsTyped ==
  ASSUME WellTyped
  PROVE  /\ tx \in Tables /\ Flush(tx) \in Tables /\ doc \in Document /\ Parsed.state \in States
         /\ SeatEntry \in SeatRow /\ PollEntry \in PollRow /\ CandEntry \in CandRow
         /\ ThisSource \in Nat /\ ThisSource + 1 \in Nat
         /\ step \in Turn => Cand.party \in Parties /\ Cand.name \in Names
         /\ step \in Turn /\ Cand.ext # NoExt => CsiEntry \in CsiRow
<1>1. cur \in Cursor /\ Parsed \in Parse /\ (step \in Turn => Cand \in Candidate)
  BY Parses DEF WellTyped, TypeOK, InPayload
<1>2. tx \in Tables /\ Flush(tx) \in Tables /\ doc \in Document
  BY Flushing DEF WellTyped, TypeOK
<1> QED
  BY <1>1, <1>2, Columns
     DEF Parse, Candidate, Cursor, SeatEntry, PollEntry, CandEntry, CsiEntry, ThisSource,
         SeatRow, PollRow, CandRow, CsiRow

(* What a session step does to the tables: nothing, or one row after at    *)
(* most a flush; only GetSource touches the sources.                       *)
LEMMA SessionGrows ==
  ASSUME WellTyped, Session
  PROVE  /\ GrowsTo(tx, tx') /\ db' = db /\ doc' = doc
         /\ GetSource \/ tx'.source = tx.source
<1> DEFINE f == Flush(tx)
<1>1. GrowsTo(tx, tx) /\ GrowsTo(tx, f) /\ f.source = tx.source
  BY GrowsSame, GrowsByFlush, RowsTyped, Flushing DEF WellTyped, Tables
<1>2. ASSUME NEW u \in Tables, GrowsTo(f, u) PROVE GrowsTo(tx, u)
  BY <1>1, <1>2, RowsTyped, GrowsTransitively
<1>3. CASE GetSource
  <2>1. CASE status' = "UNCHANGED"
    BY <1>1, <1>3, <2>1 DEF GetSource
  <2>2. CASE status' = "INSERTED"
    BY <1>3, <2>2, RowsTyped, GrowsByRow DEF GetSource
  <2>3. CASE status' = "SOURCE_CHANGED"
    <3> DEFINE t == [tx EXCEPT !.source = Append(@, doc)]
    <3>1. t \in Tables /\ GrowsTo(tx, t)
      BY RowsTyped, Appending, GrowsByRow
    <3>2. tx' = [t EXCEPT !.review = @ \cup {ThisSource + 1}]
      BY <1>3, <2>3, RowsTyped DEF GetSource, Tables, ThisSource
    <3>3. tx' \in Tables /\ GrowsTo(t, tx')
      BY <3>1, <3>2, RowsTyped, Appending, GrowsByRow
    <3> QED
      BY <1>3, <3>1, <3>3, RowsTyped, GrowsTransitively DEF GetSource
  <2> QED
    BY <1>3, <2>1, <2>2, <2>3 DEF GetSource
<1>4. CASE GetState
  <2>1. tx' = tx \/ tx' = [tx EXCEPT !.state = Append(@, Parsed.state)]
    BY <1>4 DEF GetState
  <2>2. GrowsTo(tx, tx')
    BY <1>1, <2>1, RowsTyped, GrowsByRow
  <2>3. tx'.source = tx.source
    BY <2>1, RowsTyped DEF Tables
  <2> QED
    BY <1>4, <2>2, <2>3 DEF GetState
<1>5. CASE GetSeat
  <2>1. tx' = tx \/ tx' = [tx EXCEPT !.seat = Append(@, SeatEntry)]
    BY <1>5 DEF GetSeat, SeatEntry
  <2>2. GrowsTo(tx, tx')
    BY <1>1, <2>1, RowsTyped, GrowsByRow
  <2>3. tx'.source = tx.source
    BY <2>1, RowsTyped DEF Tables
  <2> QED
    BY <1>5, <2>2, <2>3 DEF GetSeat
<1>6. CASE GetElection
  <2>1. tx' = tx \/ tx' = [tx EXCEPT !.election = Append(@, PollEntry)]
    BY <1>6 DEF GetElection, PollEntry
  <2>2. GrowsTo(tx, tx')
    BY <1>1, <2>1, RowsTyped, GrowsByRow
  <2>3. tx'.source = tx.source
    BY <2>1, RowsTyped DEF Tables
  <2> QED
    BY <1>6, <2>2, <2>3 DEF GetElection
<1>7. CASE GetParty
  <2>1. Cand.party \in Parties /\ (tx' = tx \/ tx' = [f EXCEPT !.party = Append(@, Cand.party)])
    BY <1>7, RowsTyped DEF GetParty, Turn
  <2>2. tx' \in Tables /\ GrowsTo(tx, tx')
    BY <1>1, <1>2, <2>1, RowsTyped, Appending, GrowsByRow
  <2> QED
    BY <1>1, <1>7, <2>1, <2>2, RowsTyped DEF GetParty, Tables
<1>8. CASE ResolvePerson
  <2>1. Cand.name \in Names /\ (tx' = tx \/ tx' = [f EXCEPT !.person = Append(@, Cand.name)])
    BY <1>8, RowsTyped DEF ResolvePerson, Turn
  <2>2. tx' \in Tables /\ GrowsTo(tx, tx')
    BY <1>1, <1>2, <2>1, RowsTyped, Appending, GrowsByRow
  <2> QED
    BY <1>1, <1>8, <2>1, <2>2, RowsTyped DEF ResolvePerson, Tables
<1>9. CASE NewCandidacy
  <2>1. tx' = [f EXCEPT !.candidacy = Append(@, CandEntry)]
    BY <1>9 DEF NewCandidacy, CandEntry
  <2>2. tx' \in Tables /\ GrowsTo(tx, tx')
    BY <1>2, <2>1, RowsTyped, Appending, GrowsByRow
  <2> QED
    BY <1>1, <1>9, <2>1, <2>2, RowsTyped DEF NewCandidacy, Tables
<1>10. CASE AddResult
  BY <1>1, <1>10 DEF AddResult
<1>11. CASE CompareResult
  <2>1. tx' = tx \/ tx' = [f EXCEPT !.review = @ \cup {ThisSource}]
    BY <1>11 DEF CompareResult
  <2>2. tx' \in Tables /\ GrowsTo(tx, tx')
    BY <1>1, <1>2, <2>1, RowsTyped, Appending, GrowsByRow
  <2> QED
    BY <1>1, <1>11, <2>1, <2>2, RowsTyped DEF CompareResult, Tables
<1>12. CASE AttachIdentifier
  <2>1. tx' = tx \/ (CsiEntry \in CsiRow /\ tx' = [f EXCEPT !.csi = Append(@, CsiEntry)])
    BY <1>12, RowsTyped DEF AttachIdentifier, CsiEntry, Turn
  <2>2. tx' \in Tables /\ GrowsTo(tx, tx')
    BY <1>1, <1>2, <2>1, RowsTyped, Appending, GrowsByRow
  <2> QED
    BY <1>1, <1>12, <2>1, <2>2, RowsTyped DEF AttachIdentifier, Tables
<1> QED
  BY <1>3, <1>4, <1>5, <1>6, <1>7, <1>8, <1>9, <1>10, <1>11, <1>12 DEF Session

LEMMA SessionHistory == ASSUME WellTyped, History, Session, WellTyped' PROVE History'
<1>1. /\ db \in Tables /\ tx \in Tables /\ tx' \in Tables /\ db' = db /\ doc' = doc /\ GrowsTo(tx, tx')
  BY SessionGrows DEF WellTyped, TypeOK
<1>2. GrowsTo(db, tx)'
  BY <1>1, GrowsTransitively DEF History
<1>3. NewBytes => NewBytes'
  BY <1>1 DEF NewBytes
<1>4. CASE GetSource
  <2>1. tx = db /\ pending = <<>> /\ pending' = <<>> /\ step' \in {"state", "finish"}
    BY <1>4 DEF History, Clean, GetSource
  <2>2. CASE status' = "UNCHANGED"
    BY <1>1, <1>2, <1>4, <2>1, <2>2 DEF History, Clean, GetSource, Turn
  <2>3. CASE Same = {}
    BY <1>1, <1>2, <1>3, <1>4, <2>1, <2>3 DEF History, GetSource, Same, NewBytes, Turn
  <2> QED
    BY <1>4, <2>2, <2>3 DEF GetSource, SourceStatus
<1>5. CASE ~GetSource
  <2>1. step \in Turn \ {"source"}
    BY <1>5 DEF Session, GetState, GetSeat, GetElection, GetParty, ResolvePerson, NewCandidacy,
                AddResult, CompareResult, AttachIdentifier, Turn
  <2>2. step' \notin {"idle", "fetch", "source"}
    BY <1>5 DEF Session, GetState, GetSeat, GetElection, GetParty, ResolvePerson, NewCandidacy,
                AddResult, CompareResult, AttachIdentifier, NextTurn
  <2>3. NewBytes'
    BY <1>3, <2>1 DEF History
  <2> QED
    BY <1>2, <2>2, <2>3 DEF History
<1> QED
  BY <1>4, <1>5

(* The steps outside the transaction.                                      *)
LEMMA RunHistory ==
  ASSUME WellTyped, History, StartRun \/ Fetch \/ FinishRun \/ FailRun \/ Fault \/ Crash \/ UNCHANGED vars
  PROVE  History'
<1>1. db \in Tables /\ GrowsTo(db, db) /\ GrowsTo(Flush(tx), Flush(tx))
  BY RowsTyped, GrowsSame DEF WellTyped, TypeOK
<1>2. CASE StartRun \/ Fetch
  BY <1>2 DEF History, Clean, StartRun, Fetch, tables, Turn
<1>3. CASE FinishRun \/ FailRun \/ Crash
  BY <1>1, <1>3 DEF History, Clean, FinishRun, FailRun, Crash, Close, Rest, Turn
<1>4. CASE Fault
  BY <1>4 DEF History, Clean, Fault, tables, Turn
<1>5. CASE UNCHANGED vars
  BY <1>5 DEF History, Clean, NewBytes, vars, tables
<1> QED
  BY <1>2, <1>3, <1>4, <1>5

LEMMA Histories == Spec => []History
<1>1. Init => History
  BY GrowsSame, InitWellTyped DEF Init, History, Clean, Turn, WellTyped, TypeOK
<1>2. WellTyped /\ WellTyped' /\ History /\ [Next]_vars => History'
  BY SessionHistory, RunHistory DEF Next, Proceed, Session
<1> QED
  BY <1>1, <1>2, Typed, PTL DEF Spec

LEMMA SuccessCommits ==
  ASSUME WellTyped, [Next]_vars, db' # db
  PROVE  run'[Len(run')] = "SUCCESS"
<1>1. FinishRun
  BY SessionGrows DEF Next, Proceed, Session, StartRun, Fetch, FailRun, Fault, Crash, vars, tables
<1>2. run \in Seq({"RUNNING", "SUCCESS", "FAILED"}) /\ Len(run) \in 1..Len(run)
  BY <1>1, EmptySeq, LenProperties DEF WellTyped, TypeOK, HasRow, FinishRun
<1>3. run' = [run EXCEPT ![Len(run)] = "SUCCESS"]
  BY <1>1 DEF FinishRun, Close
<1> QED
  BY <1>2, <1>3, ExceptSeq

(* Ingestion never rewrites history: each commit only adds rows, and only  *)
(* the commit of a run that reports SUCCESS changes the tables.            *)
THEOREM HistoryKept == Spec => HistoryIsKept
<1>1. WellTyped /\ History /\ [Next]_vars => GrowsTo(db, db')
  <2> SUFFICES ASSUME WellTyped, History, [Next]_vars PROVE GrowsTo(db, db')
    OBVIOUS
  <2>1. db' = db \/ db' = Flush(tx)
    BY SessionGrows DEF Next, Proceed, Session, StartRun, Fetch, FinishRun, FailRun, Fault, Crash,
                        vars, tables
  <2>2. db \in Tables /\ GrowsTo(db, db) /\ GrowsTo(tx, Flush(tx))
    BY GrowsSame, GrowsByFlush DEF WellTyped, TypeOK
  <2>3. GrowsTo(db, Flush(tx))
    BY <2>2, RowsTyped, GrowsTransitively DEF History
  <2> QED
    BY <2>1, <2>2, <2>3
<1>2. GrowsTo(db, db') =>
        /\ Extends(db.source, db'.source) /\ Extends(db.election, db'.election)
        /\ Extends(db.person, db'.person) /\ Extends(db.candidacy, db'.candidacy)
        /\ Extends(db.result, db'.result) /\ Extends(db.csi, db'.csi) /\ db.review \subseteq db'.review
  BY DEF GrowsTo
<1>3. WellTyped /\ [Next]_vars => (db' # db => run'[Len(run')] = "SUCCESS")
  BY SuccessCommits
<1> QED
  BY <1>1, <1>2, <1>3, Typed, Histories, PTL DEF Spec, HistoryIsKept

(* Known bytes, from whatever URL, leave the tables as they are.           *)
THEOREM ReimportKeepsTables == Spec => ReimportIsNoOp
<1>1. WellTyped /\ History /\ [Next]_vars =>
        \A i \in Ids(db.source) : FinishRun /\ db.source[i].sha = doc.sha => db' = db
  <2> SUFFICES ASSUME WellTyped, History, FinishRun,
                      NEW i \in Ids(db.source), db.source[i].sha = doc.sha
               PROVE  db' = db
    OBVIOUS
  <2>1. tx = db /\ pending = <<>>
    BY DEF History, Clean, NewBytes, FinishRun
  <2>2. tx \in Tables /\ tx.result \o <<>> = tx.result
    BY Columns, ConcatEmptySeq DEF WellTyped, TypeOK
  <2>3. Flush(tx) = tx
    BY <2>1, <2>2 DEF Flush, Tables
  <2> QED
    BY <2>1, <2>3 DEF FinishRun
<1> QED
  BY <1>1, Typed, Histories, PTL DEF Spec, ReimportIsNoOp

-----------------------------------------------------------------------------
(* Changed documents.  In what is committed and in what the session sees,  *)
(* a document that is not the first of its URL is up for review.           *)
Reviewed(t) ==
  \A i \in Ids(t.source) : (\A j \in 1..(i - 1) : t.source[j].url # t.source[i].url) \/ i \in t.review

LEMMA ReviewedGrows ==
  ASSUME NEW t, NEW u, Reviewed(t), u.source = t.source, t.review \subseteq u.review
  PROVE  Reviewed(u)
BY DEF Reviewed

LEMMA SourceReviewed == ASSUME WellTyped, Reviewed(tx), GetSource PROVE Reviewed(tx')
<1> DEFINE n == Len(tx.source)
<1>1. tx \in Tables /\ doc \in Document /\ tx.source \in Seq(Document) /\ n \in Nat
  BY Columns DEF WellTyped, TypeOK
<1>2. CASE status' = "UNCHANGED"
  BY <1>2 DEF GetSource
<1>3. CASE status' # "UNCHANGED"
  <2>1. tx'.source = Append(tx.source, doc) /\ tx.review \subseteq tx'.review
    BY <1>1, <1>3 DEF GetSource, Tables
  <2>2. Prior = {} \/ n + 1 \in tx'.review
    BY <1>1, <1>3 DEF GetSource, SourceStatus, Tables
  <2>3. /\ Len(tx'.source) = n + 1 /\ tx'.source[n + 1] = doc
        /\ \A i \in 1..n : tx'.source[i] = tx.source[i]
    BY <1>1, <2>1, AppendProperties
  <2>4. ASSUME NEW i \in 1..n
        PROVE  (\A j \in 1..(i - 1) : tx'.source[j].url # tx'.source[i].url) \/ i \in tx'.review
    <3>1. \A j \in 1..i : tx'.source[j] = tx.source[j]
      BY <1>1, <2>3
    <3> QED
      BY <1>1, <2>1, <3>1 DEF Reviewed, Ids
  <2>5. (\A j \in 1..n : tx'.source[j].url # doc.url) \/ n + 1 \in tx'.review
    BY <1>1, <2>2, <2>3 DEF Prior, Ids
  <2> QED
    BY <1>1, <2>3, <2>4, <2>5 DEF Reviewed, Ids
<1> QED
  BY <1>2, <1>3

LEMMA StepReviewed ==
  ASSUME WellTyped, Reviewed(db), Reviewed(tx), [Next]_vars
  PROVE  Reviewed(db') /\ Reviewed(tx')
<1>1. CASE Session
  <2>1. GrowsTo(tx, tx') /\ db' = db /\ (GetSource \/ tx'.source = tx.source)
    BY <1>1, SessionGrows
  <2>2. CASE GetSource
    BY <2>1, <2>2, SourceReviewed
  <2>3. CASE tx'.source = tx.source
    BY <2>1, <2>3, ReviewedGrows DEF GrowsTo
  <2> QED
    BY <2>1, <2>2, <2>3
<1>2. CASE FinishRun
  <2>1. Flush(tx).source = tx.source /\ Flush(tx).review = tx.review
    BY Flushing DEF WellTyped, TypeOK, Tables
  <2>2. Reviewed(Flush(tx))
    BY <2>1, ReviewedGrows
  <2> QED
    BY <1>2, <2>2 DEF FinishRun
<1>3. CASE FailRun \/ Crash
  BY <1>3 DEF FailRun, Crash
<1>4. CASE StartRun \/ Fetch \/ Fault \/ UNCHANGED vars
  BY <1>4 DEF StartRun, Fetch, Fault, vars, tables
<1> QED
  BY <1>1, <1>2, <1>3, <1>4 DEF Next, Proceed, Session

(* New bytes under a known URL always reach a reviewer.                    *)
THEOREM ChangesReviewed == Spec => []ChangesAreReviewed
<1> DEFINE R == Reviewed(db) /\ Reviewed(tx)
<1>1. Init => R
  BY EmptySeq DEF Init, Empty, Reviewed, Ids
<1>2. WellTyped /\ R /\ [Next]_vars => R'
  BY StepReviewed
<1>3. R => ChangesAreReviewed
  BY DEF Reviewed, ChangesAreReviewed, FirstOfUrl
<1> QED
  BY <1>1, <1>2, <1>3, Typed, PTL DEF Spec

-----------------------------------------------------------------------------
(* Duplicates.  Every table the session sees is free of them and every     *)
(* result belongs to a candidacy; the result that is pending belongs to a  *)
(* candidacy that has none, unless the transaction is about to be undone.  *)
NoDuplicates(t) ==
  /\ UniqueBy(t.source, SourceKey) /\ UniqueBy(t.party, RowKey) /\ UniqueBy(t.person, RowKey)
  /\ UniqueBy(t.election, ElectionKey) /\ UniqueBy(t.candidacy, CandidacyKey)
  /\ UniqueBy(t.result, ResultKey) /\ UniqueBy(t.csi, CsiKey)
ResultsBelong(t) == \A i \in Ids(t.result) : t.result[i].candidacy \in Ids(t.candidacy)
Sound(t) == NoDuplicates(t) /\ ResultsBelong(t)
PendingIsNew ==
  \/ step = "raise" \/ pending = <<>>
  \/ \E r \in Result : pending = <<r>> /\ r.candidacy \in Ids(tx.candidacy) /\ ResultsOf(r.candidacy) = {}
Consistent == Sound(db) /\ Sound(tx) /\ PendingIsNew

LEMMA FlushSound == ASSUME WellTyped, Consistent, step # "raise" PROVE Sound(Flush(tx))
<1> DEFINE f == Flush(tx)
<1>1. /\ tx \in Tables /\ tx.result \in Seq(Result) /\ Len(tx.result) \in Nat
      /\ f = [tx EXCEPT !.result = tx.result \o pending]
  BY Columns, Flushing DEF WellTyped, TypeOK
<1>2. /\ f.source = tx.source /\ f.party = tx.party /\ f.person = tx.person
      /\ f.election = tx.election /\ f.candidacy = tx.candidacy /\ f.csi = tx.csi
      /\ f.result = tx.result \o pending
  BY <1>1 DEF Tables
<1>3. CASE pending = <<>>
  <2>1. f.result = tx.result
    BY <1>1, <1>2, <1>3, ConcatEmptySeq
  <2> QED
    BY <1>2, <2>1 DEF Consistent, Sound, NoDuplicates, ResultsBelong
<1>4. CASE pending # <<>>
  <2>1. PICK r \in Result : pending = <<r>> /\ r.candidacy \in Ids(tx.candidacy) /\ ResultsOf(r.candidacy) = {}
    BY <1>4 DEF Consistent, PendingIsNew
  <2>2. f.result = Append(tx.result, r)
    BY <1>1, <1>2, <2>1, AppendIsConcat
  <2>3. /\ Len(f.result) = Len(tx.result) + 1 /\ f.result[Len(tx.result) + 1] = r
        /\ \A i \in 1..Len(tx.result) : f.result[i] = tx.result[i] /\ tx.result[i].candidacy # r.candidacy
    BY <1>1, <2>1, <2>2, AppendProperties DEF ResultsOf, Ids
  <2>4. UniqueBy(f.result, ResultKey)
    BY <1>1, <2>3 DEF Consistent, Sound, NoDuplicates, UniqueBy, ResultKey, Ids
  <2>5. ResultsBelong(f)
    BY <1>1, <1>2, <2>1, <2>3 DEF Consistent, Sound, ResultsBelong, Ids
  <2> QED
    BY <1>2, <2>4, <2>5 DEF Consistent, Sound, NoDuplicates
<1> QED
  BY <1>3, <1>4

(* A row with a new key keeps a table free of duplicates.                  *)
LEMMA SourceSound ==
  ASSUME NEW t \in Tables, Sound(t), NEW r \in Document,
         \A i \in Ids(t.source) : t.source[i].sha # r.sha
  PROVE  Sound([t EXCEPT !.source = Append(@, r)])
<1> DEFINE u == [t EXCEPT !.source = Append(@, r)]
<1>1. /\ u.source = Append(t.source, r)
      /\ u.party = t.party /\ u.person = t.person /\ u.election = t.election
      /\ u.candidacy = t.candidacy /\ u.result = t.result /\ u.csi = t.csi
  BY DEF Tables
<1>2. t.source \in Seq(Document) /\ Len(t.source) \in Nat
  BY Columns
<1>3. /\ Len(u.source) = Len(t.source) + 1 /\ u.source[Len(t.source) + 1] = r
      /\ \A i \in 1..Len(t.source) : u.source[i] = t.source[i]
  BY <1>1, <1>2, AppendProperties
<1>4. UniqueBy(u.source, SourceKey)
  <2>1. \A i, j \in 1..Len(t.source) : t.source[i].sha = t.source[j].sha => i = j
    BY DEF Sound, NoDuplicates, UniqueBy, SourceKey, Ids
  <2> QED
    BY <1>2, <1>3, <2>1 DEF UniqueBy, SourceKey, Ids
<1> QED
  BY <1>1, <1>2, <1>3, <1>4 DEF Sound, NoDuplicates, ResultsBelong, Ids

LEMMA PartySound ==
  ASSUME NEW t \in Tables, Sound(t), NEW r \in Parties,
         \A i \in Ids(t.party) : t.party[i] # r
  PROVE  Sound([t EXCEPT !.party = Append(@, r)])
<1> DEFINE u == [t EXCEPT !.party = Append(@, r)]
<1>1. /\ u.party = Append(t.party, r)
      /\ u.source = t.source /\ u.person = t.person /\ u.election = t.election
      /\ u.candidacy = t.candidacy /\ u.result = t.result /\ u.csi = t.csi
  BY DEF Tables
<1>2. t.party \in Seq(Parties) /\ Len(t.party) \in Nat
  BY Columns
<1>3. /\ Len(u.party) = Len(t.party) + 1 /\ u.party[Len(t.party) + 1] = r
      /\ \A i \in 1..Len(t.party) : u.party[i] = t.party[i]
  BY <1>1, <1>2, AppendProperties
<1>4. UniqueBy(u.party, RowKey)
  <2>1. \A i, j \in 1..Len(t.party) : t.party[i] = t.party[j] => i = j
    BY DEF Sound, NoDuplicates, UniqueBy, RowKey, Ids
  <2> QED
    BY <1>2, <1>3, <2>1 DEF UniqueBy, RowKey, Ids
<1> QED
  BY <1>1, <1>2, <1>3, <1>4 DEF Sound, NoDuplicates, ResultsBelong, Ids

LEMMA PersonSound ==
  ASSUME NEW t \in Tables, Sound(t), NEW r \in Names,
         \A i \in Ids(t.person) : t.person[i] # r
  PROVE  Sound([t EXCEPT !.person = Append(@, r)])
<1> DEFINE u == [t EXCEPT !.person = Append(@, r)]
<1>1. /\ u.person = Append(t.person, r)
      /\ u.source = t.source /\ u.party = t.party /\ u.election = t.election
      /\ u.candidacy = t.candidacy /\ u.result = t.result /\ u.csi = t.csi
  BY DEF Tables
<1>2. t.person \in Seq(Names) /\ Len(t.person) \in Nat
  BY Columns
<1>3. /\ Len(u.person) = Len(t.person) + 1 /\ u.person[Len(t.person) + 1] = r
      /\ \A i \in 1..Len(t.person) : u.person[i] = t.person[i]
  BY <1>1, <1>2, AppendProperties
<1>4. UniqueBy(u.person, RowKey)
  <2>1. \A i, j \in 1..Len(t.person) : t.person[i] = t.person[j] => i = j
    BY DEF Sound, NoDuplicates, UniqueBy, RowKey, Ids
  <2> QED
    BY <1>2, <1>3, <2>1 DEF UniqueBy, RowKey, Ids
<1> QED
  BY <1>1, <1>2, <1>3, <1>4 DEF Sound, NoDuplicates, ResultsBelong, Ids

LEMMA ElectionSound ==
  ASSUME NEW t \in Tables, Sound(t), NEW r \in PollRow,
         \A i \in Ids(t.election) : ~(t.election[i].poll = r.poll /\ t.election[i].seat = r.seat)
  PROVE  Sound([t EXCEPT !.election = Append(@, r)])
<1> DEFINE u == [t EXCEPT !.election = Append(@, r)]
<1>1. /\ u.election = Append(t.election, r)
      /\ u.source = t.source /\ u.party = t.party /\ u.person = t.person
      /\ u.candidacy = t.candidacy /\ u.result = t.result /\ u.csi = t.csi
  BY DEF Tables
<1>2. t.election \in Seq(PollRow) /\ Len(t.election) \in Nat
  BY Columns
<1>3. /\ Len(u.election) = Len(t.election) + 1 /\ u.election[Len(t.election) + 1] = r
      /\ \A i \in 1..Len(t.election) : u.election[i] = t.election[i]
  BY <1>1, <1>2, AppendProperties
<1>4. UniqueBy(u.election, ElectionKey)
  <2>1. \A x, y : ElectionKey(x) = ElectionKey(y) => x.poll = y.poll /\ x.seat = y.seat
    BY DEF ElectionKey
  <2>2. \A i, j \in 1..Len(t.election) : ElectionKey(t.election[i]) = ElectionKey(t.election[j]) => i = j
    BY DEF Sound, NoDuplicates, UniqueBy, Ids
  <2> QED
    BY <1>2, <1>3, <2>1, <2>2 DEF UniqueBy, Ids
<1> QED
  BY <1>1, <1>2, <1>3, <1>4 DEF Sound, NoDuplicates, ResultsBelong, Ids

LEMMA CandidacySound ==
  ASSUME NEW t \in Tables, Sound(t), NEW r \in CandRow,
         \A i \in Ids(t.candidacy) : ~(t.candidacy[i].person = r.person /\ t.candidacy[i].election = r.election)
  PROVE  Sound([t EXCEPT !.candidacy = Append(@, r)])
<1> DEFINE u == [t EXCEPT !.candidacy = Append(@, r)]
<1>1. /\ u.candidacy = Append(t.candidacy, r)
      /\ u.source = t.source /\ u.party = t.party /\ u.person = t.person
      /\ u.election = t.election /\ u.result = t.result /\ u.csi = t.csi
  BY DEF Tables
<1>2. t.candidacy \in Seq(CandRow) /\ Len(t.candidacy) \in Nat
  BY Columns
<1>3. /\ Len(u.candidacy) = Len(t.candidacy) + 1 /\ u.candidacy[Len(t.candidacy) + 1] = r
      /\ \A i \in 1..Len(t.candidacy) : u.candidacy[i] = t.candidacy[i]
  BY <1>1, <1>2, AppendProperties
<1>4. UniqueBy(u.candidacy, CandidacyKey)
  <2>1. \A x, y : CandidacyKey(x) = CandidacyKey(y) => x.person = y.person /\ x.election = y.election
    BY DEF CandidacyKey
  <2>2. \A i, j \in 1..Len(t.candidacy) : CandidacyKey(t.candidacy[i]) = CandidacyKey(t.candidacy[j]) => i = j
    BY DEF Sound, NoDuplicates, UniqueBy, Ids
  <2> QED
    BY <1>2, <1>3, <2>1, <2>2 DEF UniqueBy, Ids
<1> QED
  BY <1>1, <1>2, <1>3, <1>4 DEF Sound, NoDuplicates, ResultsBelong, Ids

LEMMA CsiSound ==
  ASSUME NEW t \in Tables, Sound(t), NEW r \in CsiRow,
         \A i \in Ids(t.csi) : ~(t.csi[i].value = r.value /\ t.csi[i].election = r.election)
  PROVE  Sound([t EXCEPT !.csi = Append(@, r)])
<1> DEFINE u == [t EXCEPT !.csi = Append(@, r)]
<1>1. /\ u.csi = Append(t.csi, r)
      /\ u.source = t.source /\ u.party = t.party /\ u.person = t.person
      /\ u.election = t.election /\ u.candidacy = t.candidacy /\ u.result = t.result
  BY DEF Tables
<1>2. t.csi \in Seq(CsiRow) /\ Len(t.csi) \in Nat
  BY Columns
<1>3. /\ Len(u.csi) = Len(t.csi) + 1 /\ u.csi[Len(t.csi) + 1] = r
      /\ \A i \in 1..Len(t.csi) : u.csi[i] = t.csi[i]
  BY <1>1, <1>2, AppendProperties
<1>4. UniqueBy(u.csi, CsiKey)
  <2>1. \A x, y : CsiKey(x) = CsiKey(y) => x.value = y.value /\ x.election = y.election
    BY DEF CsiKey
  <2>2. \A i, j \in 1..Len(t.csi) : CsiKey(t.csi[i]) = CsiKey(t.csi[j]) => i = j
    BY DEF Sound, NoDuplicates, UniqueBy, Ids
  <2> QED
    BY <1>2, <1>3, <2>1, <2>2 DEF UniqueBy, Ids
<1> QED
  BY <1>1, <1>2, <1>3, <1>4 DEF Sound, NoDuplicates, ResultsBelong, Ids

LEMMA OtherSound ==
  ASSUME NEW t \in Tables, Sound(t)
  PROVE  /\ \A r \in States  : Sound([t EXCEPT !.state = Append(@, r)])
         /\ \A r \in SeatRow : Sound([t EXCEPT !.seat = Append(@, r)])
         /\ \A n \in Nat     : Sound([t EXCEPT !.review = @ \cup {n}])
BY DEF Tables, Sound, NoDuplicates, ResultsBelong

(* What is left to show of a step that flushed or did not disturb results. *)
LEMMA PendingStays ==
  ASSUME Consistent, step # "raise", UNCHANGED pending,
         tx'.result = tx.result, tx'.candidacy = tx.candidacy
  PROVE  PendingIsNew'
BY DEF Consistent, PendingIsNew, ResultsOf

LEMMA SourceConsistent == ASSUME WellTyped, Consistent, GetSource PROVE Consistent'
<1>1. tx \in Tables /\ doc \in Document /\ ThisSource + 1 \in Nat
  BY RowsTyped
<1>2. CASE status' = "UNCHANGED"
  <2>1. UNCHANGED <<db, tx, pending>> /\ step # "raise"
    BY <1>2 DEF GetSource
  <2> QED
    BY <2>1, PendingStays DEF Consistent
<1>3. CASE status' # "UNCHANGED"
  <2> DEFINE t == [tx EXCEPT !.source = Append(@, doc)]
  <2>1. \A i \in Ids(tx.source) : tx.source[i].sha # doc.sha
    BY <1>3 DEF GetSource, SourceStatus, Same
  <2>2. t \in Tables /\ Sound(t)
    BY <1>1, <2>1, Appending, SourceSound DEF Consistent
  <2>3. tx' = t \/ tx' = [t EXCEPT !.review = @ \cup {ThisSource + 1}]
    BY <1>1, <1>3 DEF GetSource, SourceStatus, ThisSource, Tables
  <2>4. Sound(tx')
    BY <1>1, <2>2, <2>3, OtherSound
  <2>5. /\ tx'.result = tx.result /\ tx'.candidacy = tx.candidacy /\ step # "raise"
        /\ UNCHANGED <<db, pending>>
    BY <1>1, <1>3, <2>3 DEF GetSource, Tables
  <2> QED
    BY <2>4, <2>5, PendingStays DEF Consistent
<1> QED
  BY <1>2, <1>3

LEMMA StateConsistent == ASSUME WellTyped, Consistent, GetState PROVE Consistent'
<1>1. tx \in Tables /\ Parsed.state \in States
  BY RowsTyped
<1>2. tx' = tx \/ tx' = [tx EXCEPT !.state = Append(@, Parsed.state)]
  BY DEF GetState
<1>3. Sound(tx')
  BY <1>1, <1>2, OtherSound DEF Consistent
<1>4. tx'.result = tx.result /\ tx'.candidacy = tx.candidacy
  BY <1>1, <1>2 DEF Tables
<1> QED
  BY <1>3, <1>4, PendingStays DEF Consistent, GetState

LEMMA SeatConsistent == ASSUME WellTyped, Consistent, GetSeat PROVE Consistent'
<1>1. tx \in Tables /\ SeatEntry \in SeatRow
  BY RowsTyped
<1>2. tx' = tx \/ tx' = [tx EXCEPT !.seat = Append(@, SeatEntry)]
  BY DEF GetSeat, SeatEntry
<1>3. Sound(tx')
  BY <1>1, <1>2, OtherSound DEF Consistent
<1>4. tx'.result = tx.result /\ tx'.candidacy = tx.candidacy
  BY <1>1, <1>2 DEF Tables
<1> QED
  BY <1>3, <1>4, PendingStays DEF Consistent, GetSeat

LEMMA ElectionConsistent == ASSUME WellTyped, Consistent, GetElection PROVE Consistent'
<1>1. tx \in Tables /\ PollEntry \in PollRow
  BY RowsTyped
<1>2. \/ tx' = tx
      \/ ElectionsFound = {} /\ tx' = [tx EXCEPT !.election = Append(@, PollEntry)]
  BY DEF GetElection, PollEntry
<1>3. ElectionsFound = {} =>
        \A i \in Ids(tx.election) : ~(tx.election[i].poll = PollEntry.poll /\ tx.election[i].seat = PollEntry.seat)
  BY DEF ElectionsFound, PollEntry
<1>4. Sound(tx')
  BY <1>1, <1>2, <1>3, ElectionSound DEF Consistent
<1>5. tx'.result = tx.result /\ tx'.candidacy = tx.candidacy
  BY <1>1, <1>2 DEF Tables
<1> QED
  BY <1>4, <1>5, PendingStays DEF Consistent, GetElection

LEMMA PartyConsistent == ASSUME WellTyped, Consistent, GetParty PROVE Consistent'
<1>1. CASE UNCHANGED <<tx, pending>>
  BY <1>1, PendingStays DEF Consistent, GetParty
<1>2. CASE /\ Find(tx.party, Cand.party) = {}
           /\ tx' = [Flush(tx) EXCEPT !.party = Append(@, Cand.party)]
           /\ pending' = <<>>
  <2>1. Flush(tx) \in Tables /\ Flush(tx).party = tx.party /\ Cand.party \in Parties
    BY RowsTyped, Flushing DEF WellTyped, Tables, GetParty, Turn
  <2>2. \A i \in Ids(Flush(tx).party) : Flush(tx).party[i] # Cand.party
    BY <1>2, <2>1 DEF Find
  <2>3. Sound(Flush(tx))
    BY FlushSound DEF GetParty
  <2>4. Sound(tx')
    BY <1>2, <2>1, <2>2, <2>3, PartySound
  <2> QED
    BY <1>2, <2>4 DEF Consistent, PendingIsNew, GetParty
<1> QED
  BY <1>1, <1>2 DEF GetParty

(* As names are unique, a person is new only when there is none of the name. *)
LEMMA PersonConsistent == ASSUME WellTyped, Consistent, ResolvePerson PROVE Consistent'
<1>1. CASE UNCHANGED <<tx, pending>>
  BY <1>1, PendingStays DEF Consistent, ResolvePerson
<1>2. CASE /\ \A i \in Ids(tx.person) : Find(tx.person, Cand.name) # {i}
           /\ tx' = [Flush(tx) EXCEPT !.person = Append(@, Cand.name)]
           /\ pending' = <<>>
  <2>1. Flush(tx) \in Tables /\ Flush(tx).person = tx.person /\ Cand.name \in Names
    BY RowsTyped, Flushing DEF WellTyped, Tables, ResolvePerson, Turn
  <2>2. ASSUME NEW i \in Ids(tx.person), tx.person[i] = Cand.name PROVE FALSE
    <3>1. \A j \in Ids(tx.person) : tx.person[j] = Cand.name => j = i
      BY <2>2 DEF Consistent, Sound, NoDuplicates, UniqueBy, RowKey
    <3>2. Find(tx.person, Cand.name) = {i}
      BY <2>2, <3>1 DEF Find
    <3> QED
      BY <1>2, <2>2, <3>2
  <2>3. Sound(Flush(tx))
    BY FlushSound DEF ResolvePerson
  <2>4. Sound(tx')
    BY <1>2, <2>1, <2>2, <2>3, PersonSound
  <2> QED
    BY <1>2, <2>4 DEF Consistent, PendingIsNew, ResolvePerson
<1> QED
  BY <1>1, <1>2 DEF ResolvePerson

LEMMA NewCandidacyConsistent == ASSUME WellTyped, Consistent, NewCandidacy PROVE Consistent'
<1> DEFINE k == Len(tx.candidacy) + 1
<1>1. /\ tx \in Tables /\ Flush(tx) \in Tables /\ CandEntry \in CandRow
      /\ Flush(tx).candidacy = tx.candidacy
      /\ tx.candidacy \in Seq(CandRow) /\ Len(tx.candidacy) \in Nat
      /\ ResultRow(k) \in Result /\ ResultRow(k).candidacy = k
  <2>1. tx \in Tables /\ Flush(tx) \in Tables /\ CandEntry \in CandRow
    BY RowsTyped
  <2>2. Flush(tx).candidacy = tx.candidacy
    BY <2>1, Flushing DEF WellTyped, Tables
  <2>3. tx.candidacy \in Seq(CandRow) /\ Len(tx.candidacy) \in Nat
    BY <2>1, Columns
  <2>4. ResultRow(k) \in Result /\ ResultRow(k).candidacy = k
    BY <2>3, RowTyped DEF NewCandidacy, Turn, ResultRow
  <2> QED
    BY <2>1, <2>2, <2>3, <2>4
<1>2. tx' = [Flush(tx) EXCEPT !.candidacy = Append(@, CandEntry)] /\ pending' = <<ResultRow(k)>>
  BY DEF NewCandidacy, CandEntry
<1>3. \A i \in Ids(tx.candidacy) : ~(/\ tx.candidacy[i].person = CandEntry.person
                                     /\ tx.candidacy[i].election = CandEntry.election)
  BY DEF NewCandidacy, CandidaciesFound, CandEntry
<1>4. Sound(Flush(tx))
  BY FlushSound DEF NewCandidacy
<1>5. Sound(tx')
  BY <1>1, <1>2, <1>3, <1>4, CandidacySound
<1>6. tx'.candidacy = Append(tx.candidacy, CandEntry) /\ tx'.result = Flush(tx).result
  BY <1>1, <1>2 DEF Tables
<1>7. k \in Ids(tx'.candidacy)
  BY <1>1, <1>6, AppendProperties DEF Ids
<1>8. \A i \in Ids(tx'.result) : tx'.result[i].candidacy # k
  BY <1>1, <1>4, <1>6 DEF Sound, ResultsBelong, Ids
<1>9. PendingIsNew'
  <2>1. PICK r \in Result : r = ResultRow(k)
    BY <1>1
  <2>2. pending' = <<r>> /\ r.candidacy \in Ids(tx'.candidacy)
    BY <1>1, <1>2, <1>7, <2>1
  <2>3. ResultsOf(r.candidacy)' = {}
    BY <1>1, <1>8, <2>1 DEF ResultsOf
  <2> QED
    BY <2>2, <2>3 DEF PendingIsNew
<1> QED
  BY <1>5, <1>9 DEF Consistent, NewCandidacy

LEMMA AddResultConsistent == ASSUME WellTyped, Consistent, AddResult PROVE Consistent'
<1>1. CASE pending # <<>>
  BY <1>1 DEF Consistent, PendingIsNew, AddResult
<1>2. CASE pending = <<>>
  <2>1. PICK k \in CandidaciesFound : ResultsOf(k) = {} /\ pending' = Append(pending, ResultRow(k))
    BY DEF AddResult
  <2>2. k \in Ids(tx.candidacy) /\ k \in Nat
    BY Columns, RowsTyped DEF CandidaciesFound, Ids
  <2>3. ResultRow(k) \in Result /\ ResultRow(k).candidacy = k
    BY <2>2, RowTyped DEF AddResult, Turn, ResultRow
  <2>4. pending' = <<ResultRow(k)>>
    BY <1>2, <2>1
  <2> QED
    BY <2>1, <2>2, <2>3, <2>4 DEF Consistent, PendingIsNew, ResultsOf, AddResult
<1> QED
  BY <1>1, <1>2

LEMMA CompareResultConsistent == ASSUME WellTyped, Consistent, CompareResult PROVE Consistent'
<1>1. CASE UNCHANGED <<tx, pending>>
  BY <1>1, PendingStays DEF Consistent, CompareResult
<1>2. CASE tx' = [Flush(tx) EXCEPT !.review = @ \cup {ThisSource}] /\ pending' = <<>>
  <2>1. Sound(tx')
    BY <1>2, FlushSound, OtherSound, RowsTyped DEF CompareResult
  <2> QED
    BY <1>2, <2>1 DEF Consistent, PendingIsNew, CompareResult
<1> QED
  BY <1>1, <1>2 DEF CompareResult

LEMMA AttachIdentifierConsistent == ASSUME WellTyped, Consistent, AttachIdentifier PROVE Consistent'
<1>1. CASE UNCHANGED <<tx, pending>>
  BY <1>1, PendingStays DEF Consistent, AttachIdentifier
<1>2. CASE /\ Cand.ext # NoExt /\ Holders = {}
           /\ tx' = [Flush(tx) EXCEPT !.csi = Append(@, CsiEntry)]
           /\ pending' = <<>>
  <2>1. Flush(tx) \in Tables /\ Flush(tx).csi = tx.csi /\ CsiEntry \in CsiRow
    BY <1>2, RowsTyped, Flushing DEF WellTyped, Tables, AttachIdentifier, Turn
  <2>2. \A i \in Ids(tx.csi) : ~(/\ tx.csi[i].value = CsiEntry.value
                                 /\ tx.csi[i].election = CsiEntry.election)
    BY <1>2 DEF Holders, CsiEntry
  <2>3. Sound(Flush(tx))
    BY FlushSound DEF AttachIdentifier
  <2>4. Sound(tx')
    BY <1>2, <2>1, <2>2, <2>3, CsiSound
  <2> QED
    BY <1>2, <2>4 DEF Consistent, PendingIsNew, AttachIdentifier
<1> QED
  BY <1>1, <1>2 DEF AttachIdentifier, CsiEntry

LEMMA RunConsistent ==
  ASSUME WellTyped, Consistent,
         StartRun \/ Fetch \/ FinishRun \/ FailRun \/ Fault \/ Crash \/ UNCHANGED vars
  PROVE  Consistent'
<1>1. CASE StartRun \/ Fetch \/ UNCHANGED vars
  <2>1. UNCHANGED <<db, tx, pending>> /\ (step # "raise" \/ UNCHANGED step)
    BY <1>1 DEF StartRun, Fetch, vars, tables
  <2> QED
    BY <2>1, PendingStays DEF Consistent, PendingIsNew
<1>2. CASE FinishRun
  <2>1. Sound(Flush(tx))
    BY <1>2, FlushSound DEF FinishRun
  <2> QED
    BY <1>2, <2>1 DEF Consistent, PendingIsNew, FinishRun, Close, Rest
<1>3. CASE FailRun \/ Crash
  BY <1>3 DEF Consistent, PendingIsNew, FailRun, Crash, Close, Rest
<1>4. CASE Fault
  BY <1>4 DEF Consistent, PendingIsNew, Fault, tables
<1> QED
  BY <1>1, <1>2, <1>3, <1>4

LEMMA InitConsistent == Init => Consistent
BY EmptySeq DEF Init, Empty, Consistent, Sound, NoDuplicates, ResultsBelong, UniqueBy, PendingIsNew, Ids

(* Nothing is entered twice, whatever is ingested, fails or dies.          *)
THEOREM NothingEnteredTwice == Spec => []NothingTwice
<1>1. WellTyped /\ Consistent /\ [Next]_vars => Consistent'
  BY SourceConsistent, StateConsistent, SeatConsistent, ElectionConsistent, PartyConsistent,
     PersonConsistent, NewCandidacyConsistent, AddResultConsistent, CompareResultConsistent,
     AttachIdentifierConsistent, RunConsistent DEF Next, Proceed
<1>2. Consistent => NothingTwice
  BY DEF Consistent, Sound, NoDuplicates, NothingTwice
<1> QED
  BY <1>1, <1>2, InitConsistent, Typed, PTL DEF Spec
=============================================================================
