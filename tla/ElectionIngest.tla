--------------------------- MODULE ElectionIngest ---------------------------
(***************************************************************************)
(* collectors/eci: one election result document after another goes through *)
(* fetch, archive, parse, normalize, validate and persist, in one          *)
(* collector process.  persist_normalized_election works statement by      *)
(* statement inside one database transaction, which commits with the run's *)
(* SUCCESS or is rolled back; the collector_run row commits on its own     *)
(* before and after.                                                       *)
(*                                                                         *)
(* A table is a sequence of rows.  Rows are never deleted and an id is the *)
(* greatest one in the table plus one, so a row's position is its id.      *)
(* Names stand for their normalized form.  Two processes ingesting at once *)
(* are another module's subject.                                           *)
(***************************************************************************)
EXTENDS Naturals, Sequences

CONSTANTS
  Urls,        \* source URLs
  Shas,        \* payload bytes, each standing for its SHA-256 digest
  Payload,     \* Payload[sha]: what parse and normalize make of the bytes
  Polls,       \* election types and years
  States, SeatNames, Codes, Parties, Names, Exts,   \* what payloads name
  NoCode,      \* the payload gives no constituency code
  NoExt,       \* the payload gives no external candidate id
  MaxRuns,     \* bound: collector runs
  MaxFaults,   \* bound: exceptions raised by a stage or by the database
  MaxCrashes   \* bound: times the process dies during a run

(* Rank 0 is an absent rank; a share not given follows from all the votes. *)
Score     == [votes: Nat, share: Nat, rank: Nat, result: {"WON", "LOST", "UNKNOWN"}]
Candidate == [name: Names, party: Parties, ext: Exts \cup {NoExt}, score: Score]
Parse     == [poll: Polls, state: States, seat: SeatNames, code: Codes \cup {NoCode},
              cands: Seq(Candidate)]
ASSUME PayloadAssumption == Payload \in [Shas -> Parse]
ASSUME DocumentsAssumption == Urls # {} /\ Shas # {}
ASSUME BoundsAssumption == MaxRuns \in Nat /\ MaxFaults \in Nat /\ MaxCrashes \in Nat

VARIABLES
  db,        \* committed tables
  tx,        \* the tables as the session sees them: db and its own flushed rows
  pending,   \* results added to the session and not flushed
  run,       \* run[r]: status of the collector_run row r
  step,      \* where the run is
  doc,       \* the document being ingested: its url and sha
  status,    \* what _get_or_create_source said of it
  cur,       \* ids resolved so far, and the candidate being persisted
  faults, crashes

tables == <<db, tx, pending>>
vars   == <<db, tx, pending, run, step, doc, status, cur, faults, crashes>>

Document == [url: Urls, sha: Shas]
NoDoc    == CHOOSE d \in Document : TRUE     \* stands for none before a fetch
Statuses == {"NONE", "INSERTED", "UNCHANGED", "SOURCE_CHANGED"}
Fresh    == [state |-> 0, seat |-> 0, election |-> 0,
             cand |-> 1, party |-> 0, person |-> 0, candidacy |-> 0]
Empty    == [source |-> <<>>, review |-> {}, state |-> <<>>, seat |-> <<>>, election |-> <<>>,
             party |-> <<>>, person |-> <<>>, candidacy |-> <<>>, result |-> <<>>, csi |-> <<>>]

Ids(table) == 1..Len(table)
Parsed == Payload[doc.sha]
Cand   == Parsed.cands[cur.cand]

(* validate_election, for the part that relates candidates to each other.  *)
Valid(p) ==
  LET K == Ids(p.cands)
      first == {k \in K : p.cands[k].score.rank = 1}
      winners == {k \in K : p.cands[k].score.result = "WON"}
  IN
  /\ K # {}
  /\ \A k, l \in first : k = l
  /\ \A k, l \in winners : k = l
  /\ \A k \in first, l \in winners : p.cands[k].name = p.cands[l].name
  /\ winners # {} /\ (\E k \in K : p.cands[k].score.rank # 0) => first # {}

(* Session.flush: the pending results become visible to queries.           *)
Flush(t) == [t EXCEPT !.result = @ \o pending]

Find(table, row) == {i \in Ids(table) : table[i] = row}

-----------------------------------------------------------------------------
Init ==
  /\ db = Empty /\ tx = Empty /\ pending = <<>>
  /\ run = <<>> /\ step = "idle"
  /\ doc = NoDoc /\ status = "NONE" /\ cur = Fresh
  /\ faults = 0 /\ crashes = 0

(* start_collector_run and its commit.                                     *)
StartRun ==
  /\ step = "idle" /\ Len(run) < MaxRuns
  /\ run' = Append(run, "RUNNING")
  /\ step' = "fetch"
  /\ UNCHANGED <<tables, doc, status, cur, faults, crashes>>

(* fetch, archive_raw, parse, normalize and validate of one document.      *)
Fetch ==
  /\ step = "fetch"
  /\ doc' \in Document
  /\ step' = IF Valid(Payload[doc'.sha]) THEN "source" ELSE "raise"
  /\ UNCHANGED <<tables, run, status, cur, faults, crashes>>

(* _get_or_create_source: known bytes end the ingestion, and so does a     *)
(* known URL with new bytes, after its review item.                        *)
SameDocument == {i \in Ids(tx.source) : tx.source[i] = doc}
Same  == {i \in Ids(tx.source) : tx.source[i].sha = doc.sha}
Prior == {i \in Ids(tx.source) : tx.source[i].url = doc.url}
SourceStatus ==
  IF Same # {} THEN "UNCHANGED" ELSE IF Prior # {} THEN "SOURCE_CHANGED" ELSE "INSERTED"
GetSourceIngestsChanged ==
  /\ step = "source"
  /\ status' = SourceStatus
  /\ tx' = IF Same # {} THEN tx ELSE [tx EXCEPT !.source = Append(@, doc)]
  /\ step' = IF Same # {} THEN "finish" ELSE "state"
  /\ UNCHANGED <<db, pending, run, doc, cur, faults, crashes>>
GetSource ==
  /\ step = "source"
  /\ status' = SourceStatus
  /\ \/ status' = "UNCHANGED" /\ UNCHANGED tx
     \/ /\ status' = "SOURCE_CHANGED"
        /\ tx' = [tx EXCEPT !.source = Append(@, doc), !.review = @ \cup {Len(tx.source) + 1}]
     \/ status' = "INSERTED" /\ tx' = [tx EXCEPT !.source = Append(@, doc)]
  /\ step' = IF status' = "INSERTED" THEN "state" ELSE "finish"
  /\ UNCHANGED <<db, pending, run, doc, cur, faults, crashes>>

GetState ==
  /\ step = "state"
  /\ \/ \E i \in Find(tx.state, Parsed.state) : cur' = [cur EXCEPT !.state = i] /\ UNCHANGED tx
     \/ /\ Find(tx.state, Parsed.state) = {}
        /\ tx' = [tx EXCEPT !.state = Append(@, Parsed.state)]
        /\ cur' = [cur EXCEPT !.state = Len(tx.state) + 1]
  /\ step' = "seat"
  /\ UNCHANGED <<db, pending, run, doc, status, faults, crashes>>

(* _get_or_create_pc: by ECI code in any state, then by name in the state. *)
SeatsByCode == {i \in Ids(tx.seat) : Parsed.code # NoCode /\ tx.seat[i].code = Parsed.code}
SeatsByName == {i \in Ids(tx.seat) : tx.seat[i].state = cur.state /\ tx.seat[i].name = Parsed.seat}
SeatsFound  == IF SeatsByCode # {} THEN SeatsByCode ELSE SeatsByName
GetSeat ==
  /\ step = "seat"
  /\ \/ \E i \in SeatsFound : cur' = [cur EXCEPT !.seat = i] /\ UNCHANGED tx
     \/ /\ SeatsFound = {}
        /\ tx' = [tx EXCEPT !.seat = Append(@,
                    [state |-> cur.state, name |-> Parsed.seat, code |-> Parsed.code])]
        /\ cur' = [cur EXCEPT !.seat = Len(tx.seat) + 1]
  /\ step' = "election"
  /\ UNCHANGED <<db, pending, run, doc, status, faults, crashes>>

ElectionsFound ==
  {i \in Ids(tx.election) : tx.election[i].poll = Parsed.poll /\ tx.election[i].seat = cur.seat}
GetElection ==
  /\ step = "election"
  /\ \/ \E i \in ElectionsFound : cur' = [cur EXCEPT !.election = i] /\ UNCHANGED tx
     \/ /\ ElectionsFound = {}
        /\ tx' = [tx EXCEPT !.election = Append(@,
                    [poll |-> Parsed.poll, seat |-> cur.seat, state |-> cur.state])]
        /\ cur' = [cur EXCEPT !.election = Len(tx.election) + 1]
  /\ step' = "party"
  /\ UNCHANGED <<db, pending, run, doc, status, faults, crashes>>

(* One turn of the candidate loop: party, person, candidacy with result.   *)
GetParty ==
  /\ step = "party"
  /\ \/ /\ \E i \in Find(tx.party, Cand.party) : cur' = [cur EXCEPT !.party = i]
        /\ UNCHANGED <<tx, pending>>
     \/ /\ Find(tx.party, Cand.party) = {}
        /\ tx' = [Flush(tx) EXCEPT !.party = Append(@, Cand.party)]
        /\ cur' = [cur EXCEPT !.party = Len(tx.party) + 1]
        /\ pending' = <<>>
  /\ step' = "person"
  /\ UNCHANGED <<db, run, doc, status, faults, crashes>>

(* _resolve_person: exactly one person of that name, or a new one.         *)
ResolvePersonAlwaysNew ==
  /\ step = "person"
  /\ tx' = [Flush(tx) EXCEPT !.person = Append(@, Cand.name)]
  /\ cur' = [cur EXCEPT !.person = Len(tx.person) + 1]
  /\ pending' = <<>>
  /\ step' = "candidacy"
  /\ UNCHANGED <<db, run, doc, status, faults, crashes>>
ResolvePerson ==
  /\ step = "person"
  /\ \/ /\ \E i \in Ids(tx.person) : /\ Find(tx.person, Cand.name) = {i}
                                     /\ cur' = [cur EXCEPT !.person = i]
        /\ UNCHANGED <<tx, pending>>
     \/ /\ \A i \in Ids(tx.person) : Find(tx.person, Cand.name) # {i}
        /\ tx' = [Flush(tx) EXCEPT !.person = Append(@, Cand.name)]
        /\ cur' = [cur EXCEPT !.person = Len(tx.person) + 1]
        /\ pending' = <<>>
  /\ step' = "candidacy"
  /\ UNCHANGED <<db, run, doc, status, faults, crashes>>

CandidaciesFound ==
  {i \in Ids(tx.candidacy) : /\ tx.candidacy[i].person = cur.person
                             /\ tx.candidacy[i].election = cur.election}
ResultsOf(k) == {i \in Ids(tx.result) : tx.result[i].candidacy = k}
ThisSource == Len(tx.source)
ResultRow(k) == [candidacy |-> k, score |-> Cand.score, source |-> ThisSource]

(* A new candidacy is flushed, and what was pending with it; its result    *)
(* stays pending.                                                          *)
NewCandidacy ==
  LET k == Len(tx.candidacy) + 1 IN
  /\ step = "candidacy"
  /\ CandidaciesFound = {}
  /\ tx' = [Flush(tx) EXCEPT !.candidacy = Append(@,
              [person |-> cur.person, election |-> cur.election, party |-> cur.party])]
  /\ pending' = <<ResultRow(k)>>
  /\ cur' = [cur EXCEPT !.candidacy = k]
  /\ step' = "identifier"
  /\ UNCHANGED <<db, run, doc, status, faults, crashes>>

(* A known candidacy without a visible result gets one.  When a result is  *)
(* already pending both have the same id, and the next flush raises.       *)
AddResult ==
  /\ step = "candidacy"
  /\ \E k \in CandidaciesFound :
       /\ ResultsOf(k) = {}
       /\ pending' = Append(pending, ResultRow(k))
       /\ cur' = [cur EXCEPT !.candidacy = k]
  /\ step' = IF pending = <<>> THEN "identifier" ELSE "raise"
  /\ UNCHANGED <<db, tx, run, doc, status, faults, crashes>>

(* A known result stays as it is; if the payload differs, the document is  *)
(* put up for review, once.                                                *)
CompareResultReplaces ==
  /\ step = "candidacy"
  /\ \E k \in CandidaciesFound : \E i \in ResultsOf(k) :
       /\ tx' = [tx EXCEPT !.result[i] = ResultRow(k)]
       /\ cur' = [cur EXCEPT !.candidacy = k]
  /\ step' = "identifier"
  /\ UNCHANGED <<db, pending, run, doc, status, faults, crashes>>
CompareResultSilently ==
  /\ step = "candidacy"
  /\ \E k \in CandidaciesFound : ResultsOf(k) # {} /\ cur' = [cur EXCEPT !.candidacy = k]
  /\ step' = "identifier"
  /\ UNCHANGED <<tables, run, doc, status, faults, crashes>>
CompareResultStale ==
  /\ step = "candidacy"
  /\ \E k \in CandidaciesFound : ResultsOf(k) # {}
  /\ step' = "identifier"
  /\ UNCHANGED <<tables, run, doc, status, cur, faults, crashes>>
CompareResult ==
  /\ step = "candidacy"
  /\ \E k \in CandidaciesFound : \E i \in ResultsOf(k) :
       /\ \/ /\ tx.result[i].score = Cand.score \/ ThisSource \in tx.review
             /\ UNCHANGED <<tx, pending>>
          \/ /\ tx.result[i].score # Cand.score /\ ThisSource \notin tx.review
             /\ tx' = [Flush(tx) EXCEPT !.review = @ \cup {ThisSource}]
             /\ pending' = <<>>
       /\ cur' = [cur EXCEPT !.candidacy = k]
  /\ step' = "identifier"
  /\ UNCHANGED <<db, run, doc, status, faults, crashes>>

(* _attach_external_candidate_id, then the next turn of the loop.  A key   *)
(* (value, election) held by another candidacy raises ValueError.          *)
Holders == {i \in Ids(tx.csi) : tx.csi[i].value = Cand.ext /\ tx.csi[i].election = cur.election}
NextTurn ==
  /\ step' = IF cur.cand < Len(Parsed.cands) THEN "party" ELSE "finish"
  /\ cur' = [cur EXCEPT !.cand = @ + 1]
AttachIdentifierAbsent ==
  /\ step = "identifier"
  /\ \/ Holders # {} /\ UNCHANGED <<tx, pending>>
     \/ /\ Holders = {}
        /\ tx' = [Flush(tx) EXCEPT !.csi = Append(@,
                    [value |-> Cand.ext, election |-> cur.election, candidacy |-> cur.candidacy])]
        /\ pending' = <<>>
  /\ NextTurn
  /\ UNCHANGED <<db, run, doc, status, faults, crashes>>
AttachIdentifier ==
  /\ step = "identifier"
  /\ \/ /\ Cand.ext = NoExt \/ \E i \in Holders : tx.csi[i].candidacy = cur.candidacy
        /\ NextTurn
        /\ UNCHANGED <<tx, pending>>
     \/ /\ Cand.ext # NoExt /\ Holders = {}
        /\ tx' = [Flush(tx) EXCEPT !.csi = Append(@,
                    [value |-> Cand.ext, election |-> cur.election, candidacy |-> cur.candidacy])]
        /\ pending' = <<>>
        /\ NextTurn
     \/ /\ Cand.ext # NoExt /\ \E i \in Holders : tx.csi[i].candidacy # cur.candidacy
        /\ step' = "raise"
        /\ UNCHANGED <<tx, pending, cur>>
  /\ UNCHANGED <<db, run, doc, status, faults, crashes>>

(* The last flush, finish_collector_run(SUCCESS) and the commit.           *)
Rest == step' = "idle" /\ doc' = NoDoc /\ status' = "NONE" /\ cur' = Fresh /\ pending' = <<>>
Close(outcome) ==
  /\ run' = [run EXCEPT ![Len(run)] = outcome]
  /\ Rest
FinishRun ==
  /\ step = "finish"
  /\ db' = Flush(tx) /\ tx' = Flush(tx)
  /\ Close("SUCCESS")
  /\ UNCHANGED <<faults, crashes>>

(* The except branch: rollback, finish_collector_run(FAILED) and commit.   *)
FailRunLeavesRunning ==
  /\ step = "raise"
  /\ tx' = db
  /\ Rest
  /\ UNCHANGED <<db, run, faults, crashes>>
FailRun ==
  /\ step = "raise"
  /\ tx' = db /\ UNCHANGED db
  /\ Close("FAILED")
  /\ UNCHANGED <<faults, crashes>>

(* A stage raises (fetch, archive, parse) or the database does.            *)
Fault ==
  /\ step \notin {"idle", "raise"} /\ faults < MaxFaults
  /\ faults' = faults + 1
  /\ step' = "raise"
  /\ UNCHANGED <<tables, run, doc, status, cur, crashes>>

(* The process dies: the transaction is lost, the run's row stays RUNNING. *)
Crash ==
  /\ step # "idle" /\ crashes < MaxCrashes
  /\ crashes' = crashes + 1
  /\ tx' = db /\ Rest
  /\ UNCHANGED <<db, run, faults>>

Proceed ==
  \/ Fetch \/ GetSource \/ GetState \/ GetSeat \/ GetElection \/ GetParty \/ ResolvePerson
  \/ NewCandidacy \/ AddResult \/ CompareResult \/ AttachIdentifier \/ FinishRun \/ FailRun
Next == StartRun \/ Proceed \/ Fault \/ Crash

Spec == Init /\ [][Next]_vars
(* The pipeline is one thread that nothing blocks: once started it goes on *)
(* until the run is closed or the process dies.                            *)
FairSpec == Spec /\ WF_vars(Proceed)

-----------------------------------------------------------------------------
Tables == [source: Seq(Document), review: SUBSET Nat, state: Seq(States),
           seat: Seq([state: Nat, name: SeatNames, code: Codes \cup {NoCode}]),
           election: Seq([poll: Polls, seat: Nat, state: Nat]),
           party: Seq(Parties), person: Seq(Names),
           candidacy: Seq([person: Nat, election: Nat, party: Nat]),
           result: Seq([candidacy: Nat, score: Score, source: Nat]),
           csi: Seq([value: Exts, election: Nat, candidacy: Nat])]
Cursor == [state: Nat, seat: Nat, election: Nat, cand: Nat, party: Nat, person: Nat, candidacy: Nat]
Steps == {"idle", "fetch", "source", "state", "seat", "election", "party", "person",
          "candidacy", "identifier", "finish", "raise"}

TypeOK ==
  /\ db \in Tables /\ tx \in Tables
  /\ pending \in Seq([candidacy: Nat, score: Score, source: Nat])
  /\ run \in Seq({"RUNNING", "SUCCESS", "FAILED"}) /\ Len(run) <= MaxRuns
  /\ step \in Steps /\ doc \in Document /\ status \in Statuses /\ cur \in Cursor
  /\ faults \in 0..MaxFaults /\ crashes \in 0..MaxCrashes

(* Nothing is entered twice, though only check-then-insert prevents it for *)
(* most tables: one row per digest, person name, party, (poll, seat),      *)
(* (person, election); one result per candidacy, also with one pending;    *)
(* one candidacy per (identifier, election).                               *)
UniqueBy(table, Key(_)) == \A i, j \in Ids(table) : Key(table[i]) = Key(table[j]) => i = j
SourceKey(r) == r.sha
RowKey(r) == r
ElectionKey(r) == <<r.poll, r.seat>>
CandidacyKey(r) == <<r.person, r.election>>
ResultKey(r) == r.candidacy
CsiKey(r) == <<r.value, r.election>>
NothingTwice ==
  /\ UniqueBy(db.source, SourceKey) /\ UniqueBy(db.party, RowKey) /\ UniqueBy(db.person, RowKey)
  /\ UniqueBy(db.election, ElectionKey) /\ UniqueBy(db.candidacy, CandidacyKey)
  /\ UniqueBy(db.result, ResultKey) /\ UniqueBy(db.csi, CsiKey)

(* An external candidate id is evidence for a candidacy of the election it *)
(* is scoped to, and the person is the one a payload published it for.     *)
IdentifiersFollowPayloads ==
  \A i \in Ids(db.csi) :
    LET k == db.csi[i].candidacy IN
    /\ k \in Ids(db.candidacy) /\ db.candidacy[k].election = db.csi[i].election
    /\ \E s \in Shas : \E n \in Ids(Payload[s].cands) :
         /\ Payload[s].cands[n].ext = db.csi[i].value
         /\ Payload[s].cands[n].name = db.person[db.candidacy[k].person]
         /\ Payload[s].poll = db.election[db.candidacy[k].election].poll

(* A document is ingested when it was the first of its URL.                *)
FirstOfUrl(i) == \A j \in 1..(i - 1) : db.source[j].url # db.source[i].url
Rows(p, c) == {k \in Ids(db.result) :
  LET cy == db.candidacy[db.result[k].candidacy]
      e  == db.election[cy.election]
      s  == db.seat[e.seat]
  IN /\ db.person[cy.person] = c.name /\ e.poll = p.poll
     /\ \/ p.code # NoCode /\ s.code = p.code
        \/ s.name = p.seat /\ db.state[s.state] = p.state}

(* Ingestion is all or nothing: a committed document that was the first of *)
(* its URL has every candidate's result, at a constituency of its code or  *)
(* at the one it names in its state, and it is up for review unless every  *)
(* one of them is what the document says.                                  *)
IngestedOrReviewed ==
  \A i \in Ids(db.source) : FirstOfUrl(i) =>
    LET p == Payload[db.source[i].sha] IN
    \A n \in Ids(p.cands) :
      /\ Rows(p, p.cands[n]) # {}
      /\ \/ i \in db.review
         \/ \E k \in Rows(p, p.cands[n]) : db.result[k].score = p.cands[n].score

(* New bytes under a known URL always reach a reviewer.                    *)
ChangesAreReviewed == \A i \in Ids(db.source) : ~FirstOfUrl(i) => i \in db.review

(* History is never rewritten: a commit only adds rows, and only the       *)
(* commit of a run that reports SUCCESS does.                              *)
Extends(t, u) == Len(t) <= Len(u) /\ \A i \in Ids(t) : u[i] = t[i]
HistoryIsKept ==
  [][/\ Extends(db.source, db'.source) /\ Extends(db.election, db'.election)
     /\ Extends(db.person, db'.person) /\ Extends(db.candidacy, db'.candidacy)
     /\ Extends(db.result, db'.result) /\ Extends(db.csi, db'.csi) /\ db.review \subseteq db'.review
     /\ db' # db => run'[Len(run')] = "SUCCESS"]_vars

(* Ingesting known bytes again changes no table, whatever URL they came    *)
(* from and however often runs failed in between.                          *)
ReimportIsNoOp ==
  [][\A i \in Ids(db.source) : FinishRun /\ db.source[i].sha = doc.sha => db' = db]_vars

(* A run's row leaves RUNNING unless the process died.                     *)
Running(r) == r <= Len(run) /\ run[r] = "RUNNING"
RunsAreClosed == \A r \in 1..MaxRuns : Running(r) ~> (~Running(r) \/ crashes > 0)

(* CONTRIBUTING.md: "Never merge people using name alone".  Two candidate  *)
(* ids of one election belong to two candidacies.                          *)
NeverMergedByName ==
  \A i, j \in Ids(db.csi) :
    db.csi[i].election = db.csi[j].election /\ db.csi[i].value # db.csi[j].value
      => db.csi[i].candidacy # db.csi[j].candidacy
=============================================================================
