----------------------- MODULE ElectionEvidenceProofs -----------------------
(***************************************************************************)
(* What the committed tables say of the documents, for any payloads: every *)
(* identifier has a payload that published it, and every document that was *)
(* ingested is wholly there or up for review.                              *)
(***************************************************************************)
EXTENDS ElectionIngestProofs

(* What a row refers to is there, and stays as it is when tables grow.     *)
Refers(t) ==
  /\ \A i \in Ids(t.seat) : t.seat[i].state \in Ids(t.state)
  /\ \A i \in Ids(t.election) : t.election[i].seat \in Ids(t.seat)
  /\ \A i \in Ids(t.candidacy) : /\ t.candidacy[i].person \in Ids(t.person)
                                 /\ t.candidacy[i].election \in Ids(t.election)
  /\ \A i \in Ids(t.result) : t.result[i].candidacy \in Ids(t.candidacy)

(* Identifiers: each one in a table has a payload that published it for    *)
(* the person of the candidacy, at the poll of the election it counts in.  *)
Evidence(t, r) ==
  /\ r.candidacy \in Ids(t.candidacy) /\ t.candidacy[r.candidacy].election = r.election
  /\ \E s \in Shas : \E n \in Ids(Payload[s].cands) :
       /\ Payload[s].cands[n].ext = r.value
       /\ Payload[s].cands[n].name = t.person[t.candidacy[r.candidacy].person]
       /\ Payload[s].poll = t.election[t.candidacy[r.candidacy].election].poll
Evidenced(t) == \A i \in Ids(t.csi) : Evidence(t, t.csi[i])

(* Ingestion: candidate n of document i has a result at the right poll and *)
(* place, with the score the document gives unless it is up for review.    *)
SeatIs(t, p, s) ==
  \/ p.code # NoCode /\ t.seat[s].code = p.code
  \/ t.seat[s].name = p.seat /\ t.state[t.seat[s].state] = p.state
ElectionIs(t, p, e) == t.election[e].poll = p.poll /\ SeatIs(t, p, t.election[e].seat)
CandidacyIs(t, p, c, k) ==
  t.person[t.candidacy[k].person] = c.name /\ ElectionIs(t, p, t.candidacy[k].election)
Backed(t, i, n) ==
  LET p == Payload[t.source[i].sha] IN
  \E k \in Ids(t.result) :
    /\ CandidacyIs(t, p, p.cands[n], t.result[k].candidacy)
    /\ i \in t.review \/ t.result[k].score = p.cands[n].score
First(t, i) == \A j \in 1..(i - 1) : t.source[j].url # t.source[i].url
WhollyBacked(t, i) == \A n \in Ids(Payload[t.source[i].sha].cands) : Backed(t, i, n)
Complete(t) == \A i \in Ids(t.source) : First(t, i) => WhollyBacked(t, i)

(* The session's tables with what is pending, at step s of document d with *)
(* cursor c: the cursor is at rows of what the payload names, and only the *)
(* candidates that are still to come lack a result.                        *)
View(t, q) == [t EXCEPT !.result = t.result \o q]
Seen == View(tx, pending)
Working == Turn \ {"source"}
Settled == {"party", "person", "candidacy", "identifier"}
InPlace(t, s, p, c) ==
  /\ s \in Working \ {"state"} => c.state \in Ids(t.state) /\ t.state[c.state] = p.state
  /\ s \in Settled \cup {"election"} => c.seat \in Ids(t.seat) /\ SeatIs(t, p, c.seat)
  /\ s \in Settled => c.election \in Ids(t.election) /\ ElectionIs(t, p, c.election)
  /\ s \in {"candidacy", "identifier"} =>
       c.person \in Ids(t.person) /\ t.person[c.person] = p.cands[c.cand].name
  /\ s = "identifier" => /\ c.candidacy \in Ids(t.candidacy)
                         /\ t.candidacy[c.candidacy].person = c.person
                         /\ t.candidacy[c.candidacy].election = c.election
Dealt(s, c, n) == n < c.cand \/ (s = "identifier" /\ n = c.cand)
Done(t, s, d, c) ==
  IF s \in Working
    THEN /\ t.source # <<>> /\ t.source[Len(t.source)] = d
         /\ \A i \in 1..(Len(t.source) - 1) : First(t, i) => WhollyBacked(t, i)
         /\ \A n \in Ids(Payload[d.sha].cands) : Dealt(s, c, n) => Backed(t, Len(t.source), n)
    ELSE Complete(t)

Told(t) == Refers(t) /\ Evidenced(t) /\ Complete(t)
UnderWay(t, s, d, c) ==
  /\ Refers(t) /\ Evidenced(t) /\ InPlace(t, s, Payload[d.sha], c) /\ Done(t, s, d, c)
  /\ s = "source" => c.cand = 1
Recorded == Told(db) /\ (step # "raise" => UnderWay(Seen, step, doc, cur))

-----------------------------------------------------------------------------
(* Tables that only grow.                                                  *)
AllGrow(t, u) == GrowsTo(t, u) /\ Extends(t.state, u.state) /\ Extends(t.seat, u.seat)

LEMMA ExtendsIds ==
  ASSUME NEW S, NEW s \in Seq(S), NEW w \in Seq(S), Extends(s, w)
  PROVE  \A i \in Ids(s) : i \in Ids(w) /\ w[i] = s[i]
BY LenProperties DEF Extends, Ids

LEMMA GrownRows ==
  ASSUME NEW t \in Tables, NEW u \in Tables, AllGrow(t, u)
  PROVE  /\ \A i \in Ids(t.source) : i \in Ids(u.source) /\ u.source[i] = t.source[i]
         /\ \A i \in Ids(t.state) : i \in Ids(u.state) /\ u.state[i] = t.state[i]
         /\ \A i \in Ids(t.seat) : i \in Ids(u.seat) /\ u.seat[i] = t.seat[i]
         /\ \A i \in Ids(t.election) : i \in Ids(u.election) /\ u.election[i] = t.election[i]
         /\ \A i \in Ids(t.person) : i \in Ids(u.person) /\ u.person[i] = t.person[i]
         /\ \A i \in Ids(t.candidacy) : i \in Ids(u.candidacy) /\ u.candidacy[i] = t.candidacy[i]
         /\ \A i \in Ids(t.result) : i \in Ids(u.result) /\ u.result[i] = t.result[i]
         /\ t.review \subseteq u.review
<1>1. /\ Extends(t.source, u.source) /\ Extends(t.state, u.state) /\ Extends(t.seat, u.seat)
      /\ Extends(t.election, u.election) /\ Extends(t.person, u.person)
      /\ Extends(t.candidacy, u.candidacy) /\ Extends(t.result, u.result)
      /\ t.review \subseteq u.review
  BY DEF AllGrow, GrowsTo
<1>2. /\ t.source \in Seq(Document) /\ t.state \in Seq(States) /\ t.seat \in Seq(SeatRow)
      /\ t.election \in Seq(PollRow) /\ t.person \in Seq(Names)
      /\ t.candidacy \in Seq(CandRow) /\ t.result \in Seq(Result)
  BY Columns
<1>3. /\ u.source \in Seq(Document) /\ u.state \in Seq(States) /\ u.seat \in Seq(SeatRow)
      /\ u.election \in Seq(PollRow) /\ u.person \in Seq(Names)
      /\ u.candidacy \in Seq(CandRow) /\ u.result \in Seq(Result)
  BY Columns
<1>4. \A i \in Ids(t.source) : i \in Ids(u.source) /\ u.source[i] = t.source[i]
  BY <1>1, <1>2, <1>3, ExtendsIds
<1>5. \A i \in Ids(t.state) : i \in Ids(u.state) /\ u.state[i] = t.state[i]
  BY <1>1, <1>2, <1>3, ExtendsIds
<1>6. \A i \in Ids(t.seat) : i \in Ids(u.seat) /\ u.seat[i] = t.seat[i]
  BY <1>1, <1>2, <1>3, ExtendsIds
<1>7. \A i \in Ids(t.election) : i \in Ids(u.election) /\ u.election[i] = t.election[i]
  BY <1>1, <1>2, <1>3, ExtendsIds
<1>8. \A i \in Ids(t.person) : i \in Ids(u.person) /\ u.person[i] = t.person[i]
  BY <1>1, <1>2, <1>3, ExtendsIds
<1>9. \A i \in Ids(t.candidacy) : i \in Ids(u.candidacy) /\ u.candidacy[i] = t.candidacy[i]
  BY <1>1, <1>2, <1>3, ExtendsIds
<1>10. \A i \in Ids(t.result) : i \in Ids(u.result) /\ u.result[i] = t.result[i]
  BY <1>1, <1>2, <1>3, ExtendsIds
<1> QED
  BY <1>1, <1>4, <1>5, <1>6, <1>7, <1>8, <1>9, <1>10

LEMMA Kept ==
  ASSUME NEW t \in Tables, NEW u \in Tables, Refers(t), AllGrow(t, u)
  PROVE  /\ \A p : \A s \in Ids(t.seat) : SeatIs(t, p, s) => SeatIs(u, p, s)
         /\ \A p : \A e \in Ids(t.election) : ElectionIs(t, p, e) => ElectionIs(u, p, e)
         /\ \A p, c : \A k \in Ids(t.candidacy) : CandidacyIs(t, p, c, k) => CandidacyIs(u, p, c, k)
<1>1. /\ \A i \in Ids(t.state) : u.state[i] = t.state[i]
      /\ \A i \in Ids(t.seat) : u.seat[i] = t.seat[i]
      /\ \A i \in Ids(t.election) : u.election[i] = t.election[i]
      /\ \A i \in Ids(t.person) : u.person[i] = t.person[i]
      /\ \A i \in Ids(t.candidacy) : u.candidacy[i] = t.candidacy[i]
  BY GrownRows
<1>2. ASSUME NEW p, NEW s \in Ids(t.seat), SeatIs(t, p, s) PROVE SeatIs(u, p, s)
  <2>1. t.seat[s].state \in Ids(t.state)
    BY DEF Refers
  <2> QED
    BY <1>1, <1>2, <2>1 DEF SeatIs
<1>3. ASSUME NEW p, NEW e \in Ids(t.election), ElectionIs(t, p, e) PROVE ElectionIs(u, p, e)
  <2>1. t.election[e].seat \in Ids(t.seat)
    BY DEF Refers
  <2> QED
    BY <1>1, <1>2, <1>3, <2>1 DEF ElectionIs
<1>4. ASSUME NEW p, NEW c, NEW k \in Ids(t.candidacy), CandidacyIs(t, p, c, k) PROVE CandidacyIs(u, p, c, k)
  <2>1. t.candidacy[k].person \in Ids(t.person) /\ t.candidacy[k].election \in Ids(t.election)
    BY DEF Refers
  <2> QED
    BY <1>1, <1>3, <1>4, <2>1 DEF CandidacyIs
<1> QED
  BY <1>2, <1>3, <1>4

LEMMA BackedStays ==
  ASSUME NEW t \in Tables, NEW u \in Tables, Refers(t), AllGrow(t, u), NEW i \in Ids(t.source)
  PROVE  /\ \A n : Backed(t, i, n) => Backed(u, i, n)
         /\ First(t, i) <=> First(u, i)
         /\ WhollyBacked(t, i) => WhollyBacked(u, i)
<1>1. /\ \A j \in Ids(t.source) : u.source[j] = t.source[j]
      /\ \A j \in Ids(t.result) : j \in Ids(u.result) /\ u.result[j] = t.result[j]
      /\ t.review \subseteq u.review
  BY GrownRows
<1>2. ASSUME NEW n, Backed(t, i, n) PROVE Backed(u, i, n)
  <2> DEFINE p == Payload[t.source[i].sha]
  <2>1. PICK k \in Ids(t.result) :
          /\ CandidacyIs(t, p, p.cands[n], t.result[k].candidacy)
          /\ i \in t.review \/ t.result[k].score = p.cands[n].score
    BY <1>2 DEF Backed
  <2>2. t.result[k].candidacy \in Ids(t.candidacy)
    BY DEF Refers
  <2>3. CandidacyIs(u, p, p.cands[n], t.result[k].candidacy)
    BY <2>1, <2>2, Kept
  <2> QED
    BY <1>1, <2>1, <2>3 DEF Backed
<1>3. \A j \in 1..(i - 1) : j \in Ids(t.source)
  BY Columns DEF Ids
<1>4. First(t, i) <=> First(u, i)
  BY <1>1, <1>3 DEF First
<1> QED
  BY <1>1, <1>2, <1>4 DEF WhollyBacked

LEMMA EvidencedStays ==
  ASSUME NEW t \in Tables, NEW u \in Tables, Refers(t), AllGrow(t, u)
  PROVE  \A r : Evidence(t, r) => Evidence(u, r)
<1>1. SUFFICES ASSUME NEW r, Evidence(t, r) PROVE Evidence(u, r)
  OBVIOUS
<1>2. /\ \A i \in Ids(t.election) : u.election[i] = t.election[i]
      /\ \A i \in Ids(t.person) : u.person[i] = t.person[i]
      /\ \A i \in Ids(t.candidacy) : u.candidacy[i] = t.candidacy[i] /\ i \in Ids(u.candidacy)
  BY GrownRows
<1>3. /\ r.candidacy \in Ids(t.candidacy)
      /\ t.candidacy[r.candidacy].person \in Ids(t.person)
      /\ t.candidacy[r.candidacy].election \in Ids(t.election)
  BY <1>1 DEF Evidence, Refers
<1> QED
  BY <1>1, <1>2, <1>3 DEF Evidence

LEMMA PlaceStays ==
  ASSUME NEW t \in Tables, NEW u \in Tables, Refers(t), AllGrow(t, u),
         NEW s, NEW p, NEW c, InPlace(t, s, p, c)
  PROVE  InPlace(u, s, p, c)
<1>1. /\ \A i \in Ids(t.state) : u.state[i] = t.state[i] /\ i \in Ids(u.state)
      /\ \A i \in Ids(t.seat) : i \in Ids(u.seat)
      /\ \A i \in Ids(t.election) : i \in Ids(u.election)
      /\ \A i \in Ids(t.person) : u.person[i] = t.person[i] /\ i \in Ids(u.person)
      /\ \A i \in Ids(t.candidacy) : u.candidacy[i] = t.candidacy[i] /\ i \in Ids(u.candidacy)
  BY GrownRows
<1> QED
  BY <1>1, Kept DEF InPlace

LEMMA RowAppended ==
  ASSUME NEW S, NEW s \in Seq(S), NEW e \in S
  PROVE  /\ Ids(Append(s, e)) = Ids(s) \cup {Len(s) + 1} /\ Len(s) + 1 \notin Ids(s)
         /\ Append(s, e)[Len(s) + 1] = e /\ Len(Append(s, e)) = Len(s) + 1
         /\ \A i \in Ids(s) : Append(s, e)[i] = s[i]
<1>1. Len(s) \in Nat /\ Len(Append(s, e)) = Len(s) + 1
  BY LenProperties, AppendProperties
<1>2. Append(s, e)[Len(s) + 1] = e /\ \A i \in 1..Len(s) : Append(s, e)[i] = s[i]
  BY AppendProperties
<1> QED
  BY <1>1, <1>2 DEF Ids

(* A row appended to one table leaves the other ones as they are.          *)
LEMMA AllGrowByRow ==
  ASSUME NEW t \in Tables
  PROVE  /\ \A r \in Document  : AllGrow(t, [t EXCEPT !.source = Append(@, r)])
         /\ \A r \in States    : AllGrow(t, [t EXCEPT !.state = Append(@, r)])
         /\ \A r \in SeatRow   : AllGrow(t, [t EXCEPT !.seat = Append(@, r)])
         /\ \A r \in PollRow   : AllGrow(t, [t EXCEPT !.election = Append(@, r)])
         /\ \A r \in Parties   : AllGrow(t, [t EXCEPT !.party = Append(@, r)])
         /\ \A r \in Names     : AllGrow(t, [t EXCEPT !.person = Append(@, r)])
         /\ \A r \in CandRow   : AllGrow(t, [t EXCEPT !.candidacy = Append(@, r)])
         /\ \A r \in CsiRow    : AllGrow(t, [t EXCEPT !.csi = Append(@, r)])
         /\ \A n \in Nat       : AllGrow(t, [t EXCEPT !.review = @ \cup {n}])
<1>1. /\ \A r \in States : Extends(t.state, Append(t.state, r))
      /\ \A r \in SeatRow : Extends(t.seat, Append(t.seat, r))
  BY Columns, Longer
<1>2. Extends(t.state, t.state) /\ Extends(t.seat, t.seat)
  BY Columns DEF Extends
<1> QED
  BY <1>1, <1>2, GrowsByRow DEF AllGrow, Tables

LEMMA ResultAppended ==
  ASSUME NEW t \in Tables, NEW r \in Result
  PROVE  /\ [t EXCEPT !.result = Append(@, r)] \in Tables
         /\ AllGrow(t, [t EXCEPT !.result = Append(@, r)])
<1> DEFINE u == [t EXCEPT !.result = Append(@, r)]
<1>1. Append(t.result, r) \in Seq(Result) /\ Extends(t.result, Append(t.result, r))
  BY Columns, AppendProperties, Longer
<1>2. u \in Tables
  BY <1>1 DEF Tables, Result
<1>3. /\ u.source = t.source /\ u.review = t.review /\ u.state = t.state /\ u.seat = t.seat
      /\ u.election = t.election /\ u.party = t.party /\ u.person = t.person
      /\ u.candidacy = t.candidacy /\ u.csi = t.csi /\ u.result = Append(t.result, r)
  BY DEF Tables
<1>4. GrowsTo(t, t) /\ Extends(t.state, t.state) /\ Extends(t.seat, t.seat)
  BY GrowsSame, Columns DEF Extends
<1>5. AllGrow(t, u)
  BY <1>1, <1>3, <1>4 DEF AllGrow, GrowsTo
<1> QED
  BY <1>2, <1>5

(* References and evidence survive when the new rows have theirs.          *)
LEMMA RefersOn ==
  ASSUME NEW t \in Tables, NEW u \in Tables, Refers(t), AllGrow(t, u),
         \A i \in Ids(u.seat) : i \in Ids(t.seat) \/ u.seat[i].state \in Ids(t.state),
         \A i \in Ids(u.election) : i \in Ids(t.election) \/ u.election[i].seat \in Ids(t.seat),
         \A i \in Ids(u.candidacy) : \/ i \in Ids(t.candidacy)
                                     \/ /\ u.candidacy[i].person \in Ids(t.person)
                                        /\ u.candidacy[i].election \in Ids(t.election),
         \A i \in Ids(u.result) : i \in Ids(t.result) \/ u.result[i].candidacy \in Ids(t.candidacy)
  PROVE  Refers(u)
<1>1. \A i \in Ids(u.seat) : u.seat[i].state \in Ids(u.state)
  BY GrownRows DEF Refers
<1>2. \A i \in Ids(u.election) : u.election[i].seat \in Ids(u.seat)
  BY GrownRows DEF Refers
<1>3. \A i \in Ids(u.candidacy) : /\ u.candidacy[i].person \in Ids(u.person)
                                  /\ u.candidacy[i].election \in Ids(u.election)
  BY GrownRows DEF Refers
<1>4. \A i \in Ids(u.result) : u.result[i].candidacy \in Ids(u.candidacy)
  BY GrownRows DEF Refers
<1> QED
  BY <1>1, <1>2, <1>3, <1>4 DEF Refers

LEMMA EvidencedOn ==
  ASSUME NEW t \in Tables, NEW u \in Tables, Refers(t), AllGrow(t, u), Evidenced(t),
         \A i \in Ids(u.csi) : (i \in Ids(t.csi) /\ u.csi[i] = t.csi[i]) \/ Evidence(t, u.csi[i])
  PROVE  Evidenced(u)
BY EvidencedStays DEF Evidenced

(* The turn goes on: what was backed stays so, and what is dealt with by   *)
(* the next step was dealt with before or is backed now.                   *)
LEMMA DoneOn ==
  ASSUME NEW t \in Tables, NEW u \in Tables, Refers(t), AllGrow(t, u), u.source = t.source,
         NEW d, NEW c, NEW e, NEW s \in Working, NEW z \in Working \cup {"finish"},
         Done(t, s, d, c),
         \A n \in Ids(Payload[d.sha].cands) :
           z = "finish" \/ Dealt(z, e, n) => Dealt(s, c, n) \/ Backed(u, Len(u.source), n)
  PROVE  Done(u, z, d, e)
<1> DEFINE l == Len(t.source)
<1>1. /\ t.source # <<>> /\ t.source[l] = d
      /\ \A i \in 1..(l - 1) : First(t, i) => WhollyBacked(t, i)
      /\ \A n \in Ids(Payload[d.sha].cands) : Dealt(s, c, n) => Backed(t, l, n)
  BY DEF Done
<1>2. t.source \in Seq(Document) /\ l \in Nat /\ l # 0 /\ Ids(t.source) = 1..l
  BY <1>1, Columns, EmptySeq DEF Ids
<1>3. \A i \in 1..(l - 1) : First(u, i) => WhollyBacked(u, i)
  <2>1. \A i \in 1..(l - 1) : i \in Ids(t.source)
    BY <1>2
  <2> QED
    BY <1>1, <2>1, BackedStays
<1>4. \A n \in Ids(Payload[d.sha].cands) : z = "finish" \/ Dealt(z, e, n) => Backed(u, l, n)
  <2>1. l \in Ids(t.source)
    BY <1>2
  <2> QED
    BY <1>1, <2>1, BackedStays
<1>5. CASE z \in Working
  BY <1>1, <1>3, <1>4, <1>5 DEF Done
<1>6. CASE z = "finish"
  <2>1. WhollyBacked(u, l)
    BY <1>1, <1>4, <1>6 DEF WhollyBacked
  <2>2. \A i \in Ids(u.source) : i \in 1..(l - 1) \/ i = l
    BY <1>2
  <2>3. Complete(u)
    BY <1>3, <2>1, <2>2 DEF Complete
  <2> QED
    BY <1>6, <2>3 DEF Done, Working, Turn
<1> QED
  BY <1>5, <1>6

LEMMA AllGrowOn ==
  ASSUME NEW t \in Tables, NEW u \in Tables, NEW v \in Tables, AllGrow(t, u), AllGrow(u, v)
  PROVE  AllGrow(t, v)
<1>1. GrowsTo(t, v)
  BY GrowsTransitively DEF AllGrow
<1>2. /\ t.state \in Seq(States) /\ u.state \in Seq(States) /\ v.state \in Seq(States)
      /\ Extends(t.state, u.state) /\ Extends(u.state, v.state)
  BY Columns DEF AllGrow
<1>3. /\ t.seat \in Seq(SeatRow) /\ u.seat \in Seq(SeatRow) /\ v.seat \in Seq(SeatRow)
      /\ Extends(t.seat, u.seat) /\ Extends(u.seat, v.seat)
  BY Columns DEF AllGrow
<1> QED
  BY <1>1, <1>2, <1>3, LongerStill DEF AllGrow

LEMMA AllGrowSame == \A t \in Tables : AllGrow(t, t)
BY GrowsSame, Columns DEF AllGrow, Extends

LEMMA Onward ==
  ASSUME NEW t \in Tables, NEW u \in Tables, AllGrow(t, u), u.source = t.source,
         NEW d, NEW c, NEW e, NEW s \in Working, NEW z \in Working \cup {"finish"},
         UnderWay(t, s, d, c), Refers(u), Evidenced(u), InPlace(u, z, Payload[d.sha], e),
         \A n \in Ids(Payload[d.sha].cands) :
           z = "finish" \/ Dealt(z, e, n) => Dealt(s, c, n) \/ Backed(u, Len(u.source), n)
  PROVE  UnderWay(u, z, d, e)
<1>1. Refers(t) /\ Done(t, s, d, c) /\ z # "source"
  BY DEF UnderWay, Working
<1>2. Done(u, z, d, e)
  BY <1>1, DoneOn
<1> QED
  BY <1>1, <1>2 DEF UnderWay

-----------------------------------------------------------------------------
(* What the session sees, pending rows included.                           *)
LEMMA ViewTyped ==
  ASSUME NEW t \in Tables, NEW q \in Seq(Result)
  PROVE  /\ View(t, q) \in Tables /\ View(t, q).result = t.result \o q
         /\ View(t, q).source = t.source /\ View(t, q).review = t.review
         /\ View(t, q).state = t.state /\ View(t, q).seat = t.seat
         /\ View(t, q).election = t.election /\ View(t, q).party = t.party
         /\ View(t, q).person = t.person /\ View(t, q).candidacy = t.candidacy
         /\ View(t, q).csi = t.csi
<1>1. t.result \o q \in Seq(Result)
  BY Columns, ConcatProperties
<1> QED
  BY <1>1 DEF View, Tables, Result

LEMMA ViewOfNone == ASSUME NEW t \in Tables PROVE View(t, <<>>) = t
<1>1. t.result \o <<>> = t.result
  BY Columns, ConcatEmptySeq
<1> QED
  BY <1>1 DEF View, Tables

LEMMA ViewOfOne ==
  ASSUME NEW t \in Tables, NEW r \in Result
  PROVE  View(t, <<r>>) = [t EXCEPT !.result = Append(@, r)]
<1>1. t.result \o <<r>> = Append(t.result, r)
  BY Columns, AppendIsConcat
<1> QED
  BY <1>1 DEF View

LEMMA SeenNow ==
  ASSUME WellTyped
  PROVE  /\ tx \in Tables /\ pending \in Seq(Result) /\ Seen \in Tables /\ Flush(tx) = Seen
         /\ Seen.result = tx.result \o pending
         /\ Seen.source = tx.source /\ Seen.review = tx.review
         /\ Seen.state = tx.state /\ Seen.seat = tx.seat
         /\ Seen.election = tx.election /\ Seen.party = tx.party
         /\ Seen.person = tx.person /\ Seen.candidacy = tx.candidacy
         /\ Seen.csi = tx.csi
<1>1. tx \in Tables /\ pending \in Seq(Result)
  BY DEF WellTyped, TypeOK, Result
<1>2. Flush(tx) = Seen
  BY Flushing DEF WellTyped, Seen, View
<1> QED
  BY <1>1, <1>2, ViewTyped DEF Seen

LEMMA SeenSame == ASSUME UNCHANGED <<tx, pending>> PROVE Seen' = Seen
BY DEF Seen

LEMMA SeenFlushed ==
  ASSUME WellTyped', pending' = <<>>
  PROVE  Seen' = tx'
<1>1. tx' \in Tables
  BY DEF WellTyped, TypeOK
<1> QED
  BY <1>1, ViewOfNone DEF Seen

LEMMA SeenState ==
  ASSUME WellTyped, NEW r \in States, tx' = [tx EXCEPT !.state = Append(@, r)], pending' = pending
  PROVE  Seen' = [Seen EXCEPT !.state = Append(@, r)]
BY SeenNow DEF Seen, View, Tables

LEMMA SeenSeat ==
  ASSUME WellTyped, NEW r \in SeatRow, tx' = [tx EXCEPT !.seat = Append(@, r)], pending' = pending
  PROVE  Seen' = [Seen EXCEPT !.seat = Append(@, r)]
BY SeenNow DEF Seen, View, Tables

LEMMA SeenElection ==
  ASSUME WellTyped, NEW r \in PollRow, tx' = [tx EXCEPT !.election = Append(@, r)], pending' = pending
  PROVE  Seen' = [Seen EXCEPT !.election = Append(@, r)]
BY SeenNow DEF Seen, View, Tables

-----------------------------------------------------------------------------
(* One step of the transaction after the other.                            *)
Arrived == UnderWay(Seen, step, doc, cur)

LEMMA StateUnderWay == ASSUME WellTyped, Arrived, GetState PROVE Arrived'
<1> DEFINE p == Payload[doc.sha]
           r == p.state
<1>1. /\ Seen \in Tables /\ Seen.state = tx.state /\ r \in States /\ Parsed = p
      /\ step = "state" /\ step' = "seat" /\ doc' = doc /\ cur \in Cursor /\ pending' = pending
  BY SeenNow, RowsTyped DEF WellTyped, TypeOK, Parsed, GetState
<1>2. Refers(Seen) /\ Evidenced(Seen) /\ UnderWay(Seen, "state", doc, cur)
  BY <1>1 DEF Arrived, UnderWay
<1>3. ASSUME NEW u \in Tables, AllGrow(Seen, u), u.source = Seen.source, Refers(u), Evidenced(u),
             NEW i \in Ids(u.state), u.state[i] = r, cur' = [cur EXCEPT !.state = i], Seen' = u
      PROVE  Arrived'
  <2>1. InPlace(u, "seat", p, cur')
    BY <1>1, <1>3 DEF InPlace, Settled, Cursor
  <2>2. \A n : Dealt("seat", cur', n) => Dealt("state", cur, n)
    BY <1>1, <1>3 DEF Dealt, Cursor
  <2>3. "state" \in Working /\ "seat" \in Working
    BY DEF Working, Turn
  <2>4. UnderWay(u, "seat", doc, cur')
    BY <1>1, <1>2, <1>3, <2>1, <2>2, <2>3, Onward
  <2> QED
    BY <1>1, <1>3, <2>4 DEF Arrived
<1>4. CASE \E i \in Find(tx.state, r) : cur' = [cur EXCEPT !.state = i] /\ UNCHANGED tx
  <2>1. PICK i \in Ids(Seen.state) : Seen.state[i] = r /\ cur' = [cur EXCEPT !.state = i]
    BY <1>1, <1>4 DEF Find
  <2>2. Seen' = Seen
    BY <1>1, <1>4, SeenSame
  <2> QED
    BY <1>1, <1>2, <1>3, <2>1, <2>2, AllGrowSame
<1>5. CASE /\ tx' = [tx EXCEPT !.state = Append(@, r)]
           /\ cur' = [cur EXCEPT !.state = Len(tx.state) + 1]
  <2> DEFINE u == [Seen EXCEPT !.state = Append(@, r)]
             i == Len(Seen.state) + 1
  <2>1. Seen' = u
    BY <1>1, <1>5, SeenState
  <2>2. u \in Tables /\ AllGrow(Seen, u)
    BY <1>1, Appending, AllGrowByRow
  <2>3. /\ u.state = Append(Seen.state, r) /\ u.source = Seen.source /\ u.seat = Seen.seat
        /\ u.election = Seen.election /\ u.candidacy = Seen.candidacy
        /\ u.result = Seen.result /\ u.csi = Seen.csi
    BY <1>1 DEF Tables
  <2>4. i \in Ids(u.state) /\ u.state[i] = r
    BY <1>1, <2>3, Columns, RowAppended
  <2>5. cur' = [cur EXCEPT !.state = i]
    BY <1>1, <1>5
  <2> HIDE DEF u, i
  <2>6. Refers(u)
    BY <1>1, <1>2, <2>2, <2>3, RefersOn
  <2>7. Evidenced(u)
    BY <1>1, <1>2, <2>2, <2>3, EvidencedOn
  <2> QED
    BY <1>3, <2>1, <2>2, <2>3, <2>4, <2>5, <2>6, <2>7
<1> QED
  BY <1>1, <1>4, <1>5 DEF GetState

LEMMA SeatUnderWay == ASSUME WellTyped, Arrived, GetSeat PROVE Arrived'
<1> DEFINE p == Payload[doc.sha]
           r == SeatEntry
<1>1. /\ Seen \in Tables /\ Seen.seat = tx.seat /\ r \in SeatRow /\ Parsed = p /\ Seen.state = tx.state
      /\ step = "seat" /\ step' = "election" /\ doc' = doc /\ cur \in Cursor /\ pending' = pending
  BY SeenNow, RowsTyped DEF WellTyped, TypeOK, Parsed, GetSeat
<1>2. Refers(Seen) /\ Evidenced(Seen) /\ UnderWay(Seen, "seat", doc, cur)
  BY <1>1 DEF Arrived, UnderWay
<1>3. cur.state \in Ids(Seen.state) /\ Seen.state[cur.state] = p.state
  BY <1>2 DEF UnderWay, InPlace, Working, Turn
<1>4. ASSUME NEW u \in Tables, AllGrow(Seen, u), u.source = Seen.source, Refers(u), Evidenced(u),
             NEW i \in Ids(u.seat), SeatIs(u, p, i), cur' = [cur EXCEPT !.seat = i], Seen' = u
      PROVE  Arrived'
  <2>1. cur'.state \in Ids(u.state) /\ u.state[cur'.state] = p.state /\ cur'.seat = i
    BY <1>1, <1>3, <1>4, GrownRows DEF Cursor
  <2>2. InPlace(u, "election", p, cur')
    BY <1>4, <2>1 DEF InPlace, Settled
  <2>3. \A n : Dealt("election", cur', n) => Dealt("seat", cur, n)
    BY <1>1, <1>4 DEF Dealt, Cursor
  <2>4. "seat" \in Working /\ "election" \in Working
    BY DEF Working, Turn
  <2>5. UnderWay(u, "election", doc, cur')
    BY <1>1, <1>2, <1>4, <2>2, <2>3, <2>4, Onward
  <2> QED
    BY <1>1, <1>4, <2>5 DEF Arrived
<1>5. CASE \E i \in SeatsFound : cur' = [cur EXCEPT !.seat = i] /\ UNCHANGED tx
  <2>1. PICK i \in SeatsFound : cur' = [cur EXCEPT !.seat = i]
    BY <1>5
  <2>2. i \in Ids(Seen.seat) /\ SeatIs(Seen, p, i)
    BY <1>1, <1>3, <2>1 DEF SeatsFound, SeatsByCode, SeatsByName, SeatIs
  <2>3. Seen' = Seen
    BY <1>1, <1>5, SeenSame
  <2> QED
    BY <1>1, <1>2, <1>4, <2>1, <2>2, <2>3, AllGrowSame
<1>6. CASE /\ tx' = [tx EXCEPT !.seat = Append(@, r)]
           /\ cur' = [cur EXCEPT !.seat = Len(tx.seat) + 1]
  <2> DEFINE u == [Seen EXCEPT !.seat = Append(@, r)]
             i == Len(Seen.seat) + 1
  <2>1. Seen' = u
    BY <1>1, <1>6, SeenSeat
  <2>2. u \in Tables /\ AllGrow(Seen, u)
    BY <1>1, Appending, AllGrowByRow
  <2>3. /\ u.seat = Append(Seen.seat, r) /\ u.source = Seen.source /\ u.state = Seen.state
        /\ u.election = Seen.election /\ u.candidacy = Seen.candidacy
        /\ u.result = Seen.result /\ u.csi = Seen.csi
    BY <1>1 DEF Tables
  <2>4. i \in Ids(u.seat) /\ u.seat[i] = r /\ Ids(u.seat) = Ids(Seen.seat) \cup {i}
    BY <1>1, <2>3, Columns, RowAppended
  <2>5. cur' = [cur EXCEPT !.seat = i]
    BY <1>1, <1>6
  <2>6. r.state = cur.state /\ r.name = p.seat
    BY <1>1 DEF SeatEntry
  <2> HIDE DEF u, i, r
  <2>7. SeatIs(u, p, i)
    BY <1>3, <2>3, <2>4, <2>6 DEF SeatIs
  <2>8. Refers(u)
    BY <1>1, <1>2, <1>3, <2>2, <2>3, <2>4, <2>6, RefersOn
  <2>9. Evidenced(u)
    BY <1>1, <1>2, <2>2, <2>3, EvidencedOn
  <2> QED
    BY <1>4, <2>1, <2>2, <2>3, <2>4, <2>5, <2>7, <2>8, <2>9
<1> QED
  BY <1>1, <1>5, <1>6 DEF GetSeat, SeatEntry

LEMMA ElectionUnderWay == ASSUME WellTyped, Arrived, GetElection PROVE Arrived'
<1> DEFINE p == Payload[doc.sha]
           r == PollEntry
<1>1. /\ Seen \in Tables /\ Seen.election = tx.election /\ r \in PollRow /\ Parsed = p
      /\ step = "election" /\ step' = "party" /\ doc' = doc /\ cur \in Cursor /\ pending' = pending
  BY SeenNow, RowsTyped DEF WellTyped, TypeOK, Parsed, GetElection
<1>2. Refers(Seen) /\ Evidenced(Seen) /\ UnderWay(Seen, "election", doc, cur)
  BY <1>1 DEF Arrived, UnderWay
<1>3. cur.seat \in Ids(Seen.seat) /\ SeatIs(Seen, p, cur.seat) /\ InPlace(Seen, "election", p, cur)
  BY <1>2 DEF UnderWay, InPlace
<1>4. ASSUME NEW u \in Tables, AllGrow(Seen, u), u.source = Seen.source, Refers(u), Evidenced(u),
             NEW i \in Ids(u.election), ElectionIs(u, p, i), cur' = [cur EXCEPT !.election = i], Seen' = u
      PROVE  Arrived'
  <2>1. cur'.state = cur.state /\ cur'.seat = cur.seat /\ cur'.election = i /\ cur'.cand = cur.cand
    BY <1>1, <1>4 DEF Cursor
  <2>2. InPlace(u, "election", p, cur)
    BY <1>1, <1>2, <1>3, <1>4, PlaceStays
  <2>3. InPlace(u, "party", p, cur')
    BY <1>4, <2>1, <2>2 DEF InPlace, Settled, Working, Turn
  <2>4. \A n : Dealt("party", cur', n) => Dealt("election", cur, n)
    BY <2>1 DEF Dealt
  <2>5. "election" \in Working /\ "party" \in Working
    BY DEF Working, Turn
  <2>6. UnderWay(u, "party", doc, cur')
    BY <1>1, <1>2, <1>4, <2>3, <2>4, <2>5, Onward
  <2> QED
    BY <1>1, <1>4, <2>6 DEF Arrived
<1>5. CASE \E i \in ElectionsFound : cur' = [cur EXCEPT !.election = i] /\ UNCHANGED tx
  <2>1. PICK i \in ElectionsFound : cur' = [cur EXCEPT !.election = i]
    BY <1>5
  <2>2. i \in Ids(Seen.election) /\ ElectionIs(Seen, p, i)
    BY <1>1, <1>3, <2>1 DEF ElectionsFound, ElectionIs
  <2>3. Seen' = Seen
    BY <1>1, <1>5, SeenSame
  <2> QED
    BY <1>1, <1>2, <1>4, <2>1, <2>2, <2>3, AllGrowSame
<1>6. CASE /\ tx' = [tx EXCEPT !.election = Append(@, r)]
           /\ cur' = [cur EXCEPT !.election = Len(tx.election) + 1]
  <2> DEFINE u == [Seen EXCEPT !.election = Append(@, r)]
             i == Len(Seen.election) + 1
  <2>1. Seen' = u
    BY <1>1, <1>6, SeenElection
  <2>2. u \in Tables /\ AllGrow(Seen, u)
    BY <1>1, Appending, AllGrowByRow
  <2>3. /\ u.election = Append(Seen.election, r) /\ u.source = Seen.source /\ u.state = Seen.state
        /\ u.seat = Seen.seat /\ u.candidacy = Seen.candidacy
        /\ u.result = Seen.result /\ u.csi = Seen.csi
    BY <1>1 DEF Tables
  <2>4. i \in Ids(u.election) /\ u.election[i] = r /\ Ids(u.election) = Ids(Seen.election) \cup {i}
    BY <1>1, <2>3, Columns, RowAppended
  <2>5. cur' = [cur EXCEPT !.election = i]
    BY <1>1, <1>6
  <2>6. r.poll = p.poll /\ r.seat = cur.seat
    BY <1>1 DEF PollEntry
  <2> HIDE DEF u, i, r
  <2>7. ElectionIs(u, p, i)
    BY <1>3, <2>3, <2>4, <2>6 DEF ElectionIs, SeatIs
  <2>8. Refers(u)
    BY <1>1, <1>2, <1>3, <2>2, <2>3, <2>4, <2>6, RefersOn
  <2>9. Evidenced(u)
    BY <1>1, <1>2, <2>2, <2>3, EvidencedOn
  <2> QED
    BY <1>4, <2>1, <2>2, <2>3, <2>4, <2>5, <2>7, <2>8, <2>9
<1> QED
  BY <1>1, <1>5, <1>6 DEF GetElection, PollEntry

LEMMA PartyUnderWay == ASSUME WellTyped, WellTyped', Arrived, GetParty PROVE Arrived'
<1> DEFINE p == Payload[doc.sha]
           r == Cand.party
<1>1. /\ Seen \in Tables /\ r \in Parties /\ Flush(tx) = Seen
      /\ step = "party" /\ step' = "person" /\ doc' = doc /\ cur \in Cursor
  BY SeenNow, RowsTyped DEF WellTyped, TypeOK, GetParty, Turn
<1>2. Refers(Seen) /\ Evidenced(Seen) /\ UnderWay(Seen, "party", doc, cur) /\ InPlace(Seen, "party", p, cur)
  BY <1>1 DEF Arrived, UnderWay
<1>3. ASSUME NEW u \in Tables, AllGrow(Seen, u), u.source = Seen.source, Refers(u), Evidenced(u),
             NEW i, cur' = [cur EXCEPT !.party = i], Seen' = u
      PROVE  Arrived'
  <2>1. cur'.state = cur.state /\ cur'.seat = cur.seat /\ cur'.election = cur.election /\ cur'.cand = cur.cand
    BY <1>1, <1>3 DEF Cursor
  <2>2. InPlace(u, "party", p, cur)
    BY <1>1, <1>2, <1>3, PlaceStays
  <2>3. InPlace(u, "person", p, cur')
    BY <1>3, <2>1, <2>2 DEF InPlace, Settled, Working, Turn
  <2>4. \A n : Dealt("person", cur', n) => Dealt("party", cur, n)
    BY <2>1 DEF Dealt
  <2>5. "party" \in Working /\ "person" \in Working
    BY DEF Working, Turn
  <2>6. UnderWay(u, "person", doc, cur')
    BY <1>1, <1>2, <1>3, <2>3, <2>4, <2>5, Onward
  <2> QED
    BY <1>1, <1>3, <2>6 DEF Arrived
<1>4. CASE (\E i \in Find(tx.party, r) : cur' = [cur EXCEPT !.party = i]) /\ UNCHANGED <<tx, pending>>
  <2>1. Seen' = Seen
    BY <1>4, SeenSame
  <2> QED
    BY <1>1, <1>2, <1>3, <1>4, <2>1, AllGrowSame
<1>5. CASE /\ tx' = [Flush(tx) EXCEPT !.party = Append(@, r)]
           /\ cur' = [cur EXCEPT !.party = Len(tx.party) + 1]
           /\ pending' = <<>>
  <2> DEFINE u == [Seen EXCEPT !.party = Append(@, r)]
  <2>1. Seen' = u
    BY <1>1, <1>5, SeenFlushed
  <2>2. u \in Tables /\ AllGrow(Seen, u)
    BY <1>1, Appending, AllGrowByRow
  <2>3. /\ u.source = Seen.source /\ u.state = Seen.state /\ u.election = Seen.election
        /\ u.seat = Seen.seat /\ u.candidacy = Seen.candidacy
        /\ u.result = Seen.result /\ u.csi = Seen.csi
    BY <1>1 DEF Tables
  <2> HIDE DEF u
  <2>4. Refers(u) /\ Evidenced(u)
    BY <1>1, <1>2, <2>2, <2>3, RefersOn, EvidencedOn
  <2> QED
    BY <1>3, <1>5, <2>1, <2>2, <2>3, <2>4
<1> QED
  BY <1>1, <1>4, <1>5 DEF GetParty

LEMMA PersonUnderWay == ASSUME WellTyped, WellTyped', Arrived, ResolvePerson PROVE Arrived'
<1> DEFINE p == Payload[doc.sha]
           r == Cand.name
<1>1. /\ Seen \in Tables /\ r \in Names /\ Flush(tx) = Seen /\ Seen.person = tx.person
      /\ step = "person" /\ step' = "candidacy" /\ doc' = doc /\ cur \in Cursor
      /\ r = p.cands[cur.cand].name
  BY SeenNow, RowsTyped DEF WellTyped, TypeOK, ResolvePerson, Turn, Cand, Parsed
<1>2. Refers(Seen) /\ Evidenced(Seen) /\ UnderWay(Seen, "person", doc, cur) /\ InPlace(Seen, "person", p, cur)
  BY <1>1 DEF Arrived, UnderWay
<1>3. ASSUME NEW u \in Tables, AllGrow(Seen, u), u.source = Seen.source, Refers(u), Evidenced(u),
             NEW i \in Ids(u.person), u.person[i] = r, cur' = [cur EXCEPT !.person = i], Seen' = u
      PROVE  Arrived'
  <2>1. /\ cur'.state = cur.state /\ cur'.seat = cur.seat /\ cur'.election = cur.election
        /\ cur'.cand = cur.cand /\ cur'.person = i
    BY <1>1, <1>3 DEF Cursor
  <2>2. InPlace(u, "person", p, cur)
    BY <1>1, <1>2, <1>3, PlaceStays
  <2>3. InPlace(u, "candidacy", p, cur')
    BY <1>1, <1>3, <2>1, <2>2 DEF InPlace, Settled, Working, Turn
  <2>4. \A n : Dealt("candidacy", cur', n) => Dealt("person", cur, n)
    BY <2>1 DEF Dealt
  <2>5. "person" \in Working /\ "candidacy" \in Working
    BY DEF Working, Turn
  <2>6. UnderWay(u, "candidacy", doc, cur')
    BY <1>1, <1>2, <1>3, <2>3, <2>4, <2>5, Onward
  <2> QED
    BY <1>1, <1>3, <2>6 DEF Arrived
<1>4. CASE /\ \E i \in Ids(tx.person) : /\ Find(tx.person, r) = {i}
                                        /\ cur' = [cur EXCEPT !.person = i]
           /\ UNCHANGED <<tx, pending>>
  <2>1. PICK i \in Ids(Seen.person) : Seen.person[i] = r /\ cur' = [cur EXCEPT !.person = i]
    BY <1>1, <1>4 DEF Find
  <2>2. Seen' = Seen
    BY <1>4, SeenSame
  <2> QED
    BY <1>1, <1>2, <1>3, <2>1, <2>2, AllGrowSame
<1>5. CASE /\ tx' = [Flush(tx) EXCEPT !.person = Append(@, r)]
           /\ cur' = [cur EXCEPT !.person = Len(tx.person) + 1]
           /\ pending' = <<>>
  <2> DEFINE u == [Seen EXCEPT !.person = Append(@, r)]
             i == Len(Seen.person) + 1
  <2>1. Seen' = u
    BY <1>1, <1>5, SeenFlushed
  <2>2. u \in Tables /\ AllGrow(Seen, u)
    BY <1>1, Appending, AllGrowByRow
  <2>3. /\ u.source = Seen.source /\ u.state = Seen.state /\ u.election = Seen.election
        /\ u.seat = Seen.seat /\ u.candidacy = Seen.candidacy
        /\ u.result = Seen.result /\ u.csi = Seen.csi /\ u.person = Append(Seen.person, r)
    BY <1>1 DEF Tables
  <2>4. i \in Ids(u.person) /\ u.person[i] = r
    BY <1>1, <2>3, Columns, RowAppended
  <2>5. cur' = [cur EXCEPT !.person = i]
    BY <1>1, <1>5
  <2> HIDE DEF u, i
  <2>6. Refers(u) /\ Evidenced(u)
    BY <1>1, <1>2, <2>2, <2>3, RefersOn, EvidencedOn
  <2> QED
    BY <1>3, <2>1, <2>2, <2>3, <2>4, <2>5, <2>6
<1> QED
  BY <1>1, <1>4, <1>5 DEF ResolvePerson

(* A result for the candidate under the cursor: the last three actions.    *)
LEMMA IdentifierUnderWay ==
  ASSUME WellTyped, Arrived, step = "candidacy", step' = "identifier", doc' = doc,
         NEW u \in Tables, AllGrow(Seen, u), u.source = Seen.source, Refers(u), Evidenced(u),
         NEW k \in Ids(u.candidacy), u.candidacy[k].person = cur.person,
         u.candidacy[k].election = cur.election, cur' = [cur EXCEPT !.candidacy = k], Seen' = u,
         NEW i \in Ids(u.result), u.result[i].candidacy = k,
         u.result[i].score = Cand.score \/ Len(u.source) \in u.review
  PROVE  Arrived'
<1> DEFINE p == Payload[doc.sha]
<1>1. Seen \in Tables /\ cur \in Cursor /\ Cand = p.cands[cur.cand]
  BY SeenNow DEF WellTyped, TypeOK, Cand, Parsed
<1>2. /\ Refers(Seen) /\ UnderWay(Seen, "candidacy", doc, cur) /\ InPlace(Seen, "candidacy", p, cur)
      /\ Done(Seen, "candidacy", doc, cur)
  BY DEF Arrived, UnderWay
<1>3. /\ cur'.state = cur.state /\ cur'.seat = cur.seat /\ cur'.election = cur.election
      /\ cur'.cand = cur.cand /\ cur'.person = cur.person /\ cur'.candidacy = k
  BY <1>1 DEF Cursor
<1>4. InPlace(u, "candidacy", p, cur)
  BY <1>1, <1>2, PlaceStays
<1>5. InPlace(u, "identifier", p, cur')
  BY <1>3, <1>4 DEF InPlace, Settled, Working, Turn
<1>6. CandidacyIs(u, p, p.cands[cur.cand], k)
  BY <1>4 DEF InPlace, CandidacyIs, Settled
<1>7. Seen.source[Len(Seen.source)] = doc
  BY <1>2 DEF Done, Working, Turn
<1>8. Backed(u, Len(u.source), cur.cand)
  BY <1>1, <1>6, <1>7 DEF Backed
<1>9. \A n : Dealt("identifier", cur', n) => Dealt("candidacy", cur, n) \/ Backed(u, Len(u.source), n)
  BY <1>3, <1>8 DEF Dealt
<1>10. "candidacy" \in Working /\ "identifier" \in Working
  BY DEF Working, Turn
<1>11. UnderWay(u, "identifier", doc, cur')
  BY <1>1, <1>2, <1>5, <1>9, <1>10, Onward
<1> QED
  BY <1>11 DEF Arrived

LEMMA AddResultUnderWay ==
  ASSUME WellTyped, WellTyped', Arrived, AddResult, step' # "raise"
  PROVE  Arrived'
<1>1. PICK k \in CandidaciesFound :
        pending' = Append(pending, ResultRow(k)) /\ cur' = [cur EXCEPT !.candidacy = k]
  BY DEF AddResult
<1>2. /\ Seen \in Tables /\ tx \in Tables /\ Seen.candidacy = tx.candidacy /\ Len(tx.candidacy) \in Nat
      /\ step = "candidacy" /\ step' = "identifier" /\ doc' = doc /\ tx' = tx
      /\ pending = <<>> /\ Refers(Seen) /\ Evidenced(Seen)
  BY SeenNow, Columns DEF AddResult, Arrived, UnderWay
<1>3. /\ k \in Ids(Seen.candidacy) /\ k \in Nat
      /\ Seen.candidacy[k].person = cur.person /\ Seen.candidacy[k].election = cur.election
  BY <1>2 DEF CandidaciesFound, Ids
<1> DEFINE r == ResultRow(k)
           u == [Seen EXCEPT !.result = Append(@, r)]
           i == Len(Seen.result) + 1
<1>4. r \in Result /\ r.candidacy = k /\ r.score = Cand.score
  BY <1>2, <1>3, RowTyped DEF ResultRow, Turn
<1>5. Seen = tx /\ pending' = <<r>>
  BY <1>1, <1>2, ViewOfNone DEF Seen
<1>6. Seen' = u
  <2>1. Seen' = View(Seen, <<r>>)
    BY <1>2, <1>5 DEF Seen
  <2> HIDE DEF r
  <2> QED
    BY <1>2, <1>4, <2>1, ViewOfOne
<1>7. u \in Tables /\ AllGrow(Seen, u)
  BY <1>2, <1>4, ResultAppended
<1>8. /\ u.source = Seen.source /\ u.state = Seen.state /\ u.election = Seen.election
      /\ u.seat = Seen.seat /\ u.candidacy = Seen.candidacy /\ u.person = Seen.person
      /\ u.result = Append(Seen.result, r) /\ u.csi = Seen.csi
  BY <1>2 DEF Tables
<1> HIDE DEF r, u
<1>9. i \in Ids(u.result) /\ u.result[i] = r /\ Ids(u.result) = Ids(Seen.result) \cup {i}
  BY <1>2, <1>4, <1>8, Columns, RowAppended
<1> HIDE DEF i
<1>10. Refers(u) /\ Evidenced(u)
  BY <1>2, <1>3, <1>4, <1>7, <1>8, <1>9, RefersOn, EvidencedOn
<1> QED
  BY <1>1, <1>2, <1>3, <1>4, <1>6, <1>7, <1>8, <1>9, <1>10, IdentifierUnderWay

LEMMA CompareResultUnderWay ==
  ASSUME WellTyped, WellTyped', Arrived, CompareResult
  PROVE  Arrived'
<1>0. PICK k \in CandidaciesFound : \E i \in ResultsOf(k) :
       /\ \/ /\ tx.result[i].score = Cand.score \/ ThisSource \in tx.review
             /\ UNCHANGED <<tx, pending>>
          \/ /\ tx' = [Flush(tx) EXCEPT !.review = @ \cup {ThisSource}]
             /\ pending' = <<>>
       /\ cur' = [cur EXCEPT !.candidacy = k]
  BY DEF CompareResult
<1>1. PICK i \in ResultsOf(k) :
       /\ \/ /\ tx.result[i].score = Cand.score \/ ThisSource \in tx.review
             /\ UNCHANGED <<tx, pending>>
          \/ /\ tx' = [Flush(tx) EXCEPT !.review = @ \cup {ThisSource}]
             /\ pending' = <<>>
       /\ cur' = [cur EXCEPT !.candidacy = k]
  BY <1>0
<1>2. /\ Seen \in Tables /\ Seen.candidacy = tx.candidacy /\ Seen.review = tx.review
      /\ Seen.source = tx.source /\ Flush(tx) = Seen /\ ThisSource \in Nat
      /\ step = "candidacy" /\ step' = "identifier" /\ doc' = doc
      /\ Refers(Seen) /\ Evidenced(Seen)
  BY SeenNow, RowsTyped DEF CompareResult, Arrived, UnderWay
<1>3. /\ k \in Ids(Seen.candidacy)
      /\ Seen.candidacy[k].person = cur.person /\ Seen.candidacy[k].election = cur.election
  BY <1>2 DEF CandidaciesFound
<1>4. i \in Ids(Seen.result) /\ Seen.result[i] = tx.result[i] /\ Seen.result[i].candidacy = k
  <2>1. tx.result \in Seq(Result) /\ Seen.result \in Seq(Result)
    BY SeenNow, Columns
  <2>2. Extends(tx.result, Seen.result)
    BY <1>2, GrowsByFlush DEF WellTyped, GrowsTo
  <2>3. \A j \in Ids(tx.result) : j \in Ids(Seen.result) /\ Seen.result[j] = tx.result[j]
    BY <2>1, <2>2, ExtendsIds
  <2>4. i \in Ids(tx.result) /\ tx.result[i].candidacy = k
    BY DEF ResultsOf
  <2> QED
    BY <2>3, <2>4
<1>5. CASE /\ tx.result[i].score = Cand.score \/ ThisSource \in tx.review
           /\ UNCHANGED <<tx, pending>>
  <2>1. Seen' = Seen
    BY <1>5, SeenSame
  <2>2. Seen.result[i].score = Cand.score \/ Len(Seen.source) \in Seen.review
    BY <1>2, <1>4, <1>5 DEF ThisSource
  <2> QED
    BY <1>1, <1>2, <1>3, <1>4, <2>1, <2>2, AllGrowSame, IdentifierUnderWay
<1>6. CASE /\ tx' = [Flush(tx) EXCEPT !.review = @ \cup {ThisSource}]
           /\ pending' = <<>>
  <2> DEFINE u == [Seen EXCEPT !.review = @ \cup {ThisSource}]
  <2>1. Seen' = u
    BY <1>2, <1>6, SeenFlushed
  <2>2. u \in Tables /\ AllGrow(Seen, u)
    BY <1>2, Appending, AllGrowByRow
  <2>3. /\ u.source = Seen.source /\ u.state = Seen.state /\ u.election = Seen.election
        /\ u.seat = Seen.seat /\ u.candidacy = Seen.candidacy
        /\ u.result = Seen.result /\ u.csi = Seen.csi /\ ThisSource \in u.review
    BY <1>2 DEF Tables
  <2>4. ThisSource = Len(u.source)
    BY <1>2, <2>3 DEF ThisSource
  <2> HIDE DEF u
  <2>5. Refers(u) /\ Evidenced(u)
    BY <1>2, <2>2, <2>3, RefersOn, EvidencedOn
  <2> QED
    BY <1>1, <1>2, <1>3, <1>4, <2>1, <2>2, <2>3, <2>4, <2>5, IdentifierUnderWay
<1> QED
  BY <1>1, <1>5, <1>6

(* A new candidacy and its result, which stays pending.                    *)
LEMMA NewCandidacyUnderWay ==
  ASSUME WellTyped, WellTyped', Arrived, NewCandidacy
  PROVE  Arrived'
<1> DEFINE r == CandEntry
           k == Len(tx.candidacy) + 1
           w == ResultRow(k)
           m == [Seen EXCEPT !.candidacy = Append(@, r)]
           u == [m EXCEPT !.result = Append(@, w)]
           i == Len(m.result) + 1
<1>1. /\ Seen \in Tables /\ Seen.candidacy = tx.candidacy /\ Flush(tx) = Seen /\ r \in CandRow
      /\ step = "candidacy" /\ step' = "identifier" /\ doc' = doc /\ k \in Nat
      /\ cur' = [cur EXCEPT !.candidacy = k] /\ UnderWay(Seen, "candidacy", doc, cur)
  BY SeenNow, RowsTyped, Columns DEF NewCandidacy, Arrived
<1>2. /\ Refers(Seen) /\ Evidenced(Seen) /\ r.person = cur.person /\ r.election = cur.election
      /\ cur.person \in Ids(Seen.person) /\ cur.election \in Ids(Seen.election)
  BY <1>1 DEF UnderWay, InPlace, Settled, CandEntry
<1>3. w \in Result /\ w.candidacy = k /\ w.score = Cand.score
  BY <1>1, RowTyped DEF ResultRow, Turn
<1>4. tx' = m /\ pending' = <<w>>
  BY <1>1 DEF NewCandidacy, CandEntry
<1>5. m \in Tables /\ AllGrow(Seen, m)
  BY <1>1, Appending, AllGrowByRow
<1>6. /\ m.source = Seen.source /\ m.state = Seen.state /\ m.election = Seen.election
      /\ m.seat = Seen.seat /\ m.candidacy = Append(Seen.candidacy, r) /\ m.person = Seen.person
      /\ m.result = Seen.result /\ m.csi = Seen.csi
  BY <1>1 DEF Tables
<1> HIDE DEF r, m, w
<1>7. k \in Ids(m.candidacy) /\ m.candidacy[k] = r /\ Ids(m.candidacy) = Ids(Seen.candidacy) \cup {k}
  BY <1>1, <1>6, Columns, RowAppended
<1> HIDE DEF k
<1>8. Refers(m) /\ Evidenced(m)
  BY <1>1, <1>2, <1>5, <1>6, <1>7, RefersOn, EvidencedOn
<1>9. Seen' = u
  <2>1. Seen' = View(m, <<w>>)
    BY <1>4 DEF Seen
  <2> QED
    BY <1>3, <1>5, <2>1, ViewOfOne
<1>10. u \in Tables /\ AllGrow(m, u)
  BY <1>3, <1>5, ResultAppended
<1>11. /\ u.source = m.source /\ u.state = m.state /\ u.election = m.election
       /\ u.seat = m.seat /\ u.candidacy = m.candidacy /\ u.person = m.person
       /\ u.result = Append(m.result, w) /\ u.csi = m.csi
  BY <1>5 DEF Tables
<1> HIDE DEF u
<1>12. i \in Ids(u.result) /\ u.result[i] = w /\ Ids(u.result) = Ids(m.result) \cup {i}
  BY <1>3, <1>5, <1>11, Columns, RowAppended
<1> HIDE DEF i
<1>13. Refers(u) /\ Evidenced(u)
  BY <1>3, <1>5, <1>7, <1>8, <1>10, <1>11, <1>12, RefersOn, EvidencedOn
<1>14. AllGrow(Seen, u) /\ u.source = Seen.source
  BY <1>1, <1>5, <1>6, <1>10, <1>11, AllGrowOn
<1>15. k \in Ids(u.candidacy) /\ u.candidacy[k].person = cur.person /\ u.candidacy[k].election = cur.election
  BY <1>2, <1>7, <1>11
<1> QED
  BY <1>1, <1>3, <1>9, <1>10, <1>12, <1>13, <1>14, <1>15, IdentifierUnderWay

LEMMA AttachIdentifierUnderWay ==
  ASSUME WellTyped, WellTyped', Arrived, AttachIdentifier, step' # "raise"
  PROVE  Arrived'
<1> DEFINE p == Payload[doc.sha]
           r == CsiEntry
<1>1. /\ Seen \in Tables /\ Seen.csi = tx.csi /\ Flush(tx) = Seen /\ Parsed = p /\ Cand = p.cands[cur.cand]
      /\ step = "identifier" /\ doc' = doc /\ doc \in Document /\ doc.sha \in Shas /\ cur \in Cursor
      /\ cur.cand \in Ids(p.cands) /\ Len(p.cands) \in Nat
  BY SeenNow, Parses, LenProperties
     DEF WellTyped, TypeOK, InPayload, Turn, Parsed, Cand, AttachIdentifier, Parse, Document
<1>2. /\ Refers(Seen) /\ Evidenced(Seen) /\ UnderWay(Seen, "identifier", doc, cur)
      /\ InPlace(Seen, "identifier", p, cur)
  BY <1>1 DEF Arrived, UnderWay
<1>3. NextTurn
  BY DEF AttachIdentifier
<1>4. ASSUME NEW u \in Tables, AllGrow(Seen, u), u.source = Seen.source, Refers(u), Evidenced(u), Seen' = u
      PROVE  Arrived'
  <2>1. /\ cur'.state = cur.state /\ cur'.seat = cur.seat /\ cur'.election = cur.election
        /\ cur'.cand = cur.cand + 1 /\ step' \in {"party", "finish"}
        /\ step' = "finish" => cur.cand = Len(p.cands)
    BY <1>1, <1>3 DEF Cursor, NextTurn, Ids
  <2>2. InPlace(u, "identifier", p, cur)
    BY <1>1, <1>2, <1>4, PlaceStays
  <2>3. InPlace(u, step', p, cur')
    BY <2>1, <2>2 DEF InPlace, Settled, Working, Turn
  <2>4. \A n \in Ids(p.cands) : step' = "finish" \/ Dealt(step', cur', n) => Dealt("identifier", cur, n)
    BY <1>1, <2>1 DEF Dealt, Ids
  <2>5. "identifier" \in Working /\ step' \in Working \cup {"finish"}
    BY <2>1 DEF Working, Turn
  <2>6. UnderWay(u, step', doc, cur')
    BY <1>1, <1>2, <1>4, <2>3, <2>4, <2>5, Onward
  <2> QED
    BY <1>1, <1>4, <2>6 DEF Arrived
<1>5. CASE UNCHANGED <<tx, pending>>
  BY <1>1, <1>2, <1>4, <1>5, SeenSame, AllGrowSame
<1>6. CASE /\ Cand.ext # NoExt
           /\ tx' = [Flush(tx) EXCEPT !.csi = Append(@, r)]
           /\ pending' = <<>>
  <2> DEFINE u == [Seen EXCEPT !.csi = Append(@, r)]
             i == Len(Seen.csi) + 1
  <2>1. Seen' = u
    BY <1>1, <1>6, SeenFlushed
  <2>2. r \in CsiRow
    BY <1>1, <1>6, RowsTyped DEF Turn
  <2>3. u \in Tables /\ AllGrow(Seen, u)
    BY <1>1, <2>2, Appending, AllGrowByRow
  <2>4. /\ u.source = Seen.source /\ u.state = Seen.state /\ u.election = Seen.election
        /\ u.seat = Seen.seat /\ u.candidacy = Seen.candidacy
        /\ u.result = Seen.result /\ u.csi = Append(Seen.csi, r)
    BY <1>1 DEF Tables
  <2>5. r.value = p.cands[cur.cand].ext /\ r.election = cur.election /\ r.candidacy = cur.candidacy
    BY <1>1 DEF CsiEntry
  <2> HIDE DEF u, r
  <2>6. Ids(u.csi) = Ids(Seen.csi) \cup {i} /\ u.csi[i] = r /\ \A j \in Ids(Seen.csi) : u.csi[j] = Seen.csi[j]
    <3>1. Seen.csi \in Seq(CsiRow)
      BY <1>1, Columns
    <3>2. Ids(Append(Seen.csi, r)) = Ids(Seen.csi) \cup {i} /\ Append(Seen.csi, r)[i] = r
      BY <2>2, <3>1, RowAppended
    <3>3. \A j \in Ids(Seen.csi) : Append(Seen.csi, r)[j] = Seen.csi[j]
      BY <2>2, <3>1, AppendProperties DEF Ids
    <3> QED
      BY <2>4, <3>2, <3>3
  <2> HIDE DEF i
  <2>7. /\ cur.candidacy \in Ids(Seen.candidacy)
        /\ Seen.candidacy[cur.candidacy].election = cur.election
        /\ Seen.person[Seen.candidacy[cur.candidacy].person] = p.cands[cur.cand].name
        /\ Seen.election[cur.election].poll = p.poll
    BY <1>2 DEF InPlace, Settled, ElectionIs
  <2>8. Evidence(Seen, r)
    BY <1>1, <2>5, <2>7 DEF Evidence
  <2>9. Refers(u)
    BY <1>1, <1>2, <2>3, <2>4, RefersOn
  <2>10. Evidenced(u)
    BY <1>1, <1>2, <2>3, <2>6, <2>8, EvidencedOn
  <2> QED
    BY <1>4, <2>1, <2>3, <2>4, <2>9, <2>10
<1> QED
  BY <1>5, <1>6 DEF AttachIdentifier, CsiEntry

(* A document enters: its bytes are known, or its URL is, or it is new.    *)
LEMMA SourceUnderWay ==
  ASSUME WellTyped, WellTyped', Arrived, GetSource, pending = <<>>
  PROVE  Arrived'
<1>1. /\ Seen = tx /\ Seen' = tx' /\ tx \in Tables /\ doc \in Document /\ doc' = doc /\ cur' = cur
      /\ step = "source" /\ step' \in {"state", "finish"}
  BY SeenNow, RowsTyped, SeenFlushed, ViewOfNone DEF GetSource, Seen
<1>2. Refers(tx) /\ Evidenced(tx) /\ Complete(tx) /\ cur.cand = 1
  BY <1>1 DEF Arrived, UnderWay, Done, Working
<1> DEFINE l == Len(tx.source)
           m == [tx EXCEPT !.source = Append(@, doc)]
<1>3. /\ m \in Tables /\ AllGrow(tx, m) /\ l \in Nat /\ l + 1 \in Nat
  <2>1. l \in Nat
    BY <1>1, Columns
  <2>2. m \in Tables /\ AllGrow(tx, m)
    BY <1>1, Appending, AllGrowByRow
  <2> QED
    BY <2>1, <2>2
<1>4. /\ m.source = Append(tx.source, doc) /\ m.state = tx.state /\ m.election = tx.election
      /\ m.seat = tx.seat /\ m.candidacy = tx.candidacy /\ m.result = tx.result /\ m.csi = tx.csi
  BY <1>1 DEF Tables
<1>5. /\ Ids(m.source) = 1..(l + 1) /\ m.source[l + 1] = doc /\ Len(m.source) = l + 1
      /\ \A i \in 1..l : m.source[i] = tx.source[i]
  BY <1>1, <1>3, <1>4, Columns, AppendProperties DEF Ids
<1> HIDE DEF m
<1>6. Refers(m) /\ Evidenced(m)
  BY <1>1, <1>2, <1>3, <1>4, RefersOn, EvidencedOn
<1>7. \A i \in 1..l : First(m, i) => WhollyBacked(m, i)
  BY <1>1, <1>2, <1>3, BackedStays DEF Complete, Ids
<1>8. CASE status' = "UNCHANGED"
  <2>1. tx' = tx /\ step' = "finish"
    BY <1>8 DEF GetSource
  <2> QED
    BY <1>1, <1>2, <2>1 DEF Arrived, UnderWay, InPlace, Settled, Done, Working, Turn
<1>9. CASE status' = "INSERTED"
  <2>1. tx' = m /\ step' = "state"
    BY <1>9 DEF GetSource, m
  <2>2. \A n \in Ids(Payload[doc.sha].cands) : ~Dealt("state", cur, n)
    BY <1>2 DEF Dealt, Ids
  <2>3. m.source # <<>> /\ "state" \in Working /\ Len(m.source) - 1 = l
    BY <1>3, <1>5, EmptySeq DEF Working, Turn
  <2> HIDE DEF l
  <2>4. Done(m, "state", doc, cur)
    BY <1>5, <1>7, <2>2, <2>3 DEF Done
  <2>5. InPlace(m, "state", Payload[doc.sha], cur)
    BY DEF InPlace, Settled
  <2> QED
    BY <1>1, <1>6, <2>1, <2>4, <2>5 DEF Arrived, UnderWay
<1>10. CASE status' = "SOURCE_CHANGED"
  <2> DEFINE u == [m EXCEPT !.review = @ \cup {l + 1}]
  <2>1. tx' = u /\ step' = "finish"
    BY <1>1, <1>10 DEF GetSource, m, Tables
  <2>2. Prior # {}
    BY <1>10 DEF GetSource, SourceStatus
  <2>3. PICK j \in 1..l : tx.source[j].url = doc.url
    BY <2>2 DEF Prior, Ids
  <2>4. u \in Tables /\ AllGrow(m, u)
    BY <1>3, Appending, AllGrowByRow
  <2>5. /\ u.source = m.source /\ u.state = m.state /\ u.election = m.election
        /\ u.seat = m.seat /\ u.candidacy = m.candidacy /\ u.result = m.result /\ u.csi = m.csi
    BY <1>3 DEF Tables
  <2> HIDE DEF u
  <2>6. Refers(u) /\ Evidenced(u)
    BY <1>3, <1>6, <2>4, <2>5, RefersOn, EvidencedOn
  <2>7. \A i \in 1..l : First(u, i) => WhollyBacked(u, i)
    BY <1>3, <1>5, <1>6, <1>7, <2>4, BackedStays
  <2>8. ~First(u, l + 1)
    BY <1>3, <1>5, <2>3, <2>5 DEF First
  <2>9. Complete(u)
    BY <1>3, <1>5, <2>5, <2>7, <2>8 DEF Complete
  <2>10. Done(u, "finish", doc, cur) /\ InPlace(u, "finish", Payload[doc.sha], cur)
    BY <2>9 DEF Done, InPlace, Settled, Working, Turn
  <2> QED
    BY <1>1, <2>1, <2>6, <2>10 DEF Arrived, UnderWay
<1> QED
  BY <1>8, <1>9, <1>10 DEF GetSource

-----------------------------------------------------------------------------
(* The run as a whole.                                                     *)
LEMMA AtRest ==
  ASSUME NEW t, NEW d, NEW c, Told(t)
  PROVE  UnderWay(t, "idle", d, c) /\ UnderWay(t, "fetch", d, c) /\ (c.cand = 1 => UnderWay(t, "source", d, c))
BY DEF Told, UnderWay, InPlace, Settled, Done, Working, Turn

LEMMA SessionRecorded ==
  ASSUME WellTyped, WellTyped', History, Recorded, Session
  PROVE  Recorded'
<1>1. db' = db /\ Arrived
  <2>1. step # "raise"
    BY DEF Session, GetSource, GetState, GetSeat, GetElection, GetParty, ResolvePerson,
           NewCandidacy, AddResult, CompareResult, AttachIdentifier
  <2> QED
    BY <2>1, SessionGrows DEF Recorded, Arrived
<1>2. GetSource => pending = <<>>
  BY DEF GetSource, History, Clean
<1>3. step' # "raise" => Arrived'
  BY <1>1, <1>2, SourceUnderWay, StateUnderWay, SeatUnderWay, ElectionUnderWay, PartyUnderWay,
     PersonUnderWay, NewCandidacyUnderWay, AddResultUnderWay, CompareResultUnderWay,
     AttachIdentifierUnderWay DEF Session
<1>4. Told(db')
  BY <1>1 DEF Recorded
<1> QED
  BY <1>3, <1>4 DEF Recorded, Arrived

LEMMA RunRecorded ==
  ASSUME WellTyped, WellTyped', History, Recorded,
         StartRun \/ Fetch \/ FinishRun \/ FailRun \/ Fault \/ Crash \/ UNCHANGED vars
  PROVE  Recorded'
<1>1. CASE UNCHANGED vars
  BY <1>1 DEF Recorded, Seen, vars, tables
<1>2. CASE StartRun \/ Fetch
  <2>1. tx = db /\ pending = <<>> /\ UNCHANGED <<db, tx, pending>>
    BY <1>2 DEF StartRun, Fetch, History, Clean, tables
  <2>2. Seen' = db'
    BY <2>1, SeenFlushed
  <2>3. Told(db')
    BY <2>1 DEF Recorded
  <2>4. step' \in {"fetch", "source", "raise"} /\ (step' = "source" => cur'.cand = 1)
    BY <1>2 DEF StartRun, Fetch, WellTyped, InPayload
  <2> QED
    BY <2>2, <2>3, <2>4, AtRest DEF Recorded
<1>3. CASE FinishRun
  <2>1. Told(Seen)
    BY <1>3 DEF FinishRun, Recorded, UnderWay, Done, Told, Working, Turn
  <2>2. db' = Seen /\ tx' = Seen /\ pending' = <<>> /\ step' = "idle"
    BY <1>3, SeenNow DEF FinishRun, Close, Rest
  <2>3. Seen' = db'
    BY <2>2, SeenFlushed
  <2>4. Told(db')
    BY <2>1, <2>2
  <2> QED
    BY <2>2, <2>3, <2>4, AtRest DEF Recorded
<1>4. CASE FailRun \/ Crash
  <2>1. db' = db /\ tx' = db /\ pending' = <<>> /\ step' = "idle"
    BY <1>4 DEF FailRun, Crash, Close, Rest
  <2>2. Seen' = db'
    BY <2>1, SeenFlushed
  <2>3. Told(db')
    BY <2>1 DEF Recorded
  <2> QED
    BY <2>1, <2>2, <2>3, AtRest DEF Recorded
<1>5. CASE Fault
  BY <1>5 DEF Fault, Recorded, tables
<1> QED
  BY <1>1, <1>2, <1>3, <1>4, <1>5

LEMMA InitRecorded == Init => Recorded
<1> SUFFICES ASSUME Init PROVE Recorded
  OBVIOUS
<1>1. db = Empty /\ tx = Empty /\ pending = <<>> /\ step = "idle" /\ Empty \in Tables
  BY InitWellTyped DEF Init, WellTyped, TypeOK
<1>2. Seen = Empty
  BY <1>1, ViewOfNone DEF Seen
<1>3. Told(Empty)
  BY EmptySeq DEF Told, Refers, Evidenced, Complete, Empty, Ids
<1> QED
  BY <1>1, <1>2, <1>3, AtRest DEF Recorded

LEMMA AllRecorded == Spec => []Recorded
<1>1. WellTyped /\ WellTyped' /\ History /\ Recorded /\ [Next]_vars => Recorded'
  BY SessionRecorded, RunRecorded DEF Next, Proceed, Session
<1> QED
  BY <1>1, InitRecorded, Typed, Histories, PTL DEF Spec

(* Whatever is ingested, fails or dies: a committed external candidate id  *)
(* counts for a candidacy of its election, and a payload published it for  *)
(* that candidacy's person at that poll.                                   *)
THEOREM IdentifiersEvidenced == Spec => []IdentifiersFollowPayloads
<1>1. Recorded => IdentifiersFollowPayloads
  BY DEF Recorded, Told, Evidenced, Evidence, IdentifiersFollowPayloads
<1> QED
  BY <1>1, AllRecorded, PTL

(* Whatever is ingested, fails or dies: a committed document that was the  *)
(* first of its URL has a result for every candidate, at its own poll and  *)
(* constituency, with the score it gives unless it is up for review.       *)
THEOREM Ingested == Spec => []IngestedOrReviewed
<1>1. ASSUME Recorded, NEW i \in Ids(db.source), FirstOfUrl(i),
             NEW n \in Ids(Payload[db.source[i].sha].cands)
      PROVE  LET p == Payload[db.source[i].sha] IN
             /\ Rows(p, p.cands[n]) # {}
             /\ \/ i \in db.review
                \/ \E k \in Rows(p, p.cands[n]) : db.result[k].score = p.cands[n].score
  <2> DEFINE p == Payload[db.source[i].sha]
  <2>1. Backed(db, i, n)
    BY <1>1 DEF Recorded, Told, Complete, WhollyBacked, First, FirstOfUrl
  <2>2. PICK k \in Ids(db.result) : /\ CandidacyIs(db, p, p.cands[n], db.result[k].candidacy)
                                    /\ i \in db.review \/ db.result[k].score = p.cands[n].score
    BY <2>1 DEF Backed
  <2>3. k \in Rows(p, p.cands[n])
    BY <2>2 DEF Rows, CandidacyIs, ElectionIs, SeatIs
  <2> QED
    BY <2>2, <2>3
<1>2. Recorded => IngestedOrReviewed
  BY <1>1 DEF IngestedOrReviewed
<1> QED
  BY <1>2, AllRecorded, PTL
=============================================================================
