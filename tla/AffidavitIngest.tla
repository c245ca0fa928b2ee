-------------------------- MODULE AffidavitIngest --------------------------
(***************************************************************************)
(* collectors/eci/affidavits: one Form 26 affidavit after another goes     *)
(* through fetch, archive, extract, parse, normalize, validate, linkage    *)
(* and persistence, in one collector process.  What is linked to, people   *)
(* and their candidacies, comes from result ingestion, which commits more  *)
(* of it at any time; review items are closed by people at any time.       *)
(*                                                                         *)
(* A table is a sequence of rows, a row's position its id: rows are never  *)
(* deleted and an id is the greatest one plus one.  Names stand for their  *)
(* normalized form.  The source table is shared with other collectors,     *)
(* whose documents have other bytes and URLs and are left out.             *)
(***************************************************************************)
EXTENDS IndianAmount

CONSTANTS
  Urls,         \* source URLs
  Shas,         \* payload bytes, each standing for its SHA-256 digest
  Extraction,   \* Extraction[sha]: the extraction status of the bytes, at best
  Form,         \* Form[sha]: what parser and normalize read from them
  Names, Years, Types, Seats, Exts, Fields,    \* what a form names
  Internal,     \* external ids that look like a person id (IND-PER-...)
  None,         \* a field that the form does not give
  Registry,     \* Registry[n]: people and candidacies after n - 1 result imports
  MaxRuns,      \* bound: collector runs
  MaxFaults,    \* bound: exceptions of a stage or of the database, and texts gone unread
  MaxCrashes,   \* bound: times the process dies during a run
  MaxClosed     \* bound: review items that people close

(* A row of education, profession or cases has no amount and the field     *)
(* "text"; money has a field of Fields, the one its review item names.     *)
Item == [field: Fields \cup {"text"}, amount: Seq(Tokens)]
Affidavit == [name: Names \cup {None}, year: Years \cup {None}, type: Types,
              seat: Seats \cup {None}, ext: Exts \cup {None}, items: Seq(Item),
              cases: {"PARSED", "NEEDS_REVIEW"}]
Candidacies == [person: Seq(Names),
                election: Seq([year: Years, type: Types, seat: Seats \cup {None}]),
                candidacy: Seq([person: Nat, election: Nat]),
                csi: Seq([value: Exts, candidacy: Nat])]

Ids(table) == 1..Len(table)
Extends(t, u) == Len(t) <= Len(u) /\ \A i \in Ids(t) : u[i] = t[i]

ASSUME FormAssumption ==
  /\ Extraction \in [Shas -> {"TEXT_EXTRACTED", "OCR_REQUIRED", "EXTRACTION_FAILED"}]
  /\ Form \in [Shas -> Affidavit]
  /\ Internal \subseteq Exts /\ Years \subseteq Nat
  /\ None \notin Names /\ None \notin Years /\ None \notin Seats /\ None \notin Exts
(* Result ingestion only adds rows, and its foreign keys hold.             *)
ASSUME RegistryAssumption ==
  /\ Registry \in Seq(Candidacies) /\ Registry # <<>>
  /\ \A n \in Ids(Registry) :
       /\ \A c \in Ids(Registry[n].candidacy) :
            /\ Registry[n].candidacy[c].person \in Ids(Registry[n].person)
            /\ Registry[n].candidacy[c].election \in Ids(Registry[n].election)
       /\ \A i \in Ids(Registry[n].csi) : Registry[n].csi[i].candidacy \in Ids(Registry[n].candidacy)
  /\ \A m, n \in Ids(Registry) : m <= n =>
       /\ Extends(Registry[m].person, Registry[n].person)
       /\ Extends(Registry[m].election, Registry[n].election)
       /\ Extends(Registry[m].candidacy, Registry[n].candidacy)
       /\ Extends(Registry[m].csi, Registry[n].csi)
ASSUME DocumentsAssumption == Urls # {} /\ Shas # {}
ASSUME BoundsAssumption ==
  MaxRuns \in Nat /\ MaxFaults \in Nat /\ MaxCrashes \in Nat /\ MaxClosed \in Nat

VARIABLES
  known,     \* Registry[known] is what result ingestion has committed
  db,        \* committed tables of the affidavit collector
  tx,        \* the same tables as the session sees them
  run,       \* run[r]: status of the collector_run row r
  step,      \* where the run is
  doc,       \* the document being ingested: its url and sha
  cur,       \* what is held of it: the people still to be looked up and the candidacies
             \* found, the one it is linked to, its affidavit, the item persisted next
  faults, crashes, closed

vars == <<known, db, tx, run, step, doc, cur, faults, crashes, closed>>

Document == [url: Urls, sha: Shas]
NoDoc    == CHOOSE d \in Document : TRUE     \* stands for none before a fetch
Empty    == [source |-> <<>>, affidavit |-> <<>>, declaration |-> <<>>, review |-> <<>>]
Fresh    == [candidacy |-> 0, people |-> {}, hits |-> {}, affidavit |-> 0, item |-> 1]
F        == Form[doc.sha]
Reg      == Registry[known]

(* parse_extracted_document and validate_affidavit raise for a form        *)
(* without a name or with an unreasonable year.                            *)
Valid(form) == form.name # None /\ (form.year # None => form.year \in 1950..2100)

(* A row's field status, and the outcome of the form as a whole.           *)
Status(item) ==
  IF item.field = "text" THEN "EXACT" ELSE FieldStatus(ParseAmount(item.amount).status)
Reviewable == {"PARSE_FAILED", "AMBIGUOUS", "NEEDS_REVIEW"}
Outcome(form) ==
  IF \/ form.cases = "NEEDS_REVIEW"
     \/ \E i \in Ids(form.items) : Status(form.items[i]) \in Reviewable
  THEN "PARTIAL" ELSE "SUCCESS"

-----------------------------------------------------------------------------
(* Linkage.  The election agrees with every field that the form gives.     *)
Agrees(e, form) ==
  /\ form.year # None => e.year = form.year
  /\ e.type = form.type
  /\ form.seat # None => e.seat = form.seat

Sole(S) == {x \in S : S = {x}}       \* the member of a set of one, or nothing

(* lookup_candidacy_by_external_id, in all elections: one row or none.     *)
Holders(form) == {i \in Ids(Reg.csi) : Reg.csi[i].value = form.ext}
ById(form)    == {Reg.csi[i].candidacy : i \in Sole(Holders(form))}

(* _find_election_candidacy and _narrow_by_election.                       *)
Fits(p, form) ==
  {c \in Ids(Reg.candidacy) : /\ Reg.candidacy[c].person = p
                              /\ Agrees(Reg.election[Reg.candidacy[c].election], form)}
People(form) == {p \in Ids(Reg.person) : Reg.person[p] = form.name}
(* A name of several people is pursued only by year and constituency.      *)
PursuedOfComplete(form) == {p \in People(form) : form.year # None /\ form.seat # None}
Pursued(form) ==
  {p \in People(form) : Sole(People(form)) # {} \/ (form.year # None /\ form.seat # None)}

-----------------------------------------------------------------------------
(* get_or_create_source and add_review, on the tables the session sees.    *)
Same  == {i \in Ids(tx.source) : tx.source[i].sha = doc.sha}
Prior == {i \in Ids(tx.source) : tx.source[i].url = doc.url}
SourceId == IF Same = {} THEN Len(tx.source) + 1 ELSE CHOOSE i \in Same : TRUE
Sourced  == IF Same = {} THEN [tx EXCEPT !.source = Append(@, doc)] ELSE tx
Review(source, type, field) ==
  [source |-> source, type |-> type, field |-> field, status |-> "OPEN"]
QueuedOnce(t, item) ==
  IF \E i \in Ids(t.review) : t.review[i].source = item.source THEN t
  ELSE [t EXCEPT !.review = Append(@, item)]
QueuedAgain(t, item) == [t EXCEPT !.review = Append(@, item)]
Queued(t, item) ==
  IF \E i \in Ids(t.review) : t.review[i] = item THEN t ELSE [t EXCEPT !.review = Append(@, item)]

-----------------------------------------------------------------------------
Init ==
  /\ known = 1
  /\ db = Empty /\ tx = Empty
  /\ run = <<>> /\ step = "idle"
  /\ doc = NoDoc /\ cur = Fresh
  /\ faults = 0 /\ crashes = 0 /\ closed = 0

(* start_collector_run and its commit.                                     *)
StartRun ==
  /\ step = "idle" /\ Len(run) < MaxRuns
  /\ run' = Append(run, "RUNNING")
  /\ step' = "fetch"
  /\ UNCHANGED <<known, db, tx, doc, cur, faults, crashes, closed>>

(* fetch, archive, extract; of a text also parse, normalize and validate.  *)
Fetch ==
  /\ step = "fetch"
  /\ doc' \in Document
  /\ step' = IF Extraction[doc'.sha] # "TEXT_EXTRACTED" THEN "unreadable"
             ELSE IF Valid(Form[doc'.sha]) THEN "link" ELSE "raise"
  /\ UNCHANGED <<known, db, tx, run, cur, faults, crashes, closed>>

(* Bytes with a text go unread, too: the archived file cannot be opened    *)
(* again, or its suffix makes extract_document take it for something else. *)
FetchUnread ==
  /\ step = "fetch" /\ faults < MaxFaults
  /\ doc' \in Document /\ step' = "unreadable"
  /\ faults' = faults + 1
  /\ UNCHANGED <<known, db, tx, run, cur, crashes, closed>>

(* _handle_unreadable: a source and a review item, no declarations.        *)
HandleUnreadable ==
  /\ step = "unreadable"
  /\ tx' = Queued(Sourced, Review(SourceId, "DOCUMENT", "document_text"))
  /\ step' = "finish"
  /\ UNCHANGED <<known, db, run, doc, cur, faults, crashes, closed>>

(* resolve_person_and_election, an action for each SELECT: results may     *)
(* arrive in between.  First the official id, and the election of its row. *)
LookupIdUnchecked ==
  /\ step = "link"
  /\ \/ F.ext \in Internal /\ step' = "identity" /\ UNCHANGED cur
     \/ F.ext \notin Internal /\ ById(F) = {} /\ step' = "name" /\ UNCHANGED cur
     \/ /\ F.ext \notin Internal /\ step' = "source"
        /\ \E c \in ById(F) : cur' = [Fresh EXCEPT !.candidacy = c]
  /\ UNCHANGED <<known, db, tx, run, doc, faults, crashes, closed>>
LookupId ==
  /\ step = "link"
  /\ \/ F.ext \in Internal /\ step' = "identity" /\ UNCHANGED cur
     \/ F.ext \notin Internal /\ ById(F) = {} /\ step' = "name" /\ UNCHANGED cur
     \/ F.ext \notin Internal /\ \E c \in ById(F) :
          \/ /\ Agrees(Reg.election[Reg.candidacy[c].election], F)
             /\ cur' = [Fresh EXCEPT !.candidacy = c] /\ step' = "source"
          \/ /\ ~Agrees(Reg.election[Reg.candidacy[c].election], F)
             /\ step' = "identity" /\ UNCHANGED cur
  /\ UNCHANGED <<known, db, tx, run, doc, faults, crashes, closed>>

(* Then the people of the name, and for one after the other, in any order, *)
(* the only candidacy that fits.                                           *)
LookupPeople ==
  /\ step = "name"
  /\ \/ Pursued(F) = {} /\ step' = "identity" /\ UNCHANGED cur
     \/ Pursued(F) # {} /\ step' = "narrow" /\ cur' = [Fresh EXCEPT !.people = Pursued(F)]
  /\ UNCHANGED <<known, db, tx, run, doc, faults, crashes, closed>>
LookupCandidacy ==
  /\ step = "narrow"
  /\ \E p \in cur.people :
       cur' = [cur EXCEPT !.people = @ \ {p}, !.hits = @ \cup Sole(Fits(p, F))]
  /\ UNCHANGED <<known, db, tx, run, step, doc, faults, crashes, closed>>
DecideLink ==
  /\ step = "narrow" /\ cur.people = {}
  /\ \/ \E c \in Sole(cur.hits) : cur' = [Fresh EXCEPT !.candidacy = c] /\ step' = "source"
     \/ Sole(cur.hits) = {} /\ cur' = Fresh /\ step' = "identity"
  /\ UNCHANGED <<known, db, tx, run, doc, faults, crashes, closed>>

(* The LinkageError branch of persist_affidavit.                           *)
QueueIdentity ==
  /\ step = "identity"
  /\ tx' = Queued(Sourced, Review(SourceId, "IDENTITY", "candidate_name"))
  /\ step' = "finish"
  /\ UNCHANGED <<known, db, run, doc, cur, faults, crashes, closed>>

(* The linked document's source; new bytes of a known URL are reviewed.    *)
GetSourceUnflagged ==
  /\ step = "source"
  /\ tx' = Sourced
  /\ step' = "affidavit"
  /\ UNCHANGED <<known, db, run, doc, cur, faults, crashes, closed>>
GetSource ==
  /\ step = "source"
  /\ tx' = IF Same = {} /\ Prior # {}
           THEN Queued(Sourced, Review(SourceId, "DOCUMENT", "content_sha256")) ELSE Sourced
  /\ step' = "affidavit"
  /\ UNCHANGED <<known, db, run, doc, cur, faults, crashes, closed>>

(* One affidavit per person and document; a known one ends the run.        *)
ExistingOfCandidacy ==
  {i \in Ids(tx.affidavit) : tx.affidavit[i].candidacy = cur.candidacy /\ tx.affidavit[i].url = doc.url}
Existing ==
  {i \in Ids(tx.affidavit) : /\ tx.affidavit[i].person = Reg.candidacy[cur.candidacy].person
                             /\ tx.affidavit[i].sha = doc.sha}
AffidavitRow ==
  [person |-> Reg.candidacy[cur.candidacy].person, election |-> Reg.candidacy[cur.candidacy].election,
   candidacy |-> cur.candidacy, url |-> doc.url, sha |-> doc.sha, source |-> SourceId,
   outcome |-> Outcome(F)]
KnownAffidavit ==
  /\ step = "affidavit" /\ Existing # {}
  /\ step' = "finish"
  /\ UNCHANGED <<known, db, tx, run, doc, cur, faults, crashes, closed>>
InsertAffidavit ==
  /\ step = "affidavit" /\ Existing = {}
  /\ tx' = [tx EXCEPT !.affidavit = Append(@, AffidavitRow)]
  /\ cur' = [cur EXCEPT !.affidavit = Len(tx.affidavit) + 1]
  /\ step' = "declare"
  /\ UNCHANGED <<known, db, run, doc, faults, crashes, closed>>

(* One declaration after another, a failed amount with its review item.    *)
DeclarationRowOrZero(item) ==
  [affidavit |-> cur.affidavit, field |-> item.field, raw |-> item.amount,
   value |-> IF item.field = "text" THEN NoNumber
             ELSE IF ParseAmount(item.amount).value = NoNumber THEN Zero ELSE ParseAmount(item.amount).value,
   status |-> Status(item)]
DeclarationRow(item) ==
  [affidavit |-> cur.affidavit, field |-> item.field, raw |-> item.amount,
   value |-> IF item.field = "text" THEN NoNumber ELSE ParseAmount(item.amount).value,
   status |-> Status(item)]
Declare ==
  /\ step = "declare" /\ cur.item <= Len(F.items)
  /\ LET item == F.items[cur.item]
         t == [tx EXCEPT !.declaration = Append(@, DeclarationRow(item))]
     IN tx' = IF Status(item) \in Reviewable THEN Queued(t, Review(SourceId, "FIELD", item.field)) ELSE t
  /\ cur' = [cur EXCEPT !.item = @ + 1]
  /\ UNCHANGED <<known, db, run, step, doc, faults, crashes, closed>>
(* The criminal cases section may be marked for review as a whole.         *)
CloseSections ==
  /\ step = "declare" /\ cur.item > Len(F.items)
  /\ tx' = IF F.cases = "NEEDS_REVIEW"
           THEN Queued(tx, Review(SourceId, "FIELD", "criminal_cases")) ELSE tx
  /\ step' = "finish"
  /\ UNCHANGED <<known, db, run, doc, cur, faults, crashes, closed>>

(* finish_collector_run and the commit, or rollback, the same and commit.  *)
Rest == step' = "idle" /\ doc' = NoDoc /\ cur' = Fresh
FinishRun ==
  /\ step = "finish"
  /\ db' = tx /\ UNCHANGED tx
  /\ run' = [run EXCEPT ![Len(run)] = "SUCCESS"]
  /\ Rest
  /\ UNCHANGED <<known, faults, crashes, closed>>
FailRunKeepsRows ==
  /\ step = "raise"
  /\ db' = tx /\ UNCHANGED tx
  /\ run' = [run EXCEPT ![Len(run)] = "FAILED"]
  /\ Rest
  /\ UNCHANGED <<known, faults, crashes, closed>>
FailRun ==
  /\ step = "raise"
  /\ tx' = db /\ UNCHANGED db
  /\ run' = [run EXCEPT ![Len(run)] = "FAILED"]
  /\ Rest
  /\ UNCHANGED <<known, faults, crashes, closed>>

(* A stage raises (fetch, archive) or the database does.                   *)
Fault ==
  /\ step \notin {"idle", "raise"} /\ faults < MaxFaults
  /\ faults' = faults + 1
  /\ step' = "raise"
  /\ UNCHANGED <<known, db, tx, run, doc, cur, crashes, closed>>

(* The process dies: the transaction is lost, the run's row stays RUNNING. *)
Crash ==
  /\ step # "idle" /\ crashes < MaxCrashes
  /\ crashes' = crashes + 1
  /\ tx' = db /\ Rest
  /\ UNCHANGED <<known, db, run, faults, closed>>

(* Another results import commits.                                         *)
ResultsArrive ==
  /\ known < Len(Registry)
  /\ known' = known + 1
  /\ UNCHANGED <<db, tx, run, step, doc, cur, faults, crashes, closed>>

(* Somebody closes a review item; the session's next query sees it.        *)
CloseReview ==
  /\ closed < MaxClosed
  /\ \E i \in Ids(db.review) :
       /\ db.review[i].status = "OPEN"
       /\ db' = [db EXCEPT !.review[i].status = "CLOSED"]
       /\ tx' = [tx EXCEPT !.review[i].status = "CLOSED"]
  /\ closed' = closed + 1
  /\ UNCHANGED <<known, run, step, doc, cur, faults, crashes>>

Proceed ==
  \/ Fetch \/ FetchUnread \/ HandleUnreadable
  \/ LookupId \/ LookupPeople \/ LookupCandidacy \/ DecideLink \/ QueueIdentity \/ GetSource
  \/ KnownAffidavit \/ InsertAffidavit \/ Declare \/ CloseSections \/ FinishRun \/ FailRun
Next == StartRun \/ Proceed \/ Fault \/ Crash \/ ResultsArrive \/ CloseReview

Spec == Init /\ [][Next]_vars

-----------------------------------------------------------------------------
AffidavitRows == [person: Nat, election: Nat, candidacy: Nat, url: Urls, sha: Shas, source: Nat,
                  outcome: {"SUCCESS", "PARTIAL"}]
DeclarationRows == [affidavit: Nat, field: Fields \cup {"text"}, raw: Seq(Tokens), value: Number,
                    status: {"EXACT", "NORMALIZED", "MISSING", "PARSE_FAILED"}]
ReviewRows == [source: Nat, type: {"DOCUMENT", "IDENTITY", "FIELD"},
               field: Fields \cup {"document_text", "content_sha256", "candidate_name", "criminal_cases"},
               status: {"OPEN", "CLOSED"}]
Tables == [source: Seq(Document), affidavit: Seq(AffidavitRows),
           declaration: Seq(DeclarationRows), review: Seq(ReviewRows)]
TypeOK ==
  /\ known \in Ids(Registry) /\ db \in Tables /\ tx \in Tables
  /\ run \in Seq({"RUNNING", "SUCCESS", "FAILED"}) /\ Len(run) <= MaxRuns
  /\ step \in {"idle", "fetch", "unreadable", "link", "name", "narrow", "identity", "source",
               "affidavit", "declare", "finish", "raise"}
  /\ doc \in Document
  /\ cur \in [candidacy: Nat, people: SUBSET Nat, hits: SUBSET Nat, affidavit: Nat, item: Nat \ {0}]
  /\ faults \in 0..MaxFaults /\ crashes \in 0..MaxCrashes /\ closed \in 0..MaxClosed

(* An affidavit's person and election are those of its candidacy; the      *)
(* election is the one the document names as far as it does, and either    *)
(* its official id or its name leads to the candidacy.                     *)
LinksAreEvidenced ==
  \A i \in Ids(db.affidavit) :
    LET a == db.affidavit[i]
        form == Form[a.sha]
        c == Reg.candidacy[a.candidacy]
        e == Reg.election[a.election]
    IN
    /\ a.candidacy \in Ids(Reg.candidacy) /\ a.person = c.person /\ a.election = c.election
    /\ e.year = form.year \/ form.year = None
    /\ e.seat = form.seat \/ form.seat = None
    /\ e.type = form.type
    /\ \/ \E k \in Ids(Reg.csi) : Reg.csi[k].value = form.ext /\ Reg.csi[k].candidacy = a.candidacy
       \/ Reg.person[a.person] = form.name

(* No document ends in silence: a committed one has an affidavit or is up  *)
(* for review, one with new bytes for its URL is up for review whatever    *)
(* became of it, and unreadable bytes never yield an affidavit.            *)
Reviews(t, s) == {r \in Ids(t.review) : t.review[r].source = s}
NothingIsDropped ==
  /\ \A s \in Ids(db.source) :
       /\ \/ Reviews(db, s) # {}
          \/ \E i \in Ids(db.affidavit) : db.affidavit[i].source = s
       /\ (\E j \in 1..(s - 1) : db.source[j].url = db.source[s].url) => Reviews(db, s) # {}
  /\ \A i \in Ids(db.affidavit) :
       /\ db.affidavit[i].source \in Ids(db.source)
       /\ db.source[db.affidavit[i].source].sha = db.affidavit[i].sha
       /\ Extraction[db.affidavit[i].sha] = "TEXT_EXTRACTED"

(* An affidavit is stored once per person and document, with all that the  *)
(* form declares, in its order and with nothing in between, and whatever   *)
(* could not be read of it has a review item.                              *)
DeclaredBy(i) == {n \in Ids(db.declaration) : db.declaration[n].affidavit = i}
InOrder(i, items) ==
  \E o \in 0..Len(db.declaration) :
    /\ DeclaredBy(i) = (o + 1)..(o + Len(items))
    /\ \A n \in Ids(items) : /\ db.declaration[o + n].field = items[n].field
                             /\ db.declaration[o + n].raw = items[n].amount
InReview(s, field) == \E r \in Reviews(db, s) : db.review[r].field = field
StoredInFull ==
  \A i \in Ids(db.affidavit) :
    LET a == db.affidavit[i]
        form == Form[a.sha]
        Failed(n) == db.declaration[n].status = "PARSE_FAILED"
    IN
    /\ \A j \in Ids(db.affidavit) : db.affidavit[j].person = a.person /\ db.affidavit[j].sha = a.sha => i = j
    /\ InOrder(i, form.items)
    /\ \A n \in DeclaredBy(i) : Failed(n) => InReview(a.source, db.declaration[n].field)
    /\ form.cases = "NEEDS_REVIEW" => InReview(a.source, "criminal_cases")
    /\ a.outcome = "SUCCESS" <=> form.cases = "PARSED" /\ \A n \in DeclaredBy(i) : ~Failed(n)

(* Of a declared amount the table says what the text says, if it is plain, *)
(* no number for a text without a digit, unless it is NIL, and EXACT or    *)
(* NORMALIZED of nothing else than a number.                               *)
AmountsAreRead ==
  \A n \in Ids(db.declaration) :
    LET d == db.declaration[n] IN
    d.field # "text" =>
      /\ Plain(d.raw) => d.value = Reading(d.raw)
      /\ d.value # NoNumber => Has(d.raw, Digits \cup {"nil"})
      /\ d.value # NoNumber <=> d.status \in {"EXACT", "NORMALIZED"}

(* However often a document is retried, a reviewer has at most one open    *)
(* item for one question about it.                                         *)
OpenItemsAreSingle ==
  \A i, j \in Ids(db.review) :
    db.review[i] = db.review[j] /\ db.review[i].status = "OPEN" => i = j

(* Committed rows stay as they are, only a run that reports SUCCESS or a   *)
(* reviewer changes the tables, and a reviewer only closes items.          *)
HistoryIsKept ==
  [][/\ Extends(db.source, db'.source) /\ Extends(db.affidavit, db'.affidavit)
     /\ Extends(db.declaration, db'.declaration) /\ Len(db.review) <= Len(db'.review)
     /\ \A i \in Ids(db.review) : db'.review[i] \in {db.review[i], [db.review[i] EXCEPT !.status = "CLOSED"]}
     /\ db' # db => closed' # closed \/ run'[Len(run')] = "SUCCESS"]_vars

(* Bytes that already gave the person they lead to an affidavit change no  *)
(* table when they are imported again, from whatever URL and whatever      *)
(* became of the review items.                                             *)
ReimportIsNoOp ==
  [][\A i \in Ids(db.affidavit) :
       /\ FinishRun /\ cur.candidacy # 0
       /\ db.affidavit[i].sha = doc.sha
       /\ db.affidavit[i].person = Reg.candidacy[cur.candidacy].person
       => db' = db]_vars

(* For the ledger, a document's rows and questions are those of its form,  *)
(* an owner is a candidacy that id or name lead to, in an election that    *)
(* the form agrees with; and there is no doubt whose it is if one row has  *)
(* the id, or none has it and, then or later, one person has the name.     *)
Contents(form) == [n \in Ids(form.items) |->
  [field |-> form.items[n].field, raw |-> form.items[n].amount,
   value |-> IF form.items[n].field = "text" THEN NoNumber ELSE ParseAmount(form.items[n].amount).value,
   status |-> Status(form.items[n])]]
Failures(form) ==
  {form.items[n].field : n \in {m \in Ids(form.items) : Status(form.items[m]) \in Reviewable}}
    \cup {f \in {"criminal_cases"} : form.cases = "NEEDS_REVIEW"}
Fitting(reg, form) ==
  {c \in Ids(reg.candidacy) : Agrees(reg.election[reg.candidacy[c].election], form)}
Identified(reg, form) == {k \in Ids(reg.csi) : reg.csi[k].value = form.ext}
Namesakes(reg, form) == {p \in Ids(reg.person) : reg.person[p] = form.name}
Claimants(reg, form) ==
  {[person |-> reg.candidacy[c].person, election |-> reg.candidacy[c].election, candidacy |-> c] :
     c \in {d \in Fitting(reg, form) : \/ \E k \in Identified(reg, form) : reg.csi[k].candidacy = d
                                      \/ reg.candidacy[d].person \in Namesakes(reg, form)}}
IdSettles(reg, form) ==
  \E k \in Ids(reg.csi) : Identified(reg, form) = {k} /\ reg.csi[k].candidacy \in Fitting(reg, form)
NameSettles(reg, form) ==
  \E p \in Ids(reg.person), c \in Fitting(reg, form) :
    /\ Namesakes(reg, form) = {p}
    /\ {d \in Fitting(reg, form) : reg.candidacy[d].person = p} = {c}
Doubtless(ids, names, form) ==
  /\ form.ext \notin Internal
  /\ IdSettles(ids, form) \/ (Identified(ids, form) = {} /\ NameSettles(names, form))

Readable  == {s \in Shas : Extraction[s] = "TEXT_EXTRACTED" /\ Valid(Form[s])}
Content   == [s \in Shas |-> Contents(Form[s])]
Unread    == [s \in Shas |-> Failures(Form[s])]
Owners    == [n \in Ids(Registry) |-> [s \in Shas |-> Claimants(Registry[n], Form[s])]]
Certain   == [m \in Ids(Registry) |-> [n \in Ids(Registry) |->
               [s \in Shas |-> Doubtless(Registry[m], Registry[n], Form[s])]]]
Ledger    == INSTANCE AffidavitLedger WITH Documents <- Document

(* Statement by statement, with rollbacks, deaths of the process, results  *)
(* and reviewers in between, the committed tables change as if a document  *)
(* were one step: it is entered whole, for an owner, or left to a reviewer *)
(* if it was not read or the results that linkage saw left a doubt.        *)
IsLedger  == Ledger!LedgerSpec
=============================================================================
