------------------------ MODULE AffidavitIngestProofs ------------------------
(***************************************************************************)
(* Safety of affidavit ingestion for any documents and forms, any growth   *)
(* of the registry, any runs, faults, crashes and reviewers.               *)
(***************************************************************************)
EXTENDS AffidavitText, SequenceTheorems, FiniteSetTheorems, TLAPS

(* The tables, of declarations only the rows that an item gives.           *)
Labels   == Fields \cup {"document_text", "content_sha256", "candidate_name", "criminal_cases"}
Declared(i, item) ==
  [affidavit |-> i, field |-> item.field, raw |-> item.amount,
   value |-> IF item.field = "text" THEN NoNumber ELSE ParseAmount(item.amount).value,
   status |-> Status(item)]
DeclRow  == {Declared(i, item) : i \in Nat, item \in Item}
ItemRow  == [source: Nat, type: {"DOCUMENT", "IDENTITY", "FIELD"}, field: Labels,
             status: {"OPEN", "CLOSED"}]
Stored   == [source: Seq(Document), affidavit: Seq(AffidavitRows), declaration: Seq(DeclRow),
             review: Seq(ItemRow)]

Early  == {"idle", "fetch", "unreadable", "link", "name", "narrow", "identity", "source"}
Linked == {"source", "affidavit", "declare"}
Steps  == Early \cup Linked \cup {"finish", "raise"}

WellTyped ==
  /\ known \in Ids(Registry) /\ db \in Stored /\ tx \in Stored
  /\ run \in Seq({"RUNNING", "SUCCESS", "FAILED"}) /\ (step # "idle" => run # <<>>)
  /\ step \in Steps /\ doc \in Document
  /\ cur \in [candidacy: Nat, people: SUBSET Nat, hits: SUBSET Nat, affidavit: Nat, item: Nat \ {0}]
  /\ (step \in Linked \/ cur.candidacy # 0 => cur.candidacy \in Ids(Reg.candidacy))
  /\ cur.hits \subseteq Ids(Reg.candidacy)
  /\ closed \in Nat

-----------------------------------------------------------------------------
LEMMA Appended ==
  ASSUME NEW S, NEW s \in Seq(S), NEW e \in S
  PROVE  /\ Append(s, e) \in Seq(S) /\ Extends(s, Append(s, e))
         /\ Ids(Append(s, e)) = Ids(s) \cup {Len(s) + 1} /\ Append(s, e)[Len(s) + 1] = e
         /\ \A i \in Ids(s) : Append(s, e)[i] = s[i]
<1>1. Len(s) \in Nat
  BY LenProperties
<1>2. /\ Append(s, e) \in Seq(S) /\ Len(Append(s, e)) = Len(s) + 1
      /\ \A i \in 1..Len(s) : Append(s, e)[i] = s[i]
      /\ Append(s, e)[Len(s) + 1] = e
  BY AppendProperties
<1> QED
  BY <1>1, <1>2 DEF Extends, Ids

LEMMA ExtendsItself ==
  ASSUME NEW S, NEW s \in Seq(S)
  PROVE  Extends(s, s)
BY LenProperties DEF Extends

LEMMA ExtendsOn ==
  ASSUME NEW S, NEW s \in Seq(S), NEW t \in Seq(S), NEW u \in Seq(S), Extends(s, t), Extends(t, u)
  PROVE  Extends(s, u)
<1>1. Len(s) \in Nat /\ Len(t) \in Nat /\ Len(u) \in Nat
  BY LenProperties
<1> QED
  BY <1>1 DEF Extends, Ids

(* What Extends says of rows.                                              *)
LEMMA StaysIn ==
  ASSUME NEW S, NEW s \in Seq(S), NEW T, NEW t \in Seq(T), Extends(s, t), NEW i \in Ids(s)
  PROVE  i \in Ids(t) /\ t[i] = s[i]
<1>1. Len(s) \in Nat /\ Len(t) \in Nat
  BY LenProperties
<1> QED
  BY <1>1 DEF Extends, Ids

LEMMA Columns ==
  ASSUME NEW t \in Stored
  PROVE  /\ t.source \in Seq(Document) /\ t.affidavit \in Seq(AffidavitRows)
         /\ t.declaration \in Seq(DeclRow) /\ t.review \in Seq(ItemRow)
         /\ Len(t.source) \in Nat /\ Len(t.affidavit) \in Nat
         /\ Len(t.declaration) \in Nat /\ Len(t.review) \in Nat
<1>1. /\ t.source \in Seq(Document) /\ t.affidavit \in Seq(AffidavitRows)
      /\ t.declaration \in Seq(DeclRow) /\ t.review \in Seq(ItemRow)
  BY DEF Stored
<1> QED
  BY <1>1, LenProperties

(* The tables u hold what t holds, and more.                               *)
Grows(t, u) ==
  /\ Extends(t.source, u.source) /\ Extends(t.affidavit, u.affidavit)
  /\ Extends(t.declaration, u.declaration) /\ Extends(t.review, u.review)

LEMMA GrowsItself ==
  ASSUME NEW t \in Stored
  PROVE  Grows(t, t)
BY Columns, ExtendsItself DEF Grows

LEMMA GrowsOn ==
  ASSUME NEW t \in Stored, NEW u \in Stored, NEW w \in Stored, Grows(t, u), Grows(u, w)
  PROVE  Grows(t, w)
<1>1. Extends(t.source, w.source)
  BY Columns, ExtendsOn DEF Grows
<1>2. Extends(t.affidavit, w.affidavit)
  BY Columns, ExtendsOn DEF Grows
<1>3. Extends(t.declaration, w.declaration)
  BY Columns, ExtendsOn DEF Grows
<1>4. Extends(t.review, w.review)
  BY Columns, ExtendsOn DEF Grows
<1> QED
  BY <1>1, <1>2, <1>3, <1>4 DEF Grows

(* add_review leaves the item among the reviews, and the rest alone.       *)
LEMMA Queueing ==
  ASSUME NEW t \in Stored, NEW item \in ItemRow
  PROVE  /\ Queued(t, item) \in Stored /\ Grows(t, Queued(t, item))
         /\ Queued(t, item).source = t.source /\ Queued(t, item).affidavit = t.affidavit
         /\ Queued(t, item).declaration = t.declaration
         /\ \E i \in Ids(Queued(t, item).review) : Queued(t, item).review[i] = item
         /\ \/ Queued(t, item).review = t.review
            \/ /\ \A i \in Ids(t.review) : t.review[i] # item
               /\ Queued(t, item).review = Append(t.review, item)
<1> DEFINE u == [t EXCEPT !.review = Append(@, item)]
<1>1. t.review \in Seq(ItemRow)
  BY Columns
<1>2. /\ Append(t.review, item) \in Seq(ItemRow) /\ Extends(t.review, Append(t.review, item))
      /\ Ids(Append(t.review, item)) = Ids(t.review) \cup {Len(t.review) + 1}
      /\ Append(t.review, item)[Len(t.review) + 1] = item
  BY <1>1, Appended
<1>3. CASE \E i \in Ids(t.review) : t.review[i] = item
  BY <1>3, GrowsItself DEF Queued
<1>4. CASE ~\E i \in Ids(t.review) : t.review[i] = item
  <2>1. Queued(t, item) = u
    BY <1>4 DEF Queued
  <2>2. /\ u.source = t.source /\ u.affidavit = t.affidavit /\ u.declaration = t.declaration
        /\ u.review = Append(t.review, item) /\ u \in Stored
    BY <1>2 DEF Stored
  <2>3. Grows(t, u)
    BY <1>2, <2>2, Columns, ExtendsItself DEF Grows
  <2> QED
    BY <1>2, <1>4, <2>1, <2>2, <2>3
<1> QED
  BY <1>3, <1>4

(* get_or_create_source leaves a source of the digest, and the rest alone. *)
LEMMA Sourcing ==
  ASSUME tx \in Stored, doc \in Document
  PROVE  /\ Sourced \in Stored /\ Grows(tx, Sourced)
         /\ Sourced.affidavit = tx.affidavit /\ Sourced.declaration = tx.declaration
         /\ Sourced.review = tx.review
         /\ SourceId \in Nat /\ Ids(Sourced.source) = Ids(tx.source) \cup {SourceId}
         /\ Sourced.source[SourceId].sha = doc.sha
         /\ Same # {} => Sourced = tx /\ SourceId \in Same
         /\ Same = {} => SourceId = Len(tx.source) + 1 /\ Sourced.source[SourceId] = doc
<1>1. tx.source \in Seq(Document) /\ Len(tx.source) \in Nat
  BY Columns
<1>2. CASE Same = {}
  <2> DEFINE u == [tx EXCEPT !.source = Append(@, doc)]
  <2>1. Sourced = u /\ SourceId = Len(tx.source) + 1
    BY <1>2 DEF Sourced, SourceId
  <2>2. /\ Append(tx.source, doc) \in Seq(Document) /\ Extends(tx.source, Append(tx.source, doc))
        /\ Ids(Append(tx.source, doc)) = Ids(tx.source) \cup {Len(tx.source) + 1}
        /\ Append(tx.source, doc)[Len(tx.source) + 1] = doc
    BY <1>1, Appended
  <2>3. /\ u \in Stored /\ u.source = Append(tx.source, doc) /\ u.affidavit = tx.affidavit
        /\ u.declaration = tx.declaration /\ u.review = tx.review
    BY <2>2 DEF Stored
  <2>4. Grows(tx, u)
    BY <2>2, <2>3, Columns, ExtendsItself DEF Grows
  <2> QED
    BY <1>1, <1>2, <2>1, <2>2, <2>3, <2>4
<1>3. CASE Same # {}
  <2>1. Sourced = tx /\ SourceId \in Same
    BY <1>3 DEF Sourced, SourceId
  <2>2. SourceId \in Ids(tx.source) /\ tx.source[SourceId].sha = doc.sha
    BY <2>1 DEF Same
  <2> QED
    BY <1>1, <1>3, <2>1, <2>2, GrowsItself DEF Ids
<1> QED
  BY <1>2, <1>3

LEMMA ReviewTyped ==
  ASSUME NEW s \in Nat, NEW f \in Labels
  PROVE  /\ Review(s, "DOCUMENT", f) \in ItemRow /\ Review(s, "IDENTITY", f) \in ItemRow
         /\ Review(s, "FIELD", f) \in ItemRow
BY DEF Review, ItemRow

-----------------------------------------------------------------------------
(* The registry at its present stage.                                      *)
LEMMA Registered ==
  ASSUME known \in Ids(Registry)
  PROVE  /\ Reg.person \in Seq(Names) /\ Reg.candidacy \in Seq([person: Nat, election: Nat])
         /\ Reg.csi \in Seq([value: Exts, candidacy: Nat])
         /\ \A c \in Ids(Reg.candidacy) :
              /\ Reg.candidacy[c].person \in Nat /\ Reg.candidacy[c].person \in Ids(Reg.person)
              /\ Reg.candidacy[c].election \in Nat /\ Reg.candidacy[c].election \in Ids(Reg.election)
         /\ \A k \in Ids(Reg.csi) : Reg.csi[k].candidacy \in Ids(Reg.candidacy)
<1>1. Registry \in Seq(Candidacies)
  BY RegistryAssumption
<1>2. Reg \in Candidacies
  BY <1>1, ElementOfSeq DEF Reg, Ids
<1>3. /\ Reg.person \in Seq(Names) /\ Reg.candidacy \in Seq([person: Nat, election: Nat])
      /\ Reg.csi \in Seq([value: Exts, candidacy: Nat])
  BY <1>2 DEF Candidacies
<1>4. \A c \in Ids(Reg.candidacy) : Reg.candidacy[c] \in [person: Nat, election: Nat]
  BY <1>3, ElementOfSeq DEF Ids
<1> QED
  BY <1>3, <1>4, RegistryAssumption DEF Reg

LEMMA FormTyped ==
  ASSUME doc \in Document
  PROVE  F \in Affidavit /\ F.items \in Seq(Item) /\ Len(F.items) \in Nat
<1>1. doc.sha \in Shas
  BY DEF Document
<1>2. F \in Affidavit
  BY <1>1, FormAssumption DEF F
<1>3. F.items \in Seq(Item)
  BY <1>2 DEF Affidavit
<1> QED
  BY <1>2, <1>3, LenProperties

(* A candidacy that a form may be linked to: the election agrees, and the  *)
(* official id or the name leads there.                                    *)
Evidence(c, form) ==
  /\ c \in Ids(Reg.candidacy)
  /\ Agrees(Reg.election[Reg.candidacy[c].election], form)
  /\ \/ \E k \in Ids(Reg.csi) : Reg.csi[k].value = form.ext /\ Reg.csi[k].candidacy = c
     \/ Reg.person[Reg.candidacy[c].person] = form.name

LEMMA ByIdEvident ==
  ASSUME known \in Ids(Registry), NEW form, NEW c \in ById(form),
         Agrees(Reg.election[Reg.candidacy[c].election], form)
  PROVE  Evidence(c, form)
<1>1. PICK k \in Sole(Holders(form)) : Reg.csi[k].candidacy = c
  BY DEF ById
<1>2. k \in Ids(Reg.csi) /\ Reg.csi[k].value = form.ext
  BY DEF Sole, Holders
<1> QED
  BY <1>1, <1>2, Registered DEF Evidence

LEMMA FitsEvident ==
  ASSUME NEW p, NEW form, Reg.person[p] = form.name, NEW c \in Sole(Fits(p, form))
  PROVE  Evidence(c, form)
BY DEF Sole, Fits, Evidence

(* More results take no evidence away.                                     *)
LEMMA EvidenceStays ==
  ASSUME known \in Ids(Registry), known' \in Ids(Registry), known <= known',
         NEW c, NEW form, Evidence(c, form)
  PROVE  /\ Evidence(c, form)' /\ c \in Ids(Reg.candidacy)' /\ Reg.candidacy'[c] = Reg.candidacy[c]
         /\ Reg.election'[Reg.candidacy[c].election] = Reg.election[Reg.candidacy[c].election]
<1>1. Registry \in Seq(Candidacies)
  BY RegistryAssumption
<1>2. Reg \in Candidacies /\ Reg' \in Candidacies
  BY <1>1, ElementOfSeq DEF Reg, Ids
<1>3. /\ Extends(Reg.person, Reg'.person) /\ Extends(Reg.election, Reg'.election)
      /\ Extends(Reg.candidacy, Reg'.candidacy) /\ Extends(Reg.csi, Reg'.csi)
  BY RegistryAssumption DEF Reg
<1>4. c \in Ids(Reg.candidacy)
  BY DEF Evidence
<1>5. c \in Ids(Reg'.candidacy) /\ Reg'.candidacy[c] = Reg.candidacy[c]
  BY <1>2, <1>3, <1>4, StaysIn DEF Candidacies
<1> DEFINE e == Reg.candidacy[c].election
<1> DEFINE p == Reg.candidacy[c].person
<1>6. Reg'.election[e] = Reg.election[e]
  <2>1. e \in Ids(Reg.election)
    BY <1>4, Registered
  <2> HIDE DEF e
  <2> QED
    BY <1>3, <2>1 DEF Extends
<1>7. Reg'.person[p] = Reg.person[p]
  <2>1. p \in Ids(Reg.person)
    BY <1>4, Registered
  <2> HIDE DEF p
  <2> QED
    BY <1>3, <2>1 DEF Extends
<1>8. \A k \in Ids(Reg.csi) : k \in Ids(Reg'.csi) /\ Reg'.csi[k] = Reg.csi[k]
  BY <1>2, <1>3, StaysIn DEF Candidacies
<1> QED
  BY <1>4, <1>5, <1>6, <1>7, <1>8 DEF Evidence, Agrees

-----------------------------------------------------------------------------
LEMMA InitTyped == Init => WellTyped
<1>1. Empty \in Stored
  BY EmptySeq DEF Empty, Stored
<1>2. NoDoc \in Document
  <2>1. PICK u \in Urls, s \in Shas : TRUE
    BY DocumentsAssumption
  <2>2. [url |-> u, sha |-> s] \in Document
    BY DEF Document
  <2> QED
    BY <2>2 DEF NoDoc
<1>3. 1 \in Ids(Registry)
  BY RegistryAssumption, EmptySeq DEF Ids
<1>4. <<>> \in Seq({"RUNNING", "SUCCESS", "FAILED"})
  BY EmptySeq
<1> QED
  BY <1>1, <1>2, <1>3, <1>4 DEF Init, WellTyped, Fresh, Steps, Early, Linked

LEMMA RestTyped ==
  ASSUME Rest
  PROVE  /\ step' = "idle" /\ doc' \in Document /\ cur' = Fresh
         /\ cur' \in [candidacy: Nat, people: SUBSET Nat, hits: SUBSET Nat, affidavit: Nat, item: Nat \ {0}] /\ cur'.candidacy = 0
         /\ cur'.hits = {}
<1>1. NoDoc \in Document
  <2>1. PICK u \in Urls, s \in Shas : TRUE
    BY DocumentsAssumption
  <2>2. [url |-> u, sha |-> s] \in Document
    BY DEF Document
  <2> QED
    BY <2>2 DEF NoDoc
<1> QED
  BY <1>1 DEF Rest, Fresh

LEMMA RunTyped ==
  ASSUME run \in Seq({"RUNNING", "SUCCESS", "FAILED"}), run # <<>>,
         NEW s \in {"RUNNING", "SUCCESS", "FAILED"}, run' = [run EXCEPT ![Len(run)] = s]
  PROVE  run' \in Seq({"RUNNING", "SUCCESS", "FAILED"}) /\ run'[Len(run')] = s
<1>1. Len(run) \in Nat \ {0}
  BY EmptySeq
<1>2. Len(run) \in 1..Len(run)
  BY <1>1
<1> QED
  BY <1>2, ExceptSeq

(* A row of the affidavit, and of a declaration.                           *)
LEMMA RowsTyped ==
  ASSUME WellTyped
  PROVE  /\ step = "affidavit" => AffidavitRow \in AffidavitRows
         /\ \A item \in Item : DeclarationRow(item) \in DeclRow
         /\ \A item \in Item : Status(item) \in Reviewable => item.field \in Labels
<1>1. doc.url \in Urls /\ doc.sha \in Shas /\ SourceId \in Nat
  BY Sourcing DEF WellTyped, Document
<1>2. ASSUME step = "affidavit" PROVE AffidavitRow \in AffidavitRows
  <2>1. cur.candidacy \in Ids(Reg.candidacy) /\ cur.candidacy \in Nat
    BY <1>2 DEF WellTyped, Linked
  <2>2. Reg.candidacy[cur.candidacy].person \in Nat /\ Reg.candidacy[cur.candidacy].election \in Nat
    BY <2>1, Registered DEF WellTyped
  <2>3. Outcome(F) \in {"SUCCESS", "PARTIAL"}
    BY DEF Outcome
  <2> QED
    BY <1>1, <2>1, <2>2, <2>3 DEF AffidavitRow, AffidavitRows
<1>3. \A item \in Item : DeclarationRow(item) \in DeclRow
  <2>1. cur.affidavit \in Nat
    BY DEF WellTyped
  <2>2. \A item : DeclarationRow(item) = Declared(cur.affidavit, item)
    BY DEF DeclarationRow, Declared
  <2> QED
    BY <2>1, <2>2 DEF DeclRow
<1>4. \A item \in Item : Status(item) \in Reviewable => item.field \in Labels
  BY DEF Item, Labels, Status, Reviewable
<1> QED
  BY <1>2, <1>3, <1>4

-----------------------------------------------------------------------------
(* What the statements write is typed, and only adds rows.                 *)
Writing ==
  HandleUnreadable \/ QueueIdentity \/ GetSource \/ InsertAffidavit \/ Declare \/ CloseSections

LEMMA SourceReviewed ==
  ASSUME WellTyped, NEW type \in {"DOCUMENT", "IDENTITY"}, NEW f \in Labels
  PROVE  /\ Queued(Sourced, Review(SourceId, type, f)) \in Stored
         /\ Grows(tx, Queued(Sourced, Review(SourceId, type, f)))
<1>1. Sourced \in Stored /\ Grows(tx, Sourced) /\ SourceId \in Nat /\ tx \in Stored
  BY Sourcing DEF WellTyped
<1>2. Review(SourceId, type, f) \in ItemRow
  BY <1>1, ReviewTyped
<1>3. /\ Queued(Sourced, Review(SourceId, type, f)) \in Stored
      /\ Grows(Sourced, Queued(Sourced, Review(SourceId, type, f)))
  BY <1>1, <1>2, Queueing
<1> QED
  BY <1>1, <1>3, GrowsOn

LEMMA InsertWrites ==
  ASSUME WellTyped, InsertAffidavit
  PROVE  /\ tx' \in Stored /\ Grows(tx, tx')
         /\ tx'.affidavit = Append(tx.affidavit, AffidavitRow)
         /\ tx'.source = tx.source /\ tx'.declaration = tx.declaration /\ tx'.review = tx.review
<1>1. AffidavitRow \in AffidavitRows /\ tx \in Stored
  BY RowsTyped DEF InsertAffidavit, WellTyped
<1>2. /\ Append(tx.affidavit, AffidavitRow) \in Seq(AffidavitRows)
      /\ Extends(tx.affidavit, Append(tx.affidavit, AffidavitRow))
  BY <1>1, Columns, Appended
<1>3. tx' = [tx EXCEPT !.affidavit = Append(@, AffidavitRow)]
  BY DEF InsertAffidavit
<1>4. /\ tx' \in Stored /\ tx'.affidavit = Append(tx.affidavit, AffidavitRow)
      /\ tx'.source = tx.source /\ tx'.declaration = tx.declaration /\ tx'.review = tx.review
  BY <1>1, <1>2, <1>3 DEF Stored
<1> QED
  BY <1>1, <1>2, <1>4, Columns, ExtendsItself DEF Grows

(* A declaration, and the review item that it may need.                    *)
LEMMA DeclareWrites ==
  ASSUME WellTyped, Declare
  PROVE  /\ tx' \in Stored /\ Grows(tx, tx')
         /\ tx'.source = tx.source /\ tx'.affidavit = tx.affidavit
         /\ \/ tx'.review = tx.review
            \/ \E item \in ItemRow :
                 /\ item.status = "OPEN" /\ \A i \in Ids(tx.review) : tx.review[i] # item
                 /\ tx'.review = Append(tx.review, item)
<1> DEFINE item == F.items[cur.item]
<1> DEFINE t == [tx EXCEPT !.declaration = Append(@, DeclarationRow(item))]
<1>1. item \in Item
  <2>1. cur.item \in 1..Len(F.items) /\ F.items \in Seq(Item)
    BY FormTyped DEF WellTyped, Declare
  <2> QED
    BY <2>1, ElementOfSeq
<1>2. DeclarationRow(item) \in DeclRow /\ tx \in Stored
  BY <1>1, RowsTyped DEF WellTyped
<1>3. /\ Append(tx.declaration, DeclarationRow(item)) \in Seq(DeclRow)
      /\ Extends(tx.declaration, Append(tx.declaration, DeclarationRow(item)))
  BY <1>2, Columns, Appended
<1>4. /\ t \in Stored /\ t.declaration = Append(tx.declaration, DeclarationRow(item))
      /\ t.source = tx.source /\ t.affidavit = tx.affidavit /\ t.review = tx.review
  BY <1>2, <1>3 DEF Stored
<1>5. Grows(tx, t)
  BY <1>2, <1>3, <1>4, Columns, ExtendsItself DEF Grows
<1>6. tx' = IF Status(item) \in Reviewable THEN Queued(t, Review(SourceId, "FIELD", item.field)) ELSE t
  BY DEF Declare
<1> HIDE DEF t
<1>7. CASE Status(item) \notin Reviewable
  BY <1>4, <1>5, <1>6, <1>7
<1>8. CASE Status(item) \in Reviewable
  <2> DEFINE r == Review(SourceId, "FIELD", item.field)
  <2>1. r \in ItemRow /\ r.status = "OPEN"
    <3>1. item.field \in Labels /\ SourceId \in Nat
      BY <1>1, <1>8, RowsTyped, Sourcing DEF WellTyped
    <3> QED
      BY <3>1, ReviewTyped DEF Review
  <2>2. tx' = Queued(t, r)
    BY <1>6, <1>8
  <2> HIDE DEF r
  <2>3. /\ tx' \in Stored /\ Grows(t, tx') /\ tx'.source = t.source /\ tx'.affidavit = t.affidavit
        /\ \/ tx'.review = t.review
           \/ /\ \A i \in Ids(t.review) : t.review[i] # r
              /\ tx'.review = Append(t.review, r)
    BY <1>4, <2>1, <2>2, Queueing
  <2>4. Grows(tx, tx')
    BY <1>2, <1>4, <1>5, <2>3, GrowsOn
  <2> QED
    BY <1>4, <2>1, <2>3, <2>4
<1> QED
  BY <1>7, <1>8

LEMMA CloseSectionsWrites ==
  ASSUME WellTyped, CloseSections
  PROVE  /\ tx' \in Stored /\ Grows(tx, tx')
         /\ tx'.source = tx.source /\ tx'.affidavit = tx.affidavit
         /\ \/ tx'.review = tx.review
            \/ \E item \in ItemRow :
                 /\ item.status = "OPEN" /\ \A i \in Ids(tx.review) : tx.review[i] # item
                 /\ tx'.review = Append(tx.review, item)
<1> DEFINE r == Review(SourceId, "FIELD", "criminal_cases")
<1>1. tx \in Stored /\ r \in ItemRow /\ r.status = "OPEN"
  BY ReviewTyped, Sourcing DEF WellTyped, Labels, Review
<1>2. tx' = Queued(tx, r) \/ tx' = tx
  BY DEF CloseSections
<1> HIDE DEF r
<1> QED
  BY <1>1, <1>2, Queueing, GrowsItself

LEMMA GetSourceWrites ==
  ASSUME WellTyped, GetSource
  PROVE  tx' \in Stored /\ Grows(tx, tx')
<1>1. tx' = Sourced \/ tx' = Queued(Sourced, Review(SourceId, "DOCUMENT", "content_sha256"))
  BY DEF GetSource
<1>2. "content_sha256" \in Labels
  BY DEF Labels
<1> QED
  BY <1>1, <1>2, SourceReviewed, Sourcing DEF WellTyped

LEMMA WritesGrow ==
  ASSUME WellTyped, Writing
  PROVE  tx' \in Stored /\ Grows(tx, tx')
<1>1. CASE HandleUnreadable \/ QueueIdentity
  <2>1. "document_text" \in Labels /\ "candidate_name" \in Labels
    BY DEF Labels
  <2> QED
    BY <1>1, <2>1, SourceReviewed DEF HandleUnreadable, QueueIdentity
<1> QED
  BY <1>1, GetSourceWrites, InsertWrites, DeclareWrites, CloseSectionsWrites DEF Writing

(* A reviewer changes the status of one committed review item.             *)
Closes(t, u, i) ==
  /\ u \in Stored /\ u.source = t.source /\ u.affidavit = t.affidavit
  /\ u.declaration = t.declaration /\ Len(u.review) = Len(t.review)
  /\ u.review[i] = [t.review[i] EXCEPT !.status = "CLOSED"]
  /\ \A j \in Ids(t.review) : j # i => u.review[j] = t.review[j]

LEMMA Closing ==
  ASSUME NEW t \in Stored, NEW i \in Ids(t.review)
  PROVE  Closes(t, [t EXCEPT !.review[i].status = "CLOSED"], i)
<1> DEFINE row == [t.review[i] EXCEPT !.status = "CLOSED"]
<1> DEFINE u == [t EXCEPT !.review[i].status = "CLOSED"]
<1>1. t.review \in Seq(ItemRow) /\ i \in 1..Len(t.review)
  BY Columns DEF Ids
<1>2. t.review[i] \in ItemRow
  BY <1>1, ElementOfSeq
<1>3. row \in ItemRow
  BY <1>2 DEF ItemRow
<1>4. /\ [t.review EXCEPT ![i] = row] \in Seq(ItemRow)
      /\ Len([t.review EXCEPT ![i] = row]) = Len(t.review)
      /\ \A j \in 1..Len(t.review) : [t.review EXCEPT ![i] = row][j] = IF j = i THEN row ELSE t.review[j]
  BY <1>1, <1>3, ExceptSeq
<1>5. u = [t EXCEPT !.review = [t.review EXCEPT ![i] = row]]
  BY DEF Stored
<1>6. /\ u.review = [t.review EXCEPT ![i] = row] /\ u \in Stored
      /\ u.source = t.source /\ u.affidavit = t.affidavit /\ u.declaration = t.declaration
  BY <1>4, <1>5 DEF Stored
<1> HIDE DEF u, row
<1>7. u.review[i] = row /\ \A j \in Ids(t.review) : j # i => u.review[j] = t.review[j]
  BY <1>1, <1>4, <1>6 DEF Ids
<1>8. Len(u.review) = Len(t.review)
  BY <1>4, <1>6
<1> USE DEF row
<1>9. Closes(t, u, i)
  BY <1>6, <1>7, <1>8 DEF Closes
<1> QED
  BY <1>9 DEF u

CloseReviewOf(i) ==
  /\ closed < MaxClosed /\ db.review[i].status = "OPEN"
  /\ Closes(db, db', i) /\ Closes(tx, tx', i)
  /\ closed' = closed + 1 /\ UNCHANGED <<known, run, step, doc, cur, faults, crashes>>

LEMMA Reviewer ==
  ASSUME WellTyped, Grows(db, tx), CloseReview
  PROVE  \E i \in Ids(db.review) : i \in Ids(tx.review) /\ CloseReviewOf(i)
<1>1. PICK i \in Ids(db.review) :
        /\ db.review[i].status = "OPEN"
        /\ db' = [db EXCEPT !.review[i].status = "CLOSED"]
        /\ tx' = [tx EXCEPT !.review[i].status = "CLOSED"]
  BY DEF CloseReview
<1>2. db \in Stored /\ tx \in Stored
  BY DEF WellTyped
<1>3. i \in Ids(tx.review)
  BY <1>2, Columns, StaysIn DEF Grows
<1>4. Closes(db, db', i) /\ Closes(tx, tx', i)
  BY <1>1, <1>2, <1>3, Closing
<1>5. closed < MaxClosed /\ closed' = closed + 1 /\ UNCHANGED <<known, run, step, doc, cur, faults, crashes>>
  BY DEF CloseReview
<1> QED
  BY <1>1, <1>3, <1>4, <1>5 DEF CloseReviewOf

LEMMA StartRunTyped == ASSUME WellTyped, StartRun PROVE WellTyped'
<1>1. run' \in Seq({"RUNNING", "SUCCESS", "FAILED"}) /\ run' # <<>>
  BY AppendProperties DEF WellTyped, StartRun
<1> QED
  BY <1>1 DEF WellTyped, StartRun, Reg, Steps, Early, Linked

LEMMA WritingTyped == ASSUME WellTyped, Writing PROVE WellTyped'
<1>1. tx' \in Stored
  BY WritesGrow
<1>2. UNCHANGED <<known, db, run, doc, closed>>
  BY DEF Writing, HandleUnreadable, QueueIdentity, GetSource, InsertAffidavit, Declare, CloseSections
<1>3. step # "idle" /\ step' \in Steps
  BY DEF Writing, HandleUnreadable, QueueIdentity, GetSource, InsertAffidavit, Declare,
         CloseSections, Steps, Early, Linked, WellTyped
<1>4. /\ cur' \in [candidacy: Nat, people: SUBSET Nat, hits: SUBSET Nat, affidavit: Nat, item: Nat \ {0}]
      /\ cur'.candidacy = cur.candidacy /\ cur'.hits = cur.hits
  <2>1. Len(tx.affidavit) \in Nat
    BY Columns DEF WellTyped
  <2> QED
    BY <2>1 DEF Writing, HandleUnreadable, QueueIdentity, GetSource, InsertAffidavit, Declare,
                CloseSections, WellTyped
<1>5. step' \in Linked => step \in Linked
  BY DEF Writing, HandleUnreadable, QueueIdentity, GetSource, InsertAffidavit, Declare,
         CloseSections, Linked, WellTyped
<1> QED
  BY <1>1, <1>2, <1>3, <1>4, <1>5 DEF WellTyped, Reg

(* The lookups of linkage write nothing but what they hold.                *)
LinkStep == LookupId \/ LookupPeople \/ LookupCandidacy \/ DecideLink

LEMMA LinkStepIs ==
  ASSUME LinkStep
  PROVE  /\ UNCHANGED <<known, db, tx, run, doc, faults, crashes, closed>>
         /\ step \in {"link", "name", "narrow"} /\ step' \in {"name", "narrow", "identity", "source"}
BY DEF LinkStep, LookupId, LookupPeople, LookupCandidacy, DecideLink

LEMMA LinkStepTyped ==
  ASSUME WellTyped, LinkStep
  PROVE  /\ WellTyped' /\ cur'.item \in {1, cur.item}
         /\ step' # "source" => cur'.candidacy \in {0, cur.candidacy}
<1>1. /\ UNCHANGED <<known, db, tx, run, doc, closed>> /\ step # "idle" /\ Reg' = Reg
      /\ step' \in {"name", "narrow", "identity", "source"} /\ step' \in Steps
  BY LinkStepIs DEF Reg, Steps, Early, Linked
<1>2. Ids(Reg.candidacy) \subseteq Nat /\ Ids(Reg.person) \subseteq Nat
  BY Registered, LenProperties DEF WellTyped, Ids
<1>3. CASE UNCHANGED cur /\ step' # "source"
  BY <1>1, <1>3 DEF WellTyped, Linked
<1>4. ASSUME NEW c \in Ids(Reg.candidacy), cur' = [Fresh EXCEPT !.candidacy = c], step' = "source"
      PROVE  WellTyped' /\ cur'.item \in {1, cur.item}
  <2>1. /\ cur' \in [candidacy: Nat, people: SUBSET Nat, hits: SUBSET Nat, affidavit: Nat, item: Nat \ {0}]
        /\ cur'.candidacy = c /\ cur'.hits = {} /\ cur'.item = 1
    BY <1>2, <1>4 DEF Fresh
  <2> QED
    BY <1>1, <1>4, <2>1 DEF WellTyped
<1>5. CASE LookupId
  <2>1. CASE step' # "source"
    BY <1>3, <1>5, <2>1 DEF LookupId
  <2>2. CASE step' = "source"
    <3>1. PICK c \in ById(F) : /\ Agrees(Reg.election[Reg.candidacy[c].election], F)
                               /\ cur' = [Fresh EXCEPT !.candidacy = c]
      BY <1>5, <2>2 DEF LookupId
    <3>2. c \in Ids(Reg.candidacy)
      BY <3>1, ByIdEvident DEF Evidence, WellTyped
    <3> QED
      BY <1>4, <2>2, <3>1, <3>2
  <2> QED
    BY <2>1, <2>2
<1>6. CASE LookupPeople
  <2>1. CASE UNCHANGED cur
    BY <1>3, <1>6, <2>1 DEF LookupPeople
  <2>2. CASE cur' = [Fresh EXCEPT !.people = Pursued(F)] /\ step' = "narrow"
    <3>1. Pursued(F) \subseteq Nat
      BY <1>2 DEF Pursued, People
    <3>2. /\ cur' \in [candidacy: Nat, people: SUBSET Nat, hits: SUBSET Nat, affidavit: Nat, item: Nat \ {0}]
          /\ cur'.candidacy = 0 /\ cur'.hits = {} /\ cur'.item = 1
      BY <2>2, <3>1 DEF Fresh
    <3> QED
      BY <1>1, <2>2, <3>2 DEF WellTyped, Linked
  <2> QED
    BY <1>6, <2>1, <2>2 DEF LookupPeople
<1>7. CASE LookupCandidacy
  <2>1. PICK p \in cur.people :
          cur' = [cur EXCEPT !.people = @ \ {p}, !.hits = @ \cup Sole(Fits(p, F))]
    BY <1>7 DEF LookupCandidacy
  <2>2. Sole(Fits(p, F)) \subseteq Ids(Reg.candidacy)
    BY DEF Sole, Fits
  <2> DEFINE H == Sole(Fits(p, F))
  <2>3. cur' = [cur EXCEPT !.people = @ \ {p}, !.hits = @ \cup H] /\ H \subseteq Ids(Reg.candidacy)
    BY <2>1, <2>2
  <2>4. step' = "narrow"
    BY <1>7 DEF LookupCandidacy
  <2> HIDE DEF H
  <2>5. H \subseteq Nat
    BY <1>2, <2>3
  <2>6. /\ cur' \in [candidacy: Nat, people: SUBSET Nat, hits: SUBSET Nat, affidavit: Nat, item: Nat \ {0}]
        /\ cur'.candidacy = cur.candidacy /\ cur'.item = cur.item
        /\ cur'.hits \subseteq Ids(Reg.candidacy)
    BY <2>3, <2>5 DEF WellTyped
  <2> QED
    BY <1>1, <2>4, <2>6 DEF WellTyped, Linked
<1>8. CASE DecideLink
  <2>1. CASE cur' = Fresh /\ step' = "identity"
    <3>1. /\ cur' \in [candidacy: Nat, people: SUBSET Nat, hits: SUBSET Nat, affidavit: Nat, item: Nat \ {0}]
          /\ cur'.candidacy = 0 /\ cur'.hits = {} /\ cur'.item = 1
      BY <2>1 DEF Fresh
    <3> QED
      BY <1>1, <2>1, <3>1 DEF WellTyped, Linked
  <2>2. ASSUME NEW c \in Sole(cur.hits), cur' = [Fresh EXCEPT !.candidacy = c], step' = "source"
        PROVE  WellTyped' /\ cur'.item \in {1, cur.item}
    <3>1. c \in Ids(Reg.candidacy)
      BY <2>2 DEF WellTyped, Sole
    <3> QED
      BY <1>4, <2>2, <3>1
  <2> QED
    BY <1>8, <2>1, <2>2 DEF DecideLink
<1> QED
  BY <1>5, <1>6, <1>7, <1>8 DEF LinkStep

LEMMA FetchTyped == ASSUME WellTyped, Fetch \/ FetchUnread PROVE WellTyped'
<1>1. step' \in {"unreadable", "link", "raise"}
  BY DEF Fetch, FetchUnread
<1> QED
  BY <1>1 DEF WellTyped, Fetch, FetchUnread, Reg, Steps, Early, Linked

LEMMA EndTyped ==
  ASSUME WellTyped, FinishRun \/ FailRun \/ Crash
  PROVE  WellTyped'
<1>1. /\ step' = "idle" /\ doc' \in Document /\ cur'.candidacy = 0 /\ cur'.hits = {}
      /\ cur' \in [candidacy: Nat, people: SUBSET Nat, hits: SUBSET Nat, affidavit: Nat, item: Nat \ {0}]
  BY RestTyped DEF FinishRun, FailRun, Crash
<1>2. run' \in Seq({"RUNNING", "SUCCESS", "FAILED"})
  BY RunTyped DEF FinishRun, FailRun, Crash, WellTyped
<1>3. db' \in Stored /\ tx' \in Stored /\ UNCHANGED <<known, closed>>
  BY DEF FinishRun, FailRun, Crash, WellTyped
<1> QED
  BY <1>1, <1>2, <1>3 DEF WellTyped, Steps, Early, Linked

LEMMA FaultTyped == ASSUME WellTyped, Fault PROVE WellTyped'
BY DEF WellTyped, Fault, Reg, Steps, Early, Linked

LEMMA KnownAffidavitTyped == ASSUME WellTyped, KnownAffidavit PROVE WellTyped'
BY DEF WellTyped, KnownAffidavit, Reg, Steps, Early, Linked

LEMMA ResultsArriveTyped == ASSUME WellTyped, ResultsArrive PROVE WellTyped'
<1>1. Registry \in Seq(Candidacies) /\ Len(Registry) \in Nat
  BY RegistryAssumption, LenProperties
<1>2. known' \in Ids(Registry) /\ known <= known'
  BY <1>1 DEF ResultsArrive, WellTyped, Ids
<1>3. Extends(Reg.candidacy, Reg'.candidacy) /\ Reg \in Candidacies /\ Reg' \in Candidacies
  BY <1>1, <1>2, RegistryAssumption, ElementOfSeq DEF Reg, WellTyped, Ids
<1>4. \A c \in Ids(Reg.candidacy) : c \in Ids(Reg'.candidacy)
  BY <1>3, StaysIn DEF Candidacies
<1> QED
  BY <1>2, <1>4 DEF ResultsArrive, WellTyped

LEMMA CloseReviewTyped == ASSUME WellTyped, NEW i, CloseReviewOf(i) PROVE WellTyped'
BY DEF WellTyped, CloseReviewOf, Closes, Reg

LEMMA StutterTyped == ASSUME WellTyped, UNCHANGED vars PROVE WellTyped'
BY DEF WellTyped, vars, Reg

-----------------------------------------------------------------------------
(* The session sees what is committed and what it has added, and has added *)
(* nothing before it gets the source.                                      *)
Kept == Grows(db, tx) /\ (step \in Early => tx = db)

LEMMA StepKept == ASSUME WellTyped, Kept, Next PROVE WellTyped' /\ Kept'
<1>0. db \in Stored /\ tx \in Stored
  BY DEF WellTyped
<1>1. CASE StartRun
  BY <1>1, StartRunTyped DEF StartRun, Kept, Grows, Early
<1>2. CASE Writing
  <2>1. tx' \in Stored /\ Grows(tx, tx') /\ db' = db
    BY <1>2, WritesGrow
       DEF Writing, HandleUnreadable, QueueIdentity, GetSource, InsertAffidavit, Declare, CloseSections
  <2>2. Grows(db, tx')
    BY <1>0, <2>1, GrowsOn DEF Kept
  <2>3. step' \notin Early
    BY <1>2 DEF Writing, HandleUnreadable, QueueIdentity, GetSource, InsertAffidavit, Declare,
                CloseSections, Early
  <2> QED
    BY <1>2, <2>1, <2>2, <2>3, WritingTyped DEF Kept, Grows
<1>3. CASE Fetch \/ FetchUnread \/ LinkStep \/ KnownAffidavit \/ Fault
  <2>1. UNCHANGED <<db, tx>> /\ (step' \in Early => step \in Early)
    BY <1>3, LinkStepIs DEF Fetch, FetchUnread, KnownAffidavit, Fault, Early
  <2> QED
    BY <1>3, <2>1, FetchTyped, LinkStepTyped, KnownAffidavitTyped, FaultTyped DEF Kept, Grows
<1>4. CASE FinishRun \/ FailRun \/ Crash
  <2>1. tx' = db' /\ db' \in Stored
    BY <1>0, <1>4 DEF FinishRun, FailRun, Crash
  <2> QED
    BY <1>4, <2>1, EndTyped, GrowsItself DEF Kept, Grows
<1>5. CASE ResultsArrive
  BY <1>5, ResultsArriveTyped DEF ResultsArrive, Kept, Grows
<1>6. CASE CloseReview
  <2>1. PICK i \in Ids(db.review) : i \in Ids(tx.review) /\ CloseReviewOf(i)
    BY <1>6, Reviewer DEF Kept
  <2>2. WellTyped'
    BY <2>1, CloseReviewTyped
  <2>3. Extends(db.review, tx.review)
    BY DEF Kept, Grows
  <2>4. Extends(db'.review, tx'.review)
    BY <2>1, <2>3 DEF CloseReviewOf, Closes, Extends, Ids
  <2>5. Grows(db, tx)'
    BY <2>1, <2>4 DEF CloseReviewOf, Closes, Kept, Grows
  <2>6. tx = db => tx' = db'
    BY <1>6 DEF CloseReview
  <2>7. step' = step
    BY <1>6 DEF CloseReview
  <2> QED
    BY <2>2, <2>5, <2>6, <2>7 DEF Kept
<1> QED
  BY <1>1, <1>2, <1>3, <1>4, <1>5, <1>6 DEF Next, Proceed, Writing, LinkStep

Base == WellTyped /\ Kept
(* The types, and what the session sees, in every reachable state.         *)
THEOREM BaseInvariant == Spec => []Base
<1>1. Init => Base
  <2>1. SUFFICES ASSUME Init PROVE Base
    OBVIOUS
  <2>2. WellTyped
    BY <2>1, InitTyped
  <2> QED
    BY <2>1, <2>2, GrowsItself DEF Base, Kept, WellTyped, Init
<1>2. Base /\ [Next]_vars => Base'
  <2>1. SUFFICES ASSUME Base, [Next]_vars PROVE Base'
    OBVIOUS
  <2>2. CASE UNCHANGED vars
    BY <2>1, <2>2, StutterTyped DEF Base, Kept, Grows, vars
  <2>3. CASE Next
    BY <2>1, <2>3, StepKept DEF Base
  <2> QED
    BY <2>1, <2>2, <2>3
<1> QED
  BY <1>1, <1>2, PTL DEF Spec

(* Whatever the documents and however runs end: committed rows stay as     *)
(* they are, only a run that reports SUCCESS or a reviewer changes the     *)
(* tables, and a reviewer only closes items.                               *)
THEOREM AffidavitHistory == Spec => HistoryIsKept
<1> DEFINE Step ==
      /\ Extends(db.source, db'.source) /\ Extends(db.affidavit, db'.affidavit)
      /\ Extends(db.declaration, db'.declaration) /\ Len(db.review) <= Len(db'.review)
      /\ \A i \in Ids(db.review) : db'.review[i] \in {db.review[i], [db.review[i] EXCEPT !.status = "CLOSED"]}
      /\ db' # db => closed' # closed \/ run'[Len(run')] = "SUCCESS"
<1>1. Base /\ [Next]_vars => Step
  <2>1. SUFFICES ASSUME Base, [Next]_vars PROVE Step
    OBVIOUS
  <2>2. db \in Stored /\ Len(db.review) \in Nat
    BY <2>1, Columns DEF Base, WellTyped
  <2>3. CASE db' = db
    BY <2>2, <2>3, GrowsItself DEF Grows
  <2>4. CASE FinishRun
    <3>1. db' = tx /\ run'[Len(run')] = "SUCCESS"
      BY <2>1, <2>4, RunTyped DEF FinishRun, Base, WellTyped
    <3>2. Extends(db.review, tx.review) /\ Grows(db, tx)
      BY <2>1 DEF Base, Kept, Grows
    <3> QED
      BY <3>1, <3>2 DEF Grows, Extends
  <2>5. CASE CloseReview
    <3>1. PICK i \in Ids(db.review) : CloseReviewOf(i)
      BY <2>1, <2>5, Reviewer DEF Base, Kept
    <3>2. closed' # closed
      BY <2>1, <3>1 DEF CloseReviewOf, Base, WellTyped
    <3>3. Extends(db.source, db.source) /\ Extends(db.affidavit, db.affidavit)
          /\ Extends(db.declaration, db.declaration)
      BY <2>2, GrowsItself DEF Grows
    <3> QED
      BY <2>2, <3>1, <3>2, <3>3 DEF CloseReviewOf, Closes
  <2> QED
    BY <2>1, <2>3, <2>4, <2>5, LinkStepIs
       DEF Next, Proceed, vars, StartRun, Fetch, FetchUnread, HandleUnreadable, LinkStep, QueueIdentity,
           GetSource, KnownAffidavit, InsertAffidavit, Declare, CloseSections, FailRun, Fault, Crash, ResultsArrive
<1> QED
  BY <1>1, BaseInvariant, PTL DEF Spec, HistoryIsKept

-----------------------------------------------------------------------------
(* An item is added to the reviews only if it is not there.                *)
OneMore(t, u) ==
  \/ u.review = t.review
  \/ \E item \in ItemRow :
       /\ \A i \in Ids(t.review) : t.review[i] # item
       /\ u.review = Append(t.review, item)

LEMMA SourceReviewedOnce ==
  ASSUME WellTyped, NEW type \in {"DOCUMENT", "IDENTITY"}, NEW f \in Labels
  PROVE  OneMore(tx, Queued(Sourced, Review(SourceId, type, f)))
<1>1. Sourced \in Stored /\ Sourced.review = tx.review /\ SourceId \in Nat
  BY Sourcing DEF WellTyped
<1>2. Review(SourceId, type, f) \in ItemRow
  BY <1>1, ReviewTyped
<1> QED
  BY <1>1, <1>2, Queueing DEF OneMore

LEMMA WritesOnce == ASSUME WellTyped, Writing PROVE OneMore(tx, tx')
<1>1. "document_text" \in Labels /\ "candidate_name" \in Labels /\ "content_sha256" \in Labels
  BY DEF Labels
<1>2. CASE HandleUnreadable \/ QueueIdentity
  BY <1>1, <1>2, SourceReviewedOnce DEF HandleUnreadable, QueueIdentity
<1>3. CASE GetSource
  <2>1. tx' = Sourced \/ tx' = Queued(Sourced, Review(SourceId, "DOCUMENT", "content_sha256"))
    BY <1>3 DEF GetSource
  <2>2. Sourced.review = tx.review
    BY Sourcing DEF WellTyped
  <2> QED
    BY <1>1, <2>1, <2>2, SourceReviewedOnce DEF OneMore
<1> QED
  BY <1>2, <1>3, InsertWrites, DeclareWrites, CloseSectionsWrites DEF Writing, OneMore

SingleIn(items) ==
  \A i, j \in Ids(items) : items[i] = items[j] /\ items[i].status = "OPEN" => i = j
SingleOpen(t) == SingleIn(t.review)
Questions == SingleOpen(db) /\ SingleOpen(tx)

LEMMA AppendedSingle ==
  ASSUME NEW items \in Seq(ItemRow), NEW item \in ItemRow, SingleIn(items),
         \A i \in Ids(items) : items[i] # item
  PROVE  SingleIn(Append(items, item))
<1> DEFINE more == Append(items, item)
<1>1. Ids(more) = Ids(items) \cup {Len(items) + 1} /\ more[Len(items) + 1] = item
  BY Appended
<1>0. \A i \in Ids(items) : more[i] = items[i]
  BY AppendProperties DEF Ids
<1> HIDE DEF more
<1>2. ASSUME NEW i \in Ids(more), NEW j \in Ids(more), more[i] = more[j], more[i].status = "OPEN"
      PROVE  i = j
  <2>1. CASE i \in Ids(items) /\ j \in Ids(items)
    <3>1. items[i] = items[j] /\ items[i].status = "OPEN"
      BY <1>0, <1>2, <2>1
    <3> QED
      BY <2>1, <3>1 DEF SingleIn
  <2>2. CASE i = Len(items) + 1 /\ j = Len(items) + 1
    BY <2>2
  <2>3. ~(i \in Ids(items) /\ j = Len(items) + 1)
    BY <1>0, <1>1, <1>2
  <2>4. ~(j \in Ids(items) /\ i = Len(items) + 1)
    BY <1>0, <1>1, <1>2
  <2> QED
    BY <1>1, <1>2, <2>1, <2>2, <2>3, <2>4
<1>3. SingleIn(more)
  BY <1>2 DEF SingleIn
<1> QED
  BY <1>3 DEF more

LEMMA OneMoreSingle ==
  ASSUME NEW t \in Stored, NEW u, SingleOpen(t), OneMore(t, u)
  PROVE  SingleOpen(u)
<1>1. t.review \in Seq(ItemRow)
  BY Columns
<1> QED
  BY <1>1, AppendedSingle DEF OneMore, SingleOpen

LEMMA ClosesSingle ==
  ASSUME NEW t \in Stored, NEW u, NEW i \in Ids(t.review), SingleOpen(t), Closes(t, u, i)
  PROVE  SingleOpen(u)
<1>1. Ids(u.review) = Ids(t.review)
  BY DEF Closes, Ids
<1>2. t.review[i] \in ItemRow
  BY Columns, ElementOfSeq DEF Ids
<1>3. u.review[i].status = "CLOSED"
  BY <1>2 DEF Closes, ItemRow
<1> QED
  BY <1>1, <1>3 DEF Closes, SingleOpen, SingleIn

LEMMA QuestionsInvariant == Spec => []Questions
<1>1. Init => Questions
  BY DEF Init, Empty, Questions, SingleOpen, SingleIn, Ids
<1>2. Base /\ Questions /\ [Next]_vars => Questions'
  <2>1. SUFFICES ASSUME Base, Questions, [Next]_vars PROVE Questions'
    OBVIOUS
  <2>2. WellTyped /\ Kept
    BY <2>1 DEF Base
  <2>3. CASE Writing
    <3>1. OneMore(tx, tx') /\ tx \in Stored /\ db' = db
      BY <2>2, <2>3, WritesOnce
         DEF Writing, HandleUnreadable, QueueIdentity, GetSource, InsertAffidavit, Declare,
             CloseSections, WellTyped
    <3>2. SingleOpen(tx')
      BY <2>1, <3>1, OneMoreSingle DEF Questions
    <3> QED
      BY <2>1, <3>1, <3>2 DEF Questions, SingleOpen
  <2>4. CASE CloseReview
    <3>1. PICK i \in Ids(db.review) : i \in Ids(tx.review) /\ CloseReviewOf(i)
      BY <2>2, <2>4, Reviewer DEF Kept
    <3>2. Closes(db, db', i) /\ Closes(tx, tx', i) /\ db \in Stored /\ tx \in Stored
      BY <2>2, <3>1 DEF CloseReviewOf, WellTyped
    <3>3. SingleOpen(db') /\ SingleOpen(tx')
      BY <2>1, <3>1, <3>2, ClosesSingle DEF Questions
    <3> QED
      BY <3>3 DEF Questions, SingleOpen
  <2>5. CASE db' \in {db, tx} /\ tx' \in {db, tx}
    BY <2>1, <2>5 DEF Questions, SingleOpen
  <2> QED
    BY <2>1, <2>3, <2>4, <2>5, LinkStepIs
       DEF Next, Proceed, Writing, vars, StartRun, Fetch, FetchUnread, LinkStep, KnownAffidavit,
           FinishRun, FailRun, Fault, Crash, ResultsArrive
<1> QED
  BY <1>1, <1>2, BaseInvariant, PTL DEF Spec

(* However often documents are retried, a reviewer has at most one open    *)
(* item for one question about one source.                                 *)
THEOREM OpenItems == Spec => []OpenItemsAreSingle
<1>1. Questions => OpenItemsAreSingle
  BY DEF Questions, SingleOpen, SingleIn, OpenItemsAreSingle
<1> QED
  BY <1>1, QuestionsInvariant, PTL

-----------------------------------------------------------------------------
(* Affidavits belong to a candidacy for which there is evidence.           *)
Evident(a) ==
  /\ Evidence(a.candidacy, Form[a.sha])
  /\ a.person = Reg.candidacy[a.candidacy].person /\ a.election = Reg.candidacy[a.candidacy].election
Evidenced(t) == \A i \in Ids(t.affidavit) : Evident(t.affidavit[i])
Held ==
  /\ \A c \in cur.hits : Evidence(c, F)
  /\ \A p \in cur.people : p \in Ids(Reg.person) /\ Reg.person[p] = F.name
Links ==
  /\ Evidenced(db) /\ Evidenced(tx)
  /\ step \in Linked => Evidence(cur.candidacy, F)
  /\ step = "narrow" => Held

LEMMA OthersWrite ==
  ASSUME WellTyped, HandleUnreadable \/ QueueIdentity \/ GetSource
  PROVE  tx'.affidavit = tx.affidavit
<1>1. Sourced \in Stored /\ Sourced.affidavit = tx.affidavit /\ SourceId \in Nat
  BY Sourcing DEF WellTyped
<1>2. ASSUME NEW type \in {"DOCUMENT", "IDENTITY"}, NEW f \in Labels
      PROVE  Queued(Sourced, Review(SourceId, type, f)).affidavit = tx.affidavit
  BY <1>1, <1>2, ReviewTyped, Queueing
<1>3. "document_text" \in Labels /\ "candidate_name" \in Labels /\ "content_sha256" \in Labels
  BY DEF Labels
<1> QED
  BY <1>1, <1>2, <1>3 DEF HandleUnreadable, QueueIdentity, GetSource

LEMMA EvidencedInserted ==
  ASSUME WellTyped, Links, InsertAffidavit
  PROVE  Evidenced(tx')
<1>1. tx'.affidavit = Append(tx.affidavit, AffidavitRow) /\ AffidavitRow \in AffidavitRows
  BY InsertWrites, RowsTyped DEF InsertAffidavit
<1>2. tx.affidavit \in Seq(AffidavitRows)
  BY Columns DEF WellTyped
<1>3. /\ Ids(tx'.affidavit) = Ids(tx.affidavit) \cup {Len(tx.affidavit) + 1}
      /\ tx'.affidavit[Len(tx.affidavit) + 1] = AffidavitRow
  BY <1>1, <1>2, Appended
<1>4. \A i \in Ids(tx.affidavit) : tx'.affidavit[i] = tx.affidavit[i]
  BY <1>1, <1>2, AppendProperties DEF Ids
<1>5. Evident(AffidavitRow)
  <2>1. Evidence(cur.candidacy, F)
    BY DEF Links, InsertAffidavit, Linked
  <2>2. /\ AffidavitRow.candidacy = cur.candidacy /\ AffidavitRow.sha = doc.sha
        /\ AffidavitRow.person = Reg.candidacy[cur.candidacy].person
        /\ AffidavitRow.election = Reg.candidacy[cur.candidacy].election
    BY DEF AffidavitRow
  <2> QED
    BY <2>1, <2>2 DEF Evident, F
<1> QED
  BY <1>3, <1>4, <1>5 DEF Evidenced, Links

(* Results that arrive leave the evidence of every affidavit.              *)
LEMMA EvidentStays ==
  ASSUME WellTyped, ResultsArrive, NEW a, Evident(a)
  PROVE  Evident(a)'
<1>1. known \in Ids(Registry) /\ known' \in Ids(Registry) /\ known <= known'
  <2>1. Len(Registry) \in Nat
    BY RegistryAssumption, LenProperties
  <2> QED
    BY <2>1 DEF ResultsArrive, WellTyped, Ids
<1>2. Evidence(a.candidacy, Form[a.sha])' /\ Reg'.candidacy[a.candidacy] = Reg.candidacy[a.candidacy]
  BY <1>1, EvidenceStays DEF Evident
<1> QED
  BY <1>2 DEF Evident

(* What linkage holds, and what it ends with, is evident.                  *)
LEMMA LinkStepHolds ==
  ASSUME WellTyped, Links, LinkStep, step' = "narrow"
  PROVE  Held'
<1>1. UNCHANGED <<known, doc>> /\ Reg' = Reg /\ F' = F
  BY LinkStepIs DEF Reg, F
<1>2. SUFFICES /\ \A c \in cur'.hits : Evidence(c, F)
               /\ \A p \in cur'.people : p \in Ids(Reg.person) /\ Reg.person[p] = F.name
  BY <1>1 DEF Held, Evidence, Agrees
<1>3. CASE LookupPeople
  <2>1. cur'.people = Pursued(F) /\ cur'.hits = {}
    BY <1>3 DEF LookupPeople, Fresh
  <2> QED
    BY <2>1 DEF Pursued, People
<1>4. CASE LookupCandidacy
  <2>1. PICK p \in cur.people :
          cur' = [cur EXCEPT !.people = @ \ {p}, !.hits = @ \cup Sole(Fits(p, F))]
    BY <1>4 DEF LookupCandidacy
  <2>2. Held
    BY <1>4 DEF LookupCandidacy, Links
  <2>3. \A c \in Sole(Fits(p, F)) : Evidence(c, F)
    BY <2>1, <2>2, FitsEvident DEF Held
  <2>4. cur'.people \subseteq cur.people /\ cur'.hits = cur.hits \cup Sole(Fits(p, F))
    BY <2>1 DEF WellTyped
  <2> QED
    BY <2>2, <2>3, <2>4 DEF Held
<1> QED
  BY <1>3, <1>4 DEF LinkStep, LookupId, DecideLink

LEMMA LinkStepLinks ==
  ASSUME WellTyped, Links, LinkStep, step' = "source"
  PROVE  \E c : Evidence(c, F) /\ cur' = [Fresh EXCEPT !.candidacy = c]
<1>1. CASE LookupId
  BY <1>1, ByIdEvident DEF LookupId, WellTyped
<1>2. CASE DecideLink
  <2>1. PICK c \in Sole(cur.hits) : cur' = [Fresh EXCEPT !.candidacy = c]
    BY <1>2 DEF DecideLink
  <2>2. Evidence(c, F)
    BY <1>2, <2>1 DEF DecideLink, Links, Held, Sole
  <2> QED
    BY <2>1, <2>2
<1> QED
  BY <1>1, <1>2 DEF LinkStep, LookupPeople, LookupCandidacy

LEMMA StepLinks == ASSUME Base, Links, Next PROVE Links'
<1>1. WellTyped /\ tx \in Stored
  BY DEF Base, WellTyped
<1>2. CASE ResultsArrive
  <2>1. \A a : Evident(a) => Evident(a)'
    BY <1>1, <1>2, EvidentStays
  <2>2. known \in Ids(Registry) /\ known' \in Ids(Registry) /\ known <= known'
    <3>1. Len(Registry) \in Nat
      BY RegistryAssumption, LenProperties
    <3> QED
      BY <1>1, <1>2, <3>1 DEF ResultsArrive, WellTyped, Ids
  <2>3. \A c, form : Evidence(c, form) => Evidence(c, form)'
    BY <2>2, EvidenceStays
  <2>4. UNCHANGED <<db, tx, step, cur, doc>>
    BY <1>2 DEF ResultsArrive
  <2>5. F' = F
    BY <2>4 DEF F
  <2>6. step \in Linked => Evidence(cur.candidacy, F)'
    BY <2>3, <2>4, <2>5 DEF Links, Evidence
  <2>7. step = "narrow" => Held'
    <3>1. Extends(Reg.person, Reg'.person) /\ Reg \in Candidacies /\ Reg' \in Candidacies
      BY <2>2, RegistryAssumption, ElementOfSeq DEF Reg, Ids
    <3>2. \A p \in Ids(Reg.person) : p \in Ids(Reg'.person) /\ Reg'.person[p] = Reg.person[p]
      BY <3>1, StaysIn DEF Candidacies
    <3>3. \A c \in cur.hits : Evidence(c, F) => Evidence(c, F)'
      BY <2>3, <2>4, <2>5 DEF Evidence
    <3> QED
      BY <2>4, <2>5, <3>2, <3>3 DEF Links, Held
  <2> QED
    BY <2>1, <2>4, <2>6, <2>7 DEF Links, Evidenced
<1>3. CASE known' = known /\ ~(Fetch \/ FetchUnread)
  <2>1. \A a : Evident(a)' = Evident(a)
    BY <1>3 DEF Evident, Evidence, Reg
  <2>2. /\ db'.affidavit = db.affidavit \/ Evidenced(db')
        /\ tx'.affidavit = tx.affidavit \/ Evidenced(tx')
    <3>1. CASE InsertAffidavit
      BY <1>1, <3>1, EvidencedInserted DEF InsertAffidavit
    <3>2. CASE HandleUnreadable \/ QueueIdentity \/ GetSource \/ Declare \/ CloseSections
      BY <1>1, <3>2, OthersWrite, DeclareWrites, CloseSectionsWrites
         DEF HandleUnreadable, QueueIdentity, GetSource, Declare, CloseSections
    <3>3. CASE FinishRun \/ FailRun \/ Crash
      BY <3>3 DEF FinishRun, FailRun, Crash, Links
    <3>4. CASE CloseReview
      <4>1. PICK i \in Ids(db.review) : CloseReviewOf(i)
        BY <1>1, <3>4, Reviewer DEF Base, Kept
      <4> QED
        BY <4>1 DEF CloseReviewOf, Closes
    <3>5. CASE StartRun \/ LinkStep \/ KnownAffidavit \/ Fault
      BY <3>5, LinkStepIs DEF StartRun, KnownAffidavit, Fault
    <3>6. ~ResultsArrive
      BY <1>1, <1>3 DEF ResultsArrive, WellTyped, Ids
    <3> QED
      BY <1>3, <3>1, <3>2, <3>3, <3>4, <3>5, <3>6 DEF Next, Proceed, LinkStep
  <2>3. Evidenced(db)' /\ Evidenced(tx)'
    BY <2>1, <2>2 DEF Links, Evidenced
  <2>4. ASSUME step' \in Linked PROVE Evidence(cur.candidacy, F)'
    <3>1. CASE LinkStep
      <4>0. step' = "source"
        BY <2>4, <3>1 DEF LinkStep, LookupId, LookupPeople, LookupCandidacy, DecideLink, Linked
      <4>1. PICK c : Evidence(c, F) /\ cur' = [Fresh EXCEPT !.candidacy = c]
        BY <1>1, <3>1, <4>0, LinkStepLinks
      <4>2. cur'.candidacy = c /\ UNCHANGED <<known, doc>>
        BY <3>1, <4>1, LinkStepIs DEF Fresh
      <4> QED
        BY <4>1, <4>2 DEF Evidence, Reg, F, Agrees
    <3>2. CASE ~LinkStep
      <4>1. step \in Linked /\ doc' = doc /\ cur'.candidacy = cur.candidacy
        BY <1>1, <1>3, <2>4, <3>2
           DEF Next, Proceed, LinkStep, StartRun, HandleUnreadable, QueueIdentity, GetSource,
               KnownAffidavit, InsertAffidavit, Declare, CloseSections, FinishRun, FailRun, Fault,
               Crash, Rest, ResultsArrive, CloseReview, Linked, WellTyped
      <4> QED
        BY <1>3, <4>1 DEF Links, Evidence, Reg, F, Agrees
    <3> QED
      BY <3>1, <3>2
  <2>5. ASSUME step' = "narrow" PROVE Held'
    <3>1. CASE LinkStep
      BY <1>1, <2>5, <3>1, LinkStepHolds
    <3>2. CASE ~LinkStep
      <4>1. UNCHANGED <<known, step, doc, cur>>
        BY <1>1, <1>3, <2>5, <3>2
           DEF Next, Proceed, LinkStep, StartRun, HandleUnreadable, QueueIdentity, GetSource,
               KnownAffidavit, InsertAffidavit, Declare, CloseSections, FinishRun, FailRun, Fault,
               Crash, Rest, ResultsArrive, CloseReview, WellTyped
      <4>2. Held
        BY <2>5, <4>1 DEF Links
      <4> QED
        BY <4>1, <4>2 DEF Held, Evidence, Reg, F, Agrees
    <3> QED
      BY <3>1, <3>2
  <2> QED
    BY <2>3, <2>4, <2>5 DEF Links
<1>4. CASE Fetch \/ FetchUnread
  <2>1. UNCHANGED <<known, db, tx>> /\ step' \notin Linked /\ step' # "narrow"
    BY <1>4 DEF Fetch, FetchUnread, Linked
  <2> QED
    BY <2>1 DEF Links, Evidenced, Evident, Evidence, Reg, Agrees
<1>5. known' = known \/ ResultsArrive
  BY LinkStepIs DEF Next, Proceed, LinkStep, StartRun, Fetch, FetchUnread, HandleUnreadable,
         QueueIdentity, GetSource, KnownAffidavit, InsertAffidavit, Declare, CloseSections, FinishRun, FailRun, Fault, Crash,
         CloseReview
<1> QED
  BY <1>2, <1>3, <1>4, <1>5

LEMMA LinksInvariant == Spec => []Links
<1>1. Init => Links
  BY DEF Init, Empty, Links, Evidenced, Ids, Linked
<1>2. Base /\ Links /\ [Next]_vars => Links'
  <2>1. SUFFICES ASSUME Base, Links, [Next]_vars PROVE Links'
    OBVIOUS
  <2>2. CASE UNCHANGED vars
    BY <2>1, <2>2 DEF vars, Links, Held, Evidenced, Evident, Evidence, Reg, F, Agrees
  <2>3. CASE Next
    BY <2>1, <2>3, StepLinks
  <2> QED
    BY <2>1, <2>2, <2>3
<1> QED
  BY <1>1, <1>2, BaseInvariant, PTL DEF Spec

(* Every affidavit belongs to a candidacy that its official id or its name *)
(* leads to, in an election that agrees with the form, whatever results    *)
(* arrive before or after.                                                 *)
THEOREM EvidencedLinks == Spec => []LinksAreEvidenced
<1>1. Links => LinksAreEvidenced
  BY DEF Links, Evidenced, Evident, Evidence, Agrees, LinksAreEvidenced
<1> QED
  BY <1>1, LinksInvariant, PTL

-----------------------------------------------------------------------------
(* Sources are single by digest, affidavits have theirs, and every source  *)
(* but the one being worked on has been answered.                          *)
OneSource(t) == \A i, j \in Ids(t.source) : t.source[i].sha = t.source[j].sha => i = j
Backed(t) ==
  \A i \in Ids(t.affidavit) :
    /\ t.affidavit[i].source \in Ids(t.source)
    /\ t.source[t.affidavit[i].source].sha = t.affidavit[i].sha
    /\ Extraction[t.affidavit[i].sha] = "TEXT_EXTRACTED"
Later(t, s)    == \E j \in 1..(s - 1) : t.source[j].url = t.source[s].url
Flagged(t, s)  == Later(t, s) => Reviews(t, s) # {}
Answered(t, s) ==
  /\ Flagged(t, s)
  /\ Reviews(t, s) # {} \/ \E i \in Ids(t.affidavit) : t.affidavit[i].source = s
Complete(t) == OneSource(t) /\ Backed(t) /\ \A s \in Ids(t.source) : Answered(t, s)
Current(s)  == step = "affidavit" /\ tx.source[s].sha = doc.sha
Textual == {"link", "name", "narrow", "identity"} \cup Linked
Settled ==
  /\ Complete(db) /\ OneSource(tx) /\ Backed(tx)
  /\ step # "raise" =>
       \A s \in Ids(tx.source) : Flagged(tx, s) /\ (Answered(tx, s) \/ Current(s))
  /\ step \in Textual => Extraction[doc.sha] = "TEXT_EXTRACTED"
  /\ step \in {"affidavit", "declare"} => Same # {}

LEMMA AnswersStay ==
  ASSUME NEW t \in Stored, NEW u \in Stored, Grows(t, u), NEW s \in Ids(t.source)
  PROVE  /\ s \in Ids(u.source) /\ u.source[s] = t.source[s]
         /\ Flagged(t, s) => Flagged(u, s)
         /\ Answered(t, s) => Answered(u, s)
<1>1. /\ t.source \in Seq(Document) /\ t.review \in Seq(ItemRow) /\ t.affidavit \in Seq(AffidavitRows)
      /\ u.source \in Seq(Document) /\ u.review \in Seq(ItemRow) /\ u.affidavit \in Seq(AffidavitRows)
      /\ Len(t.source) \in Nat
  BY Columns
<1>2. /\ Extends(t.source, u.source) /\ Extends(t.review, u.review)
      /\ Extends(t.affidavit, u.affidavit)
  BY DEF Grows
<1>3. \A j \in Ids(t.source) : j \in Ids(u.source) /\ u.source[j] = t.source[j]
  BY <1>1, <1>2, StaysIn
<1>4. Later(u, s) => Later(t, s)
  <2>1. \A j \in 1..(s - 1) : j \in Ids(t.source)
    BY <1>1 DEF Ids
  <2> QED
    BY <1>3, <2>1 DEF Later
<1>5. Reviews(t, s) # {} => Reviews(u, s) # {}
  <2>1. \A r \in Ids(t.review) : r \in Ids(u.review) /\ u.review[r] = t.review[r]
    BY <1>1, <1>2, StaysIn
  <2> QED
    BY <2>1 DEF Reviews
<1>6. (\E i \in Ids(t.affidavit) : t.affidavit[i].source = s)
        => \E i \in Ids(u.affidavit) : u.affidavit[i].source = s
  <2>1. \A i \in Ids(t.affidavit) : i \in Ids(u.affidavit) /\ u.affidavit[i] = t.affidavit[i]
    BY <1>1, <1>2, StaysIn
  <2> QED
    BY <2>1
<1> QED
  BY <1>3, <1>4, <1>5, <1>6 DEF Flagged, Answered

(* The source as get_or_create_source leaves it, single and with the       *)
(* affidavits that refer to it.                                            *)
LEMMA SourcedSound ==
  ASSUME WellTyped, OneSource(tx), Backed(tx), NEW u, u.source = Sourced.source,
         u.affidavit = tx.affidavit
  PROVE  OneSource(u) /\ Backed(u)
<1>1. /\ Sourced \in Stored /\ Grows(tx, Sourced) /\ tx \in Stored
      /\ Ids(Sourced.source) = Ids(tx.source) \cup {SourceId}
      /\ Sourced.source[SourceId].sha = doc.sha
      /\ Same # {} => Sourced = tx
  BY Sourcing DEF WellTyped
<1>2. \A i \in Ids(tx.source) : i \in Ids(Sourced.source) /\ Sourced.source[i] = tx.source[i]
  BY <1>1, AnswersStay
<1>3. OneSource(Sourced)
  <2>1. CASE Same # {}
    BY <1>1, <2>1
  <2>2. CASE Same = {}
    <3>1. \A i \in Ids(tx.source) : tx.source[i].sha # doc.sha
      BY <2>2 DEF Same
    <3> QED
      BY <1>1, <1>2, <3>1 DEF OneSource
  <2> QED
    BY <2>1, <2>2
<1> QED
  BY <1>2, <1>3 DEF OneSource, Backed

(* An unreadable document and one without a candidacy are up for review.   *)
LEMMA ReviewedComplete ==
  ASSUME WellTyped, Complete(tx), NEW type \in {"DOCUMENT", "IDENTITY"}, NEW f \in Labels,
         NEW u, u = Queued(Sourced, Review(SourceId, type, f))
  PROVE  Complete(u) /\ u \in Stored /\ SourceId \in Ids(u.source) /\ u.source[SourceId].sha = doc.sha
<1>1. /\ Sourced \in Stored /\ tx \in Stored /\ SourceId \in Nat
      /\ Ids(Sourced.source) = Ids(tx.source) \cup {SourceId}
      /\ Sourced.source[SourceId].sha = doc.sha /\ Sourced.affidavit = tx.affidavit
  BY Sourcing DEF WellTyped
<1> DEFINE item == Review(SourceId, type, f)
<1>2. item \in ItemRow /\ item.source = SourceId
  BY <1>1, ReviewTyped DEF Review
<1> HIDE DEF item
<1>3. /\ u.source = Sourced.source /\ u.affidavit = Sourced.affidavit
      /\ \E i \in Ids(u.review) : u.review[i] = item
  BY <1>1, <1>2, Queueing DEF item
<1>4. u \in Stored /\ Grows(tx, u)
  BY SourceReviewed
<1>5. OneSource(u) /\ Backed(u)
  BY <1>1, <1>3, SourcedSound DEF Complete
<1>6. ASSUME NEW s \in Ids(u.source) PROVE Answered(u, s)
  <2>1. CASE s \in Ids(tx.source)
    BY <1>1, <1>4, <2>1, AnswersStay DEF Complete
  <2>2. CASE s = SourceId
    <3>1. Reviews(u, s) # {}
      BY <1>2, <1>3, <2>2 DEF Reviews
    <3> QED
      BY <3>1 DEF Answered, Flagged
  <2> QED
    BY <1>1, <1>3, <1>6, <2>1, <2>2
<1> QED
  BY <1>1, <1>3, <1>4, <1>5, <1>6 DEF Complete

(* While the session has added nothing, it is as complete as the database. *)
LEMMA EarlyComplete ==
  ASSUME Kept, Settled, step \in Early
  PROVE  Complete(tx)
BY DEF Kept, Settled

LEMMA QueuedSettled ==
  ASSUME Base, Settled, HandleUnreadable \/ QueueIdentity
  PROVE  Settled'
<1>1. Complete(tx) /\ WellTyped
  BY EarlyComplete DEF Base, HandleUnreadable, QueueIdentity, Early
<1>2. "document_text" \in Labels /\ "candidate_name" \in Labels
  BY DEF Labels
<1>3. Complete(tx')
  BY <1>1, <1>2, ReviewedComplete DEF HandleUnreadable, QueueIdentity
<1>4. db' = db /\ step' = "finish"
  BY DEF HandleUnreadable, QueueIdentity
<1>5. Complete(db)'
  BY <1>4 DEF Settled, Complete, OneSource, Backed, Answered, Flagged, Later, Reviews
<1>6. OneSource(tx)' /\ Backed(tx)' /\ \A s \in Ids(tx'.source) : Flagged(tx, s)' /\ Answered(tx, s)'
  BY <1>3 DEF Complete, OneSource, Backed, Answered, Flagged, Later, Reviews
<1> QED
  BY <1>4, <1>5, <1>6 DEF Settled, Textual, Linked

LEMMA GetSourceSettled ==
  ASSUME Base, Settled, GetSource
  PROVE  Settled'
<1>1. Complete(tx) /\ WellTyped /\ tx \in Stored
  BY EarlyComplete DEF Base, GetSource, Early, WellTyped
<1>2. /\ Sourced \in Stored /\ Grows(tx, Sourced) /\ Sourced.affidavit = tx.affidavit
      /\ Ids(Sourced.source) = Ids(tx.source) \cup {SourceId}
      /\ Sourced.source[SourceId].sha = doc.sha
      /\ Same # {} => Sourced = tx
      /\ Same = {} => SourceId = Len(tx.source) + 1 /\ Sourced.source[SourceId] = doc
  BY <1>1, Sourcing DEF WellTyped
<1>3. step = "source" /\ step' = "affidavit" /\ UNCHANGED <<db, doc>>
  BY DEF GetSource
<1> DEFINE Good(u) ==
      /\ OneSource(u) /\ Backed(u) /\ SourceId \in Ids(u.source) /\ u.source[SourceId].sha = doc.sha
      /\ \A s \in Ids(u.source) : Flagged(u, s) /\ (Answered(u, s) \/ u.source[s].sha = doc.sha)
<1>4. Good(tx')
  <2>1. CASE Same = {} /\ Prior # {}
    <3>1. tx' = Queued(Sourced, Review(SourceId, "DOCUMENT", "content_sha256"))
      BY <2>1 DEF GetSource
    <3>2. /\ Complete(tx') /\ SourceId \in Ids(tx'.source) /\ tx'.source[SourceId].sha = doc.sha
      BY <1>1, <3>1, ReviewedComplete DEF Labels
    <3> QED
      BY <3>2 DEF Complete, Answered
  <2>2. CASE ~(Same = {} /\ Prior # {})
    <3>1. tx' = Sourced
      BY <2>2 DEF GetSource
    <3>2. OneSource(Sourced) /\ Backed(Sourced)
      BY <1>1, <1>2, SourcedSound DEF Complete
    <3>3. \A s \in Ids(tx.source) : Answered(Sourced, s)
      BY <1>1, <1>2, AnswersStay DEF Complete
    <3>4. SourceId \notin Ids(tx.source) => Flagged(Sourced, SourceId)
      <4>1. SUFFICES ASSUME SourceId \notin Ids(tx.source), Later(Sourced, SourceId) PROVE FALSE
        BY DEF Flagged
      <4>2. Same = {}
        BY <1>2, <4>1
      <4>3. PICK j \in 1..(SourceId - 1) : Sourced.source[j].url = Sourced.source[SourceId].url
        BY <4>1 DEF Later
      <4>4. j \in Ids(tx.source) /\ Sourced.source[j].url = doc.url
        <5>1. Len(tx.source) \in Nat
          BY <1>1, Columns
        <5> QED
          BY <1>2, <4>2, <4>3, <5>1 DEF Ids
      <4>5. j \in Prior
        BY <1>1, <1>2, <4>4, AnswersStay DEF Prior
      <4> QED
        BY <2>2, <4>2, <4>5
    <3> QED
      BY <1>2, <3>1, <3>2, <3>3, <3>4 DEF Answered
  <2> QED
    BY <2>1, <2>2
<1>5. OneSource(tx)' /\ Backed(tx)'
  BY <1>4 DEF OneSource, Backed
<1>6. \A s \in Ids(tx'.source) : Flagged(tx, s)' /\ (Answered(tx, s)' \/ tx'.source[s].sha = doc.sha)
  BY <1>4 DEF Answered, Flagged, Later, Reviews
<1>7. Same' # {}
  BY <1>3, <1>4 DEF Same
<1>8. Complete(db)'
  BY <1>3 DEF Settled, Complete, OneSource, Backed, Answered, Flagged, Later, Reviews
<1>9. Extraction[doc'.sha] = "TEXT_EXTRACTED"
  BY <1>3 DEF Settled, Textual, Linked
<1> QED
  BY <1>3, <1>5, <1>6, <1>7, <1>8, <1>9 DEF Settled, Current

(* A known affidavit answers for the bytes that it comes from.             *)
LEMMA KnownSettled ==
  ASSUME Base, Settled, KnownAffidavit
  PROVE  Settled'
<1>1. /\ step = "affidavit" /\ Existing # {} /\ step' = "finish"
      /\ UNCHANGED <<db, tx, doc>>
  BY DEF KnownAffidavit
<1>2. PICK i \in Ids(tx.affidavit) : tx.affidavit[i].sha = doc.sha
  BY <1>1 DEF Existing
<1>3. ASSUME NEW s \in Ids(tx.source) PROVE Answered(tx, s)
  <2>1. Flagged(tx, s) /\ (Answered(tx, s) \/ tx.source[s].sha = doc.sha)
    BY <1>1 DEF Settled, Current
  <2>2. CASE tx.source[s].sha = doc.sha
    <3>1. tx.affidavit[i].source = s
      BY <1>2, <2>2 DEF Settled, Backed, OneSource
    <3> QED
      BY <2>1, <3>1 DEF Answered
  <2> QED
    BY <2>1, <2>2
<1>4. Complete(db)' /\ OneSource(tx)' /\ Backed(tx)'
  BY <1>1 DEF Settled, Complete, OneSource, Backed, Answered, Flagged, Later, Reviews
<1>5. \A s \in Ids(tx'.source) : Flagged(tx, s)' /\ Answered(tx, s)'
  BY <1>1, <1>3 DEF Answered, Flagged, Later, Reviews
<1> QED
  BY <1>1, <1>4, <1>5 DEF Settled, Textual, Linked

(* The new affidavit answers for the document's source.                    *)
LEMMA InsertSettled ==
  ASSUME Base, Settled, InsertAffidavit
  PROVE  Settled'
<1>1. /\ step = "affidavit" /\ step' = "declare" /\ UNCHANGED <<db, doc>>
      /\ WellTyped /\ tx \in Stored
  BY DEF InsertAffidavit, Base, WellTyped
<1>2. /\ tx' \in Stored /\ Grows(tx, tx') /\ tx'.source = tx.source
      /\ tx'.affidavit = Append(tx.affidavit, AffidavitRow)
  BY <1>1, InsertWrites
<1>3. AffidavitRow \in AffidavitRows /\ tx.affidavit \in Seq(AffidavitRows)
  BY <1>1, RowsTyped, Columns
<1>4. /\ Ids(tx'.affidavit) = Ids(tx.affidavit) \cup {Len(tx.affidavit) + 1}
      /\ tx'.affidavit[Len(tx.affidavit) + 1] = AffidavitRow
  BY <1>2, <1>3, Appended
<1>5. \A i \in Ids(tx.affidavit) : tx'.affidavit[i] = tx.affidavit[i]
  BY <1>2, <1>3, AppendProperties DEF Ids
<1>6. AffidavitRow.source = SourceId /\ AffidavitRow.sha = doc.sha
  BY DEF AffidavitRow
<1>7. SourceId \in Ids(tx.source) /\ tx.source[SourceId].sha = doc.sha
  <2>1. SourceId \in Same
    BY <1>1, Sourcing DEF Settled, WellTyped
  <2> QED
    BY <2>1 DEF Same
<1>8. Extraction[doc.sha] = "TEXT_EXTRACTED"
  BY <1>1 DEF Settled, Textual, Linked
<1>9. Backed(tx)'
  BY <1>2, <1>4, <1>5, <1>6, <1>7, <1>8 DEF Settled, Backed
<1>10. ASSUME NEW s \in Ids(tx.source) PROVE Flagged(tx', s) /\ Answered(tx', s)
  <2>1. Flagged(tx, s) /\ (Answered(tx, s) \/ tx.source[s].sha = doc.sha)
    BY <1>1 DEF Settled, Current
  <2>2. Flagged(tx', s) /\ (Answered(tx, s) => Answered(tx', s))
    BY <1>1, <1>2, <2>1, AnswersStay
  <2>3. CASE tx.source[s].sha = doc.sha
    <3>1. s = SourceId
      BY <1>7, <2>3 DEF Settled, OneSource
    <3> QED
      BY <1>4, <1>6, <2>2, <3>1 DEF Answered
  <2> QED
    BY <2>1, <2>2, <2>3
<1>11. \A s \in Ids(tx'.source) : Flagged(tx, s)' /\ Answered(tx, s)'
  BY <1>2, <1>10 DEF Answered, Flagged, Later, Reviews
<1>12. Complete(db)' /\ OneSource(tx)'
  BY <1>1, <1>2 DEF Settled, Complete, OneSource, Backed, Answered, Flagged, Later, Reviews
<1>13. Same' # {}
  BY <1>1, <1>2, <1>7 DEF Same
<1> QED
  BY <1>1, <1>8, <1>9, <1>11, <1>12, <1>13 DEF Settled, Textual, Linked

(* Declarations and the review items they need take no answer away.        *)
LEMMA DeclareSettled ==
  ASSUME Base, Settled, Declare \/ CloseSections
  PROVE  Settled'
<1>1. /\ step = "declare" /\ step' \in {"declare", "finish"} /\ UNCHANGED <<db, doc>>
      /\ WellTyped /\ tx \in Stored
  BY DEF Declare, CloseSections, Base, WellTyped
<1>2. /\ tx' \in Stored /\ Grows(tx, tx') /\ tx'.source = tx.source
      /\ tx'.affidavit = tx.affidavit
  BY <1>1, DeclareWrites, CloseSectionsWrites
<1>3. \A s \in Ids(tx.source) : Flagged(tx, s) /\ Answered(tx, s)
  BY <1>1 DEF Settled, Current
<1>4. \A s \in Ids(tx.source) : Flagged(tx', s) /\ Answered(tx', s)
  BY <1>1, <1>2, <1>3, AnswersStay
<1>5. \A s \in Ids(tx'.source) : Flagged(tx, s)' /\ Answered(tx, s)'
  BY <1>2, <1>4 DEF Answered, Flagged, Later, Reviews
<1>6. Complete(db)'
  BY <1>1 DEF Settled, Complete, OneSource, Backed, Answered, Flagged, Later, Reviews
<1>7. OneSource(tx)' /\ Backed(tx)'
  BY <1>2 DEF Settled, OneSource, Backed
<1>8. Same' # {} /\ Extraction[doc'.sha] = "TEXT_EXTRACTED"
  BY <1>1, <1>2 DEF Same, Settled, Textual, Linked
<1> QED
  BY <1>1, <1>5, <1>6, <1>7, <1>8 DEF Settled

(* What is committed, or left after a rollback, is complete.               *)
LEMMA EndSettled ==
  ASSUME Base, Settled, FinishRun \/ FailRun \/ Crash
  PROVE  Settled'
<1>1. step' = "idle" /\ tx' = db'
  BY DEF FinishRun, FailRun, Crash, Rest
<1>2. db' = db \/ (db' = tx /\ step = "finish")
  BY DEF FinishRun, FailRun, Crash
<1>3. Complete(db')
  BY <1>2 DEF Settled, Complete, Current
<1>4. Complete(db)'
  BY <1>3 DEF Complete, OneSource, Backed, Answered, Flagged, Later, Reviews
<1>5. OneSource(tx)' /\ Backed(tx)' /\ \A s \in Ids(tx'.source) : Flagged(tx, s)' /\ Answered(tx, s)'
  BY <1>1, <1>3 DEF Complete, OneSource, Backed, Answered, Flagged, Later, Reviews
<1> QED
  BY <1>1, <1>4, <1>5 DEF Settled, Textual, Linked

LEMMA ClosesAnswers ==
  ASSUME NEW t \in Stored, NEW u, NEW i \in Ids(t.review), Closes(t, u, i)
  PROVE  /\ u.source = t.source /\ u.affidavit = t.affidavit
         /\ \A s : (Flagged(t, s) => Flagged(u, s)) /\ (Answered(t, s) => Answered(u, s))
<1>1. Ids(u.review) = Ids(t.review)
  BY DEF Closes, Ids
<1>2. t.review[i] \in ItemRow
  BY Columns, ElementOfSeq DEF Ids
<1>3. \A r \in Ids(t.review) : u.review[r].source = t.review[r].source
  <2>1. u.review[i].source = t.review[i].source
    BY <1>2 DEF Closes, ItemRow
  <2> QED
    BY <2>1 DEF Closes
<1>4. \A s : Reviews(u, s) = Reviews(t, s)
  BY <1>1, <1>3 DEF Reviews
<1>5. u.source = t.source /\ u.affidavit = t.affidavit
  BY DEF Closes
<1> QED
  BY <1>4, <1>5 DEF Flagged, Answered, Later

LEMMA CloseReviewSettled ==
  ASSUME Base, Settled, CloseReview
  PROVE  Settled'
<1>1. PICK i \in Ids(db.review) : i \in Ids(tx.review) /\ CloseReviewOf(i)
  BY Reviewer DEF Base, Kept
<1>2. /\ Closes(db, db', i) /\ Closes(tx, tx', i) /\ db \in Stored /\ tx \in Stored
      /\ UNCHANGED <<step, doc>>
  BY <1>1 DEF CloseReviewOf, Base, WellTyped
<1>3. /\ db'.source = db.source /\ db'.affidavit = db.affidavit
      /\ \A s : (Flagged(db, s) => Flagged(db', s)) /\ (Answered(db, s) => Answered(db', s))
  BY <1>1, <1>2, ClosesAnswers
<1>4. /\ tx'.source = tx.source /\ tx'.affidavit = tx.affidavit
      /\ \A s : (Flagged(tx, s) => Flagged(tx', s)) /\ (Answered(tx, s) => Answered(tx', s))
  BY <1>1, <1>2, ClosesAnswers
<1>5. Complete(db')
  BY <1>3 DEF Settled, Complete, OneSource, Backed
<1>6. Complete(db)'
  BY <1>5 DEF Complete, OneSource, Backed, Answered, Flagged, Later, Reviews
<1>7. OneSource(tx)' /\ Backed(tx)'
  BY <1>4 DEF Settled, OneSource, Backed
<1>8. step # "raise" => \A s \in Ids(tx'.source) : Flagged(tx', s) /\ (Answered(tx', s) \/ Current(s))
  BY <1>4 DEF Settled
<1>9. step' # "raise" => \A s \in Ids(tx'.source) : Flagged(tx, s)' /\ (Answered(tx, s)' \/ Current(s)')
  BY <1>2, <1>4, <1>8 DEF Answered, Flagged, Later, Reviews, Current
<1>10. (step' \in Textual => Extraction[doc'.sha] = "TEXT_EXTRACTED")
       /\ (step' \in {"affidavit", "declare"} => Same' # {})
  BY <1>2, <1>4 DEF Settled, Same
<1> QED
  BY <1>6, <1>7, <1>9, <1>10 DEF Settled

(* The other steps leave the tables, and need none of them.                *)
LEMMA OthersSettled ==
  ASSUME Base, Settled, StartRun \/ Fetch \/ FetchUnread \/ LinkStep \/ Fault \/ ResultsArrive \/ UNCHANGED vars
  PROVE  Settled'
<1>1. /\ UNCHANGED <<db, tx>>
      /\ \/ step' = "raise"
         \/ step' = step /\ doc' = doc
         \/ step \in Early /\ step' \in Early /\ doc' = doc
         \/ step \in Early /\ step' \in {"unreadable", "link"}
      /\ step' \in Early \/ step' = step \/ step' \notin Linked
  BY LinkStepIs DEF StartRun, Fetch, FetchUnread, Fault, ResultsArrive, vars, Early, Linked
<1>2. Complete(db)' /\ OneSource(tx)' /\ Backed(tx)'
  BY <1>1 DEF Settled, Complete, OneSource, Backed, Answered, Flagged, Later, Reviews
<1>3. step' # "raise" => \A s \in Ids(tx'.source) : Flagged(tx, s)' /\ (Answered(tx, s)' \/ Current(s)')
  <2>1. step \in Early => \A s \in Ids(tx.source) : Flagged(tx, s) /\ Answered(tx, s)
    BY EarlyComplete DEF Base, Complete, Answered
  <2>2. CASE step' = step /\ doc' = doc
    BY <1>1, <2>2 DEF Settled, Answered, Flagged, Later, Reviews, Current
  <2>3. CASE step \in Early
    BY <1>1, <2>1, <2>3 DEF Answered, Flagged, Later, Reviews
  <2> QED
    BY <1>1, <2>2, <2>3
<1>4. step' \in Textual => Extraction[doc'.sha] = "TEXT_EXTRACTED"
  BY LinkStepIs DEF Settled, StartRun, Fetch, FetchUnread, Fault, ResultsArrive, vars, Linked, Textual
<1>5. step' \in {"affidavit", "declare"} => Same' # {}
  BY LinkStepIs DEF Settled, StartRun, Fetch, FetchUnread, Fault, ResultsArrive, vars, Linked, Same
<1> QED
  BY <1>2, <1>3, <1>4, <1>5 DEF Settled

LEMMA SettledInvariant == Spec => []Settled
<1>1. Init => Settled
  BY DEF Init, Empty, Settled, Complete, OneSource, Backed, Ids, Textual, Linked
<1>2. Base /\ Settled /\ [Next]_vars => Settled'
  <2>1. SUFFICES ASSUME Base, Settled, [Next]_vars PROVE Settled'
    OBVIOUS
  <2> QED
    BY <2>1, QueuedSettled, GetSourceSettled, KnownSettled, InsertSettled, DeclareSettled,
       EndSettled, CloseReviewSettled, OthersSettled DEF Next, Proceed, LinkStep
<1> QED
  BY <1>1, <1>2, BaseInvariant, PTL DEF Spec

(* No document ends in silence: a committed one has an affidavit or is up  *)
(* for review, new bytes of a known URL are up for review whatever became  *)
(* of them, and unreadable bytes yield no affidavit.                       *)
THEOREM NothingDropped == Spec => []NothingIsDropped
<1>1. Settled => NothingIsDropped
  BY DEF Settled, Complete, Answered, Flagged, Later, Backed, NothingIsDropped
<1> QED
  BY <1>1, SettledInvariant, PTL

-----------------------------------------------------------------------------
(* A run linked to a person who already has an affidavit of the document's *)
(* bytes sees the committed tables and writes none of them.                *)
Repeated == \E i \in Ids(db.affidavit) :
  db.affidavit[i].sha = doc.sha /\ db.affidavit[i].person = Reg.candidacy[cur.candidacy].person
Idle ==
  /\ step \in Early \ {"source"} => cur.candidacy = 0
  /\ cur.candidacy # 0 /\ step # "raise" /\ Repeated => tx = db /\ step # "declare"

LEMMA WritingIdle ==
  ASSUME Base, Settled, Idle, Writing
  PROVE  Idle'
<1>1. /\ WellTyped /\ Kept /\ UNCHANGED <<known, db, doc>> /\ cur'.candidacy = cur.candidacy
      /\ step' \notin Early
  BY DEF Writing, HandleUnreadable, QueueIdentity, GetSource, InsertAffidavit, Declare, CloseSections,
         Base, WellTyped, Early
<1>2. Repeated' = Repeated
  BY <1>1 DEF Repeated, Reg
<1>3. SUFFICES ASSUME cur.candidacy # 0, Repeated PROVE tx' = db /\ step' # "declare"
  BY <1>1, <1>2 DEF Idle
<1>4. ~(HandleUnreadable \/ QueueIdentity \/ Declare \/ CloseSections)
  BY <1>3 DEF Idle, HandleUnreadable, QueueIdentity, Declare, CloseSections, Early
<1>5. PICK i \in Ids(db.affidavit) :
        db.affidavit[i].sha = doc.sha /\ db.affidavit[i].person = Reg.candidacy[cur.candidacy].person
  BY <1>3 DEF Repeated
<1>6. CASE GetSource
  <2>1. tx = db /\ step' = "affidavit"
    BY <1>1, <1>6 DEF Kept, GetSource, Early
  <2>2. Same # {}
    BY <1>5, <2>1 DEF Settled, Backed, Same
  <2>3. tx' = tx
    BY <1>6, <2>2 DEF GetSource, Sourced
  <2> QED
    BY <2>1, <2>3
<1>7. ~InsertAffidavit
  <2>1. SUFFICES ASSUME InsertAffidavit PROVE FALSE
    OBVIOUS
  <2>2. tx = db
    BY <1>3, <2>1 DEF Idle, InsertAffidavit
  <2>3. i \in Existing
    BY <1>5, <2>2 DEF Existing
  <2> QED
    BY <2>1, <2>3 DEF InsertAffidavit
<1> QED
  BY <1>4, <1>6, <1>7 DEF Writing

LEMMA ResultsIdle ==
  ASSUME Base, Idle, ResultsArrive
  PROVE  Idle'
<1>1. WellTyped /\ UNCHANGED <<db, tx, step, cur, doc>>
  BY DEF ResultsArrive, Base
<1>2. Registry \in Seq(Candidacies) /\ Len(Registry) \in Nat
  BY RegistryAssumption, LenProperties
<1>3. known \in Ids(Registry) /\ known' \in Ids(Registry) /\ known <= known'
  BY <1>1, <1>2 DEF ResultsArrive, WellTyped, Ids
<1>4. Extends(Reg.candidacy, Reg'.candidacy) /\ Reg \in Candidacies /\ Reg' \in Candidacies
  BY <1>2, <1>3, RegistryAssumption, ElementOfSeq DEF Reg, Ids
<1>5. cur.candidacy # 0 => Reg'.candidacy[cur.candidacy] = Reg.candidacy[cur.candidacy]
  <2> DEFINE CandidacyRow == [person: Nat, election: Nat]
  <2>1. Reg.candidacy \in Seq(CandidacyRow) /\ Reg'.candidacy \in Seq(CandidacyRow)
    BY <1>4 DEF Candidacies
  <2>2. cur.candidacy # 0 => cur.candidacy \in Ids(Reg.candidacy)
    BY <1>1 DEF WellTyped
  <2> HIDE DEF CandidacyRow
  <2> QED
    BY <1>4, <2>1, <2>2, StaysIn
<1>6. cur.candidacy # 0 => Repeated' = Repeated
  BY <1>1, <1>5 DEF Repeated
<1> QED
  BY <1>1, <1>6 DEF Idle

LEMMA CloseReviewIdle ==
  ASSUME Base, Idle, CloseReview
  PROVE  Idle'
<1>1. PICK i \in Ids(db.review) : i \in Ids(tx.review) /\ CloseReviewOf(i)
  BY Reviewer DEF Base, Kept
<1>2. db'.affidavit = db.affidavit /\ UNCHANGED <<known, step, cur, doc>>
  BY <1>1 DEF CloseReviewOf, Closes
<1>3. tx = db => tx' = db'
  BY DEF CloseReview
<1>4. Repeated' = Repeated
  BY <1>2 DEF Repeated, Reg
<1> QED
  BY <1>2, <1>3, <1>4 DEF Idle

LEMMA OthersIdle ==
  ASSUME Base, Idle, StartRun \/ Fetch \/ FetchUnread \/ LinkStep \/ KnownAffidavit \/ Fault
                       \/ FinishRun \/ FailRun \/ Crash \/ UNCHANGED vars
  PROVE  Idle'
<1>1. CASE StartRun \/ Fetch \/ FetchUnread
  BY <1>1 DEF StartRun, Fetch, FetchUnread, Idle, Early
<1>2. CASE LinkStep
  <2>1. tx' = db' /\ step' \in Early /\ cur.candidacy = 0
    BY <1>2, LinkStepIs DEF Base, Kept, Idle, Early
  <2>2. step' # "source" => cur'.candidacy = 0
    BY <1>2, <2>1, LinkStepTyped DEF Base
  <2> QED
    BY <2>1, <2>2 DEF Idle, Early
<1>3. CASE KnownAffidavit \/ Fault \/ UNCHANGED vars
  <2>1. /\ UNCHANGED <<known, db, tx, cur, doc>>
        /\ step' \in {"finish", "raise"} /\ (step' = "finish" => step = "affidavit" \/ step = "finish")
        \/ UNCHANGED vars
    BY <1>3 DEF KnownAffidavit, Fault
  <2>2. Repeated' = Repeated
    BY <2>1 DEF Repeated, Reg, vars
  <2> QED
    BY <2>1, <2>2 DEF Idle, Early, vars
<1>4. CASE FinishRun \/ FailRun \/ Crash
  <2>1. cur'.candidacy = 0
    BY <1>4, RestTyped DEF FinishRun, FailRun, Crash
  <2> QED
    BY <2>1 DEF Idle
<1> QED
  BY <1>1, <1>2, <1>3, <1>4

LEMMA IdleInvariant == Spec => []Idle
<1>1. Init => Idle
  BY DEF Init, Idle, Fresh
<1>2. Base /\ Settled /\ Idle /\ [Next]_vars => Idle'
  <2>1. SUFFICES ASSUME Base, Settled, Idle, [Next]_vars PROVE Idle'
    OBVIOUS
  <2> QED
    BY <2>1, WritingIdle, ResultsIdle, CloseReviewIdle, OthersIdle DEF Next, Proceed, Writing, LinkStep
<1> QED
  BY <1>1, <1>2, BaseInvariant, SettledInvariant, PTL DEF Spec

(* Bytes that already gave the person they lead to an affidavit change no  *)
(* table when they are imported again, whatever happened in between.       *)
THEOREM Reimport == Spec => ReimportIsNoOp
<1> DEFINE Step ==
      \A i \in Ids(db.affidavit) :
        /\ FinishRun /\ cur.candidacy # 0
        /\ db.affidavit[i].sha = doc.sha
        /\ db.affidavit[i].person = Reg.candidacy[cur.candidacy].person
        => db' = db
<1>1. Idle /\ [Next]_vars => Step
  <2>1. SUFFICES ASSUME Idle, FinishRun, cur.candidacy # 0, Repeated PROVE db' = db
    BY DEF Repeated
  <2> QED
    BY <2>1 DEF Idle, FinishRun
<1> QED
  BY <1>1, IdleInvariant, PTL DEF Spec, ReimportIsNoOp

-----------------------------------------------------------------------------
(* What a committed affidavit is stored with: its declarations follow one  *)
(* another as the form has them, and what could not be read is asked for.  *)
Asked(t, s, f) == \E r \in Ids(t.review) : t.review[r].source = s /\ t.review[r].field = f
Rows(t, i)     == {n \in Ids(t.declaration) : t.declaration[n].affidavit = i}
Bears(t, i, row, item) ==
  /\ row.field = item.field /\ row.raw = item.amount /\ row.status = Status(item)
  /\ Status(item) \in Reviewable => Asked(t, t.affidavit[i].source, item.field)
Stretch(t, i, items, o, l) ==
  /\ o + l <= Len(t.declaration) /\ Rows(t, i) = (o + 1)..(o + l)
  /\ \A n \in 1..l : Bears(t, i, t.declaration[o + n], items[n])
Full(t, i) ==
  LET form == Form[t.affidavit[i].sha] IN
  /\ \E o \in Nat : Stretch(t, i, form.items, o, Len(form.items))
  /\ form.cases = "NEEDS_REVIEW" => Asked(t, t.affidavit[i].source, "criminal_cases")
  /\ t.affidavit[i].outcome = Outcome(form)
Owned(t) == \A n \in Ids(t.declaration) : t.declaration[n].affidavit \in Ids(t.affidavit)
Once(t)  == \A i, j \in Ids(t.affidavit) :
  t.affidavit[i].person = t.affidavit[j].person /\ t.affidavit[i].sha = t.affidavit[j].sha => i = j
Entire(t) == Owned(t) /\ Once(t) /\ \A i \in Ids(t.affidavit) : Full(t, i)

(* The tables while the declarations of affidavit k are written: l of them *)
(* are there, and every other affidavit is complete.                       *)
Begun(t, k, form, s, l) ==
  /\ Owned(t) /\ Once(t) /\ k \in Ids(t.affidavit)
  /\ Form[t.affidavit[k].sha] = form /\ t.affidavit[k].source = s
  /\ t.affidavit[k].outcome = Outcome(form)
  /\ l \in Nat /\ l <= Len(form.items)
  /\ \E o \in Nat : o + l = Len(t.declaration) /\ Stretch(t, k, form.items, o, l)
  /\ \A i \in Ids(t.affidavit) : i # k => Full(t, i)

Whole ==
  /\ Entire(db)
  /\ step \notin {"raise", "declare"} => Entire(tx)
  /\ step = "declare" => Begun(tx, cur.affidavit, F, SourceId, cur.item - 1)
  /\ step \in Early \cup {"affidavit"} => cur.item = 1

LEMMA Statuses ==
  ASSUME NEW item
  PROVE  Status(item) \in Reviewable <=> Status(item) = "PARSE_FAILED"
<1>1. ParseAmount(item.amount).status
        \in {"MISSING", "NOT_APPLICABLE", "ZERO", "PARSE_FAILED", "EXACT", "NORMALIZED"}
  BY DEF ParseAmount, Amount
<1> HIDE DEF ParseAmount
<1>2. Status(item) \in {"MISSING", "PARSE_FAILED", "EXACT", "NORMALIZED"}
  BY <1>1 DEF Status, FieldStatus
<1> QED
  BY <1>2 DEF Reviewable

(* Tables that lose none of the rows and questions of t.                   *)
Carries(t, u) ==
  /\ Extends(t.affidavit, u.affidavit) /\ Extends(t.declaration, u.declaration)
  /\ \A s, f : Asked(t, s, f) => Asked(u, s, f)

LEMMA GrowsCarries ==
  ASSUME NEW t \in Stored, NEW u \in Stored, Grows(t, u)
  PROVE  Carries(t, u)
<1>1. Len(t.review) \in Nat /\ Len(u.review) \in Nat
  BY Columns
<1>2. \A r \in Ids(t.review) : r \in Ids(u.review) /\ u.review[r] = t.review[r]
  BY <1>1 DEF Grows, Extends, Ids
<1> QED
  BY <1>2 DEF Carries, Grows, Asked

LEMMA ClosesCarries ==
  ASSUME NEW t \in Stored, NEW u, NEW i \in Ids(t.review), Closes(t, u, i)
  PROVE  Carries(t, u) /\ u.affidavit = t.affidavit /\ u.declaration = t.declaration
<1>1. Ids(u.review) = Ids(t.review)
  BY DEF Closes, Ids
<1>2. t.review[i] \in ItemRow
  BY Columns, ElementOfSeq DEF Ids
<1>3. \A r \in Ids(t.review) : u.review[r].source = t.review[r].source /\ u.review[r].field = t.review[r].field
  <2>1. u.review[i].source = t.review[i].source /\ u.review[i].field = t.review[i].field
    BY <1>2 DEF Closes, ItemRow
  <2> QED
    BY <2>1 DEF Closes
<1>4. u.affidavit = t.affidavit /\ u.declaration = t.declaration
  BY DEF Closes
<1>5. Extends(t.affidavit, u.affidavit) /\ Extends(t.declaration, u.declaration)
  BY <1>4, Columns, ExtendsItself
<1> QED
  BY <1>1, <1>3, <1>4, <1>5 DEF Carries, Asked

(* The block of an affidavit whose rows are the same ones stays.           *)
LEMMA StretchStays ==
  ASSUME NEW t \in Stored, NEW u \in Stored, Carries(t, u), NEW i \in Ids(t.affidavit),
         Rows(u, i) = Rows(t, i), NEW items, NEW o \in Nat, NEW l \in Nat, Stretch(t, i, items, o, l)
  PROVE  Stretch(u, i, items, o, l) /\ i \in Ids(u.affidavit) /\ u.affidavit[i] = t.affidavit[i]
<1>1. /\ Len(t.declaration) \in Nat /\ Len(u.declaration) \in Nat
      /\ Len(t.affidavit) \in Nat /\ Len(u.affidavit) \in Nat
  BY Columns
<1>2. i \in Ids(u.affidavit) /\ u.affidavit[i] = t.affidavit[i]
  BY <1>1 DEF Carries, Extends, Ids
<1>3. o + l <= Len(u.declaration)
  BY <1>1 DEF Stretch, Carries, Extends
<1>4. ASSUME NEW n \in 1..l PROVE Bears(u, i, u.declaration[o + n], items[n])
  <2>1. o + n \in Ids(t.declaration)
    BY <1>1 DEF Stretch, Ids
  <2>2. u.declaration[o + n] = t.declaration[o + n]
    BY <2>1 DEF Carries, Extends
  <2>3. Bears(t, i, t.declaration[o + n], items[n])
    BY DEF Stretch
  <2> QED
    BY <1>2, <2>2, <2>3 DEF Bears, Carries
<1> QED
  BY <1>2, <1>3, <1>4 DEF Stretch

LEMMA FullStays ==
  ASSUME NEW t \in Stored, NEW u \in Stored, Carries(t, u), NEW i \in Ids(t.affidavit),
         Rows(u, i) = Rows(t, i), Full(t, i)
  PROVE  Full(u, i)
<1> DEFINE form == Form[t.affidavit[i].sha]
<1>1. t.affidavit[i] \in AffidavitRows
  BY Columns, ElementOfSeq DEF Ids
<1>2. form.items \in Seq(Item)
  BY <1>1, FormAssumption DEF AffidavitRows, Affidavit
<1>3. Len(form.items) \in Nat
  BY <1>2, LenProperties
<1>4. PICK o \in Nat : Stretch(t, i, form.items, o, Len(form.items))
  BY DEF Full
<1> HIDE DEF form
<1>5. Stretch(u, i, form.items, o, Len(form.items)) /\ u.affidavit[i] = t.affidavit[i]
  BY <1>3, <1>4, StretchStays
<1> QED
  BY <1>5 DEF form, Full, Carries

LEMMA EntireStays ==
  ASSUME NEW t \in Stored, NEW u \in Stored, Carries(t, u), Entire(t),
         u.affidavit = t.affidavit, u.declaration = t.declaration
  PROVE  Entire(u)
<1>1. \A i : Rows(u, i) = Rows(t, i)
  BY DEF Rows
<1>2. \A i \in Ids(u.affidavit) : Full(u, i)
  BY <1>1, FullStays DEF Entire
<1> QED
  BY <1>2 DEF Entire, Owned, Once

(* Documents that are put up for review, or have their source recorded,    *)
(* leave the affidavits and declarations alone.                            *)
LEMMA SourceReviewedAlone ==
  ASSUME WellTyped, NEW type \in {"DOCUMENT", "IDENTITY"}, NEW f \in Labels
  PROVE  /\ Queued(Sourced, Review(SourceId, type, f)).affidavit = tx.affidavit
         /\ Queued(Sourced, Review(SourceId, type, f)).declaration = tx.declaration
<1>1. /\ Sourced \in Stored /\ Sourced.affidavit = tx.affidavit
      /\ Sourced.declaration = tx.declaration /\ SourceId \in Nat
  BY Sourcing DEF WellTyped
<1>2. Review(SourceId, type, f) \in ItemRow
  BY <1>1, ReviewTyped
<1> QED
  BY <1>1, <1>2, Queueing

LEMMA SourceWhole ==
  ASSUME Base, Whole, HandleUnreadable \/ QueueIdentity \/ GetSource
  PROVE  Whole'
<1>1. /\ WellTyped /\ tx \in Stored /\ UNCHANGED <<db, cur>>
      /\ step \in Early /\ step' \in {"finish", "affidavit"}
  BY DEF HandleUnreadable, QueueIdentity, GetSource, Base, WellTyped, Early
<1>2. tx' \in Stored /\ Grows(tx, tx')
  BY <1>1, WritesGrow DEF Writing
<1>3. /\ "document_text" \in Labels /\ "candidate_name" \in Labels /\ "content_sha256" \in Labels
  BY DEF Labels
<1>4. tx'.affidavit = tx.affidavit /\ tx'.declaration = tx.declaration
  <2>1. CASE HandleUnreadable \/ QueueIdentity
    BY <1>1, <1>3, <2>1, SourceReviewedAlone DEF HandleUnreadable, QueueIdentity
  <2>2. CASE GetSource
    <3>1. tx' = Sourced \/ tx' = Queued(Sourced, Review(SourceId, "DOCUMENT", "content_sha256"))
      BY <2>2 DEF GetSource
    <3> QED
      BY <1>1, <1>3, <3>1, SourceReviewedAlone, Sourcing DEF WellTyped
  <2> QED
    BY <2>1, <2>2
<1>5. Entire(tx)
  BY <1>1 DEF Whole, Early
<1>6. Entire(tx')
  BY <1>1, <1>2, <1>4, <1>5, GrowsCarries, EntireStays
<1>7. Entire(db')
  BY <1>1 DEF Whole
<1> QED
  BY <1>1, <1>6, <1>7 DEF Whole, Early

(* The new affidavit has no declarations yet.                              *)
LEMMA InsertWhole ==
  ASSUME Base, Whole, InsertAffidavit
  PROVE  Whole'
<1> DEFINE k == Len(tx.affidavit) + 1
<1>1. /\ WellTyped /\ tx \in Stored /\ UNCHANGED <<db, doc>> /\ step = "affidavit" /\ step' = "declare"
      /\ cur.item = 1 /\ cur'.item = 1 /\ cur'.affidavit = k /\ Entire(tx) /\ Existing = {}
  BY DEF InsertAffidavit, Base, WellTyped, Whole
<1>2. /\ tx' \in Stored /\ Grows(tx, tx') /\ tx'.affidavit = Append(tx.affidavit, AffidavitRow)
      /\ tx'.source = tx.source /\ tx'.declaration = tx.declaration /\ tx'.review = tx.review
  BY <1>1, InsertWrites
<1>3. AffidavitRow \in AffidavitRows /\ tx.affidavit \in Seq(AffidavitRows) /\ Len(tx.affidavit) \in Nat
  BY <1>1, RowsTyped, Columns
<1>4. /\ Ids(tx'.affidavit) = Ids(tx.affidavit) \cup {k} /\ tx'.affidavit[k] = AffidavitRow
  BY <1>2, <1>3, Appended
<1>5. \A i \in Ids(tx.affidavit) : tx'.affidavit[i] = tx.affidavit[i]
  BY <1>2, <1>3, AppendProperties DEF Ids
<1>6. k \notin Ids(tx.affidavit)
  BY <1>3 DEF Ids
<1>7. SourceId' = SourceId /\ F' = F
  BY <1>1, <1>2 DEF SourceId, Same, F
<1>8. /\ AffidavitRow.sha = doc.sha /\ AffidavitRow.source = SourceId /\ AffidavitRow.outcome = Outcome(F)
      /\ AffidavitRow.person = Reg.candidacy[cur.candidacy].person
  BY DEF AffidavitRow
<1>9. Len(tx.declaration) \in Nat /\ Len(F.items) \in Nat
  BY <1>1, Columns, FormTyped DEF WellTyped
<1> HIDE DEF k
<1>10. Owned(tx')
  BY <1>1, <1>2, <1>4 DEF Owned, Entire
<1>11. Once(tx')
  <2>1. \A i \in Ids(tx.affidavit) :
          ~(tx.affidavit[i].person = AffidavitRow.person /\ tx.affidavit[i].sha = AffidavitRow.sha)
    BY <1>1, <1>8 DEF Existing
  <2> QED
    BY <1>1, <1>4, <1>5, <2>1 DEF Once, Entire
<1>12. \A i \in Ids(tx'.affidavit) : i # k => Full(tx', i)
  <2>1. \A i : Rows(tx', i) = Rows(tx, i)
    BY <1>2 DEF Rows
  <2> QED
    BY <1>1, <1>2, <1>4, <2>1, GrowsCarries, FullStays DEF Entire
<1>13. Stretch(tx', k, F.items, Len(tx.declaration), 0)
  <2>1. Rows(tx', k) = {}
    BY <1>1, <1>2, <1>6 DEF Rows, Owned, Entire
  <2> QED
    BY <1>2, <1>9, <2>1 DEF Stretch
<1>14. \E o \in Nat : o + 0 = Len(tx'.declaration) /\ Stretch(tx', k, F.items, o, 0)
  BY <1>2, <1>9, <1>13
<1>15. Form[tx'.affidavit[k].sha] = F /\ tx'.affidavit[k].source = SourceId /\ tx'.affidavit[k].outcome = Outcome(F)
  BY <1>4, <1>8 DEF F
<1>16. Begun(tx', k, F, SourceId, 0)
  BY <1>4, <1>9, <1>10, <1>11, <1>12, <1>14, <1>15 DEF Begun
<1>17. Begun(tx', cur'.affidavit, F', SourceId', cur'.item - 1)
  BY <1>1, <1>7, <1>16
<1>18. Entire(db')
  BY <1>1 DEF Whole
<1> QED
  BY <1>1, <1>17, <1>18 DEF Whole, Early

(* What a declaration writes into the other tables.                        *)
LEMMA DeclareRows ==
  ASSUME WellTyped, Declare, NEW item, item = F.items[cur.item]
  PROVE  /\ tx'.affidavit = tx.affidavit /\ tx'.source = tx.source
         /\ tx'.declaration = Append(tx.declaration, DeclarationRow(item))
         /\ DeclarationRow(item) \in DeclRow
         /\ Status(item) \in Reviewable => Asked(tx', SourceId, item.field)
<1> DEFINE t == [tx EXCEPT !.declaration = Append(@, DeclarationRow(item))]
<1>1. item \in Item
  <2>1. cur.item \in 1..Len(F.items) /\ F.items \in Seq(Item)
    BY FormTyped DEF WellTyped, Declare
  <2> QED
    BY <2>1, ElementOfSeq
<1>2. DeclarationRow(item) \in DeclRow /\ tx \in Stored
  BY <1>1, RowsTyped DEF WellTyped
<1>3. Append(tx.declaration, DeclarationRow(item)) \in Seq(DeclRow)
  BY <1>2, Columns, Appended
<1>4. /\ t \in Stored /\ t.declaration = Append(tx.declaration, DeclarationRow(item))
      /\ t.affidavit = tx.affidavit /\ t.source = tx.source
  BY <1>2, <1>3 DEF Stored
<1>5. tx' = IF Status(item) \in Reviewable THEN Queued(t, Review(SourceId, "FIELD", item.field)) ELSE t
  BY DEF Declare
<1> HIDE DEF t
<1>6. CASE Status(item) \notin Reviewable
  BY <1>2, <1>4, <1>5, <1>6
<1>7. CASE Status(item) \in Reviewable
  <2> DEFINE r == Review(SourceId, "FIELD", item.field)
  <2>1. r \in ItemRow /\ r.source = SourceId /\ r.field = item.field
    <3>1. item.field \in Labels /\ SourceId \in Nat
      BY <1>1, <1>7, RowsTyped, Sourcing DEF WellTyped
    <3> QED
      BY <3>1, ReviewTyped DEF Review
  <2>2. tx' = Queued(t, r)
    BY <1>5, <1>7
  <2> HIDE DEF r
  <2>3. /\ tx'.affidavit = t.affidavit /\ tx'.declaration = t.declaration /\ tx'.source = t.source
        /\ \E i \in Ids(tx'.review) : tx'.review[i] = r
    BY <1>4, <2>1, <2>2, Queueing
  <2> QED
    BY <1>2, <1>4, <2>1, <2>3 DEF Asked
<1> QED
  BY <1>6, <1>7

LEMMA RangeGrows ==
  \A o, l \in Nat :
    /\ (o + l) + 1 = o + (l + 1) /\ o + (l + 1) \in Nat
    /\ (o + 1)..(o + l) \cup {o + (l + 1)} = (o + 1)..(o + (l + 1))
OBVIOUS

(* A row of affidavit k at the end makes its block longer by one, and      *)
(* leaves the blocks of the others.                                        *)
LEMMA StretchGrows ==
  ASSUME NEW t \in Stored, NEW u \in Stored, Carries(t, u), u.affidavit = t.affidavit,
         NEW k \in Ids(t.affidavit), NEW row \in DeclRow, row.affidavit = k,
         u.declaration = Append(t.declaration, row),
         NEW items, NEW l \in Nat, NEW o \in Nat, o + l = Len(t.declaration),
         Stretch(t, k, items, o, l), Bears(u, k, row, items[l + 1])
  PROVE  /\ Stretch(u, k, items, o, l + 1) /\ o + (l + 1) = Len(u.declaration)
         /\ \A i : i # k => Rows(u, i) = Rows(t, i)
<1> DEFINE e == Len(t.declaration) + 1
<1>1. t.declaration \in Seq(DeclRow) /\ Len(t.declaration) \in Nat
  BY Columns
<1>2. Ids(u.declaration) = Ids(t.declaration) \cup {e} /\ u.declaration[e] = row
  BY <1>1, Appended
<1>3. \A n \in Ids(t.declaration) : u.declaration[n] = t.declaration[n]
  BY <1>1, AppendProperties DEF Ids
<1>4. Len(u.declaration) = e
  BY <1>1, AppendProperties
<1>5. e = o + (l + 1)
  BY RangeGrows
<1> HIDE DEF e
<1>6. Rows(u, k) = Rows(t, k) \cup {e}
  BY <1>2, <1>3 DEF Rows
<1>7. \A i : i # k => Rows(u, i) = Rows(t, i)
  BY <1>2, <1>3 DEF Rows
<1>8. Rows(u, k) = (o + 1)..(o + (l + 1))
  <2>1. Rows(t, k) = (o + 1)..(o + l)
    BY DEF Stretch
  <2>2. (o + 1)..(o + l) \cup {o + (l + 1)} = (o + 1)..(o + (l + 1))
    BY RangeGrows
  <2> QED
    BY <1>5, <1>6, <2>1, <2>2
<1>9. ASSUME NEW n \in 1..(l + 1) PROVE Bears(u, k, u.declaration[o + n], items[n])
  <2>1. CASE n = l + 1
    BY <1>2, <1>5, <2>1
  <2>2. CASE n # l + 1
    <3>1. n \in 1..l
      BY <2>2
    <3>2. o + n \in Ids(t.declaration)
      BY <1>1, <3>1 DEF Ids
    <3>3. Bears(t, k, t.declaration[o + n], items[n])
      BY <3>1 DEF Stretch
    <3> QED
      BY <1>3, <3>2, <3>3 DEF Bears, Carries
  <2> QED
    BY <2>1, <2>2
<1>10. o + (l + 1) <= Len(u.declaration)
  BY <1>4, <1>5, RangeGrows
<1>11. Stretch(u, k, items, o, l + 1)
  BY <1>8, <1>9, <1>10 DEF Stretch
<1> QED
  BY <1>4, <1>5, <1>7, <1>11

LEMMA DeclareWhole ==
  ASSUME Base, Whole, Declare
  PROVE  Whole'
<1> DEFINE k == cur.affidavit
<1> DEFINE l == cur.item - 1
<1> DEFINE item == F.items[cur.item]
<1> DEFINE row == DeclarationRow(item)
<1>1. /\ WellTyped /\ tx \in Stored /\ UNCHANGED <<db, doc, step>> /\ step = "declare"
      /\ cur.item \in Nat \ {0} /\ cur.item <= Len(F.items) /\ Begun(tx, k, F, SourceId, l)
      /\ cur'.affidavit = k /\ cur'.item = cur.item + 1
  BY DEF Declare, Base, WellTyped, Whole
<1>2. tx' \in Stored /\ Grows(tx, tx')
  BY <1>1, DeclareWrites
<1>3. Carries(tx, tx')
  BY <1>1, <1>2, GrowsCarries
<1>4. /\ tx'.affidavit = tx.affidavit /\ tx'.source = tx.source
      /\ tx'.declaration = Append(tx.declaration, row) /\ row \in DeclRow
      /\ Status(item) \in Reviewable => Asked(tx', SourceId, item.field)
  BY <1>1, DeclareRows
<1>5. SourceId' = SourceId /\ F' = F
  BY <1>1, <1>4 DEF SourceId, Same, F
<1>6. row.affidavit = k /\ row.field = item.field /\ row.raw = item.amount /\ row.status = Status(item)
  BY DEF DeclarationRow
<1>7. k \in Ids(tx.affidavit) /\ tx.affidavit[k].source = SourceId /\ l \in Nat /\ l + 1 = cur.item
  BY <1>1 DEF Begun
<1>8. Bears(tx', k, row, F.items[l + 1])
  BY <1>4, <1>6, <1>7 DEF Bears
<1>9. PICK o \in Nat : o + l = Len(tx.declaration) /\ Stretch(tx, k, F.items, o, l)
  BY <1>1 DEF Begun
<1>10. Owned(tx')
  <2>1. Ids(tx'.declaration) = Ids(tx.declaration) \cup {Len(tx.declaration) + 1}
        /\ tx'.declaration[Len(tx.declaration) + 1] = row
    BY <1>1, <1>4, Columns, Appended
  <2>2. \A n \in Ids(tx.declaration) : tx'.declaration[n] = tx.declaration[n]
    BY <1>1, <1>4, Columns, AppendProperties DEF Ids
  <2> QED
    BY <1>1, <1>4, <1>6, <1>7, <2>1, <2>2 DEF Owned, Begun
<1>11. F \in Affidavit /\ Len(F.items) \in Nat
  BY <1>1, FormTyped DEF WellTyped
<1> HIDE DEF k, row, l, item
<1>12. /\ Stretch(tx', k, F.items, o, l + 1) /\ o + (l + 1) = Len(tx'.declaration)
       /\ \A i : i # k => Rows(tx', i) = Rows(tx, i)
  BY <1>1, <1>2, <1>3, <1>4, <1>6, <1>7, <1>8, <1>9, StretchGrows
<1>13. \A i \in Ids(tx'.affidavit) : i # k => Full(tx', i)
  BY <1>1, <1>2, <1>3, <1>4, <1>12, FullStays DEF Begun
<1>14. Begun(tx', k, F, SourceId, l + 1)
  BY <1>1, <1>4, <1>7, <1>10, <1>12, <1>13 DEF Begun, Once
<1>15. cur'.item - 1 = l + 1
  BY <1>1 DEF l
<1>16. Begun(tx', cur'.affidavit, F', SourceId', cur'.item - 1)
  BY <1>1, <1>5, <1>14, <1>15
<1>17. Entire(db')
  BY <1>1 DEF Whole
<1> QED
  BY <1>1, <1>16, <1>17 DEF Whole, Early

(* With the last of them there, the affidavit is complete.                 *)
LEMMA CloseSectionsWhole ==
  ASSUME Base, Whole, CloseSections
  PROVE  Whole'
<1> DEFINE k == cur.affidavit
<1> DEFINE r == Review(SourceId, "FIELD", "criminal_cases")
<1>1. /\ WellTyped /\ tx \in Stored /\ db' = db /\ step = "declare" /\ step' = "finish"
      /\ cur.item \in Nat \ {0} /\ cur.item > Len(F.items)
      /\ Begun(tx, k, F, SourceId, cur.item - 1)
      /\ tx' = IF F.cases = "NEEDS_REVIEW" THEN Queued(tx, r) ELSE tx
  BY DEF CloseSections, Base, WellTyped, Whole
<1>2. Len(F.items) \in Nat
  BY <1>1, FormTyped DEF WellTyped
<1>3. cur.item - 1 = Len(F.items)
  BY <1>1, <1>2 DEF Begun
<1>4. tx' \in Stored /\ Grows(tx, tx')
  BY <1>1, CloseSectionsWrites
<1>5. Carries(tx, tx')
  BY <1>1, <1>4, GrowsCarries
<1>6. r \in ItemRow /\ r.source = SourceId /\ r.field = "criminal_cases"
  BY <1>1, ReviewTyped, Sourcing DEF WellTyped, Labels, Review
<1> HIDE DEF r
<1>7. tx'.affidavit = tx.affidavit /\ tx'.declaration = tx.declaration
  BY <1>1, <1>6, Queueing
<1>8. F.cases = "NEEDS_REVIEW" => Asked(tx', SourceId, "criminal_cases")
  BY <1>1, <1>6, Queueing DEF Asked
<1>9. \A i : Rows(tx', i) = Rows(tx, i)
  BY <1>7 DEF Rows
<1>10. PICK o \in Nat : Stretch(tx, k, F.items, o, Len(F.items))
  BY <1>1, <1>3 DEF Begun
<1>11. /\ k \in Ids(tx.affidavit) /\ Form[tx.affidavit[k].sha] = F
       /\ tx.affidavit[k].source = SourceId /\ tx.affidavit[k].outcome = Outcome(F)
  BY <1>1 DEF Begun
<1> HIDE DEF k
<1>12. Stretch(tx', k, F.items, o, Len(F.items))
  BY <1>1, <1>2, <1>4, <1>5, <1>9, <1>10, <1>11, StretchStays
<1>13. Full(tx', k)
  BY <1>7, <1>8, <1>11, <1>12 DEF Full
<1>14. \A i \in Ids(tx.affidavit) : i # k => Full(tx', i)
  BY <1>1, <1>4, <1>5, <1>9, FullStays DEF Begun
<1>15. Entire(tx')
  BY <1>1, <1>7, <1>13, <1>14 DEF Entire, Begun, Owned, Once
<1>16. Entire(db')
  BY <1>1 DEF Whole
<1> QED
  BY <1>1, <1>15, <1>16 DEF Whole, Early

LEMMA KnownWhole ==
  ASSUME Base, Whole, KnownAffidavit
  PROVE  Whole'
<1>1. UNCHANGED <<db, tx, cur>> /\ step = "affidavit" /\ step' = "finish"
  BY DEF KnownAffidavit
<1>2. Entire(tx') /\ Entire(db')
  BY <1>1 DEF Whole
<1> QED
  BY <1>1, <1>2 DEF Whole, Early

LEMMA EndWhole ==
  ASSUME Base, Whole, FinishRun \/ FailRun \/ Crash
  PROVE  Whole'
<1>1. step' = "idle" /\ cur'.item = 1 /\ tx' = db'
  BY DEF FinishRun, FailRun, Crash, Rest, Fresh
<1>2. db' = db \/ (db' = tx /\ step = "finish")
  BY DEF FinishRun, FailRun, Crash
<1>3. Entire(db')
  BY <1>2 DEF Whole
<1> QED
  BY <1>1, <1>3 DEF Whole

(* A reviewer takes no question back.                                      *)
LEMMA CloseReviewWhole ==
  ASSUME Base, Whole, CloseReview
  PROVE  Whole'
<1>1. PICK i \in Ids(db.review) : i \in Ids(tx.review) /\ CloseReviewOf(i)
  BY Reviewer DEF Base, Kept
<1>2. /\ Closes(db, db', i) /\ Closes(tx, tx', i) /\ db \in Stored /\ tx \in Stored
      /\ UNCHANGED <<step, doc, cur>>
  BY <1>1 DEF CloseReviewOf, Base, WellTyped
<1>3. db' \in Stored /\ tx' \in Stored /\ tx'.source = tx.source
  BY <1>2 DEF Closes
<1>4. Carries(db, db') /\ db'.affidavit = db.affidavit /\ db'.declaration = db.declaration
  BY <1>1, <1>2, ClosesCarries
<1>5. Carries(tx, tx') /\ tx'.affidavit = tx.affidavit /\ tx'.declaration = tx.declaration
  BY <1>1, <1>2, ClosesCarries
<1>6. Entire(db')
  BY <1>2, <1>3, <1>4, EntireStays DEF Whole
<1>7. ASSUME step \notin {"raise", "declare"} PROVE Entire(tx')
  BY <1>2, <1>3, <1>5, <1>7, EntireStays DEF Whole
<1>8. SourceId' = SourceId /\ F' = F
  BY <1>2, <1>3 DEF SourceId, Same, F
<1>9. ASSUME step = "declare" PROVE Begun(tx', cur'.affidavit, F', SourceId', cur'.item - 1)
  <2> DEFINE k == cur.affidavit
  <2> DEFINE l == cur.item - 1
  <2>1. Begun(tx, k, F, SourceId, l)
    BY <1>9 DEF Whole
  <2>2. \A j : Rows(tx', j) = Rows(tx, j)
    BY <1>5 DEF Rows
  <2>3. k' = k /\ l' = l
    BY <1>2
  <2> HIDE DEF k, l
  <2>4. PICK o \in Nat : o + l = Len(tx.declaration) /\ Stretch(tx, k, F.items, o, l)
    BY <2>1 DEF Begun
  <2>5. k \in Ids(tx.affidavit) /\ l \in Nat
    BY <2>1 DEF Begun
  <2>6. Stretch(tx', k, F.items, o, l)
    BY <1>2, <1>3, <1>5, <2>2, <2>4, <2>5, StretchStays
  <2>7. \A j \in Ids(tx.affidavit) : j # k => Full(tx', j)
    BY <1>2, <1>3, <1>5, <2>1, <2>2, FullStays DEF Begun
  <2>8. Begun(tx', k, F, SourceId, l)
    BY <1>5, <2>1, <2>4, <2>6, <2>7 DEF Begun, Owned, Once
  <2> QED
    BY <1>2, <1>8, <2>8 DEF k, l
<1> QED
  BY <1>2, <1>6, <1>7, <1>9 DEF Whole

LEMMA OthersWhole ==
  ASSUME Base, Whole,
         StartRun \/ Fetch \/ FetchUnread \/ LinkStep \/ Fault \/ ResultsArrive \/ UNCHANGED vars
  PROVE  Whole'
<1>1. /\ UNCHANGED <<db, tx>>
      /\ \/ step' = "raise"
         \/ step' = step /\ doc' = doc /\ cur' = cur
         \/ step \in Early /\ step' \in Early \cup {"raise"} /\ cur'.item \in {1, cur.item}
  <2>1. CASE LinkStep
    BY <2>1, LinkStepIs, LinkStepTyped DEF Base, Early
  <2> QED
    BY <2>1 DEF StartRun, Fetch, FetchUnread, Fault, ResultsArrive, vars, Early, Base, WellTyped
<1>2. Entire(db')
  BY <1>1 DEF Whole
<1>3. CASE step' = "raise"
  BY <1>2, <1>3 DEF Whole, Early
<1>4. CASE step' = step /\ doc' = doc /\ cur' = cur
  <2>1. SourceId' = SourceId /\ F' = F
    BY <1>1, <1>4 DEF SourceId, Same, F
  <2>2. step = "declare" => Begun(tx', cur'.affidavit, F', SourceId', cur'.item - 1)
    BY <1>1, <1>4, <2>1 DEF Whole
  <2>3. step \notin {"raise", "declare"} => Entire(tx')
    BY <1>1 DEF Whole
  <2> QED
    BY <1>2, <1>4, <2>2, <2>3 DEF Whole
<1>5. CASE step \in Early /\ step' \in Early /\ cur'.item \in {1, cur.item}
  <2>1. Entire(tx') /\ cur.item = 1
    BY <1>1, <1>5 DEF Whole, Early
  <2> QED
    BY <1>2, <1>5, <2>1 DEF Whole, Early
<1> QED
  BY <1>1, <1>3, <1>4, <1>5

LEMMA Offset ==
  \A o, l, m \in Nat : m \in (o + 1)..(o + l) <=> \E n \in 1..l : m = o + n
<1>1. SUFFICES ASSUME NEW o \in Nat, NEW l \in Nat, NEW m \in Nat, m \in (o + 1)..(o + l)
               PROVE  \E n \in 1..l : m = o + n
  OBVIOUS
<1>2. m - o \in 1..l /\ m = o + (m - o)
  BY <1>1
<1> QED
  BY <1>2

(* What is complete in the sense above is so in the sense of StoredInFull. *)
LEMMA EntireStored ==
  ASSUME Base, Entire(db)
  PROVE  StoredInFull
<1>1. SUFFICES ASSUME NEW i \in Ids(db.affidavit)
               PROVE  LET a == db.affidavit[i]
                          form == Form[a.sha]
                          Failed(n) == db.declaration[n].status = "PARSE_FAILED"
                      IN
                      /\ \A j \in Ids(db.affidavit) :
                           db.affidavit[j].person = a.person /\ db.affidavit[j].sha = a.sha => i = j
                      /\ InOrder(i, form.items)
                      /\ \A n \in DeclaredBy(i) : Failed(n) => InReview(a.source, db.declaration[n].field)
                      /\ form.cases = "NEEDS_REVIEW" => InReview(a.source, "criminal_cases")
                      /\ a.outcome = "SUCCESS" <=>
                           form.cases = "PARSED" /\ \A n \in DeclaredBy(i) : ~Failed(n)
  BY DEF StoredInFull
<1> DEFINE a == db.affidavit[i]
<1> DEFINE form == Form[a.sha]
<1> DEFINE items == form.items
<1>2. db \in Stored /\ Len(db.declaration) \in Nat
  BY Columns DEF Base, WellTyped
<1>3. a \in AffidavitRows
  BY <1>2, Columns, ElementOfSeq DEF Ids
<1>4. items \in Seq(Item) /\ form.cases \in {"PARSED", "NEEDS_REVIEW"}
  BY <1>3, FormAssumption DEF AffidavitRows, Affidavit
<1>5. Len(items) \in Nat
  BY <1>4, LenProperties
<1>6. PICK o \in Nat : Stretch(db, i, items, o, Len(items))
  BY DEF Entire, Full
<1>7. form.cases = "NEEDS_REVIEW" => Asked(db, a.source, "criminal_cases")
  BY DEF Entire, Full
<1>8. a.outcome = Outcome(form)
  BY DEF Entire, Full
<1>9. \A j \in Ids(db.affidavit) : db.affidavit[j].person = a.person /\ db.affidavit[j].sha = a.sha => i = j
  BY DEF Entire, Once
<1>10. \A s, f : InReview(s, f) <=> Asked(db, s, f)
  BY DEF InReview, Asked, Reviews
<1>11. DeclaredBy(i) = Rows(db, i)
  BY DEF DeclaredBy, Rows
<1> HIDE DEF a, form, items
<1>12. /\ o + Len(items) <= Len(db.declaration) /\ DeclaredBy(i) = (o + 1)..(o + Len(items))
       /\ \A n \in 1..Len(items) :
            /\ db.declaration[o + n].field = items[n].field /\ db.declaration[o + n].raw = items[n].amount
            /\ db.declaration[o + n].status = Status(items[n])
            /\ Status(items[n]) \in Reviewable => Asked(db, a.source, items[n].field)
  BY <1>6, <1>11 DEF Stretch, Bears, a
<1>13. InOrder(i, items)
  <2>1. o \in 0..Len(db.declaration)
    BY <1>2, <1>5, <1>12
  <2> QED
    BY <1>12, <2>1 DEF InOrder, Ids
<1>14. \A m \in DeclaredBy(i) : \E n \in 1..Len(items) : m = o + n
  <2>1. \A m \in (o + 1)..(o + Len(items)) : m \in Nat
    BY <1>5
  <2> QED
    BY <1>5, <1>12, <2>1, Offset
<1>15. \A n \in 1..Len(items) : o + n \in DeclaredBy(i)
  BY <1>5, <1>12
<1>16. \A n \in 1..Len(items) : db.declaration[o + n].status = "PARSE_FAILED" <=> Status(items[n]) \in Reviewable
  BY <1>12, Statuses
<1>17. \A m \in DeclaredBy(i) :
         db.declaration[m].status = "PARSE_FAILED" => InReview(a.source, db.declaration[m].field)
  BY <1>10, <1>12, <1>14, <1>16
<1>18. (\A m \in DeclaredBy(i) : db.declaration[m].status # "PARSE_FAILED")
         <=> ~\E n \in 1..Len(items) : Status(items[n]) \in Reviewable
  BY <1>14, <1>15, <1>16
<1>19. a.outcome = "SUCCESS" <=>
         form.cases # "NEEDS_REVIEW" /\ ~\E n \in 1..Len(items) : Status(items[n]) \in Reviewable
  BY <1>8 DEF Outcome, Ids, items
<1>20. a.outcome = "SUCCESS" <=>
         form.cases = "PARSED" /\ \A m \in DeclaredBy(i) : db.declaration[m].status # "PARSE_FAILED"
  BY <1>4, <1>18, <1>19
<1> QED
  BY <1>7, <1>9, <1>10, <1>13, <1>17, <1>20 DEF a, form, items

LEMMA WholeInvariant == Spec => []Whole
<1>1. Init => Whole
  BY DEF Init, Empty, Whole, Entire, Owned, Once, Ids, Fresh, Early
<1>2. Base /\ Whole /\ [Next]_vars => Whole'
  <2>1. SUFFICES ASSUME Base, Whole, [Next]_vars PROVE Whole'
    OBVIOUS
  <2> QED
    BY <2>1, SourceWhole, InsertWhole, DeclareWhole, CloseSectionsWhole, KnownWhole, EndWhole,
       CloseReviewWhole, OthersWhole DEF Next, Proceed, LinkStep
<1> QED
  BY <1>1, <1>2, BaseInvariant, PTL DEF Spec

(* An affidavit is stored once per person and document, with all that the  *)
(* form declares, in its order and with nothing in between, and whatever   *)
(* could not be read of it has a review item.                              *)
THEOREM NothingLeftOut == Spec => []StoredInFull
<1>1. Base /\ Whole => StoredInFull
  BY EntireStored DEF Whole
<1> QED
  BY <1>1, BaseInvariant, WholeInvariant, PTL

-----------------------------------------------------------------------------
(* The ranks of a finite set of places are 1, 2 and so on, in their order. *)
LEMMA Ranked ==
  ASSUME NEW N \in Nat, NEW P \in SUBSET (1..N)
  PROVE  /\ IsFiniteSet(P) /\ Cardinality(P) \in Nat
         /\ \A i \in P : Rank(P, i) \in 1..Cardinality(P)
         /\ \A i, j \in P : i < j => Rank(P, i) < Rank(P, j)
         /\ \A n \in 1..Cardinality(P) : \E i \in P : Rank(P, i) = n
<1> DEFINE B(i) == {k \in P : k <= i}
<1>1. IsFiniteSet(1..N)
  BY FS_Interval
<1>2. IsFiniteSet(P) /\ Cardinality(P) \in Nat
  BY <1>1, FS_Subset, FS_CardinalityType
<1>3. ASSUME NEW i \in P
      PROVE  /\ IsFiniteSet(B(i)) /\ Cardinality(B(i)) \in Nat
             /\ Cardinality(B(i)) <= Cardinality(P) /\ Cardinality(B(i)) # 0
  <2>1. B(i) \in SUBSET P /\ i \in B(i)
    OBVIOUS
  <2>2. IsFiniteSet(B(i)) /\ Cardinality(B(i)) <= Cardinality(P)
    BY <1>2, <2>1, FS_Subset
  <2>3. Cardinality(B(i)) \in Nat
    BY <2>2, FS_CardinalityType
  <2>4. Cardinality(B(i)) # 0
    BY <2>1, <2>2, FS_EmptySet
  <2> QED
    BY <2>2, <2>3, <2>4
<1>4. \A i \in P : Rank(P, i) \in 1..Cardinality(P)
  <2> SUFFICES ASSUME NEW i \in P PROVE Rank(P, i) \in 1..Cardinality(P)
    OBVIOUS
  <2>1. Rank(P, i) = Cardinality(B(i))
    BY DEF Rank
  <2> HIDE DEF B
  <2> QED
    BY <1>2, <1>3, <2>1
<1>5. ASSUME NEW i \in P, NEW j \in P, i < j
      PROVE  Rank(P, i) < Rank(P, j)
  <2>1. B(i) \in SUBSET B(j) /\ B(i) # B(j)
    <3>1. j \in B(j) /\ j \notin B(i)
      BY <1>5
    <3>2. \A k \in B(i) : k \in B(j)
      BY <1>5
    <3> QED
      BY <3>1, <3>2
  <2>2. Cardinality(B(i)) <= Cardinality(B(j)) /\ Cardinality(B(i)) # Cardinality(B(j))
    <3> HIDE DEF B
    <3> QED
      BY <1>3, <2>1, FS_Subset
  <2>3. Rank(P, i) = Cardinality(B(i)) /\ Rank(P, j) = Cardinality(B(j))
    BY DEF Rank
  <2> HIDE DEF B
  <2> QED
    BY <1>3, <2>2, <2>3
<1>6. \A n \in 1..Cardinality(P) : \E i \in P : Rank(P, i) = n
  <2> DEFINE f == [i \in P |-> Rank(P, i)]
             T == 1..Cardinality(P)
  <2>1. f \in [P -> T]
    BY <1>4
  <2>2. \A i, j \in P : f[i] = f[j] => i = j
    <3> SUFFICES ASSUME NEW i \in P, NEW j \in P, f[i] = f[j] PROVE i = j
      OBVIOUS
    <3>1. f[i] = Rank(P, i) /\ f[j] = Rank(P, j)
      OBVIOUS
    <3>2. Rank(P, i) = Rank(P, j) /\ Rank(P, i) \in Nat
      BY <1>2, <1>4, <3>1
    <3>3. ~(i < j) /\ ~(j < i)
      BY <1>5, <3>2
    <3> QED
      BY <3>3
  <2>3. f \in Injection(P, T)
    <3> HIDE DEF f, T
    <3> QED
      BY <2>1, <2>2 DEF Injection, IsInjective
  <2>4. IsFiniteSet(T) /\ Cardinality(T) = Cardinality(P)
    BY <1>2, FS_Interval
  <2>5. f \in Surjection(P, T)
    <3> HIDE DEF f, T
    <3> QED
      BY <2>3, <2>4, FS_Injection
  <2>6. \A n \in T : \E i \in P : f[i] = n
    <3> HIDE DEF f, T
    <3> QED
      BY <2>5 DEF Surjection
  <2> QED
    BY <2>6
<1> QED
  BY <1>2, <1>4, <1>5, <1>6

(* What stays of a text: its tokens at the places, in their order.         *)
LEMMA KeepIs ==
  ASSUME NEW text \in Seq(Tokens), NEW S
  PROVE  /\ Places(text, S) \in SUBSET (1..Len(text)) /\ Len(text) \in Nat
         /\ Keep(text, S) \in Seq(S \cap Tokens) /\ Keep(text, S) \in Seq(Tokens)
         /\ Len(Keep(text, S)) = Cardinality(Places(text, S))
         /\ Cardinality(Places(text, S)) \in Nat
         /\ \A i \in Places(text, S) :
              /\ Rank(Places(text, S), i) \in 1..Len(Keep(text, S))
              /\ Keep(text, S)[Rank(Places(text, S), i)] = text[i]
<1> DEFINE P == Places(text, S)
           C == Cardinality(P)
           at(n) == CHOOSE i \in P : Rank(P, i) = n
           K == [n \in 1..C |-> text[at(n)]]
<1>1. Len(text) \in Nat /\ P \in SUBSET (1..Len(text)) /\ \A i \in P : text[i] \in S \cap Tokens
  BY LenProperties, ElementOfSeq DEF Places
<1>2. Keep(text, S) = K
  BY DEF Keep, Picked
<1> HIDE DEF P
<1>3. /\ C \in Nat /\ \A i \in P : Rank(P, i) \in 1..C
      /\ \A i, j \in P : i < j => Rank(P, i) < Rank(P, j)
      /\ \A n \in 1..C : \E i \in P : Rank(P, i) = n
  BY <1>1, Ranked
<1>4. \A n \in 1..C : at(n) \in P /\ Rank(P, at(n)) = n
  BY <1>3
<1>5. \A i \in P : at(Rank(P, i)) = i
  <2> SUFFICES ASSUME NEW i \in P PROVE at(Rank(P, i)) = i
    OBVIOUS
  <2> DEFINE j == at(Rank(P, i))
  <2>1. j \in P /\ Rank(P, j) = Rank(P, i)
    BY <1>3, <1>4
  <2> HIDE DEF j
  <2>2. i \in Nat /\ j \in Nat /\ Rank(P, i) \in Nat
    BY <1>1, <1>3, <2>1
  <2>3. ~(i < j) /\ ~(j < i)
    BY <1>3, <2>1, <2>2
  <2>4. i = j
    BY <2>2, <2>3
  <2> QED
    BY <2>4 DEF j
<1>6. \A n \in 1..C : text[at(n)] \in S \cap Tokens
  BY <1>1, <1>4
<1> HIDE DEF C, at
<1>7. K \in [1..C -> S \cap Tokens]
  BY <1>6
<1>8. K \in Seq(S \cap Tokens) /\ Len(K) = C
  <2>1. K \in Seq(S \cap Tokens)
    BY <1>3, <1>7, SeqDef
  <2>2. Len(K) \in Nat /\ DOMAIN K = 1..Len(K) /\ DOMAIN K = 1..C
    <3>1. DOMAIN K = 1..C
      OBVIOUS
    <3> HIDE DEF K
    <3> QED
      BY <2>1, <3>1, LenProperties
  <2> QED
    BY <1>3, <2>1, <2>2
<1>9. K \in Seq(Tokens)
  <2> HIDE DEF K
  <2> QED
    BY <1>8, SeqMonotonic
<1>10. \A i \in P : Rank(P, i) \in 1..Len(K) /\ K[Rank(P, i)] = text[i]
  <2> SUFFICES ASSUME NEW i \in P PROVE Rank(P, i) \in 1..Len(K) /\ K[Rank(P, i)] = text[i]
    OBVIOUS
  <2>1. Rank(P, i) \in 1..C
    BY <1>3
  <2>2. K[Rank(P, i)] = text[at(Rank(P, i))]
    BY <2>1
  <2> QED
    BY <1>5, <1>8, <2>1, <2>2
<1> HIDE DEF K
<1> QED
  BY <1>1, <1>2, <1>3, <1>8, <1>9, <1>10 DEF P, C

LEMMA KeptFrom ==
  ASSUME NEW text \in Seq(Tokens), NEW S
  PROVE  \A n \in 1..Len(Keep(text, S)) : \E i \in Places(text, S) :
           Rank(Places(text, S), i) = n /\ Keep(text, S)[n] = text[i]
<1>1. /\ Places(text, S) \in SUBSET (1..Len(text)) /\ Len(text) \in Nat
      /\ Len(Keep(text, S)) = Cardinality(Places(text, S))
      /\ \A i \in Places(text, S) : Keep(text, S)[Rank(Places(text, S), i)] = text[i]
  BY KeepIs
<1>2. \A n \in 1..Cardinality(Places(text, S)) : \E i \in Places(text, S) :
        Rank(Places(text, S), i) = n
  BY <1>1, Ranked
<1> QED
  BY <1>1, <1>2

(* A token stands in what stays of a text if it stands in the text.        *)
LEMMA HasKept ==
  ASSUME NEW text \in Seq(Tokens), NEW S, NEW T
  PROVE  Has(Keep(text, S), T) <=> Has(text, S \cap T)
<1> DEFINE K == Keep(text, S)
           P == Places(text, S)
<1>1. /\ \A i \in P : Rank(P, i) \in 1..Len(K) /\ K[Rank(P, i)] = text[i]
      /\ \A n \in 1..Len(K) : \E i \in P : K[n] = text[i]
  <2>1. \A i \in P : Rank(P, i) \in 1..Len(K) /\ K[Rank(P, i)] = text[i]
    BY KeepIs
  <2>2. \A n \in 1..Len(K) : \E i \in P : K[n] = text[i]
    BY KeptFrom
  <2> HIDE DEF K, P
  <2> QED
    BY <2>1, <2>2
<1>2. \A i : i \in P <=> i \in 1..Len(text) /\ text[i] \in S
  BY DEF Places
<1> HIDE DEF K, P
<1>3. Has(K, T) => Has(text, S \cap T)
  BY <1>1, <1>2 DEF Has
<1>4. Has(text, S \cap T) => Has(K, T)
  BY <1>1, <1>2 DEF Has
<1> QED
  BY <1>3, <1>4 DEF K

LEMMA LeastOf ==
  ASSUME NEW T \in SUBSET Nat, T # {}
  PROVE  \E m \in T : \A k \in T : m <= k
<1>1. PICK m \in T : \A k \in T : ~(<<k, m>> \in OpToRel(<, Nat))
  BY WFMin, NatLessThanWellFounded, Zenon
<1>2. \A k \in T : ~(k < m)
  BY <1>1 DEF OpToRel
<1> QED
  BY <1>2

LEMMA FirstDigitIs ==
  ASSUME NEW s \in Seq(Tokens), Has(s, Digits)
  PROVE  /\ FirstDigit(s) \in 1..Len(s) /\ s[FirstDigit(s)] \in Digits
         /\ \A k \in 1..(FirstDigit(s) - 1) : s[k] \notin Digits
<1> DEFINE T == {i \in 1..Len(s) : s[i] \in Digits}
           First(i) == s[i] \in Digits /\ \A k \in 1..(i - 1) : s[k] \notin Digits
<1>1. Len(s) \in Nat
  BY LenProperties
<1>2. T \in SUBSET Nat /\ T # {}
  BY <1>1 DEF Has
<1>3. PICK m \in T : \A k \in T : m <= k
  BY <1>2, LeastOf
<1>4. m \in 1..Len(s) /\ First(m)
  <2>1. m \in 1..Len(s) /\ s[m] \in Digits
    OBVIOUS
  <2>2. \A k \in 1..(m - 1) : k \in 1..Len(s) /\ ~(m <= k)
    BY <1>1, <2>1
  <2> QED
    BY <1>3, <2>1, <2>2
<1>5. FirstDigit(s) = CHOOSE i \in 1..Len(s) : First(i)
  BY DEF FirstDigit
<1>6. FirstDigit(s) \in 1..Len(s) /\ First(FirstDigit(s))
  <2> HIDE DEF First
  <2> QED
    BY <1>4, <1>5
<1> QED
  BY <1>6

LEMMA RunEndIs ==
  ASSUME NEW s \in Seq(Tokens), NEW i \in 1..Len(s), s[i] \in Digits
  PROVE  /\ RunEnd(s, i) \in i..Len(s)
         /\ \A k \in i..RunEnd(s, i) : s[k] \in Digits
         /\ RunEnd(s, i) < Len(s) => s[RunEnd(s, i) + 1] \notin Digits
<1> DEFINE T == {m \in (i + 1)..(Len(s) + 1) : m = Len(s) + 1 \/ s[m] \notin Digits}
           End(j) == (\A k \in i..j : s[k] \in Digits) /\ (j < Len(s) => s[j + 1] \notin Digits)
<1>1. Len(s) \in Nat
  BY LenProperties
<1>2. T \in SUBSET Nat /\ Len(s) + 1 \in T
  BY <1>1
<1>3. PICK m \in T : \A k \in T : m <= k
  <2>1. T # {}
    BY <1>2
  <2> HIDE DEF T
  <2> QED
    BY <1>2, <2>1, LeastOf
<1>4. m - 1 \in i..Len(s) /\ (m - 1) + 1 = m /\ m \in (i + 1)..(Len(s) + 1)
  BY <1>1
<1>5. \A k \in i..(m - 1) : s[k] \in Digits
  <2> SUFFICES ASSUME NEW k \in i..(m - 1), s[k] \notin Digits PROVE FALSE
    OBVIOUS
  <2>1. k # i
    OBVIOUS
  <2>2. k \in (i + 1)..(Len(s) + 1) /\ ~(m <= k)
    BY <1>1, <1>4, <2>1
  <2> QED
    BY <1>3, <2>2
<1>6. m - 1 < Len(s) => s[(m - 1) + 1] \notin Digits
  BY <1>1, <1>4
<1>7. RunEnd(s, i) = CHOOSE j \in i..Len(s) : End(j)
  BY DEF RunEnd
<1>8. RunEnd(s, i) \in i..Len(s) /\ End(RunEnd(s, i))
  <2>1. End(m - 1)
    BY <1>5, <1>6
  <2> HIDE DEF End
  <2> QED
    BY <1>4, <1>7, <2>1
<1> QED
  BY <1>8

(* The number that is found is one, with digits in front.                  *)
LEMMA FirstNumberIs ==
  ASSUME NEW s \in Seq(Tokens), Has(s, Digits)
  PROVE  FirstNumber(s) \in Number /\ FirstNumber(s).whole # <<>>
<1> DEFINE i == FirstDigit(s)
           j == RunEnd(s, i)
           e == RunEnd(s, j + 2)
           more == j + 2 <= Len(s) /\ s[j + 1] = "point" /\ s[j + 2] \in Digits
           w == SubSeq(s, i, j)
           f == IF more THEN SubSeq(s, j + 2, e) ELSE <<>>
<1>1. Len(s) \in Nat
  BY LenProperties
<1>2. i \in 1..Len(s) /\ s[i] \in Digits
  BY FirstDigitIs
<1>3. FirstNumber(s) = [whole |-> w, frac |-> f]
  BY DEF FirstNumber
<1> HIDE DEF i
<1>4. j \in i..Len(s) /\ \A k \in i..j : s[k] \in Digits
  BY <1>2, RunEndIs
<1> HIDE DEF j
<1>5. i \in Int /\ j \in Int /\ i <= j /\ j - i + 1 # 0
  BY <1>1, <1>2, <1>4
<1>6. w \in Seq(Digits) /\ Len(w) = j - i + 1
  BY <1>4, <1>5, SubSeqProperties
<1>7. w # <<>>
  BY <1>5, <1>6, EmptySeq
<1>8. f \in Seq(Digits)
  <2>1. CASE more
    <3>1. j + 2 \in 1..Len(s) /\ s[j + 2] \in Digits
      BY <1>1, <1>2, <1>4, <2>1
    <3>2. e \in (j + 2)..Len(s) /\ \A k \in (j + 2)..e : s[k] \in Digits
      BY <3>1, RunEndIs
    <3>3. e \in Int /\ j + 2 \in Int
      BY <1>5, <3>2
    <3>4. SubSeq(s, j + 2, e) \in Seq(Digits)
      <4> HIDE DEF e
      <4> QED
        BY <3>2, <3>3, SubSeqProperties
    <3> QED
      BY <2>1, <3>4
  <2>2. CASE ~more
    BY <2>2, EmptySeq
  <2> QED
    BY <2>1, <2>2
<1> HIDE DEF w, f
<1> QED
  BY <1>3, <1>6, <1>7, <1>8 DEF Number

(* What parse_indian_amount makes of any text.                             *)
Reads == {"EXACT", "NORMALIZED", "ZERO"}
Fails == {"MISSING", "NOT_APPLICABLE", "PARSE_FAILED"}
LEMMA TokensApart ==
  /\ Digits \subseteq Tokens /\ Marks \cap Digits = {} /\ "nil" \in Tokens
  /\ {"comma", "gap", "point", "dash", "word", "nil", "na"} \cap (Digits \cup Marks) = {}
BY DEF Tokens, Digits, Marks

LEMMA ParseAmountIs ==
  ASSUME NEW text \in Seq(Tokens)
  PROVE  LET a == ParseAmount(text) IN
         /\ a.value \in Number /\ a.status \in Reads \cup Fails
         /\ a.value # NoNumber <=> a.status \in Reads
         /\ a.value # NoNumber => Has(text, Digits \cup {"nil"})
<1> DEFINE word == Inked(text)
           number == FirstNumber(Cleaned(text))
           kind == IF Has(text, {"comma", "rupee"}) \/ IsZero(number) THEN "EXACT" ELSE "NORMALIZED"
           Fine(a) == /\ a.value \in Number /\ a.status \in Reads \cup Fails
                      /\ a.value # NoNumber <=> a.status \in Reads
                      /\ a.value # NoNumber => Has(text, Digits \cup {"nil"})
<1>1. word \in Seq(Tokens) /\ Cleaned(text) \in Seq(Tokens)
  BY KeepIs, Zenon DEF Inked, Cleaned
<1>2. Has(word, Digits) => Has(text, Digits) /\ Has(Cleaned(text), Digits)
  <2>1. /\ (Tokens \ {"gap"}) \cap Digits = Digits
        /\ (Tokens \ (Marks \cup {"comma", "gap"})) \cap Digits = Digits
    BY TokensApart
  <2> QED
    BY <2>1, HasKept DEF Inked, Cleaned
<1>3. word \in {<<"nil">>, <<"nil", "point">>} => Has(text, {"nil"})
  <2> SUFFICES ASSUME word \in {<<"nil">>, <<"nil", "point">>} PROVE Has(text, {"nil"})
    OBVIOUS
  <2>1. Has(word, {"nil"})
    <3>1. 1 \in 1..Len(word) /\ word[1] = "nil"
      OBVIOUS
    <3> QED
      BY <3>1 DEF Has
  <2>2. (Tokens \ {"gap"}) \cap {"nil"} = {"nil"}
    BY TokensApart
  <2> QED
    BY <2>1, <2>2, HasKept DEF Inked
<1>4. /\ NoNumber \in Number /\ Zero \in Number /\ NoNumber # Zero
      /\ NoNumber.whole = <<>>
  <2>1. <<>> \in Seq(Digits) /\ <<"0">> \in Seq(Digits) /\ <<"0">> # <<>>
    BY DEF Digits
  <2> QED
    BY <2>1 DEF NoNumber, Zero, Number
<1>5. ASSUME NEW v, NEW s PROVE Amount(v, s).value = v /\ Amount(v, s).status = s
  BY DEF Amount
<1>6. ASSUME NEW s \in Fails PROVE Fine(Amount(NoNumber, s))
  BY <1>4, <1>5 DEF Reads, Fails
<1>7. ASSUME Has(text, {"nil"}) PROVE Fine(Amount(Zero, "ZERO"))
  <2>1. Has(text, Digits \cup {"nil"})
    BY <1>7 DEF Has
  <2> QED
    BY <1>4, <1>5, <2>1 DEF Reads, Fails
<1>8. ASSUME Has(word, Digits) PROVE Fine(Amount(number, kind))
  <2>1. Has(text, Digits \cup {"nil"})
    BY <1>2, <1>8 DEF Has
  <2>2. number \in Number /\ number # NoNumber
    BY <1>1, <1>2, <1>4, <1>8, FirstNumberIs
  <2>3. kind \in Reads
    BY DEF Reads
  <2> HIDE DEF number, kind
  <2> QED
    BY <1>5, <2>1, <2>2, <2>3
<1>9. ParseAmount(text) =
        IF word = <<>> THEN Amount(NoNumber, "MISSING")
        ELSE IF word \in {<<"na">>, <<"dash">>} THEN Amount(NoNumber, "NOT_APPLICABLE")
        ELSE IF word \in {<<"nil">>, <<"nil", "point">>} THEN Amount(Zero, "ZERO")
        ELSE IF ~Has(word, Digits) THEN Amount(NoNumber, "PARSE_FAILED")
        ELSE Amount(number, kind)
  BY DEF ParseAmount
<1>10. {"MISSING", "NOT_APPLICABLE", "PARSE_FAILED"} = Fails
  BY DEF Fails
<1>11. Fine(ParseAmount(text))
  <2> HIDE DEF Fine, word, number, kind
  <2>1. \A s \in Fails : Fine(Amount(NoNumber, s))
    BY <1>6
  <2> QED
    BY <1>3, <1>7, <1>8, <1>9, <1>10, <2>1
<1> QED
  BY <1>11

(* Nothing is lost of a text that has only what stays.                     *)
LEMMA KeepsAll ==
  ASSUME NEW text \in Seq(Tokens), NEW S, Only(text, S)
  PROVE  Keep(text, S) = text
<1> DEFINE K == Keep(text, S)
           P == Places(text, S)
           N == Len(text)
<1>1. N \in Nat
  BY LenProperties
<1>2. P = 1..N
  BY DEF Places, Only
<1>3. K \in Seq(Tokens) /\ Len(K) = Cardinality(P)
  BY KeepIs
<1>4. \A i \in P : K[Rank(P, i)] = text[i]
  BY KeepIs
<1> HIDE DEF K, P, N
<1>5. Cardinality(P) = N
  BY <1>1, <1>2, FS_Interval
<1>6. \A i \in 1..N : Rank(P, i) = i
  <2> SUFFICES ASSUME NEW i \in 1..N PROVE Rank(P, i) = i
    OBVIOUS
  <2>1. {k \in P : k <= i} = 1..i
    BY <1>1, <1>2
  <2>2. Cardinality(1..i) = i
    BY <1>1, FS_Interval
  <2> QED
    BY <2>1, <2>2 DEF Rank
<1>7. \A i \in 1..N : K[i] = text[i]
  BY <1>2, <1>4, <1>6
<1>8. K = text
  BY <1>3, <1>5, <1>7, SeqEqual DEF N
<1> QED
  BY <1>8 DEF K

LEMMA RunEndAt ==
  ASSUME NEW s \in Seq(Tokens), NEW i \in 1..Len(s), NEW j \in i..Len(s),
         \A k \in i..j : s[k] \in Digits, j < Len(s) => s[j + 1] \notin Digits
  PROVE  RunEnd(s, i) = j
<1> DEFINE r == RunEnd(s, i)
<1>1. Len(s) \in Nat /\ i \in i..j
  BY LenProperties
<1>2. r \in i..Len(s) /\ (\A k \in i..r : s[k] \in Digits) /\ (r < Len(s) => s[r + 1] \notin Digits)
  BY <1>1, RunEndIs
<1> HIDE DEF r
<1>3. ~(r < j)
  <2> SUFFICES ASSUME r < j PROVE FALSE
    OBVIOUS
  <2>1. r + 1 \in i..j /\ r < Len(s)
    BY <1>1, <1>2
  <2> QED
    BY <1>2, <2>1
<1>4. ~(j < r)
  <2> SUFFICES ASSUME j < r PROVE FALSE
    OBVIOUS
  <2>1. j + 1 \in i..r /\ j < Len(s)
    BY <1>1, <1>2
  <2> QED
    BY <1>2, <2>1
<1>5. r = j
  BY <1>1, <1>2, <1>3, <1>4
<1> QED
  BY <1>5 DEF r

LEMMA FirstDigitAtOnce ==
  ASSUME NEW s \in Seq(Tokens), 1 \in 1..Len(s), s[1] \in Digits
  PROVE  FirstDigit(s) = 1
<1>1. Has(s, Digits)
  BY DEF Has
<1>2. FirstDigit(s) \in 1..Len(s) /\ \A k \in 1..(FirstDigit(s) - 1) : s[k] \notin Digits
  BY <1>1, FirstDigitIs
<1>3. ~(1 \in 1..(FirstDigit(s) - 1))
  BY <1>2
<1>4. Len(s) \in Nat
  BY LenProperties
<1> QED
  BY <1>2, <1>3, <1>4

(* What a plain amount is made of.                                         *)
LEMMA PlainIsParsed ==
  ASSUME NEW text \in Seq(Tokens), Plain(text)
  PROVE  ParseAmount(text).value = FirstNumber(Cleaned(text))
<1> DEFINE word == Inked(text)
<1>1. Has(text, Digits) /\ Only(text, Digits \cup {"comma", "rupee", "inr", "point"})
  BY DEF Plain
<1>2. Has(word, Digits)
  <2>1. (Tokens \ {"gap"}) \cap Digits = Digits
    BY TokensApart
  <2> QED
    BY <1>1, <2>1, HasKept DEF Inked
<1>3. ~Has(word, {"na", "dash", "nil"})
  <2>1. (Tokens \ {"gap"}) \cap {"na", "dash", "nil"} = {"na", "dash", "nil"}
    BY TokensApart DEF Tokens
  <2>2. ~Has(text, {"na", "dash", "nil"})
    BY <1>1 DEF Has, Only, Digits
  <2> QED
    BY <2>1, <2>2, HasKept DEF Inked
<1> HIDE DEF word
<1>4. word # <<>>
  BY <1>2 DEF Has
<1>5. word \notin {<<"na">>, <<"dash">>, <<"nil">>, <<"nil", "point">>}
  <2> SUFFICES ASSUME word \in {<<"na">>, <<"dash">>, <<"nil">>, <<"nil", "point">>} PROVE FALSE
    OBVIOUS
  <2>1. 1 \in 1..Len(word) /\ word[1] \in {"na", "dash", "nil"}
    OBVIOUS
  <2> QED
    BY <1>3, <2>1 DEF Has
<1> QED
  BY <1>2, <1>4, <1>5 DEF ParseAmount, Amount, word

LEMMA PlainWithoutPoint ==
  ASSUME NEW text \in Seq(Tokens), Plain(text), ~Has(text, {"point"})
  PROVE  FirstNumber(Cleaned(text)) = Reading(text)
<1> DEFINE S == Tokens \ (Marks \cup {"comma", "gap"})
           c == Keep(text, Digits)
           N == Len(text)
           end == CHOOSE i \in 1..(N + 1) :
                    /\ \A k \in 1..(i - 1) : text[k] # "point"
                    /\ i <= N => text[i] = "point"
<1>1. N \in Nat
  BY LenProperties
<1>2. Has(text, Digits) /\ Only(text, Digits \cup {"comma", "rupee", "inr", "point"})
  BY DEF Plain
<1>3. Cleaned(text) = c
  <2>1. \A t \in Digits \cup {"comma", "rupee", "inr", "point"} :
          t # "point" => (t \in S <=> t \in Digits)
    BY DEF Tokens, Digits, Marks
  <2>2. \A i \in 1..N : text[i] \in S <=> text[i] \in Digits
    <3> HIDE DEF S
    <3> QED
      BY <1>2, <2>1 DEF Only, Has
  <2>3. Places(text, S) = Places(text, Digits)
    <3> HIDE DEF S
    <3> QED
      BY <2>2 DEF Places
  <2>4. Keep(text, S) = Keep(text, Digits)
    <3> HIDE DEF S
    <3> QED
      BY <2>3 DEF Keep, Picked
  <2> QED
    BY <2>4 DEF Cleaned
<1>4. c \in Seq(Tokens) /\ c \in Seq(Digits)
  <2>1. Digits \cap Tokens = Digits
    BY TokensApart
  <2> QED
    BY <2>1, KeepIs
<1>5. Has(c, Digits)
  BY <1>2, HasKept
<1> HIDE DEF c
<1>6. /\ Len(c) \in Nat /\ 1 \in 1..Len(c) /\ Len(c) \in 1..Len(c)
      /\ \A k \in 1..Len(c) : c[k] \in Digits
  <2>1. Len(c) \in Nat /\ \A k \in 1..Len(c) : c[k] \in Digits
    BY <1>4, LenProperties, ElementOfSeq
  <2>2. Len(c) # 0
    BY <1>5, <2>1 DEF Has
  <2> QED
    BY <2>1, <2>2
<1>7. FirstDigit(c) = 1
  BY <1>4, <1>6, FirstDigitAtOnce
<1>8. RunEnd(c, 1) = Len(c)
  <2>1. ~(Len(c) < Len(c))
    BY <1>6
  <2> QED
    BY <1>4, <1>6, <2>1, RunEndAt
<1>9. FirstNumber(c) = [whole |-> c, frac |-> <<>>]
  <2>1. SubSeq(c, 1, Len(c)) = c
    BY <1>4, SubSeqFull
  <2>2. ~(Len(c) + 2 <= Len(c))
    BY <1>6
  <2> QED
    BY <1>7, <1>8, <2>1, <2>2 DEF FirstNumber
<1>10. end = N + 1
  <2>1. \A i \in 1..N : text[i] # "point"
    BY DEF Has
  <2>2. N + 1 \in 1..(N + 1) /\ ~(N + 1 <= N) /\ (N + 1) - 1 = N
    BY <1>1
  <2>3. end \in 1..(N + 1) /\ (end <= N => text[end] = "point")
    BY <2>1, <2>2
  <2> HIDE DEF end
  <2>4. ~(end <= N)
    BY <1>1, <2>1, <2>3
  <2> QED
    BY <1>1, <2>3, <2>4
<1>11. Reading(text) = [whole |-> Keep(SubSeq(text, 1, end - 1), Digits),
                        frac |-> Keep(SubSeq(text, end + 1, N), Digits)]
  BY DEF Reading
<1> HIDE DEF end
<1>12. SubSeq(text, 1, end - 1) = text
  <2>1. end - 1 = N
    BY <1>1, <1>10
  <2>2. SubSeq(text, 1, N) = text
    BY SubSeqFull
  <2> QED
    BY <2>1, <2>2
<1>13. Keep(SubSeq(text, end + 1, N), Digits) = <<>>
  <2>1. end + 1 \in Int /\ N \in Int /\ N < end + 1
    BY <1>1, <1>10
  <2>2. SubSeq(text, end + 1, N) = <<>>
    BY <2>1, SubSeqEmpty
  <2>3. <<>> \in Seq(Tokens) /\ Only(<<>>, Digits)
    BY EmptySeq DEF Only
  <2> QED
    BY <2>2, <2>3, KeepsAll
<1> QED
  BY <1>3, <1>9, <1>11, <1>12, <1>13 DEF c

LEMMA PlainWithPoint ==
  ASSUME NEW text \in Seq(Tokens), Plain(text), NEW p \in 1..Len(text), text[p] = "point"
  PROVE  FirstNumber(Cleaned(text)) = Reading(text)
<1> DEFINE S == Tokens \ (Marks \cup {"comma", "gap"})
           N == Len(text)
           c == Keep(text, S)
           P == Places(text, S)
           A == {k \in 1..(p - 1) : text[k] \in Digits}
           a == Cardinality(A)
           head == SubSeq(text, 1, p - 1)
           tail == SubSeq(text, p + 1, N)
           h == Keep(head, Digits)
           end == CHOOSE i \in 1..(N + 1) :
                    /\ \A k \in 1..(i - 1) : text[k] # "point"
                    /\ i <= N => text[i] = "point"
<1>1. N \in Nat /\ text \in [1..N -> Tokens]
  BY LenProperties
<1>2. /\ 1 < p /\ p < N /\ text[p - 1] \in Digits
      /\ \A j \in 1..N : j # p => text[j] # "point"
      /\ \A j \in p..N : text[j] # "comma"
  BY DEF Plain
<1>3. /\ \A i \in 1..N : text[i] \in Marks => i = 1
      /\ \A i \in 1..N : text[i] \in Digits \cup {"comma", "rupee", "inr", "point"}
  BY DEF Plain, Only
<1>4. p \in Int /\ p - 1 \in Int /\ p + 1 \in Int /\ p - 1 \in 1..(p - 1) /\ p..N \subseteq 1..N
  BY <1>1, <1>2
<1>5. \A j \in (p + 1)..N : text[j] \in Digits
  <2> SUFFICES ASSUME NEW j \in (p + 1)..N PROVE text[j] \in Digits
    OBVIOUS
  <2>1. j \in 1..N /\ j # p /\ j \in p..N /\ j # 1
    BY <1>1, <1>2
  <2> QED
    BY <1>2, <1>3, <2>1 DEF Marks
<1>6. P = A \cup (p..N)
  <2>1. \A t \in Digits \cup {"comma", "rupee", "inr", "point"} :
          t \in S <=> t \in Digits \cup {"point"}
    BY DEF Tokens, Digits, Marks
  <2>2. \A i \in 1..N : i \in P <=> text[i] \in Digits \cup {"point"}
    <3> HIDE DEF S
    <3> QED
      BY <1>3, <2>1 DEF Places
  <2>3. P \subseteq 1..N
    BY DEF Places
  <2>4. \A i \in 1..N : i \in 1..(p - 1) \/ i = p \/ i \in (p + 1)..N
    BY <1>1, <1>4
  <2>5. \A i \in 1..(p - 1) : i \in 1..N /\ i # p /\ i \notin p..N
    BY <1>1, <1>4
  <2>6. \A i \in p..N : i = p \/ i \in (p + 1)..N
    BY <1>1, <1>4
  <2>7. \A i \in (p + 1)..N : i \in p..N
    BY <1>1, <1>4
  <2>8. p \in p..N
    BY <1>1, <1>2
  <2> HIDE DEF P, N
  <2> QED
    BY <1>2, <1>4, <1>5, <2>2, <2>3, <2>4, <2>5, <2>6, <2>7, <2>8
<1>7. head \in Seq(Tokens) /\ Len(head) = p - 1 /\ \A i \in 1..(p - 1) : head[i] = text[i]
  <2>1. \A i \in 1..(p - 1) : text[i] \in Tokens
    BY <1>1, <1>4
  <2>2. 1 \in Int /\ p - 1 \in Int /\ 1 <= p - 1 /\ (p - 1) - 1 + 1 = p - 1
    BY <1>2, <1>4
  <2>3. /\ head \in Seq(Tokens) /\ Len(head) = (p - 1) - 1 + 1
        /\ \A i \in 1..((p - 1) - 1 + 1) : head[i] = text[1 + i - 1]
    BY <2>1, <2>2, SubSeqProperties
  <2>4. \A i \in 1..(p - 1) : 1 + i - 1 = i
    OBVIOUS
  <2> HIDE DEF head
  <2> QED
    BY <2>2, <2>3, <2>4
<1>8. tail \in Seq(Digits) /\ Len(tail) = N - p /\ \A m \in 1..(N - p) : tail[m] = text[p + m]
  <2>1. N \in Int /\ p + 1 <= N /\ N - (p + 1) + 1 = N - p
    BY <1>1, <1>2
  <2>2. /\ tail \in Seq(Digits) /\ Len(tail) = N - (p + 1) + 1
        /\ \A m \in 1..(N - (p + 1) + 1) : tail[m] = text[(p + 1) + m - 1]
    BY <1>4, <1>5, <2>1, SubSeqProperties
  <2>3. \A m \in 1..(N - p) : (p + 1) + m - 1 = p + m
    BY <1>1, <1>4
  <2> HIDE DEF tail
  <2> QED
    BY <2>1, <2>2, <2>3
<1>9. A \subseteq 1..(p - 1) /\ IsFiniteSet(A) /\ a \in Nat /\ a # 0
  <2>1. A \in SUBSET (1..(p - 1)) /\ p - 1 \in A
    BY <1>2, <1>4
  <2>2. IsFiniteSet(1..(p - 1))
    BY <1>4, FS_Interval
  <2>3. IsFiniteSet(A)
    BY <2>1, <2>2, FS_Subset
  <2> HIDE DEF A
  <2> QED
    BY <2>1, <2>3, FS_CardinalityType, FS_EmptySet
<1>10. Places(head, Digits) = A
  <2> HIDE DEF head
  <2> QED
    BY <1>4, <1>7 DEF Places
<1>11. c \in Seq(Tokens) /\ Len(c) = Cardinality(P)
  BY KeepIs
<1>12. \A i \in P : c[Rank(P, i)] = text[i]
  BY KeepIs
<1>13. h \in Seq(Digits) /\ Len(h) = a
  <2>1. Digits \cap Tokens = Digits
    BY TokensApart
  <2>2. h \in Seq(Digits \cap Tokens) /\ Len(h) = Cardinality(Places(head, Digits))
    BY <1>7, KeepIs
  <2> QED
    BY <1>10, <2>1, <2>2
<1>14. \A n \in 1..a : \E i \in A : Rank(A, i) = n /\ h[n] = head[i]
  <2>1. \A n \in 1..Len(h) : \E i \in Places(head, Digits) :
          Rank(Places(head, Digits), i) = n /\ h[n] = head[i]
    <3> HIDE DEF head
    <3> QED
      BY <1>7, KeptFrom
  <2> HIDE DEF h, head, A
  <2> QED
    BY <1>10, <1>13, <2>1
<1> HIDE DEF c, P, A, head, tail, h, S
<1>15. \A i \in A : Rank(P, i) = Rank(A, i)
  <2> SUFFICES ASSUME NEW i \in A PROVE Rank(P, i) = Rank(A, i)
    OBVIOUS
  <2>1. \A k \in p..N : ~(k <= i)
    BY <1>1, <1>4, <1>9
  <2>2. {k \in P : k <= i} = {k \in A : k <= i}
    BY <1>6, <2>1
  <2> QED
    BY <2>2 DEF Rank
<1>16. ASSUME NEW b \in p..N
       PROVE  Cardinality(A \cup (p..b)) = a + (b - p + 1)
  <2>1. IsFiniteSet(p..b) /\ Cardinality(p..b) = b - p + 1
    BY <1>1, <1>4, FS_Interval
  <2>2. A \cap (p..b) = {}
    BY <1>4, <1>9
  <2>3. Cardinality(A \cap (p..b)) = 0
    BY <2>2, FS_EmptySet
  <2>4. Cardinality(A \cup (p..b)) = a + Cardinality(p..b) - Cardinality(A \cap (p..b))
    BY <1>9, <2>1, FS_Union
  <2>5. b - p + 1 \in Int
    BY <1>1, <1>4
  <2> HIDE DEF a
  <2> QED
    BY <1>9, <2>1, <2>3, <2>4, <2>5
<1>17. \A b \in p..N : Rank(P, b) = a + (b - p + 1)
  <2> SUFFICES ASSUME NEW b \in p..N PROVE Rank(P, b) = a + (b - p + 1)
    OBVIOUS
  <2>1. \A k \in A : k <= b
    BY <1>1, <1>4, <1>9
  <2>2. \A k \in p..N : k <= b <=> k \in p..b
    BY <1>1, <1>4
  <2>3. \A k \in p..b : k \in p..N
    BY <1>1, <1>4
  <2>4. {k \in P : k <= b} = A \cup (p..b)
    BY <1>6, <2>1, <2>2, <2>3
  <2> QED
    BY <1>16, <2>4 DEF Rank
<1>18. Len(c) = a + (N - p + 1)
  <2>1. N \in p..N
    BY <1>1, <1>2
  <2> QED
    BY <1>6, <1>11, <1>16, <2>1
<1> HIDE DEF a, N
<1>19. \A n \in 1..a : c[n] = h[n] /\ c[n] \in Digits
  <2> SUFFICES ASSUME NEW n \in 1..a PROVE c[n] = h[n] /\ c[n] \in Digits
    OBVIOUS
  <2>1. PICK i \in A : Rank(A, i) = n /\ h[n] = head[i]
    BY <1>14
  <2>2. i \in P /\ Rank(P, i) = n /\ head[i] = text[i]
    BY <1>6, <1>7, <1>9, <1>15, <2>1
  <2>3. h[n] \in Digits
    BY <1>13, ElementOfSeq
  <2> QED
    BY <1>12, <2>1, <2>2, <2>3
<1>20. c[a + 1] = "point"
  <2>1. p \in p..N /\ p - p + 1 = 1
    BY <1>1, <1>2, <1>4
  <2>2. p \in P /\ Rank(P, p) = a + 1
    BY <1>6, <1>17, <2>1
  <2> QED
    BY <1>12, <2>2
<1>21. \A m \in 1..(N - p) : c[a + 1 + m] = tail[m] /\ tail[m] \in Digits
  <2> SUFFICES ASSUME NEW m \in 1..(N - p) PROVE c[a + 1 + m] = tail[m] /\ tail[m] \in Digits
    OBVIOUS
  <2>1. p + m \in p..N /\ a + ((p + m) - p + 1) = a + 1 + m
    BY <1>1, <1>4, <1>9
  <2>2. p + m \in P /\ Rank(P, p + m) = a + 1 + m
    BY <1>6, <1>17, <2>1
  <2>3. c[a + 1 + m] = text[p + m]
    BY <1>12, <2>2
  <2>4. tail[m] \in Digits
    BY <1>8, ElementOfSeq
  <2> QED
    BY <1>8, <2>3, <2>4
<1>22. "point" \notin Digits
  BY TokensApart
<1>23. /\ Len(c) \in Nat /\ 1 \in 1..Len(c) /\ a \in 1..Len(c) /\ 1 \in 1..a
       /\ a + 2 \in 1..Len(c) /\ a < Len(c) /\ a + 2 <= Len(c) /\ Len(c) = a + 1 + (N - p)
       /\ N - p \in Nat /\ 1 \in 1..(N - p) /\ Len(c) \in (a + 2)..Len(c)
  BY <1>1, <1>2, <1>4, <1>9, <1>18
<1>24. FirstDigit(c) = 1
  BY <1>11, <1>19, <1>23, FirstDigitAtOnce
<1>25. RunEnd(c, 1) = a
  BY <1>11, <1>19, <1>20, <1>22, <1>23, RunEndAt
<1>26. \A k \in (a + 2)..Len(c) : c[k] \in Digits
  <2> SUFFICES ASSUME NEW k \in (a + 2)..Len(c) PROVE c[k] \in Digits
    OBVIOUS
  <2>1. k - (a + 1) \in 1..(N - p) /\ a + 1 + (k - (a + 1)) = k
    BY <1>9, <1>23
  <2> QED
    BY <1>21, <2>1
<1>27. RunEnd(c, a + 2) = Len(c)
  <2>1. ~(Len(c) < Len(c))
    BY <1>23
  <2> QED
    BY <1>11, <1>23, <1>26, <2>1, RunEndAt
<1>28. SubSeq(c, 1, a) = h
  <2>1. a \in Int /\ 1 <= a /\ a - 1 + 1 = a
    BY <1>9, <1>23
  <2>2. /\ SubSeq(c, 1, a) \in Seq(Digits) /\ Len(SubSeq(c, 1, a)) = a - 1 + 1
        /\ \A i \in 1..(a - 1 + 1) : SubSeq(c, 1, a)[i] = c[1 + i - 1]
    BY <1>19, <2>1, SubSeqProperties
  <2>3. \A i \in 1..a : 1 + i - 1 = i
    OBVIOUS
  <2>4. Len(SubSeq(c, 1, a)) = a /\ \A i \in 1..a : SubSeq(c, 1, a)[i] = h[i]
    BY <1>19, <2>1, <2>2, <2>3
  <2> QED
    BY <1>13, <2>2, <2>4, SeqEqual
<1>29. SubSeq(c, a + 2, Len(c)) = tail
  <2> DEFINE r == SubSeq(c, a + 2, Len(c))
  <2>1. /\ a + 2 \in Int /\ Len(c) \in Int /\ a + 2 <= Len(c)
        /\ Len(c) - (a + 2) + 1 = N - p
    BY <1>9, <1>23
  <2>2. /\ r \in Seq(Digits) /\ Len(r) = Len(c) - (a + 2) + 1
        /\ \A i \in 1..(Len(c) - (a + 2) + 1) : r[i] = c[(a + 2) + i - 1]
    BY <1>26, <2>1, SubSeqProperties
  <2>3. \A i \in 1..(N - p) : (a + 2) + i - 1 = a + 1 + i
    BY <1>9, <1>23
  <2> HIDE DEF r
  <2>4. Len(r) = N - p /\ \A i \in 1..(N - p) : r[i] = tail[i]
    BY <1>21, <2>1, <2>2, <2>3
  <2>5. r = tail
    BY <1>8, <2>2, <2>4, SeqEqual
  <2> QED
    BY <2>5 DEF r
<1>30. FirstNumber(c) = [whole |-> h, frac |-> tail]
  <2>1. c[a + 2] \in Digits
    BY <1>23, <1>26
  <2> QED
    BY <1>20, <1>23, <1>24, <1>25, <1>27, <1>28, <1>29, <2>1 DEF FirstNumber
<1>31. end = p
  <2>1. p \in 1..(N + 1) /\ \A k \in 1..(p - 1) : k \in 1..N /\ k # p
    BY <1>1, <1>2, <1>4
  <2>2. \A k \in 1..(p - 1) : text[k] # "point"
    BY <1>2, <2>1
  <2>3. /\ end \in 1..(N + 1) /\ (end <= N => text[end] = "point")
        /\ \A k \in 1..(end - 1) : text[k] # "point"
    BY <2>1, <2>2
  <2> HIDE DEF end
  <2>4. p \notin 1..(end - 1)
    BY <2>3
  <2>5. end <= N
    BY <1>1, <1>2, <1>4, <2>3, <2>4
  <2>6. end \in 1..N
    BY <1>1, <2>3, <2>5
  <2> QED
    BY <1>2, <2>3, <2>5, <2>6
<1>32. Reading(text) = [whole |-> Keep(SubSeq(text, 1, end - 1), Digits),
                        frac |-> Keep(SubSeq(text, end + 1, N), Digits)]
  BY DEF Reading, N
<1>33. Reading(text) = [whole |-> h, frac |-> Keep(tail, Digits)]
  <2> HIDE DEF end
  <2> QED
    BY <1>31, <1>32 DEF h, head, tail
<1>34. Keep(tail, Digits) = tail
  <2>1. tail \in Seq(Tokens)
    BY <1>8, SeqMonotonic, TokensApart
  <2>2. Only(tail, Digits)
    BY <1>8, ElementOfSeq DEF Only
  <2> QED
    BY <2>1, <2>2, KeepsAll
<1>35. Cleaned(text) = c
  BY DEF Cleaned, c, S
<1> QED
  BY <1>30, <1>33, <1>34, <1>35

(* Of a plain amount the reading is what parse_indian_amount returns.      *)
LEMMA PlainIsRead ==
  ASSUME NEW text \in Seq(Tokens), Plain(text)
  PROVE  ParseAmount(text).value = Reading(text)
<1>1. ParseAmount(text).value = FirstNumber(Cleaned(text))
  BY PlainIsParsed
<1>2. CASE Has(text, {"point"})
  <2>1. PICK p \in 1..Len(text) : text[p] = "point"
    BY <1>2 DEF Has
  <2> QED
    BY <1>1, <2>1, PlainWithPoint
<1>3. CASE ~Has(text, {"point"})
  BY <1>1, <1>3, PlainWithoutPoint
<1> QED
  BY <1>2, <1>3

(* What FieldStatus makes of the statuses.                                 *)
LEMMA FieldStatusIs ==
  ASSUME NEW s \in Reads \cup Fails
  PROVE  /\ FieldStatus(s) \in {"EXACT", "NORMALIZED", "MISSING", "PARSE_FAILED"}
         /\ FieldStatus(s) \in {"EXACT", "NORMALIZED"} <=> s \in Reads
BY DEF FieldStatus, Reads, Fails

LEMMA DeclaredIs ==
  ASSUME NEW d \in DeclRow
  PROVE  /\ d \in DeclarationRows
         /\ d.field # "text" =>
              /\ Plain(d.raw) => d.value = Reading(d.raw)
              /\ d.value # NoNumber => Has(d.raw, Digits \cup {"nil"})
              /\ d.value # NoNumber <=> d.status \in {"EXACT", "NORMALIZED"}
<1> DEFINE value(item) == IF item.field = "text" THEN NoNumber ELSE ParseAmount(item.amount).value
<1>1. PICK i \in Nat, item \in Item : d = Declared(i, item)
  BY DEF DeclRow
<1>2. item.field \in Fields \cup {"text"} /\ item.amount \in Seq(Tokens)
  BY DEF Item
<1>3. /\ d = [affidavit |-> i, field |-> item.field, raw |-> item.amount,
              value |-> value(item), status |-> Status(item)]
      /\ d.field = item.field /\ d.raw = item.amount /\ d.status = Status(item)
  BY <1>1 DEF Declared
<1>4. d.field # "text" => d.value = ParseAmount(d.raw).value
  BY <1>1 DEF Declared
<1>5. d.field # "text" => d.status = FieldStatus(ParseAmount(d.raw).status)
  BY <1>3 DEF Status
<1>6. /\ ParseAmount(item.amount).value \in Number
      /\ ParseAmount(item.amount).status \in Reads \cup Fails
      /\ ParseAmount(item.amount).value # NoNumber <=> ParseAmount(item.amount).status \in Reads
      /\ ParseAmount(item.amount).value # NoNumber => Has(item.amount, Digits \cup {"nil"})
  BY <1>2, ParseAmountIs
<1>7. Plain(item.amount) => ParseAmount(item.amount).value = Reading(item.amount)
  BY <1>2, PlainIsRead
<1>8. d.field # "text" =>
        /\ Plain(d.raw) => d.value = Reading(d.raw)
        /\ d.value # NoNumber => Has(d.raw, Digits \cup {"nil"})
        /\ d.value # NoNumber <=> d.status \in {"EXACT", "NORMALIZED"}
  BY <1>3, <1>4, <1>5, <1>6, <1>7, FieldStatusIs
<1>9. value(item) \in Number
  <2>1. NoNumber \in Number
    BY EmptySeq DEF NoNumber, Number
  <2> QED
    BY <1>6, <2>1
<1>10. Status(item) \in {"EXACT", "NORMALIZED", "MISSING", "PARSE_FAILED"}
  BY <1>6, FieldStatusIs DEF Status
<1>11. d \in DeclarationRows
  <2> HIDE DEF value
  <2> QED
    BY <1>2, <1>3, <1>9, <1>10 DEF DeclarationRows
<1> QED
  BY <1>8, <1>11

(* Of every declared amount, however it is written, the table says what    *)
(* the text says if that is plain, no number for a text without a digit,   *)
(* unless it is NIL, and EXACT or NORMALIZED of nothing else than a number.*)
THEOREM AmountsRead == Spec => []AmountsAreRead
<1>1. Base => AmountsAreRead
  <2>1. SUFFICES ASSUME Base PROVE AmountsAreRead
    OBVIOUS
  <2>2. \A n \in Ids(db.declaration) : db.declaration[n] \in DeclRow
    BY <2>1, Columns, ElementOfSeq DEF Base, WellTyped, Ids
  <2> QED
    BY <2>2, DeclaredIs DEF AmountsAreRead
<1> QED
  BY <1>1, BaseInvariant, PTL

-----------------------------------------------------------------------------
(* The bounds of the runs, faults, crashes and reviewers.                  *)
Counted ==
  /\ Len(run) <= MaxRuns
  /\ faults \in 0..MaxFaults /\ crashes \in 0..MaxCrashes /\ closed \in 0..MaxClosed

LEMMA StepCounted == ASSUME Base, Counted, [Next]_vars PROVE Counted'
<1> USE BoundsAssumption
<1>1. run \in Seq({"RUNNING", "SUCCESS", "FAILED"}) /\ Len(run) \in Nat
  BY LenProperties DEF Base, WellTyped
<1>2. CASE StartRun
  <2>1. Len(run') = Len(run) + 1 /\ Len(run) < MaxRuns
    BY <1>1, <1>2, AppendProperties DEF StartRun
  <2> QED
    BY <1>1, <1>2, <2>1 DEF StartRun, Counted
<1>3. CASE FinishRun \/ FailRun
  <2>1. PICK s \in {"SUCCESS", "FAILED"} : run' = [run EXCEPT ![Len(run)] = s]
    BY <1>3 DEF FinishRun, FailRun
  <2>2. run # <<>>
    BY <1>3 DEF FinishRun, FailRun, Base, WellTyped
  <2>3. Len(run) \in 1..Len(run)
    BY <1>1, <2>2, EmptySeq
  <2>4. Len(run') = Len(run)
    BY <1>1, <2>1, <2>3, ExceptSeq
  <2> QED
    BY <1>3, <2>4 DEF FinishRun, FailRun, Counted
<1>4. CASE Fault \/ FetchUnread
  BY <1>4 DEF Fault, FetchUnread, Counted
<1>5. CASE Crash
  BY <1>5 DEF Crash, Counted
<1>6. CASE CloseReview
  BY <1>6 DEF CloseReview, Counted
<1>7. CASE Fetch \/ HandleUnreadable \/ LinkStep \/ QueueIdentity \/ GetSource
           \/ KnownAffidavit \/ InsertAffidavit \/ Declare \/ CloseSections \/ ResultsArrive
  BY <1>7, LinkStepIs
     DEF Counted, Fetch, HandleUnreadable, QueueIdentity, GetSource, KnownAffidavit,
              InsertAffidavit, Declare, CloseSections, ResultsArrive
<1>8. CASE UNCHANGED vars
  BY <1>8 DEF vars, Counted
<1> QED
  BY <1>2, <1>3, <1>4, <1>5, <1>6, <1>7, <1>8 DEF Next, Proceed, LinkStep

(* Every row of every table has its columns, amounts are numbers and the   *)
(* run is at a step that the collector has.                                *)
THEOREM AffidavitTypeCorrect == Spec => []TypeOK
<1>1. Init => Counted
  BY BoundsAssumption DEF Init, Counted
<1>2. Base /\ Counted /\ [Next]_vars => Counted'
  BY StepCounted
<1>3. Base /\ Counted => TypeOK
  <2>1. SUFFICES ASSUME Base, Counted PROVE TypeOK
    OBVIOUS
  <2>2. ASSUME NEW t \in Stored PROVE t \in Tables
    <3>1. t.declaration \in Seq(DeclarationRows)
      <4>1. t.declaration \in Seq(DeclRow) /\ DeclRow \subseteq DeclarationRows
        BY Columns, DeclaredIs
      <4> QED
        BY <4>1, SeqMonotonic
    <3>2. ItemRow = ReviewRows
      BY DEF ItemRow, ReviewRows, Labels
    <3> QED
      BY <3>1, <3>2 DEF Stored, Tables
  <2>3. step \in {"idle", "fetch", "unreadable", "link", "name", "narrow", "identity", "source", "affidavit",
                  "declare", "finish", "raise"}
    BY <2>1 DEF Base, WellTyped, Steps, Early, Linked
  <2> QED
    BY <2>1, <2>2, <2>3 DEF Base, WellTyped, Counted, TypeOK
<1> QED
  BY <1>1, <1>2, <1>3, BaseInvariant, PTL DEF Spec

-----------------------------------------------------------------------------
(* What a text declares.  The members of a sequence that are picked are    *)
(* copies of those at the places, in the order of the places.              *)
Steady(at, Q) == \A m, n \in Q : m < n => at[m] < at[n]

LEMMA PickedDomain ==
  ASSUME NEW N \in Nat, NEW P \in SUBSET (1..N), NEW s
  PROVE  Cardinality(P) \in Nat /\ DOMAIN Picked(s, P) = 1..Cardinality(P)
BY Ranked DEF Picked

Picks(s, P, at) ==
  /\ at \in [1..Cardinality(P) -> P] /\ Steady(at, 1..Cardinality(P))
  /\ \A i \in P : \E n \in 1..Cardinality(P) : at[n] = i
  /\ \A n \in 1..Cardinality(P) : Picked(s, P)[n] = s[at[n]]

LEMMA Picking ==
  ASSUME NEW N \in Nat, NEW P \in SUBSET (1..N), NEW s
  PROVE  \E at : Picks(s, P, at)
<1> DEFINE C == Cardinality(P)
           place(n) == CHOOSE i \in P : Rank(P, i) = n
           at == [n \in 1..C |-> place(n)]
<1>1. /\ C \in Nat /\ \A i \in P : Rank(P, i) \in 1..C
      /\ \A i, j \in P : i < j => Rank(P, i) < Rank(P, j)
      /\ \A n \in 1..C : \E i \in P : Rank(P, i) = n
  BY Ranked
<1>2. \A n \in 1..C : place(n) \in P /\ Rank(P, place(n)) = n
  BY <1>1
<1>3. Picked(s, P) = [n \in 1..C |-> s[place(n)]]
  BY DEF Picked
<1> HIDE DEF C, place
<1>4. at \in [1..C -> P]
  BY <1>2
<1>5. Steady(at, 1..C)
  <2> SUFFICES ASSUME NEW m \in 1..C, NEW n \in 1..C, m < n PROVE place(m) < place(n)
    BY DEF Steady
  <2> DEFINE i == place(m)
             j == place(n)
  <2>1. i \in P /\ j \in P /\ Rank(P, i) = m /\ Rank(P, j) = n
    BY <1>2
  <2> HIDE DEF i, j
  <2>2. i \in Nat /\ j \in Nat /\ m \in Nat /\ n \in Nat
    BY <1>1, <2>1
  <2>3. ~(j < i) /\ i # j
    BY <1>1, <2>1, <2>2
  <2>4. i < j
    BY <2>2, <2>3
  <2> QED
    BY <2>4 DEF i, j
<1>6. \A i \in P : \E n \in 1..C : at[n] = i
  <2> SUFFICES ASSUME NEW i \in P PROVE place(Rank(P, i)) = i /\ Rank(P, i) \in 1..C
    OBVIOUS
  <2> DEFINE j == place(Rank(P, i))
  <2>1. Rank(P, i) \in 1..C /\ i \in Nat
    BY <1>1
  <2>2. j \in P /\ Rank(P, j) = Rank(P, i)
    BY <1>2, <2>1
  <2> HIDE DEF j
  <2>3. j \in Nat /\ Rank(P, i) \in Nat
    BY <1>1, <2>1, <2>2
  <2>4. ~(j < i) /\ ~(i < j)
    BY <1>1, <2>2, <2>3
  <2>5. i = j
    BY <2>1, <2>3, <2>4
  <2> QED
    BY <2>1, <2>5 DEF j
<1>7. \A n \in 1..C : Picked(s, P)[n] = s[at[n]]
  BY <1>3
<1> HIDE DEF at
<1> QED
  BY <1>4, <1>5, <1>6, <1>7 DEF C, Picks

(* The amounts of a segment of items, of those with one field, are the     *)
(* amounts of the lines that it was picked from, of those of one kind.     *)
Entries(items, f) == {n \in DOMAIN items : items[n].field = f}
Mirrors(items, f, lines, L, at) ==
  /\ at \in [Entries(items, f) -> L] /\ Follows(Entries(items, f), L, at)
  /\ \A n \in Entries(items, f) : items[n].amount = lines[at[n]].amount

Copied(items, rows, f, D) ==
  /\ DOMAIN items = DOMAIN rows
  /\ \A n \in DOMAIN items : /\ items[n].amount = rows[n].amount
                             /\ items[n].field = f <=> rows[n] \in D
LinesIn(lines, P, D) == {i \in P : lines[i] \in D}

LEMMA Segmented ==
  ASSUME NEW N \in Nat, NEW P \in SUBSET (1..N), NEW lines, NEW S, NEW f, NEW D,
         Copied(S, Picked(lines, P), f, D)
  PROVE  \E at : Mirrors(S, f, lines, LinesIn(lines, P, D), at)
<1> DEFINE C == Cardinality(P)
           Q == Entries(S, f)
           L == LinesIn(lines, P, D)
           T == Picked(lines, P)
<1>1. C \in Nat /\ DOMAIN T = 1..C /\ DOMAIN S = 1..C
  BY PickedDomain DEF Copied
<1>2. PICK to : Picks(lines, P, to)
  BY Picking
<1>3. /\ to \in [1..C -> P] /\ Steady(to, 1..C) /\ \A i \in P : \E n \in 1..C : to[n] = i
      /\ \A n \in 1..C : T[n] = lines[to[n]]
  BY <1>2 DEF Picks
<1> DEFINE at == [n \in Q |-> to[n]]
<1>4. \A n \in 1..C : S[n].amount = T[n].amount /\ (S[n].field = f <=> T[n] \in D)
  BY <1>1 DEF Copied
<1>5. Q \subseteq 1..C /\ \A n \in 1..C : n \in Q <=> to[n] \in L
  <2>1. \A n : n \in Q <=> n \in 1..C /\ S[n].field = f
    BY <1>1 DEF Entries
  <2>2. \A n \in 1..C : to[n] \in L <=> T[n] \in D
    BY <1>3 DEF LinesIn
  <2> HIDE DEF Q, L, T
  <2> QED
    BY <1>4, <2>1, <2>2
<1>6. \A i \in L : \E n \in Q : to[n] = i
  <2>1. \A i \in L : i \in P
    BY DEF LinesIn
  <2> HIDE DEF Q, L
  <2> QED
    BY <1>3, <1>5, <2>1
<1>7. \A n \in Q : S[n].amount = lines[to[n]].amount
  BY <1>3, <1>4, <1>5
<1>8. \A i \in L : i \in P
  BY DEF LinesIn
<1> HIDE DEF T, Q, L, C
<1>9. at \in [Q -> L] /\ \A n \in Q : at[n] = to[n]
  BY <1>5
<1> HIDE DEF at
<1>10. \A m, n \in Q : m < n => at[m] < at[n]
  BY <1>3, <1>5, <1>9 DEF Steady
<1>11. L = {at[n] : n \in Q}
  <2>1. \A i \in L : \E n \in Q : i = at[n]
    BY <1>6, <1>9
  <2>2. \A n \in Q : at[n] \in L
    BY <1>9
  <2> QED
    BY <2>1, <2>2
<1>12. Follows(Q, L, at)
  BY <1>10, <1>11 DEF Follows
<1>13. \A n \in Q : S[n].amount = lines[at[n]].amount
  BY <1>7, <1>9
<1> QED
  BY <1>9, <1>12, <1>13 DEF Q, L, Mirrors

(* Rows and lines keep following each other when both are moved down.      *)
Shifts(Q, L, at, c, d, to) ==
  /\ to \in [{c + n : n \in Q} -> {d + l : l \in L}]
  /\ Follows({c + n : n \in Q}, {d + l : l \in L}, to)
  /\ \A n \in Q : to[c + n] = d + at[n]

LEMMA Moved ==
  ASSUME NEW Q \in SUBSET Nat, NEW L \in SUBSET Nat, NEW at \in [Q -> L], Follows(Q, L, at),
         NEW c \in Nat, NEW d \in Nat
  PROVE  \E to : Shifts(Q, L, at, c, d, to)
<1> DEFINE R == {c + n : n \in Q}
           M == {d + l : l \in L}
           to == [r \in R |-> d + at[r - c]]
<1>1. \A n \in Q : c + n \in R /\ (c + n) - c = n
  OBVIOUS
<1>2. \A r \in R : r - c \in Q /\ r \in Nat /\ r = c + (r - c)
  OBVIOUS
<1>3. \A l \in L : d + l \in M
  OBVIOUS
<1>4. \A k \in M : \E l \in L : k = d + l
  OBVIOUS
<1>5. \A n \in Q : at[n] \in L /\ at[n] \in Nat
  OBVIOUS
<1>6. L = {at[n] : n \in Q} /\ \A m, n \in Q : m < n => at[m] < at[n]
  BY DEF Follows
<1> HIDE DEF R, M
<1>7. to \in [R -> M]
  BY <1>2, <1>3, <1>5
<1>8. \A n \in Q : to[c + n] = d + at[n]
  BY <1>1
<1>9. \A r \in R : to[r] = d + at[r - c]
  OBVIOUS
<1> HIDE DEF to
<1>10. \A m, n \in R : m < n => to[m] < to[n]
  <2> SUFFICES ASSUME NEW m \in R, NEW n \in R, m < n PROVE to[m] < to[n]
    OBVIOUS
  <2>1. m - c < n - c
    BY <1>2
  <2>2. at[m - c] < at[n - c]
    BY <1>2, <1>6, <2>1
  <2>3. at[m - c] \in Nat /\ at[n - c] \in Nat
    BY <1>2, <1>5
  <2>4. d + at[m - c] < d + at[n - c]
    BY <2>2, <2>3
  <2> QED
    BY <1>9, <2>4
<1>11. M = {to[r] : r \in R}
  <2>1. \A k \in M : \E r \in R : k = to[r]
    <3> SUFFICES ASSUME NEW k \in M PROVE \E r \in R : k = to[r]
      OBVIOUS
    <3>1. PICK l \in L : k = d + l
      BY <1>4
    <3>2. PICK n \in Q : l = at[n]
      BY <1>6
    <3> QED
      BY <1>1, <1>8, <3>1, <3>2
  <2>2. \A r \in R : to[r] \in M
    BY <1>7
  <2> QED
    BY <2>1, <2>2
<1>12. Follows(R, M, to)
  BY <1>10, <1>11 DEF Follows
<1> QED
  BY <1>7, <1>8, <1>12 DEF R, M, Shifts

LEMMA LeastIs ==
  ASSUME NEW T \in SUBSET Nat, T # {}
  PROVE  Min(T) \in T /\ \A k \in T : Min(T) <= k
<1>1. \E m \in T : \A k \in T : m <= k
  BY LeastOf
<1> QED
  BY <1>1 DEF Min

LEMMA GreatestIs ==
  ASSUME NEW N \in Nat, NEW T \in SUBSET (1..N), T # {}
  PROVE  Max(T) \in T /\ \A k \in T : k <= Max(T)
<1> DEFINE U == {N - k : k \in T}
<1>0. \A k \in T : k \in Nat /\ N - k \in Nat
  OBVIOUS
<1>1. U \in SUBSET Nat /\ U # {}
  <2>1. \A u \in U : u \in Nat
    BY <1>0
  <2> QED
    BY <2>1
<1>2. \A k \in T : N - k \in U
  OBVIOUS
<1>3. PICK u \in U : \A k \in U : u <= k
  <2> HIDE DEF U
  <2> QED
    BY <1>1, LeastOf
<1>4. PICK m \in T : u = N - m
  OBVIOUS
<1>5. \A k \in T : m >= k
  <2> SUFFICES ASSUME NEW k \in T PROVE m >= k
    OBVIOUS
  <2>1. N - m <= N - k
    BY <1>2, <1>3, <1>4
  <2> QED
    BY <1>0, <2>1
<1>6. \E i \in T : \A k \in T : i >= k
  BY <1>5
<1>7. Max(T) \in T /\ \A k \in T : Max(T) >= k
  BY <1>6 DEF Max
<1> QED
  BY <1>7

(* The body of a section is the stretch of the text that Stands is about.  *)
Covers(text, name, lines, h) ==
  /\ h \in Nat
  /\ \A n \in 1..Len(text) : Stands(text, n, name) <=> \E p \in 1..Len(lines) : n = h + p
  /\ \A p \in 1..Len(lines) : h + p \in 1..Len(text) /\ lines[p] = text[h + p]

LEMMA BodyStands ==
  ASSUME NEW text \in Seq(Lines), NEW name, name # "HEADER"
  PROVE  Body(text, name) \in Seq(Lines) /\ \E h : Covers(text, name, Body(text, name), h)
<1> DEFINE N == Len(text)
           H == Heads(text)
           at == {i \in H : text[i].key = name}
<1>1. N \in Nat
  BY LenProperties
<1>2. \A i : i \in H <=> i \in 1..N /\ text[i].kind = "section"
  BY DEF Heads
<1>3. CASE at = {}
  <2>1. Body(text, name) = <<>>
    BY <1>3 DEF Body
  <2>2. \A n \in 1..N : ~Stands(text, n, name)
    <3> SUFFICES ASSUME NEW n \in 1..N, NEW h \in 1..(n - 1),
                        text[h].kind = "section" /\ text[h].key = name
                 PROVE  FALSE
      BY DEF Stands
    <3>1. h \in 1..N
      BY <1>1
    <3> QED
      BY <1>2, <1>3, <3>1
  <2>3. <<>> \in Seq(Lines) /\ Len(<<>>) = 0
    BY EmptySeq
  <2>4. Covers(text, name, <<>>, 0)
    BY <2>2, <2>3 DEF Covers
  <2> QED
    BY <2>1, <2>3, <2>4
<1>4. CASE at # {}
  <2> DEFINE h == Max(at)
             E == {i - 1 : i \in {i \in H : i > h}} \cup {N}
             e == Min(E)
  <2>1. at \in SUBSET (1..N)
    BY <1>2
  <2>2. h \in at /\ \A k \in at : k <= h
    <3> HIDE DEF at
    <3> QED
      BY <1>1, <1>4, <2>1, GreatestIs
  <2>3. h \in 1..N /\ text[h].kind = "section" /\ text[h].key = name
    BY <1>2, <2>2
  <2>4. Body(text, name) = SubSeq(text, h + 1, e)
    BY <1>4 DEF Body
  <2> HIDE DEF h
  <2>5. E \in SUBSET Nat /\ E # {} /\ \A k \in E : h <= k
    BY <1>1, <1>2, <2>3
  <2>6. N \in E /\ \A i \in H : i > h => i - 1 \in E
    OBVIOUS
  <2>7. \A k \in E : k = N \/ \E i \in H : i > h /\ k = i - 1
    OBVIOUS
  <2> HIDE DEF E
  <2>8. e \in E /\ \A k \in E : e <= k
    BY <2>5, LeastIs
  <2> HIDE DEF e
  <2>9. e \in Nat /\ h <= e /\ e <= N
    BY <2>5, <2>6, <2>8
  <2> DEFINE B == SubSeq(text, h + 1, e)
  <2>10. /\ B \in Seq(Lines) /\ Len(B) = e - h
         /\ \A p \in 1..(e - h) : B[p] = text[h + p]
    <3>1. h + 1 \in 1..(N + 1) /\ e \in h..N
      BY <1>1, <2>3, <2>9
    <3>2. B \in Seq(Lines)
      BY <1>1, <2>3, <2>9, SubSeqProperties
    <3>3. Len(B) = e - h
      BY <1>1, <2>3, <2>9, SubSeqProperties
    <3>4. \A p \in 1..(e - h) : B[p] = text[h + p]
      BY <1>1, <2>3, <2>9, SubSeqProperties
    <3> QED
      BY <3>2, <3>3, <3>4
  <2> HIDE DEF B
  <2>11. \A p \in 1..(e - h) : h + p \in 1..N
    BY <1>1, <2>3, <2>9
  <2>12. \A n \in 1..N : (h < n /\ n <= e) <=> \E p \in 1..(e - h) : n = h + p
    <3> SUFFICES ASSUME NEW n \in 1..N, h < n, n <= e PROVE \E p \in 1..(e - h) : n = h + p
      BY <1>1, <2>3, <2>9
    <3>1. n - h \in 1..(e - h) /\ n = h + (n - h)
      BY <1>1, <2>3, <2>9
    <3> QED
      BY <3>1
  <2>13. ASSUME NEW n \in 1..N, h < n, n <= e PROVE Stands(text, n, name)
    <3>1. h \in 1..(n - 1)
      BY <1>1, <2>3, <2>13
    <3>2. \A k \in (h + 1)..n : text[k].kind # "section"
      <4> SUFFICES ASSUME NEW k \in (h + 1)..n, text[k].kind = "section" PROVE FALSE
        OBVIOUS
      <4>1. k \in 1..N /\ k > h
        BY <1>1, <2>3, <2>13
      <4>2. e <= k - 1
        BY <1>2, <2>6, <2>8, <4>1
      <4> QED
        BY <1>1, <2>3, <2>9, <2>13, <4>1, <4>2
    <3>3. \A k \in n..N : ~(text[k].kind = "section" /\ text[k].key = name)
      <4> SUFFICES ASSUME NEW k \in n..N, text[k].kind = "section" /\ text[k].key = name PROVE FALSE
        OBVIOUS
      <4>1. k \in 1..N
        BY <1>1
      <4>2. k <= h
        BY <1>2, <2>2, <4>1
      <4> QED
        BY <1>1, <2>3, <2>13, <4>1, <4>2
    <3> QED
      BY <2>3, <3>1, <3>2, <3>3 DEF Stands
  <2>14. ASSUME NEW n \in 1..N, Stands(text, n, name) PROVE h < n /\ n <= e
    <3>1. PICK g \in 1..(n - 1) :
            /\ text[g].kind = "section" /\ text[g].key = name
            /\ \A k \in (g + 1)..n : text[k].kind # "section"
            /\ \A k \in n..N : ~(text[k].kind = "section" /\ text[k].key = name)
      BY <2>14 DEF Stands
    <3>2. g \in 1..N /\ g < n
      BY <1>1
    <3>3. g \in at
      BY <1>2, <3>1, <3>2
    <3>4. g <= h
      BY <2>2, <3>3
    <3>5. ~(g < h /\ h <= n)
      BY <1>1, <2>3, <3>1, <3>2
    <3>6. ~(n <= h)
      BY <1>1, <2>3, <3>1, <3>2
    <3>7. h = g
      BY <2>3, <3>2, <3>4, <3>5, <3>6
    <3>8. \A i \in H : i > h => i > n
      BY <1>1, <1>2, <3>1, <3>7
    <3>9. \A i \in H : i > h => n <= i - 1
      BY <1>1, <1>2, <3>8
    <3>10. \A k \in E : n <= k
      BY <2>7, <3>9
    <3> QED
      BY <2>8, <3>2, <3>7, <3>10
  <2>15. \A n \in 1..N : Stands(text, n, name) <=> \E p \in 1..Len(B) : n = h + p
    BY <2>10, <2>12, <2>13, <2>14
  <2>16. Covers(text, name, B, h)
    BY <2>3, <2>10, <2>11, <2>15 DEF Covers
  <2> QED
    BY <2>4, <2>10, <2>16 DEF B
<1> QED
  BY <1>3, <1>4

LEMMA PickedIn ==
  ASSUME NEW lines \in Seq(Lines), NEW P \in SUBSET (1..Len(lines))
  PROVE  /\ Picked(lines, P) \in Seq(Lines)
         /\ DOMAIN Picked(lines, P) = 1..Cardinality(P) /\ Cardinality(P) \in Nat
<1>1. Len(lines) \in Nat /\ \A i \in 1..Len(lines) : lines[i] \in Lines
  BY LenProperties, ElementOfSeq
<1>2. Cardinality(P) \in Nat /\ DOMAIN Picked(lines, P) = 1..Cardinality(P)
  BY <1>1, PickedDomain
<1>3. PICK at : Picks(lines, P, at)
  BY <1>1, Picking
<1>4. \A n \in 1..Cardinality(P) : Picked(lines, P)[n] \in Lines
  BY <1>1, <1>3 DEF Picks
<1>5. Picked(lines, P) \in [1..Cardinality(P) -> Lines]
  <2>1. Picked(lines, P) = [n \in 1..Cardinality(P) |-> Picked(lines, P)[n]]
    BY DEF Picked
  <2> QED
    BY <1>4, <2>1
<1> QED
  BY <1>2, <1>5, SeqDef

(* The items of a field come from the lines that declare it.               *)
Segment(lines, f) ==
  IF f = "income" THEN Income(lines)
  ELSE IF f = "liabilities" THEN Liabilities(lines) ELSE Assets(lines)

LEMMA AssetsMirror ==
  ASSUME NEW lines \in Seq(Lines), NEW f \in AssetKeys
  PROVE  \E at : Mirrors(Assets(lines), f, lines, {p \in 1..Len(lines) : Declares(lines[p], f)}, at)
<1> DEFINE P == {i \in 1..Len(lines) : IsRow(lines[i], AssetKeys)}
           T == Picked(lines, P)
           D == {l \in Lines : l.key = f}
           S == Assets(lines)
<1>1. Len(lines) \in Nat /\ \A i \in 1..Len(lines) : lines[i] \in Lines
  BY LenProperties, ElementOfSeq
<1>2. P \in SUBSET (1..Len(lines))
  OBVIOUS
<1>3. T \in Seq(Lines) /\ DOMAIN T = 1..Cardinality(P) /\ Cardinality(P) \in Nat
  BY <1>2, PickedIn
<1>4. S = [n \in DOMAIN T |-> [field |-> T[n].key, amount |-> T[n].amount]]
  BY DEF Assets, RowsOf
<1>5. f # "income" /\ f # "liabilities"
  BY DEF AssetKeys
<1>6. LinesIn(lines, P, D) = {p \in 1..Len(lines) : Declares(lines[p], f)}
  BY <1>1, <1>5 DEF IsRow, Declares, LinesIn
<1> HIDE DEF P, T, S
<1>7. DOMAIN S = DOMAIN T /\ \A n \in DOMAIN T : T[n] \in Lines
  <2>1. Len(T) \in Nat /\ DOMAIN T = 1..Len(T)
    BY <1>3, LenProperties
  <2> QED
    BY <1>3, <1>4, <2>1, ElementOfSeq
<1>8. \A n \in DOMAIN S : S[n].amount = T[n].amount /\ S[n].field = T[n].key
  BY <1>4, <1>7
<1>9. \A n \in DOMAIN S : S[n].field = f <=> T[n] \in D
  BY <1>7, <1>8
<1> HIDE DEF D
<1>10. \E at : Mirrors(S, f, lines, LinesIn(lines, P, D), at)
  <2>1. Copied(S, Picked(lines, P), f, D)
    BY <1>7, <1>8, <1>9 DEF T, Copied
  <2> QED
    BY <1>1, <1>2, <2>1, Segmented
<1> QED
  BY <1>6, <1>10 DEF S

LEMMA NamedMirror ==
  ASSUME NEW lines \in Seq(Lines), NEW P \in SUBSET (1..Len(lines)), NEW f
  PROVE  \E at : Mirrors(Named(Picked(lines, P), f), f, lines, P, at)
<1> DEFINE T == Picked(lines, P)
           S == Named(T, f)
<1>1. Len(lines) \in Nat /\ \A i \in 1..Len(lines) : lines[i] \in Lines
  BY LenProperties, ElementOfSeq
<1>2. T \in Seq(Lines)
  BY PickedIn
<1>3. S = [n \in DOMAIN T |-> [field |-> f, amount |-> T[n].amount]]
  BY DEF Named
<1>4. LinesIn(lines, P, Lines) = P
  BY <1>1 DEF LinesIn
<1> HIDE DEF T, S
<1>5. DOMAIN S = DOMAIN T /\ \A n \in DOMAIN T : T[n] \in Lines
  <2>1. Len(T) \in Nat /\ DOMAIN T = 1..Len(T)
    BY <1>2, LenProperties
  <2> QED
    BY <1>2, <1>3, <2>1, ElementOfSeq
<1>6. \A n \in DOMAIN S : S[n].amount = T[n].amount /\ S[n].field = f
  BY <1>3, <1>5
<1>7. \E at : Mirrors(S, f, lines, LinesIn(lines, P, Lines), at)
  <2>1. Copied(S, Picked(lines, P), f, Lines)
    BY <1>5, <1>6 DEF T, Copied
  <2> QED
    BY <1>1, <2>1, Segmented
<1> QED
  BY <1>4, <1>7 DEF S, T

LEMMA SegmentMirrors ==
  ASSUME NEW lines \in Seq(Lines), NEW f \in Fields
  PROVE  \E at : Mirrors(Segment(lines, f), f, lines,
                         {p \in 1..Len(lines) : Declares(lines[p], f)}, at)
<1> DEFINE L == {p \in 1..Len(lines) : Declares(lines[p], f)}
<1>1. Len(lines) \in Nat /\ \A i \in 1..Len(lines) : lines[i] \in Lines
  BY LenProperties, ElementOfSeq
<1>2. CASE f = "income"
  <2> DEFINE P == {i \in 1..Len(lines) : lines[i].kind = "triple"}
  <2>1. Segment(lines, f) = Named(Picked(lines, P), f)
    BY <1>2 DEF Segment, Income, Triples
  <2>2. L = P
    BY <1>2 DEF Declares
  <2>3. P \in SUBSET (1..Len(lines))
    OBVIOUS
  <2> HIDE DEF P, L
  <2> QED
    BY <2>1, <2>2, <2>3, NamedMirror DEF L
<1>3. CASE f = "liabilities"
  <2> DEFINE P == {i \in 1..Len(lines) : IsRow(lines[i], LiabilityKeys)}
  <2>1. Segment(lines, f) = Named(Picked(lines, P), f)
    BY <1>3 DEF Segment, Liabilities, RowsOf
  <2>2. L = P
    BY <1>3 DEF Declares, IsRow, LiabilityKeys
  <2>3. P \in SUBSET (1..Len(lines))
    OBVIOUS
  <2> HIDE DEF P, L
  <2> QED
    BY <2>1, <2>2, <2>3, NamedMirror DEF L
<1>4. CASE f \in AssetKeys
  <2>1. Segment(lines, f) = Assets(lines)
    BY <1>4 DEF Segment, AssetKeys
  <2> QED
    BY <1>4, <2>1, AssetsMirror
<1> QED
  BY <1>2, <1>3, <1>4, FieldsAssumption

(* What the other segments hold is text, and where the entries of a field  *)
(* lie in the items of a form.                                             *)
LEMMA FieldsAre ==
  /\ "text" \notin Fields /\ AssetKeys \subseteq Fields /\ "liabilities" \in Fields /\ "income" \in Fields
  /\ "liabilities" \notin AssetKeys /\ "income" \notin AssetKeys
BY FieldsAssumption DEF AssetKeys

LEMMA PlacesCounted ==
  ASSUME NEW N \in Nat, NEW T \in SUBSET (1..N)
  PROVE  Cardinality(T) \in Nat
<1>1. IsFiniteSet(1..N)
  BY FS_Interval
<1>2. IsFiniteSet(T)
  BY <1>1, FS_Subset
<1> QED
  BY <1>2, FS_CardinalityType

LEMMA TextRows ==
  ASSUME NEW N \in Nat, NEW f \in Fields
  PROVE  [n \in 1..N |-> TextRow] \in Seq(Item) /\ Entries([n \in 1..N |-> TextRow], f) = {}
<1>1. TextRow = [field |-> "text", amount |-> <<>>]
  BY DEF TextRow
<1>2. <<>> \in Seq(Tokens)
  BY EmptySeq
<1>3. TextRow \in Item /\ TextRow.field = "text"
  BY <1>1, <1>2 DEF Item
<1>4. [n \in 1..N |-> TextRow] \in Seq(Item)
  BY <1>3, SeqDef
<1>5. Entries([n \in 1..N |-> TextRow], f) = {}
  BY <1>3, FieldsAre DEF Entries
<1> QED
  BY <1>4, <1>5

LEMMA TextSegments ==
  ASSUME NEW lines \in Seq(Lines), NEW f \in Fields
  PROVE  /\ Education(lines) \in Seq(Item) /\ Entries(Education(lines), f) = {}
         /\ Profession(lines) \in Seq(Item) /\ Entries(Profession(lines), f) = {}
         /\ Cases(lines) \in Seq(Item) /\ Entries(Cases(lines), f) = {}
<1>1. Len(lines) \in Nat /\ Starts(lines) \in SUBSET (1..Len(lines))
  BY LenProperties DEF Starts
<1>2. Education(lines) \in Seq(Item) /\ Entries(Education(lines), f) = {}
  <2>1. Cardinality(Starts(lines)) \in Nat
    BY <1>1, PlacesCounted
  <2> QED
    BY <2>1, TextRows DEF Education
<1>3. <<>> \in Seq(Item) /\ Entries(<<>>, f) = {}
  <2>1. <<>> \in Seq(Item) /\ DOMAIN <<>> = {}
    BY EmptySeq
  <2> QED
    BY <2>1 DEF Entries
<1>4. Profession(lines) \in Seq(Item) /\ Entries(Profession(lines), f) = {}
  <2>1. [n \in 1..1 |-> TextRow] \in Seq(Item) /\ Entries([n \in 1..1 |-> TextRow], f) = {}
    BY TextRows
  <2>2. <<TextRow>> = [n \in 1..1 |-> TextRow]
    OBVIOUS
  <2> QED
    BY <1>3, <2>1, <2>2 DEF Profession
<1>5. Cases(lines) \in Seq(Item) /\ Entries(Cases(lines), f) = {}
  <2> DEFINE T == {i \in Starts(lines) : Told(Block(lines, i))}
  <2>1. T \in SUBSET (1..Len(lines))
    BY <1>1
  <2> HIDE DEF T
  <2>2. Cardinality(T) \in Nat
    BY <1>1, <2>1, PlacesCounted
  <2>3. [n \in 1..Cardinality(T) |-> TextRow] \in Seq(Item) /\ Entries([n \in 1..Cardinality(T) |-> TextRow], f) = {}
    BY <2>2, TextRows
  <2>4. Cases(lines) = <<>> \/ Cases(lines) = [n \in 1..Cardinality(T) |-> TextRow]
    BY DEF Cases, T
  <2> QED
    BY <1>3, <2>3, <2>4
<1> QED
  BY <1>2, <1>4, <1>5

LEMMA NamedIn ==
  ASSUME NEW T \in Seq(Lines), NEW g \in Fields
  PROVE  Named(T, g) \in Seq(Item) /\ \A f : f # g => Entries(Named(T, g), f) = {}
<1>1. Len(T) \in Nat /\ DOMAIN T = 1..Len(T) /\ \A n \in 1..Len(T) : T[n] \in Lines
  BY LenProperties, ElementOfSeq
<1>2. \A n \in 1..Len(T) : T[n].amount \in Seq(Tokens)
  BY <1>1 DEF Lines
<1>3. Named(T, g) = [n \in 1..Len(T) |-> [field |-> g, amount |-> T[n].amount]]
  BY <1>1 DEF Named
<1>4. \A n \in 1..Len(T) : [field |-> g, amount |-> T[n].amount] \in Item
  BY <1>2 DEF Item
<1>5. Named(T, g) \in [1..Len(T) -> Item]
  BY <1>3, <1>4
<1>6. \A f : f # g => Entries(Named(T, g), f) = {}
  BY <1>3 DEF Entries
<1> QED
  BY <1>1, <1>5, <1>6, SeqDef

LEMMA MoneySegments ==
  ASSUME NEW lines \in Seq(Lines), NEW f \in Fields
  PROVE  /\ Assets(lines) \in Seq(Item) /\ (f \notin AssetKeys => Entries(Assets(lines), f) = {})
         /\ Liabilities(lines) \in Seq(Item) /\ (f # "liabilities" => Entries(Liabilities(lines), f) = {})
         /\ Income(lines) \in Seq(Item) /\ (f # "income" => Entries(Income(lines), f) = {})
<1>1. Triples(lines) \in Seq(Lines) /\ \A keys : RowsOf(lines, keys) \in Seq(Lines)
  <2>1. \A P \in SUBSET (1..Len(lines)) : Picked(lines, P) \in Seq(Lines)
    BY PickedIn
  <2> QED
    BY <2>1 DEF Triples, RowsOf
<1>2. Income(lines) \in Seq(Item) /\ (f # "income" => Entries(Income(lines), f) = {})
  BY <1>1, NamedIn, FieldsAre DEF Income
<1>3. Liabilities(lines) \in Seq(Item) /\ (f # "liabilities" => Entries(Liabilities(lines), f) = {})
  BY <1>1, NamedIn, FieldsAre DEF Liabilities
<1>4. Assets(lines) \in Seq(Item) /\ (f \notin AssetKeys => Entries(Assets(lines), f) = {})
  <2> DEFINE P == {i \in 1..Len(lines) : IsRow(lines[i], AssetKeys)}
             T == Picked(lines, P)
  <2>1. P \in SUBSET (1..Len(lines)) /\ \A i \in P : lines[i].key \in AssetKeys
    BY DEF IsRow
  <2>2. Assets(lines) = [n \in DOMAIN T |-> [field |-> T[n].key, amount |-> T[n].amount]]
    BY DEF Assets, RowsOf
  <2> HIDE DEF P
  <2>3. T \in Seq(Lines) /\ DOMAIN T = 1..Cardinality(P) /\ Cardinality(P) \in Nat /\ Len(lines) \in Nat
    BY <2>1, PickedIn, LenProperties
  <2>4. PICK at : Picks(lines, P, at)
    BY <2>1, <2>3, Picking
  <2>5. \A n \in 1..Cardinality(P) : at[n] \in P /\ T[n] = lines[at[n]]
    BY <2>4 DEF Picks
  <2>6. \A n \in 1..Cardinality(P) : T[n].key \in AssetKeys
    BY <2>1, <2>5
  <2> HIDE DEF T
  <2>7. Len(T) \in Nat /\ DOMAIN T = 1..Len(T) /\ \A n \in 1..Len(T) : T[n] \in Lines
    BY <2>3, LenProperties, ElementOfSeq
  <2>8. \A n \in DOMAIN T : T[n].amount \in Seq(Tokens)
    BY <2>7 DEF Lines
  <2>9. \A n \in DOMAIN T : [field |-> T[n].key, amount |-> T[n].amount] \in Item
    BY <2>3, <2>6, <2>8, FieldsAre DEF Item
  <2>10. Assets(lines) \in [1..Cardinality(P) -> Item]
    BY <2>2, <2>3, <2>9
  <2>11. Assets(lines) \in Seq(Item)
    BY <2>3, <2>10, SeqDef
  <2>12. \A n \in DOMAIN Assets(lines) : Assets(lines)[n].field \in AssetKeys
    BY <2>2, <2>3, <2>6
  <2> QED
    BY <2>11, <2>12 DEF Entries
<1> QED
  BY <1>2, <1>3, <1>4

Lie(items, f, S, c) ==
  /\ \A n : n \in Entries(items, f) <=> \E q \in Entries(S, f) : n = c + q
  /\ \A q \in Entries(S, f) : items[c + q] = S[q]

Joins(A, B, C, f) ==
  /\ \A n : n \in Entries(C, f) <=> n \in Entries(A, f) \/ \E q \in Entries(B, f) : n = Len(A) + q
  /\ \A n \in Entries(A, f) : C[n] = A[n]
  /\ \A q \in Entries(B, f) : C[Len(A) + q] = B[q]

LEMMA Joined ==
  ASSUME NEW A \in Seq(Item), NEW B \in Seq(Item), NEW f
  PROVE  Joins(A, B, A \o B, f)
<1> DEFINE C == A \o B
           a == Len(A)
           b == Len(B)
<1>1. a \in Nat /\ b \in Nat /\ DOMAIN A = 1..a /\ DOMAIN B = 1..b
  BY LenProperties
<1>2. C \in Seq(Item) /\ Len(C) = a + b
  BY ConcatProperties
<1>3. \A i \in 1..(a + b) : C[i] = IF i <= a THEN A[i] ELSE B[i - a]
  BY ConcatProperties
<1>4. DOMAIN C = 1..(a + b)
  <2> HIDE DEF C
  <2> QED
    BY <1>2, LenProperties
<1> HIDE DEF C, a, b
<1>5. \A i \in 1..a : C[i] = A[i] /\ i \in 1..(a + b)
  BY <1>1, <1>3
<1>6. \A q \in 1..b : C[a + q] = B[q] /\ a + q \in 1..(a + b)
  <2> SUFFICES ASSUME NEW q \in 1..b PROVE C[a + q] = B[q] /\ a + q \in 1..(a + b)
    OBVIOUS
  <2>1. a + q \in 1..(a + b) /\ ~(a + q <= a) /\ (a + q) - a = q
    BY <1>1
  <2> QED
    BY <1>3, <2>1
<1>7. \A n \in 1..(a + b) : n \in 1..a \/ \E q \in 1..b : n = a + q
  <2> SUFFICES ASSUME NEW n \in 1..(a + b), n > a PROVE \E q \in 1..b : n = a + q
    BY <1>1
  <2>1. n - a \in 1..b /\ n = a + (n - a)
    BY <1>1
  <2> QED
    BY <2>1
<1>8. \A n : n \in Entries(C, f) => n \in Entries(A, f) \/ \E q \in Entries(B, f) : n = a + q
  <2> SUFFICES ASSUME NEW n \in Entries(C, f), n \notin Entries(A, f)
               PROVE  \E q \in Entries(B, f) : n = a + q
    OBVIOUS
  <2>1. n \in 1..(a + b) /\ C[n].field = f
    BY <1>4 DEF Entries
  <2>2. n \notin 1..a
    BY <1>1, <1>5, <2>1 DEF Entries
  <2>3. PICK q \in 1..b : n = a + q
    BY <1>7, <2>1, <2>2
  <2>4. q \in Entries(B, f)
    BY <1>1, <1>6, <2>1, <2>3 DEF Entries
  <2> QED
    BY <2>3, <2>4
<1>9. /\ \A n \in Entries(A, f) : n \in Entries(C, f) /\ C[n] = A[n]
      /\ \A q \in Entries(B, f) : a + q \in Entries(C, f) /\ C[a + q] = B[q]
  BY <1>1, <1>4, <1>5, <1>6 DEF Entries
<1> QED
  BY <1>8, <1>9 DEF C, a, Joins

LEMMA JoinedRight ==
  ASSUME NEW A \in Seq(Item), NEW B \in Seq(Item), NEW f, Entries(A, f) = {}
  PROVE  Lie(A \o B, f, B, Len(A)) /\ A \o B \in Seq(Item) /\ Len(A) \in Nat
<1>1. A \o B \in Seq(Item) /\ Len(A) \in Nat
  BY ConcatProperties, LenProperties
<1>2. Joins(A, B, A \o B, f)
  BY Joined
<1> QED
  BY <1>1, <1>2 DEF Joins, Lie

LEMMA JoinedLeft ==
  ASSUME NEW A \in Seq(Item), NEW B \in Seq(Item), NEW f, Entries(B, f) = {},
         NEW S, NEW c \in Nat, Lie(A, f, S, c)
  PROVE  Lie(A \o B, f, S, c) /\ A \o B \in Seq(Item)
<1>1. A \o B \in Seq(Item)
  BY ConcatProperties
<1>2. Joins(A, B, A \o B, f)
  BY Joined
<1>3. /\ \A n : n \in Entries(A \o B, f) <=> n \in Entries(A, f)
      /\ \A n \in Entries(A, f) : (A \o B)[n] = A[n]
  BY <1>2 DEF Joins
<1> QED
  BY <1>1, <1>3 DEF Lie

LEMMA JoinedNone ==
  ASSUME NEW A \in Seq(Item), NEW B \in Seq(Item), NEW f, Entries(A, f) = {}, Entries(B, f) = {}
  PROVE  Entries(A \o B, f) = {} /\ A \o B \in Seq(Item)
<1>1. A \o B \in Seq(Item)
  BY ConcatProperties
<1>2. Joins(A, B, A \o B, f)
  BY Joined
<1>3. \A n : n \notin Entries(A \o B, f)
  BY <1>2 DEF Joins
<1> QED
  BY <1>1, <1>3

(* The entries of a field lie together, as the segment of its section.     *)
LEMMA ItemsLie ==
  ASSUME NEW text \in Seq(Lines), NEW f \in Fields
  PROVE  \E c \in Nat : Lie(ParseForm(text).items, f, Segment(Body(text, Home(f)), f), c)
<1> DEFINE E == Education(Body(text, "EDUCATION"))
           P == Profession(Body(text, "PROFESSION"))
           A == Assets(Body(text, "ASSETS"))
           L == Liabilities(Body(text, "LIABILITIES"))
           C == Cases(Body(text, "CRIMINAL_CASES"))
           I == Income(Body(text, "INCOME"))
           S == Segment(Body(text, Home(f)), f)
<1>1. ParseForm(text).items = E \o P \o A \o L \o C \o I
  BY DEF ParseForm
<1>2. \A name : name # "HEADER" => Body(text, name) \in Seq(Lines)
  BY BodyStands
<1>3. E \in Seq(Item) /\ Entries(E, f) = {} /\ P \in Seq(Item) /\ Entries(P, f) = {}
      /\ C \in Seq(Item) /\ Entries(C, f) = {}
  BY <1>2, TextSegments
<1>4. /\ A \in Seq(Item) /\ (f \notin AssetKeys => Entries(A, f) = {})
      /\ L \in Seq(Item) /\ (f # "liabilities" => Entries(L, f) = {})
      /\ I \in Seq(Item) /\ (f # "income" => Entries(I, f) = {})
  BY <1>2, MoneySegments
<1>5. /\ f = "income" => S = I
      /\ f = "liabilities" => S = L
      /\ f \in AssetKeys => S = A
  BY FieldsAre DEF Segment, Home
<1> HIDE DEF E, P, A, L, C, I, S
<1>6. E \o P \in Seq(Item) /\ Entries(E \o P, f) = {}
  BY <1>3, JoinedNone
<1>7. CASE f \in AssetKeys
  <2>1. f # "income" /\ f # "liabilities"
    BY <1>7, FieldsAre
  <2> DEFINE c == Len(E \o P)
  <2>2. Lie(E \o P \o A, f, A, c) /\ E \o P \o A \in Seq(Item) /\ c \in Nat
    BY <1>4, <1>6, JoinedRight
  <2> HIDE DEF c
  <2>3. Lie(E \o P \o A \o L, f, A, c) /\ E \o P \o A \o L \in Seq(Item)
    BY <1>4, <2>1, <2>2, JoinedLeft
  <2>4. Lie(E \o P \o A \o L \o C, f, A, c) /\ E \o P \o A \o L \o C \in Seq(Item)
    BY <1>3, <2>2, <2>3, JoinedLeft
  <2>5. Lie(E \o P \o A \o L \o C \o I, f, A, c)
    BY <1>4, <2>1, <2>2, <2>4, JoinedLeft
  <2> QED
    BY <1>1, <1>5, <1>7, <2>2, <2>5 DEF S
<1>8. CASE f = "liabilities"
  <2>1. f # "income" /\ f \notin AssetKeys
    BY <1>8, FieldsAre
  <2>2. E \o P \o A \in Seq(Item) /\ Entries(E \o P \o A, f) = {}
    BY <1>4, <1>6, <2>1, JoinedNone
  <2> DEFINE c == Len(E \o P \o A)
  <2>3. Lie(E \o P \o A \o L, f, L, c) /\ E \o P \o A \o L \in Seq(Item) /\ c \in Nat
    BY <1>4, <2>2, JoinedRight
  <2> HIDE DEF c
  <2>4. Lie(E \o P \o A \o L \o C, f, L, c) /\ E \o P \o A \o L \o C \in Seq(Item)
    BY <1>3, <2>3, JoinedLeft
  <2>5. Lie(E \o P \o A \o L \o C \o I, f, L, c)
    BY <1>4, <2>1, <2>3, <2>4, JoinedLeft
  <2> QED
    BY <1>1, <1>5, <1>8, <2>3, <2>5 DEF S
<1>9. CASE f = "income"
  <2>1. f # "liabilities" /\ f \notin AssetKeys
    BY <1>9, FieldsAre
  <2>2. E \o P \o A \in Seq(Item) /\ Entries(E \o P \o A, f) = {}
    BY <1>4, <1>6, <2>1, JoinedNone
  <2>3. E \o P \o A \o L \in Seq(Item) /\ Entries(E \o P \o A \o L, f) = {}
    BY <1>4, <2>1, <2>2, JoinedNone
  <2>4. E \o P \o A \o L \o C \in Seq(Item) /\ Entries(E \o P \o A \o L \o C, f) = {}
    BY <1>3, <2>3, JoinedNone
  <2> DEFINE c == Len(E \o P \o A \o L \o C)
  <2>5. Lie(E \o P \o A \o L \o C \o I, f, I, c) /\ c \in Nat
    BY <1>4, <2>4, JoinedRight
  <2> HIDE DEF c
  <2> QED
    BY <1>1, <1>5, <1>9, <2>5 DEF S
<1> QED
  BY <1>7, <1>8, <1>9, FieldsAssumption

LEMMA LinesCovered ==
  ASSUME NEW s \in Shas, NEW f \in Fields, NEW lines, NEW h, Covers(Text[s], Home(f), lines, h),
         lines \in Seq(Lines)
  PROVE  \A n : n \in AmountLines[s][f] <=>
                   \E p \in 1..Len(lines) : n = h + p /\ Declares(lines[p], f)
<1> DEFINE text == Text[s]
<1>1. AmountLines[s][f] = {n \in 1..Len(text) : Stands(text, n, Home(f)) /\ Declares(text[n], f)}
  BY DEF AmountLines
<1>2. /\ \A n \in 1..Len(text) : Stands(text, n, Home(f)) <=> \E p \in 1..Len(lines) : n = h + p
      /\ \A p \in 1..Len(lines) : h + p \in 1..Len(text) /\ lines[p] = text[h + p]
  BY DEF Covers
<1> HIDE DEF text
<1>3. \A n \in AmountLines[s][f] : \E p \in 1..Len(lines) : n = h + p /\ Declares(lines[p], f)
  <2> SUFFICES ASSUME NEW n \in 1..Len(text), Stands(text, n, Home(f)), Declares(text[n], f)
               PROVE  \E p \in 1..Len(lines) : n = h + p /\ Declares(lines[p], f)
    BY <1>1
  <2>1. PICK p \in 1..Len(lines) : n = h + p
    BY <1>2
  <2>2. Declares(lines[p], f)
    BY <1>2, <2>1
  <2> QED
    BY <2>1, <2>2
<1>4. \A p \in 1..Len(lines) : Declares(lines[p], f) => h + p \in AmountLines[s][f]
  <2> SUFFICES ASSUME NEW p \in 1..Len(lines), Declares(lines[p], f)
               PROVE  h + p \in AmountLines[s][f]
    OBVIOUS
  <2>1. h + p \in 1..Len(text) /\ Stands(text, h + p, Home(f)) /\ Declares(text[h + p], f)
    BY <1>2
  <2> QED
    BY <1>1, <2>1
<1> QED
  BY <1>3, <1>4

(* One affidavit and one field: the rows are the entries of the form moved *)
(* to where its block begins, the lines those of the section's body moved  *)
(* to where it stands.                                                     *)
LinesOf(i, f) ==
  \E line \in [{n \in DeclaredBy(i) : db.declaration[n].field = f} ->
                 AmountLines[db.affidavit[i].sha][f]] :
    /\ Follows({n \in DeclaredBy(i) : db.declaration[n].field = f},
               AmountLines[db.affidavit[i].sha][f], line)
    /\ \A n \in {n \in DeclaredBy(i) : db.declaration[n].field = f} :
         db.declaration[n].raw = Text[db.affidavit[i].sha][line[n]].amount

LEMMA LinesKept ==
  ASSUME Base, StoredInFull, NEW i \in Ids(db.affidavit), NEW f \in Fields
  PROVE  LinesOf(i, f)
<1> DEFINE s == db.affidavit[i].sha
           text == Text[s]
           items == Form[s].items
           lines == Body(text, Home(f))
           S == Segment(lines, f)
           P == {p \in 1..Len(lines) : Declares(lines[p], f)}
           Q == Entries(S, f)
           R == {n \in DeclaredBy(i) : db.declaration[n].field = f}
           L == AmountLines[s][f]
<1>1. s \in Shas
  <2>1. db \in Stored
    BY DEF Base, WellTyped
  <2>2. db.affidavit[i] \in AffidavitRows
    BY <2>1, Columns, ElementOfSeq DEF Ids
  <2> QED
    BY <2>2 DEF AffidavitRows
<1>2. text \in Seq(Lines) /\ items = ParseForm(text).items
  BY <1>1, TextAssumption
<1>3. items \in Seq(Item)
  BY <1>1, FormAssumption DEF Affidavit
<1>4. Home(f) # "HEADER"
  BY DEF Home
<1>5. PICK o \in Nat :
        /\ DeclaredBy(i) = (o + 1)..(o + Len(items))
        /\ \A n \in 1..Len(items) : /\ db.declaration[o + n].field = items[n].field
                                    /\ db.declaration[o + n].raw = items[n].amount
  <2>1. InOrder(i, items)
    BY DEF StoredInFull
  <2>2. PICK o \in 0..Len(db.declaration) :
          /\ DeclaredBy(i) = (o + 1)..(o + Len(items))
          /\ \A n \in Ids(items) : /\ db.declaration[o + n].field = items[n].field
                                   /\ db.declaration[o + n].raw = items[n].amount
    BY <2>1 DEF InOrder
  <2>3. o \in Nat
    OBVIOUS
  <2> QED
    BY <2>2, <2>3 DEF Ids
<1> HIDE DEF text, items
<1>6. lines \in Seq(Lines) /\ \E h : Covers(text, Home(f), lines, h)
  BY <1>2, <1>4, BodyStands
<1>7. PICK h : Covers(text, Home(f), lines, h)
  BY <1>6
<1>8. PICK c \in Nat : Lie(items, f, S, c)
  BY <1>2, ItemsLie
<1> HIDE DEF lines
<1>9. h \in Nat /\ \A p \in 1..Len(lines) : lines[p] = text[h + p]
  BY <1>7 DEF Covers
<1>10. L = {h + p : p \in P}
  <2>1. \A n : n \in L <=> \E p \in 1..Len(lines) : n = h + p /\ Declares(lines[p], f)
    <3> HIDE DEF s
    <3> QED
      BY <1>1, <1>6, <1>7, LinesCovered DEF text
  <2>2. \A n : n \in L <=> \E p \in P : n = h + p
    BY <2>1
  <2> HIDE DEF L, P
  <2> QED
    BY <2>2
<1>11. S \in Seq(Item)
  BY <1>6, MoneySegments DEF Segment
<1>12. PICK at : Mirrors(S, f, lines, P, at)
  BY <1>6, SegmentMirrors
<1> HIDE DEF S
<1>13. Q \in SUBSET Nat /\ P \in SUBSET Nat
  <2>1. Len(S) \in Nat /\ DOMAIN S = 1..Len(S) /\ Len(lines) \in Nat
    BY <1>6, <1>11, LenProperties
  <2> QED
    BY <2>1 DEF Entries
<1>14. \A p \in P : p \in 1..Len(lines)
  OBVIOUS
<1>15. \A n : n \in Entries(items, f) <=> n \in 1..Len(items) /\ items[n].field = f
  BY <1>3, LenProperties DEF Entries
<1>16. Len(items) \in Nat
  BY <1>3, LenProperties
<1> HIDE DEF P
<1>17. at \in [Q -> P] /\ Follows(Q, P, at) /\ \A q \in Q : S[q].amount = lines[at[q]].amount
  BY <1>12 DEF Mirrors
<1>18. \A n : n \in Entries(items, f) <=> \E q \in Q : n = c + q
  BY <1>8 DEF Lie
<1>19. \A q \in Q : items[c + q] = S[q]
  BY <1>8 DEF Lie
<1> HIDE DEF Q
<1>20. \A q \in Q : c + q \in 1..Len(items) /\ items[c + q].field = f
  BY <1>15, <1>18
<1>21. \A q \in Q : /\ (o + c) + q \in DeclaredBy(i) /\ db.declaration[(o + c) + q].field = f
                    /\ db.declaration[(o + c) + q].raw = items[c + q].amount
  <2> SUFFICES ASSUME NEW q \in Q
               PROVE  /\ (o + c) + q \in DeclaredBy(i) /\ db.declaration[(o + c) + q].field = f
                      /\ db.declaration[(o + c) + q].raw = items[c + q].amount
    OBVIOUS
  <2>1. c + q \in 1..Len(items) /\ items[c + q].field = f
    BY <1>20
  <2>2. (o + c) + q = o + (c + q) /\ o + (c + q) \in (o + 1)..(o + Len(items))
    BY <1>13, <1>16, <2>1
  <2> QED
    BY <1>5, <2>1, <2>2
<1>22. \A n \in R : \E q \in Q : n = (o + c) + q
  <2> SUFFICES ASSUME NEW n \in DeclaredBy(i), db.declaration[n].field = f
               PROVE  \E q \in Q : n = (o + c) + q
    OBVIOUS
  <2>1. n \in (o + 1)..(o + Len(items)) /\ n \in Nat
    BY <1>5, <1>16
  <2>2. PICK m \in 1..Len(items) : n = o + m
    BY <1>16, <2>1, Offset
  <2>3. m \in Entries(items, f)
    BY <1>5, <1>15, <2>2
  <2>4. PICK q \in Q : m = c + q
    BY <1>18, <2>3
  <2>5. n = (o + c) + q
    BY <1>13, <2>2, <2>4
  <2> QED
    BY <2>5
<1>23. R = {(o + c) + q : q \in Q}
  <2>1. \A q \in Q : (o + c) + q \in R
    BY <1>21
  <2> HIDE DEF R
  <2> QED
    BY <1>22, <2>1
<1>24. PICK to : Shifts(Q, P, at, o + c, h, to)
  <2>1. o + c \in Nat
    OBVIOUS
  <2> QED
    BY <1>9, <1>13, <1>17, <2>1, Moved
<1> HIDE DEF R, L
<1>25. /\ to \in [R -> L] /\ Follows(R, L, to)
       /\ \A q \in Q : to[(o + c) + q] = h + at[q]
  BY <1>10, <1>23, <1>24 DEF Shifts
<1>26. \A n \in R : db.declaration[n].raw = text[to[n]].amount
  <2> SUFFICES ASSUME NEW n \in R PROVE db.declaration[n].raw = text[to[n]].amount
    OBVIOUS
  <2>1. PICK q \in Q : n = (o + c) + q
    BY <1>22
  <2>2. db.declaration[n].raw = S[q].amount
    BY <1>19, <1>21, <2>1
  <2>3. at[q] \in P
    BY <1>17
  <2>4. S[q].amount = lines[at[q]].amount
    BY <1>17
  <2>5. lines[at[q]] = text[h + at[q]]
    BY <1>9, <1>14, <2>3
  <2>6. to[n] = h + at[q]
    BY <1>25, <2>1
  <2> QED
    BY <2>2, <2>4, <2>5, <2>6
<1> QED
  BY <1>25, <1>26 DEF R, L, text, LinesOf

(* An affidavit has one row for every amount that its text declares and    *)
(* none besides, with what the line says and in the order of the lines.    *)
THEOREM LinesStored == Spec => []LinesAreStored
<1>1. Base /\ StoredInFull => LinesAreStored
  <2>1. SUFFICES ASSUME Base, StoredInFull PROVE LinesAreStored
    OBVIOUS
  <2>2. \A i \in Ids(db.affidavit), f \in Fields : LinesOf(i, f)
    BY <2>1, LinesKept
  <2> QED
    BY <2>2 DEF LinesAreStored, LinesOf
<1> QED
  BY <1>1, BaseInvariant, NothingLeftOut, PTL

-----------------------------------------------------------------------------
(* The reviews of u are those of t and, of the questions Q about source s, *)
(* those that were not open; each is there, whatever became of it.         *)
Question(s, q) == [source |-> s, type |-> q[1], field |-> q[2], status |-> "OPEN"]
Puts(t, u, s, Q) ==
  /\ Extends(t.review, u.review)
  /\ \A q \in Q : \E i \in Ids(u.review) : [u.review[i] EXCEPT !.status = "OPEN"] = Question(s, q)
  /\ \A i \in Ids(u.review) : i \in Ids(t.review) \/ \E q \in Q : u.review[i] = Question(s, q)

LEMMA PutsNothing ==
  ASSUME NEW t \in Stored, NEW u, u.review = t.review, NEW s
  PROVE  Puts(t, u, s, {})
<1>1. Extends(t.review, u.review)
  BY Columns, ExtendsItself
<1> QED
  BY <1>1 DEF Puts

HasItem(items, item) == \E i \in Ids(items) : items[i] = item
LEMMA QueuedIn ==
  ASSUME NEW t \in Stored, NEW item \in ItemRow
  PROVE  HasItem(Queued(t, item).review, item)
BY Queueing DEF HasItem

(* One more question is put as add_review puts it.                         *)
LEMMA PutsMore ==
  ASSUME NEW t \in Stored, NEW u \in Stored, NEW w \in Stored, NEW s, NEW Q, NEW type, NEW f,
         Puts(t, u, s, Q), Review(s, type, f) \in ItemRow, w = Queued(u, Review(s, type, f))
  PROVE  Puts(t, w, s, Q \cup {<<type, f>>})
<1> DEFINE item == Review(s, type, f)
<1>1. item = Question(s, <<type, f>>) /\ [item EXCEPT !.status = "OPEN"] = item
  BY DEF Review, Question
<1>2. item \in ItemRow /\ w = Queued(u, item)
  OBVIOUS
<1> HIDE DEF item
<1>3. /\ Grows(u, w) /\ \E i \in Ids(w.review) : w.review[i] = item
      /\ w.review = u.review \/ w.review = Append(u.review, item)
  <2>1. Grows(u, Queued(u, item))
    BY <1>2, Queueing
  <2>2. \E i \in Ids(w.review) : w.review[i] = item
    <3>1. HasItem(Queued(u, item).review, item)
      BY <1>2, QueuedIn
    <3> QED
      BY <1>2, <3>1 DEF HasItem
  <2>3. \/ Queued(u, item).review = u.review
        \/ Queued(u, item).review = Append(u.review, item)
    BY <1>2, Queueing
  <2> QED
    BY <1>2, <2>1, <2>2, <2>3
<1>4. /\ t.review \in Seq(ItemRow) /\ u.review \in Seq(ItemRow) /\ w.review \in Seq(ItemRow)
  BY Columns
<1>5. Extends(t.review, w.review)
  BY <1>3, <1>4, ExtendsOn DEF Puts, Grows
<1>6. \A i \in Ids(u.review) : i \in Ids(w.review) /\ w.review[i] = u.review[i]
  BY <1>3, <1>4, StaysIn DEF Grows
<1>7. ASSUME NEW q \in Q \cup {<<type, f>>}
      PROVE  \E i \in Ids(w.review) : [w.review[i] EXCEPT !.status = "OPEN"] = Question(s, q)
  <2>1. CASE q \in Q
    BY <1>6, <2>1 DEF Puts
  <2>2. CASE q = <<type, f>>
    BY <1>1, <1>3, <2>2
  <2> QED
    BY <2>1, <2>2
<1>8. ASSUME NEW i \in Ids(w.review), i \notin Ids(t.review)
      PROVE  \E q \in Q \cup {<<type, f>>} : w.review[i] = Question(s, q)
  <2>1. CASE i \in Ids(u.review)
    BY <1>6, <1>8, <2>1 DEF Puts
  <2>2. CASE i \notin Ids(u.review)
    <3>1. w.review = Append(u.review, item)
      BY <1>3, <1>8, <2>2
    <3>2. /\ Ids(Append(u.review, item)) = Ids(u.review) \cup {Len(u.review) + 1}
          /\ Append(u.review, item)[Len(u.review) + 1] = item
      BY <1>2, <1>4, Appended
    <3>3. w.review[i] = item
      BY <1>8, <2>2, <3>1, <3>2
    <3> QED
      BY <1>1, <3>3
  <2> QED
    BY <2>1, <2>2
<1> QED
  BY <1>5, <1>7, <1>8 DEF Puts

(* It stays so when an item is closed that both have.                      *)
LEMMA PutsClosed ==
  ASSUME NEW t \in Stored, NEW u \in Stored, NEW v, NEW w, NEW i \in Ids(t.review), NEW s, NEW Q,
         Puts(t, u, s, Q), Closes(t, v, i), Closes(u, w, i)
  PROVE  Puts(v, w, s, Q)
<1>1. /\ t.review \in Seq(ItemRow) /\ u.review \in Seq(ItemRow)
      /\ Ids(v.review) = Ids(t.review) /\ Ids(w.review) = Ids(u.review)
  BY Columns DEF Closes, Ids
<1>2. \A j \in Ids(t.review) : j \in Ids(u.review) /\ u.review[j] = t.review[j]
  BY <1>1, StaysIn DEF Puts
<1>3. \A j \in Ids(t.review) : w.review[j] = v.review[j]
  BY <1>2 DEF Closes
<1>4. Extends(v.review, w.review)
  <2>1. Len(v.review) <= Len(w.review)
    BY DEF Closes, Puts, Extends
  <2> QED
    BY <1>1, <1>3, <2>1 DEF Extends
<1>5. \A j \in Ids(u.review) : [w.review[j] EXCEPT !.status = "OPEN"] = [u.review[j] EXCEPT !.status = "OPEN"]
  <2>1. u.review[i] \in ItemRow
    BY <1>1, <1>2, ElementOfSeq DEF Ids
  <2>2. [[u.review[i] EXCEPT !.status = "CLOSED"] EXCEPT !.status = "OPEN"] = [u.review[i] EXCEPT !.status = "OPEN"]
    BY <2>1 DEF ItemRow
  <2> QED
    BY <2>2 DEF Closes
<1>6. \A j \in Ids(u.review) : j \notin Ids(t.review) => w.review[j] = u.review[j]
  BY DEF Closes
<1>7. \A q \in Q : \E j \in Ids(w.review) : [w.review[j] EXCEPT !.status = "OPEN"] = Question(s, q)
  BY <1>1, <1>5 DEF Puts
<1>8. \A j \in Ids(w.review) : j \in Ids(v.review) \/ \E q \in Q : w.review[j] = Question(s, q)
  BY <1>1, <1>6 DEF Puts
<1> QED
  BY <1>4, <1>7, <1>8 DEF Puts

(* What the session has written of the document, step by step: its source, *)
(* its affidavit, l of its declarations, and the questions about them.     *)
Based == tx.source = IF Ledger!New(doc) THEN Append(db.source, doc) ELSE db.source
Alone == tx.affidavit = db.affidavit /\ tx.declaration = db.declaration
Row(o, s) ==
  [person |-> o.person, election |-> o.election, candidacy |-> o.candidacy,
   url |-> doc.url, sha |-> doc.sha, source |-> s,
   outcome |-> IF Unread[doc.sha] = {} THEN "SUCCESS" ELSE "PARTIAL"]
Titled(s) ==
  \E o \in Owners[known][doc.sha] :
    /\ \A i \in Ids(db.affidavit) : db.affidavit[i].sha = doc.sha => db.affidavit[i].person # o.person
    /\ tx.affidavit = Append(db.affidavit, Row(o, s))
Listed(l) ==
  /\ Len(tx.declaration) = Len(db.declaration) + l
  /\ \A n \in 1..l :
       tx.declaration[Len(db.declaration) + n] = Declared(Len(db.affidavit) + 1, F.items[n])
Doubted(l) == {<<"FIELD", F.items[n].field>> : n \in {m \in 1..l : Status(F.items[m]) \in Reviewable}}
InDoubt == \E m, n \in 1..known : m <= n /\ ~Certain[m][n][doc.sha]
Referred(s) ==
  /\ Alone
  /\ \/ Puts(db, tx, s, {<<"DOCUMENT", "document_text">>})
     \/ doc.sha \in Readable /\ InDoubt /\ Puts(db, tx, s, {<<"IDENTITY", "candidate_name">>})
Attributed(s) ==
  /\ doc.sha \in Readable /\ Titled(s) /\ Listed(Len(F.items))
  /\ Puts(db, tx, s, Ledger!Changed(doc) \cup {<<"FIELD", f>> : f \in Unread[doc.sha]})
Finished ==
  \/ tx = db
  \/ /\ Based
     /\ \E s \in Ids(tx.source) : tx.source[s].sha = doc.sha /\ (Referred(s) \/ Attributed(s))

(* Between the lookups: the id has settled nothing, and once the people of *)
(* the name are known, there is doubt or it is down to one candidacy.      *)
Unknown == \E m \in 1..known : ~IdSettles(Registry[m], F)
Single  == (cur.hits = {} /\ \E p : cur.people = {p}) \/ (cur.people = {} /\ Sole(cur.hits) # {})
Draft ==
  /\ step \in Textual => doc.sha \in Readable
  /\ step = "name" => Unknown
  /\ step = "narrow" => InDoubt \/ (Unknown /\ Single)
  /\ step = "identity" => InDoubt
  /\ step = "affidavit" => Based /\ Alone /\ Puts(db, tx, SourceId, Ledger!Changed(doc))
  /\ step = "declare" =>
       /\ Based /\ Titled(SourceId) /\ cur.affidavit = Len(db.affidavit) + 1 /\ Listed(cur.item - 1)
       /\ Puts(db, tx, SourceId, Ledger!Changed(doc) \cup Doubted(cur.item - 1))
  /\ step = "finish" => Finished

(* A pair of snapshots that does not settle whose the form is is a doubt.  *)
LEMMA Doubtful ==
  ASSUME known \in Ids(Registry), doc \in Document, NEW m \in 1..known, NEW n \in 1..known, m <= n,
         ~Doubtless(Registry[m], Registry[n], F)
  PROVE  InDoubt
<1>1. m \in Ids(Registry) /\ n \in Ids(Registry) /\ doc.sha \in Shas
  BY RegistryAssumption, LenProperties DEF Ids, Document
<1>2. Certain[m][n][doc.sha] = Doubtless(Registry[m], Registry[n], F)
  BY <1>1 DEF Certain, F
<1> QED
  BY <1>2 DEF InDoubt

LEMMA NowIsKnown ==
  ASSUME known \in Ids(Registry)
  PROVE  known \in 1..known /\ known <= known
<1>1. known \in Nat /\ 1 <= known
  BY DEF Ids
<1> QED
  BY <1>1

(* An id that is internal, or whose one row does not agree.                *)
LEMMA IdUndecided ==
  ASSUME known \in Ids(Registry), doc \in Document, LookupId, step' = "identity"
  PROVE  InDoubt
<1>1. SUFFICES ~Doubtless(Reg, Reg, F)
  BY NowIsKnown, Doubtful DEF Reg
<1>2. CASE F.ext \in Internal
  BY <1>2 DEF Doubtless
<1>3. CASE F.ext \notin Internal
  <2>1. PICK c \in ById(F) : ~Agrees(Reg.election[Reg.candidacy[c].election], F)
    BY <1>3 DEF LookupId
  <2>2. PICK k \in Ids(Reg.csi) : Identified(Reg, F) = {k} /\ Reg.csi[k].candidacy = c
    BY <2>1 DEF ById, Sole, Holders, Identified
  <2>3. ~IdSettles(Reg, F)
    BY <2>1, <2>2 DEF IdSettles, Fitting
  <2>4. Identified(Reg, F) # {}
    BY <2>2
  <2> QED
    BY <2>3, <2>4 DEF Doubtless
<1> QED
  BY <1>2, <1>3

LEMMA IdUnknown ==
  ASSUME known \in Ids(Registry), ById(F) = {}
  PROVE  Unknown
<1>1. ~IdSettles(Reg, F)
  <2>1. SUFFICES ASSUME NEW k \in Ids(Reg.csi), Identified(Reg, F) = {k} PROVE FALSE
    BY DEF IdSettles
  <2>2. k \in Sole(Holders(F))
    BY <2>1 DEF Sole, Holders, Identified
  <2>3. Reg.csi[k].candidacy \in ById(F)
    BY <2>2 DEF ById
  <2> QED
    BY <2>3
<1> QED
  BY <1>1, NowIsKnown DEF Unknown, Reg

LEMMA NameUndecided ==
  ASSUME known \in Ids(Registry), doc \in Document, Unknown, ~NameSettles(Reg, F)
  PROVE  InDoubt
<1>1. PICK m \in 1..known : ~IdSettles(Registry[m], F)
  BY DEF Unknown
<1>2. ~Doubtless(Registry[m], Registry[known], F)
  BY <1>1 DEF Doubtless, Reg
<1>3. m <= known
  BY DEF Ids
<1> QED
  BY <1>2, <1>3, NowIsKnown, Doubtful

(* Of a name that settles it, one person is pursued and one candidacy fits.*)
LEMMA NameDecided ==
  ASSUME NameSettles(Reg, F)
  PROVE  \E p, c : People(F) = {p} /\ Pursued(F) = {p} /\ Fits(p, F) = {c}
<1>1. PICK p \in Ids(Reg.person), c \in Fitting(Reg, F) :
             /\ Namesakes(Reg, F) = {p}
             /\ {d \in Fitting(Reg, F) : Reg.candidacy[d].person = p} = {c}
  BY DEF NameSettles
<1>2. People(F) = {p}
  BY <1>1 DEF People, Namesakes
<1>3. Fits(p, F) = {c}
  BY <1>1 DEF Fits, Fitting
<1>4. Pursued(F) = {p}
  BY <1>2 DEF Pursued, Sole
<1> QED
  BY <1>2, <1>3, <1>4

(* A candidacy that there is evidence for is one of those the ledger has.  *)
LEMMA EvidenceOwns ==
  ASSUME known \in Ids(Registry), doc \in Document, NEW c, Evidence(c, F)
  PROVE  [person |-> Reg.candidacy[c].person, election |-> Reg.candidacy[c].election, candidacy |-> c]
           \in Owners[known][doc.sha]
<1>1. c \in Fitting(Reg, F)
  BY DEF Evidence, Fitting
<1>2. \/ \E k \in Identified(Reg, F) : Reg.csi[k].candidacy = c
      \/ Reg.candidacy[c].person \in Namesakes(Reg, F)
  BY Registered DEF Evidence, Identified, Namesakes
<1>3. [person |-> Reg.candidacy[c].person, election |-> Reg.candidacy[c].election, candidacy |-> c]
           \in Claimants(Reg, F)
  BY <1>1, <1>2 DEF Claimants
<1>4. Owners[known][doc.sha] = Claimants(Reg, F)
  BY DEF Owners, Reg, F, Document
<1> QED
  BY <1>3, <1>4

(* Owners stay owners when results arrive.                                 *)
LEMMA OwnersStay ==
  ASSUME known \in Ids(Registry), known' \in Ids(Registry), known <= known', doc \in Document, doc' = doc
  PROVE  Owners[known][doc.sha] \subseteq Owners[known'][doc.sha]
<1>1. SUFFICES ASSUME NEW o \in Owners[known][doc.sha] PROVE o \in Owners[known'][doc.sha]
  OBVIOUS
<1>2. Owners[known][doc.sha] = Claimants(Reg, F) /\ Owners[known'][doc.sha] = Claimants(Reg', F)
  BY DEF Owners, Reg, F, Document
<1>3. PICK c \in Fitting(Reg, F) :
        /\ \/ \E k \in Identified(Reg, F) : Reg.csi[k].candidacy = c
           \/ Reg.candidacy[c].person \in Namesakes(Reg, F)
        /\ o = [person |-> Reg.candidacy[c].person, election |-> Reg.candidacy[c].election, candidacy |-> c]
  BY <1>1, <1>2 DEF Claimants
<1>4. Evidence(c, F)
  BY <1>3 DEF Fitting, Identified, Namesakes, Evidence
<1>5. /\ Evidence(c, F)' /\ Reg'.candidacy[c] = Reg.candidacy[c]
      /\ Reg'.election[Reg.candidacy[c].election] = Reg.election[Reg.candidacy[c].election]
  <2>1. F' = F
    BY DEF F
  <2>2. \A d, form : Evidence(d, form) => Evidence(d, form)' /\ Reg'.candidacy[d] = Reg.candidacy[d]
                      /\ Reg'.election[Reg.candidacy[d].election] = Reg.election[Reg.candidacy[d].election]
    BY EvidenceStays
  <2> QED
    BY <1>4, <2>1, <2>2 DEF Evidence
<1>6. /\ c \in Fitting(Reg', F)
      /\ \/ \E k \in Identified(Reg', F) : Reg'.csi[k].candidacy = c
         \/ Reg'.candidacy[c].person \in Namesakes(Reg', F)
  <2>1. c \in Ids(Reg'.candidacy) /\ Agrees(Reg'.election[Reg'.candidacy[c].election], F)
    BY <1>5 DEF Evidence, F, Agrees
  <2>2. Reg'.candidacy[c].person \in Ids(Reg'.person)
    BY <2>1, RegistryAssumption DEF Reg
  <2>3. \/ \E k \in Ids(Reg'.csi) : Reg'.csi[k].value = F.ext /\ Reg'.csi[k].candidacy = c
        \/ Reg'.person[Reg'.candidacy[c].person] = F.name
    BY <1>5 DEF Evidence, F
  <2> QED
    BY <2>1, <2>2, <2>3 DEF Fitting, Identified, Namesakes
<1> QED
  BY <1>2, <1>3, <1>5, <1>6 DEF Claimants

(* The outcome of a form is PARTIAL if something of it could not be read.  *)
LEMMA OutcomeIs ==
  ASSUME doc \in Document
  PROVE  /\ Unread[doc.sha] = Failures(F)
         /\ Outcome(F) = IF Unread[doc.sha] = {} THEN "SUCCESS" ELSE "PARTIAL"
<1>1. Unread[doc.sha] = Failures(F)
  BY DEF Unread, F, Document
<1>2. Failures(F) # {} <=> \/ F.cases = "NEEDS_REVIEW"
                           \/ \E i \in Ids(F.items) : Status(F.items[i]) \in Reviewable
  BY DEF Failures
<1> QED
  BY <1>1, <1>2 DEF Outcome

LEMMA PutsSame ==
  ASSUME NEW t, NEW u, NEW v, NEW w, NEW s, NEW Q, Puts(t, u, s, Q), v.review = t.review, w.review = u.review
  PROVE  Puts(v, w, s, Q)
BY DEF Puts

(* The source of a session that has written nothing else.                  *)
LEMMA SourcedBased ==
  ASSUME WellTyped, tx = db
  PROVE  /\ Sourced.source = IF Ledger!New(doc) THEN Append(db.source, doc) ELSE db.source
         /\ Ledger!New(doc) <=> Same = {}
         /\ SourceId \in Ids(Sourced.source) /\ Sourced.source[SourceId].sha = doc.sha
         /\ Puts(db, Sourced, SourceId, {})
<1>1. Ledger!New(doc) <=> Same = {}
  BY DEF Ledger!New, Same, Ids
<1>2. /\ Sourced \in Stored /\ Sourced.review = tx.review /\ Ids(Sourced.source) = Ids(tx.source) \cup {SourceId}
      /\ Sourced.source[SourceId].sha = doc.sha
  BY Sourcing DEF WellTyped
<1>3. Sourced.source = IF Same = {} THEN Append(tx.source, doc) ELSE tx.source
  BY DEF Sourced, WellTyped, Stored
<1>4. Puts(db, Sourced, SourceId, {})
  BY <1>2, PutsNothing DEF WellTyped
<1> QED
  BY <1>1, <1>2, <1>3, <1>4

(* What is put up for review of a document, with its source.               *)
LEMMA ReviewedPuts ==
  ASSUME WellTyped, tx = db, NEW type \in {"DOCUMENT", "IDENTITY"}, NEW f \in Labels,
         NEW u, u = Queued(Sourced, Review(SourceId, type, f))
  PROVE  /\ u.source = Sourced.source /\ u.affidavit = db.affidavit /\ u.declaration = db.declaration
         /\ Puts(db, u, SourceId, {<<type, f>>})
<1>1. /\ Sourced \in Stored /\ SourceId \in Nat /\ Sourced.affidavit = tx.affidavit
      /\ Sourced.declaration = tx.declaration
  BY Sourcing DEF WellTyped
<1>2. Review(SourceId, type, f) \in ItemRow
  BY <1>1, ReviewTyped
<1>3. u \in Stored /\ u.source = Sourced.source /\ u.affidavit = Sourced.affidavit
      /\ u.declaration = Sourced.declaration
  BY <1>1, <1>2, Queueing
<1>4. Puts(db, u, SourceId, {} \cup {<<type, f>>})
  BY <1>1, <1>2, <1>3, SourcedBased, PutsMore DEF WellTyped
<1> QED
  BY <1>1, <1>3, <1>4

LEMMA QueuedDraft ==
  ASSUME Base, Draft, HandleUnreadable \/ QueueIdentity
  PROVE  Draft'
<1>1. /\ WellTyped /\ tx = db /\ step' = "finish" /\ UNCHANGED <<known, db, doc>>
  BY DEF HandleUnreadable, QueueIdentity, Base, Kept, Early, Draft
<1>2. PICK s \in Nat : s = SourceId
  BY <1>1, Sourcing DEF WellTyped
<1> DEFINE Unread1 == Puts(db, tx', s, {<<"DOCUMENT", "document_text">>})
<1> DEFINE Unlinked == doc.sha \in Readable /\ InDoubt /\ Puts(db, tx', s, {<<"IDENTITY", "candidate_name">>})
<1>3. /\ tx'.source = Sourced.source /\ tx'.affidavit = db.affidavit /\ tx'.declaration = db.declaration
      /\ Unread1 \/ Unlinked
  <2>1. "document_text" \in Labels /\ "candidate_name" \in Labels
    BY DEF Labels
  <2>2. CASE HandleUnreadable
    <3>1. tx' = Queued(Sourced, Review(SourceId, "DOCUMENT", "document_text"))
      BY <2>2 DEF HandleUnreadable
    <3> QED
      BY <1>1, <1>2, <2>1, <3>1, ReviewedPuts
  <2>3. CASE QueueIdentity
    <3>1. /\ doc.sha \in Readable /\ InDoubt
          /\ tx' = Queued(Sourced, Review(SourceId, "IDENTITY", "candidate_name"))
      BY <2>3 DEF QueueIdentity, Draft, Textual
    <3> QED
      BY <1>1, <1>2, <2>1, <3>1, ReviewedPuts
  <2> QED
    BY <2>2, <2>3
<1>4. s \in Ids(tx'.source) /\ tx'.source[s].sha = doc.sha
  BY <1>1, <1>2, <1>3, SourcedBased
<1>5. Based'
  BY <1>1, <1>3, SourcedBased DEF Based, Ledger!New
<1>6. Referred(s)'
  <2>1. InDoubt' = InDoubt
    BY <1>1 DEF InDoubt
  <2>2. Alone'
    BY <1>1, <1>3 DEF Alone
  <2>3. \/ Puts(db', tx', s, {<<"DOCUMENT", "document_text">>})
        \/ doc'.sha \in Readable /\ InDoubt' /\ Puts(db', tx', s, {<<"IDENTITY", "candidate_name">>})
    BY <1>1, <1>3, <2>1
  <2> QED
    BY <2>2, <2>3 DEF Referred
<1>7. Finished'
  BY <1>1, <1>4, <1>5, <1>6 DEF Finished
<1> QED
  BY <1>1, <1>7 DEF Draft, Textual, Linked

LEMMA GetSourceDraft ==
  ASSUME Base, Settled', Draft, GetSource
  PROVE  Draft'
<1>1. /\ WellTyped /\ tx = db /\ step' = "affidavit" /\ UNCHANGED <<known, db, doc>>
      /\ doc.sha \in Readable
  BY DEF GetSource, Base, Kept, Early, Draft, Textual, Linked
<1>2. /\ tx'.source = Sourced.source /\ tx'.affidavit = db.affidavit /\ tx'.declaration = db.declaration
      /\ Puts(db, tx', SourceId, Ledger!Changed(doc))
  <2>1. CASE Same = {} /\ Prior # {}
    <3>1. tx' = Queued(Sourced, Review(SourceId, "DOCUMENT", "content_sha256"))
      BY <2>1 DEF GetSource
    <3>2. Ledger!Changed(doc) = {<<"DOCUMENT", "content_sha256">>}
      BY <1>1, <2>1, SourcedBased DEF Ledger!Changed, Prior, Ids
    <3> QED
      BY <1>1, <3>1, <3>2, ReviewedPuts DEF Labels
  <2>2. CASE ~(Same = {} /\ Prior # {})
    <3>1. tx' = Sourced
      BY <2>2 DEF GetSource
    <3>2. Ledger!Changed(doc) = {}
      BY <1>1, <2>2, SourcedBased DEF Ledger!Changed, Prior, Ids
    <3>3. Puts(db, Sourced, SourceId, {})
      BY <1>1, SourcedBased
    <3>4. Sourced.affidavit = db.affidavit /\ Sourced.declaration = db.declaration
      BY <1>1, Sourcing DEF WellTyped
    <3> QED
      BY <3>1, <3>2, <3>3, <3>4
  <2> QED
    BY <2>1, <2>2
<1>3. SourceId \in Ids(tx'.source) /\ tx'.source[SourceId].sha = doc.sha
  BY <1>1, <1>2, SourcedBased
<1>4. SourceId' = SourceId
  <2>1. Same' = {SourceId}
    BY <1>1, <1>3 DEF Same, Settled, OneSource
  <2> QED
    BY <2>1 DEF SourceId
<1>5. Based'
  BY <1>1, <1>2, SourcedBased DEF Based, Ledger!New
<1>6. Ledger!Changed(doc)' = Ledger!Changed(doc)
  BY <1>1 DEF Ledger!Changed, Ledger!New
<1>7. Alone' /\ Puts(db', tx', SourceId', Ledger!Changed(doc)')
  BY <1>1, <1>2, <1>4, <1>6 DEF Alone
<1> QED
  BY <1>1, <1>5, <1>7 DEF Draft, Textual, Linked

LEMMA KnownDraft ==
  ASSUME Base, Idle, Draft, KnownAffidavit
  PROVE  Draft'
<1>1. /\ WellTyped /\ step = "affidavit" /\ step' = "finish" /\ UNCHANGED <<known, db, tx, doc>>
      /\ Existing # {} /\ Alone
  BY DEF KnownAffidavit, Base, Draft
<1>2. cur.candidacy # 0
  <2>1. cur.candidacy \in Ids(Reg.candidacy)
    BY <1>1 DEF WellTyped, Linked
  <2> QED
    BY <2>1 DEF Ids
<1>3. Repeated
  BY <1>1 DEF Existing, Alone, Repeated
<1>4. tx = db
  BY <1>1, <1>2, <1>3 DEF Idle
<1> QED
  BY <1>1, <1>4 DEF Draft, Finished, Textual, Linked

LEMMA InsertDraft ==
  ASSUME Base, Links, Whole, Draft, InsertAffidavit
  PROVE  Draft'
<1>1. /\ WellTyped /\ step = "affidavit" /\ step' = "declare" /\ UNCHANGED <<known, db, doc>>
      /\ doc \in Document /\ doc.sha \in Readable /\ Existing = {} /\ Based /\ Alone
      /\ Puts(db, tx, SourceId, Ledger!Changed(doc)) /\ known \in Ids(Registry)
      /\ cur'.affidavit = Len(tx.affidavit) + 1 /\ cur'.item = 1
  BY DEF InsertAffidavit, Base, WellTyped, Draft, Textual, Linked, Whole
<1>2. /\ tx'.affidavit = Append(tx.affidavit, AffidavitRow)
      /\ tx'.source = tx.source /\ tx'.declaration = tx.declaration /\ tx'.review = tx.review
  BY <1>1, InsertWrites
<1>3. SourceId' = SourceId /\ F' = F
  BY <1>1, <1>2 DEF SourceId, Same, F
<1>4. Based'
  BY <1>1, <1>2 DEF Based, Ledger!New
<1> DEFINE o == [person |-> Reg.candidacy[cur.candidacy].person,
                 election |-> Reg.candidacy[cur.candidacy].election, candidacy |-> cur.candidacy]
<1>5. o \in Owners[known][doc.sha]
  <2>1. Evidence(cur.candidacy, F)
    BY <1>1 DEF Links, Linked
  <2> QED
    BY <1>1, <2>1, EvidenceOwns
<1>6. AffidavitRow = Row(o, SourceId)
  BY <1>1, OutcomeIs DEF AffidavitRow, Row
<1>7. \A i \in Ids(db.affidavit) : db.affidavit[i].sha = doc.sha => db.affidavit[i].person # o.person
  BY <1>1 DEF Existing, Alone
<1>8. Titled(SourceId)'
  <2>1. PICK n : n = SourceId
    OBVIOUS
  <2>2. PICK p \in Owners[known][doc.sha] : p = o
    BY <1>5
  <2>3. Row(p, n)' = Row(p, n)
    BY <1>1 DEF Row
  <2>4. /\ \A i \in Ids(db'.affidavit) : db'.affidavit[i].sha = doc'.sha => db'.affidavit[i].person # p.person
        /\ tx'.affidavit = Append(db'.affidavit, Row(p, n)') /\ p \in Owners[known'][doc'.sha]
    BY <1>1, <1>2, <1>6, <1>7, <2>1, <2>2, <2>3 DEF Alone
  <2>5. Titled(n)'
    BY <2>4 DEF Titled
  <2> QED
    BY <1>3, <2>1, <2>5 DEF Titled, Row
<1>9. Listed(cur.item - 1)'
  <2>1. Len(db.declaration) \in Nat /\ tx'.declaration = db'.declaration /\ cur'.item - 1 = 0
    BY <1>1, <1>2, Columns DEF Alone, WellTyped
  <2> QED
    BY <1>1, <2>1 DEF Listed
<1>10. Puts(db', tx', SourceId', (Ledger!Changed(doc) \cup Doubted(cur.item - 1))')
  <2>1. Ledger!Changed(doc)' = Ledger!Changed(doc)
    BY <1>1 DEF Ledger!Changed, Ledger!New
  <2>2. Doubted(cur.item - 1)' = {}
    BY <1>1 DEF Doubted
  <2> QED
    BY <1>1, <1>2, <1>3, <2>1, <2>2 DEF Puts
<1>11. cur'.affidavit = Len(db'.affidavit) + 1
  BY <1>1 DEF Alone
<1> QED
  BY <1>1, <1>4, <1>8, <1>9, <1>10, <1>11 DEF Draft, Textual, Linked

(* A declaration that could not be read adds its question.                 *)
LEMMA DeclarePuts ==
  ASSUME WellTyped, Declare, db \in Stored, NEW s \in Nat, s = SourceId, NEW Q, Puts(db, tx, s, Q),
         NEW item, item = F.items[cur.item]
  PROVE  Puts(db, tx', s, Q \cup {q \in {<<"FIELD", item.field>>} : Status(item) \in Reviewable})
<1> DEFINE t == [tx EXCEPT !.declaration = Append(@, DeclarationRow(item))]
<1>1. item \in Item
  <2>1. cur.item \in 1..Len(F.items) /\ F.items \in Seq(Item)
    BY FormTyped DEF WellTyped, Declare
  <2> QED
    BY <2>1, ElementOfSeq
<1>2. DeclarationRow(item) \in DeclRow /\ tx \in Stored
  BY <1>1, RowsTyped DEF WellTyped
<1>3. t \in Stored /\ t.review = tx.review
  <2>1. Append(tx.declaration, DeclarationRow(item)) \in Seq(DeclRow)
    BY <1>2, Columns, Appended
  <2> QED
    BY <1>2, <2>1 DEF Stored
<1>4. tx' = IF Status(item) \in Reviewable THEN Queued(t, Review(s, "FIELD", item.field)) ELSE t
  BY DEF Declare
<1> HIDE DEF t
<1>5. Puts(db, t, s, Q)
  BY <1>3, PutsSame
<1>6. CASE Status(item) \notin Reviewable
  BY <1>4, <1>5, <1>6
<1>7. CASE Status(item) \in Reviewable
  <2>1. Review(s, "FIELD", item.field) \in ItemRow
    BY <1>1, <1>7, RowsTyped, ReviewTyped
  <2>2. tx' = Queued(t, Review(s, "FIELD", item.field)) /\ tx' \in Stored
    BY <1>3, <1>4, <1>7, <2>1, Queueing
  <2>3. Puts(db, tx', s, Q \cup {<<"FIELD", item.field>>})
    BY <1>3, <1>5, <2>1, <2>2, PutsMore
  <2>4. {q \in {<<"FIELD", item.field>>} : Status(item) \in Reviewable} = {<<"FIELD", item.field>>}
    BY <1>7
  <2> QED
    BY <2>3, <2>4
<1> QED
  BY <1>6, <1>7

LEMMA DoubtedOn ==
  ASSUME NEW l \in Nat
  PROVE  Doubted(l + 1) = Doubted(l) \cup
           {q \in {<<"FIELD", F.items[l + 1].field>>} : Status(F.items[l + 1]) \in Reviewable}
<1>1. \A m : m \in 1..(l + 1) <=> m \in 1..l \/ m = l + 1
  OBVIOUS
<1>2. \A q : q \in Doubted(l + 1) <=>
        \E m \in 1..(l + 1) : Status(F.items[m]) \in Reviewable /\ q = <<"FIELD", F.items[m].field>>
  BY DEF Doubted
<1>3. \A q : q \in Doubted(l) <=>
        \E m \in 1..l : Status(F.items[m]) \in Reviewable /\ q = <<"FIELD", F.items[m].field>>
  BY DEF Doubted
<1> QED
  BY <1>1, <1>2, <1>3

LEMMA NextPlace ==
  ASSUME NEW d \in Nat, NEW l \in Nat, NEW m, m = d + l
  PROVE  d + (l + 1) = m + 1 /\ \A n \in 1..l : d + n \in 1..m
<1>1. d + (l + 1) = (d + l) + 1
  OBVIOUS
<1>2. ASSUME NEW n \in 1..l PROVE d + n \in 1..(d + l)
  OBVIOUS
<1> QED
  BY <1>1, <1>2

LEMMA DeclareDraft ==
  ASSUME Base, Draft, Declare
  PROVE  Draft'
<1>0. PICK l \in Nat : l = cur.item - 1
  BY DEF Base, WellTyped
<1> DEFINE item == F.items[cur.item]
<1>1. /\ WellTyped /\ step = "declare" /\ step' = "declare" /\ UNCHANGED <<known, db, doc>>
      /\ db \in Stored /\ tx \in Stored /\ tx' \in Stored
      /\ doc \in Document /\ doc.sha \in Readable /\ Based /\ Titled(SourceId)
      /\ cur.affidavit = Len(db.affidavit) + 1 /\ Listed(l)
      /\ Puts(db, tx, SourceId, Ledger!Changed(doc) \cup Doubted(l))
      /\ cur.item = l + 1 /\ cur'.item - 1 = l + 1 /\ cur'.affidavit = cur.affidavit
  <2>1. WellTyped /\ step = "declare" /\ step' = "declare" /\ UNCHANGED <<known, db, doc>>
    BY DEF Declare, Base
  <2>2. db \in Stored /\ tx \in Stored /\ tx' \in Stored /\ doc \in Document
    BY <2>1, DeclareWrites DEF WellTyped
  <2>3. cur.item = l + 1 /\ cur'.item - 1 = l + 1 /\ cur'.affidavit = cur.affidavit
    BY <1>0, <2>1 DEF Declare, WellTyped
  <2>4. /\ doc.sha \in Readable /\ Based /\ Titled(SourceId)
        /\ cur.affidavit = Len(db.affidavit) + 1 /\ Listed(l)
        /\ Puts(db, tx, SourceId, Ledger!Changed(doc) \cup Doubted(l))
    BY <1>0, <2>1 DEF Draft, Textual, Linked
  <2> QED
    BY <2>1, <2>2, <2>3, <2>4
<1>2. /\ tx'.affidavit = tx.affidavit /\ tx'.source = tx.source
      /\ tx'.declaration = Append(tx.declaration, DeclarationRow(item))
      /\ DeclarationRow(item) \in DeclRow
  BY <1>1, DeclareRows
<1>3. SourceId' = SourceId /\ F' = F
  BY <1>1, <1>2 DEF SourceId, Same, F
<1>4. Based'
  BY <1>1, <1>2 DEF Based, Ledger!New
<1>5. Titled(SourceId)'
  <2>1. \A o : Row(o, SourceId)' = Row(o, SourceId)
    BY <1>1, <1>3 DEF Row
  <2> QED
    BY <1>1, <1>2, <2>1 DEF Titled
<1>6. Listed(l + 1)'
  <2>0. PICK d \in Nat : d = Len(db.declaration)
    BY <1>1, Columns
  <2>1. PICK m \in Nat : m = Len(tx.declaration)
    BY <1>1, Columns
  <2>2. /\ Len(tx'.declaration) = m + 1
        /\ \A n \in 1..m : tx'.declaration[n] = tx.declaration[n]
        /\ tx'.declaration[m + 1] = DeclarationRow(item)
    <3>1. tx.declaration \in Seq(DeclRow)
      BY <1>1, Columns
    <3> QED
      BY <1>2, <2>1, <3>1, AppendProperties
  <2>3. DeclarationRow(item) = Declared(Len(db.affidavit) + 1, F.items[l + 1])
    BY <1>1 DEF DeclarationRow, Declared
  <2>4. m = d + l
    BY <1>1, <2>0, <2>1 DEF Listed
  <2>5. d + (l + 1) = m + 1 /\ \A n \in 1..l : d + n \in 1..m
    <3>1. d \in Nat /\ l \in Nat
      BY <1>0, <2>0
    <3> QED
      BY <2>4, <3>1, NextPlace
  <2>6. ASSUME NEW n \in 1..(l + 1)
        PROVE  tx'.declaration[d + n] = Declared(Len(db.affidavit) + 1, F.items[n])
    <3>1. CASE n \in 1..l
      <4>1. tx.declaration[d + n] = Declared(Len(db.affidavit) + 1, F.items[n])
        BY <1>1, <2>0, <3>1 DEF Listed
      <4>2. d + n \in 1..m
        BY <2>5, <3>1
      <4> QED
        BY <2>2, <4>1, <4>2
    <3>2. CASE n = l + 1
      <4>1. d + n = m + 1
        BY <2>5, <3>2
      <4> QED
        BY <2>2, <2>3, <3>2, <4>1
    <3>3. n \in 1..l \/ n = l + 1
      BY <1>0, <2>6
    <3> QED
      BY <3>1, <3>2, <3>3
  <2>7. Len(tx'.declaration) = d + (l + 1)
    BY <2>2, <2>5
  <2>8. /\ Len(tx'.declaration) = Len(db'.declaration) + (l + 1)
        /\ \A n \in 1..(l + 1) :
             tx'.declaration[Len(db'.declaration) + n] = Declared(Len(db'.affidavit) + 1, F'.items[n])
    BY <1>1, <1>3, <2>0, <2>6, <2>7
  <2> QED
    BY <2>8 DEF Listed
<1>7. Puts(db', tx', SourceId', Ledger!Changed(doc)' \cup Doubted(l + 1)')
  <2>1. PICK s \in Nat : s = SourceId
    BY <1>1, Sourcing
  <2>2. PICK Q : Q = Ledger!Changed(doc) \cup Doubted(l)
    OBVIOUS
  <2>3. Puts(db, tx', s, Q \cup {q \in {<<"FIELD", item.field>>} : Status(item) \in Reviewable})
    BY <1>1, <2>1, <2>2, DeclarePuts
  <2>4. Doubted(l + 1) = Doubted(l) \cup {q \in {<<"FIELD", item.field>>} : Status(item) \in Reviewable}
    BY <1>1, DoubtedOn
  <2>5. Doubted(l + 1)' = Doubted(l + 1) /\ Ledger!Changed(doc)' = Ledger!Changed(doc)
    BY <1>1, <1>3 DEF Doubted, Ledger!Changed, Ledger!New
  <2>6. Puts(db, tx', s, Ledger!Changed(doc) \cup Doubted(l + 1))
    <3>1. Q \cup {q \in {<<"FIELD", item.field>>} : Status(item) \in Reviewable}
            = Ledger!Changed(doc) \cup Doubted(l + 1)
      BY <2>2, <2>4
    <3> QED
      BY <2>3, <3>1
  <2> QED
    BY <1>1, <1>3, <2>1, <2>5, <2>6
<1>8. Listed(cur.item - 1)' /\ Doubted(cur.item - 1)' = Doubted(l + 1)'
  BY <1>1, <1>6 DEF Listed, Doubted
<1>9. cur'.affidavit = Len(db'.affidavit) + 1
  BY <1>1
<1>10. Puts(db', tx', SourceId', (Ledger!Changed(doc) \cup Doubted(cur.item - 1))')
  BY <1>7, <1>8
<1> QED
  BY <1>1, <1>4, <1>5, <1>8, <1>9, <1>10 DEF Draft, Textual, Linked

LEMMA FailuresAre ==
  ASSUME doc \in Document
  PROVE  {<<"FIELD", f>> : f \in Unread[doc.sha]}
           = Doubted(Len(F.items)) \cup {q \in {<<"FIELD", "criminal_cases">>} : F.cases = "NEEDS_REVIEW"}
<1>1. Unread[doc.sha] = Failures(F)
  BY OutcomeIs
<1>2. \A f : f \in Failures(F) <=>
        \/ \E n \in 1..Len(F.items) : Status(F.items[n]) \in Reviewable /\ f = F.items[n].field
        \/ F.cases = "NEEDS_REVIEW" /\ f = "criminal_cases"
  BY DEF Failures, Ids
<1>3. \A q : q \in Doubted(Len(F.items)) <=>
        \E n \in 1..Len(F.items) : Status(F.items[n]) \in Reviewable /\ q = <<"FIELD", F.items[n].field>>
  BY DEF Doubted
<1> QED
  BY <1>1, <1>2, <1>3

(* The document is complete with the section of cases.                     *)
LEMMA CloseSectionsDraft ==
  ASSUME Base, Settled, Whole, Draft, CloseSections
  PROVE  Draft'
<1>0. PICK l : l = Len(F.items)
  OBVIOUS
<1>1. /\ WellTyped /\ step = "declare" /\ step' = "finish" /\ UNCHANGED <<known, db, doc>>
      /\ db \in Stored /\ tx \in Stored /\ doc \in Document /\ Same # {}
      /\ tx' = IF F.cases = "NEEDS_REVIEW"
               THEN Queued(tx, Review(SourceId, "FIELD", "criminal_cases")) ELSE tx
  BY DEF CloseSections, Base, WellTyped, Settled
<1>2. cur.item - 1 = l
  <2>1. cur.item \in Nat \ {0} /\ cur.item > l /\ cur.item - 1 <= l
    BY <1>0, <1>1 DEF CloseSections, WellTyped, Whole, Begun
  <2>2. l \in Nat
    BY <1>0, <1>1, FormTyped
  <2> QED
    BY <2>1, <2>2
<1>3. PICK s \in Nat : s = SourceId
  BY <1>1, Sourcing
<1>4. /\ doc.sha \in Readable /\ Based /\ Titled(s) /\ Listed(l)
      /\ Puts(db, tx, s, Ledger!Changed(doc) \cup Doubted(l))
  BY <1>1, <1>2, <1>3 DEF Draft, Textual, Linked
<1>5. s \in Ids(tx.source) /\ tx.source[s].sha = doc.sha
  BY <1>1, <1>3, Sourcing DEF Same
<1> DEFINE Asking == {<<"FIELD", f>> : f \in Unread[doc.sha]}
<1>6. Asking = Doubted(l) \cup {q \in {<<"FIELD", "criminal_cases">>} : F.cases = "NEEDS_REVIEW"}
  BY <1>0, <1>1, FailuresAre
<1>7. /\ tx'.source = tx.source /\ tx'.affidavit = tx.affidavit /\ tx'.declaration = tx.declaration
      /\ Puts(db, tx', s, Ledger!Changed(doc) \cup Asking)
  <2> HIDE DEF Asking
  <2>1. CASE F.cases = "NEEDS_REVIEW"
    <3>1. Review(s, "FIELD", "criminal_cases") \in ItemRow
      BY ReviewTyped DEF Labels
    <3>2. tx' = Queued(tx, Review(s, "FIELD", "criminal_cases"))
      BY <1>1, <1>3, <2>1
    <3>3. /\ tx' \in Stored /\ tx'.source = tx.source /\ tx'.affidavit = tx.affidavit
          /\ tx'.declaration = tx.declaration
      BY <1>1, <3>1, <3>2, Queueing
    <3>4. PICK Q : Q = Ledger!Changed(doc) \cup Doubted(l)
      OBVIOUS
    <3>5. Puts(db, tx', s, Q \cup {<<"FIELD", "criminal_cases">>})
      BY <1>1, <1>4, <3>1, <3>2, <3>3, <3>4, PutsMore
    <3>6. Q \cup {<<"FIELD", "criminal_cases">>} = Ledger!Changed(doc) \cup Asking
      BY <1>6, <2>1, <3>4
    <3> QED
      BY <3>3, <3>5, <3>6
  <2>2. CASE F.cases # "NEEDS_REVIEW"
    <3>1. tx' = tx
      BY <1>1, <2>2
    <3>2. Ledger!Changed(doc) \cup Asking = Ledger!Changed(doc) \cup Doubted(l)
      BY <1>6, <2>2
    <3> QED
      BY <1>4, <3>1, <3>2
  <2> QED
    BY <2>1, <2>2
<1>8. F' = F /\ Ledger!Changed(doc)' = Ledger!Changed(doc) /\ Asking' = Asking
  BY <1>1 DEF F, Ledger!Changed, Ledger!New
<1>9. Based'
  BY <1>1, <1>4, <1>7 DEF Based, Ledger!New
<1>10. Titled(s)'
  <2>1. \A o : Row(o, s)' = Row(o, s)
    BY <1>1 DEF Row
  <2> QED
    BY <1>1, <1>4, <1>7, <2>1 DEF Titled
<1>11. Listed(Len(F.items))'
  <2>1. Listed(l)'
    BY <1>1, <1>4, <1>7, <1>8 DEF Listed
  <2>2. l = Len(F'.items)
    BY <1>0, <1>8
  <2> QED
    BY <2>1, <2>2 DEF Listed
<1>12. Attributed(s)'
  <2>1. Puts(db', tx', s, Ledger!Changed(doc)' \cup Asking')
    BY <1>1, <1>7, <1>8
  <2>2. doc'.sha \in Readable
    BY <1>1, <1>4
  <2> QED
    BY <1>10, <1>11, <2>1, <2>2 DEF Attributed
<1>13. Finished'
  BY <1>1, <1>4, <1>5, <1>7, <1>9, <1>12 DEF Finished
<1> QED
  BY <1>1, <1>13 DEF Draft, Textual, Linked

LEMMA FetchDraft ==
  ASSUME Fetch \/ FetchUnread
  PROVE  Draft'
<1>1. /\ step' \in {"unreadable", "link", "raise"} /\ doc' \in Document
      /\ step' = "link" => Extraction[doc'.sha] = "TEXT_EXTRACTED" /\ Valid(Form[doc'.sha])
  BY DEF Fetch, FetchUnread
<1>2. step' = "link" => doc'.sha \in Readable
  BY <1>1 DEF Readable, Document
<1> QED
  BY <1>1, <1>2 DEF Draft, Textual, Linked

LEMMA LinkStepDraft ==
  ASSUME Base, Links, Draft, LinkStep
  PROVE  Draft'
<1>1. /\ UNCHANGED <<known, doc>> /\ step' \in {"name", "narrow", "identity", "source"}
      /\ known \in Ids(Registry) /\ doc \in Document 
      /\ step \in {"link", "name", "narrow"}
  BY LinkStepIs DEF Base, WellTyped
<1>2. doc.sha \in Readable /\ InDoubt' = InDoubt /\ Unknown' = Unknown
  BY <1>1 DEF Draft, Textual, InDoubt, Unknown, F
<1>3. CASE LookupId
  <2>1. step' = "name" => Unknown
    BY <1>1, <1>3, IdUnknown DEF LookupId
  <2>2. step' = "identity" => InDoubt
    BY <1>1, <1>3, IdUndecided
  <2>3. step' \in {"name", "identity", "source"}
    BY <1>3 DEF LookupId
  <2> QED
    BY <1>1, <1>2, <2>1, <2>2, <2>3 DEF Draft, Textual, Linked
<1>4. CASE LookupPeople
  <2>1. Unknown
    BY <1>4 DEF LookupPeople, Draft
  <2>2. step' = "identity" => Pursued(F) = {}
    BY <1>4 DEF LookupPeople
  <2>3. step' = "narrow" => cur'.people = Pursued(F) /\ cur'.hits = {}
    BY <1>4 DEF LookupPeople, Fresh
  <2>4. step' \in {"identity", "narrow"}
    BY <1>4 DEF LookupPeople
  <2>5. CASE NameSettles(Reg, F)
    <3>1. PICK p : Pursued(F) = {p}
      BY <2>5, NameDecided
    <3>2. step' = "narrow" /\ Single'
      BY <2>2, <2>3, <2>4, <3>1 DEF Single
    <3> QED
      BY <1>1, <1>2, <2>1, <3>2 DEF Draft, Textual, Linked
  <2>6. CASE ~NameSettles(Reg, F)
    <3>1. InDoubt
      BY <1>1, <2>1, <2>6, NameUndecided
    <3> QED
      BY <1>1, <1>2, <2>4, <3>1 DEF Draft, Textual, Linked
  <2> QED
    BY <2>5, <2>6
<1>5. CASE LookupCandidacy
  <2>1. step = "narrow" /\ step' = "narrow"
    BY <1>5 DEF LookupCandidacy
  <2>2. SUFFICES InDoubt \/ (Unknown /\ Single')
    BY <1>1, <1>2, <2>1 DEF Draft, Textual, Linked
  <2>3. SUFFICES ASSUME ~InDoubt PROVE Unknown /\ Single'
    OBVIOUS
  <2>4. PICK p \in cur.people :
          cur' = [cur EXCEPT !.people = @ \ {p}, !.hits = @ \cup Sole(Fits(p, F))]
    BY <1>5 DEF LookupCandidacy
  <2>5. Unknown /\ cur.hits = {} /\ cur.people = {p}
    BY <2>1, <2>3, <2>4 DEF Draft, Single
  <2>6. NameSettles(Reg, F)
    BY <1>1, <2>3, <2>5, NameUndecided
  <2>7. PICK q, c : People(F) = {q} /\ Fits(q, F) = {c}
    BY <2>6, NameDecided
  <2>8. p \in People(F)
    BY <2>1, <2>5 DEF Links, Held, People
  <2>9. Sole(Fits(p, F)) = {c}
    BY <2>7, <2>8 DEF Sole
  <2>10. cur'.people = {} /\ cur'.hits = {c}
    BY <2>4, <2>5, <2>9 DEF Base, WellTyped
  <2>11. Sole(cur'.hits) # {}
    BY <2>10 DEF Sole
  <2> QED
    BY <2>5, <2>10, <2>11 DEF Single, Sole
<1>6. CASE DecideLink
  <2>1. /\ step = "narrow" /\ cur.people = {} /\ step' \in {"source", "identity"}
        /\ step' = "identity" => Sole(cur.hits) = {}
    BY <1>6 DEF DecideLink
  <2>2. step' = "identity" => InDoubt
    BY <2>1 DEF Draft, Single
  <2> QED
    BY <1>1, <1>2, <2>1, <2>2 DEF Draft, Textual, Linked
<1> QED
  BY <1>3, <1>4, <1>5, <1>6 DEF LinkStep

(* What the session has written stays so when results arrive or somebody   *)
(* closes an item, in whatever it stands.                                  *)
LEMMA DraftStays ==
  ASSUME Draft, UNCHANGED <<step, doc, cur>>,
         db'.source = db.source, db'.affidavit = db.affidavit, db'.declaration = db.declaration,
         tx'.source = tx.source, tx'.affidavit = tx.affidavit, tx'.declaration = tx.declaration,
         tx = db => tx' = db', InDoubt => InDoubt', Unknown => Unknown',
         Owners[known][doc.sha] \subseteq Owners[known'][doc.sha],
         \A s, Q : Puts(db, tx, s, Q) => Puts(db', tx', s, Q)
  PROVE  Draft'
<1>1. /\ SourceId' = SourceId /\ F' = F /\ Ledger!Changed(doc)' = Ledger!Changed(doc)
      /\ Single' = Single
  BY DEF SourceId, Same, F, Ledger!Changed, Ledger!New, Single
<1>2. Based => Based'
  BY DEF Based, Ledger!New
<1>3. Alone => Alone'
  BY DEF Alone
<1>4. \A s : Titled(s) => Titled(s)'
  <2>1. \A s, o : Row(o, s)' = Row(o, s)
    BY DEF Row
  <2> QED
    BY <2>1 DEF Titled
<1>5. \A l : (Listed(l) => Listed(l)') /\ Doubted(l)' = Doubted(l)
  BY <1>1 DEF Listed, Doubted
<1>6. \A s : Referred(s) => Referred(s)'
  <2>1. SUFFICES ASSUME NEW s, Referred(s) PROVE Referred(s)'
    OBVIOUS
  <2>2. Alone' /\ (InDoubt => InDoubt') /\ doc' = doc
    BY <1>3, <2>1 DEF Referred
  <2>3. \A Q : Puts(db, tx, s, Q) => Puts(db', tx', s, Q)
    OBVIOUS
  <2>4. \/ Puts(db', tx', s, {<<"DOCUMENT", "document_text">>})
        \/ doc.sha \in Readable /\ InDoubt /\ Puts(db', tx', s, {<<"IDENTITY", "candidate_name">>})
    BY <2>1, <2>3 DEF Referred
  <2> QED
    BY <2>2, <2>4 DEF Referred
<1>7. \A s : Attributed(s) => Attributed(s)'
  <2>1. SUFFICES ASSUME NEW s, Attributed(s) PROVE Attributed(s)'
    OBVIOUS
  <2>2. doc'.sha \in Readable /\ Titled(s)'
    BY <1>4, <2>1 DEF Attributed
  <2>3. Listed(Len(F.items))'
    <3>1. PICK l : l = Len(F.items)
      OBVIOUS
    <3>2. Listed(l)'
      BY <1>5, <2>1, <3>1 DEF Attributed
    <3>3. l = Len(F'.items)
      BY <1>1, <3>1
    <3> QED
      BY <3>2, <3>3 DEF Listed
  <2>4. PICK Q : Q = Ledger!Changed(doc) \cup {<<"FIELD", f>> : f \in Unread[doc.sha]}
    OBVIOUS
  <2>5. Puts(db', tx', s, Q)
    BY <2>1, <2>4 DEF Attributed
  <2>6. Q = Ledger!Changed(doc)' \cup {<<"FIELD", f>> : f \in Unread[doc'.sha]}
    BY <1>1, <2>4
  <2>7. Puts(db', tx', s, Ledger!Changed(doc)' \cup {<<"FIELD", f>> : f \in Unread[doc'.sha]})
    BY <2>5, <2>6
  <2> QED
    BY <2>2, <2>3, <2>7 DEF Attributed
<1>8. step = "affidavit" => Based' /\ Alone' /\ Puts(db, tx, SourceId, Ledger!Changed(doc))'
  <2>1. SUFFICES ASSUME step = "affidavit" PROVE Based' /\ Alone' /\ Puts(db, tx, SourceId, Ledger!Changed(doc))'
    OBVIOUS
  <2>2. Based' /\ Alone' /\ Puts(db', tx', SourceId, Ledger!Changed(doc))
    BY <1>2, <1>3, <2>1 DEF Draft
  <2> QED
    BY <1>1, <2>2
<1>9. step = "declare" =>
        /\ Based' /\ Titled(SourceId)' /\ cur'.affidavit = Len(db'.affidavit) + 1 /\ Listed(cur.item - 1)'
        /\ Puts(db, tx, SourceId, Ledger!Changed(doc) \cup Doubted(cur.item - 1))'
  <2>1. SUFFICES ASSUME step = "declare"
                 PROVE  /\ Based' /\ Titled(SourceId)' /\ cur'.affidavit = Len(db'.affidavit) + 1
                        /\ Listed(cur.item - 1)'
                        /\ Puts(db, tx, SourceId, Ledger!Changed(doc) \cup Doubted(cur.item - 1))'
    OBVIOUS
  <2>2. PICK l, s : l = cur.item - 1 /\ s = SourceId
    OBVIOUS
  <2>3. Based /\ Titled(s) /\ Listed(l) /\ Puts(db, tx, s, Ledger!Changed(doc) \cup Doubted(l))
    BY <2>1, <2>2 DEF Draft
  <2>4. Based' /\ Titled(s)' /\ Listed(l)' /\ Puts(db', tx', s, Ledger!Changed(doc) \cup Doubted(l))
    BY <1>2, <1>4, <1>5, <2>3
  <2>5. l = cur'.item - 1 /\ s = SourceId' /\ cur'.affidavit = Len(db'.affidavit) + 1
    BY <1>1, <2>1, <2>2 DEF Draft
  <2>6. Titled(SourceId)' /\ Listed(cur.item - 1)'
    BY <2>4, <2>5 DEF Titled, Row, Listed
  <2>7. Ledger!Changed(doc) \cup Doubted(l) = (Ledger!Changed(doc) \cup Doubted(cur.item - 1))'
    <3>1. Doubted(l) = Doubted(l)'
      BY <1>5
    <3>2. Doubted(l)' = Doubted(cur.item - 1)'
      BY <2>5 DEF Doubted
    <3> QED
      BY <1>1, <3>1, <3>2
  <2>8. Puts(db', tx', SourceId', (Ledger!Changed(doc) \cup Doubted(cur.item - 1))')
    BY <2>4, <2>5, <2>7
  <2> QED
    BY <2>4, <2>5, <2>6, <2>8
<1>10. Finished => Finished'
  <2>1. CASE tx = db
    BY <2>1 DEF Finished
  <2>2. CASE tx # db /\ Finished
    <3>1. Based'
      BY <1>2, <2>2 DEF Finished
    <3>2. PICK s \in Ids(tx.source) : tx.source[s].sha = doc.sha /\ (Referred(s) \/ Attributed(s))
      BY <2>2 DEF Finished
    <3>3. s \in Ids(tx'.source) /\ tx'.source[s].sha = doc'.sha /\ (Referred(s)' \/ Attributed(s)')
      BY <1>6, <1>7, <3>2
    <3> QED
      BY <3>1, <3>3 DEF Finished
  <2> QED
    BY <2>1, <2>2
<1>11. /\ step = "name" => Unknown'
       /\ step = "narrow" => InDoubt' \/ (Unknown' /\ Single')
       /\ step = "identity" => InDoubt'
       /\ step \in Textual => doc.sha \in Readable
  BY <1>1 DEF Draft
<1> QED
  BY <1>8, <1>9, <1>10, <1>11 DEF Draft, Textual, Linked

LEMMA ResultsArriveDraft ==
  ASSUME Base, Draft, ResultsArrive
  PROVE  Draft'
<1>1. WellTyped /\ UNCHANGED <<db, tx, step, cur, doc>> /\ doc \in Document /\ known' = known + 1
  BY DEF ResultsArrive, Base, WellTyped
<1>2. known \in Ids(Registry) /\ known' \in Ids(Registry) /\ known <= known' /\ known \in Nat
  <2>1. Len(Registry) \in Nat
    BY RegistryAssumption, LenProperties
  <2> QED
    BY <1>1, <2>1 DEF ResultsArrive, WellTyped, Ids
<1>3. Owners[known][doc.sha] \subseteq Owners[known'][doc.sha]
  BY <1>1, <1>2, OwnersStay
<1>4. InDoubt => InDoubt'
  <2>1. 1..known \subseteq 1..known'
    BY <1>1, <1>2
  <2> QED
    BY <1>1, <2>1 DEF InDoubt
<1>5. Unknown => Unknown'
  <2>1. 1..known \subseteq 1..known'
    BY <1>1, <1>2
  <2> QED
    BY <1>1, <2>1 DEF Unknown, F
<1> QED
  BY <1>1, <1>3, <1>4, <1>5, DraftStays

LEMMA CloseReviewDraft ==
  ASSUME Base, Draft, CloseReview
  PROVE  Draft'
<1>1. PICK i \in Ids(db.review) : i \in Ids(tx.review) /\ CloseReviewOf(i)
  BY Reviewer DEF Base, Kept
<1>2. /\ Closes(db, db', i) /\ Closes(tx, tx', i) /\ db \in Stored /\ tx \in Stored
      /\ UNCHANGED <<known, step, doc, cur>>
  BY <1>1 DEF CloseReviewOf, Base, WellTyped
<1>3. \A s, Q : Puts(db, tx, s, Q) => Puts(db', tx', s, Q)
  BY <1>1, <1>2, PutsClosed
<1>4. tx = db => tx' = db'
  BY DEF CloseReview
<1>5. (InDoubt => InDoubt') /\ (Unknown => Unknown')
  BY <1>2 DEF InDoubt, Unknown, F
<1>6. Owners[known][doc.sha] \subseteq Owners[known'][doc.sha]
  BY <1>2
<1>7. /\ db'.source = db.source /\ db'.affidavit = db.affidavit /\ db'.declaration = db.declaration
      /\ tx'.source = tx.source /\ tx'.affidavit = tx.affidavit /\ tx'.declaration = tx.declaration
  BY <1>2 DEF Closes
<1> QED
  BY <1>2, <1>3, <1>4, <1>5, <1>6, <1>7, DraftStays

LEMMA OthersDraft ==
  ASSUME Draft, StartRun \/ Fault \/ FinishRun \/ FailRun \/ Crash
  PROVE  Draft'
<1>1. step' \in {"fetch", "raise", "idle"}
  BY DEF StartRun, Fault, FinishRun, FailRun, Crash, Rest
<1> QED
  BY <1>1 DEF Draft, Textual, Linked

LEMMA StutterDraft ==
  ASSUME Draft, UNCHANGED vars
  PROVE  Draft'
<1>1. (InDoubt => InDoubt') /\ (Unknown => Unknown')
  BY DEF InDoubt, Unknown, F, vars
<1>2. \A s, Q : Puts(db, tx, s, Q) => Puts(db', tx', s, Q)
  BY DEF vars
<1>3. UNCHANGED <<known, db, tx, step, doc, cur>>
  BY DEF vars
<1>4. Owners[known][doc.sha] \subseteq Owners[known'][doc.sha]
  BY <1>3
<1> QED
  BY <1>1, <1>2, <1>3, <1>4, DraftStays

LEMMA DraftInvariant == Spec => []Draft
<1>1. Init => Draft
  BY DEF Init, Draft, Textual, Linked
<1>2. Base /\ Settled /\ Settled' /\ Idle /\ Links /\ Whole /\ Draft /\ [Next]_vars => Draft'
  <2>1. SUFFICES ASSUME Base, Settled, Settled', Idle, Links, Whole, Draft, [Next]_vars PROVE Draft'
    OBVIOUS
  <2>2. CASE Proceed
    BY <2>1, <2>2, FetchDraft, QueuedDraft, LinkStepDraft, GetSourceDraft, KnownDraft,
       InsertDraft, DeclareDraft, CloseSectionsDraft, OthersDraft DEF Proceed, LinkStep
  <2>3. CASE StartRun \/ Fault \/ Crash \/ ResultsArrive \/ CloseReview
    BY <2>1, <2>3, OthersDraft, ResultsArriveDraft, CloseReviewDraft
  <2> QED
    BY <2>1, <2>2, <2>3, StutterDraft DEF Next
<1> QED
  BY <1>1, <1>2, BaseInvariant, SettledInvariant, IdleInvariant, LinksInvariant, WholeInvariant,
     PTL DEF Spec

-----------------------------------------------------------------------------
(* A run that succeeds enters its document into the ledger.                *)
LEMMA PutsAsks ==
  ASSUME db \in Stored, tx \in Stored, db' = tx, SingleOpen(tx), NEW s, NEW Q, Puts(db, tx, s, Q)
  PROVE  Ledger!Asks(s, Q)
<1>1. /\ Len(db.review) \in Nat /\ Len(tx.review) \in Nat /\ Len(db.review) <= Len(tx.review)
      /\ \A i \in Ids(db.review) : tx.review[i] = db.review[i]
  BY Columns DEF Puts, Extends
<1>2. \A q \in Q : \E i \in Ids(tx.review) : [tx.review[i] EXCEPT !.status = "OPEN"] = Question(s, q)
  BY DEF Puts
<1>3. ASSUME NEW i \in (Len(db.review) + 1)..Len(tx.review)
      PROVE  i \in Ids(tx.review) /\ \E q \in Q : tx.review[i] = Question(s, q)
  <2>1. i \in Ids(tx.review) /\ i \notin Ids(db.review)
    BY <1>1 DEF Ids
  <2> QED
    BY <2>1 DEF Puts
<1>4. ASSUME NEW i \in (Len(db.review) + 1)..Len(tx.review), NEW j \in Ids(tx.review),
             tx.review[i] = tx.review[j]
      PROVE  i = j
  <2>1. PICK q \in Q : tx.review[i] = Question(s, q)
    BY <1>3
  <2>2. tx.review[i].status = "OPEN"
    BY <2>1 DEF Question
  <2> QED
    BY <1>3, <1>4, <2>2 DEF SingleOpen, SingleIn
<1> QED
  BY <1>1, <1>2, <1>3, <1>4 DEF Ledger!Asks, Question, Ids

LEMMA EntersReferred ==
  ASSUME db \in Stored, tx \in Stored, db' = tx, SingleOpen(tx), NEW s, Referred(s)
  PROVE  Ledger!Refer(doc, s)
<1>1. \A Q : Puts(db, tx, s, Q) => Ledger!Asks(s, Q)
  BY PutsAsks
<1>2. \/ Ledger!Asks(s, {<<"DOCUMENT", "document_text">>})
      \/ doc.sha \in Readable /\ InDoubt /\ Ledger!Asks(s, {<<"IDENTITY", "candidate_name">>})
  BY <1>1 DEF Referred
<1> QED
  BY <1>2 DEF Referred, InDoubt, Alone, Ledger!Refer

(* The block of declarations that the form gives an affidavit.             *)
LEMMA ContentIs ==
  ASSUME doc \in Document
  PROVE  /\ Len(Content[doc.sha]) = Len(F.items) /\ Len(F.items) \in Nat
         /\ \A n \in 1..Len(F.items) :
              Content[doc.sha][n] =
                [field |-> F.items[n].field, raw |-> F.items[n].amount,
                 value |-> IF F.items[n].field = "text" THEN NoNumber
                           ELSE ParseAmount(F.items[n].amount).value,
                 status |-> Status(F.items[n])]
<1>1. Content[doc.sha] = Contents(F)
  BY DEF Content, F, Document
<1>2. PICK l \in Nat : l = Len(F.items)
  BY FormTyped
<1>3. Contents(F) \in [1..l -> {Contents(F)[n] : n \in 1..l}]
  BY <1>2 DEF Contents, Ids
<1>4. Contents(F) \in Seq({Contents(F)[n] : n \in 1..l}) /\ DOMAIN Contents(F) = 1..l
  BY <1>3, SeqDef
<1>5. Len(Contents(F)) = l
  BY <1>4, LenProperties
<1> QED
  BY <1>1, <1>2, <1>5 DEF Contents, Ids

LEMMA ListedInFull ==
  ASSUME WellTyped, Kept, Listed(Len(F.items))
  PROVE  tx.declaration = db.declaration \o
           [n \in 1..Len(Content[doc.sha]) |->
              [affidavit |-> Len(db.affidavit) + 1, field |-> Content[doc.sha][n].field,
               raw |-> Content[doc.sha][n].raw, value |-> Content[doc.sha][n].value,
               status |-> Content[doc.sha][n].status]]
<1>1. /\ doc \in Document /\ db.declaration \in Seq(DeclRow) /\ tx.declaration \in Seq(DeclRow)
      /\ Len(db.affidavit) \in Nat /\ Extends(db.declaration, tx.declaration)
  BY Columns DEF WellTyped, Kept, Grows
<1>2. PICK l \in Nat : l = Len(F.items) /\ l = Len(Content[doc.sha])
  BY <1>1, ContentIs
<1>3. PICK d \in Nat : d = Len(db.declaration)
  BY <1>1, LenProperties
<1>4. PICK k \in Nat : k = Len(db.affidavit) + 1
  BY <1>1
<1> DEFINE block ==
      [n \in 1..l |->
         [affidavit |-> k, field |-> Content[doc.sha][n].field,
          raw |-> Content[doc.sha][n].raw, value |-> Content[doc.sha][n].value,
          status |-> Content[doc.sha][n].status]]
<1>5. ASSUME NEW n \in 1..l PROVE block[n] = Declared(k, F.items[n])
  <2> DEFINE row == Content[doc.sha][n]
  <2>1. row = [field |-> F.items[n].field, raw |-> F.items[n].amount,
               value |-> IF F.items[n].field = "text" THEN NoNumber
                         ELSE ParseAmount(F.items[n].amount).value,
               status |-> Status(F.items[n])]
    <3>1. n \in 1..Len(F.items)
      BY <1>2
    <3> QED
      BY <1>1, <3>1, ContentIs
  <2>2. block[n] = [affidavit |-> k, field |-> row.field, raw |-> row.raw, value |-> row.value,
                    status |-> row.status]
    OBVIOUS
  <2> HIDE DEF row, block
  <2> QED
    BY <2>1, <2>2 DEF Declared
<1>6. \A n \in 1..l : F.items[n] \in Item
  BY <1>1, <1>2, FormTyped, ElementOfSeq
<1>7. block \in Seq(DeclRow) /\ Len(block) = l
  <2>1. \A n \in 1..l : block[n] \in DeclRow
    <3> HIDE DEF block
    <3> QED
      BY <1>5, <1>6 DEF DeclRow
  <2>2. DOMAIN block = 1..l /\ block = [n \in DOMAIN block |-> block[n]]
    OBVIOUS
  <2> HIDE DEF block
  <2>3. block \in [1..l -> DeclRow]
    BY <2>1, <2>2
  <2>4. block \in Seq(DeclRow)
    BY <2>3, SeqDef
  <2> QED
    BY <2>2, <2>4, LenProperties
<1>8. tx.declaration = db.declaration \o block
  <2> HIDE DEF block
  <2>1. /\ db.declaration \o block \in Seq(DeclRow) /\ Len(db.declaration \o block) = d + l
        /\ \A i \in 1..(d + l) : (db.declaration \o block)[i] =
                                   IF i <= d THEN db.declaration[i] ELSE block[i - d]
    BY <1>1, <1>3, <1>7, ConcatProperties
  <2>2. /\ Len(tx.declaration) = d + l
        /\ \A n \in 1..l : tx.declaration[d + n] = Declared(k, F.items[n])
    BY <1>2, <1>3, <1>4 DEF Listed
  <2>3. \A i \in 1..d : tx.declaration[i] = db.declaration[i]
    BY <1>1, <1>3 DEF Extends, Ids
  <2>4. ASSUME NEW i \in 1..(d + l) PROVE tx.declaration[i] = (db.declaration \o block)[i]
    <3>1. CASE i <= d
      <4>1. i \in 1..d
        BY <1>3, <2>4, <3>1
      <4> QED
        BY <2>1, <2>3, <2>4, <3>1, <4>1
    <3>2. CASE ~(i <= d)
      <4>1. i - d \in 1..l /\ i = d + (i - d)
        <5>1. d \in Nat /\ l \in Nat
          BY <1>2, <1>3
        <5> QED
          BY <2>4, <3>2, <5>1
      <4>2. tx.declaration[i] = block[i - d]
        BY <1>5, <2>2, <4>1
      <4> QED
        BY <2>1, <2>4, <3>2, <4>2
    <3> QED
      BY <3>1, <3>2
  <2> QED
    BY <1>1, <2>1, <2>2, <2>4, SeqEqual
<1> QED
  BY <1>2, <1>4, <1>8

LEMMA EntersAttributed ==
  ASSUME WellTyped, Kept, db' = tx, SingleOpen(tx), NEW s, Attributed(s)
  PROVE  Ledger!Attribute(doc, s)
<1>1. doc.sha \in Readable
  BY DEF Attributed
<1>2. PICK o \in Owners[known][doc.sha] :
        /\ \A i \in Ids(db.affidavit) : db.affidavit[i].sha = doc.sha => db.affidavit[i].person # o.person
        /\ db'.affidavit = Append(db.affidavit, Row(o, s))
  BY DEF Attributed, Titled
<1>3. db'.declaration = db.declaration \o
           [n \in 1..Len(Content[doc.sha]) |->
              [affidavit |-> Len(db.affidavit) + 1, field |-> Content[doc.sha][n].field,
               raw |-> Content[doc.sha][n].raw, value |-> Content[doc.sha][n].value,
               status |-> Content[doc.sha][n].status]]
  BY ListedInFull DEF Attributed
<1>4. Ledger!Asks(s, Ledger!Changed(doc) \cup {<<"FIELD", f>> : f \in Unread[doc.sha]})
  <2>1. PICK Q : Q = Ledger!Changed(doc) \cup {<<"FIELD", f>> : f \in Unread[doc.sha]}
    OBVIOUS
  <2>2. Ledger!Asks(s, Q)
    BY <2>1, PutsAsks DEF WellTyped, Attributed
  <2> QED
    BY <2>1, <2>2
<1>5. \A i \in 1..Len(db.affidavit) :
        db.affidavit[i].sha = doc.sha => db.affidavit[i].person # o.person
  BY <1>2 DEF Ids
<1> QED
  BY <1>1, <1>2, <1>3, <1>4, <1>5 DEF Ledger!Attribute, Row

LEMMA FinishEnters ==
  ASSUME Base, Questions, Draft, FinishRun
  PROVE  UNCHANGED <<db, known>> \/ (doc \in Document /\ Ledger!Enter(doc))
<1>1. WellTyped /\ Kept /\ db' = tx /\ UNCHANGED known /\ SingleOpen(tx) /\ Finished
      /\ db \in Stored /\ tx \in Stored
  BY DEF FinishRun, Base, WellTyped, Questions, Draft
<1>2. CASE tx = db
  BY <1>1, <1>2
<1>3. CASE tx # db
  <2>1. /\ doc \in Document /\ Based
        /\ \E s \in Ids(tx.source) : tx.source[s].sha = doc.sha /\ (Referred(s) \/ Attributed(s))
    BY <1>1, <1>3 DEF Finished, WellTyped
  <2>2. PICK s \in Ids(tx.source) : tx.source[s].sha = doc.sha /\ (Referred(s) \/ Attributed(s))
    BY <2>1
  <2>3. Ledger!Recorded(doc, s)
    BY <1>1, <2>1, <2>2 DEF Based, Ledger!Recorded, Ids
  <2>4. s \in 1..(Len(db.source) + 1)
    <3>1. db.source \in Seq(Document) /\ Len(db.source) \in Nat /\ doc \in Document
      BY <1>1, Columns DEF WellTyped
    <3>2. Len(tx.source) = Len(db.source) \/ Len(tx.source) = Len(db.source) + 1
      BY <2>1, <3>1, AppendProperties DEF Based
    <3> QED
      BY <2>2, <3>1, <3>2 DEF Ids
  <2>5. Ledger!Attribute(doc, s) \/ Ledger!Refer(doc, s)
    BY <1>1, <2>2, EntersAttributed, EntersReferred
  <2> QED
    BY <1>1, <2>1, <2>3, <2>4, <2>5 DEF Ledger!Enter
<1> QED
  BY <1>2, <1>3

LEMMA StepImplements ==
  ASSUME Base, Questions, Draft, [Next]_vars
  PROVE  [Ledger!LedgerNext]_<<db, known>>
<1>1. CASE FinishRun
  <2>1. CASE db' = db
    BY <1>1, <2>1 DEF FinishRun
  <2>2. CASE db' # db
    BY <1>1, <2>2, FinishEnters DEF Ledger!LedgerNext
  <2> QED
    BY <2>1, <2>2
<1>2. CASE CloseReview
  <2>1. PICK i \in Ids(db.review) :
          /\ db.review[i].status = "OPEN" /\ db' = [db EXCEPT !.review[i].status = "CLOSED"]
    BY <1>2 DEF CloseReview
  <2>2. UNCHANGED known
    BY <1>2 DEF CloseReview
  <2> QED
    BY <2>1, <2>2 DEF Ledger!LedgerNext, Ledger!Close, Ids
<1>3. CASE ResultsArrive
  <2>1. known' = known + 1 /\ UNCHANGED db /\ known' \in 1..Len(Registry)
    <3>1. known \in Ids(Registry) /\ Len(Registry) \in Nat
      BY RegistryAssumption, LenProperties DEF Base, WellTyped
    <3> QED
      BY <1>3, <3>1 DEF ResultsArrive, Ids
  <2>2. known' \in DOMAIN Owners
    BY <2>1 DEF Owners, Ids
  <2> QED
    BY <2>1, <2>2 DEF Ledger!LedgerNext, Ledger!Learn
<1>4. CASE ~(FinishRun \/ CloseReview \/ ResultsArrive)
  <2>1. UNCHANGED <<db, known>>
    BY <1>4, LinkStepIs
       DEF Next, Proceed, LinkStep, StartRun, Fetch, FetchUnread, HandleUnreadable, QueueIdentity, GetSource, KnownAffidavit, InsertAffidavit, Declare, CloseSections, FailRun, Fault,
                Crash, vars
  <2> QED
    BY <2>1
<1> QED
  BY <1>1, <1>2, <1>3, <1>4

(* However runs end and whatever results and reviewers do in between, the  *)
(* tables take in one whole document at a time: its one source, and either *)
(* an affidavit of somebody it may belong to with all that it declares and *)
(* the questions it leaves, or the one question that keeps it out.         *)
THEOREM ImplementsLedger == Spec => IsLedger
<1>1. Init => Ledger!LedgerInit
  BY DEF Init, Empty, Ledger!LedgerInit
<1>2. Base /\ Questions /\ Draft /\ [Next]_vars => [Ledger!LedgerNext]_<<db, known>>
  BY StepImplements
<1> QED
  BY <1>1, <1>2, BaseInvariant, QuestionsInvariant, DraftInvariant, PTL
     DEF Spec, IsLedger, Ledger!LedgerSpec
=============================================================================
