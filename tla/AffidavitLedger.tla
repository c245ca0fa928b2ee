-------------------------- MODULE AffidavitLedger --------------------------
(***************************************************************************)
(* What affidavit ingestion promises of its tables, however runs end and   *)
(* whoever else is at work: they take in one whole document at a time, and *)
(* are otherwise left alone, but for the review items that people close.   *)
(***************************************************************************)
EXTENDS Naturals, Sequences

CONSTANTS
  Documents,   \* documents: a URL and the digest of the bytes
  Readable,    \* digests of the bytes that a valid form can be read from
  Content,     \* Content[sha]: the rows that the bytes declare, in their order
  Unread,      \* Unread[sha]: the fields of them that could not be read
  Owners,      \* Owners[n][sha]: whom they may belong to, after n - 1 result imports
  Certain      \* Certain[m][n][sha]: whether there is no doubt whom, if ids are looked up
               \* after m - 1 of them and names after n - 1

VARIABLES db, known

(* The bytes are recorded once, as the source s, from where they first came. *)
New(d) == \A i \in 1..Len(db.source) : db.source[i].sha # d.sha
Recorded(d, s) ==
  /\ db'.source = IF New(d) THEN Append(db.source, d) ELSE db.source
  /\ s \in 1..Len(db'.source) /\ db'.source[s].sha = d.sha

(* Each question is there for a reviewer.  What is added are open items of *)
(* the questions, each of which differs from all others.                   *)
Asks(s, questions) ==
  LET Item(q) == [source |-> s, type |-> q[1], field |-> q[2], status |-> "OPEN"]
      new == (Len(db.review) + 1)..Len(db'.review)
  IN
  /\ Len(db.review) <= Len(db'.review)
  /\ \A i \in 1..Len(db.review) : db'.review[i] = db.review[i]
  /\ \A q \in questions : \E i \in 1..Len(db'.review) :
       [db'.review[i] EXCEPT !.status = "OPEN"] = Item(q)
  /\ \A i \in new : \E q \in questions : db'.review[i] = Item(q)
  /\ \A i \in new, j \in 1..Len(db'.review) : db'.review[i] = db'.review[j] => i = j

(* Bytes that are new at a URL known before are looked at whatever they say. *)
Changed(d) ==
  {q \in {<<"DOCUMENT", "content_sha256">>} :
     New(d) /\ \E i \in 1..Len(db.source) : db.source[i].url = d.url}

(* A document becomes the affidavit of one of its owners, who has none of  *)
(* these bytes, with all that it declares in one block and in order.       *)
Attribute(d, s) ==
  d.sha \in Readable /\ \E o \in Owners[known][d.sha] :
    /\ \A i \in 1..Len(db.affidavit) :
         db.affidavit[i].sha = d.sha => db.affidavit[i].person # o.person
    /\ db'.affidavit = Append(db.affidavit,
         [person |-> o.person, election |-> o.election, candidacy |-> o.candidacy,
          url |-> d.url, sha |-> d.sha, source |-> s,
          outcome |-> IF Unread[d.sha] = {} THEN "SUCCESS" ELSE "PARTIAL"])
    /\ db'.declaration = db.declaration \o
         [n \in 1..Len(Content[d.sha]) |->
            [affidavit |-> Len(db.affidavit) + 1, field |-> Content[d.sha][n].field,
             raw |-> Content[d.sha][n].raw, value |-> Content[d.sha][n].value,
             status |-> Content[d.sha][n].status]]
    /\ Asks(s, Changed(d) \cup {<<"FIELD", f>> : f \in Unread[d.sha]})

(* Or it is left to a reviewer, with nothing that it may say of anybody:   *)
(* one whose text was not got at, and one whose owner is in doubt by what  *)
(* the results once were, or between two imports of them.                  *)
Refer(d, s) ==
  /\ db'.affidavit = db.affidavit /\ db'.declaration = db.declaration
  /\ \/ Asks(s, {<<"DOCUMENT", "document_text">>})
     \/ /\ d.sha \in Readable /\ \E m, n \in 1..known : m <= n /\ ~Certain[m][n][d.sha]
        /\ Asks(s, {<<"IDENTITY", "candidate_name">>})

Enter(d) ==
  /\ \E s \in 1..(Len(db.source) + 1) : Recorded(d, s) /\ (Attribute(d, s) \/ Refer(d, s))
  /\ UNCHANGED known

Close ==
  /\ \E i \in 1..Len(db.review) :
       db.review[i].status = "OPEN" /\ db' = [db EXCEPT !.review[i].status = "CLOSED"]
  /\ UNCHANGED known

Learn == known' = known + 1 /\ known' \in DOMAIN Owners /\ UNCHANGED db

LedgerInit ==
  /\ db = [source |-> <<>>, affidavit |-> <<>>, declaration |-> <<>>, review |-> <<>>]
  /\ known = 1

(* A document that adds nothing, as it has been entered, is no step.       *)
LedgerNext == Learn \/ Close \/ (db' # db /\ \E d \in Documents : Enter(d))

LedgerSpec == LedgerInit /\ [][LedgerNext]_<<db, known>>
=============================================================================
