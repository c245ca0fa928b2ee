---------------------------- MODULE SerialIngest ----------------------------
(***************************************************************************)
(* What result ingestion promises of the tables, whoever else is at work:  *)
(* they change by one whole document at a time, and what a document adds   *)
(* is what it would add if it were alone.  The one exception is its source *)
(* row, which may repeat one that its lookup came too early to find.       *)
(***************************************************************************)
EXTENDS Naturals, Sequences

CONSTANTS
  Docs,   \* documents: a URL and the digest of the bytes
  Rows    \* Rows[doc]: the rows it leads to, in code order, its source first

VARIABLE db   \* rows, each with its table, id and key, and the run it is of

Flag == [table |-> "review", name |-> "content_sha256", refs |-> <<1>>]

(* A document is entered row by row, or, if its URL is known, only flagged.*)
Sourced(url) == \E r \in db : r.table = "source" /\ r.key.name.url = url
Scripts(d) == {Rows[d]} \cup {script \in {<<Rows[d][1], Flag>>} : Sourced(d.url)}

(* A line of a script refers to the ids that earlier lines came to.        *)
Bears(row, line, ids) ==
  /\ row.table = line.table
  /\ row.key = [name |-> line.name, refs |-> [k \in 1..Len(line.refs) |-> ids[line.refs[k]]]]

(* Every line comes to a row, its source to a new one; and there are no    *)
(* new rows but those, of which none has an id or a key that was there.    *)
Enters(new, script, ids) ==
  /\ \A i \in 1..Len(script) :
       \E r \in db \cup new : r.id = ids[i] /\ (i = 1 => r \in new) /\ Bears(r, script[i], ids)
  /\ \A r \in new : \E i \in 1..Len(script) : Bears(r, script[i], ids)
  /\ \A r \in new : \A x \in (db \cup new) \ {r} : x.table = r.table =>
       /\ x.id # r.id /\ (x \in db => x.id < r.id)
       /\ x.key = r.key => r.table = "source"

(* The rows of a document are of one run, which has entered no other ones. *)
OfOneRun(new) == \A r \in new : \A x \in db \cup new : x.run = r.run <=> x \in new

SerialInit == db = {}

Enter(d) ==
  \E script \in Scripts(d) :
    /\ db \subseteq db'
    /\ LET new == db' \ db IN
       /\ OfOneRun(new)
       /\ \E ids \in [1..Len(script) -> {r.id : r \in db'}] : Enters(new, script, ids)

SerialNext == \E d \in Docs : Enter(d)

SerialSpec == SerialInit /\ [][SerialNext]_db
=============================================================================
