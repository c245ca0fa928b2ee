------------------------ MODULE MCConcurrentIngest ------------------------
(***************************************************************************)
(* A result and its correction under one URL, which gives the person       *)
(* another name, and the result of another seat with a person in common.   *)
(***************************************************************************)
EXTENDS ConcurrentIngest

Document(url, sha) == [url |-> url, sha |-> sha]
Result == Document("u1", "result")
Corrected == Document("u1", "corrected")
Other == Document("u2", "other")
MCDocs == {Result, Corrected, Other}

Row(table, name, refs) == [table |-> table, name |-> name, refs |-> refs]
MCRows == [d \in MCDocs |->
  << Row("source", d, <<>>),
     Row("seat", d.url, <<>>),
     Row("person", IF d = Corrected THEN "anita" ELSE "asha", <<>>),
     Row("candidacy", "", <<3, 2>>) >>]
MCUniqueTables == {"candidacy"}
=============================================================================
