--------------------------- MODULE AffidavitForm ---------------------------
(***************************************************************************)
(* collectors/eci/affidavits/parser.py: what parse_extracted_document      *)
(* makes of the text of a Form 26, line by line.                           *)
(*                                                                         *)
(* A line is a record.  Its kind says what it looks like, "section" being  *)
(* === KEY ===, "pair" Key: value, "row" a category with an amount, after  *)
(* a description and a bar if described, "triple" description | amount |   *)
(* year, "nil" NIL or NONE or NO CASES, "review" NEEDS_REVIEW, and "prose" *)
(* anything else; dash says that it opens with a dash, case that the word  *)
(* Case is somewhere in it.  Blank lines are left out.                     *)
(***************************************************************************)
EXTENDS IndianAmount, FiniteSetsExt

CONSTANT Absent    \* None: no value, or a year that is no number

AssetKeys == {"TOTAL_ASSETS", "MOVABLE_ASSETS", "IMMOVABLE_ASSETS", "OTHER"}
LiabilityKeys == {"TOTAL_LIABILITIES", "OTHER"}

(* _split_sections: a section of a known name replaces the earlier one,    *)
(* and what stands before the first is lost.                               *)
Heads(text) == {i \in 1..Len(text) : text[i].kind = "section"}
BodyFirst(text, name) ==
  LET at == {i \in Heads(text) : text[i].key = name} IN
  IF at = {} THEN <<>>
  ELSE LET next == {i \in Heads(text) : i > Min(at)}
       IN SubSeq(text, Min(at) + 1, Min({i - 1 : i \in next} \cup {Len(text)}))
Body(text, name) ==
  LET at == {i \in Heads(text) : text[i].key = name} IN
  IF Heads(text) = {} /\ name = "HEADER" THEN text
  ELSE IF at = {} THEN <<>>
  ELSE LET next == {i \in Heads(text) : i > Max(at)}
       IN SubSeq(text, Max(at) + 1, Min({i - 1 : i \in next} \cup {Len(text)}))

(* _kv_map: the last value of a key.                                       *)
Value(lines, key) ==
  LET at == {i \in 1..Len(lines) : lines[i].kind = "pair" /\ lines[i].key = key /\ ~lines[i].dash}
  IN IF at = {} THEN Absent ELSE lines[Max(at)].value

Either(value, other) == IF value = Absent THEN other ELSE value

(* Education and cases are split into blocks at the dashes.                *)
Starts(lines) == {i \in 1..Len(lines) : i = 1 \/ lines[i].dash}
Block(lines, i) ==
  SubSeq(lines, i, Min({k - 1 : k \in {k \in Starts(lines) : k > i}} \cup {Len(lines)}))
Says(lines, kind, keys) == \E i \in 1..Len(lines) : lines[i].kind = kind /\ lines[i].key \in keys
Doubts(lines) == {i \in 1..Len(lines) : lines[i].kind = "review"}

TextRow == [field |-> "text", amount |-> <<>>]
Education(lines)  == [n \in 1..Cardinality(Starts(lines)) |-> TextRow]
Profession(lines) == IF lines = <<>> THEN <<>> ELSE <<TextRow>>

(* _parse_cases: a block marked NEEDS_REVIEW counts only if it tells a     *)
(* case, too.                                                              *)
Told(block) ==
  Doubts(block) # {} =>
    /\ \E i \in 1..Len(block) : block[i].case
    /\ Says(block, "pair", {"Case", "Summary"}) \/ block[1].kind # "review"
Cases(lines) ==
  IF Doubts(lines) = {} /\ \E i \in 1..Len(lines) : lines[i].kind = "nil" /\ ~lines[i].dash THEN <<>>
  ELSE [n \in 1..Cardinality({i \in Starts(lines) : Told(Block(lines, i))}) |-> TextRow]

(* _parse_assets, _parse_liabilities and _parse_income take the lines of   *)
(* their pattern and skip the others; OTHER needs a description.           *)
IsRow(line, keys) ==
  line.kind = "row" /\ ~line.dash /\ line.key \in keys /\ (line.key = "OTHER" => line.described)
RowsOf(lines, keys) == Picked(lines, {i \in 1..Len(lines) : IsRow(lines[i], keys)})
Triples(lines) == Picked(lines, {i \in 1..Len(lines) : lines[i].kind = "triple"})
Assets(lines) ==
  LET rows == RowsOf(lines, AssetKeys)
  IN [n \in DOMAIN rows |-> [field |-> rows[n].key, amount |-> rows[n].amount]]
Named(rows, field) == [n \in DOMAIN rows |-> [field |-> field, amount |-> rows[n].amount]]
Liabilities(lines) == Named(RowsOf(lines, LiabilityKeys), "liabilities")
Income(lines)      == Named(Triples(lines), "income")

(* parse_extracted_document; persist_affidavit stores in this order.       *)
ParseForm(text) ==
  LET head == Body(text, "HEADER")
      cases == Body(text, "CRIMINAL_CASES")
  IN [name  |-> Either(Value(head, "Candidate Name"), Value(head, "candidate_name")),
      year  |-> Value(head, "Election Year"),
      type  |-> Either(Value(head, "Election Type"), "LOK_SABHA"),
      seat  |-> Value(head, "Constituency"),
      ext   |-> Value(head, "Source Candidate Id"),
      items |-> Education(Body(text, "EDUCATION")) \o Profession(Body(text, "PROFESSION"))
                \o Assets(Body(text, "ASSETS")) \o Liabilities(Body(text, "LIABILITIES"))
                \o Cases(cases) \o Income(Body(text, "INCOME")),
      cases |-> IF Doubts(cases) # {} THEN "NEEDS_REVIEW" ELSE "PARSED"]
=============================================================================
