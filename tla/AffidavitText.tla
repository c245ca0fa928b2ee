--------------------------- MODULE AffidavitText ---------------------------
(***************************************************************************)
(* Affidavit ingestion of documents that are texts: what AffidavitForm     *)
(* makes of a text is the form that AffidavitIngest stores.                *)
(***************************************************************************)
EXTENDS AffidavitIngest, AffidavitForm

CONSTANTS
  Values,    \* what a line of the kind Key: value may say
  Text       \* Text[sha]: the lines that extraction finds in the bytes

Lines == [kind: {"section", "pair", "row", "triple", "nil", "review", "prose"}, key: STRING,
          value: Values, amount: Seq(Tokens), dash: BOOLEAN, described: BOOLEAN, case: BOOLEAN]

ASSUME TextAssumption ==
  /\ Text \in [Shas -> Seq(Lines)]
  /\ Form = [s \in Shas |-> ParseForm(Text[s])] /\ Absent = None
ASSUME FieldsAssumption == Fields = AssetKeys \cup {"liabilities", "income"}

(* The amounts that a text declares: the rows of the section that they     *)
(* stand in, unless the section is given again further down.               *)
Stands(text, n, name) ==
  \E h \in 1..(n - 1) :
    /\ text[h].kind = "section" /\ text[h].key = name
    /\ \A k \in (h + 1)..n : text[k].kind # "section"
    /\ \A k \in n..Len(text) : ~(text[k].kind = "section" /\ text[k].key = name)
Declares(line, field) ==
  CASE field = "income" -> line.kind = "triple"
    [] field = "liabilities" ->
         /\ line.kind = "row" /\ ~line.dash
         /\ line.key = "TOTAL_LIABILITIES" \/ (line.key = "OTHER" /\ line.described)
    [] OTHER ->
         line.kind = "row" /\ ~line.dash /\ line.key = field /\ (field = "OTHER" => line.described)
Home(field) ==
  CASE field = "income" -> "INCOME" [] field = "liabilities" -> "LIABILITIES" [] OTHER -> "ASSETS"

AmountLines == [s \in Shas |-> [field \in Fields |->
  {n \in 1..Len(Text[s]) : Stands(Text[s], n, Home(field)) /\ Declares(Text[s][n], field)}]]

(* An affidavit has one row for every amount that its text declares and    *)
(* none besides, with what the line says and in the order of the lines.    *)
Follows(rows, lines, line) ==
  /\ \A m, n \in rows : m < n => line[m] < line[n]
  /\ lines = {line[n] : n \in rows}
LinesAreStored ==
  \A i \in Ids(db.affidavit), field \in Fields :
    LET text == Text[db.affidavit[i].sha]
        rows == {n \in DeclaredBy(i) : db.declaration[n].field = field}
        lines == AmountLines[db.affidavit[i].sha][field]
    IN \E line \in [rows -> lines] :
         /\ Follows(rows, lines, line)
         /\ \A n \in rows : db.declaration[n].raw = text[line[n]].amount
=============================================================================
