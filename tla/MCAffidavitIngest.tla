------------------------- MODULE MCAffidavitIngest -------------------------
(***************************************************************************)
(* Asha stands at one seat, then at an earlier election too, then there is *)
(* another Asha, at another seat.  Forms are complete, revised, incomplete,*)
(* contradictory, carry the id of somebody imported later, or an internal  *)
(* one; one is scanned and one has no name.                                *)
(***************************************************************************)
EXTENDS AffidavitText, TLC

CONSTANTS complete, revised, incomplete, late, contradictory, inner, scanned, nameless,
          asha, bharat, seat, otherSeat, x1, x3, personId

Poll(year, place) == [year |-> year, type |-> "LOK_SABHA", seat |-> place]
Candidate(p, e) == [person |-> p, election |-> e]
Id(x, c) == [value |-> x, candidacy |-> c]

First == [person |-> <<asha, bharat>>, election |-> <<Poll(2024, seat)>>,
          candidacy |-> <<Candidate(1, 1), Candidate(2, 1)>>, csi |-> <<Id(x1, 1)>>]
Second == [First EXCEPT !.election = Append(@, Poll(2019, None)),
                        !.candidacy = Append(@, Candidate(1, 2)), !.csi = Append(@, Id(x1, 3))]
Third == [Second EXCEPT !.person = Append(@, asha), !.election = Append(@, Poll(2024, otherSeat)),
                        !.candidacy = Append(@, Candidate(3, 3)), !.csi = Append(@, Id(x3, 4))]
MCRegistry == <<First, Second, Third>>

(* The texts.  Sections may be repeated, lines out of place or unreadable. *)
Line(kind, key, value, amount) ==
  [kind |-> kind, key |-> key, value |-> value, amount |-> amount,
   dash |-> FALSE, described |-> TRUE, case |-> key = "Case"]
Section(key) == Line("section", key, None, <<>>)
Pair(key, value) == Line("pair", key, value, <<>>)
Row(key, amount) == Line("row", key, None, amount)
Bare(key, amount) == [Row(key, amount) EXCEPT !.described = FALSE]
Dashed  == [Row("OTHER", <<"5">>) EXCEPT !.dash = TRUE]
Prose   == Line("prose", "", None, <<>>)
Plain5  == <<"rupee", "5", "comma", "0", "5", "point", "0">>
Vague   == <<"word", "gap", "word">>
Header(name, year, place, ext) ==
  << Section("HEADER"), Pair("Candidate Name", name), Pair("Election Year", year),
     Pair("Constituency", place), Pair("Source Candidate Id", ext) >>
School  == << Section("EDUCATION"), Prose >>

MCText == [s \in Shas |->
  CASE s = complete   -> Header(asha, 2024, seat, x1) \o School
                         \o << Section("ASSETS"), Row("TOTAL_ASSETS", Plain5), Prose,
                               Row("MOVABLE_ASSETS", <<"dash">>),
                               Section("CRIMINAL_CASES"), Line("nil", "", None, <<>>) >>
    [] s = revised    -> Header(asha, 2024, seat, None)
                         \o << Section("ASSETS"), Row("TOTAL_ASSETS", <<"5">>),
                               Section("LIABILITIES"), Bare("OTHER", <<"5">>), Row("OTHER", <<"nil">>),
                               Section("ASSETS"), Row("OTHER", Plain5), Row("OTHER", Vague), Dashed,
                               Row("OTHER", Vague), Row("TOTAL_LIABILITIES", <<"0">>),
                               Section("CRIMINAL_CASES"), Line("review", "", None, <<>>) >>
    [] s = incomplete -> << Pair("Candidate Name", bharat), Pair("Candidate Name", asha) >>
    [] s = late       -> Header(asha, 2024, None, x3)
                         \o << Section("INCOME"), Line("triple", "", None, Vague), Row("OTHER", <<"5">>) >>
    [] s = contradictory -> Header(None, 2019, seat, x1) \o << Pair("candidate_name", bharat) >>
    [] s = inner      -> Header(bharat, 2024, seat, personId) \o << Section("PROFESSION"), Prose >>
    [] s = nameless   -> Header(None, 2024, seat, x1) \o School
    [] OTHER          -> <<>>]
MCForm == [s \in Shas |-> ParseForm(MCText[s])]
MCExtraction == [s \in Shas |-> IF s = scanned THEN "OCR_REQUIRED" ELSE "TEXT_EXTRACTED"]

MCSymmetry == Permutations(Urls)
MCValues == Names \cup Seats \cup Exts \cup Years \cup {None}
MCYears == {2019, 2024}
MCTypes == {"LOK_SABHA"}
MCSeats == {seat, otherSeat}
MCFields == AssetKeys \cup {"liabilities", "income"}

(* parse_indian_amount against the plain reading, for every text of up to  *)
(* four tokens, and what a text keeps against SelectSeq.                   *)
Texts == UNION {[1..n -> Tokens] : n \in 0..4}
ASSUME PlainAmountsAreRead ==
  \A text \in Texts :
    LET amount == ParseAmount(text) IN
    /\ Plain(text) => amount.value = Reading(text) /\ amount.status \in {"EXACT", "NORMALIZED"}
    /\ amount.value = NoNumber <=> amount.status \in {"MISSING", "NOT_APPLICABLE", "PARSE_FAILED"}
ASSUME KeptIsSelected ==
  \A text \in Texts : Keep(text, Digits) = SelectSeq(text, LAMBDA t : t \in Digits)

-----------------------------------------------------------------------------
(* An affidavit without an official id of its candidacy is linked only if  *)
(* it names the year and the constituency.                                 *)
IncompleteIsReviewed ==
  \A i \in Ids(db.affidavit) :
    LET form == Form[db.affidavit[i].sha] IN
    \/ form.year # None /\ form.seat # None
    \/ \E k \in Ids(Reg.csi) : Reg.csi[k].value = form.ext
=============================================================================
