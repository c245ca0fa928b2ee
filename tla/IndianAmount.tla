---------------------------- MODULE IndianAmount ----------------------------
(***************************************************************************)
(* collectors/eci/affidavits/currency.py: what parse_indian_amount makes   *)
(* of a declared amount.  A text is a sequence of tokens; a value is the   *)
(* digits it is made of, before and after the decimal point.               *)
(***************************************************************************)
EXTENDS Naturals, Sequences, FiniteSets

Digits == {"0", "5"}                 \* zero, and a digit that is not zero
Marks  == {"rupee", "inr"}           \* the sign or Rs, with its dot; the letters INR
Tokens == Digits \cup Marks \cup
          {"comma", "gap", "point", "dash",
           "word",                   \* any other letters: lakh, crore, houses
           "nil", "na"}              \* Nil, None, Zero; N/A, Not Applicable

Number == [whole: Seq(Digits), frac: Seq(Digits)]
Zero   == [whole |-> <<"0">>, frac |-> <<>>]
NoNumber == [whole |-> <<>>, frac |-> <<>>]      \* amount_value is None
Amount(number, status) == [value |-> number, status |-> status]

Has(text, S) == \E i \in 1..Len(text) : text[i] \in S
Only(text, S) == \A i \in 1..Len(text) : text[i] \in S

(* A sequence without all but some of its places: the nth one that stays   *)
(* is the one that n of them stand before or at.                           *)
Rank(places, i) == Cardinality({k \in places : k <= i})
Picked(s, places) ==
  [n \in 1..Cardinality(places) |-> s[CHOOSE i \in places : Rank(places, i) = n]]
Places(text, S) == {i \in 1..Len(text) : text[i] \in S}
Keep(text, S)   == Picked(text, Places(text, S))

(* str.strip, and the removal of currency marks, commas and spaces.        *)
Cleaned(text) == Keep(text, Tokens \ (Marks \cup {"comma", "gap"}))
Inked(text)   == Keep(text, Tokens \ {"gap"})

(* The pattern [0-9]+(\.[0-9]+)?, searched from the left.                  *)
FirstDigit(s) == CHOOSE i \in 1..Len(s) : s[i] \in Digits /\ \A k \in 1..(i - 1) : s[k] \notin Digits
RunEnd(s, i) == CHOOSE j \in i..Len(s) :
                  /\ \A k \in i..j : s[k] \in Digits
                  /\ j < Len(s) => s[j + 1] \notin Digits
FirstNumber(s) ==
  LET i == FirstDigit(s)
      j == RunEnd(s, i)
  IN [whole |-> SubSeq(s, i, j),
      frac  |-> IF j + 2 <= Len(s) /\ s[j + 1] = "point" /\ s[j + 2] \in Digits
                THEN SubSeq(s, j + 2, RunEnd(s, j + 2)) ELSE <<>>]
IsZero(n) == Only(n.whole, {"0"}) /\ Only(n.frac, {"0"})

(* Gaps around a text are stripped; no pattern of the whole text has any   *)
(* inside, except before the dot of NIL.                                   *)
ParseAmount(text) ==
  LET word == Inked(text) IN
  IF word = <<>> THEN Amount(NoNumber, "MISSING")
  ELSE IF word \in {<<"na">>, <<"dash">>} THEN Amount(NoNumber, "NOT_APPLICABLE")
  ELSE IF word \in {<<"nil">>, <<"nil", "point">>} THEN Amount(Zero, "ZERO")
  ELSE IF ~Has(word, Digits) THEN Amount(NoNumber, "PARSE_FAILED")
  ELSE LET number == FirstNumber(Cleaned(text)) IN
       Amount(number, IF Has(text, {"comma", "rupee"}) \/ IsZero(number)
                      THEN "EXACT" ELSE "NORMALIZED")

(* _map_amount_status of normalize.py.                                     *)
FieldStatus(status) ==
  CASE status = "PARSE_FAILED" -> "PARSE_FAILED"
    [] status \in {"MISSING", "NOT_APPLICABLE"} -> "MISSING"
    [] status \in {"EXACT", "ZERO"} -> "EXACT"
    [] status = "NORMALIZED" -> "NORMALIZED"

-----------------------------------------------------------------------------
(* What a plainly written amount says: at most a mark in front, then       *)
(* digits grouped by commas, then at most one point with digits on both    *)
(* sides.  Nothing else is left to interpretation.                         *)
Plain(text) ==
  /\ Has(text, Digits) /\ Only(text, Digits \cup {"comma", "rupee", "inr", "point"})
  /\ \A i \in 1..Len(text) :
       /\ text[i] \in Marks => i = 1
       /\ text[i] = "point" =>
            /\ 1 < i /\ i < Len(text) /\ text[i - 1] \in Digits /\ text[i + 1] \in Digits
            /\ \A j \in 1..Len(text) : j # i => text[j] # "point"
            /\ \A j \in i..Len(text) : text[j] # "comma"
Reading(text) ==
  LET end == CHOOSE i \in 1..(Len(text) + 1) :
               /\ \A k \in 1..(i - 1) : text[k] # "point"
               /\ i <= Len(text) => text[i] = "point"
  IN [whole |-> Keep(SubSeq(text, 1, end - 1), Digits),
      frac  |-> Keep(SubSeq(text, end + 1, Len(text)), Digits)]
=============================================================================
