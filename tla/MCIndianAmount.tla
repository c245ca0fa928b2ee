--------------------------- MODULE MCIndianAmount ---------------------------
(***************************************************************************)
(* Every text of up to MaxTokens tokens, written one token at a time.      *)
(***************************************************************************)
EXTENDS IndianAmount

CONSTANT MaxTokens
VARIABLE text

Init == text = <<>>
Write == Len(text) < MaxTokens /\ \E t \in Tokens : text' = Append(text, t)
Spec == Init /\ [][Write]_text

(* A text becomes zero only if it says NIL or has no digit but zero.       *)
NeverSilentZero ==
  LET amount == ParseAmount(text) IN
  amount.value # NoNumber /\ IsZero(amount.value) =>
    amount.status = "ZERO" \/ ~Has(text, Digits \ {"0"})
=============================================================================
