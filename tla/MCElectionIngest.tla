-------------------------- MODULE MCElectionIngest --------------------------
(***************************************************************************)
(* One constituency and its corrected result, the same seat at a later     *)
(* poll and without a code, a payload whose identifier is taken, one with  *)
(* namesakes, one that does not validate, and one of another state with a  *)
(* constituency of the same name.                                          *)
(***************************************************************************)
EXTENDS ElectionIngest

CONSTANTS original, corrected, later, taken, namesakes, invalid, twins, elsewhere,
          asha, bharat, x1, x2, x3, code1

Won(votes, share)  == [votes |-> votes, share |-> share, rank |-> 1, result |-> "WON"]
Lost(votes, share) == [votes |-> votes, share |-> share, rank |-> 2, result |-> "LOST"]
Entry(name, ext, score) == [name |-> name, party |-> "party", ext |-> ext, score |-> score]
Result(poll, seat, code, cands) ==
  [poll |-> poll, state |-> "state", seat |-> seat, code |-> code, cands |-> cands]

MCPayload == [s \in Shas |->
  CASE s = original     -> Result("2024", "seat", code1, <<Entry(asha, x1, Won(9, 64)), Entry(bharat, NoExt, Lost(5, 36))>>)
    [] s = corrected -> Result("2024", "seat", code1, <<Entry(asha, x1, Won(8, 62)), Entry(bharat, x2, Lost(5, 38))>>)
    [] s = later     -> Result("2029", "seat", NoCode, <<Entry(bharat, x1, Won(7, 100))>>)
    [] s = taken     -> Result("2024", "seat", code1, <<Entry(bharat, x1, Won(9, 100))>>)
    [] s = namesakes -> Result("2024", "other seat", NoCode, <<Entry(asha, NoExt, Won(9, 64)), Entry(asha, NoExt, Lost(5, 36))>>)
    [] s = twins     -> Result("2024", "other seat", NoCode, <<Entry(asha, x2, Won(9, 64)), Entry(asha, x3, Lost(5, 36))>>)
    [] s = invalid   -> Result("2024", "seat", code1, <<Entry(asha, x1, Lost(5, 26)), Entry(bharat, x2, Lost(5, 26)), Entry(asha, x3, Won(9, 48))>>)
    [] s = elsewhere -> [Result("2024", "seat", NoCode, <<Entry(bharat, NoExt, Won(9, 100))>>)
                           EXCEPT !.state = "other state"]]

MCStates == {"state", "other state"}
MCSeatNames == {"seat", "other seat"}
MCPolls == {"2024", "2029"}
MCParties == {"party"}
=============================================================================
