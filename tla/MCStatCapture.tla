--------------------------- MODULE MCStatCapture ----------------------------
(* Two processes, three supported downloads and one that is HTML.          *)
EXTENDS StatCapture, TLC
CONSTANTS p1, p2, a, b, c, html
MCSymmetry == Permutations({p1, p2}) \cup Permutations({a, b, c})
=============================================================================
