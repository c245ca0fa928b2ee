----------------------------- MODULE MCArchive ------------------------------
(***************************************************************************)
(* Two processes, two payloads that share their digest prefix, and two     *)
(* buckets: a prefix collision, deduplication across buckets and the race  *)
(* for one directory name all happen.                                      *)
(***************************************************************************)
EXTENDS Archive, TLC

CONSTANTS p1, p2, c1, c2, b1, b2, n1, t1, t2

MCNames  == {n1}
MCPrefix == [c \in Contents |-> n1]
MCShort  == [c \in Contents |-> n1]

MCSymmetry == Permutations({p1, p2}) \cup Permutations({c1, c2})
                \cup Permutations({b1, b2}) \cup Permutations({t1, t2})
=============================================================================
