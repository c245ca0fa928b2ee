--------------------------- MODULE ImmutableStore ---------------------------
(***************************************************************************)
(* What the raw archive promises its callers: a place receives at most one *)
(* observation, an observation keeps the hash it was recorded with, and    *)
(* bytes that were lost or damaged outside the program never come back     *)
(* under the same observation.                                             *)
(***************************************************************************)
CONSTANTS
  Places,      \* where an observation can be recorded
  Hashes,      \* SHA-256 digests
  NoObs        \* the value of a place without observation

VARIABLE obs   \* obs[l]: the observation recorded at l, or NoObs

Observation == [sha: Hashes, bytes: {"intact", "damaged"}]

StoreInit == obs = [l \in Places |-> NoObs]

(* One more observation; the bytes it refers to may already be damaged.    *)
Record(l) ==
  /\ obs[l] = NoObs
  /\ \E o \in Observation : obs' = [obs EXCEPT ![l] = o]

(* Bytes rot: every observation that refers to them stops verifying.       *)
Rot(lost) ==
  /\ \A l \in lost : obs[l] # NoObs
  /\ obs' = [l \in Places |->
               IF l \in lost THEN [obs[l] EXCEPT !.bytes = "damaged"] ELSE obs[l]]

StoreNext == (\E l \in Places : Record(l)) \/ (\E lost \in SUBSET Places : Rot(lost))

StoreSpec == StoreInit /\ [][StoreNext]_obs
=============================================================================
