--------------------------- MODULE MCGuardedHttp ----------------------------
(* Four allowed URLs and one outside the allowlist: enough for a redirect  *)
(* chain that exceeds three hops, and for one that comes back to its start.  *)
EXTENDS GuardedHttp
CONSTANTS u1, u2, u3, u4, elsewhere
=============================================================================
