---------------------------- MODULE MCLiveCanary ----------------------------
(* Two configured pages, one further allowed URL to be redirected to, and  *)
(* one outside the allowlist.                                              *)
EXTENDS LiveCanary
CONSTANTS page1, page2, moved, elsewhere
MCConfig == <<page1, page2>>
=============================================================================
