----------------------------- MODULE LiveCanary -----------------------------
(***************************************************************************)
(* collectors/eci/live_results/canary.py: a short list of URLs is fetched  *)
(* with one guarded client and one budget, every response is archived      *)
(* before it is looked at, and with --persist each accepted page goes into *)
(* one database transaction.  The transaction commits with the run's row   *)
(* as SUCCESS or PARTIAL, or is rolled back and the row says FAILED.       *)
(*                                                                         *)
(* A page is known by its place in the configuration.  What persisting it  *)
(* does to the tables is ElectionIngest's subject.                         *)
(***************************************************************************)
EXTENDS GuardedHttp

CONSTANTS
  Config,       \* the configured URLs, in order
  MaxCanaries,  \* bound: canaries run
  MaxDeaths     \* bound: times the process dies

(* load_canary_config refuses an empty list, more than five, and any URL   *)
(* that the client would refuse.                                           *)
ASSUME ConfigAssumption ==
  Config \in Seq(Allowed) /\ Len(Config) \in 1..5
ASSUME CanaryBounds == MaxCanaries \in Nat /\ MaxDeaths \in Nat

VARIABLES
  mode,      \* "capture" or "persist"
  stage,     \* where the canary is
  index,     \* pages begun
  stopped,   \* whether stopped_reason is set
  archived,  \* pages archived in this canary
  tx,        \* pages persisted in the open transaction
  runs,      \* collector_run rows, each with the pages its commit saved
  launched, deaths

canary == <<mode, stage, index, stopped, archived, tx, runs, launched, deaths>>
vars   == <<http, canary>>
Pages  == 1..Len(Config)

-----------------------------------------------------------------------------
Init ==
  /\ InitHttp
  /\ mode = "capture" /\ stage = "off" /\ index = 0 /\ stopped = FALSE
  /\ archived = {} /\ tx = {} /\ runs = <<>> /\ launched = 0 /\ deaths = 0

(* run_canary past its gates: a fresh budget and client, and with --persist*)
(* a RUNNING row that is committed at once.                                *)
Launch(m) ==
  /\ stage = "off" /\ launched < MaxCanaries
  /\ launched' = launched + 1
  /\ mode' = m /\ stage' = "urls"
  /\ index' = 0 /\ stopped' = FALSE /\ archived' = {} /\ tx' = {}
  /\ runs' = IF m = "persist" THEN Append(runs, [status |-> "RUNNING", saved |-> {}]) ELSE runs
  /\ made' = 0 /\ outcome' = "none" /\ tried' = <<>>
  /\ UNCHANGED <<phase, current, counters, status, deaths>>

(* The loop over the URLs, and what happens inside client.get.             *)
NextUrl ==
  /\ stage = "urls" /\ index < Len(Config)
  /\ Get(Config[index + 1])
  /\ index' = index + 1 /\ stage' = "call"
  /\ UNCHANGED <<mode, stopped, archived, tx, runs, launched, deaths>>
LastUrl ==
  /\ stage = "urls" /\ index = Len(Config)
  /\ stage' = "close"
  /\ UNCHANGED <<http, mode, index, stopped, archived, tx, runs, launched, deaths>>
InGet == stage = "call" /\ InCall /\ UNCHANGED canary

Returned == stage = "call" /\ phase = "idle"

(* LiveNetworkError and LiveAccessError end the loop in either mode.       *)
CallFailsOnce ==
  /\ Returned /\ outcome \in NetworkErrors \cup {"refused"}
  /\ stopped' = TRUE /\ stage' = "urls"
  /\ UNCHANGED <<http, mode, index, archived, tx, runs, launched, deaths>>
CallFails ==
  /\ Returned /\ outcome \in NetworkErrors \cup {"refused"}
  /\ stopped' = TRUE /\ stage' = "close"
  /\ UNCHANGED <<http, mode, index, archived, tx, runs, launched, deaths>>
(* Other exceptions leave the loop for the except branch.                  *)
CallRaises ==
  /\ Returned /\ outcome \in Exceptions
  /\ stage' = "abort"
  /\ UNCHANGED <<http, mode, index, stopped, archived, tx, runs, launched, deaths>>

(* _archive_live_response, whatever the status; it can raise ArchiveError. *)
Archive ==
  /\ Returned /\ outcome \in Responses
  /\ \/ archived' = archived \cup {index} /\ stage' = "page"
     \/ stage' = "abort" /\ UNCHANGED archived
  /\ UNCHANGED <<http, mode, index, stopped, tx, runs, launched, deaths>>

(* A status other than 200, or a layout that does not validate: capture    *)
(* goes on to the next URL, persist stops.                                 *)
RefusePageAndGoOn ==
  /\ stage = "page"
  /\ stopped' = TRUE /\ stage' = "urls"
  /\ UNCHANGED <<http, mode, index, archived, tx, runs, launched, deaths>>
RefusePage ==
  /\ stage = "page"
  /\ stopped' = TRUE
  /\ stage' = IF mode = "persist" THEN "close" ELSE "urls"
  /\ UNCHANGED <<http, mode, index, archived, tx, runs, launched, deaths>>

AcceptCapture ==
  /\ stage = "page" /\ outcome = "page" /\ mode = "capture"
  /\ stage' = "urls"
  /\ UNCHANGED <<http, mode, index, stopped, archived, tx, runs, launched, deaths>>

(* _persist_archived: the archived bytes do not parse, do not validate or  *)
(* the database refuses them, or the page joins the transaction.           *)
PersistPage ==
  /\ stage = "page" /\ outcome = "page" /\ mode = "persist"
  /\ \/ stopped' = TRUE /\ stage' = "close" /\ UNCHANGED tx
     \/ stage' = "abort" /\ UNCHANGED <<stopped, tx>>
     \/ tx' = tx \cup {index} /\ stopped' = FALSE /\ stage' = "urls"
  /\ UNCHANGED <<http, mode, index, archived, runs, launched, deaths>>

(* finish_collector_run and the commit, which can itself fail.             *)
LastRun == Len(runs)
CloseAsSuccess ==
  /\ stage = "close"
  /\ runs' = IF mode = "persist"
               THEN [runs EXCEPT ![LastRun] = [status |-> "SUCCESS", saved |-> tx]] ELSE runs
  /\ stage' = "off" /\ tx' = {}
  /\ UNCHANGED <<http, mode, index, stopped, archived, launched, deaths>>
Close ==
  /\ stage = "close"
  /\ \/ /\ mode = "persist"
        /\ runs' = [runs EXCEPT ![LastRun] =
                      [status |-> IF stopped THEN "PARTIAL" ELSE "SUCCESS", saved |-> tx]]
        /\ stage' = "off" /\ tx' = {}
     \/ mode = "persist" /\ stage' = "abort" /\ UNCHANGED <<tx, runs>>
     \/ mode = "capture" /\ stage' = "off" /\ UNCHANGED <<tx, runs>>
  /\ UNCHANGED <<http, mode, index, stopped, archived, launched, deaths>>

(* The except branch: rollback, FAILED, commit, and the exception leaves.  *)
AbortSilently ==
  /\ stage = "abort"
  /\ stage' = "off" /\ stopped' = TRUE /\ tx' = {}
  /\ UNCHANGED <<http, mode, index, archived, runs, launched, deaths>>
Abort ==
  /\ stage = "abort"
  /\ runs' = IF mode = "persist" THEN [runs EXCEPT ![LastRun].status = "FAILED"] ELSE runs
  /\ stage' = "off" /\ stopped' = TRUE /\ tx' = {}
  /\ UNCHANGED <<http, mode, index, archived, launched, deaths>>

(* The process dies; what was archived stays, the transaction is lost.     *)
Die ==
  /\ stage # "off" /\ deaths < MaxDeaths
  /\ deaths' = deaths + 1
  /\ stage' = "off" /\ tx' = {} /\ phase' = "idle"
  /\ UNCHANGED <<made, current, counters, status, outcome, tried,
                 mode, index, stopped, archived, runs, launched>>

Proceed ==
  \/ NextUrl \/ LastUrl \/ InGet \/ CallFails \/ CallRaises \/ Archive \/ RefusePage
  \/ AcceptCapture \/ PersistPage \/ Close \/ Abort
Next == Proceed \/ Die \/ (\E m \in {"capture", "persist"} : Launch(m))

Spec == Init /\ [][Next]_vars
(* One thread, and no step of it waits for more than a timeout.            *)
FairSpec == Spec /\ WF_vars(Proceed)

-----------------------------------------------------------------------------
TypeOK ==
  /\ TypeHttp
  /\ mode \in {"capture", "persist"}
  /\ stage \in {"off", "urls", "call", "page", "close", "abort"}
  /\ index \in 0..Len(Config) /\ stopped \in BOOLEAN
  /\ archived \subseteq Pages /\ tx \subseteq Pages
  /\ runs \in Seq([status: {"RUNNING", "SUCCESS", "PARTIAL", "FAILED"}, saved: SUBSET Pages])
  /\ launched \in 0..MaxCanaries /\ deaths \in 0..MaxDeaths

(* The row of a run says what its commit saved: all pages, the pages up to *)
(* the first that failed, or none.                                         *)
StatusTellsTruth ==
  \A r \in DOMAIN runs :
    LET saved == runs[r].saved IN
    /\ runs[r].status = "SUCCESS" => saved = Pages
    /\ runs[r].status = "PARTIAL" => \E k \in 0..(Len(Config) - 1) : saved = 1..k
    /\ runs[r].status \in {"RUNNING", "FAILED"} => saved = {}

(* "Never parse an active HTTP response body without archiving first", and *)
(* persisting never skips over a page that failed.                         *)
PersistsArchivedPrefix ==
  /\ tx \subseteq archived
  /\ mode = "capture" => tx = {}
  /\ stage = "urls" /\ mode = "persist" => tx = 1..index

(* Being told to stop, a cap, a loop or a refused redirect ends the canary *)
(* in either mode: no further request goes out.                            *)
NoCallAfterHardStop ==
  [][stage # "off" /\ outcome \in NetworkErrors \cup {"refused"} => phase' = "idle"]_vars

(* A canary ends, and its row leaves RUNNING unless the process died.      *)
Running(r) == r <= Len(runs) /\ runs[r].status = "RUNNING"
RunsAreClosed == \A r \in 1..MaxCanaries : Running(r) ~> (~Running(r) \/ deaths > 0)
=============================================================================
