----------------------------- MODULE GuardedHttp ----------------------------
(***************************************************************************)
(* The two guarded clients, collectors/eci/live_results/http_client.py and *)
(* collectors/eci/statistical_reports/http_client.py: one GET with manual  *)
(* redirects, retries of timeouts and server errors, and a request budget  *)
(* that the calls of a client share.  OkOnly tells the clients apart: the  *)
(* statistical-report client refuses every final status but 200.           *)
(*                                                                         *)
(* The server answers as it likes, each time anew.  httpx bounds the wait  *)
(* for it, so every request gets an answer or an exception.  The pause of  *)
(* at least five seconds between requests is not modelled.                 *)
(***************************************************************************)
EXTENDS Naturals, Sequences, FiniteSets

CONSTANTS
  Urls,         \* URLs a configuration or a Location header can name
  Allowed,      \* those validate_eci_url or validate_capture_url accepts
  NoLocation,   \* a redirect without Location
  OkOnly,       \* the statistical-report client
  MaxRequests,  \* max_requests of the RequestBudget
  MaxRetries,   \* MAX_5XX_RETRIES, for server errors and for timeouts
  MaxHops       \* MAX_REDIRECT_HOPS

ASSUME HttpAssumption ==
  /\ Allowed \subseteq Urls /\ NoLocation \notin Urls /\ OkOnly \in BOOLEAN
  /\ MaxRequests \in Nat /\ MaxRetries \in Nat /\ MaxHops \in Nat

VARIABLES
  made,      \* budget.requests_made
  phase,     \* where the call is: not in one, before a request, after it, at a body
  current,   \* the URL to request next, or requested
  chain,     \* redirect_chain: the URLs redirected from
  hops,      \* redirect_hops
  errors,    \* server_error_retries since the last redirect
  timeouts,  \* timeout_retries since the last redirect
  status,    \* "page" for 200, "other" for another status with a body
  outcome,   \* how the last call ended
  tried      \* the URLs the last call sent a request to, in order

counters == <<chain, hops, errors, timeouts>>
http     == <<made, phase, current, counters, status, outcome, tried>>

NetworkErrors == {"cap", "timeout", "no location", "hops", "loop", "stopped",
                  "server error", "status", "oversized"}
Exceptions == {"transport", "body timeout"}   \* httpx errors the client does not catch
Responses  == {"page", "other"}
Outcomes   == {"none", "refused"} \cup NetworkErrors \cup Exceptions \cup Responses

-----------------------------------------------------------------------------
InitHttp ==
  /\ made = 0 /\ phase = "idle"
  /\ current \in Urls
  /\ chain = {} /\ hops = 0 /\ errors = 0 /\ timeouts = 0
  /\ status = "page" /\ outcome = "none" /\ tried = <<>>

End(result) == phase' = "idle" /\ outcome' = result

Get(url) ==
  /\ phase = "idle"
  /\ \/ url \notin Allowed /\ End("refused")
     \/ url \in Allowed /\ phase' = "consume" /\ outcome' = "none"
  /\ current' = url /\ tried' = <<>>
  /\ chain' = {} /\ hops' = 0 /\ errors' = 0 /\ timeouts' = 0
  /\ UNCHANGED <<made, status>>

(* RequestBudget.consume, and the request goes out.                        *)
ConsumeBlocks ==
  /\ phase = "consume" /\ made < MaxRequests
  /\ made' = made + 1
  /\ tried' = Append(tried, current)
  /\ phase' = "sent"
  /\ UNCHANGED <<current, counters, status, outcome>>
Consume ==
  /\ phase = "consume"
  /\ \/ made >= MaxRequests /\ End("cap") /\ UNCHANGED <<made, tried>>
     \/ /\ made < MaxRequests
        /\ made' = made + 1
        /\ tried' = Append(tried, current)
        /\ phase' = "sent" /\ UNCHANGED outcome
  /\ UNCHANGED <<current, counters, status>>

(* TimeoutException from send, or a status of 500 and above: try again up  *)
(* to MaxRetries times, each with its own counter.                         *)
Retry(count, giveUp) ==
  IF count <= MaxRetries THEN phase' = "consume" /\ UNCHANGED outcome ELSE End(giveUp)
TimesOut ==
  /\ phase = "sent"
  /\ timeouts' = timeouts + 1
  /\ Retry(timeouts', "timeout")
  /\ UNCHANGED <<made, current, chain, hops, errors, status, tried>>
ServerErrorOnce ==
  /\ phase = "sent"
  /\ errors' = errors + 1
  /\ Retry(timeouts + errors', "server error")
  /\ UNCHANGED <<made, current, chain, hops, timeouts, status, tried>>
ServerError ==
  /\ phase = "sent"
  /\ errors' = errors + 1
  /\ Retry(errors', "server error")
  /\ UNCHANGED <<made, current, chain, hops, timeouts, status, tried>>

(* Any other httpx exception leaves get.                                   *)
TransportFails ==
  /\ phase = "sent"
  /\ End("transport")
  /\ UNCHANGED <<made, current, counters, status, tried>>

(* 429 and 403: no retry, no other URL.                                    *)
ToldToStop ==
  /\ phase = "sent"
  /\ End("stopped")
  /\ UNCHANGED <<made, current, counters, status, tried>>

(* A redirect that cannot be followed, in the order of the code's checks.  *)
RedirectError(next) ==
  CASE next = NoLocation -> "no location"
    [] next # NoLocation /\ next \notin Allowed -> "refused"
    [] next \in Allowed /\ hops + 1 > MaxHops -> "hops"
    [] next \in Allowed /\ hops + 1 <= MaxHops /\ next \in chain \cup {current} -> "loop"
    [] OTHER -> "none"
RedirectIsRefused(next) ==
  /\ phase = "sent"
  /\ RedirectError(next) # "none"
  /\ hops' = IF next \in Allowed THEN hops + 1 ELSE hops
  /\ End(RedirectError(next))
  /\ UNCHANGED <<made, current, chain, errors, timeouts, status, tried>>
FollowRedirectForgets(next) ==
  /\ phase = "sent"
  /\ RedirectError(next) = "none"
  /\ chain' = {current} /\ current' = next
  /\ hops' = hops + 1 /\ errors' = 0 /\ timeouts' = 0
  /\ phase' = "consume"
  /\ UNCHANGED <<made, status, outcome, tried>>
FollowRedirect(next) ==
  /\ phase = "sent"
  /\ RedirectError(next) = "none"
  /\ chain' = chain \cup {current} /\ current' = next
  /\ hops' = hops + 1 /\ errors' = 0 /\ timeouts' = 0
  /\ phase' = "consume"
  /\ UNCHANGED <<made, status, outcome, tried>>

(* Any other status: its body is read, within the size cap.                *)
Answer(code) ==
  /\ phase = "sent"
  /\ status' = code
  /\ \/ OkOnly /\ code # "page" /\ End("status")
     \/ ~(OkOnly /\ code # "page") /\ phase' = "body" /\ UNCHANGED outcome
  /\ UNCHANGED <<made, current, counters, tried>>
ReadBody ==
  /\ phase = "body"
  /\ \/ End(status)
     \/ End("oversized")
     \/ \E exception \in Exceptions : End(exception)
  /\ UNCHANGED <<made, current, counters, status, tried>>

InCall ==
  \/ Consume \/ TimesOut \/ ServerError \/ TransportFails \/ ToldToStop \/ ReadBody
  \/ \E next \in Urls \cup {NoLocation} : RedirectIsRefused(next) \/ FollowRedirect(next)
  \/ \E code \in Responses : Answer(code)
NextHttp == InCall \/ (\E url \in Urls : Get(url))

SpecHttp == InitHttp /\ [][NextHttp]_http
(* Nothing in the client waits for more than a timeout.                    *)
FairHttp == SpecHttp /\ WF_http(InCall)

-----------------------------------------------------------------------------
TypeHttp ==
  /\ made \in 0..MaxRequests
  /\ phase \in {"idle", "consume", "sent", "body"}
  /\ current \in Urls /\ chain \subseteq Urls
  /\ hops \in 0..(MaxHops + 1)
  /\ errors \in 0..(MaxRetries + 1) /\ timeouts \in 0..(MaxRetries + 1)
  /\ status \in Responses /\ outcome \in Outcomes
  /\ tried \in Seq(Urls) /\ Len(tried) <= made

(* Nothing outside the allowlist is contacted, through whatever redirects, *)
(* and a URL once redirected from is not contacted again in that call.     *)
ContactsAreGuarded ==
  /\ \A i \in DOMAIN tried : tried[i] \in Allowed
  /\ \A i, j, k \in DOMAIN tried : i < j /\ j < k /\ tried[i] = tried[k] => tried[j] = tried[i]
  /\ Cardinality({tried[i] : i \in DOMAIN tried}) <= MaxHops + 1

(* One URL gets at most one request and two kinds of retries; a call gives *)
(* up on a URL after the retries it is due, or with the budget used up.    *)
Attempts(url) == Cardinality({i \in DOMAIN tried : tried[i] = url})
RetriesAreExact ==
  /\ \A url \in Urls : Attempts(url) <= 1 + 2 * MaxRetries
  /\ outcome = "server error" => errors = MaxRetries + 1 /\ Attempts(current) = errors + timeouts
  /\ outcome = "timeout" => timeouts = MaxRetries + 1 /\ Attempts(current) = errors + timeouts
  /\ outcome = "cap" => made = MaxRequests

(* Whatever the server does, a call ends.                                  *)
CallsEnd == phase # "idle" ~> phase = "idle"
=============================================================================
