-------------------------- MODULE GuardedHttpProofs --------------------------
(***************************************************************************)
(* The guarded clients for any URLs, allowlist, budget, retries and hops,  *)
(* and whatever the servers answer.                                        *)
(***************************************************************************)
EXTENDS GuardedHttp, FiniteSetTheorems, SequenceTheorems, TLAPS

(* Types, and what holds of a call while it is under way.                  *)
Busy == phase # "idle"
Typed ==
  /\ made \in 0..MaxRequests
  /\ phase \in {"idle", "consume", "sent", "body"} /\ current \in Urls
  /\ hops \in Nat /\ errors \in Nat /\ timeouts \in Nat
  /\ status \in Responses /\ outcome \in Outcomes /\ tried \in Seq(Urls)
  /\ Busy => /\ current \in Allowed /\ outcome = "none"
             /\ hops <= MaxHops /\ errors <= MaxRetries /\ timeouts <= MaxRetries

LEMMA StepTyped == ASSUME Typed, [NextHttp]_http PROVE Typed'
<1>0. Allowed \subseteq Urls /\ MaxRequests \in Nat /\ MaxRetries \in Nat /\ MaxHops \in Nat
  BY HttpAssumption
<1>1. CASE UNCHANGED http
  BY <1>1 DEF http, counters, Typed, Busy
<1>2. CASE \E url \in Urls : Get(url)
  <2>1. <<>> \in Seq(Urls)
    BY EmptySeq
  <2> QED
    BY <1>0, <1>2, <2>1 DEF Get, End, Typed, Busy, Outcomes
<1>3. CASE Consume
  <2>1. tried \in Seq(Urls) /\ current \in Urls
    BY DEF Typed
  <2>2. Append(tried, current) \in Seq(Urls)
    BY <2>1, AppendProperties
  <2>3. tried' \in Seq(Urls)
    BY <1>3, <2>1, <2>2 DEF Consume
  <2>4. /\ phase = "consume" /\ UNCHANGED <<current, hops, errors, timeouts, status>>
        /\ \/ made' = made /\ phase' = "idle" /\ outcome' = "cap"
           \/ made < MaxRequests /\ made' = made + 1 /\ phase' = "sent" /\ outcome' = outcome
    BY <1>3 DEF Consume, End, counters
  <2>5. made' \in 0..MaxRequests
    BY <1>0, <2>4 DEF Typed
  <2>6. phase' \in {"idle", "consume", "sent", "body"} /\ outcome' \in Outcomes
    BY <2>4 DEF Typed, Outcomes, NetworkErrors
  <2>7. Busy' => Busy /\ outcome' = outcome
    BY <2>4 DEF Busy
  <2>8. UNCHANGED <<current, hops, errors, timeouts, status>>
    BY <2>4
  <2> HIDE DEF Busy
  <2> QED
    BY <2>3, <2>5, <2>6, <2>7, <2>8 DEF Typed
<1>4. CASE TimesOut \/ ServerError
  <2>1. /\ phase = "sent" /\ UNCHANGED <<made, current, hops, status, tried>>
        /\ \/ errors' = errors /\ timeouts' = timeouts + 1
           \/ timeouts' = timeouts /\ errors' = errors + 1
    BY <1>4 DEF TimesOut, ServerError
  <2>2. \/ /\ phase' = "consume" /\ outcome' = outcome
           /\ timeouts' <= MaxRetries \/ timeouts' = timeouts
           /\ errors' <= MaxRetries \/ errors' = errors
        \/ phase' = "idle" /\ outcome' \in {"timeout", "server error"}
    BY <1>4 DEF TimesOut, ServerError, Retry, End
  <2>3. phase' \in {"idle", "consume", "sent", "body"} /\ outcome' \in Outcomes
    BY <2>2 DEF Typed, Outcomes, NetworkErrors
  <2>4. errors' \in Nat /\ timeouts' \in Nat
    BY <2>1 DEF Typed
  <2> QED
    BY <2>1, <2>2, <2>3, <2>4 DEF Typed, Busy
<1>5. CASE TransportFails \/ ToldToStop
  BY <1>5 DEF TransportFails, ToldToStop, End, Typed, Busy, Outcomes, NetworkErrors, Exceptions, counters
<1>6. CASE ReadBody
  BY <1>6 DEF ReadBody, End, Typed, Busy, Outcomes, NetworkErrors, Exceptions, counters
<1>7. CASE \E code \in Responses : Answer(code)
  BY <1>7 DEF Answer, End, Typed, Busy, Outcomes, NetworkErrors, counters
<1>8. ASSUME NEW next \in Urls \cup {NoLocation}, RedirectIsRefused(next) PROVE Typed'
  <2>1. RedirectError(next) \in {"no location", "refused", "hops", "loop", "none"}
    BY DEF RedirectError
  <2>2. RedirectError(next) \in Outcomes
    BY <2>1 DEF Outcomes, NetworkErrors
  <2> QED
    BY <1>8, <2>2 DEF RedirectIsRefused, End, Typed, Busy
<1>9. ASSUME NEW next \in Urls \cup {NoLocation}, FollowRedirect(next) PROVE Typed'
  <2>1. next \in Allowed /\ hops + 1 <= MaxHops
    BY <1>0, <1>9, HttpAssumption DEF FollowRedirect, RedirectError, Typed
  <2> QED
    BY <1>0, <1>9, <2>1 DEF FollowRedirect, Typed, Busy
<1> QED
  BY <1>1, <1>2, <1>3, <1>4, <1>5, <1>6, <1>7, <1>8, <1>9 DEF NextHttp, InCall

LEMMA TypedAlways == SpecHttp => []Typed
<1>1. InitHttp => Typed
  BY HttpAssumption, EmptySeq DEF InitHttp, Typed, Busy, Responses, Outcomes
<1> QED
  BY <1>1, StepTyped, PTL DEF SpecHttp

-----------------------------------------------------------------------------
(* What the counters of a call can reach, also by the request, the         *)
(* redirect or the retry that ends it.                                     *)
Counted ==
  /\ chain \subseteq Urls /\ hops <= MaxHops + 1
  /\ errors <= MaxRetries + 1 /\ timeouts <= MaxRetries + 1
  /\ Len(tried) <= made

LEMMA Bounded == Typed /\ Counted => TypeHttp
BY HttpAssumption DEF Typed, Counted, TypeHttp

LEMMA StepCounted == ASSUME Typed, Counted, [NextHttp]_http PROVE Counted'
<1>0. MaxRequests \in Nat /\ MaxRetries \in Nat /\ MaxHops \in Nat /\ made \in Nat /\ Len(tried) \in Nat
  BY HttpAssumption, LenProperties DEF Typed
<1>1. CASE UNCHANGED http
  BY <1>1 DEF http, counters, Counted
<1>2. CASE \E url \in Urls : Get(url)
  <2>1. /\ chain' = {} /\ hops' = 0 /\ errors' = 0 /\ timeouts' = 0 /\ Len(tried') = 0
        /\ made' = made
    BY <1>2, EmptySeq DEF Get
  <2> QED
    BY <1>0, <2>1 DEF Counted
<1>3. CASE Consume
  <2>1. tried \in Seq(Urls) /\ current \in Urls
    BY DEF Typed
  <2>2. Len(Append(tried, current)) = Len(tried) + 1
    BY <2>1, AppendProperties
  <2>3. Len(tried') <= made'
    <3>1. \/ made' = made /\ tried' = tried
          \/ made' = made + 1 /\ tried' = Append(tried, current)
      BY <1>3 DEF Consume
    <3>2. Len(tried) <= made
      BY DEF Counted
    <3>3. \/ Len(tried') = Len(tried) /\ made' = made
          \/ Len(tried') = Len(tried) + 1 /\ made' = made + 1
      BY <2>2, <3>1
    <3> QED
      BY <1>0, <3>2, <3>3
  <2> QED
    BY <1>3, <2>3 DEF Consume, counters, Counted
<1>4. CASE TimesOut
  <2>1. timeouts' <= MaxRetries + 1
    <3>1. timeouts' = timeouts + 1 /\ timeouts \in Nat /\ timeouts <= MaxRetries
      BY <1>4 DEF TimesOut, Typed, Busy
    <3> QED
      BY <1>0, <3>1
  <2> QED
    BY <1>4, <2>1 DEF TimesOut, Counted
<1>5. CASE ServerError
  <2>1. errors' <= MaxRetries + 1
    <3>1. errors' = errors + 1 /\ errors \in Nat /\ errors <= MaxRetries
      BY <1>5 DEF ServerError, Typed, Busy
    <3> QED
      BY <1>0, <3>1
  <2> QED
    BY <1>5, <2>1 DEF ServerError, Counted
<1>6. CASE TransportFails \/ ToldToStop \/ ReadBody \/ (\E code \in Responses : Answer(code))
  BY <1>6 DEF TransportFails, ToldToStop, ReadBody, Answer, counters, Counted
<1>7. ASSUME NEW next \in Urls \cup {NoLocation}, RedirectIsRefused(next) PROVE Counted'
  <2>1. hops' \in {hops, hops + 1} /\ hops \in Nat /\ hops <= MaxHops
    BY <1>7 DEF RedirectIsRefused, Typed, Busy
  <2>2. hops' <= MaxHops + 1
    BY <1>0, <2>1
  <2> QED
    BY <1>7, <2>2 DEF RedirectIsRefused, Counted
<1>8. ASSUME NEW next \in Urls \cup {NoLocation}, FollowRedirect(next) PROVE Counted'
  <2>1. /\ chain' = chain \cup {current} /\ hops' = hops + 1 /\ hops \in Nat /\ hops <= MaxHops
        /\ errors' = 0 /\ timeouts' = 0 /\ UNCHANGED <<made, tried>> /\ current \in Urls
    BY <1>8 DEF FollowRedirect, Typed, Busy
  <2> QED
    BY <1>0, <2>1 DEF Counted
<1> QED
  BY <1>1, <1>2, <1>3, <1>4, <1>5, <1>6, <1>7, <1>8 DEF NextHttp, InCall

LEMMA InitCounted == InitHttp => Counted
<1>1. Len(<<>>) = 0
  BY EmptySeq
<1> QED
  BY <1>1, HttpAssumption DEF InitHttp, Counted

(* Types of the client: no counter passes its limit by more than the one   *)
(* that ends the call, whatever the servers answer.                        *)
THEOREM HttpTypeCorrect == SpecHttp => []TypeHttp
<1>1. Typed /\ Counted /\ [NextHttp]_http => Counted'
  BY StepCounted
<1> QED
  BY <1>1, InitCounted, Bounded, TypedAlways, PTL DEF SpecHttp

-----------------------------------------------------------------------------
(* The requests of a call: the ones to the URL it is at come last, all are *)
(* to that URL or to one that it was redirected from.                      *)
Trail ==
  /\ chain \subseteq Allowed /\ IsFiniteSet(chain) /\ Cardinality(chain) <= MaxHops
  /\ Busy => current \notin chain /\ Cardinality(chain) <= hops
  /\ \A i \in 1..Len(tried) : tried[i] \in Allowed /\ tried[i] \in chain \cup {current}
  /\ \A i, j \in 1..Len(tried) : i < j /\ tried[i] = current => tried[j] = current
  /\ \A i, j, k \in 1..Len(tried) : i < j /\ j < k /\ tried[i] = tried[k] => tried[j] = tried[i]

(* What a redirect that is followed leads to.                              *)
LEMMA Following ==
  ASSUME Typed, NEW next \in Urls \cup {NoLocation}, FollowRedirect(next)
  PROVE  /\ next \in Allowed /\ next \notin chain \cup {current} /\ hops + 1 <= MaxHops
         /\ phase = "sent" /\ phase' = "consume" /\ current' = next /\ chain' = chain \cup {current}
         /\ hops' = hops + 1 /\ errors' = 0 /\ timeouts' = 0 /\ UNCHANGED <<made, outcome, tried>>
BY HttpAssumption DEF FollowRedirect, RedirectError, Typed

LEMMA ConsumeTrail ==
  ASSUME Typed, Trail, phase = "consume", phase' = "sent", tried' = Append(tried, current),
         UNCHANGED <<current, chain, hops>>
  PROVE  Trail'
<1>1. /\ Len(tried) \in Nat /\ Len(tried') = Len(tried) + 1
      /\ \A i \in 1..Len(tried) : tried'[i] = tried[i]
      /\ tried'[Len(tried) + 1] = current
  BY AppendProperties, LenProperties DEF Typed
<1>2. \A i \in 1..Len(tried') : i \in 1..Len(tried) \/ i = Len(tried) + 1
  BY <1>1
<1>3. \A i \in 1..Len(tried') : tried'[i] \in Allowed /\ tried'[i] \in chain \cup {current}
  BY <1>1, <1>2 DEF Trail, Typed, Busy
<1>4. \A i, j \in 1..Len(tried') : i < j /\ tried'[i] = current => tried'[j] = current
  BY <1>1, <1>2 DEF Trail
<1>5. ASSUME NEW i \in 1..Len(tried'), NEW j \in 1..Len(tried'), NEW k \in 1..Len(tried'),
             i < j, j < k, tried'[i] = tried'[k]
      PROVE  tried'[j] = tried'[i]
  <2>1. i \in 1..Len(tried) /\ j \in 1..Len(tried)
    BY <1>1, <1>5
  <2>2. CASE k = Len(tried) + 1
    BY <1>1, <1>4, <1>5, <2>2
  <2>3. CASE k \in 1..Len(tried)
    BY <1>1, <1>5, <2>1, <2>3 DEF Trail
  <2> QED
    BY <1>2, <2>2, <2>3
<1> QED
  BY <1>3, <1>4, <1>5 DEF Trail, Busy, Typed

LEMMA FollowTrail ==
  ASSUME Typed, Trail, NEW next \in Urls \cup {NoLocation}, FollowRedirect(next)
  PROVE  Trail'
<1>1. /\ next \in Allowed /\ next \notin chain \cup {current} /\ hops + 1 <= MaxHops
      /\ phase = "sent" /\ phase' = "consume" /\ current' = next /\ chain' = chain \cup {current}
      /\ hops' = hops + 1 /\ tried' = tried
  BY Following
<1>2. current \in Allowed /\ current \notin chain /\ Cardinality(chain) <= hops
  BY <1>1 DEF Trail, Busy, Typed
<1>3. IsFiniteSet(chain') /\ Cardinality(chain') = Cardinality(chain) + 1 /\ Cardinality(chain) \in Nat
  BY <1>1, <1>2, FS_AddElement, FS_CardinalityType DEF Trail
<1>4. Cardinality(chain') <= hops' /\ Cardinality(chain') <= MaxHops
  BY <1>1, <1>2, <1>3, HttpAssumption DEF Typed
<1>5. \A i \in 1..Len(tried) : tried[i] # next
  BY <1>1 DEF Trail
<1> QED
  BY <1>1, <1>2, <1>3, <1>4, <1>5 DEF Trail, Busy

LEMMA StepTrail == ASSUME Typed, Trail, [NextHttp]_http PROVE Trail'
<1>1. CASE UNCHANGED <<tried, chain, current>> /\ (Busy' => Busy /\ UNCHANGED hops)
  BY <1>1 DEF Trail
<1>2. CASE \E url \in Urls : Get(url)
  <2>1. tried' = <<>> /\ chain' = {} /\ hops' = 0
    BY <1>2 DEF Get
  <2>2. IsFiniteSet({}) /\ Cardinality({}) = 0
    BY FS_EmptySet
  <2>3. MaxHops \in Nat
    BY HttpAssumption
  <2>4. 1..Len(tried') = {}
    BY <2>1, EmptySeq
  <2> QED
    BY <2>1, <2>2, <2>3, <2>4 DEF Trail
<1>3. CASE Consume
  <2>1. UNCHANGED <<current, chain, hops>> /\ phase = "consume"
    BY <1>3 DEF Consume, counters
  <2>2. CASE phase' = "sent"
    <3>1. tried' = Append(tried, current)
      BY <1>3, <2>2 DEF Consume, End
    <3> QED
      BY <2>1, <2>2, <3>1, ConsumeTrail
  <2>3. CASE phase' # "sent"
    <3>1. UNCHANGED tried /\ ~Busy'
      BY <1>3, <2>3 DEF Consume, End, Busy
    <3> QED
      BY <2>1, <3>1 DEF Trail
  <2> QED
    BY <2>2, <2>3
<1>4. CASE \E next \in Urls \cup {NoLocation} : FollowRedirect(next)
  BY <1>4, FollowTrail
<1>5. CASE TimesOut \/ ServerError \/ TransportFails \/ ToldToStop \/ ReadBody
           \/ (\E code \in Responses : Answer(code))
  <2>1. UNCHANGED <<tried, chain, current, hops>> /\ Busy
    BY <1>5 DEF TimesOut, ServerError, TransportFails, ToldToStop, ReadBody, Answer, counters, Busy
  <2> QED
    BY <2>1 DEF Trail
<1>6. CASE \E next \in Urls \cup {NoLocation} : RedirectIsRefused(next)
  <2>1. UNCHANGED <<tried, chain, current>> /\ ~Busy'
    BY <1>6 DEF RedirectIsRefused, End, Busy
  <2> QED
    BY <2>1 DEF Trail
<1>7. CASE UNCHANGED http
  BY <1>1, <1>7 DEF http, counters, Busy
<1> QED
  BY <1>2, <1>3, <1>4, <1>5, <1>6, <1>7 DEF NextHttp, InCall

(* Whatever redirects the servers send: nothing outside the allowlist is   *)
(* contacted, no URL again that was left, and at most one more than hops.  *)
THEOREM Contacts == SpecHttp => []ContactsAreGuarded
<1>1. InitHttp => Trail
  BY HttpAssumption, FS_EmptySet, EmptySeq DEF InitHttp, Trail, Busy
<1>2. Typed /\ Trail => ContactsAreGuarded
  <2>1. SUFFICES ASSUME Typed, Trail PROVE ContactsAreGuarded
    OBVIOUS
  <2>2. DOMAIN tried = 1..Len(tried)
    BY <2>1, LenProperties DEF Typed
  <2>3. {tried[i] : i \in DOMAIN tried} \in SUBSET (chain \cup {current})
    BY <2>1, <2>2 DEF Trail
  <2>4. IsFiniteSet(chain \cup {current}) /\ Cardinality(chain) \in Nat
        /\ Cardinality(chain \cup {current}) \in {Cardinality(chain), Cardinality(chain) + 1}
    BY <2>1, FS_AddElement, FS_CardinalityType DEF Trail
  <2>5. /\ Cardinality({tried[i] : i \in DOMAIN tried}) <= Cardinality(chain \cup {current})
        /\ Cardinality({tried[i] : i \in DOMAIN tried}) \in Nat
    BY <2>3, <2>4, FS_Subset, FS_CardinalityType
  <2>6. Cardinality({tried[i] : i \in DOMAIN tried}) <= MaxHops + 1
    BY <2>1, <2>4, <2>5, HttpAssumption DEF Trail
  <2> QED
    BY <2>1, <2>2, <2>6 DEF Trail, ContactsAreGuarded
<1> QED
  BY <1>1, <1>2, StepTrail, TypedAlways, PTL DEF SpecHttp

-----------------------------------------------------------------------------
(* Attempts, as a function of the requests.                                *)
Count(s, url) == Cardinality({i \in 1..Len(s) : s[i] = url})

LEMMA Counting ==
  ASSUME NEW s \in Seq(Urls), NEW url
  PROVE  /\ Count(s, url) \in Nat
         /\ (\A i \in 1..Len(s) : s[i] # url) => Count(s, url) = 0
         /\ \A next \in Urls :
              Count(Append(s, next), url) = Count(s, url) + (IF next = url THEN 1 ELSE 0)
<1> DEFINE At(t) == {i \in 1..Len(t) : t[i] = url}
<1>1. Len(s) \in Nat
  BY LenProperties
<1>2. IsFiniteSet(1..Len(s))
  BY <1>1, FS_Interval
<1>3. IsFiniteSet(At(s)) /\ Cardinality(At(s)) \in Nat
  BY <1>2, FS_Subset, FS_CardinalityType
<1>4. (\A i \in 1..Len(s) : s[i] # url) => Cardinality(At(s)) = 0
  <2>1. SUFFICES ASSUME \A i \in 1..Len(s) : s[i] # url PROVE Cardinality(At(s)) = 0
    OBVIOUS
  <2>2. At(s) = {}
    BY <2>1
  <2> QED
    BY <2>2, FS_EmptySet
<1>5. ASSUME NEW next \in Urls
      PROVE  Cardinality(At(Append(s, next))) = Cardinality(At(s)) + (IF next = url THEN 1 ELSE 0)
  <2> DEFINE t == Append(s, next)
  <2>1. /\ Len(t) = Len(s) + 1 /\ \A i \in 1..Len(s) : t[i] = s[i]
        /\ t[Len(s) + 1] = next
    BY AppendProperties
  <2> HIDE DEF t
  <2>2. 1..Len(t) = (1..Len(s)) \cup {Len(s) + 1} /\ Len(s) + 1 \notin 1..Len(s)
    BY <1>1, <2>1
  <2>3. CASE next = url
    <3>1. At(t) = At(s) \cup {Len(s) + 1} /\ Len(s) + 1 \notin At(s)
      BY <2>1, <2>2, <2>3
    <3>2. Cardinality(At(t)) = Cardinality(At(s)) + 1
      BY <1>3, <3>1, FS_AddElement
    <3> QED
      BY <2>3, <3>2 DEF t
  <2>4. CASE next # url
    <3>1. At(t) = At(s)
      BY <2>1, <2>2, <2>4
    <3> HIDE DEF At
    <3>2. Cardinality(At(t)) = Cardinality(At(s)) + 0
      BY <1>3, <3>1
    <3> QED
      BY <2>4, <3>2 DEF t
  <2> QED
    BY <2>3, <2>4
<1> QED
  BY <1>3, <1>4, <1>5 DEF Count

LEMMA CountNone == \A url : Count(<<>>, url) = 0
<1>1. 1..Len(<<>>) = {}
  BY EmptySeq
<1>2. \A url : {i \in 1..Len(<<>>) : <<>>[i] = url} = {}
  BY <1>1
<1> QED
  BY <1>2, FS_EmptySet DEF Count

(* Every attempt at the current URL but the one under way has had its      *)
(* retry, and the budget that stops a call is used up.                     *)
Limit == 1 + 2 * MaxRetries
Tally ==
  /\ \A url \in Urls : Count(tried, url) <= Limit
  /\ phase = "consume" => Count(tried, current) = errors + timeouts
  /\ phase \in {"sent", "body"} => Count(tried, current) = errors + timeouts + 1
  /\ outcome = "server error" => errors = MaxRetries + 1 /\ Count(tried, current) = errors + timeouts
  /\ outcome = "timeout" => timeouts = MaxRetries + 1 /\ Count(tried, current) = errors + timeouts
  /\ outcome = "cap" => made = MaxRequests

LEMMA ConsumeTally == ASSUME Typed, Tally, Consume PROVE Tally'
<1>1. tried \in Seq(Urls) /\ current \in Urls /\ phase = "consume" /\ outcome = "none"
  BY DEF Typed, Busy, Consume
<1>2. UNCHANGED <<current, errors, timeouts>> /\ MaxRetries \in Nat /\ MaxRequests \in Nat
  BY HttpAssumption DEF Consume, counters
<1>3. CASE phase' = "idle"
  <2>1. tried' = tried /\ outcome' = "cap" /\ made' = made /\ made >= MaxRequests
    BY <1>3 DEF Consume, End
  <2>2. made = MaxRequests
    BY <1>2, <2>1 DEF Typed
  <2> QED
    BY <1>2, <1>3, <2>1, <2>2 DEF Tally
<1>4. CASE phase' # "idle"
  <2>1. phase' = "sent" /\ tried' = Append(tried, current) /\ outcome' = outcome
    BY <1>4 DEF Consume, End
  <2>2. \A url \in Urls :
          /\ Count(tried', url) = Count(tried, url) + (IF current = url THEN 1 ELSE 0)
          /\ Count(tried, url) \in Nat
    BY <1>1, <2>1, Counting
  <2>3. Count(tried, current) = errors + timeouts
    BY <1>1 DEF Tally
  <2>4. errors \in Nat /\ timeouts \in Nat /\ errors <= MaxRetries /\ timeouts <= MaxRetries
    BY <1>1 DEF Typed, Busy
  <2>5. Count(tried', current) = errors + timeouts + 1
    BY <1>1, <2>2, <2>3
  <2>6. errors + timeouts + 1 <= Limit
    BY <1>2, <2>4 DEF Limit
  <2>7. \A url \in Urls : Count(tried', url) <= Limit
    <3>1. SUFFICES ASSUME NEW url \in Urls PROVE Count(tried', url) <= Limit
      OBVIOUS
    <3>2. CASE url = current
      BY <2>5, <2>6, <3>2
    <3>3. CASE url # current
      <4>1. Count(tried', url) = Count(tried, url)
        BY <2>2, <3>3
      <4> QED
        BY <4>1 DEF Tally
    <3> QED
      BY <3>2, <3>3
  <2> QED
    BY <1>1, <1>2, <2>1, <2>5, <2>7 DEF Tally
<1> QED
  BY <1>3, <1>4

LEMMA RetryTally == ASSUME Typed, Tally, TimesOut \/ ServerError PROVE Tally'
<1>1. /\ phase = "sent" /\ outcome = "none" /\ errors \in Nat /\ timeouts \in Nat
      /\ errors <= MaxRetries /\ timeouts <= MaxRetries /\ MaxRetries \in Nat
  BY HttpAssumption DEF TimesOut, ServerError, Typed, Busy
<1>2. UNCHANGED <<current, tried, made>>
  BY DEF TimesOut, ServerError
<1>3. Count(tried, current) = errors + timeouts + 1
  BY <1>1 DEF Tally
<1>4. \/ /\ timeouts' = timeouts + 1 /\ errors' = errors
         /\ \/ phase' = "consume" /\ outcome' = "none"
            \/ phase' = "idle" /\ outcome' = "timeout" /\ ~(timeouts' <= MaxRetries)
      \/ /\ errors' = errors + 1 /\ timeouts' = timeouts
         /\ \/ phase' = "consume" /\ outcome' = "none"
            \/ phase' = "idle" /\ outcome' = "server error" /\ ~(errors' <= MaxRetries)
  BY <1>1 DEF TimesOut, ServerError, Retry, End
<1>5. /\ outcome' = "timeout" => timeouts' = MaxRetries + 1
      /\ outcome' = "server error" => errors' = MaxRetries + 1
      /\ errors' + timeouts' = errors + timeouts + 1
  <2>1. \A n \in Nat : n <= MaxRetries /\ ~(n + 1 <= MaxRetries) => n + 1 = MaxRetries + 1
    BY <1>1
  <2>2. \A m, n \in Nat : (m + 1) + n = m + n + 1 /\ m + (n + 1) = m + n + 1
    OBVIOUS
  <2>3. outcome' = "timeout" => timeouts' = MaxRetries + 1
    BY <1>1, <1>4, <2>1
  <2>4. outcome' = "server error" => errors' = MaxRetries + 1
    BY <1>1, <1>4, <2>1
  <2>5. errors' + timeouts' = errors + timeouts + 1
    BY <1>1, <1>4, <2>2
  <2> QED
    BY <2>3, <2>4, <2>5
<1>6. Count(tried', current') = errors' + timeouts'
  BY <1>2, <1>3, <1>5
<1>7. phase' \in {"consume", "idle"} /\ outcome' # "cap"
  BY <1>4
<1> QED
  BY <1>2, <1>5, <1>6, <1>7 DEF Tally

LEMMA FollowTally ==
  ASSUME Typed, Trail, Tally, NEW next \in Urls \cup {NoLocation}, FollowRedirect(next)
  PROVE  Tally'
<1>1. /\ next \notin chain \cup {current} /\ phase = "sent" /\ phase' = "consume" /\ current' = next
      /\ errors' = 0 /\ timeouts' = 0 /\ UNCHANGED <<outcome, tried, made>>
  BY Following
<1>2. \A i \in 1..Len(tried) : tried[i] # next
  BY <1>1 DEF Trail
<1>3. Count(tried, next) = 0
  BY <1>2, Counting DEF Typed
<1>4. outcome = "none"
  BY <1>1 DEF Typed, Busy
<1> QED
  BY <1>1, <1>3, <1>4 DEF Tally

LEMMA StepTally == ASSUME Typed, Trail, Tally, [NextHttp]_http PROVE Tally'
<1>1. CASE \E url \in Urls : Get(url)
  <2>1. /\ tried' = <<>> /\ errors' = 0 /\ timeouts' = 0
        /\ outcome' \in {"refused", "none"} /\ phase' \in {"idle", "consume"}
    BY <1>1 DEF Get, End
  <2>2. \A url : Count(tried', url) = 0
    BY <2>1, CountNone
  <2>3. 0 <= Limit
    BY HttpAssumption DEF Limit
  <2>4. Count(tried', current') = errors' + timeouts'
    BY <2>1, <2>2
  <2>5. \A url \in Urls : Count(tried', url) <= Limit
    BY <2>2, <2>3
  <2> QED
    BY <2>1, <2>4, <2>5 DEF Tally
<1>2. CASE TransportFails \/ ToldToStop \/ ReadBody \/ (\E code \in Responses : Answer(code))
  <2>1. UNCHANGED <<made, current, errors, timeouts, tried>>
    BY <1>2 DEF TransportFails, ToldToStop, ReadBody, Answer, counters
  <2>2. /\ phase \in {"sent", "body"} /\ phase' \in {"idle", "body"}
        /\ outcome = "none" /\ outcome' \notin {"server error", "timeout", "cap"}
    BY <1>2 DEF TransportFails, ToldToStop, ReadBody, Answer, End, Exceptions, Responses, Typed, Busy
  <2> QED
    BY <2>1, <2>2 DEF Tally
<1>3. ASSUME NEW next \in Urls \cup {NoLocation}, RedirectIsRefused(next) PROVE Tally'
  <2>1. RedirectError(next) \in {"no location", "refused", "hops", "loop", "none"}
    BY DEF RedirectError
  <2>2. /\ UNCHANGED <<made, current, errors, timeouts, tried>>
        /\ phase' = "idle" /\ outcome' \notin {"server error", "timeout", "cap"}
    BY <1>3, <2>1 DEF RedirectIsRefused, End
  <2> QED
    BY <2>2 DEF Tally
<1>4. CASE UNCHANGED http
  BY <1>4 DEF http, counters, Tally
<1> QED
  BY <1>1, <1>2, <1>3, <1>4, ConsumeTally, RetryTally, FollowTally DEF NextHttp, InCall

(* A URL gets one request and two kinds of retries at most, a call gives   *)
(* up on it after the retries it is due or with the budget used up.        *)
THEOREM Retries == SpecHttp => []RetriesAreExact
<1>1. InitHttp => Trail /\ Tally
  <2>1. SUFFICES ASSUME InitHttp PROVE Trail /\ Tally
    OBVIOUS
  <2>2. Trail
    BY <2>1, HttpAssumption, FS_EmptySet, EmptySeq DEF InitHttp, Trail, Busy
  <2>3. \A url : Count(tried, url) = 0
    BY <2>1, CountNone DEF InitHttp
  <2>4. 0 <= Limit
    BY HttpAssumption DEF Limit
  <2> QED
    BY <2>1, <2>2, <2>3, <2>4 DEF InitHttp, Tally
<1>2. Typed /\ Tally => RetriesAreExact
  <2>1. SUFFICES ASSUME Typed, Tally PROVE RetriesAreExact
    OBVIOUS
  <2>2. DOMAIN tried = 1..Len(tried)
    BY <2>1, LenProperties DEF Typed
  <2>3. \A url : Attempts(url) = Count(tried, url)
    BY <2>2 DEF Attempts, Count
  <2> QED
    BY <2>1, <2>3 DEF Tally, Limit, RetriesAreExact
<1> QED
  BY <1>1, <1>2, StepTrail, StepTally, TypedAlways, PTL DEF SpecHttp
=============================================================================
