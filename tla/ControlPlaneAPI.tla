--------------------------- MODULE ControlPlaneAPI --------------------------
(***************************************************************************)
(* The HTTP client of the control plane (clientapi/v1/api.go): an API      *)
(* object with an ordered list of origins, and one call at a time that     *)
(* asks them in turn until one answers. Calls that create something carry  *)
(* an idempotency key; the control plane behind the origins (external)     *)
(* creates one thing per key. A request may reach it long after the call   *)
(* has given up on it, and the answer to a request may be lost.            *)
(*                                                                         *)
(* The kinds of call:                                                      *)
(*   create    CreateNetwork, CreateJoinToken: the key is the caller's, or *)
(*             generated for this call                                     *)
(*   register  RegisterNode: the key is the caller's (IdempotencyID)       *)
(*   poll      NodeEnrollmentRequestStatus, CompleteNodeEnrollmentRequest, *)
(*             on a copy of the API with the poll token as bearer          *)
(*   plain     the other calls through request                             *)
(*   stream    ReadMapStreamEvent                                          *)
(***************************************************************************)
EXTENDS Integers, Sequences, SequencesExt, FiniteSets, Lists

CONSTANTS
  TrimURL,        \* [string -> string]: surrounding space and trailing slashes removed
  ValidURLs,      \* the URLs validateControlPlaneBaseURL accepts
  Configurations, \* the lists of origins an API may be constructed with, as the user wrote them
  Statuses,       \* the HTTP status codes an origin may answer with
  Operations,     \* the caller's persisted mutation ids, positive numbers
  MaxCalls,       \* bound on the calls made
  MaxHeartbeats   \* heartbeats a stream can send before HTTPClient.Timeout ends it

\* The empty string: no origin.
NoURL == ""

ASSUME APIAssumption ==
  /\ NoURL \in DOMAIN TrimURL /\ TrimURL[NoURL] = NoURL
  /\ \A u \in DOMAIN TrimURL : TrimURL[u] \in DOMAIN TrimURL /\ TrimURL[TrimURL[u]] = TrimURL[u]
  /\ Configurations \subseteq Seq(DOMAIN TrimURL)
  /\ Statuses \subseteq 100 .. 599
  /\ Operations \subseteq Nat \ {0}
  /\ MaxCalls \in Nat /\ MaxHeartbeats \in Nat

VARIABLES
  configured, \* the user's list of origins, which nothing changes
  baseURL,   \* API.BaseURL, the active origin
  baseURLs,  \* API.BaseURLs
  call,      \* {} or the call under way
  result,    \* {} or how the last call ended
  inflight,  \* the requests of create and register calls that may still be processed
  created,   \* what the control plane has created: the key, and whose intent it was
  calls,     \* how many calls have been made
  lastOK     \* history: the last call that an origin answered with a 2xx status

vars == <<configured, baseURL, baseURLs, call, result, inflight, created, calls, lastOK>>

-----------------------------------------------------------------------------
(* The list of origins *)

Trimmed(urls) == [i \in DOMAIN urls |-> TrimURL[urls[i]]]

\* Fault for NormalizeControlPlaneURLs: repetitions stay.
NormalizeWithRepetitions(urls) ==
  Pick(Trimmed(urls), {i \in DOMAIN urls : TrimURL[urls[i]] # NoURL})

\* Trimmed, without blanks, each once, in order of first appearance.
NormalizeControlPlaneURLs(urls) ==
  Pick(Trimmed(urls), {i \in DOMAIN urls :
                         /\ TrimURL[urls[i]] # NoURL
                         /\ \A j \in 1 .. i - 1 : TrimURL[urls[j]] # TrimURL[urls[i]]})

\* The origins of a call, the active one first.
ControlPlaneURLs == NormalizeControlPlaneURLs(<<baseURL>> \o baseURLs)

\* Fault for SetActiveBaseURL: the list keeps its order.
SetBaseURLOnly(url) == baseURL' = TrimURL[url] /\ UNCHANGED baseURLs

\* setActiveBaseURL: the origin that answered moves to the front.
SetActiveBaseURL(url) ==
  IF TrimURL[url] = NoURL THEN UNCHANGED <<baseURL, baseURLs>>
  ELSE /\ baseURL' = TrimURL[url]
       /\ baseURLs' = NormalizeControlPlaneURLs(<<TrimURL[url]>> \o baseURLs)

Origins == ToSet(NormalizeControlPlaneURLs(configured))

\* A fresh object: NewAPIWithBaseURLs.
FirstURL(urls) == IF urls = <<>> THEN NoURL ELSE urls[1]

Init ==
  /\ configured \in Configurations
  /\ baseURLs = NormalizeControlPlaneURLs(configured)
  /\ baseURL = FirstURL(baseURLs)
  /\ call = {} /\ result = {}
  /\ inflight = {} /\ created = {}
  /\ calls = 0
  /\ lastOK = [u \in Origins |-> 0]

\* The process dies, in a call or between calls, and starts again with its configured
\* origins and its persisted mutation ids.
Restart ==
  /\ baseURLs' = NormalizeControlPlaneURLs(configured)
  /\ baseURL' = FirstURL(baseURLs')
  /\ call' = {} /\ result' = {}
  /\ lastOK' = [u \in Origins |-> 0]
  /\ UNCHANGED <<configured, inflight, created, calls>>

-----------------------------------------------------------------------------
(* Starting a call *)

\* The idempotency key of the n-th call: the operation the caller names, or, for 0, a
\* random key of its own.
IdempotencyKey(operation, n) ==
  IF operation = 0 THEN <<"generated", n>> ELSE <<"operation", operation>>

\* What the caller wants done once: the operation it persisted, or this call.
Intent(operation, n) ==
  IF operation = 0 THEN <<"call", n>> ELSE <<"operation", operation>>

Start(kind, operation) ==
  /\ call = {} /\ calls < MaxCalls
  /\ calls' = calls + 1
  /\ result' = {}
  /\ call' = {[kind   |-> kind,
               intent |-> Intent(operation, calls + 1),
               key    |-> IdempotencyKey(operation, calls + 1),
               urls   |-> ControlPlaneURLs,
               failed |-> <<>>,
               phase  |-> "send",
               beats  |-> 0]}
  /\ UNCHANGED <<configured, baseURL, baseURLs, inflight, created, lastOK>>

\* CreateNetwork and CreateJoinToken; a call that can not get randomness for its key
\* returns at once and changes nothing.
StartCreate == \E operation \in Operations \cup {0} : Start("create", operation)

\* RegisterNode with a request that validates; one that does not is never sent.
StartRegister == \E operation \in Operations : Start("register", operation)

\* CreateNodeEnrollmentRequest: a write like those of StartCreate, always with the
\* registration operation's id, which the caller has saved.
StartEnrollmentRequest == \E operation \in Operations : Start("create", operation)

\* The calls without a key: the poll and the completion of an enrollment request, the
\* endpoint state, the map stream.
StartOther == \E kind \in {"poll", "plain", "stream"} : Start(kind, 0)

-----------------------------------------------------------------------------
(* The loop over the origins *)

\* The origin the loop is at.
Asked(c) == c.urls[Len(c.failed) + 1]

\* Fault for RequestKey: a key is generated for each origin.
KeyPerOrigin(c) == IF c.key[1] = "generated" THEN <<"generated", calls, Len(c.failed)>> ELSE c.key

\* The body is encoded once, before the loop: every origin gets the same key.
RequestKey(c) == c.key

Request(c) == [intent |-> c.intent, key |-> RequestKey(c), at |-> <<calls, Len(c.failed)>>]

HasKey(c) == c.kind \in {"create", "register"}

\* The call returns; origin is the one that answered, if any.
Return(c, outcome, origin) ==
  /\ call' = {}
  /\ result' = {[kind |-> c.kind, intent |-> c.intent, outcome |-> outcome,
                 origin |-> origin, failed |-> c.failed]}

\* newRequest and HTTPClient.Do: an unusable URL ends the whole call, whatever origins
\* are left.
Send ==
  \E c \in call :
    /\ c.phase = "send" /\ Len(c.failed) < Len(c.urls)
    /\ IF Asked(c) \in ValidURLs
       THEN /\ call' = {[c EXCEPT !.phase = "wait"]}
            /\ inflight' = IF HasKey(c) THEN inflight \cup {Request(c)} ELSE inflight
            /\ UNCHANGED result
       ELSE /\ Return(c, "invalid_url", NoURL)
            /\ UNCHANGED inflight
    /\ UNCHANGED <<configured, baseURL, baseURLs, created, calls, lastOK>>

\* failoverError: no origin is left.
Exhausted ==
  \E c \in call :
    /\ c.phase = "send" /\ Len(c.failed) = Len(c.urls)
    /\ Return(c, IF c.failed = <<>> THEN "no_url" ELSE "exhausted", NoURL)
    /\ UNCHANGED <<configured, baseURL, baseURLs, inflight, created, calls, lastOK>>

\* The control plane (external) processes a request, whether or not anyone still waits
\* for the answer, and creates one thing per key.
Process ==
  \E r \in inflight :
    /\ inflight' = inflight \ {r}
    /\ created' = IF \E thing \in created : thing.key = r.key THEN created
                  ELSE created \cup {[key |-> r.key, intent |-> r.intent]}
    /\ UNCHANGED <<configured, baseURL, baseURLs, call, result, calls, lastOK>>

\* Fault for FailOver: the same origin is asked again.
RetryOrigin(c) ==
  /\ call' = {[c EXCEPT !.phase = "send"]}
  /\ UNCHANGED <<baseURL, baseURLs, result, lastOK>>

\* Fault for FailOver: the next origin's answer is awaited without a request to it.
FailOverUnsent(c) ==
  /\ call' = {[c EXCEPT !.failed = Append(@, Asked(c))]}
  /\ UNCHANGED <<baseURL, baseURLs, result, lastOK>>

\* On to the next origin.
FailOver(c) ==
  /\ call' = {[c EXCEPT !.failed = Append(@, Asked(c)), !.phase = "send"]}
  /\ UNCHANGED <<baseURL, baseURLs, result, lastOK>>

\* No connection, no answer within HTTPClient.Timeout, or a connection cut: the request
\* may have been processed, be processed later, or never.
TransportError ==
  \E c \in call :
    /\ c.phase = "wait"
    /\ FailOver(c)
    /\ UNCHANGED <<configured, inflight, created, calls>>

ShouldFailOverStatus(status) == status = 408 \/ status = 429 \/ status >= 500

Success(status) == 200 <= status /\ status < 300

\* An answer other than 2xx: an overloaded or failing origin is passed over, anything
\* else is the answer of the control plane.
AnswerError ==
  \E c \in call, status \in Statuses :
    /\ c.phase = "wait" /\ ~Success(status)
    /\ IF ShouldFailOverStatus(status)
       THEN FailOver(c)
       ELSE /\ Return(c, "status", Asked(c))
            /\ UNCHANGED <<baseURL, baseURLs, lastOK>>
    /\ UNCHANGED <<configured, inflight, created, calls>>

\* The origin becomes the active one of the API; a poll call changes its own copy
\* (withBearer).
Activate(c) ==
  IF c.kind = "poll" THEN UNCHANGED <<baseURL, baseURLs, lastOK>>
  ELSE /\ SetActiveBaseURL(Asked(c))
       /\ lastOK' = [lastOK EXCEPT ![Asked(c)] = calls]

\* A 2xx answer is final: the origin becomes active first, then the headers (stream) or
\* the body are looked at. A body that is not expected or empty (204) needs no decoding;
\* a body that does not decode, or a registration that does not match the request (an
\* empty one never does), is the error of the call.
AnswerSuccess ==
  \E c \in call, status \in Statuses :
    /\ c.phase = "wait" /\ Success(status)
    /\ Request(c) \notin inflight
    /\ Activate(c)
    /\ \/ /\ c.kind = "stream"
          /\ \/ call' = {[c EXCEPT !.phase = "lines"]} /\ UNCHANGED result
             \/ Return(c, "protocol", Asked(c))
       \/ /\ c.kind # "stream"
          /\ \/ (c.kind = "register" => status # 204) /\ Return(c, "ok", Asked(c))
             \/ status # 204 /\ Return(c, "decode", Asked(c))
             \/ c.kind = "register" /\ Return(c, "invalid_response", Asked(c))
    /\ UNCHANGED <<configured, inflight, created, calls>>

\* One line of the stream: heartbeats are skipped, an event is returned; a line that is
\* too long, cut off or malformed, or the client's timeout, is the error of the call; so
\* is the end of the stream (ErrMapStreamNoEvent). No other origin is asked.
ReadLine ==
  \E c \in call :
    /\ c.phase = "lines"
    /\ \/ /\ c.beats < MaxHeartbeats
          /\ call' = {[c EXCEPT !.beats = @ + 1]}
          /\ UNCHANGED result
       \/ \E outcome \in {"ok", "no_event", "decode"} :
            Return(c, outcome, c.urls[Len(c.failed) + 1])
    /\ UNCHANGED <<configured, baseURL, baseURLs, inflight, created, calls, lastOK>>

Next ==
  \/ Restart
  \/ StartCreate
  \/ StartRegister
  \/ StartEnrollmentRequest
  \/ StartOther
  \/ Send
  \/ Exhausted
  \/ Process
  \/ TransportError
  \/ AnswerError
  \/ AnswerSuccess
  \/ ReadLine

\* A call runs on by itself; HTTPClient.Timeout ends every wait for an answer or a line.
Fairness ==
  /\ WF_vars(Send \/ Exhausted)
  /\ WF_vars(TransportError \/ AnswerError \/ AnswerSuccess)
  /\ WF_vars(ReadLine)

Spec == Init /\ [][Next]_vars

FairSpec == Spec /\ Fairness

-----------------------------------------------------------------------------
(* Properties *)

Kinds == {"create", "register", "poll", "plain", "stream"}

\* Type invariant.
TypeOK ==
  /\ configured \in Configurations
  /\ baseURL \in DOMAIN TrimURL
  /\ baseURLs \in Seq(DOMAIN TrimURL)
  /\ \A c, d \in call : c = d
  /\ \A c \in call : /\ c.kind \in Kinds
                     /\ c.phase \in {"send", "wait", "lines"}
                     /\ c.phase # "send" => Len(c.failed) < Len(c.urls)
                     /\ Len(c.failed) <= Len(c.urls)
                     /\ c.beats \in 0 .. MaxHeartbeats
  /\ \A r, q \in result : r = q
  /\ calls \in 0 .. MaxCalls
  /\ lastOK \in [Origins -> 0 .. MaxCalls]

\* However often failover, the caller or a restarted process sends a write again, and
\* whenever the control plane gets to those requests: what the caller wanted once is
\* created at most once, and when the call reports success it has been created.
CreatedOncePerIntent ==
  /\ \A x, y \in created : x.intent = y.intent => x = y
  /\ \A r \in result :
       r.kind \in {"create", "register"} /\ r.outcome = "ok" =>
         \E x \in created : x.intent = r.intent

\* After any sequence of calls, "failed against all coordinators" means that every
\* configured origin was asked, each exactly once; and an answer comes from an origin
\* that this call had not already given up on.
FailoverIsComplete ==
  \A r \in result :
    /\ r.outcome = "exhausted" =>
         ToSet(r.failed) = Origins /\ Len(r.failed) = Cardinality(Origins)
    /\ r.origin # NoURL => r.origin \in Origins \ ToSet(r.failed)

\* Origins are asked in the order of their last success, so one origin's outage costs a
\* wait once and not on every call; no origin is ever forgotten.
RecentFirst ==
  /\ ToSet(ControlPlaneURLs) = Origins
  /\ \A i, j \in DOMAIN ControlPlaneURLs :
       i < j => lastOK[ControlPlaneURLs[i]] >= lastOK[ControlPlaneURLs[j]]

\* Every call returns.
CallReturns == call # {} ~> call = {}

\* "Successful calls update the active origin" (the comment of API). It does not hold for
\* the poll calls, which work on a copy of the API.
SuccessActivatesOrigin ==
  \A r \in result : r.outcome = "ok" => baseURL = r.origin
=============================================================================
