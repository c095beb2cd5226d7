------------------------ MODULE ControlPlaneAPIProofs -----------------------
(***************************************************************************)
(* What ControlPlaneAPI guarantees for any number of origins, calls,       *)
(* operations and restarts: writes take effect once                        *)
(* (CreatedOncePerIntent), failover is complete (FailoverIsComplete) and   *)
(* goes by the last success (RecentFirst).                                 *)
(*                                                                         *)
(* CreatedOncePerIntent is not inductive: that nothing is created twice    *)
(* depends on the requests that are still in flight, and that a success    *)
(* means a creation on what happened to the request of the call that       *)
(* waits. IInv adds both: one key stands for one intent everywhere         *)
(* (KeysStandForOne), and the request of a waiting call is in flight or    *)
(* has had its effect (WaitingForEffect).                                  *)
(*                                                                         *)
(* The other two rest on FInv: the list of origins is a permutation of the *)
(* configured ones, led by the active one and in the order of the last     *)
(* success (OriginsInv), and a call has failed at a prefix of the list it  *)
(* took over (CallInv). That moving an origin to the front and normalizing *)
(* again keeps the order of the others is a fact about Pick.               *)
(***************************************************************************)
EXTENDS ControlPlaneAPI, ListProofs

\* The key under which an intent is sent.
KeyFor(intent) ==
  IF intent[1] = "call" THEN <<"generated", intent[2]>> ELSE <<"operation", intent[2]>>

Intents == ({"call"} \X Nat) \cup ({"operation"} \X Nat)

\* The key of a call, of a request in flight and of a created thing is the key of its
\* intent.
KeysStandForOne ==
  /\ calls \in Nat
  /\ \A x \in call \cup inflight \cup created : x.intent \in Intents /\ x.key = KeyFor(x.intent)
  /\ \A r \in result : r.intent \in Intents

\* Nothing has two entries for one key.
CreatedByKey == \A x, y \in created : x.key = y.key => x = y

\* A call that waits for the answer to a write has its request in flight, or the write
\* has had its effect. Only a stream has lines.
WaitingForEffect ==
  \A c \in call :
    /\ HasKey(c) /\ c.phase = "wait" =>
         Request(c) \in inflight \/ \E x \in created : x.key = c.key
    /\ c.phase = "lines" => c.kind = "stream"

\* Success is only reported of things that exist.
SuccessIsCreated ==
  \A r \in result :
    r.kind \in {"create", "register"} /\ r.outcome = "ok" =>
      \E x \in created : x.key = KeyFor(r.intent)

\* The shape of the records in the state.
Shape ==
  /\ \A c \in call : DOMAIN c = {"kind", "intent", "key", "urls", "failed", "phase", "beats"}
  /\ \A x \in inflight : DOMAIN x = {"intent", "key", "at"}
  /\ \A x \in created : x = [key |-> x.key, intent |-> x.intent]

IInv == KeysStandForOne /\ CreatedByKey /\ WaitingForEffect /\ SuccessIsCreated /\ Shape

-----------------------------------------------------------------------------

\* Two intents with one key are one intent: generated and caller's keys do not meet.
LEMMA KeyForInjective ==
  ASSUME NEW i \in Intents, NEW j \in Intents, KeyFor(i) = KeyFor(j)
  PROVE  i = j
BY DEF Intents, KeyFor

\* The invariant implies the property.
LEMMA IInvImplies == IInv => CreatedOncePerIntent
<1> SUFFICES ASSUME IInv PROVE CreatedOncePerIntent
  OBVIOUS
<1>1. ASSUME NEW x \in created, NEW y \in created, x.intent = y.intent
      PROVE  x = y
  BY <1>1 DEF IInv, KeysStandForOne, CreatedByKey
<1>2. ASSUME NEW r \in result, r.kind \in {"create", "register"}, r.outcome = "ok"
      PROVE  \E x \in created : x.intent = r.intent
  <2>1. PICK x \in created : x.key = KeyFor(r.intent)
    BY <1>2 DEF IInv, SuccessIsCreated
  <2>2. x.intent \in Intents /\ r.intent \in Intents /\ x.key = KeyFor(x.intent)
    BY DEF IInv, KeysStandForOne
  <2>3. x.intent = r.intent
    BY <2>1, <2>2, KeyForInjective
  <2> QED BY <2>3
<1> QED BY <1>1, <1>2 DEF CreatedOncePerIntent

\* A fresh API has no calls and nothing is created.
LEMMA InitEstablishes == Init => IInv
BY DEF Init, IInv, KeysStandForOne, CreatedByKey, WaitingForEffect, SuccessIsCreated, Shape

\* What starting a call does, whatever its kind.
LEMMA StartPreserves ==
  ASSUME IInv, NEW kind, NEW operation \in Nat, Start(kind, operation)
  PROVE  IInv'
<1>1. Intent(operation, calls + 1) \in Intents
  BY DEF IInv, KeysStandForOne, Intent, Intents
<1>2. IdempotencyKey(operation, calls + 1) = KeyFor(Intent(operation, calls + 1))
  BY DEF IdempotencyKey, Intent, KeyFor
<1>3. KeysStandForOne'
  BY <1>1, <1>2 DEF IInv, KeysStandForOne, Start
<1>4. WaitingForEffect' /\ SuccessIsCreated' /\ CreatedByKey'
  BY DEF IInv, CreatedByKey, WaitingForEffect, SuccessIsCreated, Start
<1>5. Shape'
  BY DEF IInv, Shape, Start
<1> QED BY <1>3, <1>4, <1>5 DEF IInv

\* The control plane processes a request.
LEMMA ProcessPreserves == ASSUME IInv, Process PROVE IInv'
<1>1. PICK r \in inflight :
        /\ inflight' = inflight \ {r}
        /\ created' = IF \E thing \in created : thing.key = r.key THEN created
                      ELSE created \cup {[key |-> r.key, intent |-> r.intent]}
        /\ UNCHANGED <<configured, baseURL, baseURLs, call, result, calls, lastOK>>
  BY DEF Process
<1>2. /\ created \subseteq created'
      /\ \E x \in created' : x.key = r.key
      /\ \A x \in created' \ created : x = [key |-> r.key, intent |-> r.intent]
      /\ \A x \in created' \ created : \A y \in created : y.key # r.key
  <2>1. CASE \E thing \in created : thing.key = r.key
    BY <1>1, <2>1
  <2>2. CASE ~\E thing \in created : thing.key = r.key
    <3> DEFINE new == [key |-> r.key, intent |-> r.intent]
    <3>1. created' = created \cup {new} /\ new.key = r.key
      BY <1>1, <2>2
    <3> QED BY <2>2, <3>1
  <2> QED BY <2>1, <2>2
<1>3. KeysStandForOne'
  BY <1>1, <1>2 DEF IInv, KeysStandForOne
<1>4. CreatedByKey'
  BY <1>2 DEF IInv, CreatedByKey
<1>5. WaitingForEffect'
  <2> SUFFICES ASSUME NEW c \in call, HasKey(c), c.phase = "wait"
               PROVE  Request(c) \in inflight' \/ \E x \in created' : x.key = c.key
    BY <1>1 DEF IInv, WaitingForEffect, HasKey, Request, RequestKey
  <2>1. CASE Request(c) = r
    BY <2>1, <1>2 DEF Request, RequestKey
  <2>2. CASE Request(c) # r
    BY <2>2, <1>1, <1>2 DEF IInv, WaitingForEffect
  <2> QED BY <2>1, <2>2
<1>6. SuccessIsCreated'
  BY <1>1, <1>2 DEF IInv, SuccessIsCreated
<1>7. Shape'
  BY <1>1, <1>2 DEF IInv, Shape
<1> QED BY <1>3, <1>4, <1>5, <1>6, <1>7 DEF IInv

\* The call returns, and nothing else of the invariant's state changes; a success of a
\* write is backed by something created.
LEMMA ReturnPreserves ==
  ASSUME IInv, NEW c \in call, NEW outcome, NEW origin, Return(c, outcome, origin),
         UNCHANGED <<inflight, created, calls>>,
         outcome = "ok" /\ HasKey(c) => \E x \in created : x.key = c.key
  PROVE  IInv'
<1>1. KeysStandForOne'
  BY DEF IInv, KeysStandForOne, Return
<1>2. SuccessIsCreated'
  BY DEF IInv, SuccessIsCreated, KeysStandForOne, Return, HasKey
<1>3. CreatedByKey' /\ WaitingForEffect' /\ Shape'
  BY DEF IInv, CreatedByKey, WaitingForEffect, Shape, Return
<1> QED BY <1>1, <1>2, <1>3 DEF IInv

\* The call goes on with the next origin, or with the next line of the stream.
LEMMA ContinuePreserves ==
  ASSUME IInv, NEW c \in call, NEW d, call' = {d},
         DOMAIN d = DOMAIN c, d.kind = c.kind, d.intent = c.intent, d.key = c.key,
         d.phase = "send" \/ d.kind = "stream",
         UNCHANGED <<result, inflight, created, calls>>
  PROVE  IInv'
<1>1. KeysStandForOne'
  BY DEF IInv, KeysStandForOne
<1>2. WaitingForEffect'
  BY DEF WaitingForEffect, HasKey
<1>3. SuccessIsCreated' /\ CreatedByKey'
  BY DEF IInv, SuccessIsCreated, CreatedByKey
<1>4. Shape'
  BY DEF IInv, Shape
<1> QED BY <1>1, <1>2, <1>3, <1>4 DEF IInv

\* Passing an origin over.
LEMMA FailOverPreserves ==
  ASSUME IInv, NEW c \in call, FailOver(c), UNCHANGED <<inflight, created, calls>>
  PROVE  IInv'
<1> DEFINE d == [c EXCEPT !.failed = Append(@, Asked(c)), !.phase = "send"]
<1>1. DOMAIN c = {"kind", "intent", "key", "urls", "failed", "phase", "beats"}
  BY DEF IInv, Shape
<1>2. /\ DOMAIN d = DOMAIN c /\ d.kind = c.kind /\ d.intent = c.intent /\ d.key = c.key
      /\ d.phase = "send"
  BY <1>1
<1>3. call' = {d} /\ UNCHANGED result
  BY DEF FailOver
<1> HIDE DEF d
<1> QED BY <1>2, <1>3, ContinuePreserves

\* A request is sent, or the URL is refused.
LEMMA SendPreserves == ASSUME IInv, Send PROVE IInv'
<1>1. PICK c \in call :
        /\ c.phase = "send"
        /\ UNCHANGED <<created, calls>>
        /\ \/ /\ call' = {[c EXCEPT !.phase = "wait"]}
              /\ inflight' = IF HasKey(c) THEN inflight \cup {Request(c)} ELSE inflight
              /\ UNCHANGED result
           \/ Return(c, "invalid_url", NoURL) /\ UNCHANGED inflight
  BY DEF Send
<1>2. CASE Return(c, "invalid_url", NoURL) /\ UNCHANGED inflight
  BY <1>1, <1>2, ReturnPreserves
<1>3. CASE /\ call' = {[c EXCEPT !.phase = "wait"]}
           /\ inflight' = IF HasKey(c) THEN inflight \cup {Request(c)} ELSE inflight
           /\ UNCHANGED result
  <2> DEFINE d == [c EXCEPT !.phase = "wait"]
  <2>1. DOMAIN c = {"kind", "intent", "key", "urls", "failed", "phase", "beats"}
    BY DEF IInv, Shape
  <2>2. /\ DOMAIN d = DOMAIN c /\ d.kind = c.kind /\ d.intent = c.intent /\ d.key = c.key
        /\ d.failed = c.failed /\ d.phase = "wait"
    BY <2>1
  <2> HIDE DEF d
  <2>3. call' = {d}
    BY <1>3 DEF d
  <2>4. /\ Request(c).intent = c.intent /\ Request(c).key = c.key
        /\ DOMAIN Request(c) = {"intent", "key", "at"}
    BY DEF Request, RequestKey
  <2>5. KeysStandForOne'
    BY <1>1, <1>3, <2>2, <2>3, <2>4 DEF IInv, KeysStandForOne
  <2>6. WaitingForEffect'
    <3>1. Request(d)' = Request(c)
      BY <1>1, <2>2 DEF Request, RequestKey
    <3>2. HasKey(d) <=> HasKey(c)
      BY <2>2 DEF HasKey
    <3>3. HasKey(c) => Request(d)' \in inflight'
      BY <1>3, <3>1
    <3>4. ASSUME NEW e \in call', HasKey(e) PROVE Request(e)' \in inflight'
      BY <3>4, <2>3, <3>2, <3>3
    <3> QED BY <2>2, <2>3, <3>4 DEF WaitingForEffect, HasKey
  <2>7. SuccessIsCreated' /\ CreatedByKey'
    BY <1>1, <1>3 DEF IInv, SuccessIsCreated, CreatedByKey
  <2>8. Shape'
    BY <1>1, <1>3, <2>1, <2>2, <2>3, <2>4 DEF IInv, Shape
  <2> QED BY <2>5, <2>6, <2>7, <2>8 DEF IInv
<1> QED BY <1>1, <1>2, <1>3

\* A 2xx answer to a write comes when its request is no longer in flight.
LEMMA AnswerSuccessPreserves == ASSUME IInv, AnswerSuccess PROVE IInv'
<1>1. PICK c \in call :
        /\ c.phase = "wait"
        /\ Request(c) \notin inflight
        /\ UNCHANGED <<inflight, created, calls>>
        /\ \/ /\ c.kind = "stream"
              /\ call' = {[c EXCEPT !.phase = "lines"]} /\ UNCHANGED result
           \/ \E outcome : Return(c, outcome, Asked(c))
  BY DEF AnswerSuccess
<1>2. HasKey(c) => \E x \in created : x.key = c.key
  BY <1>1 DEF IInv, WaitingForEffect
<1>3. CASE \E outcome : Return(c, outcome, Asked(c))
  <2>1. PICK outcome : Return(c, outcome, Asked(c))
    BY <1>3
  <2> QED BY <1>1, <1>2, <2>1, ReturnPreserves
<1>4. CASE c.kind = "stream" /\ call' = {[c EXCEPT !.phase = "lines"]} /\ UNCHANGED result
  <2> DEFINE d == [c EXCEPT !.phase = "lines"]
  <2>1. DOMAIN c = {"kind", "intent", "key", "urls", "failed", "phase", "beats"}
    BY DEF IInv, Shape
  <2>2. DOMAIN d = DOMAIN c /\ d.kind = c.kind /\ d.intent = c.intent /\ d.key = c.key
    BY <2>1
  <2>3. call' = {d}
    BY <1>4
  <2> HIDE DEF d
  <2> QED BY <1>1, <1>4, <2>2, <2>3, ContinuePreserves
<1> QED BY <1>1, <1>3, <1>4

\* An answer other than 2xx.
LEMMA AnswerErrorPreserves == ASSUME IInv, AnswerError PROVE IInv'
<1>1. PICK c \in call :
        /\ UNCHANGED <<inflight, created, calls>>
        /\ FailOver(c) \/ Return(c, "status", Asked(c))
  BY DEF AnswerError
<1> QED BY <1>1, FailOverPreserves, ReturnPreserves

\* A line of the stream.
LEMMA ReadLinePreserves == ASSUME IInv, ReadLine PROVE IInv'
<1>1. PICK c \in call :
        /\ c.phase = "lines"
        /\ UNCHANGED <<inflight, created, calls>>
        /\ \/ call' = {[c EXCEPT !.beats = @ + 1]} /\ UNCHANGED result
           \/ \E outcome, origin : Return(c, outcome, origin)
  BY DEF ReadLine
<1>2. c.kind = "stream" /\ ~HasKey(c)
  BY <1>1 DEF IInv, WaitingForEffect, HasKey
<1>3. CASE \E outcome, origin : Return(c, outcome, origin)
  <2>1. PICK outcome, origin : Return(c, outcome, origin)
    BY <1>3
  <2> QED BY <1>1, <1>2, <2>1, ReturnPreserves
<1>4. CASE call' = {[c EXCEPT !.beats = @ + 1]} /\ UNCHANGED result
  <2> DEFINE d == [c EXCEPT !.beats = @ + 1]
  <2>1. DOMAIN c = {"kind", "intent", "key", "urls", "failed", "phase", "beats"}
    BY DEF IInv, Shape
  <2>2. DOMAIN d = DOMAIN c /\ d.kind = c.kind /\ d.intent = c.intent /\ d.key = c.key
    BY <2>1
  <2>3. call' = {d}
    BY <1>4
  <2> HIDE DEF d
  <2> QED BY <1>1, <1>2, <1>4, <2>2, <2>3, ContinuePreserves
<1> QED BY <1>1, <1>3, <1>4

\* Every step preserves the invariant.
LEMMA NextPreserves == ASSUME IInv, [Next]_vars PROVE IInv'
<1>1. CASE Restart
  BY <1>1 DEF Restart, IInv, KeysStandForOne, CreatedByKey, WaitingForEffect,
              SuccessIsCreated, Shape
<1>2. CASE StartCreate \/ StartEnrollmentRequest
  BY <1>2, StartPreserves, APIAssumption DEF StartCreate, StartEnrollmentRequest
<1>3. CASE StartRegister
  BY <1>3, StartPreserves, APIAssumption DEF StartRegister
<1>4. CASE StartOther
  BY <1>4, StartPreserves DEF StartOther
<1>5. CASE Send
  BY <1>5, SendPreserves
<1>6. CASE Exhausted
  <2>1. PICK c \in call :
          /\ UNCHANGED <<inflight, created, calls>>
          /\ Return(c, "no_url", NoURL) \/ Return(c, "exhausted", NoURL)
    BY <1>6 DEF Exhausted
  <2> QED BY <2>1, ReturnPreserves
<1>7. CASE Process
  BY <1>7, ProcessPreserves
<1>8. CASE TransportError
  <2>1. PICK c \in call : FailOver(c) /\ UNCHANGED <<inflight, created, calls>>
    BY <1>8 DEF TransportError
  <2> QED BY <2>1, FailOverPreserves
<1>9. CASE AnswerError
  BY <1>9, AnswerErrorPreserves
<1>10. CASE AnswerSuccess
  BY <1>10, AnswerSuccessPreserves
<1>11. CASE ReadLine
  BY <1>11, ReadLinePreserves
<1>12. CASE UNCHANGED vars
  BY <1>12 DEF vars, IInv, KeysStandForOne, CreatedByKey, WaitingForEffect, SuccessIsCreated,
               Shape, HasKey, Request, RequestKey
<1> QED BY <1>1, <1>2, <1>3, <1>4, <1>5, <1>6, <1>7, <1>8, <1>9, <1>10, <1>11, <1>12 DEF Next

\* Whatever the origins do, and however often a write is sent again by failover, by the
\* caller or after a restart: what was wanted once is created at most once, and a call
\* that reports success is right (request, CreateNetwork, CreateJoinToken, RegisterNode).
THEOREM CreatedOnce == Spec => []CreatedOncePerIntent
<1>1. Init => IInv
  BY InitEstablishes
<1>2. IInv /\ [Next]_vars => IInv'
  BY NextPreserves
<1>3. IInv => CreatedOncePerIntent
  BY IInvImplies
<1> QED BY <1>1, <1>2, <1>3, PTL DEF Spec

-----------------------------------------------------------------------------
(* Lists of origins *)

\* The list has each element of S, once.
EachOnce(list, S) ==
  /\ list \in Seq(S)
  /\ \A u \in S : \E i \in DOMAIN list : list[i] = u
  /\ \A i, j \in DOMAIN list : list[i] = list[j] => i = j

\* The list has u before any v.
Before(list, u, v) == \E i \in DOMAIN list : list[i] = u /\ \A j \in 1 .. i : list[j] # v

\* What the URLs of a list come to.
URLsOf(urls) == {TrimURL[urls[i]] : i \in DOMAIN urls} \ {NoURL}

\* normalizeControlPlaneURLs keeps each URL once and the order of first appearance.
LEMMA Normalized ==
  ASSUME NEW urls \in Seq(DOMAIN TrimURL)
  PROVE  /\ EachOnce(NormalizeControlPlaneURLs(urls), URLsOf(urls))
         /\ \A k, l \in DOMAIN NormalizeControlPlaneURLs(urls) :
              k < l => Before(Trimmed(urls), NormalizeControlPlaneURLs(urls)[k],
                              NormalizeControlPlaneURLs(urls)[l])
<1> DEFINE t == Trimmed(urls)
           I == {i \in DOMAIN urls : /\ TrimURL[urls[i]] # NoURL
                                     /\ \A j \in 1 .. i - 1 : TrimURL[urls[j]] # TrimURL[urls[i]]}
           S == URLsOf(urls)
           m == NormalizeControlPlaneURLs(urls)
<1>0. Len(urls) \in Nat /\ DOMAIN urls = 1 .. Len(urls)  OBVIOUS
<1>1. /\ DOMAIN t = 1 .. Len(urls) /\ (\A i \in DOMAIN urls : t[i] = TrimURL[urls[i]])
  BY <1>0 DEF Trimmed
<1>2. I = {i \in 1 .. Len(urls) : t[i] # NoURL /\ \A j \in 1 .. i - 1 : t[j] # t[i]}
  <2>1. \A i \in 1 .. Len(urls) : \A j \in 1 .. i - 1 : j \in DOMAIN urls  BY <1>0
  <2> QED  BY <1>0, <1>1, <2>1
<1>3. m = Pick(t, I)  BY DEF NormalizeControlPlaneURLs
<1>4. S = {t[i] : i \in 1 .. Len(urls)} \ {NoURL}  BY <1>0, <1>1 DEF URLsOf
<1> HIDE DEF t, I, S, m
<1>5. IsPositions(I) /\ \A i \in I : t[i] \in S /\ i \in Int  BY <1>0, <1>2, <1>4 DEF IsPositions
<1>6. /\ m \in Seq(S) /\ Cardinality(I) \in Nat
      /\ DOMAIN m = 1 .. Cardinality(I)
      /\ \A k \in 1 .. Cardinality(I) : Nth(I, k) \in I /\ m[k] = t[Nth(I, k)]
  <2>1. IsPositions(I) /\ \A i \in I : t[i] \in S  BY <1>5
  <2> QED  BY <1>3, <2>1, PickType
<1>7. ASSUME NEW k \in DOMAIN m, NEW l \in DOMAIN m, k < l PROVE Before(t, m[k], m[l])
  <2>1. Nth(I, k) \in I /\ Nth(I, l) \in I /\ Nth(I, k) < Nth(I, l)
    BY <1>5, <1>6, <1>7, Enumeration
  <2>2. \A j \in 1 .. Nth(I, k) : t[j] # t[Nth(I, l)]
    <3>1. \A j \in 1 .. Nth(I, k) : j \in 1 .. Nth(I, l) - 1  BY <1>5, <2>1
    <3> QED  BY <1>2, <2>1, <3>1
  <2> QED  BY <1>1, <1>2, <1>6, <2>1, <2>2 DEF Before
<1>8. ASSUME NEW k \in DOMAIN m, NEW l \in DOMAIN m, m[k] = m[l] PROVE k = l
  <2>1. ASSUME NEW x \in DOMAIN m, NEW y \in DOMAIN m, x < y PROVE m[x] # m[y]
    <3>1. PICK i \in DOMAIN t : t[i] = m[x] /\ \A j \in 1 .. i : t[j] # m[y]
      BY <1>7, <2>1 DEF Before
    <3>2. i \in 1 .. i  BY <1>1
    <3> QED  BY <3>1, <3>2
  <2> QED  BY <1>6, <1>8, <2>1
<1>9. ASSUME NEW u \in S PROVE \E k \in DOMAIN m : m[k] = u
  <2> DEFINE T == {i \in 1 .. Len(urls) : t[i] = u}
  <2>1. T \in SUBSET Nat /\ T # {}  BY <1>4
  <2>2. PICK i \in T : \A j \in T : i <= j
    <3> HIDE DEF T
    <3> QED  BY <2>1, LeastNat
  <2>3. \A j \in 1 .. i - 1 : t[j] # t[i]  BY <2>2, <1>0
  <2>4. i \in I  BY <1>2, <1>4, <2>3
  <2>5. PICK k \in 1 .. Cardinality(I) : Nth(I, k) = i  BY <1>5, <2>4, Enumeration
  <2> QED  BY <1>6, <2>5
<1>10. EachOnce(m, S)  BY <1>6, <1>8, <1>9 DEF EachOnce
<1> QED  BY <1>7, <1>10 DEF t, S, m

\* The URL at the head of a list stays at its head.
LEMMA HeadStays ==
  ASSUME NEW list \in Seq(DOMAIN TrimURL), NEW m, NEW S,
         EachOnce(m, S), \A k, l \in DOMAIN m : k < l => Before(list, m[k], m[l]),
         list # <<>>, list[1] \in S
  PROVE  m # <<>> /\ m[1] = list[1]
<1>1. PICK p \in DOMAIN m : m[p] = list[1]  BY DEF EachOnce
<1>2. m \in Seq(S) /\ Len(m) \in Nat /\ DOMAIN m = 1 .. Len(m)  BY DEF EachOnce
<1>3. p = 1
  <2> SUFFICES ASSUME p # 1 PROVE FALSE  OBVIOUS
  <2>1. 1 \in DOMAIN m /\ 1 < p  BY <1>1, <1>2
  <2>2. PICK i \in DOMAIN list : \A j \in 1 .. i : list[j] # m[p]  BY <2>1 DEF Before
  <2>3. 1 \in 1 .. i  OBVIOUS
  <2> QED  BY <1>1, <2>2, <2>3
<1> QED  BY <1>1, <1>2, <1>3

\* A list with each element once has as many places as there are elements.
LEMMA LengthOf ==
  ASSUME NEW S, NEW list, EachOnce(list, S)
  PROVE  Len(list) = Cardinality(S)
<1>1. Len(list) \in Nat /\ DOMAIN list = 1 .. Len(list) /\ list \in [1 .. Len(list) -> S]
  BY DEF EachOnce
<1>2. list \in Bijection(1 .. Len(list), S)
  BY <1>1 DEF EachOnce, Bijection, Injection, Surjection, IsInjective
<1>3. ExistsBijection(1 .. Len(list), S)  BY <1>2 DEF ExistsBijection
<1> QED  BY <1>1, <1>3, FS_CountingElements

-----------------------------------------------------------------------------
(* The order of the origins *)

\* The origins of the API, the most recent one first.
OriginsInv ==
  /\ configured \in Configurations
  /\ calls \in 0 .. MaxCalls
  /\ lastOK \in [Origins -> 0 .. calls]
  /\ EachOnce(baseURLs, Origins)
  /\ baseURL = FirstURL(baseURLs)
  /\ \A i, j \in DOMAIN baseURLs : i < j => lastOK[baseURLs[i]] >= lastOK[baseURLs[j]]

\* A call asks each origin once, in order, and has been refused by the first ones.
CallInv ==
  /\ \A c, d \in call : c = d
  /\ \A c \in call :
       /\ c.kind \in Kinds /\ c.phase \in {"send", "wait", "lines"}
       /\ c.beats \in 0 .. MaxHeartbeats
       /\ EachOnce(c.urls, Origins)
       /\ c.failed \in Seq(Origins) /\ Len(c.failed) <= Len(c.urls)
       /\ c.phase # "send" => Len(c.failed) < Len(c.urls)
       /\ \A i \in DOMAIN c.failed : c.failed[i] = c.urls[i]

ResultInv == (\A r, q \in result : r = q) /\ FailoverIsComplete

FInv == OriginsInv /\ CallInv /\ ResultInv

LEMMA OriginsAre ==
  ASSUME configured \in Configurations
  PROVE  /\ configured \in Seq(DOMAIN TrimURL)
         /\ Origins = URLsOf(configured)
         /\ \A u \in Origins : u \in DOMAIN TrimURL /\ TrimURL[u] = u /\ u # NoURL
<1>1. configured \in Seq(DOMAIN TrimURL)  BY APIAssumption
<1>2. EachOnce(NormalizeControlPlaneURLs(configured), URLsOf(configured))  BY <1>1, Normalized
<1>3. Origins = URLsOf(configured)  BY <1>2 DEF Origins, ToSet, EachOnce
<1>4. \A u \in URLsOf(configured) : u \in DOMAIN TrimURL /\ TrimURL[u] = u /\ u # NoURL
  BY <1>1, APIAssumption DEF URLsOf
<1> QED  BY <1>1, <1>3, <1>4

\* An origin ahead of a list with each origin once: the list is normalized with this
\* origin ahead, and the others in their order.
LEMMA AheadOf ==
  ASSUME configured \in Configurations, NEW list, EachOnce(list, Origins), NEW u,
         u \in Origins \/ (u = NoURL /\ list = <<>>)
  PROVE  LET m == NormalizeControlPlaneURLs(<<u>> \o list)
         IN  /\ EachOnce(m, Origins)
             /\ \A k, l \in DOMAIN m : k < l => Before(<<u>> \o list, m[k], m[l])
             /\ u \in Origins => m # <<>> /\ m[1] = u
<1> DEFINE s == <<u>> \o list
           m == NormalizeControlPlaneURLs(s)
<1>0. /\ NoURL \in DOMAIN TrimURL /\ TrimURL[NoURL] = NoURL
      /\ \A v \in Origins : v \in DOMAIN TrimURL /\ TrimURL[v] = v /\ v # NoURL
  BY OriginsAre, APIAssumption
<1>1. list \in Seq(Origins) /\ Len(list) \in Nat /\ DOMAIN list = 1 .. Len(list)  BY DEF EachOnce
<1>2. /\ Len(s) = Len(list) + 1 /\ DOMAIN s = 1 .. Len(list) + 1
      /\ s[1] = u /\ (\A i \in 1 .. Len(list) : s[i + 1] = list[i])
      /\ \A i \in DOMAIN s : i = 1 \/ (i - 1 \in 1 .. Len(list) /\ s[i] = list[i - 1])
  BY <1>1
<1>3. \A i \in DOMAIN s : s[i] \in DOMAIN TrimURL /\ TrimURL[s[i]] = s[i]  BY <1>0, <1>1, <1>2
<1>4. s \in Seq(DOMAIN TrimURL)
  <2>1. s = [i \in 1 .. Len(list) + 1 |-> s[i]]  BY <1>1
  <2> HIDE DEF s
  <2> QED  BY <1>1, <1>2, <1>3, <2>1
<1>5. Trimmed(s) = s
  <2>1. s = [i \in DOMAIN s |-> s[i]]  BY <1>1
  <2> HIDE DEF s
  <2> QED  BY <1>3, <2>1 DEF Trimmed
<1>6. URLsOf(s) = Origins
  <2>1. URLsOf(s) \subseteq Origins  BY <1>0, <1>1, <1>2, <1>3 DEF URLsOf
  <2>2. ASSUME NEW v \in Origins PROVE v \in URLsOf(s)
    <3>1. PICK i \in DOMAIN list : list[i] = v  BY DEF EachOnce
    <3>2. i + 1 \in DOMAIN s /\ s[i + 1] = v  BY <1>1, <1>2, <3>1
    <3> HIDE DEF s
    <3> QED  BY <1>0, <1>3, <3>2 DEF URLsOf
  <2> QED  BY <2>1, <2>2
<1> HIDE DEF s
<1>7. EachOnce(m, Origins) /\ \A k, l \in DOMAIN m : k < l => Before(s, m[k], m[l])
  BY <1>4, <1>5, <1>6, Normalized
<1>8. u \in Origins => m # <<>> /\ m[1] = u
  <2>1. s # <<>>  BY <1>1, <1>2
  <2> HIDE DEF m
  <2> QED  BY <1>2, <1>4, <1>7, <2>1, HeadStays
<1> QED  BY <1>7, <1>8 DEF s

\* A list sorted by v stays sorted when the first appearances of an element ahead of it
\* and of its elements are taken, if the element ahead has the greatest v.
LEMMA SortedAhead ==
  ASSUME NEW S, NEW v \in [S -> Nat], NEW u \in S, \A x \in S : v[x] <= v[u],
         NEW list \in Seq(S),
         \A i, j \in DOMAIN list :
           i < j /\ list[i] # u /\ list[j] # u => v[list[i]] >= v[list[j]],
         NEW x \in S, NEW y \in S, \E i \in DOMAIN list : list[i] = y,
         Before(<<u>> \o list, x, y)
  PROVE  v[x] >= v[y]
<1> DEFINE s == <<u>> \o list
<1>1. Len(list) \in Nat /\ DOMAIN list = 1 .. Len(list)  OBVIOUS
<1>2. /\ DOMAIN s = 1 .. Len(list) + 1
      /\ s[1] = u /\ (\A i \in 1 .. Len(list) : s[i + 1] = list[i])
      /\ \A i \in DOMAIN s : i = 1 \/ (i - 1 \in 1 .. Len(list) /\ s[i] = list[i - 1])
  BY <1>1
<1> HIDE DEF s
<1>3. PICK i \in DOMAIN s : s[i] = x /\ \A j \in 1 .. i : s[j] # y  BY DEF Before, s
<1>4. y # u
  <2>1. 1 \in 1 .. i  BY <1>1, <1>2
  <2> QED  BY <1>2, <1>3, <2>1
<1>5. CASE x = u  BY <1>5
<1>6. CASE x # u
  <2>1. i - 1 \in DOMAIN list /\ list[i - 1] = x  BY <1>1, <1>2, <1>3, <1>6
  <2>2. PICK j \in DOMAIN list : list[j] = y  OBVIOUS
  <2>3. i - 1 < j
    <3> SUFFICES ASSUME ~(i - 1 < j) PROVE FALSE  OBVIOUS
    <3>1. j + 1 \in 1 .. i  BY <1>1, <1>2, <2>1, <2>2
    <3>2. s[j + 1] = y  BY <1>1, <1>2, <2>2
    <3> QED  BY <1>3, <3>1, <3>2
  <2> QED  BY <1>4, <1>6, <2>1, <2>2, <2>3
<1> QED  BY <1>5, <1>6

\* The active origin is one of them, unless there is none.
LEMMA ActiveIs ==
  ASSUME OriginsInv
  PROVE  baseURL \in Origins \/ (baseURL = NoURL /\ baseURLs = <<>>)
<1>1. baseURLs \in Seq(Origins) /\ baseURL = FirstURL(baseURLs)  BY DEF OriginsInv, EachOnce
<1> QED  BY <1>1 DEF FirstURL

\* The invariant gives the order in which a call asks.
LEMMA OrderOfCall ==
  ASSUME OriginsInv
  PROVE  EachOnce(ControlPlaneURLs, Origins) /\ RecentFirst
<1> DEFINE m == ControlPlaneURLs
<1>1. /\ EachOnce(m, Origins)
      /\ \A k, l \in DOMAIN m : k < l => Before(<<baseURL>> \o baseURLs, m[k], m[l])
  BY ActiveIs, AheadOf DEF OriginsInv, ControlPlaneURLs
<1>2. ToSet(m) = Origins
  <2> HIDE DEF m
  <2> QED  BY <1>1 DEF ToSet, EachOnce
<1>3. ASSUME NEW k \in DOMAIN m, NEW l \in DOMAIN m, k < l
      PROVE  lastOK[m[k]] >= lastOK[m[l]]
  <2> HIDE DEF m
  <2>1. m[k] \in Origins /\ m[l] \in Origins  BY <1>1 DEF EachOnce
  <2>2. baseURLs \in Seq(Origins) /\ \E i \in DOMAIN baseURLs : baseURLs[i] = m[l]
    BY <2>1 DEF OriginsInv, EachOnce
  <2>3. baseURLs # <<>> /\ baseURL = baseURLs[1] /\ baseURL \in Origins
    BY <2>2 DEF OriginsInv, FirstURL
  <2>4. lastOK \in [Origins -> Nat]  BY DEF OriginsInv
  <2>5. \A i \in DOMAIN baseURLs : lastOK[baseURLs[i]] <= lastOK[baseURL]
    <3>1. 1 \in DOMAIN baseURLs /\ \A i \in DOMAIN baseURLs : i = 1 \/ 1 < i  BY <2>2, <2>3
    <3>2. \A i \in DOMAIN baseURLs : lastOK[baseURLs[i]] \in Nat  BY <2>2, <2>4
    <3> QED  BY <2>3, <3>1, <3>2 DEF OriginsInv
  <2>6. \A x \in Origins : lastOK[x] <= lastOK[baseURL]
    BY <2>5 DEF OriginsInv, EachOnce
  <2>7. \A i, j \in DOMAIN baseURLs : i < j => lastOK[baseURLs[i]] >= lastOK[baseURLs[j]]
    BY DEF OriginsInv
  <2>8. Before(<<baseURL>> \o baseURLs, m[k], m[l])  BY <1>1, <1>3
  <2> QED  BY <2>1, <2>2, <2>3, <2>4, <2>6, <2>7, <2>8, SortedAhead
<1> QED  BY <1>1, <1>2, <1>3 DEF RecentFirst

\* The origin that answers becomes the first.
LEMMA ActivateKeeps ==
  ASSUME OriginsInv, NEW c, Asked(c) \in Origins, Activate(c), UNCHANGED <<configured, calls>>
  PROVE  OriginsInv'
<1> DEFINE u == Asked(c)
<1>1. CASE c.kind = "poll"
  BY <1>1 DEF Activate, OriginsInv, Origins
<1>2. CASE c.kind # "poll"
  <2>1. TrimURL[u] = u /\ u # NoURL  BY OriginsAre DEF OriginsInv
  <2> HIDE DEF u
  <2>2. /\ baseURL' = u /\ baseURLs' = NormalizeControlPlaneURLs(<<u>> \o baseURLs)
        /\ lastOK' = [lastOK EXCEPT ![u] = calls]
    BY <1>2, <2>1 DEF Activate, SetActiveBaseURL, u
  <2>3. u \in Origins /\ Origins' = Origins  BY DEF u, Origins
  <2>4. /\ EachOnce(baseURLs', Origins)
        /\ \A k, l \in DOMAIN baseURLs' :
             k < l => Before(<<u>> \o baseURLs, baseURLs'[k], baseURLs'[l])
        /\ baseURLs' # <<>> /\ baseURLs'[1] = u
    BY <2>2, <2>3, AheadOf DEF OriginsInv
  <2>5. calls \in Nat /\ lastOK \in [Origins -> 0 .. calls]  BY DEF OriginsInv
  <2>6. lastOK' \in [Origins -> 0 .. calls] /\ lastOK'[u] = calls  BY <2>2, <2>3, <2>5
  <2>7. /\ lastOK' \in [Origins -> Nat] /\ \A x \in Origins : lastOK'[x] <= lastOK'[u]
    BY <2>5, <2>6
  <2>8. ASSUME NEW k \in DOMAIN baseURLs', NEW l \in DOMAIN baseURLs', k < l
        PROVE  lastOK'[baseURLs'[k]] >= lastOK'[baseURLs'[l]]
    <3>1. baseURLs'[k] \in Origins /\ baseURLs'[l] \in Origins  BY <2>4 DEF EachOnce
    <3>2. baseURLs \in Seq(Origins) /\ \E i \in DOMAIN baseURLs : baseURLs[i] = baseURLs'[l]
      BY <3>1 DEF OriginsInv, EachOnce
    <3>3. \A i, j \in DOMAIN baseURLs :
            i < j /\ baseURLs[i] # u /\ baseURLs[j] # u =>
              lastOK'[baseURLs[i]] >= lastOK'[baseURLs[j]]
      BY <2>2, <2>5, <3>2 DEF OriginsInv
    <3>4. Before(<<u>> \o baseURLs, baseURLs'[k], baseURLs'[l])  BY <2>4, <2>8
    <3> QED  BY <2>3, <2>7, <3>1, <3>2, <3>3, <3>4, SortedAhead
  <2>9. baseURL' = FirstURL(baseURLs')  BY <2>2, <2>4 DEF FirstURL
  <2> QED  BY <2>3, <2>4, <2>5, <2>6, <2>8, <2>9 DEF OriginsInv
<1> QED  BY <1>1, <1>2

-----------------------------------------------------------------------------
(* Failover *)

\* A fresh list of origins, in the order of the configuration.
LEMMA FreshOrigins ==
  ASSUME configured \in Configurations, NEW urls, NEW oks, NEW first,
         urls = NormalizeControlPlaneURLs(configured), first = FirstURL(urls),
         oks = [u \in Origins |-> 0]
  PROVE  /\ EachOnce(urls, Origins)
         /\ \A n \in Nat : oks \in [Origins -> 0 .. n]
         /\ \A i, j \in DOMAIN urls : i < j => oks[urls[i]] >= oks[urls[j]]
<1>1. EachOnce(urls, Origins)  BY OriginsAre, Normalized
<1>2. \A i \in DOMAIN urls : urls[i] \in Origins  BY <1>1 DEF EachOnce
<1> QED  BY <1>1, <1>2

LEMMA InitFInv == Init => FInv
<1> SUFFICES ASSUME Init PROVE FInv  OBVIOUS
<1>1. /\ configured \in Configurations /\ baseURLs = NormalizeControlPlaneURLs(configured)
      /\ baseURL = FirstURL(baseURLs) /\ lastOK = [u \in Origins |-> 0]
      /\ calls = 0 /\ call = {} /\ result = {}
  BY DEF Init
<1>2. calls \in 0 .. MaxCalls /\ calls \in Nat  BY <1>1, APIAssumption
<1>3. OriginsInv  BY <1>1, <1>2, FreshOrigins DEF OriginsInv
<1> QED  BY <1>1, <1>3 DEF FInv, CallInv, ResultInv, FailoverIsComplete

LEMMA RestartKeeps == ASSUME FInv, Restart PROVE FInv'
<1>1. /\ configured \in Configurations /\ baseURLs' = NormalizeControlPlaneURLs(configured)
      /\ baseURL' = FirstURL(baseURLs') /\ lastOK' = [u \in Origins |-> 0]
      /\ call' = {} /\ result' = {} /\ UNCHANGED <<configured, calls>>
  BY DEF Restart, FInv, OriginsInv
<1>2. calls \in 0 .. MaxCalls /\ calls \in Nat  BY APIAssumption DEF FInv, OriginsInv
<1>3. Origins' = Origins  BY <1>1 DEF Origins
<1>4. OriginsInv'  BY <1>1, <1>2, <1>3, FreshOrigins DEF OriginsInv
<1> QED  BY <1>1, <1>4 DEF FInv, CallInv, ResultInv, FailoverIsComplete

LEMMA StartKeeps ==
  ASSUME FInv, NEW kind \in Kinds, NEW operation, Start(kind, operation)
  PROVE  FInv'
<1> DEFINE d == [kind   |-> kind,
                 intent |-> Intent(operation, calls + 1),
                 key    |-> IdempotencyKey(operation, calls + 1),
                 urls   |-> ControlPlaneURLs,
                 failed |-> <<>>,
                 phase  |-> "send",
                 beats  |-> 0]
<1>1. /\ calls < MaxCalls /\ calls' = calls + 1 /\ call' = {d} /\ result' = {}
      /\ UNCHANGED <<configured, baseURL, baseURLs, lastOK>>
  BY DEF Start
<1>2. calls \in 0 .. MaxCalls /\ lastOK \in [Origins -> 0 .. calls] /\ MaxCalls \in Nat
  BY APIAssumption DEF FInv, OriginsInv
<1>3. Origins' = Origins  BY <1>1 DEF Origins
<1>4. calls' \in 0 .. MaxCalls /\ lastOK \in [Origins -> 0 .. calls']  BY <1>1, <1>2
<1>5. OriginsInv'  BY <1>1, <1>3, <1>4 DEF FInv, OriginsInv
<1>6. /\ d.kind = kind /\ d.phase = "send" /\ d.beats = 0 /\ d.urls = ControlPlaneURLs
      /\ d.failed = <<>>
  OBVIOUS
<1> HIDE DEF d
<1>7. EachOnce(d.urls, Origins)  BY <1>6, OrderOfCall DEF FInv
<1>8. d.urls \in Seq(Origins) /\ Len(d.urls) \in Nat  BY <1>7 DEF EachOnce
<1>9. CallInv'
  <2>1. /\ d.failed \in Seq(Origins) /\ Len(d.failed) <= Len(d.urls)
        /\ \A i \in DOMAIN d.failed : d.failed[i] = d.urls[i]
    BY <1>6, <1>8
  <2>2. d.kind \in Kinds /\ d.phase = "send" /\ d.beats \in 0 .. MaxHeartbeats
    BY <1>6, APIAssumption
  <2> QED  BY <1>1, <1>3, <1>7, <2>1, <2>2 DEF CallInv
<1> QED  BY <1>1, <1>5, <1>9 DEF FInv, ResultInv, FailoverIsComplete

\* The origin a call is at is one that it has not given up on.
LEMMA AskedIs ==
  ASSUME FInv, NEW c \in call, Len(c.failed) < Len(c.urls)
  PROVE  Asked(c) \in Origins \ ToSet(c.failed)
<1>1. /\ EachOnce(c.urls, Origins) /\ c.failed \in Seq(Origins)
      /\ \A i \in DOMAIN c.failed : c.failed[i] = c.urls[i]
  BY DEF FInv, CallInv
<1>2. /\ c.urls \in Seq(Origins) /\ Len(c.urls) \in Nat /\ DOMAIN c.urls = 1 .. Len(c.urls)
      /\ Len(c.failed) \in Nat /\ DOMAIN c.failed = 1 .. Len(c.failed)
  BY <1>1 DEF EachOnce
<1>3. Len(c.failed) + 1 \in DOMAIN c.urls  BY <1>2
<1>4. \A i \in DOMAIN c.failed : i \in DOMAIN c.urls /\ i # Len(c.failed) + 1  BY <1>2
<1>5. \A i \in DOMAIN c.failed : c.failed[i] # Asked(c)
  BY <1>1, <1>3, <1>4 DEF Asked, EachOnce
<1> QED  BY <1>2, <1>3, <1>5 DEF Asked, ToSet

\* A call returns.
LEMMA ReturnKeeps ==
  ASSUME FInv, NEW c \in call, NEW outcome, NEW origin, Return(c, outcome, origin),
         OriginsInv', UNCHANGED configured,
         outcome = "exhausted" => Len(c.failed) = Len(c.urls),
         origin # NoURL => origin = Asked(c) /\ Len(c.failed) < Len(c.urls)
  PROVE  FInv'
<1> DEFINE r == [kind |-> c.kind, intent |-> c.intent, outcome |-> outcome,
                 origin |-> origin, failed |-> c.failed]
<1>1. call' = {} /\ result' = {r} /\ Origins' = Origins  BY DEF Return, Origins
<1>2. r.outcome = outcome /\ r.origin = origin /\ r.failed = c.failed  OBVIOUS
<1> HIDE DEF r
<1>3. ASSUME outcome = "exhausted"
      PROVE  ToSet(c.failed) = Origins /\ Len(c.failed) = Cardinality(Origins)
  <2>1. EachOnce(c.urls, Origins) /\ c.failed \in Seq(Origins) /\ Len(c.failed) = Len(c.urls)
    BY <1>3 DEF FInv, CallInv
  <2>2. DOMAIN c.failed = DOMAIN c.urls  BY <2>1 DEF EachOnce
  <2>3. \A i \in DOMAIN c.failed : c.failed[i] = c.urls[i]  BY DEF FInv, CallInv
  <2>4. ToSet(c.failed) = Origins
    <3>1. \A i \in DOMAIN c.failed : c.failed[i] \in Origins  BY <2>1
    <3>2. \A u \in Origins : \E i \in DOMAIN c.failed : c.failed[i] = u
      BY <2>1, <2>2, <2>3 DEF EachOnce
    <3> QED  BY <3>1, <3>2 DEF ToSet
  <2> QED  BY <2>1, <2>4, LengthOf
<1>4. origin # NoURL => origin \in Origins \ ToSet(c.failed)  BY AskedIs
<1>5. ResultInv'  BY <1>1, <1>2, <1>3, <1>4 DEF ResultInv, FailoverIsComplete
<1> QED  BY <1>1, <1>5 DEF FInv, CallInv

\* A call goes on with what it has.
LEMMA ContinueKeeps ==
  ASSUME FInv, NEW c \in call, NEW d, call' = {d},
         d.kind = c.kind, d.urls = c.urls, d.failed = c.failed,
         d.phase \in {"wait", "lines"}, d.beats \in 0 .. MaxHeartbeats,
         Len(c.failed) < Len(c.urls),
         OriginsInv', UNCHANGED <<configured, result>>
  PROVE  FInv'
<1>1. Origins' = Origins  BY DEF Origins
<1>2. /\ c.kind \in Kinds /\ EachOnce(c.urls, Origins)
      /\ c.failed \in Seq(Origins) /\ Len(c.failed) <= Len(c.urls)
      /\ \A i \in DOMAIN c.failed : c.failed[i] = c.urls[i]
  BY DEF FInv, CallInv
<1>3. CallInv'  BY <1>1, <1>2 DEF CallInv
<1>4. ResultInv'  BY <1>1 DEF FInv, ResultInv, FailoverIsComplete
<1> QED  BY <1>3, <1>4 DEF FInv

\* A call passes an origin over.
LEMMA FailOverKeeps ==
  ASSUME IInv, FInv, NEW c \in call, c.phase = "wait", FailOver(c), UNCHANGED <<configured, calls>>
  PROVE  FInv'
<1> DEFINE d == [c EXCEPT !.failed = Append(@, Asked(c)), !.phase = "send"]
<1>1. DOMAIN c = {"kind", "intent", "key", "urls", "failed", "phase", "beats"}
  BY DEF IInv, Shape
<1>2. /\ d.kind = c.kind /\ d.urls = c.urls /\ d.beats = c.beats /\ d.phase = "send"
      /\ d.failed = Append(c.failed, Asked(c))
  BY <1>1
<1>3. call' = {d} /\ UNCHANGED <<baseURL, baseURLs, result, lastOK>>  BY DEF FailOver
<1> HIDE DEF d
<1>4. Origins' = Origins  BY DEF Origins
<1>5. /\ c.kind \in Kinds /\ c.beats \in 0 .. MaxHeartbeats /\ EachOnce(c.urls, Origins)
      /\ c.failed \in Seq(Origins) /\ Len(c.failed) < Len(c.urls)
      /\ \A i \in DOMAIN c.failed : c.failed[i] = c.urls[i]
  BY DEF FInv, CallInv
<1>6. Len(c.urls) \in Nat /\ Len(c.failed) \in Nat /\ Asked(c) \in Origins
  BY <1>5, AskedIs DEF EachOnce
<1>7. /\ d.failed \in Seq(Origins) /\ Len(d.failed) <= Len(d.urls)
      /\ \A i \in DOMAIN d.failed : d.failed[i] = d.urls[i]
  <2>1. /\ d.failed \in Seq(Origins) /\ Len(d.failed) = Len(c.failed) + 1
        /\ \A i \in DOMAIN d.failed : \/ i \in DOMAIN c.failed /\ d.failed[i] = c.failed[i]
                                      \/ i = Len(c.failed) + 1 /\ d.failed[i] = Asked(c)
    BY <1>2, <1>5, <1>6
  <2>2. Asked(c) = c.urls[Len(c.failed) + 1]  BY DEF Asked
  <2> QED  BY <1>2, <1>5, <1>6, <2>1, <2>2
<1>8. CallInv'  BY <1>2, <1>3, <1>4, <1>5, <1>7 DEF CallInv
<1>9. OriginsInv' /\ ResultInv'
  BY <1>3, <1>4 DEF FInv, OriginsInv, ResultInv, FailoverIsComplete
<1> QED  BY <1>8, <1>9 DEF FInv

LEMMA SendKeeps == ASSUME IInv, FInv, Send PROVE FInv'
<1>1. PICK c \in call :
        /\ Len(c.failed) < Len(c.urls)
        /\ UNCHANGED <<configured, baseURL, baseURLs, calls, lastOK>>
        /\ \/ call' = {[c EXCEPT !.phase = "wait"]} /\ UNCHANGED result
           \/ Return(c, "invalid_url", NoURL)
  BY DEF Send
<1>2. OriginsInv'  BY <1>1 DEF FInv, OriginsInv, Origins
<1>3. CASE Return(c, "invalid_url", NoURL)  BY <1>1, <1>2, <1>3, ReturnKeeps
<1>4. CASE call' = {[c EXCEPT !.phase = "wait"]} /\ UNCHANGED result
  <2> DEFINE d == [c EXCEPT !.phase = "wait"]
  <2>1. DOMAIN c = {"kind", "intent", "key", "urls", "failed", "phase", "beats"}
    BY DEF IInv, Shape
  <2>2. /\ d.kind = c.kind /\ d.urls = c.urls /\ d.failed = c.failed /\ d.beats = c.beats
        /\ d.phase = "wait"
    BY <2>1
  <2>3. call' = {d} /\ c.beats \in 0 .. MaxHeartbeats  BY <1>4 DEF FInv, CallInv
  <2> HIDE DEF d
  <2> QED  BY <1>1, <1>2, <1>4, <2>2, <2>3, ContinueKeeps
<1> QED  BY <1>1, <1>3, <1>4

LEMMA AnswerSuccessKeeps == ASSUME IInv, FInv, AnswerSuccess PROVE FInv'
<1>1. PICK c \in call :
        /\ c.phase = "wait" /\ Activate(c)
        /\ UNCHANGED <<configured, calls>>
        /\ \/ call' = {[c EXCEPT !.phase = "lines"]} /\ UNCHANGED result
           \/ \E outcome \in {"protocol", "ok", "decode", "invalid_response"} :
                Return(c, outcome, Asked(c))
  BY DEF AnswerSuccess
<1>2. Len(c.failed) < Len(c.urls)  BY <1>1 DEF FInv, CallInv
<1>3. OriginsInv'
  <2>1. Asked(c) \in Origins  BY <1>2, AskedIs
  <2> QED  BY <1>1, <2>1, ActivateKeeps DEF FInv
<1>4. CASE \E outcome \in {"protocol", "ok", "decode", "invalid_response"} :
             Return(c, outcome, Asked(c))
  <2>1. PICK outcome \in {"protocol", "ok", "decode", "invalid_response"} :
          Return(c, outcome, Asked(c))
    BY <1>4
  <2>2. outcome # "exhausted"  OBVIOUS
  <2> QED  BY <1>1, <1>2, <1>3, <2>1, <2>2, ReturnKeeps
<1>5. CASE call' = {[c EXCEPT !.phase = "lines"]} /\ UNCHANGED result
  <2> DEFINE d == [c EXCEPT !.phase = "lines"]
  <2>1. DOMAIN c = {"kind", "intent", "key", "urls", "failed", "phase", "beats"}
    BY DEF IInv, Shape
  <2>2. /\ d.kind = c.kind /\ d.urls = c.urls /\ d.failed = c.failed /\ d.beats = c.beats
        /\ d.phase = "lines"
    BY <2>1
  <2>3. call' = {d} /\ c.beats \in 0 .. MaxHeartbeats  BY <1>5 DEF FInv, CallInv
  <2> HIDE DEF d
  <2> QED  BY <1>1, <1>2, <1>3, <1>5, <2>2, <2>3, ContinueKeeps
<1> QED  BY <1>1, <1>4, <1>5

LEMMA ReadLineKeeps == ASSUME IInv, FInv, ReadLine PROVE FInv'
<1>1. PICK c \in call :
        /\ c.phase = "lines"
        /\ UNCHANGED <<configured, baseURL, baseURLs, calls, lastOK>>
        /\ \/ /\ c.beats < MaxHeartbeats
              /\ call' = {[c EXCEPT !.beats = @ + 1]} /\ UNCHANGED result
           \/ \E outcome \in {"ok", "no_event", "decode"} : Return(c, outcome, Asked(c))
  BY DEF ReadLine, Asked
<1>2. Len(c.failed) < Len(c.urls)  BY <1>1 DEF FInv, CallInv
<1>3. OriginsInv'  BY <1>1 DEF FInv, OriginsInv, Origins
<1>4. CASE \E outcome \in {"ok", "no_event", "decode"} : Return(c, outcome, Asked(c))
  <2>1. PICK outcome \in {"ok", "no_event", "decode"} : Return(c, outcome, Asked(c))
    BY <1>4
  <2>2. outcome # "exhausted"  OBVIOUS
  <2> QED  BY <1>1, <1>2, <1>3, <2>1, <2>2, ReturnKeeps
<1>5. CASE c.beats < MaxHeartbeats /\ call' = {[c EXCEPT !.beats = @ + 1]} /\ UNCHANGED result
  <2> DEFINE d == [c EXCEPT !.beats = @ + 1]
  <2>1. DOMAIN c = {"kind", "intent", "key", "urls", "failed", "phase", "beats"}
    BY DEF IInv, Shape
  <2>2. /\ d.kind = c.kind /\ d.urls = c.urls /\ d.failed = c.failed /\ d.beats = c.beats + 1
        /\ d.phase = c.phase
    BY <2>1
  <2>3. call' = {d} /\ c.beats \in 0 .. MaxHeartbeats  BY <1>5 DEF FInv, CallInv
  <2> HIDE DEF d
  <2>4. d.beats \in 0 .. MaxHeartbeats  BY <1>5, <2>2, <2>3, APIAssumption
  <2> QED  BY <1>1, <1>2, <1>3, <1>5, <2>2, <2>3, <2>4, ContinueKeeps
<1> QED  BY <1>1, <1>4, <1>5

LEMMA NextKeeps == ASSUME IInv, FInv, [Next]_vars PROVE FInv'
<1>1. CASE Restart  BY <1>1, RestartKeeps
<1>2. CASE StartCreate \/ StartEnrollmentRequest
  BY <1>2, StartKeeps DEF StartCreate, StartEnrollmentRequest, Kinds
<1>3. CASE StartRegister  BY <1>3, StartKeeps DEF StartRegister, Kinds
<1>4. CASE StartOther  BY <1>4, StartKeeps DEF StartOther, Kinds
<1>5. CASE Send  BY <1>5, SendKeeps
<1>6. CASE Exhausted
  <2>1. PICK c \in call :
          /\ Len(c.failed) = Len(c.urls)
          /\ UNCHANGED <<configured, baseURL, baseURLs, calls, lastOK>>
          /\ \E outcome : Return(c, outcome, NoURL)
    BY <1>6 DEF Exhausted
  <2>2. OriginsInv'  BY <2>1 DEF FInv, OriginsInv, Origins
  <2> QED  BY <2>1, <2>2, ReturnKeeps
<1>7. CASE Process
  BY <1>7 DEF Process, FInv, OriginsInv, Origins, CallInv, ResultInv, FailoverIsComplete
<1>8. CASE TransportError
  <2>1. PICK c \in call : c.phase = "wait" /\ FailOver(c) /\ UNCHANGED <<configured, calls>>
    BY <1>8 DEF TransportError
  <2> QED BY <2>1, FailOverKeeps
<1>9. CASE AnswerError
  <2>1. PICK c \in call :
          /\ c.phase = "wait" /\ UNCHANGED <<configured, calls>>
          /\ \/ FailOver(c)
             \/ Return(c, "status", Asked(c)) /\ UNCHANGED <<baseURL, baseURLs, lastOK>>
    BY <1>9 DEF AnswerError
  <2>2. CASE FailOver(c)  BY <2>1, <2>2, FailOverKeeps
  <2>3. CASE Return(c, "status", Asked(c)) /\ UNCHANGED <<baseURL, baseURLs, lastOK>>
    <3>1. OriginsInv'  BY <2>1, <2>3 DEF FInv, OriginsInv, Origins
    <3>2. Len(c.failed) < Len(c.urls)  BY <2>1 DEF FInv, CallInv
    <3> QED  BY <2>1, <2>3, <3>1, <3>2, ReturnKeeps
  <2> QED  BY <2>1, <2>2, <2>3
<1>10. CASE AnswerSuccess  BY <1>10, AnswerSuccessKeeps
<1>11. CASE ReadLine  BY <1>11, ReadLineKeeps
<1>12. CASE UNCHANGED vars
  BY <1>12 DEF vars, FInv, OriginsInv, Origins, CallInv, ResultInv, FailoverIsComplete
<1> QED BY <1>1, <1>2, <1>3, <1>4, <1>5, <1>6, <1>7, <1>8, <1>9, <1>10, <1>11, <1>12 DEF Next

LEMMA FailoverInvariant == Spec => []FInv
BY InitEstablishes, NextPreserves, InitFInv, NextKeeps, PTL DEF Spec

\* The type invariant.
THEOREM TypeCorrect == Spec => []TypeOK
<1>1. FInv => TypeOK
  <2> SUFFICES ASSUME FInv PROVE TypeOK  OBVIOUS
  <2>1. \A u \in Origins : u \in DOMAIN TrimURL  BY OriginsAre DEF FInv, OriginsInv
  <2>2. baseURLs \in Seq(DOMAIN TrimURL)
    <3>1. baseURLs \in Seq(Origins)  BY DEF FInv, OriginsInv, EachOnce
    <3> QED  BY <2>1, <3>1
  <2>3. baseURL \in DOMAIN TrimURL  BY <2>1, ActiveIs, APIAssumption DEF FInv
  <2>4. lastOK \in [Origins -> 0 .. MaxCalls] /\ calls \in 0 .. MaxCalls
    BY APIAssumption DEF FInv, OriginsInv
  <2> QED  BY <2>2, <2>3, <2>4 DEF TypeOK, FInv, OriginsInv, CallInv, ResultInv
<1> QED  BY <1>1, FailoverInvariant, PTL

\* A call that fails against all coordinators has asked each configured origin once, and
\* an answer comes from one that the call had not given up on (request, failoverError):
\* for any number of origins, written in any way, and after any calls.
THEOREM FailoverComplete == Spec => []FailoverIsComplete
<1>1. FInv => FailoverIsComplete  BY DEF FInv, ResultInv
<1> QED  BY <1>1, FailoverInvariant, PTL

\* Origins are asked in the order of their last success and none is forgotten
\* (setActiveBaseURL, controlPlaneURLs).
THEOREM RecentOriginsFirst == Spec => []RecentFirst
<1>1. FInv => RecentFirst  BY OrderOfCall DEF FInv
<1> QED  BY <1>1, FailoverInvariant, PTL
=============================================================================
