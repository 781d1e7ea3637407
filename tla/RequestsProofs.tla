--------------------------- MODULE RequestsProofs ---------------------------
(***************************************************************************)
(* Theorems about Requests for any requests, calls, bodies and limits.     *)
(***************************************************************************)
EXTENDS Requests, FiniteSetTheorems, WellFoundedInduction, TLAPS

-----------------------------------------------------------------------------
\* Facts about operators and sequences.

\* A function with the domain of a sequence is a sequence of its length.
LEMMA SeqLike ==
    ASSUME NEW S, NEW T, NEW s \in Seq(S), NEW f,
           f = [i \in DOMAIN s |-> f[i]],
           \A i \in DOMAIN s : f[i] \in T
    PROVE  f \in Seq(T) /\ Len(f) = Len(s) /\ DOMAIN f = DOMAIN s
<1>1. Len(s) \in Nat /\ DOMAIN s = 1..Len(s)
  OBVIOUS
<1>2. f \in [1..Len(s) -> T]
  BY <1>1
<1>3. QED
  BY <1>1, <1>2

LEMMA BodyFacts ==
    ASSUME NEW b \in Bodies
    PROVE  /\ b \in Body
           /\ b # None
           /\ b.calls \in Seq(Calls)
           /\ b.kind = "invalid" => b.calls = <<>>
           /\ b.kind = "single" => 1 \in DOMAIN b.calls /\ Len(b.calls) = 1
           /\ \A i \in DOMAIN b.calls : b.calls[i] \in Calls
BY BodiesAssumption, NoneAssumption DEF Body

LEMMA ErrorFacts ==
    /\ \A e : HandleError(e) \in Errors
    /\ \A b : Refusal(b) \in Errors \cup {None}
    /\ \A b : HandlerRefusal(b) \in Errors \cup {None}
    /\ None \notin Errors
<1>1. \A e : HandleError(e) \in Errors
  BY DEF HandleError, Errors, TimeoutErrors
<1>2. \A b : Refusal(b) \in Errors \cup {None}
  BY DEF Refusal, Errors, LimitErrors
<1>3. \A b : HandlerRefusal(b) \in Errors \cup {None}
  BY <1>1 DEF HandlerRefusal, Errors, LimitErrors
<1>4. QED
  BY <1>1, <1>2, <1>3, NoneAssumption

LEMMA ResponseFacts ==
    ASSUME NEW e \in Errors \cup {None}, NEW as \in Seq(Answer), NEW h \in BOOLEAN
    PROVE  /\ [error |-> e, answers |-> as, hit |-> h] \in Response
           /\ [error |-> e, answers |-> as, hit |-> h] # None
<1>1. [error |-> e, answers |-> as, hit |-> h] \in Response
  BY DEF Response
<1>2. QED
  BY <1>1, NoneAssumption

\* A cancelled fetch is not running, any other stays as it is.
LEMMA CancelledFacts ==
    ASSUME NEW fs \in Seq(Fetch)
    PROVE  /\ Cancelled(fs) \in Seq(Fetch)
           /\ DOMAIN Cancelled(fs) = DOMAIN fs
           /\ fs = <<>> <=> Cancelled(fs) = <<>>
           /\ \A i \in DOMAIN fs :
                 /\ Cancelled(fs)[i].st \notin {"waiting", "asked"}
                 /\ Cancelled(fs)[i].at = fs[i].at
                 /\ Cancelled(fs)[i].st = "ok" => fs[i].st = "ok"
                 /\ Cancelled(fs)[i].st = "failed" <=> fs[i].st = "failed"
<1>1. \A i \in DOMAIN fs : fs[i] \in Fetch
  OBVIOUS
<1>2. \A i \in DOMAIN fs :
          /\ Cancelled(fs)[i] \in Fetch
          /\ Cancelled(fs)[i].st \notin {"waiting", "asked"}
          /\ Cancelled(fs)[i].at = fs[i].at
          /\ Cancelled(fs)[i].st = "ok" => fs[i].st = "ok"
          /\ Cancelled(fs)[i].st = "failed" <=> fs[i].st = "failed"
  BY <1>1 DEF Cancelled, Fetch, FetchState
<1>3. Cancelled(fs) = [i \in DOMAIN fs |-> Cancelled(fs)[i]]
  BY DEF Cancelled
<1>4. Cancelled(fs) \in Seq(Fetch) /\ Len(Cancelled(fs)) = Len(fs)
  BY <1>2, <1>3, SeqLike
<1>5. QED
  BY <1>2, <1>4

-----------------------------------------------------------------------------
\* Types and stages.

\* What holds of a request in each stage.
Staged(r) ==
    /\ stage[r] = "new" <=> body[r] = None
    /\ stage[r] = "answered" <=> response[r] # None
    /\ stage[r] # "answered" => jobs[r] = {}
    /\ stage[r] \in {"new", "reading"} => fetch[r] = <<>>
    /\ stage[r] \in {"reading", "handling"} => CallsOf(r) # <<>>
    /\ stage[r] = "handling" => fetch[r] # <<>>
    /\ fetch[r] # <<>> => DOMAIN fetch[r] = DOMAIN CallsOf(r)
    /\ \A i \in DOMAIN fetch[r] : fetch[r][i].st = "ok" => fetch[r][i].at \in Nat
    /\ "lib" \in jobs[r] => UpdatesLib(r)
    /\ "cache" \in jobs[r] => Caches(r)

\* A response without an error answers the calls of its body.
Matched(r) ==
    Served(r) =>
        /\ body[r].kind # "invalid"
        /\ Len(response[r].answers) = Len(CallsOf(r))
        /\ \A i \in DOMAIN response[r].answers :
              /\ response[r].answers[i].call = CallsOf(r)[i]
              /\ response[r].answers[i].at \in Nat

Typed == TypeOK /\ \A r \in Reqs : Staged(r) /\ Matched(r)

LEMMA TypedInit == Init => Typed
BY NumbersAssumption, NoneAssumption
   DEF Init, Typed, TypeOK, Staged, Matched, Served, Stages, Numbers


\* What an action does to one fetch.
LEMMA BecomesFacts ==
    ASSUME TypeOK, NEW r \in Reqs, NEW i \in DOMAIN fetch[r],
           NEW st \in FetchState, NEW at \in Numbers, Becomes(r, i, st, at)
    PROVE  /\ fetch' \in [Reqs -> Seq(Fetch)]
           /\ DOMAIN fetch'[r] = DOMAIN fetch[r]
           /\ fetch[r] # <<>> /\ fetch'[r] # <<>>
           /\ fetch'[r][i].st = st /\ fetch'[r][i].at = at
           /\ \A j \in DOMAIN fetch[r] : j # i => fetch'[r][j] = fetch[r][j]
           /\ \A q \in Reqs : q # r => fetch'[q] = fetch[q]
<1> DEFINE f == [st |-> st, at |-> at]
           s == [fetch[r] EXCEPT ![i] = f]
<1>1. fetch \in [Reqs -> Seq(Fetch)] /\ fetch[r] \in Seq(Fetch)
  BY DEF TypeOK
<1>2. f \in Fetch
  BY DEF Fetch
<1>3. fetch' = [fetch EXCEPT ![r] = s]
  BY DEF Becomes
<1> HIDE DEF f
<1>4. s \in Seq(Fetch) /\ DOMAIN s = DOMAIN fetch[r] /\ s[i] = f
      /\ \A j \in DOMAIN fetch[r] : j # i => s[j] = fetch[r][j]
  BY <1>1, <1>2
<1>5. fetch[r] # <<>> /\ s # <<>>
  BY <1>1, <1>4
<1> HIDE DEF s
<1>6. /\ fetch' \in [Reqs -> Seq(Fetch)]
      /\ fetch'[r] = s
      /\ \A q \in Reqs : q # r => fetch'[q] = fetch[q]
  BY <1>1, <1>3, <1>4
<1>7. f.st = st /\ f.at = at
  BY DEF f
<1>8. QED
  BY <1>4, <1>5, <1>6, <1>7

\* A request that a step leaves alone keeps its stage and its response.
LEMMA Frame ==
    ASSUME NEW q \in Reqs, Staged(q), Matched(q),
           stage'[q] = stage[q], body'[q] = body[q], response'[q] = response[q],
           fetch'[q] = fetch[q], jobs'[q] = jobs[q]
    PROVE  Staged(q)' /\ Matched(q)'
BY DEF Staged, Matched, Served, CallsOf, UpdatesLib, Caches

\* A step that answers r, or lets its work go on, types what it writes and
\* leaves the other requests alone.
Concerns(r) ==
    /\ stage' \in [Reqs -> Stages]
    /\ response' \in [Reqs -> Response \cup {None}]
    /\ jobs' \in [Reqs -> SUBSET {"start", "lib", "cache", "skipped"}]
    /\ \A q \in Reqs : q # r => /\ stage'[q] = stage[q]
                                /\ response'[q] = response[q]
                                /\ jobs'[q] = jobs[q]

\* What the client and the process see of a response.
LEMMA RespondFacts ==
    ASSUME TypeOK, NEW r \in Reqs, NEW e \in Errors \cup {None},
           NEW as \in Seq(Answer), NEW h \in BOOLEAN, Respond(r, e, as, h)
    PROVE  /\ Concerns(r)
           /\ stage'[r] = "answered" /\ jobs'[r] = {"start"}
           /\ response'[r] = [error |-> e, answers |-> as, hit |-> h]
           /\ response'[r] # None
<1> DEFINE p == [error |-> e, answers |-> as, hit |-> h]
<1>1. p \in Response /\ p # None
  BY ResponseFacts
<1>2. response' = [response EXCEPT ![r] = p]
  BY DEF Respond
<1> HIDE DEF p
<1>3. QED
  BY <1>1, <1>2 DEF Respond, TypeOK, Stages, Concerns, p

\* An error response: nothing to match, nothing but statsd left to do.
LEMMA RefuseFacts ==
    ASSUME Typed, NEW r \in Reqs, NEW e \in Errors, Refuse(r, e)
    PROVE  /\ Concerns(r)
           /\ stage'[r] = "answered" /\ jobs'[r] = {"start"}
           /\ response'[r] # None /\ response'[r].error = e /\ e # None
           /\ Matched(r)'
<1>1. TypeOK /\ e \in Errors \cup {None} /\ FALSE \in BOOLEAN /\ Respond(r, e, <<>>, FALSE)
  BY DEF Refuse, Typed
<1>2. <<>> \in Seq(Answer)
  OBVIOUS
<1>3. /\ Concerns(r)
      /\ stage'[r] = "answered" /\ jobs'[r] = {"start"}
      /\ response'[r] = [error |-> e, answers |-> <<>>, hit |-> FALSE]
      /\ response'[r] # None
  BY <1>1, <1>2, RespondFacts
<1>4. e # None /\ response'[r].error = e
  BY <1>3, ErrorFacts
<1>5. Matched(r)'
  BY <1>4 DEF Matched, Served
<1>6. QED
  BY <1>3, <1>4, <1>5

TypedRest ==
    /\ lib \in Nat
    /\ storedLib \in Numbers
    /\ cached \in [Calls -> Numbers]
    /\ queued \in Int
    /\ sent \in Int
    /\ chain \in Nat

\* A step of one request keeps Typed if that request does.
LEMMA TypedStep ==
    ASSUME Typed, NEW r \in Reqs, Concerns(r), Staged(r)', Matched(r)', TypedRest',
           body' \in [Reqs -> Bodies \cup {None}],
           \A q \in Reqs : q # r => body'[q] = body[q],
           fetch' \in [Reqs -> Seq(Fetch)],
           \A q \in Reqs : q # r => fetch'[q] = fetch[q]
    PROVE  Typed'
<1>1. \A q \in Reqs : Staged(q)' /\ Matched(q)'
  <2>1. SUFFICES ASSUME NEW q \in Reqs, q # r  PROVE Staged(q)' /\ Matched(q)'
    OBVIOUS
  <2>2. QED
    BY <2>1, Frame DEF Typed, Concerns
<1>2. TypeOK'
  BY DEF TypeOK, TypedRest, Concerns
<1>3. QED
  BY <1>1, <1>2 DEF Typed

\* A request that came has a body and calls.
LEMMA Known ==
    ASSUME Typed, NEW r \in Reqs, stage[r] # "new"
    PROVE  /\ body[r] \in Bodies
           /\ CallsOf(r) \in Seq(Calls)
           /\ \A i \in DOMAIN CallsOf(r) : CallsOf(r)[i] \in Calls
           /\ CallsOf(r) # <<>> => body[r].kind # "invalid"
           /\ UpdatesLib(r) => 1 \in DOMAIN CallsOf(r)
<1>1. body[r] \in Bodies
  BY DEF Typed, TypeOK, Staged
<1>2. QED
  BY <1>1, BodyFacts DEF CallsOf, UpdatesLib

LEMMA ArriveTyped ==
    ASSUME Typed, NEW r \in Reqs, NEW b \in Bodies, Arrive(r, b)
    PROVE  Typed'
<1>1. /\ stage[r] = "new" /\ body[r] = None /\ response[r] = None /\ jobs[r] = {}
      /\ fetch[r] = <<>>
  BY DEF Typed, Staged, Arrive
<1>2. /\ body' = [body EXCEPT ![r] = b] /\ body' \in [Reqs -> Bodies \cup {None}]
      /\ body'[r] = b /\ b # None
      /\ \A q \in Reqs : q # r => body'[q] = body[q]
      /\ UNCHANGED <<fetch, libVars, cached, chain>>
  BY BodyFacts DEF Arrive, Typed, TypeOK
<1>3. queued' \in Int /\ sent' \in Int
  BY BodyFacts DEF Arrive, CountIn, Put, Typed, TypeOK
<1>4. /\ Concerns(r)
      /\ Staged(r)' /\ Matched(r)'
  <2>1. CASE Refusal(b) # None /\ Refuse(r, Refusal(b))
    <3>1. Refusal(b) \in Errors
      BY <2>1, ErrorFacts
    <3>2. QED
      BY <1>1, <1>2, <2>1, <3>1, RefuseFacts DEF Staged
  <2>2. CASE Refusal(b) = None /\ b.calls = <<>> /\ Healthcheck(r)
    <3>1. Respond(r, None, <<>>, FALSE) /\ FALSE \in BOOLEAN /\ TypeOK
      BY <2>2 DEF Healthcheck, Typed
    <3>2. b.kind # "invalid"
      BY <2>2, NoneAssumption DEF Refusal, Parsed, Errors
    <3>3. <<>> \in Seq(Answer)
      OBVIOUS
    <3>4. /\ Concerns(r)
          /\ stage'[r] = "answered" /\ jobs'[r] = {"start"}
          /\ response'[r] = [error |-> None, answers |-> <<>>, hit |-> FALSE]
          /\ response'[r] # None
      BY <3>1, <3>3, RespondFacts
    <3>5. Matched(r)'
      BY <1>2, <2>2, <3>2, <3>4 DEF Matched, Served, CallsOf
    <3>6. QED
      BY <1>1, <1>2, <3>4, <3>5 DEF Staged
  <2>3. CASE /\ b.calls # <<>>
             /\ stage' = [stage EXCEPT ![r] = "reading"]
             /\ UNCHANGED <<response, jobs>>
    BY <1>1, <1>2, <2>3 
         DEF Typed, TypeOK, Stages, Staged, Matched, Served, CallsOf, Concerns
  <2>4. QED
    BY <2>1, <2>2, <2>3 DEF Arrive
<1>5. TypedRest'
  BY <1>2, <1>3 DEF Typed, TypeOK, TypedRest, libVars
<1>6. QED
  BY <1>2, <1>4, <1>5, TypedStep DEF Typed, TypeOK

LEMMA HitTyped ==
    ASSUME Typed, NEW r \in Reqs, Hit(r)
    PROVE  Typed'
<1> DEFINE as == [i \in DOMAIN CallsOf(r) |->
                    [call |-> CallsOf(r)[i], at |-> cached[CallsOf(r)[i]]]]
<1>1. /\ stage[r] = "reading" /\ fetch[r] = <<>> /\ CallsOf(r) # <<>>
      /\ UNCHANGED <<body, fetch, libVars, cached, statVars, chain>>
      /\ TypeOK
  BY DEF Hit, Typed, Staged
<1>2. Respond(r, None, as, TRUE) /\ None \in Errors \cup {None} /\ TRUE \in BOOLEAN
  BY DEF Hit
<1>3. \A i \in DOMAIN CallsOf(r) : cached[CallsOf(r)[i]] \in Nat
  BY <1>1, Known DEF Hit, TypeOK, Numbers
<1>4. \A i \in DOMAIN CallsOf(r) : as[i] \in Answer
  BY <1>1, <1>3, Known DEF Answer, Numbers
<1>5. as \in Seq(Answer) /\ Len(as) = Len(CallsOf(r)) /\ DOMAIN as = DOMAIN CallsOf(r)
  BY <1>1, <1>4, Known, SeqLike
<1>6. \A i \in DOMAIN as : as[i].call = CallsOf(r)[i] /\ as[i].at \in Nat
  BY <1>3
<1> HIDE DEF as
<1>7. /\ Concerns(r)
      /\ stage'[r] = "answered" /\ jobs'[r] = {"start"}
      /\ response'[r] = [error |-> None, answers |-> as, hit |-> TRUE]
      /\ response'[r] # None
  BY <1>1, <1>2, <1>5, RespondFacts
<1>8. response'[r].answers = as
  BY <1>7
<1>9. body'[r].kind # "invalid" /\ CallsOf(r)' = CallsOf(r)
  BY <1>1, Known DEF CallsOf
<1>10. Matched(r)'
  BY <1>5, <1>6, <1>8, <1>9 DEF Matched
<1>11. body'[r] # None /\ fetch'[r] = <<>> /\ response'[r] # None
  BY <1>1, <1>7 DEF Typed, Staged
<1>12. stage'[r] = "answered" /\ jobs'[r] = {"start"}
  BY <1>7
<1>13. Staged(r)'
  BY <1>11, <1>12 DEF Staged
<1>14. TypedRest'
  BY <1>1 DEF TypeOK, TypedRest, libVars, statVars
<1>15. QED
  BY <1>1, <1>7, <1>10, <1>13, <1>14, TypedStep DEF TypeOK

LEMMA MissTyped ==
    ASSUME Typed, NEW r \in Reqs, Miss(r)
    PROVE  Typed'
<1>1. /\ stage[r] = "reading" /\ fetch[r] = <<>> /\ CallsOf(r) # <<>>
      /\ UNCHANGED <<body, libVars, cached, statVars, chain>>
      /\ TypeOK /\ body[r] # None
  BY DEF Miss, Typed, Staged
<1>2. TypedRest'
  BY <1>1 DEF TypeOK, TypedRest, libVars, statVars
<1>3. CASE Refuse(r, HandlerRefusal(body[r])) /\ UNCHANGED fetch
           /\ HandlerRefusal(body[r]) # None
  <2>1. HandlerRefusal(body[r]) \in Errors
    BY <1>3, ErrorFacts
  <2>2. /\ Concerns(r) /\ Matched(r)'
        /\ stage'[r] = "answered" /\ jobs'[r] = {"start"} /\ response'[r] # None
    BY <1>3, <2>1, RefuseFacts
  <2>3. Staged(r)'
    BY <1>1, <1>3, <2>2 DEF Staged
  <2>4. QED
    BY <1>1, <1>2, <1>3, <2>2, <2>3, TypedStep DEF TypeOK
<1>4. CASE Dispatch(r)
  <2> DEFINE fs == [i \in DOMAIN CallsOf(r) |-> NewFetch(CallsOf(r)[i])]
  <2>1. \A i \in DOMAIN CallsOf(r) : fs[i] \in Fetch /\ fs[i].st # "ok"
    BY DEF NewFetch, Fetch, FetchState, Numbers
  <2>2. fs \in Seq(Fetch) /\ DOMAIN fs = DOMAIN CallsOf(r) /\ fs # <<>>
    <3>1. fs \in Seq(Fetch) /\ DOMAIN fs = DOMAIN CallsOf(r) /\ Len(fs) = Len(CallsOf(r))
      BY <1>1, <2>1, Known, SeqLike
    <3>2. QED
      BY <1>1, <3>1, Known
  <2>3. fetch' = [fetch EXCEPT ![r] = fs]
    BY <1>4 DEF Dispatch
  <2> HIDE DEF fs
  <2>4. /\ fetch' \in [Reqs -> Seq(Fetch)] /\ fetch'[r] = fs
        /\ \A q \in Reqs : q # r => fetch'[q] = fetch[q]
    BY <1>1, <2>2, <2>3 DEF TypeOK
  <2>5. Concerns(r) /\ stage'[r] = "handling" /\ UNCHANGED <<response, jobs>>
    BY <1>1, <1>4 DEF Dispatch, Concerns, TypeOK, Stages
  <2>6. Staged(r)' /\ Matched(r)'
    BY <1>1, <2>1, <2>2, <2>4, <2>5
       DEF Typed, Staged, Matched, Served, CallsOf
  <2>7. QED
    BY <1>1, <1>2, <2>4, <2>5, <2>6, TypedStep DEF TypeOK
<1>5. QED
  BY <1>3, <1>4 DEF Miss

\* The process goes on with what it keeps, a step of fetches or a handler.
LEMMA RestKept ==
    ASSUME Typed, UNCHANGED <<body, libVars, cached, statVars, chain>>
    PROVE  TypedRest' /\ body' \in [Reqs -> Bodies \cup {None}]
BY DEF Typed, TypeOK, TypedRest, libVars, statVars

LEMMA AcquireTyped ==
    ASSUME Typed, NEW r \in Reqs, NEW i \in DOMAIN fetch[r], Acquire(r, i)
    PROVE  Typed'
<1>1. /\ Becomes(r, i, "asked", None) /\ "asked" \in FetchState /\ None \in Numbers
      /\ UNCHANGED <<reqVars, body, libVars, cached, statVars, chain>>
      /\ TypeOK /\ Staged(r) /\ Matched(r)
  BY DEF Acquire, Typed, FetchState, Numbers
<1>2. /\ fetch' \in [Reqs -> Seq(Fetch)]
      /\ DOMAIN fetch'[r] = DOMAIN fetch[r] /\ fetch[r] # <<>> /\ fetch'[r] # <<>>
      /\ fetch'[r][i].st = "asked"
      /\ \A j \in DOMAIN fetch[r] : j # i => fetch'[r][j] = fetch[r][j]
      /\ \A q \in Reqs : q # r => fetch'[q] = fetch[q]
  BY <1>1, BecomesFacts
<1>3. Concerns(r) /\ UNCHANGED <<stage, response, jobs, body>>
  BY <1>1 DEF Concerns, TypeOK, reqVars
<1>4. Staged(r)' /\ Matched(r)'
  BY <1>1, <1>2, <1>3
     DEF Staged, Matched, Served, CallsOf, UpdatesLib, Caches
<1>5. QED
  BY <1>1, <1>2, <1>3, <1>4, RestKept, TypedStep

LEMMA ReturnsTyped ==
    ASSUME Typed, NEW r \in Reqs, NEW i \in DOMAIN fetch[r], FetchReturns(r, i)
    PROVE  Typed'
<1> DEFINE n == Reported(CallsOf(r)[i])
<1>1. /\ Becomes(r, i, "ok", n) /\ "ok" \in FetchState
      /\ UNCHANGED <<reqVars, body, libVars, cached, statVars, chain>>
      /\ TypeOK /\ Staged(r) /\ Matched(r)
  BY DEF FetchReturns, Typed, FetchState
<1>2. n \in Nat /\ n \in Numbers
  BY <1>1 DEF Reported, TypeOK, Numbers
<1> HIDE DEF n
<1>3. /\ fetch' \in [Reqs -> Seq(Fetch)]
      /\ DOMAIN fetch'[r] = DOMAIN fetch[r] /\ fetch[r] # <<>> /\ fetch'[r] # <<>>
      /\ fetch'[r][i].at = n
      /\ \A j \in DOMAIN fetch[r] : j # i => fetch'[r][j] = fetch[r][j]
      /\ \A q \in Reqs : q # r => fetch'[q] = fetch[q]
  BY <1>1, <1>2, BecomesFacts
<1>4. Concerns(r) /\ UNCHANGED <<stage, response, jobs, body>>
  BY <1>1 DEF Concerns, TypeOK, reqVars
<1>5. Staged(r)' /\ Matched(r)'
  BY <1>1, <1>2, <1>3, <1>4
     DEF Staged, Matched, Served, CallsOf, UpdatesLib, Caches
<1>6. QED
  BY <1>1, <1>3, <1>4, <1>5, RestKept, TypedStep

LEMMA FailsTyped ==
    ASSUME Typed, NEW r \in Reqs, NEW i \in DOMAIN fetch[r], FetchFails(r, i)
    PROVE  Typed'
<1>1. /\ Becomes(r, i, "failed", None) /\ "failed" \in FetchState /\ None \in Numbers
      /\ UNCHANGED <<body, libVars, cached, statVars, chain>>
      /\ TypeOK /\ Staged(r) /\ Matched(r)
  BY DEF FetchFails, Typed, FetchState, Numbers
<1>2. /\ fetch' \in [Reqs -> Seq(Fetch)]
      /\ DOMAIN fetch'[r] = DOMAIN fetch[r] /\ fetch[r] # <<>> /\ fetch'[r] # <<>>
      /\ fetch'[r][i].st = "failed"
      /\ \A j \in DOMAIN fetch[r] : j # i => fetch'[r][j] = fetch[r][j]
      /\ \A q \in Reqs : q # r => fetch'[q] = fetch[q]
  BY <1>1, BecomesFacts
<1>3. Concerns(r) /\ Staged(r)' /\ Matched(r)'
  <2>1. CASE stage[r] = "handling" /\ \E e \in FetchErrors : Refuse(r, HandleError(e))
    <3>1. PICK e \in FetchErrors : Refuse(r, HandleError(e))
      BY <2>1
    <3>2. /\ Concerns(r) /\ Matched(r)'
          /\ stage'[r] = "answered" /\ jobs'[r] = {"start"} /\ response'[r] # None
      BY <3>1, ErrorFacts, RefuseFacts
    <3>3. Staged(r)'
      BY <1>1, <1>2, <2>1, <3>2 DEF Staged, CallsOf
    <3>4. QED
      BY <3>2, <3>3
  <2>2. CASE stage[r] # "handling" /\ UNCHANGED reqVars
    <3>1. Concerns(r) /\ UNCHANGED <<stage, response, jobs, body>>
      BY <1>1, <2>2 DEF Concerns, TypeOK, reqVars
    <3>2. QED
      BY <1>1, <1>2, <3>1
         DEF Staged, Matched, Served, CallsOf, UpdatesLib, Caches
  <2>3. QED
    BY <2>1, <2>2 DEF FetchFails
<1>4. QED
  BY <1>1, <1>2, <1>3, RestKept, TypedStep

LEMMA FinishTyped ==
    ASSUME Typed, NEW r \in Reqs, Finish(r)
    PROVE  Typed'
<1> DEFINE as == [i \in DOMAIN fetch[r] |-> [call |-> CallsOf(r)[i], at |-> fetch[r][i].at]]
<1>1. /\ stage[r] = "handling" /\ CallsOf(r) # <<>>
      /\ DOMAIN fetch[r] = DOMAIN CallsOf(r) /\ fetch[r] \in Seq(Fetch)
      /\ UNCHANGED <<body, fetch, libVars, cached, statVars, chain>>
      /\ TypeOK /\ Staged(r)
  BY DEF Finish, Typed, TypeOK, Staged
<1>2. Respond(r, None, as, FALSE) /\ None \in Errors \cup {None} /\ FALSE \in BOOLEAN
  BY DEF Finish
<1>3. \A i \in DOMAIN CallsOf(r) : fetch[r][i].at \in Nat
  BY <1>1 DEF Finish, FetchesDone, Staged
<1>4. \A i \in DOMAIN fetch[r] : as[i] \in Answer
  BY <1>1, <1>3, Known DEF Answer, Numbers
<1>5. as \in Seq(Answer) /\ Len(as) = Len(CallsOf(r)) /\ DOMAIN as = DOMAIN CallsOf(r)
  <2>1. as \in Seq(Answer) /\ Len(as) = Len(fetch[r]) /\ DOMAIN as = DOMAIN fetch[r]
    BY <1>1, <1>4, SeqLike
  <2>2. Len(fetch[r]) = Len(CallsOf(r))
    BY <1>1, Known
  <2>3. QED
    BY <1>1, <2>1, <2>2
<1>6. \A i \in DOMAIN as : as[i].call = CallsOf(r)[i] /\ as[i].at \in Nat
  BY <1>1, <1>3
<1> HIDE DEF as
<1>7. /\ Concerns(r)
      /\ stage'[r] = "answered" /\ jobs'[r] = {"start"}
      /\ response'[r] = [error |-> None, answers |-> as, hit |-> FALSE]
      /\ response'[r] # None
  BY <1>1, <1>2, <1>5, RespondFacts
<1>8. response'[r].answers = as
  BY <1>7
<1>9. body'[r].kind # "invalid" /\ CallsOf(r)' = CallsOf(r)
  BY <1>1, Known DEF CallsOf
<1>10. Matched(r)'
  BY <1>5, <1>6, <1>8, <1>9 DEF Matched
<1>11. stage'[r] = "answered" /\ jobs'[r] = {"start"} /\ response'[r] # None
  BY <1>7
<1>12. Staged(r)'
  BY <1>1, <1>9, <1>11 DEF Staged
<1>13. QED
  BY <1>1, <1>7, <1>10, <1>12, RestKept, TypedStep DEF TypeOK

\* The cancellation of the fetches of one request.
LEMMA CancelFacts ==
    ASSUME Typed, NEW r \in Reqs, fetch' = [fetch EXCEPT ![r] = Cancelled(@)]
    PROVE  /\ fetch' \in [Reqs -> Seq(Fetch)]
           /\ fetch'[r] = Cancelled(fetch[r])
           /\ DOMAIN fetch'[r] = DOMAIN fetch[r]
           /\ fetch'[r] = <<>> <=> fetch[r] = <<>>
           /\ \A i \in DOMAIN fetch'[r] :
                 fetch'[r][i].st = "ok" => fetch'[r][i].at \in Nat
           /\ \A q \in Reqs : q # r => fetch'[q] = fetch[q]
<1>1. /\ fetch \in [Reqs -> Seq(Fetch)] /\ fetch[r] \in Seq(Fetch)
      /\ \A i \in DOMAIN fetch[r] : fetch[r][i].st = "ok" => fetch[r][i].at \in Nat
  BY DEF Typed, TypeOK, Staged
<1>2. PICK c : c = Cancelled(fetch[r])
  OBVIOUS
<1>3. /\ c \in Seq(Fetch) /\ DOMAIN c = DOMAIN fetch[r]
      /\ c = <<>> <=> fetch[r] = <<>>
      /\ \A i \in DOMAIN fetch[r] : c[i].st = "ok" => c[i].at \in Nat
  BY <1>1, <1>2, CancelledFacts
<1>4. fetch' = [fetch EXCEPT ![r] = c]
  BY <1>2
<1>5. QED
  BY <1>1, <1>2, <1>3, <1>4

LEMMA TimeoutTyped ==
    ASSUME Typed, NEW r \in Reqs, Timeout(r)
    PROVE  Typed'
<1>1. /\ stage[r] = "handling" /\ body[r] # None
      /\ UNCHANGED <<body, libVars, cached, statVars, chain>>
      /\ fetch' = [fetch EXCEPT ![r] = Cancelled(@)]
      /\ fetch[r] # <<>> => DOMAIN fetch[r] = DOMAIN CallsOf(r)
  BY DEF Timeout, Typed, Staged
<1>2. /\ Concerns(r) /\ Matched(r)'
      /\ stage'[r] = "answered" /\ jobs'[r] = {"start"} /\ response'[r] # None
  BY ErrorFacts, RefuseFacts DEF Timeout
<1>3. Staged(r)'
  BY <1>1, <1>2, CancelFacts DEF Staged, CallsOf
<1>4. QED
  BY <1>1, <1>2, <1>3, CancelFacts, RestKept, TypedStep

\* sanic's own answer to a request that takes too long.
LEMMA ServerTimeoutFacts ==
    ASSUME Typed, NEW r \in Reqs, ServerTimeout(r)
    PROVE  /\ Concerns(r) /\ Matched(r)'
           /\ stage'[r] = "answered" /\ jobs'[r] \in {{"start"}, {"skipped"}}
           /\ "lib" \notin jobs'[r] /\ "cache" \notin jobs'[r]
           /\ response'[r] # None /\ response'[r].error # None
<1> DEFINE e == HandleError("ServiceUnavailable")
           p == [error |-> e, answers |-> <<>>, hit |-> FALSE]
<1>1. e \in Errors /\ e # None
  BY ErrorFacts
<1> HIDE DEF e
<1>2. <<>> \in Seq(Answer)
  OBVIOUS
<1>3. p \in Response /\ p # None
  BY <1>1, <1>2, ResponseFacts
<1>4. response' = [response EXCEPT ![r] = p] /\ p.error = e
  BY DEF ServerTimeout, e
<1> HIDE DEF p
<1>5. TypeOK /\ stage' = [stage EXCEPT ![r] = "answered"]
      /\ \E j \in {"start", "skipped"} : jobs' = [jobs EXCEPT ![r] = {j}]
  BY DEF ServerTimeout, Typed
<1>6. response' \in [Reqs -> Response \cup {None}] /\ response'[r] = p
  BY <1>3, <1>4, <1>5 DEF TypeOK
<1>7. Concerns(r) /\ stage'[r] = "answered" /\ jobs'[r] \in {{"start"}, {"skipped"}}
  BY <1>4, <1>5, <1>6 DEF Concerns, TypeOK, Stages
<1>8. response'[r] # None /\ response'[r].error # None
  BY <1>1, <1>3, <1>4, <1>6
<1>9. QED
  BY <1>7, <1>8 DEF Matched, Served

LEMMA ServerTimeoutTyped ==
    ASSUME Typed, NEW r \in Reqs, ServerTimeout(r)
    PROVE  Typed'
<1>1. /\ stage[r] = "handling" /\ body[r] # None
      /\ UNCHANGED <<body, libVars, cached, statVars, chain>>
      /\ fetch' = [fetch EXCEPT ![r] = Cancelled(@)]
      /\ fetch[r] # <<>> => DOMAIN fetch[r] = DOMAIN CallsOf(r)
  BY DEF ServerTimeout, Typed, Staged
<1>2. Staged(r)'
  BY <1>1, ServerTimeoutFacts, CancelFacts DEF Staged, CallsOf
<1>3. QED
  BY <1>1, <1>2, ServerTimeoutFacts, CancelFacts, RestKept, TypedStep

\* The number that a response reports is one of its answers.
LEMMA ReportedLib ==
    ASSUME Typed, NEW r \in Reqs, UpdatesLib(r), stage[r] = "answered"
    PROVE  /\ CallsOf(r)[1] \in DgpCalls
           /\ 1 \in DOMAIN response[r].answers
           /\ response[r].answers[1].at \in Nat
<1>1. Served(r) /\ Matched(r) /\ CallsOf(r)[1] \in DgpCalls
  BY DEF Typed, Staged, Served, UpdatesLib
<1>2. 1 \in DOMAIN CallsOf(r) /\ CallsOf(r) \in Seq(Calls)
  BY Known
<1>3. response[r].answers \in Seq(Answer)
  BY <1>1 DEF Typed, TypeOK, Response, Served
<1>4. 1 \in DOMAIN response[r].answers
  BY <1>1, <1>2, <1>3 DEF Matched
<1>5. QED
  BY <1>1, <1>4 DEF Matched

LEMMA BackgroundTyped ==
    ASSUME Typed, NEW r \in Reqs, Background(r)
    PROVE  Typed'
<1>1. /\ TypeOK /\ Staged(r) /\ Matched(r)
      /\ stage[r] = "answered" /\ body[r] \in Bodies /\ body[r] # None
      /\ UNCHANGED <<stage, response, body, fetch, storedLib, cached, chain>>
  <2>1. stage[r] = "answered"
    BY DEF Background, Typed, Staged
  <2>2. QED
    BY <2>1, Known, BodyFacts DEF Background, Typed
<1>2. queued' \in Int /\ sent' \in Int
  <2>1. Len(body[r].calls) \in Nat
    BY <1>1, BodyFacts
  <2>2. UNCHANGED statVars \/ PutAndSend(-Len(body[r].calls))
    BY DEF Background, CountOut
  <2>3. PICK n \in Int : n = -Len(body[r].calls)
    BY <2>1
  <2>4. \/ queued' = queued /\ sent' = sent
        \/ queued' = 0 /\ sent' = sent + queued + n
    BY <2>2, <2>3 DEF PutAndSend, statVars
  <2>5. queued \in Int /\ sent \in Int
    BY <1>1 DEF TypeOK
  <2>6. CASE queued' = queued /\ sent' = sent
    BY <2>5, <2>6
  <2>7. CASE queued' = 0 /\ sent' = sent + queued + n
    <3>1. sent + queued + n \in Int
      BY <2>5
    <3>2. QED
      BY <2>7, <3>1
  <2>8. QED
    BY <2>4, <2>6, <2>7
<1>3. PICK update \in {FALSE, UpdatesLib(r)} :
          /\ lib' = (IF update THEN response[r].answers[1].at ELSE lib)
          /\ jobs' = [jobs EXCEPT ![r] = {j \in {"lib", "cache"} :
                         (j = "lib" => update) /\ (j = "cache" => Caches(r))}]
  BY DEF Background
<1>4. lib' \in Nat
  <2>1. CASE update
    BY <1>1, <1>3, <2>1, ReportedLib
  <2>2. CASE ~update
    BY <1>1, <1>3, <2>2 DEF TypeOK
  <2>3. QED
    BY <2>1, <2>2
<1>5. /\ jobs' \in [Reqs -> SUBSET {"start", "lib", "cache", "skipped"}]
      /\ "lib" \in jobs'[r] => UpdatesLib(r)
      /\ "cache" \in jobs'[r] => Caches(r)
      /\ \A q \in Reqs : q # r => jobs'[q] = jobs[q]
  BY <1>1, <1>3 DEF TypeOK
<1>6. Concerns(r)
  BY <1>1, <1>5 DEF Concerns, TypeOK
<1>7. Staged(r)' /\ Matched(r)'
  BY <1>1, <1>5 DEF Staged, Matched, Served, CallsOf, UpdatesLib, Caches
<1>8. TypedRest'
  BY <1>1, <1>4, <1>2 DEF TypeOK, TypedRest
<1>9. QED
  BY <1>1, <1>6, <1>7, <1>8, TypedStep DEF TypeOK

LEMMA StoreLibTyped ==
    ASSUME Typed, NEW r \in Reqs, StoreLib(r)
    PROVE  Typed'
<1>1. /\ TypeOK /\ Staged(r) /\ Matched(r)
      /\ UpdatesLib(r) /\ stage[r] = "answered"
      /\ stage' = stage /\ response' = response /\ body' = body /\ fetch' = fetch
      /\ lib' = lib /\ cached' = cached /\ chain' = chain
      /\ queued' = queued /\ sent' = sent
      /\ jobs' = [jobs EXCEPT ![r] = @ \ {"lib"}]
  BY DEF StoreLib, Typed, Staged, statVars
<1>2. storedLib' \in Numbers
  BY <1>1, ReportedLib DEF StoreLib, TypeOK, Numbers
<1>3. Concerns(r) /\ jobs'[r] = jobs[r] \ {"lib"}
  BY <1>1 DEF Concerns, TypeOK
<1>4. Staged(r)' /\ Matched(r)'
  BY <1>1, <1>3 DEF Staged, Matched, Served, CallsOf, UpdatesLib, Caches
<1>5. TypedRest'
  BY <1>1, <1>2 DEF TypeOK, TypedRest
<1>6. QED
  BY <1>1, <1>3, <1>4, <1>5, TypedStep DEF TypeOK

\* Where a cached answer comes from.
LEMMA StoreAnswersFacts ==
    ASSUME Typed, NEW r \in Reqs, StoreAnswers(r)
    PROVE  /\ Served(r) /\ stage[r] = "answered"
           /\ cached' \in [Calls -> Numbers]
           /\ \A c \in Calls : cached'[c] # cached[c] =>
                \E i \in DOMAIN CallsOf(r) :
                    /\ CallsOf(r)[i] = c
                    /\ i \in DOMAIN response[r].answers
                    /\ cached'[c] = response[r].answers[i].at
<1>1. /\ Caches(r) /\ stage[r] = "answered" /\ TypeOK /\ Matched(r)
      /\ response[r] # None
  BY DEF StoreAnswers, Typed, Staged
<1>2. Served(r)
  BY <1>1 DEF Caches, Served
<1>3. response[r].answers \in Seq(Answer)
  BY <1>1 DEF TypeOK, Response
<1>4. CallsOf(r) \in Seq(Calls)
  BY <1>1, Known
<1>5. DOMAIN response[r].answers = DOMAIN CallsOf(r)
  BY <1>1, <1>2, <1>3, <1>4 DEF Matched
<1>6. PICK S \in SUBSET DOMAIN CallsOf(r) :
         LET Last(c) == {i \in S : /\ CallsOf(r)[i] = c
                                   /\ \A j \in S : CallsOf(r)[j] = c => j <= i}
         IN  cached' = [c \in Calls |->
                          IF Last(c) = {} THEN cached[c]
                          ELSE response[r].answers[CHOOSE i \in Last(c) : TRUE].at]
  BY DEF StoreAnswers
<1>7. \A c \in Calls :
         \/ cached'[c] = cached[c]
         \/ \E i \in S : CallsOf(r)[i] = c /\ cached'[c] = response[r].answers[i].at
  BY <1>6
<1>8. cached' \in [Calls -> Numbers]
  <2>1. \A c \in Calls : cached'[c] \in Numbers
    BY <1>1, <1>2, <1>5, <1>7 DEF Matched, TypeOK, Numbers
  <2>2. cached' = [c \in Calls |-> cached'[c]]
    BY <1>6
  <2>3. QED
    BY <2>1, <2>2
<1>9. QED
  BY <1>1, <1>2, <1>5, <1>7, <1>8

LEMMA StoreAnswersTyped ==
    ASSUME Typed, NEW r \in Reqs, StoreAnswers(r)
    PROVE  Typed'
<1>1. /\ TypeOK /\ Staged(r) /\ Matched(r) /\ stage[r] = "answered"
      /\ stage' = stage /\ response' = response /\ body' = body /\ fetch' = fetch
      /\ lib' = lib /\ storedLib' = storedLib /\ chain' = chain
      /\ queued' = queued /\ sent' = sent
      /\ jobs' = [jobs EXCEPT ![r] = @ \ {"cache"}]
  BY StoreAnswersFacts DEF StoreAnswers, Typed, statVars, libVars
<1>2. Concerns(r) /\ jobs'[r] = jobs[r] \ {"cache"}
  BY <1>1 DEF Concerns, TypeOK
<1>3. Staged(r)' /\ Matched(r)'
  BY <1>1, <1>2 DEF Staged, Matched, Served, CallsOf, UpdatesLib, Caches
<1>4. TypedRest'
  BY <1>1, StoreAnswersFacts DEF TypeOK, TypedRest
<1>5. QED
  BY <1>1, <1>2, <1>3, <1>4, TypedStep DEF TypeOK

LEMMA AdvanceTyped == Typed /\ Advance => Typed'
<1> SUFFICES ASSUME Typed, Advance  PROVE Typed'
  OBVIOUS
<1>2. /\ stage' = stage /\ response' = response /\ jobs' = jobs
      /\ body' = body /\ fetch' = fetch /\ lib' = lib /\ storedLib' = storedLib
      /\ cached' = cached /\ queued' = queued /\ sent' = sent /\ chain' = chain + 1
  BY DEF Advance, reqVars, libVars, statVars
<1>3. TypeOK'
  BY <1>2 DEF Typed, TypeOK
<1>4. \A q \in Reqs : Staged(q)' /\ Matched(q)'
  BY <1>2, Frame DEF Typed
<1>5. QED
  BY <1>3, <1>4 DEF Typed

LEMMA RestartTyped == Typed /\ Restart => Typed'
<1>1. SUFFICES ASSUME Typed, Restart  PROVE Typed'
  OBVIOUS
<1>2. /\ stage' = [r \in Reqs |-> IF stage[r] \in {"reading", "handling"}
                                    THEN "dropped" ELSE stage[r]]
      /\ fetch' = [r \in Reqs |-> Cancelled(fetch[r])]
      /\ jobs' = [r \in Reqs |-> {}]
      /\ lib' \in {StartLib} \cup ({storedLib} \ {None})
      /\ queued' = 0 /\ sent' = 0
      /\ response' = response /\ body' = body /\ storedLib' = storedLib
      /\ cached' = cached /\ chain' = chain
  BY <1>1 DEF Restart
<1>3. TypeOK /\ \A q \in Reqs : Staged(q) /\ Matched(q)
  BY <1>1 DEF Typed
<1>4. \A q \in Reqs :
         /\ fetch'[q] \in Seq(Fetch)
         /\ DOMAIN fetch'[q] = DOMAIN fetch[q]
         /\ fetch'[q] = <<>> <=> fetch[q] = <<>>
         /\ \A i \in DOMAIN fetch'[q] :
                fetch'[q][i].st = "ok" => fetch'[q][i].at \in Nat
  <2>1. TAKE q \in Reqs
  <2>2. fetch[q] \in Seq(Fetch) /\ fetch'[q] = Cancelled(fetch[q]) /\ Staged(q)
    BY <1>2, <1>3 DEF TypeOK
  <2>3. QED
    BY <2>2, CancelledFacts DEF Staged
<1>5. fetch' \in [Reqs -> Seq(Fetch)]
  BY <1>2, <1>4
<1>6. lib' \in Nat
  BY <1>2, <1>3, NumbersAssumption DEF TypeOK, Numbers
<1>7. stage' \in [Reqs -> Stages] /\ jobs' \in [Reqs -> SUBSET {"start", "lib", "cache", "skipped"}]
  BY <1>2, <1>3 DEF TypeOK, Stages
<1>8. TypeOK'
  BY <1>2, <1>3, <1>5, <1>6, <1>7 DEF TypeOK
<1>9. \A q \in Reqs : Staged(q)' /\ Matched(q)'
  <2>1. TAKE q \in Reqs
  <2>2. /\ stage'[q] = IF stage[q] \in {"reading", "handling"} THEN "dropped" ELSE stage[q]
        /\ jobs'[q] = {} /\ response'[q] = response[q] /\ body'[q] = body[q]
    BY <1>2
  <2>3. QED
    BY <1>3, <1>4, <2>2 DEF Staged, Matched, Served, CallsOf
<1>10. QED
  BY <1>8, <1>9 DEF Typed

LEMMA TypedNext == Typed /\ [Next]_vars => Typed'
<1> SUFFICES ASSUME Typed, [Next]_vars  PROVE Typed'
  OBVIOUS
<1>1. ASSUME NEW r \in Reqs, NEW b \in Bodies, Arrive(r, b)  PROVE Typed'
  BY <1>1, ArriveTyped
<1>2. ASSUME NEW r \in Reqs,
             ReadEnds(r) \/ Handler(r) \/ Background(r) \/ Stores(r)
      PROVE  Typed'
  BY <1>2, HitTyped, MissTyped, FinishTyped, TimeoutTyped, ServerTimeoutTyped,
     BackgroundTyped, StoreLibTyped, StoreAnswersTyped
     DEF ReadEnds, Handler, Stores
<1>3. ASSUME NEW r \in Reqs, NEW i \in DOMAIN fetch[r],
             Acquire(r, i) \/ FetchReturns(r, i) \/ FetchFails(r, i)
      PROVE  Typed'
  BY <1>3, AcquireTyped, ReturnsTyped, FailsTyped
<1>4. CASE UNCHANGED vars
  <2>1. UNCHANGED <<stage, response, jobs, body, fetch, libVars, cached, statVars, chain>>
    BY <1>4 DEF vars, reqVars
  <2>2. TypeOK'
    BY <2>1 DEF Typed, TypeOK, libVars, statVars
  <2>3. QED
    BY <2>1, <2>2, Frame DEF Typed
<1>5. QED
  BY <1>1, <1>2, <1>3, <1>4, AdvanceTyped, RestartTyped DEF Next

\* Every variable keeps its type, whatever times out, fails or restarts.
THEOREM TypeCorrect == Spec => []TypeOK
<1>1. Spec => []Typed
  BY TypedInit, TypedNext, PTL DEF Spec
<1>2. Typed => TypeOK
  BY DEF Typed
<1>3. QED
  BY <1>1, <1>2, PTL

\* What a response carries answers the calls of its own request.
THEOREM AnswersAreOwn == Spec => []OwnAnswers
<1>1. Spec => []Typed
  BY TypedInit, TypedNext, PTL DEF Spec
<1>2. Typed => OwnAnswers
  BY NoneAssumption DEF Typed, Matched, OwnAnswers
<1>3. QED
  BY <1>1, <1>2, PTL

-----------------------------------------------------------------------------
\* Limits, orphans and the last irreversible block.  The limits need what the
\* caches contain; the block number needs what fetches, responses and caches
\* report of the chain.

\* What holds of a request beyond its type.
Safe(r) ==
    /\ stage[r] # "handling" =>
           \A i \in DOMAIN fetch[r] : Running(r, i) =>
               \E j \in DOMAIN fetch[r] : fetch[r][j].st = "failed"
    /\ stage[r] = "reading" \/ fetch[r] # <<>> \/ Served(r) =>
           /\ body[r].kind = "batch" => Len(CallsOf(r)) <= BatchSizeLimit
           /\ ~BroadcastRefused(CallsOf(r))
    /\ fetch[r] # <<>> \/ Served(r) => ~HistoryRefused(CallsOf(r))
    /\ \A i \in DOMAIN fetch[r] :
           CallsOf(r)[i] \in DgpCalls /\ fetch[r][i].st = "ok" => fetch[r][i].at <= chain
    /\ Served(r) => \A i \in DOMAIN response[r].answers :
           CallsOf(r)[i] \in DgpCalls => response[r].answers[i].at <= chain

\* What holds of the caches and of the block number.
Bounded ==
    /\ \A c \in BadBroadcasts \cup LongHistories : cached[c] = None
    /\ \A c \in Calls \cap DgpCalls : cached[c] # None => cached[c] <= chain
    /\ LibNeverAhead

IInv == Typed /\ Bounded /\ \A r \in Reqs : Safe(r)

LEMMA IInvInit == Init => IInv
<1>1. Init => Bounded /\ \A r \in Reqs : Safe(r)
  BY CallsAssumption, NumbersAssumption, NoneAssumption
     DEF Init, Bounded, LibNeverAhead, Safe, Served
<1>2. QED
  BY <1>1, TypedInit DEF IInv

LEMMA SafeFrame ==
    ASSUME IInv, NEW q \in Reqs,
           stage'[q] = stage[q], body'[q] = body[q], response'[q] = response[q],
           fetch'[q] = fetch[q], chain' \in Nat, chain' >= chain
    PROVE  Safe(q)'
<1>1. /\ Safe(q) /\ Staged(q) /\ Matched(q) /\ chain \in Nat
  BY DEF IInv, Typed, TypeOK
<1>2. ASSUME NEW i \in DOMAIN fetch'[q], CallsOf(q)[i] \in DgpCalls, fetch'[q][i].st = "ok"
      PROVE  fetch'[q][i].at <= chain'
  <2>1. fetch[q][i].at \in Nat /\ fetch[q][i].at <= chain
    BY <1>1, <1>2 DEF Safe, Staged
  <2>2. QED
    BY <1>1, <2>1
<1>3. ASSUME Served(q)', NEW i \in DOMAIN response'[q].answers, CallsOf(q)[i] \in DgpCalls
      PROVE  response'[q].answers[i].at <= chain'
  <2>1. response[q].answers[i].at \in Nat /\ response[q].answers[i].at <= chain
    BY <1>1, <1>3 DEF Safe, Matched, Served
  <2>2. QED
    BY <1>1, <2>1
<1>4. QED
  BY <1>1, <1>2, <1>3 DEF Safe, Running, Served, CallsOf

\* A step of one request keeps the invariant if that request does.
LEMMA IInvStep ==
    ASSUME IInv, NEW r \in Reqs, Typed', Safe(r)', Bounded', chain' = chain,
           \A q \in Reqs : q # r => /\ stage'[q] = stage[q] /\ body'[q] = body[q]
                                    /\ response'[q] = response[q]
                                    /\ fetch'[q] = fetch[q]
    PROVE  IInv'
<1>1. chain' \in Nat /\ chain' >= chain
  BY DEF IInv, Typed, TypeOK
<1>2. ASSUME NEW q \in Reqs  PROVE Safe(q)'
  <2>1. CASE q = r
    BY <2>1
  <2>2. CASE q # r
    BY <1>1, <2>2, SafeFrame
  <2>3. QED
    BY <2>1, <2>2
<1>3. QED
  BY <1>2 DEF IInv

\* The caches and the number are left as they are.
LEMMA BoundedKept ==
    ASSUME IInv, UNCHANGED <<libVars, cached, chain>>
    PROVE  Bounded'
BY DEF IInv, Bounded, LibNeverAhead, libVars

\* An error response makes no promise.
LEMMA RefusedSafe ==
    ASSUME IInv, NEW r \in Reqs, stage[r] = "reading", fetch'[r] = <<>>,
           stage'[r] = "answered", response'[r].error # None
    PROVE  Safe(r)'
BY DEF Safe, Served

LEMMA ArriveIInv ==
    ASSUME IInv, NEW r \in Reqs, NEW b \in Bodies, Arrive(r, b)
    PROVE  IInv'
<1>1. /\ Typed /\ Typed'
      /\ stage[r] = "new" /\ response[r] = None /\ fetch[r] = <<>>
  BY ArriveTyped DEF IInv, Typed, Staged, Arrive
<1>2. /\ body' = [body EXCEPT ![r] = b] /\ body'[r] = b
      /\ \A q \in Reqs : q # r => body'[q] = body[q]
      /\ UNCHANGED <<fetch, libVars, cached, chain>>
  BY <1>1 DEF Arrive, Typed, TypeOK
<1>3. Concerns(r) /\ Safe(r)'
  <2>1. CASE Refusal(b) # None /\ Refuse(r, Refusal(b))
    <3>1. Refusal(b) \in Errors
      BY <2>1, ErrorFacts
    <3>2. Concerns(r) /\ stage'[r] = "answered" /\ response'[r].error # None
      BY <1>1, <2>1, <3>1, RefuseFacts
    <3>3. QED
      BY <1>1, <1>2, <3>2 DEF Safe, Served
  <2>2. CASE Refusal(b) = None /\ b.calls = <<>> /\ Healthcheck(r)
    <3>1. Respond(r, None, <<>>, FALSE) /\ FALSE \in BOOLEAN /\ TypeOK
      BY <1>1, <2>2 DEF Healthcheck, Typed
    <3>2. <<>> \in Seq(Answer)
      OBVIOUS
    <3>3. /\ Concerns(r) /\ stage'[r] = "answered"
          /\ response'[r] = [error |-> None, answers |-> <<>>, hit |-> FALSE]
      BY <3>1, <3>2, RespondFacts
    <3>4. response'[r].answers = <<>>
      BY <3>3
    <3>5. /\ CallsOf(r)' = <<>> /\ ~BroadcastRefused(<<>>) /\ ~HistoryRefused(<<>>)
          /\ Len(<<>>) <= BatchSizeLimit
      BY <1>2, <2>2, NumbersAssumption DEF CallsOf, BroadcastRefused, HistoryRefused
    <3>6. Safe(r)'
      BY <1>1, <1>2, <3>3, <3>4, <3>5 DEF Safe, BroadcastRefused, HistoryRefused
    <3>7. QED
      BY <3>3, <3>6
  <2>3. CASE /\ Refusal(b) = None
             /\ stage' = [stage EXCEPT ![r] = "reading"]
             /\ UNCHANGED <<response, jobs>>
    <3>1. /\ b.kind = "batch" => Len(b.calls) <= BatchSizeLimit
          /\ ~BroadcastRefused(b.calls)
      <4>1. /\ ~(b.kind = "batch" /\ Len(b.calls) > BatchSizeLimit)
            /\ ~BroadcastRefused(b.calls)
        BY <2>3, NoneAssumption DEF Refusal, Errors, LimitErrors
      <4>2. Len(b.calls) \in Nat
        BY BodyFacts
      <4>3. QED
        BY <4>1, <4>2, NumbersAssumption
    <3>2. Concerns(r) /\ stage'[r] = "reading"
      BY <1>1, <2>3 DEF Typed, TypeOK, Stages, Concerns
    <3>3. Safe(r)'
      BY <1>1, <1>2, <2>3, <3>1, <3>2
         DEF Safe, Served, CallsOf, BroadcastRefused
    <3>4. QED
      BY <3>2, <3>3
  <2>4. QED
    BY <2>1, <2>2, <2>3 DEF Arrive
<1>4. QED
  BY <1>1, <1>2, <1>3, BoundedKept, IInvStep DEF Concerns

LEMMA HitIInv ==
    ASSUME IInv, NEW r \in Reqs, Hit(r)
    PROVE  IInv'
<1> DEFINE as == [i \in DOMAIN CallsOf(r) |->
                    [call |-> CallsOf(r)[i], at |-> cached[CallsOf(r)[i]]]]
<1>1. /\ Typed /\ Typed' /\ Safe(r) /\ Bounded
      /\ stage[r] = "reading" /\ fetch[r] = <<>>
      /\ UNCHANGED <<body, fetch, libVars, cached, statVars, chain>>
  BY HitTyped DEF Hit, IInv, Typed, Staged
<1>2. /\ stage' = [stage EXCEPT ![r] = "answered"]
      /\ response' = [response EXCEPT ![r] = [error |-> None, answers |-> as, hit |-> TRUE]]
      /\ \A i \in DOMAIN CallsOf(r) : cached[CallsOf(r)[i]] # None
  BY DEF Hit, Respond
<1>3. response'[r].answers = as
  BY <1>1, <1>2 DEF Typed, TypeOK
<1>4. /\ stage'[r] = "answered"
      /\ \A q \in Reqs : q # r => stage'[q] = stage[q] /\ response'[q] = response[q]
  BY <1>1, <1>2 DEF Typed, TypeOK
<1>5. \A i \in DOMAIN CallsOf(r) : CallsOf(r)[i] \in Calls
  BY <1>1, Known
<1>6. ~HistoryRefused(CallsOf(r))
  BY <1>1, <1>2, <1>5 DEF HistoryRefused, Bounded
<1>7. \A i \in DOMAIN as : CallsOf(r)[i] \in DgpCalls => as[i].at <= chain
  BY <1>1, <1>2, <1>5 DEF Bounded
<1> HIDE DEF as
<1>8. Safe(r)'
  <2>1. /\ body'[r].kind = "batch" => Len(CallsOf(r)') <= BatchSizeLimit
        /\ ~BroadcastRefused(CallsOf(r))' /\ ~HistoryRefused(CallsOf(r))'
    BY <1>1, <1>6 DEF Safe, CallsOf, BroadcastRefused, HistoryRefused
  <2>2. \A i \in DOMAIN response'[r].answers :
           CallsOf(r)'[i] \in DgpCalls => response'[r].answers[i].at <= chain'
    BY <1>1, <1>3, <1>7 DEF CallsOf
  <2>3. fetch'[r] = <<>> /\ DOMAIN fetch'[r] = {}
    BY <1>1
  <2>4. QED
    BY <2>1, <2>2, <2>3 DEF Safe
<1>9. QED
  BY <1>1, <1>4, <1>8, BoundedKept, IInvStep

LEMMA MissIInv ==
    ASSUME IInv, NEW r \in Reqs, Miss(r)
    PROVE  IInv'
<1>1. /\ Typed /\ Typed' /\ Safe(r) /\ Bounded
      /\ stage[r] = "reading" /\ fetch[r] = <<>> /\ response[r] = None
      /\ UNCHANGED <<body, libVars, cached, statVars, chain>>
  BY MissTyped DEF Miss, IInv, Typed, Staged
<1>2. CASE Refuse(r, HandlerRefusal(body[r])) /\ UNCHANGED fetch
           /\ HandlerRefusal(body[r]) # None
  <2>1. HandlerRefusal(body[r]) \in Errors
    BY <1>2, ErrorFacts
  <2>2. Concerns(r) /\ stage'[r] = "answered" /\ response'[r].error # None
    BY <1>1, <1>2, <2>1, RefuseFacts
  <2>3. Safe(r)'
    BY <1>1, <1>2, <2>2, RefusedSafe
  <2>4. QED
    BY <1>1, <1>2, <2>2, <2>3, BoundedKept, IInvStep DEF Concerns
<1>3. CASE Dispatch(r) /\ HandlerRefusal(body[r]) = None
  <2> DEFINE fs == [i \in DOMAIN CallsOf(r) |-> NewFetch(CallsOf(r)[i])]
  <2>1. \A i \in DOMAIN fs : fs[i].st # "ok"
    BY DEF NewFetch
  <2>2. fetch' = [fetch EXCEPT ![r] = fs]
    BY <1>3 DEF Dispatch
  <2> HIDE DEF fs
  <2>3. /\ fetch'[r] = fs /\ stage'[r] = "handling" /\ response' = response
        /\ \A q \in Reqs : q # r => fetch'[q] = fetch[q] /\ stage'[q] = stage[q]
    BY <1>1, <1>3, <2>2 DEF Dispatch, Typed, TypeOK
  <2>4. ~HistoryRefused(CallsOf(r))
    BY <1>3, NoneAssumption DEF HandlerRefusal, Errors, LimitErrors, CallsOf
  <2>5. Safe(r)'
    BY <1>1, <2>1, <2>3, <2>4
       DEF Safe, Served, CallsOf, BroadcastRefused, HistoryRefused
  <2>6. QED
    BY <1>1, <2>3, <2>5, BoundedKept, IInvStep
<1>4. QED
  BY <1>2, <1>3 DEF Miss

\* A fetch goes on: as long as it is not of an answered request, or was behind
\* a failure already, nothing runs that nobody waits for.
LEMMA FetchSafe ==
    ASSUME IInv, NEW r \in Reqs, NEW i \in DOMAIN fetch[r],
           NEW st \in FetchState, NEW at \in Numbers, Becomes(r, i, st, at),
           UNCHANGED <<body, chain>>, Running(r, i),
           st = "failed" \/ stage'[r] = stage[r],
           response'[r] = response[r] \/ ~Served(r)',
           st = "ok" => at \in Nat /\ (CallsOf(r)[i] \in DgpCalls => at <= chain)
    PROVE  Safe(r)'
<1>1. Typed /\ TypeOK /\ Safe(r)
  BY DEF IInv, Typed
<1>2. /\ DOMAIN fetch'[r] = DOMAIN fetch[r] /\ fetch[r] # <<>>
      /\ fetch'[r][i].st = st /\ fetch'[r][i].at = at
      /\ \A j \in DOMAIN fetch[r] : j # i => fetch'[r][j] = fetch[r][j]
  BY <1>1, BecomesFacts
<1>3. ASSUME stage'[r] # "handling", NEW j \in DOMAIN fetch'[r], Running(r, j)'
      PROVE  \E k \in DOMAIN fetch'[r] : fetch'[r][k].st = "failed"
  <2>1. CASE st = "failed"
    BY <1>2, <2>1
  <2>2. CASE stage'[r] = stage[r]
    <3>1. PICK k \in DOMAIN fetch[r] : fetch[r][k].st = "failed"
      BY <1>1, <1>3, <2>2 DEF Safe
    <3>2. k # i
      BY <3>1 DEF Running
    <3>3. QED
      BY <1>2, <3>1, <3>2
  <2>3. QED
    BY <2>1, <2>2
<1>4. /\ body'[r].kind = "batch" => Len(CallsOf(r)') <= BatchSizeLimit
      /\ ~BroadcastRefused(CallsOf(r))' /\ ~HistoryRefused(CallsOf(r))'
  BY <1>1, <1>2 DEF Safe, CallsOf, BroadcastRefused, HistoryRefused
<1>5. \A j \in DOMAIN fetch'[r] :
         CallsOf(r)'[j] \in DgpCalls /\ fetch'[r][j].st = "ok" => fetch'[r][j].at <= chain'
  BY <1>1, <1>2 DEF Safe, CallsOf
<1>6. Served(r)' => \A j \in DOMAIN response'[r].answers :
         CallsOf(r)'[j] \in DgpCalls => response'[r].answers[j].at <= chain'
  BY <1>1 DEF Safe, CallsOf, Served
<1>7. QED
  BY <1>3, <1>4, <1>5, <1>6 DEF Safe

LEMMA FetchesIInv ==
    ASSUME IInv, NEW r \in Reqs, NEW i \in DOMAIN fetch[r],
           Acquire(r, i) \/ FetchReturns(r, i) \/ FetchFails(r, i)
    PROVE  IInv'
<1>1. Typed /\ TypeOK
  BY DEF IInv, Typed
<1>2. CASE Acquire(r, i)
  <2>1. /\ Becomes(r, i, "asked", None) /\ "asked" \in FetchState /\ None \in Numbers
        /\ UNCHANGED <<stage, response, body, libVars, cached, chain>> /\ Running(r, i)
    BY <1>2 DEF Acquire, FetchState, Numbers, reqVars, Running
  <2>2. Safe(r)'
    BY <2>1, FetchSafe
  <2>3. \A q \in Reqs : q # r => fetch'[q] = fetch[q]
    BY <1>1, <2>1, BecomesFacts
  <2>4. QED
    BY <1>1, <1>2, <2>1, <2>2, <2>3, AcquireTyped, BoundedKept, IInvStep
<1>3. CASE FetchReturns(r, i)
  <2>1. /\ Becomes(r, i, "ok", Reported(CallsOf(r)[i])) /\ "ok" \in FetchState
        /\ UNCHANGED <<stage, response, body, libVars, cached, chain>> /\ Running(r, i)
    BY <1>3 DEF FetchReturns, FetchState, Numbers, reqVars, Running
  <2>2. PICK n : n = Reported(CallsOf(r)[i])
    OBVIOUS
  <2>3. n \in Nat /\ n \in Numbers /\ (CallsOf(r)[i] \in DgpCalls => n <= chain)
    BY <1>1, <2>2 DEF Reported, TypeOK, Numbers
  <2>4. Becomes(r, i, "ok", n)
    BY <2>1, <2>2
  <2>5. Safe(r)'
    BY <2>1, <2>3, <2>4, FetchSafe
  <2>6. \A q \in Reqs : q # r => fetch'[q] = fetch[q]
    BY <1>1, <2>1, <2>3, <2>4, BecomesFacts
  <2>7. QED
    BY <1>1, <1>3, <2>1, <2>5, <2>6, ReturnsTyped, BoundedKept, IInvStep
<1>4. CASE FetchFails(r, i)
  <2>1. /\ Becomes(r, i, "failed", None) /\ "failed" \in FetchState /\ None \in Numbers
        /\ UNCHANGED <<body, libVars, cached, chain>> /\ Running(r, i)
    BY <1>4 DEF FetchFails, FetchState, Numbers
  <2>2. /\ response'[r] = response[r] \/ ~Served(r)'
        /\ \A q \in Reqs : q # r => stage'[q] = stage[q] /\ response'[q] = response[q]
    <3>1. CASE \E e \in FetchErrors : Refuse(r, HandleError(e))
      <4>1. PICK e \in FetchErrors : Refuse(r, HandleError(e))
        BY <3>1
      <4>2. Concerns(r) /\ response'[r].error # None
        BY <1>1, <4>1, ErrorFacts, RefuseFacts
      <4>3. QED
        BY <4>2 DEF Served, Concerns
    <3>2. CASE UNCHANGED reqVars
      BY <3>2 DEF reqVars
    <3>3. QED
      BY <1>4, <3>1, <3>2 DEF FetchFails
  <2>3. Safe(r)'
    BY <2>1, <2>2, FetchSafe
  <2>4. \A q \in Reqs : q # r => fetch'[q] = fetch[q]
    BY <1>1, <2>1, BecomesFacts
  <2>5. QED
    BY <1>1, <1>4, <2>1, <2>2, <2>3, <2>4, FailsTyped, BoundedKept, IInvStep
<1>5. QED
  BY <1>2, <1>3, <1>4

LEMMA FinishIInv ==
    ASSUME IInv, NEW r \in Reqs, Finish(r)
    PROVE  IInv'
<1> DEFINE as == [i \in DOMAIN fetch[r] |-> [call |-> CallsOf(r)[i], at |-> fetch[r][i].at]]
<1>1. /\ Typed /\ Typed' /\ Safe(r)
      /\ UNCHANGED <<body, fetch, libVars, cached, chain>>
      /\ \A i \in DOMAIN fetch[r] : fetch[r][i].st = "ok"
      /\ fetch[r] # <<>>
  BY FinishTyped DEF Finish, IInv, Typed, Staged, FetchesDone
<1>2. /\ stage' = [stage EXCEPT ![r] = "answered"]
      /\ response' = [response EXCEPT ![r] = [error |-> None, answers |-> as, hit |-> FALSE]]
  BY DEF Finish, Respond
<1>3. response'[r].answers = as
  BY <1>1, <1>2 DEF Typed, TypeOK
<1>4. \A q \in Reqs : q # r => stage'[q] = stage[q] /\ response'[q] = response[q]
  BY <1>1, <1>2 DEF Typed, TypeOK
<1>5. \A i \in DOMAIN as : CallsOf(r)[i] \in DgpCalls => as[i].at <= chain
  BY <1>1 DEF Safe
<1> HIDE DEF as
<1>6. Safe(r)'
  <2>1. /\ body'[r].kind = "batch" => Len(CallsOf(r)') <= BatchSizeLimit
        /\ ~BroadcastRefused(CallsOf(r))' /\ ~HistoryRefused(CallsOf(r))'
    BY <1>1 DEF Safe, CallsOf, BroadcastRefused, HistoryRefused
  <2>2. \A i \in DOMAIN response'[r].answers :
           CallsOf(r)'[i] \in DgpCalls => response'[r].answers[i].at <= chain'
    BY <1>1, <1>3, <1>5 DEF CallsOf
  <2>3. \A i \in DOMAIN fetch'[r] :
           ~Running(r, i)' /\ (CallsOf(r)'[i] \in DgpCalls => fetch'[r][i].at <= chain')
    BY <1>1 DEF Safe, Running, CallsOf
  <2>4. QED
    BY <2>1, <2>2, <2>3 DEF Safe
<1>7. QED
  BY <1>1, <1>4, <1>6, BoundedKept, IInvStep

\* A timeout leaves nothing running.
LEMMA TimeoutsIInv ==
    ASSUME IInv, NEW r \in Reqs, Timeout(r) \/ ServerTimeout(r)
    PROVE  IInv'
<1>1. /\ Typed /\ Typed' /\ Safe(r) /\ fetch[r] # <<>>
      /\ UNCHANGED <<body, libVars, cached, chain>>
      /\ fetch' = [fetch EXCEPT ![r] = Cancelled(@)]
  BY TimeoutTyped, ServerTimeoutTyped DEF Timeout, ServerTimeout, IInv, Typed, Staged
<1>2. Concerns(r) /\ response'[r].error # None
  <2>1. CASE Timeout(r)
    BY <1>1, <2>1, ErrorFacts, RefuseFacts DEF Timeout
  <2>2. CASE ServerTimeout(r)
    BY <1>1, <2>2, ServerTimeoutFacts
  <2>3. QED
    BY <2>1, <2>2
<1>3. /\ DOMAIN fetch'[r] = DOMAIN fetch[r]
      /\ \A i \in DOMAIN fetch'[r] :
            /\ ~Running(r, i)'
            /\ fetch'[r][i].st = "ok" =>
                   fetch[r][i].st = "ok" /\ fetch'[r][i].at = fetch[r][i].at
  <2>1. fetch[r] \in Seq(Fetch)
    BY <1>1 DEF Typed, TypeOK
  <2>2. fetch'[r] = Cancelled(fetch[r])
    BY <1>1, CancelFacts
  <2>3. QED
    BY <2>1, <2>2, CancelledFacts DEF Running
<1>4. /\ body'[r].kind = "batch" => Len(CallsOf(r)') <= BatchSizeLimit
      /\ ~BroadcastRefused(CallsOf(r))' /\ ~HistoryRefused(CallsOf(r))'
  BY <1>1 DEF Safe, CallsOf, BroadcastRefused, HistoryRefused
<1>5. \A i \in DOMAIN fetch'[r] :
         CallsOf(r)'[i] \in DgpCalls /\ fetch'[r][i].st = "ok" => fetch'[r][i].at <= chain'
  BY <1>1, <1>3 DEF Safe, CallsOf
<1>6. Safe(r)'
  BY <1>2, <1>3, <1>4, <1>5 DEF Safe, Served
<1>7. \A q \in Reqs : q # r => fetch'[q] = fetch[q]
  BY <1>1, CancelFacts
<1>8. QED
  BY <1>1, <1>2, <1>6, <1>7, BoundedKept, IInvStep DEF Concerns

\* The background tasks touch the caches, the number and statsd only.
LEMMA TasksIInv ==
    ASSUME IInv, NEW r \in Reqs, Typed', Bounded',
           UNCHANGED <<stage, response, body, fetch, chain>>
    PROVE  IInv'
<1>1. chain' \in Nat /\ chain' >= chain
  BY DEF IInv, Typed, TypeOK
<1>2. \A q \in Reqs : Safe(q)'
  BY <1>1, SafeFrame
<1>3. QED
  BY <1>2 DEF IInv

\* The number of a response that updates it is not ahead of the chain.
LEMMA ReportedBelow ==
    ASSUME IInv, NEW r \in Reqs, UpdatesLib(r), stage[r] = "answered"
    PROVE  response[r].answers[1].at <= chain
<1>1. /\ CallsOf(r)[1] \in DgpCalls /\ 1 \in DOMAIN response[r].answers
  BY ReportedLib DEF IInv
<1>2. Served(r) /\ Safe(r)
  BY DEF IInv, Typed, Staged, Served, UpdatesLib
<1>3. QED
  BY <1>1, <1>2 DEF Safe

LEMMA BackgroundIInv ==
    ASSUME IInv, NEW r \in Reqs, Background(r)
    PROVE  IInv'
<1>1. /\ Typed' /\ Bounded /\ stage[r] = "answered"
      /\ UNCHANGED <<stage, response, body, fetch, storedLib, cached, chain>>
  BY BackgroundTyped DEF Background, IInv, Typed, Staged
<1>2. PICK update \in {FALSE, UpdatesLib(r)} :
          lib' = (IF update THEN response[r].answers[1].at ELSE lib)
  BY DEF Background
<1>3. lib' <= chain
  <2>1. CASE update
    BY <1>1, <1>2, <2>1, ReportedBelow
  <2>2. CASE ~update
    BY <1>1, <1>2, <2>2 DEF Bounded, LibNeverAhead
  <2>3. QED
    BY <2>1, <2>2
<1>4. Bounded'
  BY <1>1, <1>3 DEF Bounded, LibNeverAhead
<1>5. QED
  BY <1>1, <1>4, TasksIInv

LEMMA StoreLibIInv ==
    ASSUME IInv, NEW r \in Reqs, StoreLib(r)
    PROVE  IInv'
<1>1. /\ Typed' /\ Bounded /\ stage[r] = "answered" /\ UpdatesLib(r)
      /\ UNCHANGED <<stage, response, body, fetch, lib, cached, chain>>
  BY StoreLibTyped DEF StoreLib, IInv, Typed, Staged
<1>2. storedLib' = storedLib \/ storedLib' <= chain
  BY <1>1, ReportedBelow DEF StoreLib
<1>3. Bounded'
  BY <1>1, <1>2 DEF Bounded, LibNeverAhead
<1>4. QED
  BY <1>1, <1>3, TasksIInv

LEMMA StoreAnswersIInv ==
    ASSUME IInv, NEW r \in Reqs, StoreAnswers(r)
    PROVE  IInv'
<1>1. /\ Typed /\ Typed' /\ Bounded /\ Safe(r)
      /\ UNCHANGED <<stage, response, body, fetch, lib, storedLib, chain>>
  BY StoreAnswersTyped DEF StoreAnswers, IInv, libVars
<1>2. /\ Served(r)
      /\ \A c \in Calls : cached'[c] # cached[c] =>
           \E i \in DOMAIN CallsOf(r) :
               /\ CallsOf(r)[i] = c
               /\ i \in DOMAIN response[r].answers
               /\ cached'[c] = response[r].answers[i].at
  BY <1>1, StoreAnswersFacts
<1>3. ASSUME NEW c \in BadBroadcasts \cup LongHistories  PROVE cached'[c] = None
  <2>1. c \in Calls /\ cached[c] = None
    BY <1>1, CallsAssumption DEF Bounded
  <2>2. \A i \in DOMAIN CallsOf(r) : CallsOf(r)[i] # c
    BY <1>1, <1>2 DEF Safe, BroadcastRefused, HistoryRefused
  <2>3. QED
    BY <1>2, <2>1, <2>2
<1>4. ASSUME NEW c \in Calls \cap DgpCalls, cached'[c] # None
      PROVE  cached'[c] <= chain
  BY <1>1, <1>2, <1>4 DEF Bounded, Safe
<1>5. Bounded'
  BY <1>1, <1>3, <1>4 DEF Bounded, LibNeverAhead
<1>6. QED
  BY <1>1, <1>5, TasksIInv

LEMMA AdvanceIInv == IInv /\ Advance => IInv'
<1> SUFFICES ASSUME IInv, Advance  PROVE IInv'
  OBVIOUS
<1>1. /\ Typed /\ Typed' /\ Bounded
      /\ UNCHANGED <<stage, response, jobs, body, fetch, lib, storedLib, cached>>
      /\ chain' = chain + 1
  BY AdvanceTyped DEF Advance, IInv, reqVars, libVars
<1>2. /\ chain \in Nat /\ lib \in Nat /\ storedLib \in Numbers
      /\ \A c \in Calls : cached[c] \in Numbers
  BY <1>1 DEF Typed, TypeOK
<1>3. chain' \in Nat /\ chain' >= chain
  BY <1>1, <1>2
<1>4. \A q \in Reqs : Safe(q)'
  BY <1>1, <1>3, SafeFrame
<1>5. \A c \in Calls \cap DgpCalls : cached[c] # None => cached[c] <= chain + 1
  BY <1>1, <1>2 DEF Bounded, Numbers
<1>6. lib <= chain + 1 /\ (storedLib # None => storedLib <= chain + 1)
  BY <1>1, <1>2 DEF Bounded, LibNeverAhead, Numbers
<1>7. Bounded'
  BY <1>1, <1>5, <1>6 DEF Bounded, LibNeverAhead
<1>8. QED
  BY <1>1, <1>4, <1>7 DEF IInv

LEMMA RestartIInv == StartLib <= chain /\ IInv /\ Restart => IInv'
<1> SUFFICES ASSUME StartLib <= chain, IInv, Restart  PROVE IInv'
  OBVIOUS
<1>1. /\ Typed /\ TypeOK /\ Typed' /\ Bounded
      /\ stage' = [r \in Reqs |-> IF stage[r] \in {"reading", "handling"}
                                    THEN "dropped" ELSE stage[r]]
      /\ fetch' = [r \in Reqs |-> Cancelled(fetch[r])]
      /\ lib' \in {StartLib} \cup ({storedLib} \ {None})
      /\ UNCHANGED <<response, body, storedLib, cached, chain>>
  BY RestartTyped DEF Restart, IInv, Typed
<1>2. ASSUME NEW q \in Reqs  PROVE Safe(q)'
  <2>1. Safe(q) /\ fetch[q] \in Seq(Fetch) /\ fetch'[q] = Cancelled(fetch[q])
        /\ stage'[q] # "reading"
    BY <1>1 DEF IInv, TypeOK
  <2>2. /\ DOMAIN fetch'[q] = DOMAIN fetch[q]
        /\ fetch'[q] = <<>> <=> fetch[q] = <<>>
        /\ \A i \in DOMAIN fetch'[q] :
              /\ ~Running(q, i)'
              /\ fetch'[q][i].st = "ok" =>
                     fetch[q][i].st = "ok" /\ fetch'[q][i].at = fetch[q][i].at
    BY <2>1, CancelledFacts DEF Running
  <2>3. fetch'[q] # <<>> \/ Served(q)' =>
          /\ body'[q].kind = "batch" => Len(CallsOf(q)') <= BatchSizeLimit
          /\ ~BroadcastRefused(CallsOf(q))' /\ ~HistoryRefused(CallsOf(q))'
    BY <1>1, <2>1, <2>2 DEF Safe, Served, CallsOf, BroadcastRefused, HistoryRefused
  <2>4. \A i \in DOMAIN fetch'[q] :
           CallsOf(q)'[i] \in DgpCalls /\ fetch'[q][i].st = "ok" => fetch'[q][i].at <= chain'
    BY <1>1, <2>1, <2>2 DEF Safe, CallsOf
  <2>5. Served(q)' => \A i \in DOMAIN response'[q].answers :
           CallsOf(q)'[i] \in DgpCalls => response'[q].answers[i].at <= chain'
    BY <1>1, <2>1 DEF Safe, CallsOf, Served
  <2>6. QED
    BY <2>1, <2>2, <2>3, <2>4, <2>5 DEF Safe
<1>3. Bounded'
  BY <1>1 DEF Bounded, LibNeverAhead
<1>4. QED
  BY <1>1, <1>2, <1>3 DEF IInv

\* The chain only grows, so the number assumed at start never gets ahead.
LEMMA ChainGrows ==
    ASSUME TypeOK, StartLib <= chain, [Next]_vars
    PROVE  StartLib <= chain'
<1>1. chain' = chain \/ chain' = chain + 1
  BY DEF Next, vars, Advance, Restart, Arrive, ReadEnds, Hit, Miss, Handler,
         Finish, Timeout, ServerTimeout, Background, Stores, StoreLib,
         StoreAnswers, Acquire, FetchReturns, FetchFails
<1>2. chain \in Nat /\ StartLib \in Nat
  BY NumbersAssumption DEF TypeOK
<1>3. QED
  BY <1>1, <1>2

LEMMA IInvNext ==
    ASSUME IInv, StartLib <= chain, [Next]_vars
    PROVE  IInv'
<1>1. ASSUME NEW r \in Reqs, NEW b \in Bodies, Arrive(r, b)  PROVE IInv'
  BY <1>1, ArriveIInv
<1>2. ASSUME NEW r \in Reqs,
             ReadEnds(r) \/ Handler(r) \/ Background(r) \/ Stores(r)
      PROVE  IInv'
  BY <1>2, HitIInv, MissIInv, FinishIInv, TimeoutsIInv, BackgroundIInv,
     StoreLibIInv, StoreAnswersIInv
     DEF ReadEnds, Handler, Stores
<1>3. ASSUME NEW r \in Reqs, NEW i \in DOMAIN fetch[r],
             Acquire(r, i) \/ FetchReturns(r, i) \/ FetchFails(r, i)
      PROVE  IInv'
  BY <1>3, FetchesIInv
<1>4. CASE UNCHANGED vars
  <2>1. UNCHANGED <<stage, response, body, fetch, libVars, cached, chain>>
    BY <1>4 DEF vars, reqVars
  <2>2. /\ Typed' /\ Bounded' /\ chain' \in Nat /\ chain' >= chain
    BY <1>4, <2>1, TypedNext, BoundedKept DEF IInv, Typed, TypeOK
  <2>3. \A q \in Reqs : Safe(q)'
    BY <2>1, <2>2, SafeFrame
  <2>4. QED
    BY <2>2, <2>3 DEF IInv
<1>5. QED
  BY <1>1, <1>2, <1>3, <1>4, AdvanceIInv, RestartIInv DEF Next

LEMMA IInvAlways == Spec => [](IInv /\ StartLib <= chain)
<1>1. Init => IInv /\ StartLib <= chain
  BY IInvInit, NumbersAssumption DEF Init
<1>2. IInv /\ StartLib <= chain /\ [Next]_vars => (IInv /\ StartLib <= chain)'
  BY IInvNext, ChainGrows DEF IInv, Typed
<1>3. QED
  BY <1>1, <1>2, PTL DEF Spec

\* No path past a limit: neither upstream, nor from the caches, nor into them.
THEOREM LimitsAlwaysHold == Spec => []LimitsHold
<1>1. IInv => LimitsHold
  BY DEF IInv, Safe, Bounded, LimitsHold
<1>2. QED
  BY <1>1, IInvAlways, PTL

\* Whatever still runs for an answered request runs behind a failed fetch.
THEOREM OrphansOnlyAfterFailure == Spec => []OrphansAfterFailure
<1>1. IInv => OrphansAfterFailure
  BY DEF IInv, Safe, OrphansAfterFailure
<1>2. QED
  BY <1>1, IInvAlways, PTL

\* The last irreversible block number is never ahead of the chain.
THEOREM LibIsNeverAhead == Spec => []LibNeverAhead
<1>1. IInv => LibNeverAhead
  BY DEF IInv, Bounded
<1>2. QED
  BY <1>1, IInvAlways, PTL

-----------------------------------------------------------------------------
\* The inflight gauge.

\* The calls of one request.
Part(r, s) == {r} \X DOMAIN s

Gauge ==
    /\ IsFiniteSet(Inflight)
    /\ InflightExact

LEMMA PartFacts ==
    ASSUME NEW r, NEW s \in Seq(Calls)
    PROVE  IsFiniteSet(Part(r, s)) /\ Cardinality(Part(r, s)) = Len(s)
<1>1. Len(s) \in Nat /\ DOMAIN s = 1..Len(s)
  OBVIOUS
<1>2. IsFiniteSet({r}) /\ Cardinality({r}) = 1
  BY FS_Singleton
<1>3. PICK n \in Nat : n = Len(s)
  BY <1>1
<1>4. IsFiniteSet(1..n) /\ Cardinality(1..n) = n
  <2>1. IsFiniteSet(1..n) /\ Cardinality(1..n) = IF 1 > n THEN 0 ELSE n - 1 + 1
    BY FS_Interval
  <2>2. (IF 1 > n THEN 0 ELSE n - 1 + 1) = n
    OBVIOUS
  <2>3. QED
    BY <2>1, <2>2
<1>5. /\ IsFiniteSet({r} \X (1..n))
      /\ Cardinality({r} \X (1..n)) = Cardinality({r}) * Cardinality(1..n)
  BY <1>2, <1>4, FS_Product
<1>6. Cardinality({r} \X (1..n)) = n
  BY <1>2, <1>4, <1>5
<1>7. QED
  BY <1>1, <1>3, <1>5, <1>6 DEF Part

\* A step that changes what is counted for no request.
LEMMA SameInflight ==
    ASSUME Gauge, \A q \in Reqs : Counted(q)' <=> Counted(q),
           \A q \in Reqs : Counted(q) => body'[q] = body[q],
           UNCHANGED statVars
    PROVE  Gauge'
<1>1. \A q \in Reqs : Counted(q) => CallsOf(q)' = CallsOf(q)
  BY DEF CallsOf
<1>2. Inflight' = Inflight
  BY <1>1 DEF Inflight
<1>3. QED
  BY <1>2 DEF Gauge, InflightExact, statVars

LEMMA GaugeInit == Init => Gauge
<1>1. Init => Inflight = {}
  BY DEF Init, Inflight, Counted
<1>2. QED
  BY <1>1, FS_EmptySet DEF Init, Gauge, InflightExact

\* init_stats adds the calls of the body, whatever becomes of them.
LEMMA ArriveGauge ==
    ASSUME Typed, Gauge, NEW r \in Reqs, NEW b \in Bodies, Arrive(r, b)
    PROVE  Gauge'
<1> DEFINE P == Part(r, b.calls)
<1>1. stage[r] = "new" /\ ~Counted(r) /\ TypeOK
  BY DEF Arrive, Typed, Staged, Counted
<1>2. body' = [body EXCEPT ![r] = b] /\ b.calls \in Seq(Calls)
      /\ queued' = queued + Len(b.calls) /\ sent' = sent
  BY BodyFacts DEF Arrive, CountIn, Put
<1>3. Concerns(r) /\ Counted(r)'
  <2>1. CASE Refusal(b) # None /\ Refuse(r, Refusal(b))
    BY <2>1, ErrorFacts, RefuseFacts DEF Counted
  <2>2. CASE Healthcheck(r)
    <3>1. <<>> \in Seq(Answer)
      OBVIOUS
    <3>2. /\ Respond(r, None, <<>>, FALSE)
          /\ FALSE \in BOOLEAN /\ None \in Errors \cup {None}
      BY <2>2 DEF Healthcheck
    <3>3. Concerns(r) /\ jobs'[r] = {"start"}
      BY <1>1, <3>1, <3>2, RespondFacts
    <3>4. QED
      BY <3>3 DEF Counted
  <2>3. CASE /\ stage' = [stage EXCEPT ![r] = "reading"]
             /\ UNCHANGED <<response, jobs>>
    BY <1>1, <2>3 DEF TypeOK, Stages, Concerns, Counted
  <2>4. QED
    BY <2>1, <2>2, <2>3 DEF Arrive
<1>4. /\ body'[r] = b
      /\ \A q \in Reqs : q # r => /\ body'[q] = body[q]
                                  /\ Counted(q)' <=> Counted(q)
  BY <1>1, <1>2, <1>3 DEF TypeOK, Concerns, Counted
<1>5. CallsOf(r)' = b.calls /\ \A q \in Reqs : q # r => CallsOf(q)' = CallsOf(q)
  BY <1>4 DEF CallsOf
<1>6. Inflight' = Inflight \cup P
  BY <1>1, <1>3, <1>4, <1>5 DEF Inflight, Part
<1>7. Inflight \cap P = {}
  BY <1>1 DEF Inflight, Part
<1>8. IsFiniteSet(Inflight) /\ IsFiniteSet(P) /\ Cardinality(P) = Len(b.calls)
  BY <1>2, PartFacts DEF Gauge
<1> HIDE DEF P
<1>9. /\ IsFiniteSet(Inflight')
      /\ Cardinality(Inflight') =
             Cardinality(Inflight) + Cardinality(P) - Cardinality(Inflight \cap P)
  BY <1>6, <1>8, FS_Union
<1>10. Cardinality(Inflight \cap P) = 0
  BY <1>7, FS_EmptySet
<1>11. /\ Cardinality(Inflight) \in Nat /\ Len(b.calls) \in Nat
       /\ queued \in Int /\ sent \in Int /\ queued + sent = Cardinality(Inflight)
       /\ sent >= 0
  BY <1>1, <1>2, <1>8, FS_CardinalityType DEF TypeOK, Gauge, InflightExact
<1>12. queued' + sent' = Cardinality(Inflight')
  BY <1>2, <1>8, <1>9, <1>10, <1>11
<1>13. QED
  BY <1>2, <1>9, <1>11, <1>12 DEF Gauge, InflightExact

\* send_stats takes the calls of its request back.
LEMMA BackgroundGauge ==
    ASSUME Typed, Gauge, NEW r \in Reqs, Background(r)
    PROVE  Gauge'
<1> DEFINE P == Part(r, CallsOf(r))
<1>1. /\ TypeOK /\ stage[r] = "answered" /\ Counted(r)
      /\ UNCHANGED <<stage, body>>
  BY DEF Background, Typed, Staged, Counted
<1>2. CallsOf(r) \in Seq(Calls)
  BY <1>1, Known
<1>3. /\ ~Counted(r)'
      /\ \A q \in Reqs : q # r => (Counted(q)' <=> Counted(q))
  BY <1>1 DEF Background, Counted, TypeOK
<1>4. \A q \in Reqs : CallsOf(q)' = CallsOf(q)
  BY <1>1 DEF CallsOf
<1>5. Inflight' = Inflight \ P /\ P \subseteq Inflight
  BY <1>1, <1>3, <1>4 DEF Inflight, Part
<1>6. IsFiniteSet(Inflight) /\ Cardinality(P) = Len(CallsOf(r))
  BY <1>2, PartFacts DEF Gauge
<1>7. Len(CallsOf(r)) = 0 => P = {}
  BY <1>2 DEF Part
<1> HIDE DEF P
<1>8. /\ IsFiniteSet(Inflight')
      /\ Cardinality(Inflight') = Cardinality(Inflight) - Cardinality(Inflight \cap P)
  BY <1>5, <1>6, FS_Difference
<1>9. Inflight \cap P = P
  BY <1>5
<1>10. PICK n \in Nat : n = Len(CallsOf(r))
  BY <1>2
<1>11. /\ queued \in Int /\ sent \in Int /\ sent >= 0
       /\ queued + sent = Cardinality(Inflight)
       /\ Cardinality(Inflight) \in Nat /\ Cardinality(Inflight') \in Nat
       /\ Cardinality(Inflight') = Cardinality(Inflight) - n
  BY <1>1, <1>6, <1>8, <1>9, <1>10, FS_CardinalityType
     DEF TypeOK, Gauge, InflightExact
<1>12. \/ n = 0 /\ queued' = queued /\ sent' = sent
       \/ queued' = 0 /\ sent' = sent + queued + (-n)
  <2>1. CASE CallsOf(r) = <<>>
    BY <1>10, <2>1 DEF Background, CountOut, CallsOf, statVars
  <2>2. CASE CallsOf(r) # <<>>
    BY <1>10, <2>2 DEF Background, CountOut, CallsOf, PutAndSend
  <2>3. QED
    BY <2>1, <2>2
<1>13. queued' + sent' = Cardinality(Inflight') /\ sent' >= 0
  <2>1. CASE n = 0 /\ queued' = queued /\ sent' = sent
    BY <1>11, <2>1
  <2>2. CASE queued' = 0 /\ sent' = sent + queued + (-n)
    BY <1>11, <2>2
  <2>3. QED
    BY <1>12, <2>1, <2>2
<1>14. QED
  BY <1>8, <1>13 DEF Gauge, InflightExact

\* A new process has nothing in flight and has told statsd nothing.
LEMMA RestartGauge == Restart => Gauge'
<1> SUFFICES ASSUME Restart  PROVE Gauge'
  OBVIOUS
<1>1. \A q \in Reqs : ~Counted(q)'
  BY DEF Restart, Counted
<1>2. Inflight' = {}
  BY <1>1 DEF Inflight
<1>3. QED
  BY <1>2, FS_EmptySet DEF Restart, Gauge, InflightExact

\* An answer hands a counted request over to its background tasks.
LEMMA AnsweredGauge ==
    ASSUME Typed, Gauge, NEW r \in Reqs, stage[r] \in {"reading", "handling"},
           Concerns(r), jobs'[r] \in {{"start"}, {"skipped"}},
           UNCHANGED <<body, statVars>>
    PROVE  Gauge'
<1>1. \A q \in Reqs : Counted(q)' <=> Counted(q)
  BY DEF Counted, Concerns
<1>2. QED
  BY <1>1, SameInflight

LEMMA HandledGauge ==
    ASSUME Typed, Gauge, NEW r \in Reqs, ReadEnds(r) \/ Handler(r)
    PROVE  Gauge'
<1>1. TypeOK /\ UNCHANGED <<body, statVars>>
  BY DEF ReadEnds, Hit, Miss, Handler, Finish, Timeout, ServerTimeout, Typed
<1>2. ASSUME NEW e \in Errors, Refuse(r, e), stage[r] \in {"reading", "handling"}
      PROVE  Gauge'
  BY <1>1, <1>2, RefuseFacts, AnsweredGauge
<1>3. ASSUME NEW as, NEW h, Respond(r, None, as, h), stage[r] \in {"reading", "handling"}
      PROVE  Gauge'
  <2>1. \A q \in Reqs : Counted(q)' <=> Counted(q)
    BY <1>1, <1>3 DEF Respond, Counted, TypeOK
  <2>2. QED
    BY <1>1, <2>1, SameInflight
<1>4. CASE Hit(r)
  BY <1>3, <1>4 DEF Hit
<1>5. CASE Miss(r)
  <2>1. CASE HandlerRefusal(body[r]) # None /\ Refuse(r, HandlerRefusal(body[r]))
    BY <1>2, <1>5, <2>1, ErrorFacts DEF Miss
  <2>2. CASE Dispatch(r)
    <3>1. \A q \in Reqs : Counted(q)' <=> Counted(q)
      BY <1>1, <1>5, <2>2 DEF Miss, Dispatch, Counted, TypeOK
    <3>2. QED
      BY <1>1, <3>1, SameInflight
  <2>3. QED
    BY <1>5, <2>1, <2>2 DEF Miss
<1>6. CASE Finish(r)
  BY <1>3, <1>6 DEF Finish
<1>7. CASE Timeout(r)
  BY <1>2, <1>7, ErrorFacts DEF Timeout
<1>8. CASE ServerTimeout(r)
  BY <1>1, <1>8, ServerTimeoutFacts, AnsweredGauge DEF ServerTimeout
<1>9. QED
  BY <1>4, <1>5, <1>6, <1>7, <1>8 DEF ReadEnds, Handler

LEMMA FetchesGauge ==
    ASSUME Typed, Gauge, NEW r \in Reqs, NEW i \in DOMAIN fetch[r],
           Acquire(r, i) \/ FetchReturns(r, i) \/ FetchFails(r, i)
    PROVE  Gauge'
<1>1. UNCHANGED <<body, statVars>>
  BY DEF Acquire, FetchReturns, FetchFails
<1>2. CASE UNCHANGED reqVars
  <2>1. \A q \in Reqs : Counted(q)' <=> Counted(q)
    BY <1>2 DEF reqVars, Counted
  <2>2. QED
    BY <1>1, <2>1, SameInflight
<1>3. CASE stage[r] = "handling" /\ \E e \in FetchErrors : Refuse(r, HandleError(e))
  BY <1>1, <1>3, ErrorFacts, RefuseFacts, AnsweredGauge
<1>4. QED
  BY <1>2, <1>3 DEF Acquire, FetchReturns, FetchFails

LEMMA GaugeNext ==
    ASSUME Typed, Gauge, [Next]_vars
    PROVE  Gauge'
<1>1. ASSUME NEW r \in Reqs, Stores(r)  PROVE Gauge'
  <2>1. \A q \in Reqs : Counted(q)' <=> Counted(q)
    BY <1>1 DEF Stores, StoreLib, StoreAnswers, Counted, Typed, TypeOK
  <2>2. UNCHANGED <<body, statVars>>
    BY <1>1 DEF Stores, StoreLib, StoreAnswers
  <2>3. QED
    BY <2>1, <2>2, SameInflight
<1>2. CASE Advance \/ UNCHANGED vars
  <2>1. UNCHANGED <<stage, jobs, body, statVars>>
    BY <1>2 DEF Advance, vars, reqVars
  <2>2. \A q \in Reqs : Counted(q)' <=> Counted(q)
    BY <2>1 DEF Counted
  <2>3. QED
    BY <2>1, <2>2, SameInflight
<1>3. QED
  BY <1>1, <1>2, ArriveGauge, HandledGauge, BackgroundGauge, FetchesGauge,
     RestartGauge DEF Next

\* The gauge is exact however a request is answered.
THEOREM InflightIsExact == Spec => []InflightExact
<1>1. Init => Typed /\ Gauge
  BY TypedInit, GaugeInit
<1>2. Typed /\ Gauge /\ [Next]_vars => (Typed /\ Gauge)'
  BY TypedNext, GaugeNext
<1>3. Typed /\ Gauge => InflightExact
  BY DEF Gauge
<1>4. QED
  BY <1>1, <1>2, <1>3, PTL DEF Spec

-----------------------------------------------------------------------------
\* Sums.  The library proves < to be well founded on Nat: that gives induction
\* for a set of numbers, and with it the type of the sum that FoldFunction
\* makes of a function with a finite domain.

\* Every set of natural numbers but {} has a least one.
LEMMA LeastNatural ==
    ASSUME NEW T \in SUBSET Nat, T # {}
    PROVE  \E m \in T : \A n \in T : m <= n
<1>1. PICK R : R = {ss \in Nat \X Nat : ss[1] < ss[2]}
  OBVIOUS
<1>2. IsWellFoundedOn(R, Nat)
  BY <1>1, NatLessThanWellFounded DEF OpToRel
<1>3. PICK m \in T : \A n \in T : ~ (<<n, m>> \in R)
  BY <1>2, WFMin
<1>4. \A n \in T : ~ (n < m)
  BY <1>1, <1>3
<1>5. QED
  BY <1>4

\* Induction over the natural numbers, for a set instead of a predicate.
LEMMA Induct ==
    ASSUME NEW S \in SUBSET Nat, 0 \in S, \A n \in S : n + 1 \in S
    PROVE  S = Nat
<1> SUFFICES ASSUME S # Nat PROVE FALSE
  OBVIOUS
<1>1. PICK T : T = Nat \ S
  OBVIOUS
<1>2. PICK m \in T : \A n \in T : m <= n
  BY <1>1, LeastNatural
<1>3. m # 0 /\ m \in Nat /\ m - 1 \in Nat /\ ~(m <= m - 1)
  BY <1>1, <1>2
<1>4. m - 1 \in S
  BY <1>1, <1>2, <1>3
<1>5. QED
  BY <1>1, <1>3, <1>4

\* pick[s] is the element of s that a fold takes first.
Picks(D, pick) == \A s \in SUBSET D : s # {} => pick[s] \in s

\* The subsets of D with at most n elements.
Small(D, n) == {s \in SUBSET D : Cardinality(s) <= n}

\* g sums f over the sets in SS, one picked element after the other.
SumsUp(f, pick, SS, g) ==
    \A s \in SS :
        g[s] = IF s = {} THEN 0 ELSE f[pick[s]] + g[s \ {pick[s]}]

LEMMA SmallFacts ==
    ASSUME NEW D, IsFiniteSet(D), NEW pick, Picks(D, pick), NEW n \in Nat
    PROVE  /\ \A s \in Small(D, n + 1) :
                  s # {} => pick[s] \in D /\ s \ {pick[s]} \in Small(D, n)
           /\ Small(D, n) \subseteq Small(D, n + 1)
           /\ Small(D, 0) = {{}}
<1>0. \A s \in SUBSET D : IsFiniteSet(s) /\ Cardinality(s) \in Nat
  BY FS_Subset, FS_CardinalityType
<1>1. ASSUME NEW s \in Small(D, n + 1), s # {}
      PROVE  pick[s] \in D /\ s \ {pick[s]} \in Small(D, n)
  <2>1. s \in SUBSET D /\ Cardinality(s) <= n + 1 /\ Cardinality(s) \in Nat /\ IsFiniteSet(s)
    BY <1>0, <1>1 DEF Small
  <2>2. pick[s] \in s
    BY <1>1, <2>1 DEF Picks
  <2>3. Cardinality(s \ {pick[s]}) = Cardinality(s) - 1
    BY <2>1, <2>2, FS_RemoveElement
  <2>4. QED
    BY <2>1, <2>2, <2>3 DEF Small
<1>2. Small(D, n) \subseteq Small(D, n + 1)
  BY <1>0 DEF Small
<1>3. \A s \in SUBSET D : Cardinality(s) <= 0 <=> s = {}
  <2>1. \A s \in SUBSET D : Cardinality(s) = 0 <=> s = {}
    BY <1>0, FS_EmptySet
  <2>2. QED
    BY <1>0, <2>1
<1>4. QED
  BY <1>1, <1>2, <1>3 DEF Small

\* There is a function that does, with values in Nat.
LEMMA SumExists ==
    ASSUME NEW D, IsFiniteSet(D), NEW f \in [D -> Nat], NEW pick, Picks(D, pick)
    PROVE  \A n \in Nat : \E g \in [Small(D, n) -> Nat] : SumsUp(f, pick, Small(D, n), g)
<1>1. PICK S : S = {n \in Nat : \E g \in [Small(D, n) -> Nat] :
                                    SumsUp(f, pick, Small(D, n), g)}
  OBVIOUS
<1>2. 0 \in S
  <2>1. Small(D, 0) = {{}}
    BY SmallFacts
  <2>2. PICK g : g = [s \in Small(D, 0) |-> 0]
    OBVIOUS
  <2>3. g \in [Small(D, 0) -> Nat] /\ SumsUp(f, pick, Small(D, 0), g)
    BY <2>1, <2>2 DEF SumsUp
  <2>4. QED
    BY <1>1, <2>3
<1>3. ASSUME NEW n \in S PROVE n + 1 \in S
  <2>1. n \in Nat /\ n + 1 \in Nat
    BY <1>1
  <2>2. PICK g \in [Small(D, n) -> Nat] : SumsUp(f, pick, Small(D, n), g)
    BY <1>1
  <2>3. PICK h : h = [s \in Small(D, n + 1) |->
                        IF s = {} THEN 0 ELSE f[pick[s]] + g[s \ {pick[s]}]]
    OBVIOUS
  <2>4. \A s \in Small(D, n + 1) :
            s # {} => pick[s] \in D /\ s \ {pick[s]} \in Small(D, n)
    BY <2>1, SmallFacts
  <2>5. \A s \in Small(D, n) : s \in Small(D, n + 1) /\ h[s] = g[s]
    BY <2>1, <2>2, <2>3, SmallFacts DEF SumsUp
  <2>6. h \in [Small(D, n + 1) -> Nat]
    BY <2>2, <2>3, <2>4
  <2>7. SumsUp(f, pick, Small(D, n + 1), h)
    BY <2>3, <2>4, <2>5 DEF SumsUp
  <2>8. QED
    BY <1>1, <2>1, <2>6, <2>7
<1>4. S = Nat
  BY <1>1, <1>2, <1>3, Induct
<1>5. QED
  BY <1>1, <1>4

\* Whatever does has its values there.
LEMMA SumTyped ==
    ASSUME NEW D, IsFiniteSet(D), NEW f \in [D -> Nat], NEW pick, Picks(D, pick),
           NEW g, SumsUp(f, pick, SUBSET D, g)
    PROVE  g[D] \in Nat
<1>1. PICK S : S = {n \in Nat : \A s \in Small(D, n) : g[s] \in Nat}
  OBVIOUS
<1>2. \A s \in SUBSET D :
          g[s] = IF s = {} THEN 0 ELSE f[pick[s]] + g[s \ {pick[s]}]
  BY DEF SumsUp
<1>3. 0 \in S
  <2>1. Small(D, 0) = {{}}
    BY SmallFacts
  <2>2. g[{}] = 0
    BY <1>2
  <2>3. QED
    BY <1>1, <2>1, <2>2
<1>4. ASSUME NEW n \in S PROVE n + 1 \in S
  <2>1. n \in Nat /\ n + 1 \in Nat /\ \A s \in Small(D, n) : g[s] \in Nat
    BY <1>1
  <2>2. \A s \in Small(D, n + 1) :
            s # {} => pick[s] \in D /\ s \ {pick[s]} \in Small(D, n)
    BY <2>1, SmallFacts
  <2>3. ASSUME NEW s \in Small(D, n + 1) PROVE g[s] \in Nat
    <3>1. s \in SUBSET D
      BY DEF Small
    <3>2. CASE s = {}
      BY <1>2, <3>1, <3>2
    <3>3. CASE s # {}
      <4>1. f[pick[s]] \in Nat /\ g[s \ {pick[s]}] \in Nat
        BY <2>1, <2>2, <3>3
      <4>2. g[s] = f[pick[s]] + g[s \ {pick[s]}]
        BY <1>2, <3>1, <3>3
      <4>3. QED
        BY <4>1, <4>2
    <3>4. QED
      BY <3>2, <3>3
  <2>4. QED
    BY <1>1, <2>1, <2>3
<1>5. S = Nat
  BY <1>1, <1>3, <1>4, Induct
<1>6. Cardinality(D) \in Nat /\ D \in Small(D, Cardinality(D))
  BY FS_CardinalityType DEF Small
<1>7. QED
  BY <1>1, <1>5, <1>6

\* it solves the equation that FoldFunction chooses a solution of.
Solves(f, it) ==
    it = [s \in SUBSET DOMAIN f |->
            IF s = {} THEN 0
            ELSE f[CHOOSE x \in s : TRUE] + it[s \ {CHOOSE x \in s : TRUE}]]

\* The sum of finitely many natural numbers is one.
LEMMA SumIsNat ==
    ASSUME NEW D, IsFiniteSet(D), NEW f \in [D -> Nat]
    PROVE  FoldFunction(+, 0, f) \in Nat
<1>1. PICK pick : pick = [s \in SUBSET D |-> CHOOSE x \in s : TRUE]
  OBVIOUS
<1>2. Picks(D, pick)
  BY <1>1 DEF Picks
<1>3. PICK n : n = Cardinality(D)
  OBVIOUS
<1>4. n \in Nat /\ Small(D, n) = SUBSET D
  BY <1>3, FS_CardinalityType, FS_Subset DEF Small
<1>5. \E g \in [Small(D, n) -> Nat] : SumsUp(f, pick, Small(D, n), g)
  BY <1>2, <1>4, SumExists
<1>6. PICK g \in [SUBSET D -> Nat] : SumsUp(f, pick, SUBSET D, g)
  BY <1>4, <1>5
<1>7. DOMAIN f = D
  OBVIOUS
<1>8. Solves(f, g)
  BY <1>1, <1>6, <1>7 DEF SumsUp, Solves
<1>9. PICK it : it = CHOOSE iter : Solves(f, iter)
  OBVIOUS
<1>10. Solves(f, it)
  BY <1>8, <1>9, Zenon
<1>11. SumsUp(f, pick, SUBSET D, it)
  BY <1>1, <1>7, <1>10 DEF SumsUp, Solves
<1>12. it[D] \in Nat
  BY <1>2, <1>11, SumTyped
<1>13. FoldFunction(+, 0, f) = (CHOOSE iter : Solves(f, iter))[DOMAIN f]
  BY DEF FoldFunction, FoldFunctionOnSet, MapThenFoldSet, Solves
<1>14. QED
  BY <1>7, <1>9, <1>12, <1>13

-----------------------------------------------------------------------------
\* Why a request is refused.

\* A fetch has failed.
Broken(fs) == \E i \in DOMAIN fs : fs[i].st = "failed"

\* What an error in the response tells of the body and of the fetches.
Reason(b, fs, e) ==
    /\ e \in {"invalid", "batchSize", "limits"} => Refusal(b) = e /\ fs = <<>>
    /\ e = "historyLimit" => HistoryRefused(b.calls) /\ fs = <<>>
    /\ e = "internal" => \/ b.kind = "batch" /\ NoTimeout(b) /\ fs = <<>>
                         \/ Broken(fs)
    /\ e = "upstream" => Broken(fs)
    /\ e = "timeout" => \/ RequestTimeout(b) # None /\ RequestTimeout(b) <= RESPONSE_TIMEOUT
                        \/ Broken(fs)
    /\ e = "responseTimeout" => ServerIsFirst(b) /\ HandlerRefusal(b) = None

Explained(r) ==
    /\ stage[r] = "handling" => HandlerRefusal(body[r]) = None
    /\ response[r] # None => Reason(body[r], fetch[r], response[r].error)


\* A step that leaves r its response, and its fetches what they have failed.
LEMMA ExplainedKept ==
    ASSUME NEW r \in Reqs, Explained(r),
           stage'[r] = "handling" => stage[r] = "handling",
           response'[r] = response[r],
           stage[r] # "new" => body'[r] = body[r],
           stage[r] = "new" => response[r] = None,
           fetch[r] = <<>> => fetch'[r] = <<>>,
           Broken(fetch[r]) => Broken(fetch'[r])
    PROVE  Explained(r)'
BY DEF Explained, Reason

\* The response is given in this step, with an error, or without one.
LEMMA ExplainedStep ==
    ASSUME Typed, NEW r \in Reqs, NEW e \in Errors \cup {None},
           \A q \in Reqs : Explained(q),
           \A q \in Reqs : q # r => /\ stage'[q] = stage[q] /\ body'[q] = body[q]
                                    /\ response'[q] = response[q]
                                    /\ fetch'[q] = fetch[q],
           stage'[r] = "answered", response'[r].error = e,
           e # None => Reason(body'[r], fetch'[r], e)
    PROVE  \A q \in Reqs : Explained(q)'
<1>1. ASSUME NEW q \in Reqs, q # r  PROVE Explained(q)'
  BY <1>1, ExplainedKept DEF Typed, Staged
<1>2. Reason(body'[r], fetch'[r], e)
  BY NoneAssumption DEF Reason, Errors, LimitErrors, TimeoutErrors
<1>3. Explained(r)'
  BY <1>2 DEF Explained
<1>4. QED
  BY <1>1, <1>3

LEMMA ArriveExplained ==
    ASSUME Typed, \A q \in Reqs : Explained(q),
           NEW r \in Reqs, NEW b \in Bodies, Arrive(r, b)
    PROVE  \A q \in Reqs : Explained(q)'
<1>1. /\ stage[r] = "new" /\ response[r] = None /\ fetch[r] = <<>>
      /\ body' = [body EXCEPT ![r] = b] /\ UNCHANGED fetch /\ TypeOK
  BY DEF Typed, Staged, Arrive
<1>2. body'[r] = b /\ \A q \in Reqs : q # r => body'[q] = body[q]
  BY <1>1 DEF TypeOK
<1>3. CASE Refusal(b) # None /\ Refuse(r, Refusal(b))
  <2>1. Refusal(b) \in Errors
    BY <1>3, ErrorFacts
  <2>2. Concerns(r) /\ stage'[r] = "answered" /\ response'[r].error = Refusal(b)
    BY <1>3, <2>1, RefuseFacts
  <2>3. Refusal(b) \in {"invalid", "batchSize", "limits"}
    BY <1>3 DEF Refusal
  <2>4. Reason(body'[r], fetch'[r], Refusal(b))
    BY <1>1, <1>2, <2>3 DEF Reason
  <2>5. QED
    BY <1>1, <1>2, <2>1, <2>2, <2>4, ExplainedStep DEF Concerns
<1>4. CASE Refusal(b) = None /\ b.calls = <<>> /\ Healthcheck(r)
  <2>1. Respond(r, None, <<>>, FALSE) /\ FALSE \in BOOLEAN /\ TypeOK
    BY <1>1, <1>4 DEF Healthcheck
  <2>2. <<>> \in Seq(Answer)
    OBVIOUS
  <2>3. /\ Concerns(r) /\ stage'[r] = "answered"
        /\ response'[r] = [error |-> None, answers |-> <<>>, hit |-> FALSE]
    BY <2>1, <2>2, RespondFacts
  <2>4. response'[r].error = None
    BY <2>3
  <2>5. QED
    BY <1>1, <1>2, <2>3, <2>4, ExplainedStep DEF Concerns
<1>5. CASE stage' = [stage EXCEPT ![r] = "reading"] /\ UNCHANGED <<response, jobs>>
  <2>1. /\ stage'[r] = "reading"
        /\ \A q \in Reqs : q # r => stage'[q] = stage[q]
    BY <1>1, <1>5 DEF TypeOK
  <2>2. ASSUME NEW q \in Reqs  PROVE Explained(q)'
    BY <1>1, <1>2, <1>5, <2>1, ExplainedKept DEF Typed, Staged
  <2>3. QED
    BY <2>2
<1>6. QED
  BY <1>3, <1>4, <1>5 DEF Arrive

LEMMA ReadExplained ==
    ASSUME Typed, \A q \in Reqs : Explained(q), NEW r \in Reqs, ReadEnds(r)
    PROVE  \A q \in Reqs : Explained(q)'
<1>1. /\ TypeOK /\ stage[r] = "reading" /\ UNCHANGED body
      /\ fetch[r] = <<>> /\ response[r] = None
  BY DEF Typed, Staged, ReadEnds, Hit, Miss
<1>2. CASE Hit(r)
  <2>1. /\ stage' = [stage EXCEPT ![r] = "answered"]
        /\ UNCHANGED fetch
        /\ \E as : response' = [response EXCEPT ![r] =
                                   [error |-> None, answers |-> as, hit |-> TRUE]]
    BY <1>2 DEF Hit, Respond
  <2>2. /\ stage'[r] = "answered" /\ response'[r].error = None
        /\ \A q \in Reqs : q # r => /\ stage'[q] = stage[q]
                                     /\ response'[q] = response[q]
    BY <1>1, <2>1 DEF TypeOK
  <2>3. QED
    BY <1>1, <2>1, <2>2, ExplainedStep
<1>3. CASE Miss(r)
  <2>1. PICK e : e = HandlerRefusal(body[r])
    OBVIOUS
  <2>2. CASE e # None
    <3>1. Refuse(r, e) /\ UNCHANGED fetch
      BY <1>3, <2>1, <2>2 DEF Miss
    <3>2. e \in Errors
      BY <2>1, <2>2, ErrorFacts
    <3>3. Concerns(r) /\ stage'[r] = "answered" /\ response'[r].error = e
      BY <3>1, <3>2, RefuseFacts
    <3>4. \/ e = "historyLimit" /\ HistoryRefused(CallsOf(r))
          \/ e = "internal" /\ body[r].kind = "batch" /\ NoTimeout(body[r])
      BY <2>1, <2>2 DEF HandlerRefusal, HandleError, CallsOf
    <3>5. Reason(body'[r], fetch'[r], e)
      BY <1>1, <3>1, <3>4 DEF Reason, CallsOf
    <3>6. QED
      BY <1>1, <3>1, <3>2, <3>3, <3>5, ExplainedStep DEF Concerns
  <2>3. CASE e = None
    <3>1. Dispatch(r)
      BY <1>3, <2>1, <2>3 DEF Miss
    <3>2. /\ stage' = [stage EXCEPT ![r] = "handling"] /\ UNCHANGED response
          /\ fetch' = [fetch EXCEPT ![r] =
                          [i \in DOMAIN CallsOf(r) |-> NewFetch(CallsOf(r)[i])]]
      BY <3>1 DEF Dispatch
    <3>3. /\ stage'[r] = "handling"
          /\ \A q \in Reqs : q # r => stage'[q] = stage[q] /\ fetch'[q] = fetch[q]
      BY <1>1, <3>2 DEF TypeOK
    <3>4. Explained(r)'
      BY <1>1, <2>1, <2>3, <3>2, <3>3 DEF Explained
    <3>5. ASSUME NEW q \in Reqs, q # r  PROVE Explained(q)'
      BY <1>1, <3>2, <3>3, <3>5, ExplainedKept DEF Typed, Staged
    <3>6. QED
      BY <3>4, <3>5
  <2>4. QED
    BY <2>2, <2>3
<1>4. QED
  BY <1>2, <1>3 DEF ReadEnds

\* What fails was running, so whatever becomes of a running fetch, no failure
\* is forgotten.
LEMMA FetchesExplained ==
    ASSUME Typed, \A q \in Reqs : Explained(q),
           NEW r \in Reqs, NEW i \in DOMAIN fetch[r],
           Acquire(r, i) \/ FetchReturns(r, i) \/ FetchFails(r, i)
    PROVE  \A q \in Reqs : Explained(q)'
<1>1. TypeOK /\ Staged(r) /\ UNCHANGED body
  BY DEF Typed, Acquire, FetchReturns, FetchFails
<1>2. \A c \in Calls : Reported(c) \in Numbers
  BY <1>1 DEF Reported, TypeOK, Numbers
<1>3. PICK st, at : /\ st \in FetchState /\ Becomes(r, i, st, at) /\ Running(r, i)
                    /\ FetchFails(r, i) => st = "failed"
  BY DEF Acquire, FetchReturns, FetchFails, Running, FetchState
<1>4. fetch' = [fetch EXCEPT ![r][i] = [st |-> st, at |-> at]]
  BY <1>3 DEF Becomes
<1>5. PICK f : f = [fetch[r] EXCEPT ![i] = [st |-> st, at |-> at]]
  OBVIOUS
<1>6. /\ fetch' = [fetch EXCEPT ![r] = f] /\ DOMAIN f = DOMAIN fetch[r]
      /\ f[i].st = st
      /\ \A j \in DOMAIN fetch[r] : j # i => f[j] = fetch[r][j]
  BY <1>4, <1>5
<1>7. /\ fetch'[r] = f /\ fetch[r] \in Seq(Fetch)
      /\ \A q \in Reqs : q # r => fetch'[q] = fetch[q]
  BY <1>1, <1>6 DEF TypeOK
<1>8. Broken(fetch[r]) => Broken(fetch'[r])
  BY <1>3, <1>6, <1>7 DEF Broken, Running
<1>9. fetch[r] # <<>>
  BY <1>7
<1>10. CASE UNCHANGED reqVars
  <2>1. ASSUME NEW q \in Reqs  PROVE Explained(q)'
    <3>1. UNCHANGED <<stage, response>> /\ Explained(q) /\ Staged(q)
      BY <1>10 DEF reqVars, Typed
    <3>2. (fetch[q] = <<>> => fetch'[q] = <<>>) /\ (Broken(fetch[q]) => Broken(fetch'[q]))
      BY <1>7, <1>8, <1>9
    <3>3. QED
      BY <1>1, <3>1, <3>2, ExplainedKept DEF Staged
  <2>2. QED
    BY <2>1
<1>11. CASE FetchFails(r, i) /\ \E x \in FetchErrors : Refuse(r, HandleError(x))
  <2>1. PICK x \in FetchErrors : Refuse(r, HandleError(x))
    BY <1>11
  <2>2. PICK e : e = HandleError(x)
    OBVIOUS
  <2>3. e \in {"upstream", "timeout", "internal"} /\ e \in Errors
    BY <2>2 DEF HandleError, FetchErrors, Errors, TimeoutErrors
  <2>4. Concerns(r) /\ stage'[r] = "answered" /\ response'[r].error = e
    BY <2>1, <2>2, <2>3, RefuseFacts
  <2>5. Broken(fetch'[r])
    BY <1>3, <1>6, <1>7, <1>11 DEF Broken
  <2>6. Reason(body'[r], fetch'[r], e)
    BY <2>3, <2>5 DEF Reason
  <2>7. QED
    BY <1>1, <1>7, <2>3, <2>4, <2>6, ExplainedStep DEF Concerns
<1>12. QED
  BY <1>10, <1>11 DEF Acquire, FetchReturns, FetchFails

LEMMA HandlerExplained ==
    ASSUME Typed, \A q \in Reqs : Explained(q), NEW r \in Reqs, Handler(r)
    PROVE  \A q \in Reqs : Explained(q)'
<1>1. TypeOK /\ Staged(r) /\ UNCHANGED body /\ stage[r] = "handling" /\ Explained(r)
  BY DEF Typed, Handler, Finish, Timeout, ServerTimeout
<1>2. CASE Finish(r)
  <2>1. /\ stage' = [stage EXCEPT ![r] = "answered"]
        /\ UNCHANGED fetch
        /\ \E as : response' = [response EXCEPT ![r] =
                                   [error |-> None, answers |-> as, hit |-> FALSE]]
    BY <1>2 DEF Finish, Respond
  <2>2. /\ stage'[r] = "answered" /\ response'[r].error = None
        /\ \A q \in Reqs : q # r => /\ stage'[q] = stage[q]
                                     /\ response'[q] = response[q]
    BY <1>1, <2>1 DEF TypeOK
  <2>3. QED
    BY <1>1, <2>1, <2>2, ExplainedStep
<1>3. CASE Timeout(r)
  <2>1. PICK e : e = HandleError("TimeoutError")
    OBVIOUS
  <2>2. e = "timeout" /\ e \in Errors
    BY <2>1 DEF HandleError, Errors, TimeoutErrors
  <2>3. /\ Refuse(r, e) /\ fetch' = [fetch EXCEPT ![r] = Cancelled(@)]
        /\ RequestTimeout(body[r]) # None /\ RequestTimeout(body[r]) <= RESPONSE_TIMEOUT
    BY <1>3, <2>1 DEF Timeout
  <2>4. Concerns(r) /\ stage'[r] = "answered" /\ response'[r].error = e
    BY <2>2, <2>3, RefuseFacts
  <2>5. \A q \in Reqs : q # r => fetch'[q] = fetch[q]
    BY <1>1, <2>3 DEF TypeOK
  <2>6. Reason(body'[r], fetch'[r], e)
    BY <1>1, <2>2, <2>3 DEF Reason
  <2>7. QED
    BY <1>1, <2>2, <2>4, <2>5, <2>6, ExplainedStep DEF Concerns
<1>4. CASE ServerTimeout(r)
  <2>1. PICK e : e = HandleError("ServiceUnavailable")
    OBVIOUS
  <2>2. e = "responseTimeout" /\ e \in Errors
    BY <2>1 DEF HandleError, Errors, TimeoutErrors
  <2>3. /\ fetch' = [fetch EXCEPT ![r] = Cancelled(@)]
        /\ ServerIsFirst(body[r])
        /\ response' = [response EXCEPT ![r] =
               [error |-> e, answers |-> <<>>, hit |-> FALSE]]
    BY <1>4, <2>1 DEF ServerTimeout
  <2>4. Concerns(r) /\ stage'[r] = "answered"
    BY <1>4, ServerTimeoutFacts
  <2>5. response'[r].error = e /\ \A q \in Reqs : q # r => fetch'[q] = fetch[q]
    BY <1>1, <2>3 DEF TypeOK
  <2>6. Reason(body'[r], fetch'[r], e)
    BY <1>1, <2>2, <2>3 DEF Reason, Explained
  <2>7. QED
    BY <1>1, <2>2, <2>4, <2>5, <2>6, ExplainedStep DEF Concerns
<1>5. QED
  BY <1>2, <1>3, <1>4 DEF Handler

LEMMA ExplainedNext ==
    ASSUME Typed, \A q \in Reqs : Explained(q), [Next]_vars
    PROVE  \A q \in Reqs : Explained(q)'
<1>1. ASSUME UNCHANGED <<stage, response, body, fetch>>
      PROVE  \A q \in Reqs : Explained(q)'
  BY <1>1, ExplainedKept DEF Typed, Staged
<1>2. ASSUME NEW r \in Reqs, Background(r) \/ Stores(r)
      PROVE  UNCHANGED <<stage, response, body, fetch>>
  BY <1>2 DEF Background, Stores, StoreLib, StoreAnswers
<1>3. Advance => UNCHANGED <<stage, response, body, fetch>>
  BY DEF Advance, reqVars
<1>4. UNCHANGED vars => UNCHANGED <<stage, response, body, fetch>>
  BY DEF vars, reqVars
<1>5. CASE Restart
  <2>1. UNCHANGED <<response, body>> /\ fetch' = [r \in Reqs |-> Cancelled(fetch[r])]
    BY <1>5 DEF Restart
  <2>2. ASSUME NEW q \in Reqs  PROVE Explained(q)'
    <3>1. stage'[q] # "handling"
      BY <1>5 DEF Restart
    <3>2. fetch'[q] = Cancelled(fetch[q]) /\ Staged(q) /\ fetch[q] \in Seq(Fetch)
      BY <2>1 DEF Typed, TypeOK
    <3>3. fetch[q] = <<>> => fetch'[q] = <<>>
      BY <3>2, CancelledFacts
    <3>4. Broken(fetch[q]) => Broken(fetch'[q])
      BY <3>2 DEF Broken, Cancelled
    <3>5. QED
      BY <2>1, <3>1, <3>2, <3>3, <3>4, ExplainedKept DEF Staged
  <2>3. QED
    BY <2>2
<1>6. QED
  BY <1>1, <1>2, <1>3, <1>4, <1>5, ArriveExplained, ReadExplained, HandlerExplained,
     FetchesExplained DEF Next

\* Every error that a client gets has its reason in the body it sent or in a
\* fetch that failed: what is refused for its form or for a limit was not sent
\* upstream, an internal error without a fetch is a batch with a call that has
\* no timeout, a timeout was configured, and sanic answers only what jussi's
\* own timeout does not reach in time.
\* (the middlewares, setup_error_handlers, request_timeout)
THEOREM ErrorsHaveReasons ==
    Spec => [](\A r \in Reqs :
                  response[r] # None => Reason(body[r], fetch[r], response[r].error))
<1> DEFINE All == \A r \in Reqs : Explained(r)
<1>1. Init => All
  BY DEF Init, Explained
<1>2. Typed /\ All /\ [Next]_vars => All'
  BY ExplainedNext
<1>3. All => \A r \in Reqs :
                  response[r] # None => Reason(body[r], fetch[r], response[r].error)
  BY DEF Explained
<1> HIDE DEF All
<1>4. QED
  BY <1>1, <1>2, <1>3, TypedInit, TypedNext, PTL DEF Spec

\* The timeout of a batch that is dispatched is a number, at most 60.
LEMMA BatchTimeout ==
    ASSUME NEW b \in Bodies, b.kind # "single", ~NoTimeout(b)
    PROVE  RequestTimeout(b) \in Nat /\ RequestTimeout(b) <= 60
<1>1. b.calls \in Seq(Calls) /\ \A i \in DOMAIN b.calls : b.calls[i] \in Calls
  BY BodyFacts
<1>2. PICK D : D = DOMAIN b.calls
  OBVIOUS
<1>3. IsFiniteSet(D)
  <2>1. D = 1..Len(b.calls) /\ Len(b.calls) \in Nat
    BY <1>1, <1>2
  <2>2. QED
    BY <2>1, FS_Interval
<1>4. PICK f : f = [i \in D |-> TimeoutOf(b.calls[i])]
  OBVIOUS
<1>5. f \in [D -> Nat]
  <2>1. \A i \in D : TimeoutOf(b.calls[i]) \in Nat
    BY <1>1, <1>2, CallsAssumption DEF NoTimeout, TimeoutOf
  <2>2. QED
    BY <1>4, <2>1
<1>6. FoldFunction(+, 0, f) \in Nat
  BY <1>3, <1>5, SumIsNat
<1>7. SumOfTimeouts(b) \in Nat
  BY <1>2, <1>4, <1>6 DEF SumOfTimeouts
<1>8. QED
  BY <1>7 DEF RequestTimeout

\* A batch is never answered by sanic's timeout, whatever calls it has and
\* whatever timeouts are configured, while the lookup takes at most the 5
\* seconds between the two limits (the default of cache_read_timeout is 1).
\* (request_timeout in http.py, RESPONSE_TIMEOUT in sanic_config.py)
THEOREM BatchesTimeOutInJussi ==
    ASSUME CacheReadTimeout <= 5
    PROVE  Spec => []BatchesTimeOutFirst
<1> DEFINE Reasons == \A r \in Reqs :
               response[r] # None => Reason(body[r], fetch[r], response[r].error)
<1>1. Typed /\ Reasons => BatchesTimeOutFirst
  <2> SUFFICES ASSUME Typed, Reasons, NEW r \in Reqs, response[r] # None,
                      response[r].error = "responseTimeout", body[r].kind # "single"
               PROVE  FALSE
    BY DEF BatchesTimeOutFirst
  <2>1. Reason(body[r], fetch[r], "responseTimeout")
    OBVIOUS
  <2>2. PICK b : b = body[r]
    OBVIOUS
  <2>3. ServerIsFirst(b) /\ HandlerRefusal(b) = None
    BY <2>1, <2>2 DEF Reason
  <2>4. b \in Bodies
    BY <2>2 DEF Typed, TypeOK, Staged
  <2>5. ~NoTimeout(b)
    <3>1. CASE b.kind = "batch"
      BY <2>3, <3>1, NoneAssumption
         DEF HandlerRefusal, HandleError, Errors, LimitErrors
    <3>2. CASE b.kind # "batch"
      <4>1. b.calls = <<>>
        BY <2>2, <2>4, <3>2, BodiesAssumption DEF Body
      <4>2. QED
        BY <4>1 DEF NoTimeout
    <3>3. QED
      BY <3>1, <3>2
  <2>6. PICK n : n = RequestTimeout(b)
    OBVIOUS
  <2>7. n \in Nat /\ n <= 60
    BY <2>2, <2>4, <2>5, <2>6, BatchTimeout
  <2>8. n # None
    BY <2>7, NoneAssumption
  <2>9. n + CacheReadTimeout > 65
    BY <2>3, <2>6, <2>8 DEF ServerIsFirst, RESPONSE_TIMEOUT
  <2>10. QED
    BY <2>7, <2>9, NumbersAssumption
<1>2. Spec => []Typed
  BY TypedInit, TypedNext, PTL DEF Spec
<1> HIDE DEF Reasons
<1>3. QED
  BY <1>1, <1>2, ErrorsHaveReasons, PTL DEF Reasons

\* What upstream.py says of a timeout of 0, "NO TIMEOUT: 0", is true of single
\* calls: only a batch that contains such a call is refused for it.
THEOREM OnlyBatchesNeedTimeouts ==
    ASSUME \A b \in Bodies : b.kind = "batch" => ~NoTimeout(b)
    PROVE  Spec => []NoTimeoutServed
<1> DEFINE Reasons == \A r \in Reqs :
               response[r] # None => Reason(body[r], fetch[r], response[r].error)
<1>1. Typed /\ Reasons => NoTimeoutServed
  <2> SUFFICES ASSUME Typed, Reasons, NEW r \in Reqs, response[r] # None,
                      response[r].error = "internal"
               PROVE  fetch[r] # <<>>
    BY DEF NoTimeoutServed
  <2>1. Reason(body[r], fetch[r], "internal")
    OBVIOUS
  <2>2. body[r] \in Bodies
    BY DEF Typed, TypeOK, Staged
  <2>3. Broken(fetch[r])
    BY <2>1, <2>2 DEF Reason
  <2>4. QED
    BY <2>3 DEF Broken
<1>2. Spec => []Typed
  BY TypedInit, TypedNext, PTL DEF Spec
<1> HIDE DEF Reasons
<1>3. QED
  BY <1>1, <1>2, ErrorsHaveReasons, PTL DEF Reasons

\* A request is answered once: whatever fails, times out or returns after the
\* response leaves it, its stage and the body as they are, and so does a
\* restart.  (gather and timeout in handle_jsonrpc, sanic's response timeout)
THEOREM AnsweredOnce ==
    Spec => [][\A r \in Reqs : response[r] # None =>
                  UNCHANGED <<response[r], stage[r], body[r]>>]_vars
<1> DEFINE Final == \A r \in Reqs : response[r] # None =>
                       UNCHANGED <<response[r], stage[r], body[r]>>
<1>1. ASSUME Typed, Next  PROVE Final
  <2>1. TypeOK /\ \A q \in Reqs : response[q] # None => stage[q] = "answered"
    BY <1>1 DEF Typed, Staged
  <2>2. ASSUME NEW r \in Reqs, stage[r] # "answered",
               \E e : Refuse(r, e), UNCHANGED body
        PROVE  Final
    BY <2>1, <2>2 DEF Refuse, Respond, TypeOK
  <2>3. ASSUME UNCHANGED <<stage, response, body>>  PROVE Final
    BY <2>3
  <2>4. ASSUME NEW r \in Reqs, NEW b \in Bodies, Arrive(r, b)  PROVE Final
    <3>1. stage[r] = "new" /\ body' = [body EXCEPT ![r] = b]
      BY <2>4 DEF Arrive
    <3>2. \A q \in Reqs : q # r => stage'[q] = stage[q] /\ response'[q] = response[q]
      BY <2>1, <2>4 DEF Arrive, Refuse, Healthcheck, Respond, TypeOK
    <3>3. \A q \in Reqs : q # r => body'[q] = body[q]
      BY <2>1, <3>1 DEF TypeOK
    <3>4. QED
      BY <2>1, <3>1, <3>2, <3>3
  <2>5. ASSUME NEW r \in Reqs, ReadEnds(r) \/ Handler(r)  PROVE Final
    <3>1. stage[r] \in {"reading", "handling"} /\ UNCHANGED body
      BY <2>5 DEF ReadEnds, Hit, Miss, Handler, Finish, Timeout, ServerTimeout
    <3>2. \A q \in Reqs : q # r => stage'[q] = stage[q] /\ response'[q] = response[q]
      BY <2>1, <2>5
         DEF ReadEnds, Hit, Miss, Dispatch, Handler, Finish, Timeout, ServerTimeout,
             Refuse, Respond, TypeOK
    <3>3. QED
      BY <2>1, <3>1, <3>2
  <2>6. ASSUME NEW r \in Reqs, Background(r) \/ Stores(r)  PROVE Final
    BY <2>3, <2>6 DEF Background, Stores, StoreLib, StoreAnswers
  <2>7. ASSUME NEW r \in Reqs, NEW i \in DOMAIN fetch[r],
               Acquire(r, i) \/ FetchReturns(r, i) \/ FetchFails(r, i)
        PROVE  Final
    BY <2>2, <2>3, <2>7 DEF Acquire, FetchReturns, FetchFails, reqVars
  <2>8. Advance => Final
    BY <2>3 DEF Advance, reqVars
  <2>9. ASSUME Restart  PROVE Final
    BY <2>1, <2>9 DEF Restart
  <2>10. QED
    BY <1>1, <2>4, <2>5, <2>6, <2>7, <2>8, <2>9 DEF Next
<1>2. Spec => []Typed
  BY TypedInit, TypedNext, PTL DEF Spec
<1> HIDE DEF Final
<1>3. QED
  BY <1>1, <1>2, PTL DEF Spec, Final

-----------------------------------------------------------------------------
\* What a client sees implements Gateway.

LEMMA GatewayInit == Init => Client!Init
BY DEF Init, Client!Init, Status

\* An answer is given: the status follows the stage.
LEMMA StatusAnswered ==
    ASSUME TypeOK, NEW r \in Reqs, stage' = [stage EXCEPT ![r] = "answered"]
    PROVE  Status' = [Status EXCEPT ![r] = "answered"]
BY DEF Status, TypeOK

\* The response that an open request gets is a reply.
LEMMA GatewayReply ==
    ASSUME Typed, Typed', NEW r \in Reqs,
           stage[r] \in {"reading", "handling"},
           stage' = [stage EXCEPT ![r] = "answered"],
           response' = [response EXCEPT ![r] = response'[r]], UNCHANGED body
    PROVE  Client!Next
<1>1. Status[r] = "open" /\ Status' = [Status EXCEPT ![r] = "answered"]
  BY StatusAnswered DEF Status, Typed
<1> DEFINE res == response'[r]
<1>2. res # None
  BY DEF Typed, TypeOK, Staged
<1>3. res.error = None => Client!Answers(body[r], res)
  <2> SUFFICES ASSUME res.error = None  PROVE Client!Answers(body[r], res)
    OBVIOUS
  <2>1. /\ Len(res.answers) = Len(body[r].calls)
        /\ \A i \in DOMAIN res.answers :
             res.answers[i].call = body[r].calls[i] /\ res.answers[i].at # None
    <3>1. Served(r)' /\ Matched(r)'
      BY <1>2 DEF Served, Typed
    <3>2. QED
      BY <1>2, <3>1, NoneAssumption DEF Matched, CallsOf
  <2>2. res \in Response /\ body[r] \in Bodies
    BY <1>2 DEF Typed, TypeOK, Staged
  <2>3. res.answers \in Seq(Answer) /\ body[r].calls \in Seq(Calls)
    BY <2>2, BodiesAssumption DEF Response, Body
  <2>4. DOMAIN res.answers = DOMAIN body[r].calls
    BY <2>1, <2>3
  <2>5. QED
    BY <2>1, <2>4 DEF Client!Answers
<1>4. Client!Reply(r, res)
  BY <1>1, <1>2, <1>3 DEF Client!Reply
<1>5. QED
  BY <1>2, <1>4 DEF Client!Next

LEMMA GatewayArrive ==
    ASSUME Typed, Typed', NEW r \in Reqs, NEW b \in Bodies, Arrive(r, b)
    PROVE  Client!Next
<1>1. stage[r] = "new" /\ body' = [body EXCEPT ![r] = b] /\ TypeOK
  BY DEF Arrive, Typed
<1>2. Status[r] = "new" /\ body'[r] = b
  BY <1>1 DEF Status, TypeOK
<1>3. CASE Refusal(b) # None /\ Refuse(r, Refusal(b))
  <2>1. Refusal(b) \in Errors
    BY <1>3, ErrorFacts
  <2>2. response'[r] # None /\ response'[r].error # None
    BY <1>3, <2>1, RefuseFacts
  <2>3. /\ stage' = [stage EXCEPT ![r] = "answered"]
        /\ response' = [response EXCEPT ![r] = response'[r]]
    BY <1>1, <1>3 DEF Refuse, Respond, TypeOK
  <2>4. Client!Refuse(r, b, response'[r])
    BY <1>1, <1>2, <2>2, <2>3, StatusAnswered DEF Client!Refuse
  <2>5. QED
    BY <2>4 DEF Client!Next
<1>4. CASE Refusal(b) = None /\ b.calls = <<>> /\ Healthcheck(r)
  <2>1. Respond(r, None, <<>>, FALSE) /\ FALSE \in BOOLEAN
    BY <1>4 DEF Healthcheck
  <2>2. <<>> \in Seq(Answer)
    OBVIOUS
  <2>3. /\ response'[r] = [error |-> None, answers |-> <<>>, hit |-> FALSE]
        /\ response'[r] # None
    BY <1>1, <2>1, <2>2, RespondFacts
  <2>4. b.kind = "get"
    <3>1. b.kind # "invalid"
      BY <1>4, NoneAssumption DEF Refusal, Parsed, Errors
    <3>2. QED
      BY <1>4, <3>1, BodiesAssumption
  <2>5. response'[r].answers = b.calls /\ b.calls = <<>>
    BY <1>4, <2>3
  <2>6. Client!Answers(b, response'[r])
    BY <2>5 DEF Client!Answers
  <2>7. /\ stage' = [stage EXCEPT ![r] = "answered"]
        /\ response' = [response EXCEPT ![r] = response'[r]]
    BY <1>1, <2>1 DEF Respond, TypeOK
  <2>8. Client!Refuse(r, b, response'[r])
    BY <1>1, <1>2, <2>3, <2>4, <2>6, <2>7, StatusAnswered DEF Client!Refuse
  <2>9. QED
    BY <2>8 DEF Client!Next
<1>5. CASE stage' = [stage EXCEPT ![r] = "reading"] /\ UNCHANGED <<response, jobs>>
  <2>1. Status' = [Status EXCEPT ![r] = "open"]
    BY <1>1, <1>5 DEF Status, TypeOK
  <2>2. Client!Open(r, b)
    BY <1>1, <1>2, <1>5, <2>1 DEF Client!Open
  <2>3. QED
    BY <2>2 DEF Client!Next
<1>6. QED
  BY <1>3, <1>4, <1>5 DEF Arrive

LEMMA GatewayStep ==
    ASSUME Typed, Typed', [Next]_vars
    PROVE  [Client!Next]_(Client!vars)
<1>1. ASSUME NEW r \in Reqs, NEW b \in Bodies, Arrive(r, b)  PROVE Client!Next
  BY <1>1, GatewayArrive
<1>2. ASSUME NEW r \in Reqs, stage[r] \in {"reading", "handling"}, UNCHANGED body,
             \E e, as, hit : Respond(r, e, as, hit)
      PROVE  Client!Next
  <2>1. /\ stage' = [stage EXCEPT ![r] = "answered"]
        /\ response' = [response EXCEPT ![r] = response'[r]]
    BY <1>2 DEF Respond, Typed, TypeOK
  <2>2. QED
    BY <1>2, <2>1, GatewayReply
<1>3. ASSUME UNCHANGED <<Status, response, body>>  PROVE UNCHANGED Client!vars
  BY <1>3 DEF Client!vars
<1>4. UNCHANGED stage => UNCHANGED Status
  BY DEF Status
<1>5. ASSUME NEW r \in Reqs, ReadEnds(r)
      PROVE  Client!Next \/ UNCHANGED Client!vars
  <2>1. stage[r] = "reading" /\ UNCHANGED body
    BY <1>5 DEF ReadEnds, Hit, Miss
  <2>2. CASE Hit(r) \/ \E e : Refuse(r, e)
    BY <1>2, <2>1, <2>2 DEF Hit, Refuse
  <2>3. CASE Dispatch(r)
    <3>1. UNCHANGED Status
      BY <2>1, <2>3 DEF Dispatch, Status, Typed, TypeOK
    <3>2. QED
      BY <1>3, <2>1, <2>3, <3>1 DEF Dispatch
  <2>4. QED
    BY <1>5, <2>2, <2>3 DEF ReadEnds, Miss
<1>6. ASSUME NEW r \in Reqs, Handler(r)  PROVE Client!Next
  <2>1. stage[r] = "handling" /\ UNCHANGED body
    BY <1>6 DEF Handler, Finish, Timeout, ServerTimeout
  <2>2. CASE ServerTimeout(r)
    <3>1. /\ stage' = [stage EXCEPT ![r] = "answered"]
          /\ response' = [response EXCEPT ![r] = response'[r]]
      BY <2>2 DEF ServerTimeout, Typed, TypeOK
    <3>2. QED
      BY <2>1, <3>1, GatewayReply
  <2>3. CASE Finish(r) \/ Timeout(r)
    BY <1>2, <2>1, <2>3 DEF Finish, Timeout, Refuse
  <2>4. QED
    BY <1>6, <2>2, <2>3 DEF Handler
<1>7. ASSUME NEW r \in Reqs, Background(r) \/ Stores(r)  PROVE UNCHANGED Client!vars
  BY <1>3, <1>4, <1>7 DEF Background, Stores, StoreLib, StoreAnswers
<1>8. ASSUME NEW r \in Reqs, NEW i \in DOMAIN fetch[r],
             Acquire(r, i) \/ FetchReturns(r, i) \/ FetchFails(r, i)
      PROVE  Client!Next \/ UNCHANGED Client!vars
  <2>1. CASE stage[r] = "handling" /\ (\E e : Refuse(r, e)) /\ UNCHANGED body
    BY <1>2, <2>1 DEF Refuse
  <2>2. CASE UNCHANGED <<stage, response, body>>
    BY <1>3, <1>4, <2>2
  <2>3. QED
    BY <1>8, <2>1, <2>2 DEF Acquire, FetchReturns, FetchFails, reqVars
<1>9. CASE Advance
  BY <1>3, <1>4, <1>9 DEF Advance, reqVars
<1>10. CASE Restart
  <2>1. Status' = [r \in Reqs |-> IF Status[r] = "open" THEN "lost" ELSE Status[r]]
    BY <1>10 DEF Restart, Status, Typed, TypeOK, Stages
  <2>2. QED
    BY <1>10, <2>1 DEF Restart, Client!Lose, Client!Next
<1>11. CASE UNCHANGED vars
  BY <1>3, <1>4, <1>11 DEF vars, reqVars
<1>12. QED
  BY <1>1, <1>5, <1>6, <1>7, <1>8, <1>9, <1>10, <1>11 DEF Next

\* What clients see of jussi is what Gateway says: of the lookup, the handler,
\* the fetches that fail and the two timeouts exactly one answers a request.
THEOREM RequestsImplementGateway == Spec => ImplementsGateway
<1>1. Spec => []Typed
  BY TypedInit, TypedNext, PTL DEF Spec
<1>2. Typed /\ Typed' /\ [Next]_vars => [Client!Next]_(Client!vars)
  BY GatewayStep
<1>3. QED
  BY <1>1, <1>2, GatewayInit, PTL DEF Spec, ImplementsGateway, Client!Spec
=============================================================================
