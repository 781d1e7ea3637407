------------------------------- MODULE Gateway -------------------------------
(***************************************************************************)
(* What jussi promises a client: a request is answered at most once, with  *)
(* one answer per call, in the order of the calls, or with one error; only *)
(* the end of the process takes an open request away without an answer.    *)
(* On arrival a request can only be refused, or have no calls.             *)
(***************************************************************************)
CONSTANTS Reqs, Bodies, None

VARIABLES
    status,    \* status[r]: "new", "open", "answered" or "lost"
    body,      \* body[r]: what r's client sent
    response   \* response[r]: what r's client got, or None

vars == <<status, body, response>>

Init ==
    /\ status = [r \in Reqs |-> "new"]
    /\ body = [r \in Reqs |-> None]
    /\ response = [r \in Reqs |-> None]

\* One answer for each call, in its place.
Answers(b, res) ==
    /\ DOMAIN res.answers = DOMAIN b.calls
    /\ \A i \in DOMAIN b.calls :
         res.answers[i].call = b.calls[i] /\ res.answers[i].at # None

Open(r, b) ==
    /\ status[r] = "new"
    /\ status' = [status EXCEPT ![r] = "open"]
    /\ body' = [body EXCEPT ![r] = b]
    /\ UNCHANGED response

\* Refused on arrival, or GET /health.
Refuse(r, b, res) ==
    /\ status[r] = "new"
    /\ res # None
    /\ res.error = None => b.kind = "get" /\ Answers(b, res)
    /\ status' = [status EXCEPT ![r] = "answered"]
    /\ body' = [body EXCEPT ![r] = b]
    /\ response' = [response EXCEPT ![r] = res]

Reply(r, res) ==
    /\ status[r] = "open"
    /\ res # None
    /\ res.error = None => Answers(body[r], res)
    /\ status' = [status EXCEPT ![r] = "answered"]
    /\ response' = [response EXCEPT ![r] = res]
    /\ UNCHANGED body

\* The process ends.
Lose ==
    /\ status' = [r \in Reqs |-> IF status[r] = "open" THEN "lost" ELSE status[r]]
    /\ UNCHANGED <<body, response>>

Next ==
    \/ \E r \in Reqs, b \in Bodies : Open(r, b)
    \/ \E r \in Reqs, b \in Bodies : Refuse(r, b, response'[r])
    \/ \E r \in Reqs : Reply(r, response'[r])
    \/ Lose

Spec == Init /\ [][Next]_vars
=============================================================================
