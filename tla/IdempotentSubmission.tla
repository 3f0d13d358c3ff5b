------------------------- MODULE IdempotentSubmission -------------------------
(***************************************************************************)
(* What the idempotency layer promises a client of POST /v1/provision,     *)
(* with nothing said of Redis, scripts or goroutines.  Under each key the  *)
(* first request whose handler answers below 500 settles the outcome, once *)
(* and for all; every other answer under the key repeats that outcome to a *)
(* request with the same body, or is a refusal with no effect.             *)
(*                                                                         *)
(* The promise for a key is void once the store has lost a record of it.   *)
(* What is left then: a response that is not the request's own is still    *)
(* one a handler gave under the same key.                                  *)
(***************************************************************************)
CONSTANTS Requests, Headers, Keys, Bodies, ValidBodies, None

VARIABLES
    req,      \* header and body of each request
    outcome,  \* the request that settled each key, or None
    void,     \* keys whose record was lost
    reply     \* the answer to each request, or None

vars == <<req, outcome, void, reply>>

Init ==
    /\ req \in [Requests -> [key : Headers, body : Bodies]]
    /\ outcome = [k \in Keys |-> None] /\ void = {}
    /\ reply = [r \in Requests |-> None]

Key(r) == req[r].key
Body(r) == req[r].body

\* The response the handler gives when the queue accepts the message.
Verdict(r) == IF Body(r) \in ValidBodies THEN 202 ELSE 400

Reply(r, status, by) ==
    /\ reply[r] = None
    /\ reply' = [reply EXCEPT ![r] = [status |-> status, by |-> by]]
    /\ UNCHANGED <<req, void>>

\* The handler runs for the key and settles it.
Settle(r) ==
    /\ Key(r) \in Keys \ void /\ outcome[Key(r)] = None
    /\ Reply(r, Verdict(r), r)
    /\ outcome' = [outcome EXCEPT ![Key(r)] = r]

\* The settled outcome is repeated to a request with the same body.
Repeat(r) ==
    /\ Key(r) \in Keys \ void /\ outcome[Key(r)] # None
    /\ Body(r) = Body(outcome[Key(r)])
    /\ Reply(r, reply[outcome[Key(r)]].status, outcome[Key(r)])
    /\ UNCHANGED outcome

\* No key, or one whose record was lost: the handler answers every time.
Unprotected(r) ==
    /\ Key(r) \notin Keys \ void
    /\ Reply(r, Verdict(r), r)
    /\ UNCHANGED outcome

\* The store loses the record of a key.
Forget(k) ==
    /\ void' = void \cup {k}
    /\ outcome' = [outcome EXCEPT ![k] = None]
    /\ UNCHANGED <<req, reply>>

\* What the store holds of such a key is some handler's response under it.
RepeatAny(r) ==
    /\ Key(r) \in void
    /\ \E q \in Requests :
          /\ Key(q) = Key(r) /\ reply[q] # None /\ reply[q].by = q
          /\ Reply(r, reply[q].status, q)
    /\ UNCHANGED outcome

\* A failure of the handler or a refusal by the middleware settles nothing;
\* 422 means that some request used the key with another body.
Refuse(r) ==
    /\ \/ Reply(r, 500, r)
       \/ \E status \in {400, 409, 500} : Reply(r, status, None)
       \/ /\ \E q \in Requests : Key(q) = Key(r) /\ Body(q) # Body(r)
          /\ Reply(r, 422, None)
    /\ UNCHANGED outcome

Next ==
    \/ \E r \in Requests :
          Settle(r) \/ Repeat(r) \/ Unprotected(r) \/ RepeatAny(r) \/ Refuse(r)
    \/ \E k \in Keys : Forget(k)

Spec == Init /\ [][Next]_vars
=============================================================================
