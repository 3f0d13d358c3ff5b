------------------------ MODULE IdempotencyRefinement ------------------------
(***************************************************************************)
(* The middleware and RedisStore implement IdempotentSubmission, whatever  *)
(* clients disconnect, replicas die, handlers panic, Redis calls fail and  *)
(* records are lost.                                                       *)
(***************************************************************************)
EXTENDS Idempotency

\* The requests under a key whose own handler run answered below 500.
Settlers(k) ==
    {r \in Requests : /\ Key(r) = k /\ answer[r] # None
                      /\ answer[r].by = r /\ answer[r].status # 500}

\* The member of a set with one member.
The(S) == CHOOSE r \in S : TRUE

Void == {k \in Keys : losses[k] > 0}

Outcome ==
    [k \in Keys |-> IF k \in Void \/ Settlers(k) = {} THEN None
                                                     ELSE The(Settlers(k))]

Promise == INSTANCE IdempotentSubmission
              WITH outcome <- Outcome, void <- Void, reply <- answer

\* Every behaviour of the middleware is one the promise allows: as long as no
\* record of a key is lost, a response below 500 is given once per key and only
\* repeated, to the same body.
KeepsPromise == Promise!Spec

\* What the proof of KeepsPromise needs beyond IndInv: a request is answered
\* once; the settler of a key is the owner of its record; and a hash that is
\* stored or read back is that of some request with the key.
AnsweredOnce ==
    \A r \in Requests :
        pc[r] \in {"idle", "reserve", "lookup", "handle", "unwind"} => answer[r] = None

SettlerOwnsRecord ==
    \A k \in Keys \ Void : \A r \in Settlers(k) :
        /\ store[k] # None /\ store[k].by = r
        /\ pc[r] \in {"complete", "script", "done", "crashed"}

HashesAreUsed ==
    /\ \A k \in Keys : store[k] # None =>
          \E q \in Requests : Key(q) = k /\ Body(q) = store[k].hash
    /\ \A r \in Requests : readHash[r] # None =>
          \E q \in Requests : Key(q) = Key(r) /\ Body(q) = readHash[r]

PromiseInv == AnsweredOnce /\ SettlerOwnsRecord /\ HashesAreUsed
=============================================================================
