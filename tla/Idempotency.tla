----------------------------- MODULE Idempotency -----------------------------
(***************************************************************************)
(* POST /v1/provision behind the idempotency middleware of services/api:   *)
(* IdempotencyMiddleware, RedisStore, ResourceHandler.Provision and the    *)
(* publisher it calls, for any number of concurrent HTTP requests handled  *)
(* by any number of API replicas that share one Redis.                     *)
(*                                                                         *)
(* Every call to Redis or to the queue is one action, because that is      *)
(* where other requests interleave.  A call that fails without effect and  *)
(* a call that takes effect although its reply never arrives are different *)
(* outcomes.  Bodies stand for their SHA-256 hashes.  "unacked" and        *)
(* "losses" count, per key, what happens outside the code: a message whose *)
(* acknowledgement is lost, and a record that disappears (TTL, LRU         *)
(* eviction, a restart of the memory-only Redis, a repeated Release).      *)
(***************************************************************************)
EXTENDS Integers, FiniteSets

CONSTANTS
    Requests,     \* HTTP requests, one goroutine each
    Keys,         \* well-formed values of X-Idempotency-Key
    NoKey,        \* the header is absent
    BadKey,       \* the header is not a UUID
    Bodies,       \* request bodies
    ValidBodies,  \* the bodies DecodeAndValidate accepts
    None,         \* no record, no answer yet
    Faults,       \* the faults of the environment this instance admits
    MaxLosses,    \* bound on the records lost, per key
    MaxUnacked    \* bound on the unacknowledged messages, per header value

FaultKinds == {"cancel", "crash", "redis", "queue", "panic"}

Statuses == {202, 400, 409, 422, 500}

Record ==
    [state : {"IN_FLIGHT"}, hash : Bodies, by : Requests, status : {0}] \cup
    [state : {"COMPLETED"}, hash : Bodies, by : Requests, status : {202, 400}]

Response == [status : Statuses, by : Requests \cup {None}]

ASSUME ConstantsAssumption ==
    /\ IsFiniteSet(Requests)
    /\ ValidBodies \subseteq Bodies
    /\ NoKey \notin Keys /\ BadKey \notin Keys /\ NoKey # BadKey
    /\ None \notin Record /\ None \notin Bodies
    /\ None \notin Requests /\ None \notin Response
    /\ Faults \subseteq FaultKinds
    /\ MaxLosses \in Nat /\ MaxUnacked \in Nat

VARIABLES
    pc,         \* where the goroutine of each request is
    req,        \* the header and the body of each request
    cancelled,  \* requests whose r.Context() is done (the client went away)
    readHash,   \* the request hash Complete read back before its script runs
    store,      \* the Redis record of each key, or None
    answer,     \* the response of each request: its status, and the request
                \* whose handler produced it, None for the middleware's own
    sent,       \* requests that put at least one message on the queue
    published,  \* messages put on the queue under each header value
    unacked,    \* messages stored although the publisher never learnt it
    losses,     \* records that went away other than by an acknowledged Release
    fault       \* requests one of whose Redis calls failed

vars == <<pc, req, cancelled, readHash, store, answer, sent, published,
          unacked, losses, fault>>

Headers == Keys \cup {NoKey, BadKey}

Init ==
    /\ pc = [r \in Requests |-> "idle"]
    /\ req \in [Requests -> [key : Headers, body : Bodies]]
    /\ cancelled = {} /\ sent = {} /\ fault = {}
    /\ readHash = [r \in Requests |-> None]
    /\ store = [k \in Keys |-> None]
    /\ answer = [r \in Requests |-> None]
    /\ published = [h \in Headers |-> 0]
    /\ unacked = [h \in Headers |-> 0]
    /\ losses = [k \in Keys |-> 0]

-----------------------------------------------------------------------------
Key(r) == req[r].key
Body(r) == req[r].body
Keyed(r) == Key(r) \in Keys

Goto(r, p) == pc' = [pc EXCEPT ![r] = p]

Answer(r, status, by) ==
    answer' = [answer EXCEPT ![r] = [status |-> status, by |-> by]]

\* A call to Redis with r.Context() fails when the client has gone away, and
\* may fail when Redis cannot be reached.
CallFails(r) == r \in cancelled \/ "redis" \in Faults

(***************************************************************************)
(* Arrival: the header decides whether the middleware takes part at all.   *)
(***************************************************************************)
PassThrough(r) ==
    /\ pc[r] = "idle" /\ Key(r) = NoKey
    /\ Goto(r, "handle")
    /\ UNCHANGED <<req, cancelled, readHash, store, answer, sent, published,
                   unacked, losses, fault>>

BeginReserve(r) ==
    /\ pc[r] = "idle" /\ Keyed(r)
    /\ Goto(r, "reserve")
    /\ UNCHANGED <<req, cancelled, readHash, store, answer, sent, published,
                   unacked, losses, fault>>

\* A malformed key, or a body that cannot be read to its end.
RejectRequest(r) ==
    /\ pc[r] = "idle" /\ Key(r) # NoKey
    /\ Keyed(r) => r \in cancelled
    /\ Goto(r, "done")
    /\ Answer(r, 400, None)
    /\ UNCHANGED <<req, cancelled, readHash, store, sent, published, unacked,
                   losses, fault>>

(***************************************************************************)
(* RedisStore.Reserve: SET NX and, when the key is taken, a separate GET.  *)
(***************************************************************************)
InFlight(r) == [state |-> "IN_FLIGHT", hash |-> Body(r), by |-> r, status |-> 0]

\* Broken form: SET without NX.
ReserveOverwrites(r) ==
    /\ pc[r] = "reserve" /\ r \notin cancelled
    /\ store' = [store EXCEPT ![Key(r)] = InFlight(r)]
    /\ Goto(r, "handle")
    /\ UNCHANGED <<req, cancelled, readHash, answer, sent, published, unacked,
                   losses, fault>>

ReserveCreated(r) ==
    /\ pc[r] = "reserve" /\ r \notin cancelled
    /\ store[Key(r)] = None
    /\ store' = [store EXCEPT ![Key(r)] = InFlight(r)]
    /\ Goto(r, "handle")
    /\ UNCHANGED <<req, cancelled, readHash, answer, sent, published, unacked,
                   losses, fault>>

ReserveTaken(r) ==
    /\ pc[r] = "reserve" /\ r \notin cancelled
    /\ store[Key(r)] # None
    /\ Goto(r, "lookup")
    /\ UNCHANGED <<req, cancelled, readHash, store, answer, sent, published,
                   unacked, losses, fault>>

\* SET NX applied, reply lost: go-redis repeats the command, which then finds
\* the request's own record, or it reports the error.
ReserveUnacked(r) ==
    /\ pc[r] = "reserve" /\ r \notin cancelled /\ "redis" \in Faults
    /\ store[Key(r)] = None
    /\ store' = [store EXCEPT ![Key(r)] = InFlight(r)]
    /\ fault' = fault \cup {r}
    /\ \/ Goto(r, "lookup") /\ UNCHANGED answer
       \/ Goto(r, "done") /\ Answer(r, 500, None)
    /\ UNCHANGED <<req, cancelled, readHash, sent, published, unacked, losses>>

\* Broken form: a GET that finds nothing is taken for a fresh reservation.
ReserveProceeds(r) ==
    /\ pc[r] \in {"reserve", "lookup"}
    /\ \/ CallFails(r) /\ Goto(r, "done") /\ Answer(r, 500, None)
       \/ /\ pc[r] = "lookup" /\ store[Key(r)] = None
          /\ Goto(r, "handle") /\ UNCHANGED answer
    /\ UNCHANGED <<req, cancelled, readHash, store, sent, published, unacked,
                   losses, fault>>

\* Broken form: a failed call is tried again, even when r.Context() is done.
ReserveRetriesForEver(r) ==
    /\ pc[r] \in {"reserve", "lookup"} /\ CallFails(r)
    /\ UNCHANGED vars

\* Reserve returns an error, from SET NX or from the GET, and the middleware
\* fails closed.  The GET that finds nothing is such an error too: the record
\* went away after SET NX had reported it.
ReserveFails(r) ==
    /\ pc[r] \in {"reserve", "lookup"}
    /\ \/ CallFails(r)
       \/ pc[r] = "lookup" /\ store[Key(r)] = None
    /\ Goto(r, "done")
    /\ Answer(r, 500, None)
    /\ UNCHANGED <<req, cancelled, readHash, store, sent, published, unacked,
                   losses, fault>>

\* Broken form: the request hash is not compared.
ReplayAnyBody(r) ==
    LET rec == store[Key(r)]
    IN  /\ pc[r] = "lookup" /\ r \notin cancelled /\ rec # None
        /\ Goto(r, "done")
        /\ \/ rec.state = "IN_FLIGHT" /\ Answer(r, 409, None)
           \/ rec.state = "COMPLETED" /\ Answer(r, rec.status, rec.by)
        /\ UNCHANGED <<req, cancelled, readHash, store, sent, published,
                       unacked, losses, fault>>

\* The GET succeeds and replayCachedResponse answers from the record.
Replay(r) ==
    LET rec == store[Key(r)]
    IN  /\ pc[r] = "lookup" /\ r \notin cancelled /\ rec # None
        /\ Goto(r, "done")
        /\ \/ rec.hash # Body(r) /\ Answer(r, 422, None)
           \/ rec.hash = Body(r) /\ rec.state = "IN_FLIGHT" /\ Answer(r, 409, None)
           \/ /\ rec.hash = Body(r) /\ rec.state = "COMPLETED"
              /\ Answer(r, rec.status, rec.by)
        /\ UNCHANGED <<req, cancelled, readHash, store, sent, published,
                       unacked, losses, fault>>

(***************************************************************************)
(* The handler: validate, publish, respond.  What follows depends on the   *)
(* status: below 500 the response is stored, otherwise the key is freed.   *)
(***************************************************************************)
AfterHandler(r, next) == Goto(r, IF Keyed(r) THEN next ELSE "done")

ValidationFails(r) ==
    /\ pc[r] = "handle" /\ Body(r) \notin ValidBodies
    /\ Answer(r, 400, r)
    /\ AfterHandler(r, "complete")
    /\ UNCHANGED <<req, cancelled, readHash, store, sent, published, unacked,
                   losses, fault>>

\* Broken form: the key is released although the response is below 500.
PublishSucceedsReleasing(r) ==
    /\ pc[r] = "handle" /\ Body(r) \in ValidBodies /\ r \notin cancelled
    /\ sent' = sent \cup {r}
    /\ published' = [published EXCEPT ![Key(r)] = @ + 1]
    /\ Answer(r, 202, r)
    /\ AfterHandler(r, "release")
    /\ UNCHANGED <<req, cancelled, readHash, store, unacked, losses, fault>>

PublishSucceeds(r) ==
    /\ pc[r] = "handle" /\ Body(r) \in ValidBodies /\ r \notin cancelled
    /\ sent' = sent \cup {r}
    /\ published' = [published EXCEPT ![Key(r)] = @ + 1]
    /\ Answer(r, 202, r)
    /\ AfterHandler(r, "complete")
    /\ UNCHANGED <<req, cancelled, readHash, store, unacked, losses, fault>>

\* The queue stores the message but the acknowledgement is lost; the client
\* library tries again or reports an error.
PublishUnacked(r) ==
    /\ pc[r] = "handle" /\ Body(r) \in ValidBodies /\ r \notin cancelled
    /\ "queue" \in Faults /\ unacked[Key(r)] < MaxUnacked
    /\ sent' = sent \cup {r}
    /\ published' = [published EXCEPT ![Key(r)] = @ + 1]
    /\ unacked' = [unacked EXCEPT ![Key(r)] = @ + 1]
    /\ UNCHANGED <<pc, req, cancelled, readHash, store, answer, losses, fault>>

\* Broken forms: the error of the publisher is dropped; the key is not
\* released.
PublishErrorDropped(r) ==
    /\ pc[r] = "handle" /\ Body(r) \in ValidBodies
    /\ r \in cancelled \/ "queue" \in Faults
    /\ Answer(r, 202, r)
    /\ AfterHandler(r, "complete")
    /\ UNCHANGED <<req, cancelled, readHash, store, sent, published, unacked,
                   losses, fault>>

PublishFailsHolding(r) ==
    /\ pc[r] = "handle" /\ Body(r) \in ValidBodies
    /\ r \in cancelled \/ "queue" \in Faults
    /\ Answer(r, 500, r)
    /\ AfterHandler(r, "done")
    /\ UNCHANGED <<req, cancelled, readHash, store, sent, published, unacked,
                   losses, fault>>

PublishFails(r) ==
    /\ pc[r] = "handle" /\ Body(r) \in ValidBodies
    /\ r \in cancelled \/ "queue" \in Faults
    /\ Answer(r, 500, r)
    /\ AfterHandler(r, "release")
    /\ UNCHANGED <<req, cancelled, readHash, store, sent, published, unacked,
                   losses, fault>>

\* The deferred function releases the key and panics again; without a key
\* RecoveryMiddleware answers at once.
HandlerPanics(r) ==
    /\ pc[r] = "handle" /\ "panic" \in Faults
    /\ AfterHandler(r, "unwind")
    /\ IF Keyed(r) THEN UNCHANGED answer ELSE Answer(r, 500, None)
    /\ UNCHANGED <<req, cancelled, readHash, store, sent, published, unacked,
                   losses, fault>>

(***************************************************************************)
(* RedisStore.Complete: GET, then the script that overwrites the record if *)
(* the key still exists, whoever owns it.                                  *)
(***************************************************************************)
\* Broken form: the request hash is not carried over.
CompleteGetHashless(r) ==
    /\ pc[r] = "complete" /\ r \notin cancelled
    /\ Goto(r, IF store[Key(r)] = None THEN "done" ELSE "script")
    /\ UNCHANGED <<req, cancelled, readHash, store, answer, sent, published,
                   unacked, losses, fault>>

CompleteGet(r) ==
    /\ pc[r] = "complete" /\ r \notin cancelled
    /\ IF store[Key(r)] = None
       THEN Goto(r, "done") /\ UNCHANGED readHash
       ELSE /\ Goto(r, "script")
            /\ readHash' = [readHash EXCEPT ![r] = store[Key(r)].hash]
    /\ UNCHANGED <<req, cancelled, store, answer, sent, published, unacked,
                   losses, fault>>

Completed(r) == [state |-> "COMPLETED", hash |-> readHash[r], by |-> r,
                 status |-> answer[r].status]

CompleteScript(r) ==
    /\ pc[r] = "script" /\ r \notin cancelled
    /\ store' = IF store[Key(r)] = None THEN store
                ELSE [store EXCEPT ![Key(r)] = Completed(r)]
    /\ \/ Goto(r, "done") /\ readHash' = [readHash EXCEPT ![r] = None]
       \/ "redis" \in Faults /\ UNCHANGED <<pc, readHash>>  \* reply lost, repeated
    /\ UNCHANGED <<req, cancelled, answer, sent, published, unacked, losses,
                   fault>>

\* The error is dropped: the header it sets comes after the response is sent.
CompleteFails(r) ==
    /\ pc[r] \in {"complete", "script"} /\ CallFails(r)
    /\ Goto(r, "done")
    /\ readHash' = [readHash EXCEPT ![r] = None]
    /\ fault' = fault \cup {r}
    /\ UNCHANGED <<req, cancelled, store, answer, sent, published, unacked,
                   losses>>

(***************************************************************************)
(* RedisStore.Release deletes the key's record if it is IN_FLIGHT, whoever *)
(* owns it.  It runs under context.Background(), so a client that went     *)
(* away does not stop it.                                                  *)
(***************************************************************************)
FinishRelease(r) ==
    /\ Goto(r, "done")
    /\ IF pc[r] = "unwind" THEN Answer(r, 500, None) ELSE UNCHANGED answer

ReleaseScript(r) ==
    /\ pc[r] \in {"release", "unwind"}
    /\ store' = IF store[Key(r)] # None /\ store[Key(r)].state = "IN_FLIGHT"
                THEN [store EXCEPT ![Key(r)] = None] ELSE store
    /\ FinishRelease(r)
    /\ UNCHANGED <<req, cancelled, readHash, sent, published, unacked, losses,
                   fault>>

\* Script applied, reply lost: go-redis runs it again, and the second run may
\* delete the reservation of a request that came in between.
ReleaseUnacked(r) ==
    /\ pc[r] \in {"release", "unwind"} /\ "redis" \in Faults
    /\ store[Key(r)] # None /\ store[Key(r)].state = "IN_FLIGHT"
    /\ losses[Key(r)] < MaxLosses
    /\ store' = [store EXCEPT ![Key(r)] = None]
    /\ losses' = [losses EXCEPT ![Key(r)] = @ + 1]
    /\ UNCHANGED <<pc, req, cancelled, readHash, answer, sent, published,
                   unacked, fault>>

ReleaseFails(r) ==
    /\ pc[r] \in {"release", "unwind"} /\ "redis" \in Faults
    /\ FinishRelease(r)
    /\ fault' = fault \cup {r}
    /\ UNCHANGED <<req, cancelled, readHash, store, sent, published, unacked,
                   losses>>

-----------------------------------------------------------------------------
(***************************************************************************)
(* The environment: clients that go away, replicas that die, records that  *)
(* disappear.                                                              *)
(***************************************************************************)
Finished(r) == pc[r] \in {"done", "crashed"}

Cancel(r) ==
    /\ "cancel" \in Faults /\ r \notin cancelled /\ ~Finished(r)
    /\ cancelled' = cancelled \cup {r}
    /\ UNCHANGED <<pc, req, readHash, store, answer, sent, published, unacked,
                   losses, fault>>

\* The replica dies.  A crash of a replica is a crash of each of its requests.
Crash(r) ==
    /\ "crash" \in Faults /\ pc[r] # "idle" /\ ~Finished(r)
    /\ Goto(r, "crashed")
    /\ readHash' = [readHash EXCEPT ![r] = None]
    /\ UNCHANGED <<req, cancelled, store, answer, sent, published, unacked,
                   losses, fault>>

\* Broken form: the reservation is written without a TTL.
LoseCompleted(k) ==
    /\ store[k] # None /\ store[k].state = "COMPLETED" /\ losses[k] < MaxLosses
    /\ store' = [store EXCEPT ![k] = None]
    /\ losses' = [losses EXCEPT ![k] = @ + 1]
    /\ UNCHANGED <<pc, req, cancelled, readHash, answer, sent, published,
                   unacked, fault>>

LoseRecord(k) ==
    /\ store[k] # None /\ losses[k] < MaxLosses
    /\ store' = [store EXCEPT ![k] = None]
    /\ losses' = [losses EXCEPT ![k] = @ + 1]
    /\ UNCHANGED <<pc, req, cancelled, readHash, answer, sent, published,
                   unacked, fault>>

\* Every request has been served; nothing is left to do.
Quiescent == (\A r \in Requests : Finished(r)) /\ UNCHANGED vars

Step(r) ==
    \/ PassThrough(r) \/ BeginReserve(r) \/ RejectRequest(r)
    \/ ReserveCreated(r) \/ ReserveTaken(r) \/ ReserveUnacked(r)
    \/ ReserveFails(r) \/ Replay(r)
    \/ ValidationFails(r) \/ PublishSucceeds(r) \/ PublishUnacked(r)
    \/ PublishFails(r) \/ HandlerPanics(r)
    \/ CompleteGet(r) \/ CompleteScript(r) \/ CompleteFails(r)
    \/ ReleaseScript(r) \/ ReleaseUnacked(r) \/ ReleaseFails(r)

Next ==
    \/ \E r \in Requests : Step(r) \/ Cancel(r) \/ Crash(r)
    \/ \E k \in Keys : LoseRecord(k)
    \/ Quiescent

Spec == Init /\ [][Next]_vars

\* The Go scheduler runs every goroutine and every call returns or times out.
\* Redis expires every record when its TTL elapses.
FairSpec ==
    /\ Spec
    /\ \A r \in Requests : WF_vars(Step(r))
    /\ \A k \in Keys : WF_vars(LoseRecord(k))

-----------------------------------------------------------------------------
(***************************************************************************)
(* Properties.                                                             *)
(***************************************************************************)

\* Every variable keeps its type: the five phases of the middleware, one
\* record per key as recordEnvelope defines it, one response per request.
TypeOK ==
    /\ pc \in [Requests -> {"idle", "reserve", "lookup", "handle", "complete",
                            "script", "release", "unwind", "done", "crashed"}]
    /\ req \in [Requests -> [key : Headers, body : Bodies]]
    /\ cancelled \subseteq Requests /\ sent \subseteq Requests
    /\ fault \subseteq Requests
    /\ readHash \in [Requests -> Bodies \cup {None}]
    /\ store \in [Keys -> Record \cup {None}]
    /\ answer \in [Requests -> Response \cup {None}]
    /\ published \in [Headers -> Nat] /\ unacked \in [Headers -> Nat]
    /\ losses \in [Keys -> Nat]
    /\ \A r \in Requests :
          /\ pc[r] = "script" => readHash[r] \in Bodies
          /\ pc[r] \in {"complete", "script"} =>
                answer[r] \in [status : {202, 400}, by : {r}]
          /\ pc[r] \in {"reserve", "lookup", "complete", "script", "release",
                        "unwind"} => Keyed(r)
          /\ pc[r] = "handle" => Key(r) \in Keys \cup {NoKey}

\* The handler and the store calls that follow it run for a keyed request
\* only after Reserve returned created = true.
Active(r) ==
    Keyed(r) /\ pc[r] \in {"handle", "complete", "script", "release", "unwind"}

\* Duplicate publishes: under one key the queue receives one message, plus at
\* most one for each record that was lost and each message whose
\* acknowledgement was lost, whatever crashes, disconnects, panics and
\* retries there are (the ADR's "stops duplicate SQS publishes").
DuplicateBound ==
    \A k \in Keys : published[k] <= 1 + losses[k] + unacked[k]

\* Requests that may still publish, or are about to free the key because
\* they did not get an acknowledgement.
HoldingStates == {"handle", "release", "unwind"}

Permits(k) == {r \in Requests : Key(r) = k /\ pc[r] \in HoldingStates}

\* Publishing consumes the permit SET NX granted; a permit comes back only
\* through Release or a loss.  Inductive form of DuplicateBound.
PermitsConserved ==
    \A k \in Keys :
        Cardinality(Permits(k)) + published[k] + (IF store[k] = None THEN 1 ELSE 0)
            <= 1 + losses[k] + unacked[k]

\* As long as no record of the key was lost, the request that reserved it is
\* the only one that runs the handler or touches the record ("the only
\* goroutine wrapping the handler for that key").
OneHandlerPerKey ==
    \A r, q \in Requests :
        Active(r) /\ Active(q) /\ Key(r) = Key(q) /\ losses[Key(r)] = 0 => r = q

\* An IN_FLIGHT record belongs to a request that will still complete or
\* release it, or whose replica died or whose Redis call failed: no return
\* path of the middleware forgets a reservation.
InFlightHasOwner ==
    \A k \in Keys :
        store[k] # None /\ store[k].state = "IN_FLIGHT" =>
            LET o == store[k].by
            IN  Active(o) \/ pc[o] = "crashed" \/ o \in fault

\* A 202, fresh or replayed, comes from a run of the handler that put a
\* message on the queue.
AcceptedMeansPublished ==
    \A r \in Requests :
        answer[r] # None /\ answer[r].status = 202 => answer[r].by \in sent

\* As long as no record of the key was lost, a handler's response goes only
\* to requests with the same key and the same body: the 422 check protects
\* the cached response.
ReplayOfSameBody ==
    \A r \in Requests :
        answer[r] # None /\ answer[r].by # None =>
            LET p == answer[r].by
            IN  /\ Key(p) = Key(r)
                /\ Keyed(r) /\ losses[Key(r)] = 0 => Body(p) = Body(r)

\* Inductive strengthening of the three properties above: what a record says
\* of the request it names, and that a running request is the one its key's
\* record names.
RecordMatchesOwner ==
    \A k \in Keys : store[k] # None =>
        LET o == store[k].by
        IN  /\ Key(o) = k
            /\ losses[k] = 0 => store[k].hash = Body(o)
            /\ store[k].state = "COMPLETED" =>
                  /\ answer[o] = [status |-> store[k].status, by |-> o]
                  /\ pc[o] \in {"script", "done", "crashed"}

RunningOwnsRecord ==
    \A r \in Requests : Active(r) /\ losses[Key(r)] = 0 =>
        /\ store[Key(r)] # None /\ store[Key(r)].by = r
        /\ store[Key(r)].state = "COMPLETED" => pc[r] = "script"
        /\ pc[r] = "script" => readHash[r] = Body(r)

IndInv ==
    /\ TypeOK /\ RecordMatchesOwner /\ RunningOwnsRecord /\ InFlightHasOwner
    /\ AcceptedMeansPublished /\ ReplayOfSameBody

\* As long as no record of the key was lost, a COMPLETED record is final:
\* no Reserve, Complete or Release changes it ("that response is the truth").
CompletedIsFinal ==
    [][\A k \in Keys :
          store[k] # None /\ store[k].state = "COMPLETED" /\ losses'[k] = 0
              => store'[k] = store[k]]_vars

\* The documentation's claims, checked as they are worded.

\* "the COMPLETED record only overwrites an IN_FLIGHT record we still own"
\* (the comment on RedisStore).
CompleteOnlyOverwritesOwn ==
    [][\A k \in Keys :
          store'[k] # store[k] /\ store'[k] # None /\ store'[k].state = "COMPLETED"
              => store[k].state = "IN_FLIGHT" /\ store[k].by = store'[k].by]_vars

\* 409 goes to "a second request that arrives while the first is still
\* running" (ADR-0002): some other request with the key is running.
ConflictMeansRunning ==
    [][\A r \in Requests :
          answer'[r] # answer[r] /\ answer'[r].status = 409
              => \E q \in Requests \ {r} : Key(q) = Key(r) /\ Active(q)]_vars

\* "Reserve must be atomic: it either creates an IN_FLIGHT record or returns
\* the existing one" (IdempotencyStore): with a Redis that answers every
\* call, no request is refused because Reserve returned an error.
ReserveIsAtomic ==
    \A r \in Requests \ cancelled :
        answer[r] # None /\ answer[r].by = None /\ pc[r] = "done"
            => answer[r].status # 500

\* Every request that enters the middleware is answered unless its replica dies.
EveryRequestEnds ==
    \A r \in Requests : pc[r] # "idle" ~> Finished(r)

\* A key never stays IN_FLIGHT for good, even if its owner died: the
\* reservation carries the TTL.
ReservationEnds ==
    \A k \in Keys :
        store[k] # None /\ store[k].state = "IN_FLIGHT"
            ~> store[k] = None \/ store[k].state = "COMPLETED"
=============================================================================
