------------------------------ MODULE Scaffolder ------------------------------
(***************************************************************************)
(* services/scaffolder: the TaskQueueWorker that takes Step Functions task *)
(* tokens from an SQS queue, and the ReserveName task it dispatches, which *)
(* claims an application name by one conditional DynamoDB write that       *)
(* expires.                                                                *)
(*                                                                         *)
(* Every call to SQS, DynamoDB or Step Functions is one action.  A call    *)
(* may fail without effect, or take effect and lose its reply.  SQS hands  *)
(* a message out again when its visibility timeout lapses, whatever the    *)
(* worker that has it is doing.  Time is counted in seconds, the unit      *)
(* DynamoDB expires items in.                                              *)
(***************************************************************************)
EXTENDS Integers, FiniteSets

CONSTANTS
    Workers,         \* worker pods: one, or two while a rollout overlaps
    Tasks,           \* task states the machine entered; one message, one token each
    Names,           \* application names that ApplicationName.Parse accepts
    Requests,        \* provisioning request ids
    None,            \* no reservation, no task in hand
    Ttl,             \* ReservationTtl
    Horizon,         \* bound on the clock
    MaxReceives,     \* maxReceiveCount of the redrive policy
    BatchSize,       \* MaxMessagesPerReceive
    MaxDisruptions,  \* bound on shutdowns, crashes and failed receives
    Faults           \* {"aws"} when calls may fail, {} otherwise

Reservation == [by : Requests, until : Nat]

\* What a message asks for: a reservation; something FailAsync reports (an
\* invalid name, an unknown task, a payload that does not bind); something
\* that raises any other exception (no RequestId); nothing that has a token.
Payload ==
    [kind : {"reserve"}, name : Names, request : Requests] \cup
    [kind : {"refused", "raises", "unreadable"}]

ASSUME ConstantsAssumption ==
    /\ None \notin Reservation /\ None \notin Tasks /\ None \notin Workers
    /\ Ttl \in Nat \ {0} /\ Horizon \in Nat
    /\ MaxReceives \in Nat \ {0} /\ BatchSize \in Nat \ {0}
    /\ MaxDisruptions \in Nat
    /\ Faults \subseteq {"aws"}

VARIABLES
    work,         \* the payload of each message
    queue,        \* where each message is
    receives,     \* its ApproximateReceiveCount
    receiver,     \* the worker that has its latest receipt handle
    token,        \* what Step Functions knows of each task
    granted,      \* the ExpiresAt reported with a success
    pc,           \* where each worker's loop is
    batch,        \* messages received and not yet looked at
    current,      \* the message in hand
    until,        \* the ExpiresAt of the reservation being written
    stopping,     \* workers whose stoppingToken is cancelled
    reservation,  \* the table: one item per name, or None
    lapsed,       \* names whose item DynamoDB has deleted at least once
    now,          \* the clock
    disruptions   \* shutdowns, crashes and failed receives so far

sqsVars == <<queue, receives, receiver>>
sfnVars == <<token, granted>>
workerVars == <<pc, batch, current, until, stopping>>
tableVars == <<reservation, lapsed>>
vars == <<work, sqsVars, sfnVars, workerVars, tableVars, now, disruptions>>

Init ==
    /\ work \in [Tasks -> Payload]
    /\ queue = [t \in Tasks |-> "visible"]
    /\ receives = [t \in Tasks |-> 0]
    /\ receiver = [t \in Tasks |-> None]
    /\ token = [t \in Tasks |-> "waiting"]
    /\ granted = [t \in Tasks |-> 0]
    /\ pc = [w \in Workers |-> "resolve"]
    /\ batch = [w \in Workers |-> {}]
    /\ current = [w \in Workers |-> None]
    /\ until = [w \in Workers |-> 0]
    /\ stopping = {} /\ lapsed = {}
    /\ reservation = [n \in Names |-> None]
    /\ now = 0 /\ disruptions = 0

-----------------------------------------------------------------------------
Goto(w, p) == pc' = [pc EXCEPT ![w] = p]

Kind(t) == work[t].kind
Name(t) == work[t].name
Request(t) == work[t].request

\* A call throws: OperationCanceledException during shutdown, or a fault.
CallThrows(w) == w \in stopping \/ Faults # {}

(***************************************************************************)
(* The loop: resolve the queue, receive, take the messages one by one.     *)
(***************************************************************************)
\* A failed GetQueueUrl is retried for ever, so only its success is a step.
Resolve(w) ==
    /\ pc[w] = "resolve"
    /\ Goto(w, IF w \in stopping THEN "stopped" ELSE "poll")
    /\ UNCHANGED <<work, sqsVars, sfnVars, batch, current, until, stopping,
                   tableVars, now, disruptions>>

Receivable == {t \in Tasks : queue[t] = "visible" /\ receives[t] < MaxReceives}

Batches == {ms \in SUBSET Receivable \ {{}} : Cardinality(ms) <= BatchSize}

\* SQS gives the messages ms to w.
HandOut(ms, w) ==
    /\ queue' = [t \in Tasks |-> IF t \in ms THEN "inflight" ELSE queue[t]]
    /\ receives' = [t \in Tasks |-> IF t \in ms THEN receives[t] + 1 ELSE receives[t]]
    /\ receiver' = [t \in Tasks |-> IF t \in ms THEN w ELSE receiver[t]]

Receive(w) ==
    /\ pc[w] = "poll" /\ w \notin stopping
    /\ \E ms \in Batches : HandOut(ms, w) /\ batch' = [batch EXCEPT ![w] = ms]
    /\ Goto(w, "batch")
    /\ UNCHANGED <<work, sfnVars, current, until, stopping, tableVars, now,
                   disruptions>>

\* The messages are handed out and the reply is lost: nobody has them until their
\* visibility timeout lapses.
ReceiveUnacked(w) ==
    /\ pc[w] = "poll" /\ CallThrows(w)
    /\ \E ms \in Batches : HandOut(ms, w)
    /\ UNCHANGED <<work, sfnVars, workerVars, tableVars, now, disruptions>>

\* The long poll returns nothing; an AmazonSQSException leads back here too.
ReceiveNothing(w) ==
    /\ pc[w] = "poll" /\ w \notin stopping
    /\ Receivable = {}
    /\ UNCHANGED vars

\* Any exception but AmazonSQSException leaves ExecuteAsync.
ReceiveThrows(w) ==
    /\ pc[w] = "poll" /\ w \notin stopping
    /\ Faults # {} /\ disruptions < MaxDisruptions
    /\ disruptions' = disruptions + 1
    /\ Goto(w, "faulted")
    /\ UNCHANGED <<work, sqsVars, sfnVars, batch, current, until, stopping,
                   tableVars, now>>

\* Both loops look at stoppingToken; what is left of the batch is dropped.
Leave(w) ==
    /\ pc[w] \in {"poll", "batch"} /\ w \in stopping
    /\ Goto(w, "stopped")
    /\ batch' = [batch EXCEPT ![w] = {}]
    /\ UNCHANGED <<work, sqsVars, sfnVars, current, until, stopping, tableVars,
                   now, disruptions>>

BatchDone(w) ==
    /\ pc[w] = "batch" /\ w \notin stopping /\ batch[w] = {}
    /\ Goto(w, "poll")
    /\ UNCHANGED <<work, sqsVars, sfnVars, batch, current, until, stopping,
                   tableVars, now, disruptions>>

\* Broken form: a message without a token is dispatched like any other.
ReadAny(w) ==
    /\ pc[w] = "batch" /\ w \notin stopping
    /\ \E t \in batch[w] :
          /\ batch' = [batch EXCEPT ![w] = @ \ {t}]
          /\ Goto(w, "dispatch") /\ current' = [current EXCEPT ![w] = t]
    /\ UNCHANGED <<work, sqsVars, sfnVars, until, stopping, tableVars, now,
                   disruptions>>

\* HandleAsync deserializes the envelope; one that does not parse or has no
\* token is left for the DLQ.
Read(w) ==
    /\ pc[w] = "batch" /\ w \notin stopping
    /\ \E t \in batch[w] :
          /\ batch' = [batch EXCEPT ![w] = @ \ {t}]
          /\ IF Kind(t) = "unreadable"
             THEN UNCHANGED <<pc, current>>
             ELSE Goto(w, "dispatch") /\ current' = [current EXCEPT ![w] = t]
    /\ UNCHANGED <<work, sqsVars, sfnVars, until, stopping, tableVars, now,
                   disruptions>>

-----------------------------------------------------------------------------
(***************************************************************************)
(* HandleAsync.  Proceed(w) ends it and moves on to the rest of the batch; a  *)
(* message that is not deleted by then is left on the queue.               *)
(***************************************************************************)
Proceed(w) ==
    /\ Goto(w, "batch")
    /\ current' = [current EXCEPT ![w] = None]

\* NameReservation.Open, with the time the use case reads.
Open(w) == until' = [until EXCEPT ![w] = now + Ttl]

\* Broken form: the task is tried again at once instead of left on the queue.
DispatchRetries(w) ==
    /\ pc[w] = "dispatch"
    /\ CASE Kind(current[w]) = "reserve" ->
              /\ Goto(w, "put")
              /\ Open(w)
              /\ UNCHANGED current
         [] Kind(current[w]) = "refused" -> Goto(w, "fail") /\ UNCHANGED <<current, until>>
         [] OTHER -> UNCHANGED <<pc, current, until>>
    /\ UNCHANGED <<work, sqsVars, sfnVars, batch, stopping, tableVars, now,
                   disruptions>>

\* DispatchAsync up to the store: the handler is looked up, the payload bound,
\* the name parsed and the reservation opened.
Dispatch(w) ==
    /\ pc[w] = "dispatch"
    /\ CASE Kind(current[w]) = "reserve" ->
              /\ Goto(w, "put")
              /\ Open(w)
              /\ UNCHANGED current
         [] Kind(current[w]) = "refused" -> Goto(w, "fail") /\ UNCHANGED <<current, until>>
         [] OTHER -> Proceed(w) /\ UNCHANGED until
    /\ UNCHANGED <<work, sqsVars, sfnVars, batch, stopping, tableVars, now,
                   disruptions>>

\* Broken forms of the condition: none at all; no clause for a replay.
MayReserveAlways(t) == TRUE
MayReserveOnce(t) == reservation[Name(t)] = None

\* "attribute_not_exists(PK) OR RequestId = :requestId"
MayReserve(t) ==
    reservation[Name(t)] # None => reservation[Name(t)].by = Request(t)

\* Broken form: a replay leaves the item as it is.
WriteOnce(t, time) ==
    reservation' = IF reservation[Name(t)] # None THEN reservation
                   ELSE [reservation EXCEPT ![Name(t)] = [by |-> Request(t), until |-> time]]

Write(t, time) ==
    reservation' = [reservation EXCEPT ![Name(t)] = [by |-> Request(t), until |-> time]]

PutReserves(w) ==
    /\ pc[w] = "put" /\ w \notin stopping
    /\ MayReserve(current[w])
    /\ Write(current[w], until[w])
    /\ Goto(w, "succeed")
    /\ UNCHANGED <<work, sqsVars, sfnVars, batch, current, until, stopping,
                   lapsed, now, disruptions>>

\* NameAlreadyReservedException.
PutConflicts(w) ==
    /\ pc[w] = "put" /\ w \notin stopping
    /\ ~MayReserve(current[w])
    /\ Goto(w, "fail")
    /\ UNCHANGED <<work, sqsVars, sfnVars, batch, current, until, stopping,
                   tableVars, now, disruptions>>

\* The write is applied and its reply lost: the SDK repeats it or gives up.
PutUnacked(w) ==
    /\ pc[w] = "put" /\ CallThrows(w)
    /\ MayReserve(current[w])
    /\ Write(current[w], until[w])
    /\ UNCHANGED <<pc, current>> \/ Proceed(w)
    /\ UNCHANGED <<work, sqsVars, sfnVars, batch, until, stopping, lapsed, now,
                   disruptions>>

\* A call inside the try throws: the message is left on the queue.
CallFailsInTry(w) ==
    /\ pc[w] \in {"put", "succeed", "delete"} /\ CallThrows(w)
    /\ Proceed(w)
    /\ UNCHANGED <<work, sqsVars, sfnVars, batch, until, stopping, tableVars,
                   now, disruptions>>

-----------------------------------------------------------------------------
(***************************************************************************)
(* The outcome goes to Step Functions, then the message is deleted.  A     *)
(* token is good for one outcome; a closed task answers TaskTimedOut.      *)
(***************************************************************************)
Report(t, outcome) == token' = [token EXCEPT ![t] = outcome]

SendSuccess(w) ==
    LET t == current[w]
    IN  /\ pc[w] = "succeed" /\ token[t] = "waiting"
        /\ Report(t, "succeeded")
        /\ granted' = [granted EXCEPT ![t] = until[w]]
        /\ \/ w \notin stopping /\ Goto(w, "delete") /\ UNCHANGED current
           \/ CallThrows(w) /\ Proceed(w)           \* reply lost
        /\ UNCHANGED <<work, sqsVars, batch, until, stopping, tableVars, now,
                       disruptions>>

\* Broken form: the exception is swallowed and the message deleted.
SendSuccessClosedDeletes(w) ==
    /\ pc[w] = "succeed" /\ token[current[w]] # "waiting"
    /\ Goto(w, "delete")
    /\ UNCHANGED <<work, sqsVars, sfnVars, batch, current, until, stopping,
                   tableVars, now, disruptions>>

SendSuccessClosed(w) ==
    /\ pc[w] = "succeed" /\ token[current[w]] # "waiting"
    /\ Proceed(w)
    /\ UNCHANGED <<work, sqsVars, sfnVars, batch, until, stopping, tableVars,
                   now, disruptions>>

\* FailAsync runs inside a catch clause, so what it throws leaves HandleAsync
\* and ExecuteAsync: the host stops, or was stopping anyway.
Escape(w) ==
    /\ Goto(w, IF w \in stopping THEN "stopped" ELSE "faulted")
    /\ batch' = [batch EXCEPT ![w] = {}]
    /\ current' = [current EXCEPT ![w] = None]

SendFailure(w) ==
    /\ pc[w] = "fail" /\ token[current[w]] = "waiting"
    /\ Report(current[w], "failed")
    /\ \/ w \notin stopping /\ Goto(w, "drop") /\ UNCHANGED <<batch, current>>
       \/ CallThrows(w) /\ Escape(w)                \* reply lost
    /\ UNCHANGED <<work, sqsVars, granted, until, stopping, tableVars, now,
                   disruptions>>

SendFailureClosed(w) ==
    /\ pc[w] = "fail" /\ token[current[w]] # "waiting"
    /\ Escape(w)
    /\ UNCHANGED <<work, sqsVars, sfnVars, until, stopping, tableVars, now,
                   disruptions>>

CallFailsInCatch(w) ==
    /\ pc[w] \in {"fail", "drop"} /\ CallThrows(w)
    /\ Escape(w)
    /\ UNCHANGED <<work, sqsVars, sfnVars, until, stopping, tableVars, now,
                   disruptions>>

\* DeleteMessage with a receipt handle that is no longer the latest may be
\* accepted without deleting anything.  A lost reply ends HandleAsync too, and
\* after a failure, inside a catch clause, the loop with it.
Delete(w) ==
    LET t == current[w]
    IN  /\ pc[w] \in {"delete", "drop"}
        /\ \/ /\ queue[t] \in {"visible", "inflight"}
              /\ queue' = [queue EXCEPT ![t] = "deleted"]
           \/ /\ receiver[t] # w \/ queue[t] \in {"deleted", "dead"}
              /\ UNCHANGED queue
        /\ \/ w \notin stopping /\ Proceed(w) /\ UNCHANGED batch
           \/ CallThrows(w) /\ pc[w] = "delete" /\ Proceed(w) /\ UNCHANGED batch
           \/ CallThrows(w) /\ pc[w] = "drop" /\ Escape(w)
        /\ UNCHANGED <<work, receives, receiver, sfnVars, until, stopping,
                       tableVars, now, disruptions>>

-----------------------------------------------------------------------------
(***************************************************************************)
(* The environment: Kubernetes, SQS, Step Functions, DynamoDB's TTL.       *)
(***************************************************************************)
Down == {"stopped", "faulted", "crashed"}

Stop(w) ==
    /\ pc[w] \notin Down /\ w \notin stopping /\ disruptions < MaxDisruptions
    /\ stopping' = stopping \cup {w}
    /\ disruptions' = disruptions + 1
    /\ UNCHANGED <<work, sqsVars, sfnVars, pc, batch, current, until, tableVars, now>>

Crash(w) ==
    /\ pc[w] \notin Down /\ disruptions < MaxDisruptions
    /\ disruptions' = disruptions + 1
    /\ Goto(w, "crashed")
    /\ batch' = [batch EXCEPT ![w] = {}]
    /\ current' = [current EXCEPT ![w] = None]
    /\ UNCHANGED <<work, sqsVars, sfnVars, until, stopping, tableVars, now>>

Restart(w) ==
    /\ pc[w] \in Down
    /\ Goto(w, "resolve")
    /\ stopping' = stopping \ {w}
    /\ UNCHANGED <<work, sqsVars, sfnVars, batch, current, until, tableVars, now,
                   disruptions>>

VisibilityLapses(t) ==
    /\ queue[t] = "inflight"
    /\ queue' = [queue EXCEPT ![t] = "visible"]
    /\ UNCHANGED <<work, receives, receiver, sfnVars, workerVars, tableVars, now,
                   disruptions>>

DeadLetter(t) ==
    /\ queue[t] = "visible" /\ receives[t] = MaxReceives
    /\ queue' = [queue EXCEPT ![t] = "dead"]
    /\ UNCHANGED <<work, receives, receiver, sfnVars, workerVars, tableVars, now,
                   disruptions>>

TaskTimesOut(t) ==
    /\ token[t] = "waiting"
    /\ Report(t, "timedout")
    /\ UNCHANGED <<work, sqsVars, granted, workerVars, tableVars, now, disruptions>>

\* DynamoDB deletes an item some time after its ExpiresAt.
Lapse(n) ==
    /\ reservation[n] # None /\ reservation[n].until <= now
    /\ reservation' = [reservation EXCEPT ![n] = None]
    /\ lapsed' = lapsed \cup {n}
    /\ UNCHANGED <<work, sqsVars, sfnVars, workerVars, now, disruptions>>

Tick ==
    /\ now < Horizon
    /\ now' = now + 1
    /\ UNCHANGED <<work, sqsVars, sfnVars, workerVars, tableVars, disruptions>>

Advance(w) ==
    \/ Resolve(w) \/ Receive(w) \/ ReceiveNothing(w) \/ ReceiveThrows(w)
    \/ Leave(w) \/ BatchDone(w) \/ Read(w) \/ Dispatch(w)
    \/ PutReserves(w) \/ PutConflicts(w) \/ CallFailsInTry(w)
    \/ SendSuccess(w) \/ SendSuccessClosed(w)
    \/ SendFailure(w) \/ SendFailureClosed(w) \/ CallFailsInCatch(w)
    \/ Delete(w) \/ Restart(w)

Next ==
    \/ \E w \in Workers :
          Advance(w) \/ ReceiveUnacked(w) \/ PutUnacked(w) \/ Stop(w) \/ Crash(w)
    \/ \E t \in Tasks : VisibilityLapses(t) \/ DeadLetter(t) \/ TaskTimesOut(t)
    \/ \E n \in Names : Lapse(n)
    \/ Tick

Spec == Init /\ [][Next]_vars

\* A started process runs, the SDK repeats a call only so many times, and
\* Kubernetes restarts a process that ended; SQS lapses visibility timeouts and
\* applies the redrive policy.
FairSpec ==
    /\ Spec
    /\ \A w \in Workers : WF_vars(Advance(w))
    /\ \A t \in Tasks : WF_vars(VisibilityLapses(t) \/ DeadLetter(t))

-----------------------------------------------------------------------------
(***************************************************************************)
(* Properties.                                                             *)
(***************************************************************************)

\* Every variable keeps its type, a batch is no larger than a receive allows,
\* and each phase of HandleAsync has in hand a message that can be there.
TypeOK ==
    /\ work \in [Tasks -> Payload]
    /\ queue \in [Tasks -> {"visible", "inflight", "deleted", "dead"}]
    /\ receives \in [Tasks -> 0..MaxReceives]
    /\ receiver \in [Tasks -> Workers \cup {None}]
    /\ token \in [Tasks -> {"waiting", "succeeded", "failed", "timedout"}]
    /\ granted \in [Tasks -> Nat]
    /\ pc \in [Workers -> {"resolve", "poll", "batch", "dispatch", "put",
                           "succeed", "fail", "delete", "drop"} \cup Down]
    /\ batch \in [Workers -> SUBSET Tasks]
    /\ current \in [Workers -> Tasks \cup {None}]
    /\ until \in [Workers -> Nat]
    /\ stopping \subseteq Workers
    /\ reservation \in [Names -> Reservation \cup {None}]
    /\ lapsed \subseteq Names
    /\ now \in Nat /\ disruptions \in Nat
    /\ \A w \in Workers :
          /\ pc[w] \in {"dispatch", "put", "succeed", "fail", "delete", "drop"} =>
                current[w] \in Tasks /\ Kind(current[w]) # "unreadable"
          /\ pc[w] \in {"put", "succeed", "delete"} => Kind(current[w]) = "reserve"
          /\ pc[w] \in {"fail", "drop"} => Kind(current[w]) # "raises"

\* "A message is deleted only once its outcome has reached Step Functions",
\* whatever fails, times out or is delivered twice.
DeletedMeansReported ==
    \A t \in Tasks : queue[t] = "deleted" => token[t] \in {"succeeded", "failed"}

Holds(t) == Kind(t) = "reserve" /\ token[t] = "succeeded"

\* Until DynamoDB has deleted a name's item, all the tasks that were told they
\* hold the name belong to one request, on however many workers they ran.
OneHolderPerName ==
    \A t, u \in Tasks :
        Holds(t) /\ Holds(u) /\ Name(t) = Name(u) /\ Name(t) \notin lapsed
            => Request(t) = Request(u)

\* A task is refused a name only if another request asks for the same name:
\* no redelivery, crash or repeated write makes a request conflict with itself.
NoSelfConflict ==
    \A t \in Tasks :
        Kind(t) = "reserve" /\ token[t] = "failed" =>
            \E u \in Tasks : /\ Kind(u) = "reserve" /\ Name(u) = Name(t)
                             /\ Request(u) # Request(t)

\* A name stays with its request for as long as the ExpiresAt that was
\* reported to the state machine says.
HeldAsReported ==
    \A t \in Tasks :
        Holds(t) /\ now < granted[t] =>
            /\ reservation[Name(t)] # None
            /\ reservation[Name(t)].by = Request(t)
            /\ reservation[Name(t)].until >= granted[t]

\* Every message is eventually deleted or in the DLQ.
EveryMessageSettles ==
    <>(\A t \in Tasks : queue[t] \in {"deleted", "dead"})
=============================================================================
