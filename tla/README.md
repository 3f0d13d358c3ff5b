# Internal developer platform: a TLA+ development

This directory holds TLA+ modules for the services of the internal developer
platform, the TLC configurations that check them on small instances, and TLAPS
proofs. Every definition is translated from the source; the file and the lines
are in the `map` of `PROJECT.json`. Where a definition stands for something
outside the repository (Redis, SQS, DynamoDB, Step Functions, Kubernetes) it is
modelled from how the code uses it and marked external.

    tlc -workers 2 -config MCIdempotency.cfg MCIdempotency.tla
    tlapm IdempotencyProofs.tla

## 1. The system

A developer posts a provisioning request to the API. The API answers 202 once
the request is on a queue; everything after that is asynchronous. Three
programs make it up.

| Program | Language | What it does |
|---|---|---|
| `services/api` | Go | HTTP API: auth routes that forward to Cognito, `POST /v1/provision` behind an idempotency layer in Redis, publisher for SQS or Kafka |
| `services/provisioner` | Go | consumes the queue (SQS in AWS, Kafka locally) and processes each message |
| `services/scaffolder` | C# | worker for a Step Functions state machine: takes task tokens from an SQS queue, reserves an application name in DynamoDB, reports the outcome |

    client --HTTP--> api --Reserve/Complete/Release--> Redis
                      |
                      +--Publish--> SQS | Kafka --> provisioner

    Step Functions --SendMessage(task token)--> SQS --> scaffolder --PutItem--> DynamoDB
           ^                                             |
           +------- SendTaskSuccess / SendTaskFailure ---+

### 1.1 Inventory

| Component | State | Operations | Talks to | What is hard | Correct when |
|---|---|---|---|---|---|
| Idempotent provisioning (`idempotency_middleware.go`, `redis_store.go`, `resource_handler.go`, `resource_service.go`, publishers) | one Redis record per key: IN_FLIGHT or COMPLETED with body hash and response; per request a goroutine and its context | Reserve (SET NX, GET), Complete (GET, script), Release (script), Provision, Publish | Redis, SQS or Kafka, the client | requests with one key on several replicas; client disconnects cancel `r.Context()`; a lost reply of a call that took effect; replica crash; Redis is memory-only with `allkeys-lru`; panics | one run of the handler per key; no duplicate publish; a cached response goes only to the request it answers; no key blocked for ever |
| Scaffolder worker (`TaskQueueWorker`, `TaskDispatcher`, `ReserveNameUseCase`, `DynamoDbNameReservationStore`) | messages, tokens, one DynamoDB item per name with an expiry, the worker's loop | receive, dispatch, conditional put, report, delete | SQS, Step Functions, DynamoDB | at-least-once delivery, batch under one visibility timeout, two pods during a rollout, reported but not deleted, exceptions in `catch`, shutdown in the middle of a call, TTL | deleted only after the outcome was reported; one holder per name; held as long as reported; every message ends deleted or in the DLQ |
| Provisioner on SQS (`main.go`, `sqs.go`) | loop, batch, three counters | resolve queue, receive, process, delete | Parameter Store, SQS | redelivery, failed deletes, signal in a batch | nothing lost; a repeat needs a redelivery; counters add up |
| Provisioner on Kafka (`kafka.go`) | reader position, committed offset | fetch, process, commit | Kafka group coordinator | failed and late commits, rebalance | nothing below the committed offset is unprocessed; a repeat needs a new assignment |
| API process (`main.go`, `config.go`, `application.go`, `redis.go`, `aws.go`, `server.go`, telemetry, metrics, logging and recovery middleware) | process phase, what the handlers and the router captured, clients open or closed, telemetry queues, in-flight gauge | NewConfig, New and its steps, Run, Shutdown, the middleware chain | the kubelet, AWS, Redis, publisher, OTLP | a failure at any step of the boot, what is captured before it exists, requests that outlive the drain, providers that share a deadline and log while they go, panics under recorders | a serving process has what its environment asks for; gauge equals requests in flight; clean exit means drained; clients closed and telemetry flushed; a signal ends the process |
| Auth routes (`auth_handler.go`, `auth_service.go`, Cognito provider) | none of their own; the accounts are Cognito's | SignUp, SignIn, ConfirmSignUp | Cognito through the SDK's retryer | racing sign-ups; an attempt that took effect and is repeated; a client that leaves | what the client is told is what happened to its account; one sign-up wins; tokens only after confirmation |
| Telemetry of the provisioner (`telemetry.go`, `main.go`) | spans, counters and log records not exported yet | Setup, the deferred shutdown | OTLP collector | `os.Exit` skips the deferred flush; a signal in a batch | a process stopped by a signal has flushed |
| Value objects, log formatting, health, Swagger | none that decides anything | - | - | - | - |
| Infrastructure (Terraform, manifests, pipelines) | declarations | - | - | what they set shapes the environment: redrive policy, TTL, eviction, replicas, grace periods | - |

The value objects of the API (`ResourceSpecification` and its relatives) have no
caller outside their tests; the provider names they accept ("AZURE") differ
from the one the request validator accepts ("Azure"). They are not modelled.

`PROJECT.json` lists, under `hazards`, what is hard to test in this code, each
at its line, with the properties that would catch it going wrong. Four have no
property: the wording of a response header set after the body was written, the
speed of a retry loop without back-off, the fraction of a second by which
DynamoDB's TTL attribute is earlier than the reported expiry (the model's clock
counts seconds), and a SIGTERM before `signal.Notify`, which is a step of the
models but ends the process as the Go runtime has it.

## 2. Modules

| Module | Role |
|---|---|
| `Idempotency` | the idempotency layer, the handler and the publisher, every Redis and queue call a step |
| `IdempotentSubmission` | abstract: what the layer promises a client |
| `IdempotencyRefinement` | the mapping from the first to the second |
| `IdempotencyProofs`, `PromiseProofs` | theorems about `Idempotency`, and that it implements `IdempotentSubmission` |
| `Accounts` | the auth routes, the SDK's attempts and the Cognito user pool |
| `Scaffolder` | the task queue worker, the reservation and its environment |
| `NameLease` | abstract: what the worker promises the state machine that reserves names |
| `ScaffolderRefinement` | the mapping from the first to the second |
| `ProvisionerSqs`, `ProvisionerKafka` | the two consumers |
| `AtLeastOnce` | abstract: what either consumer promises of every message |
| `ProvisionerProcess` | `main` of the provisioner around `ProvisionerSqs`: telemetry set up, flushed or lost |
| `ApiServer` | life cycle and outer middleware of the API, with the boot and the flush as one step each |
| `ApiProcess` | the whole API process: `ApiServer` composed with configuration, composition root and telemetry; implements `ApiServer` |
| `ScaffolderProofs`, `ProvisionerKafkaProofs`, `ApiServerProofs`, `ApiProcessProofs`, `AccountsProofs` | theorems about the module of that name |
| `ProvisionerSqsProofs` | theorems about `ProvisionerSqs` and `ProvisionerProcess` |
| `MCIdempotency`, `MCScaffolder`, `MCAccounts` | symmetry sets for TLC |
| `MCApiProcess` | the environments TLC starts the API process in |

The remaining modules are checked as they are, by a `.cfg` of their own name.

### 2.1 Conventions

* One action per call to an outside service, because that is where other
  processes interleave. Code between two calls belongs to the action of the
  call before or after it.
* A call that fails without effect and a call that took effect and lost its
  reply are two outcomes. SDK retries appear as the second outcome leading back
  to the same step.
* A call in flight when its process crashes either had its effect before the
  crash or not at all.
* A request body stands for its SHA-256 hash; a name, a token, a payload is a
  model value.
* An operator under a comment "Broken form" is a plausible bug. No next-state
  relation uses it; `PROJECT.json` lists which definition it replaces and the
  property that must then fail.

### 2.2 Idempotency

`pc[r]` is where the goroutine of request `r` is:

    idle -> reserve -> lookup ------------------------> done
              |          (replay: cached, 409, 422)
              v
            handle -> complete -> script -> done       response below 500
              |-----> release ------------> done       500
              +-----> unwind -------------> done       panic

`store[k]` is the record at `idempotency:<k>`; `by` in it is a history variable,
the request whose Reserve or Complete wrote it, because the code keeps no owner.
`answer[r].by` likewise names the request whose handler produced a response.
`RedisStore.Reserve` is two actions, SET NX and GET; `Complete` is two, GET and
script; `Release` is one script. `LoseRecord` covers TTL, eviction and a Redis
restart; `losses` counts those per key, and also a release script that ran twice.
`cancelled` is the set of requests whose `r.Context()` is done; Release runs
under `context.Background()` and ignores it. A handler panics before its publish
(`HandlerPanics`): between the publish and Complete the code does no more than
encode strings.

### 2.3 Scaffolder

`pc[w]` follows the nested loops of `ExecuteAsync` and `HandleAsync`:
`resolve -> poll -> batch -> dispatch -> put -> succeed -> delete`, or
`-> fail -> drop` through one of the catch clauses. `until[w]` is the ExpiresAt
computed before the write. The environment hands messages out again
(`VisibilityLapses`), moves them to the DLQ after `MaxReceives` receives,
times tasks out, deletes expired items, and advances the clock. A failing call
inside `try` leaves the message; one inside `catch` leaves `ExecuteAsync`. A call
that fails may have taken effect: a receive hands messages out that nobody gets
(`ReceiveUnacked`), a delete removes the message although it throws.

`NameLease` has no queue and no worker: a task asks for a name on behalf of a
request, a name is leased to one request until a time, only that request extends
it, and nobody shortens it. A task is told *succeeded* only while its lease runs
as long as it is told (or that time is over), and *failed* only if another
request asks for its name. The mapping is direct: the table is the leases, the
tokens are the verdicts, `granted` the times. A put, the unacknowledged ones
included, is a `Grant`; `SendSuccess` a `Confirm`; `SendFailure` a `Refuse`; all
else but time and expiry stutters.

### 2.4 ProvisionerSqs and ProvisionerKafka

`RunSQS` checks the context only at the top of the outer loop, so a batch is
finished after a signal; `DeleteMessage` then runs under a cancelled context and
fails (`DeleteFails`). A receive that fails, or that the signal cancels, may have
handed messages out (`ReceiveUnacked`). `handled[m]` counts the times `m` was processed; the code
itself only logs there. The Kafka module has one partition: messages of
different partitions never share an offset. `Assign` is the coordinator giving
the partition to a member. The reader of a member that lost it goes on handing
out what it has prefetched until it joins the group again (`Rejoin`; `reading`
are the members whose reader hands out messages), and its commits count all the
same. `handled` and
`assignments` count what the code only does: runs of the loop body for a message,
and assignments of the partition that start a reader at or before it.

`kafka.go` says that it mirrors the delete-after-process semantics of `sqs.go`.
`AtLeastOnce` is what they have in common: a message is processed before it is
acknowledged, processed again only when it is redelivered, and not redelivered
while it is acknowledged. A delete and a commit are acknowledgements; a lapse of
the visibility timeout and an assignment after the first are redeliveries. The
one difference is that a late commit may take an acknowledgement back, so the
abstract `acknowledged` may shrink.

`ProvisionerProcess` adds where `main` is: `setup -> consume -> flush -> gone`.
Its actions are those of `ProvisionerSqs` with what they record (`stale`), so a
crash in any step loses what was not exported. A consumer that returns because
of a signal goes through the deferred flush. One that returns for another
reason, which only the resolution of the queue URL can be, meets `os.Exit(1)`,
and the flush is skipped.

### 2.5 ApiServer and ApiProcess

A request moves `outside -> route -> answered -> record -> leave -> done` through
ActiveRequests, RequestDuration, RequestLogging and Recovery. `proc` is where
`main` is. What a route does is left open: it answers with one of two statuses,
panics before or after its answer, or never returns. A panic after the
answer is possible because a route may do more then, as the idempotency layer does
when it completes its record. `status` is what
the client got, the first status written; `seen` is what the recorders hold, the
last one, since `statusRecorder.WriteHeader` overwrites (`WriteHeader`). The two
differ after a panic that follows an answer (`panicked`).

`ApiProcess` replaces `ApiServer`'s single steps by those of the code. `boot` is
the step of `bootstrap.New` that comes next:

    logs -> tracing -> metrics -> mode -> parameters -> redis -> ping -> services -> handlers -> server -> up
                                  mode ------------ local ------------> services

`cfg` is `NewConfig(env)`. `Environments` is a constant, any set of values of the
three variables `config.go` decides something by; `MCApiProcess` gives those that
take every branch, lists with blank and missing entries and spellings of false
included. `GetBoolEnv` knows the twelve spellings of `strconv.ParseBool`. A list is a
sequence of characters and `SplitString` cuts it at its separators; the order of
the parts is left out, since only whether there are any is looked at. `services` is what the application
holds, `wired` what the handlers and the router captured of it at their step.
`pipeline`, `buffered` and `dropped` follow the two exporting providers; the
metrics provider is pulled and has nothing to flush. Shutdown closes the
clients, then releases tracing, then logs, under one deadline (`late`). Every
step is a step of `ApiServer` or leaves its variables alone: `ImplementsServer`
has TLC check that, fairness included.

### 2.6 Accounts

`pc[r]` is `idle -> decode -> call -> returned -> done`. A call ends with an
answer, with the client's disconnect, or after `Attempts` attempts without an
answer. An attempt whose answer was lost may take effect then, later, or never
(`TakesEffect`), also after the request was answered. `request` stays unset
until the request arrives, so a client's retry is one more request.

## 3. Runs

A run is a module with one `.cfg`. "Violated" runs check one sentence of the
repository's documentation as it is worded and end in a counterexample.

### 3.1 Idempotency

| Run | Bounds | Shows |
|---|---|---|
| `idempotency` | 3 requests, 1 key (also no key, bad key), 1 valid and 1 invalid body, all faults, 2 losses, 1 lost acknowledgement | types; duplicates are bounded by losses and lost acknowledgements; without losses handlers of one key exclude each other and a COMPLETED record is final; an IN_FLIGHT record has an owner that runs, crashed, or met a Redis fault; a 202 stands for a published message; the layer implements `IdempotentSubmission` (`KeepsPromise`), so that without losses a cached response goes only to its own key and body |
| `idempotency_live` | 2 requests, fair | every request is answered unless its replica dies; no key stays IN_FLIGHT for ever, thanks to the TTL |
| `complete_overwrites` | 2 requests, 1 loss, no fault | violated: Complete overwrites a record it does not own (`redis_store.go:21-22`) |
| `conflict_after_disconnect` | 2 requests, cancellation only | violated: 409 although nothing runs; the client's disconnect cancelled Complete |
| `reserve_gap` | 2 requests, queue faults only | violated: Release between SET NX and GET turns a retry into a 500 |

Three requests under one key are the smallest number that has an owner, an
intruder after a loss, and a reader of what the intruder stored; the proofs in
section 4 cover any number of requests and keys. One loss is the least that
breaks the ownership claims; with two, a key can lose the record an intruder
left as well. The properties count losses instead of forbidding them, so that a
counted duplicate is told from an uncounted one.

### 3.2 Scaffolder

| Run | Bounds | Shows |
|---|---|---|
| `scaffolder` | 1 worker, 2 tasks, 1 name, 2 requests, Ttl 1, clock to 1, 2 receives, batch 2, 1 disruption, AWS faults, fair | with one worker the table and the tokens implement `NameLease` (`KeepsLeases`); a name is held for as long as the reported ExpiresAt says; every message is deleted or dead-lettered |
| `scaffolder_rollout` | 2 workers, 2 tasks, batch 1, clock to 1, AWS faults | with two pods: deleted means reported; one request holds a name until its item expires; no request conflicts with itself |
| `replay_race` | 2 workers, no fault | violated: the later of two replays may write the earlier ExpiresAt, so the name can be lost before the reported time (`deployment.yaml:5-6`) |

Two tasks that want one name are the conflict; more names do not interact. Two
receives are one delivery and one redelivery. The payloads include every way
`HandleAsync` can end: a reservation, a refusal, an exception, an envelope
without a token. `Ttl` and the clock are as small as still lets an item expire
and be taken again. `EveryMessageSettles` needs no clock; the run has one for the
expiry. Shutdowns and crashes are in the run with one worker; with two they are covered by the
theorems, which hold for any `MaxDisruptions`. The two pods of a rollout see one message per receive, since messages of
one batch are handled one after the other and interleave with the other pod the
same way.

### 3.3 Provisioner

| Run | Bounds | Shows |
|---|---|---|
| `provisioner_sqs` | `ProvisionerProcess`: 2 consumers, 2 messages, batch 2, 1 lapse per message while held, 2 disruptions, failing calls, a Collector, fair | the consumers implement `AtLeastOnce` (`KeepsDelivery`): deleted means processed; a message is processed again only after a lapse; the counters balance; a process stopped by a signal has flushed, unless the flush failed; every message is deleted in the end |
| `provisioner_kafka` | 3 consumers, 3 messages, 3 disruptions, fair | every message below the committed offset was processed, also after late commits and fetches of a consumer that lost the partition; the consumers implement `AtLeastOnce`, so that a message is repeated only by an assignment of the partition, however many commits fail; every message is processed in the end |

### 3.4 API process and auth routes

| Run | Bounds | Shows |
|---|---|---|
| `api_server` | `ApiProcess`: 2 requests, 6 environments, fair | a serving process has the services, the store and the tracing its environment asks for; a process that ends by itself has closed its clients; what requests logged is exported unless a flush failed, and main's records reach the log provider; the gauge is the number of requests inside; histogram and log have the client's status, or the 500 of a panic; exit code 0 means drained; clients are closed under a running request only after a failure; a signalled process exits even if a request never ends; `ApiServer` is implemented |
| `accounts` | 4 requests, 1 address, 2 secrets, 2 attempts | a success is Cognito's for that very request; an error after an effect means a lost answer; of racing sign-ups one is told 201; tokens need the mailed code and the right password |

Two requests already overlap in the gauge and with the drain, one inside while
the other is outside or done; `ApiServerProofs` covers any number. Four
requests under one address are a sign-up, a rival, a confirmation and a sign-in;
addresses do not interact. Two attempts are one retry.

### 3.5 Fairness

* `Idempotency`: weak fairness of `Step(r)` for each request, since the Go
  scheduler runs every goroutine and every Redis and queue call returns or times
  out; and of `LoseRecord(k)`, since every record has a TTL. No fairness for
  cancellation or crashes.
* `Scaffolder`, `ProvisionerSqs`, `ProvisionerKafka`: weak fairness of one
  process's step (the process runs, and Kubernetes restarts it), of visibility
  timeouts and of the redrive policy, or of the coordinator giving an unowned
  partition to a member. Faults, signals and crashes are bounded by
  `MaxDisruptions`, so liveness says: once the disruptions are over. A failing
  call is a step of `Advance` and counts as progress of the loop, not of the message;
  for SQS the faults of a call are counted in the same bound. The Scaffolder's calls
  may fail for ever; its messages end in the DLQ.
* `ApiServer`, `ApiProcess`: weak fairness of `main`, the drain's timer and the
  flush's deadline only, from the time main is told to stop. The boot and the
  requests are not assumed to make progress.
* `ProvisionerProcess`: as `ProvisionerSqs`; the flush has a time limit of five
  seconds.
* `Accounts`: none. The SDK's attempts have no time limit in this code.

No strong fairness is assumed anywhere.

### 3.6 Bounds

| Bound | What it caps |
|---|---|
| `MaxLosses`, `MaxUnacked` | lost records per key, lost publish acknowledgements per header |
| `MaxDisruptions` | shutdowns, crashes, failed receives (for SQS also failed calls, for Kafka also rebalances) |
| `MaxLapses` | visibility timeouts that lapse while a consumer still has the message |
| `Horizon` | the clock of `Scaffolder` |
| `Length` | messages in the Kafka partition |
| `Attempts` | attempts of the SDK's retryer (3 by default, 2 in the run) |

`MaxReceives` and `BatchSize` are not bounds of the model: they are
`maxReceiveCount` and the receive limits of the code.

## 4. Proofs

TLAPS proves the following for every value of the constants, from the assumption
`ConstantsAssumption` of each module: the sets of processes are finite where
something is counted, `None` is not one of the values it stands apart from, and
the bounds are natural numbers; for `ApiProcess`, that environment variables are
strings. Nothing is assumed of the services beyond the
environment actions.

### 4.1 IdempotencyProofs

`TypeOK` is inductive by itself. The other invariants need two strengthenings.

* **Duplicates.** `DuplicateBound` alone is not inductive: a request in `handle`
  may publish. `PermitsConserved` counts the right to publish as a token. It is
  in the store when the key is free, in the hands of the requests in `handle`,
  `release` or `unwind`, or spent on a published message; only a loss or a lost
  acknowledgement makes a new one. Every action conserves or destroys it.
* **Ownership.** `IndInv` joins the visible properties with `RecordMatchesOwner`
  (what a record says of the request that wrote it) and `RunningOwnsRecord`
  (without losses, the running request is the one the record names). Exclusion
  of handlers, and finality of a COMPLETED record, follow from the latter:
  two active requests under a key are both `store[k].by`.

`PromiseProofs` shows `Spec => KeepsPromise` for any number of losses, faults
included. The mapping takes the settled outcome of a key from the answers given
so far, so the proof must know that a key has one settler at most.
`PromiseInv` says so: a request is answered once, the settler of a key without
losses is the owner of its record, and every hash stored or read is that of a
request with the key. It is inductive with `IndInv`; then each action maps to
`Settle`, `Repeat`, `Unprotected`, `RepeatAny`, `Refuse`, `Forget` or a stutter.

That an abstract specification is refined says little if it is weak.
`PromiseMatchesBodies` is argued from `IdempotentSubmission` alone: whatever
keeps the promise has `ReplayOfSameBody`, the check behind the 422. The invariant
of the abstract machine is `PromisedReplies`, and `PromisedReply` treats the five
actions that answer at once.

### 4.2 ScaffolderProofs

`QuietSteps` shows once that sixteen actions of a worker neither write the table
nor report; the other proofs handle the remaining ones.

* `ReportInv`: a worker about to delete knows the token was closed by its outcome.
* `HolderInv`: a task that holds a name, or is about to be told so, is what the
  table says until the item expires. The conditional write preserves it because
  it only replaces an item by one of the same request.
* `ConflictInv`: the table contains only what some task asked for, so whoever
  meets a foreign item has a rival.
* `HeldInv`: expiries only grow. That needs one worker, which is the hypothesis
  of `ScaffolderHeldAsReported`, and the run `replay_race` shows why.
* `LeasesGrow`: no item is later than the expiry the worker writes next, so a
  replay extends a lease and never shortens it. `HeldInv` does not give that: it
  speaks of reported items only, and a write whose reply was lost is not
  reported.

`ScaffolderKeepsLeases` shows `Spec => KeepsLeases` for one worker, any number of
tasks, names and requests, and any faults. `LeaseStep` maps each action;
`HeldInv` makes `Confirm` truthful, `ConflictInv` makes `Refuse` justified and
`LeasesGrow` makes `Grant` an extension. With two workers the refinement is false
for the reason `replay_race` shows. `LeasesHoldAsReported` is argued from
`NameLease` alone: whatever keeps the leases has `HeldAsReported`.

### 4.3 ProvisionerSqsProofs, ProvisionerKafkaProofs

`LoopInv` says where the loop keeps its messages. `OneProcessPerDelivery` is
inductive with it: handler runs plus consumers that hold a message unprocessed
never exceed its deliveries. A receive nobody got only adds a delivery.
`SqsRepeatsNeedRedelivery` follows.
`ProvisionerIsConsumer` shows that the process with its start, telemetry and
exits is the consumer, which carries these theorems over. For
`SqsStoppedIsFlushed` the invariant ties `main` to the loop: `main` is at the
flush only when the loop stopped for a signal, with its batch processed;
`ProcessMoves` reduces a step to what it does to the process that moves.

For Kafka the three parts of `KafkaInv` are inductive together: what a reader
has gone past was processed, so what it commits, even late, was.
`OneRunPerAssignment` counts: the runs of a message, the consumers about to run
it and the readers that have not passed it, also those that lost the partition
and do not know, never exceed the assignments that start no later. A fetch turns the last into the second, a run the second into
the first; only an assignment moves a reader back. A failed or late commit repeats
nothing by itself; it lets a later assignment start earlier.

`SqsKeepsDelivery` and `KafkaKeepsDelivery` show that both implement
`AtLeastOnce`. The two counting invariants are what makes a run of the handler a
`Handle` of the abstract machine, `DeletedMeansHandled` and
`CommittedMeansHandled` what makes a delete or commit an `Acknowledge`. The
process around the SQS consumer implements it too, by `ProvisionerIsConsumer`.

### 4.4 ApiServerProofs

`ServerInv` adds to the properties where a request's status is recorded at each
point of the chain (`Chain`), that the recorders hold the client's status or the
500 of a panic (`Recorders`), and who may be inside in each phase (`Phases`). The
gauge equals a cardinality; `GaugeMoves` shows it follows each move of a request.

### 4.5 ApiProcessProofs

`ProcessIsServer` shows that the process, step by step, is a process as
`ApiServer` describes it, so the theorems of 4.4 hold of it. Its own invariants
hold for every environment:

* `ClientInv`: which clients can be open at each step of the boot, so that a
  failure there finds none or, at the ping, only the one it closes.
* `PipelineInv`: logs is on while tracing is, and no provider is released before
  the flush. Together with the order of the release this is why a warning about
  tracing still has somewhere to go (`ShutdownIsLogged`).
* `RecordInv`: a provider that is off has nothing buffered, a released one only
  if its flush failed; what was dropped came from a request that outlived the
  drain, so `failed` holds. That last part needs `Phases` of `ServerInv`.
* `WiringInv`: at each step of the boot, which services exist and what the
  handlers and the router captured of them. A component built before its
  dependency would break the induction at that step. `WiredWhenServing` states
  the result in terms of the environment, so `ConfigRead` needs to know what
  `config.go` computes: `SplitAndTrimNames` shows, for every sequence, that
  `splitAndTrim` finds a broker exactly if some character is neither a separator
  nor a space. The piece around such a character lies between the greatest cut
  before it and the least after it (`GreatestExists`, `LeastExists`, by the
  well-foundedness of the naturals), and the trimmed piece keeps it.

### 4.6 AccountsProofs

`AccountsInv` says, for each request, how its result, its status and what Cognito
applied of it agree (`Told`), and for each account that one sign-up made it and
that it is confirmed only with the mailed code (`AccountInv`). `QuietStep` covers
the steps that leave the accounts alone, `AppliedStep` those in which an attempt
takes effect, and `OthersTold` the requests that do not move.

### 4.7 Only model-checked

Every invariant and every action property of a passing run is a theorem. What
remains with TLC:

* Liveness, in `idempotency_live` and the runs with fairness: TLAPS does not prove
  fairness arguments. `ImplementsServer` contains fairness; its safety part is
  `ProcessIsServer`.
* The violated claims, which are counterexamples and need no proof.

Some proved invariants are not in a run, because they carry the induction or
follow from a refinement the run checks: `PermitsConserved`, `ReadMeansHandled`,
`OneProcessPerDelivery`, `OneRunPerAssignment`, `DeletedMeansHandled`,
`RepeatsNeedReassignment`, `LeasesGrow`, `ReplayOfSameBody` and the type invariant of `ProvisionerKafka`.

## 5. Findings

The runs marked violated are listed in `PROJECT.json` under `findings` with the
sentence they refute.

* `complete_overwrites`: Redis records have no owner, so after a loss Complete
  overwrites another request's reservation. Since it keeps the hash it read, that
  other request's body is from then on answered with a response to a different
  body. `ReplayOfSameBody` holds only for keys without losses.
* `conflict_after_disconnect`: the client's disconnect cancels Complete, whose
  error is dropped; retries get 409 until the TTL.
* `reserve_gap`: Reserve's SET NX and GET are two calls.
* `replay_race`: of two replays on two pods, the later write may carry the
  earlier expiry.

Other behaviours of the code that the models contain and that a reader of the
properties should know:

* An exception of `SendTaskFailure` escapes `HandleAsync`, because `FailAsync`
  runs inside a catch clause; it ends the worker (`CallFailsInCatch`,
  `SendFailureClosed`). The same holds for a receive that throws anything but
  AmazonSQSException (`ReceiveThrows`). Kubernetes restarts the pod.
* A task whose outcome was reported but whose message was not deleted goes to
  the DLQ, since every redelivery meets a closed token (`SendSuccessClosed`).
* A replay of a reservation writes the item again, with a later expiry
  (`PutReserves`); the port's comment calls it a no-op.
* After a signal `RunSQS` processes the rest of its batch and cannot delete it
  (`DeleteFails` under a cancelled context); the messages come back.
* A boot that fails ends in `log.Fatal` (API, `TelemetryFails`, `AwsFails`,
  `PingFails`) or `os.Exit(1)` (provisioner, `SetupFails`, `Resolve`), so the
  telemetry of the boot is not flushed, although both telemetry packages ask
  their callers to invoke the shutdown. `NothingLost` and `StoppedIsFlushed`
  speak of the processes that got past it.
* `initializeRedis` describes an environment without a Redis address, in which
  the router skips the idempotency middleware. It cannot be: the parameter key has
  a non-empty default, and an empty parameter is an error. `Config.Validate`
  cannot fail for the same reason.
* The API takes Kafka when ENVIRONMENT is "local", the provisioner when
  KAFKA_BROKERS is set; setting one without the other parts them.
* A route that panics after it has answered is logged and recorded with 500
  although its client got the first status: `statusRecorder.WriteHeader` overwrites
  what it holds, net/http does not. "statusRecorder captures the response status
  code" (`metrics_middleware.go:125`) is then not so; `RecordsTellTheAnswer` says
  what does hold.
* A SIGTERM between the start of the listener and `signal.Notify` ends the API at
  once (`Die` while not `notified`).
* Every error of a sign-up, a lost answer included, becomes
  USER_ALREADY_EXISTS and a 500; every error of a sign-in a 401. A client whose
  sign-up was applied on a lost attempt is told 500 (`Refused` after
  `TakesEffect`).

## 6. Not modelled

* Header and CORS middleware, health, metrics and Swagger handlers: no state.
* Log formatting, trace propagation, text of validation and domain errors: output
  that decides nothing. Log lines appear as "the status the request log has" and
  as records of the log pipeline.
* `valueobjects.go` and the helpers of `errors.go` without callers.
* Durations and numbers of the configuration: no property tells them apart.
* `ScaffolderOptions`: read once at startup; a wrong value throws before anything
  runs. The pattern of `ApplicationName` appears as the set of accepted names.
* The limit of the queues of the OpenTelemetry batch processors, beyond which the
  SDK drops records: `NothingLost` speaks of what the processors took.
* `main` of the provisioner around Kafka: the same flush as with SQS.
* Terraform, manifests, pipelines: their settings appear in the environment.

## 7. Plan

1. *Done*: `Idempotency`, its promise, the refinement and its proof;
   `Scaffolder`, the two provisioners, `ApiServer`, and their proofs; the API
   process with its configuration; the provisioner's process; the auth routes;
   the proofs about them.
2. *Done*: the lease `NameLease` that the reservation implements with one worker,
   with the refinement proved; what the abstract specifications entail; the
   wiring of the API process for every environment; `AtLeastOnce`, which both
   consumers implement.
3. **Pipeline.** `IdempotentSubmission` composed with `AtLeastOnce`: how often a
   client's request is processed end to end, bounded by losses, lost
   acknowledgements and redeliveries. It needs the publishes of a key in the
   promise, which says nothing of messages yet.
