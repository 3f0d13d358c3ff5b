------------------------------ MODULE ApiProcess ------------------------------
(***************************************************************************)
(* The process of services/api in full: configuration, the composition     *)
(* root step by step, and the release of clients and telemetry, composed   *)
(* with the server and its requests (ApiServer).  Each step of this module *)
(* is a step of ApiServer or leaves its variables alone.                   *)
(*                                                                         *)
(* A record the batch processors hand to an exporter counts as exported;   *)
(* whether the Collector keeps it is not modelled, nor is the limit of a   *)
(* processor's queue, beyond which the SDK drops records.                  *)
(***************************************************************************)
EXTENDS ApiServer, Sequences, FiniteSetsExt

CONSTANTS
    MainLog,      \* the log records main itself writes, as one record
    Environments  \* what the variables of the process may be; "" is an unset one

ASSUME MainAssumption == MainLog \notin Requests

\* A list is a sequence of characters, each a string of its own.
ASSUME EnvironmentsAssumption ==
    Environments \subseteq
        [ENVIRONMENT : STRING, ENABLE_TRACING : STRING, KAFKA_BROKERS : Seq(STRING)]

Signals == {"logs", "tracing"}

VARIABLES
    env,       \* the environment variables of the process
    boot,      \* the step of bootstrap.New that comes next
    services,  \* what the services publish to and authenticate with
    wired,     \* what the handlers and the router captured of it
    open,      \* clients that hold connections: "redis", "kafka"
    notified,  \* signal.Notify was called
    pipeline,  \* each telemetry provider: "off", "on" or "released"
    buffered,  \* records each provider has yet to export
    dropped,   \* records each provider got after its release
    cut,       \* providers whose Shutdown failed
    late       \* the context of Application.Shutdown is past its deadline

wiringVars == <<env, boot, services, wired, open, notified>>
telemetryVars == <<pipeline, buffered, dropped, cut, late>>
processVars == <<vars, wiringVars, telemetryVars>>

Nothing == [resource |-> "nil", auth |-> "nil", idempotency |-> FALSE]

ProcessInit ==
    /\ Init
    /\ env \in Environments /\ boot = "logs"
    /\ services = Nothing /\ wired = Nothing /\ open = {} /\ notified = FALSE
    /\ pipeline = [s \in Signals |-> "off"]
    /\ buffered = [s \in Signals |-> {}] /\ dropped = [s \in Signals |-> {}]
    /\ cut = {} /\ late = FALSE

-----------------------------------------------------------------------------
(***************************************************************************)
(* Configuration.  One character stands for all white space.  Of the       *)
(* pieces of a list only which there are is kept, not their order.         *)
(***************************************************************************)
Separator == ","
Space == " "

GetEnvOrDefault(value, default) == IF value # "" THEN value ELSE default

\* What strconv.ParseBool accepts.
TrueWords == {"1", "t", "T", "TRUE", "true", "True"}
FalseWords == {"0", "f", "F", "FALSE", "false", "False"}

GetBoolEnv(value, default) ==
    IF value \in TrueWords \cup FalseWords THEN value \in TrueWords ELSE default

\* The ends of the list and its separators; every piece lies between two neighbours.
Cuts(s) == {0, Len(s) + 1} \cup {i \in DOMAIN s : s[i] = Separator}

Neighbours(i, j, S) == i < j /\ \A k \in S : k <= i \/ j <= k

SplitString(s) ==
    {SubSeq(s, c[1] + 1, c[2] - 1) :
        c \in {d \in Cuts(s) \X Cuts(s) : Neighbours(d[1], d[2], Cuts(s))}}

TrimSpace(s) ==
    LET Kept == {i \in DOMAIN s : s[i] # Space}
    IN  IF Kept = {} THEN <<>> ELSE SubSeq(s, Min(Kept), Max(Kept))

SplitAndTrim(s) == {TrimSpace(part) : part \in SplitString(s)} \ {<<>>}

\* No default that Validate looks at is empty, so it never fails.
NewConfig(e) ==
    [local   |-> GetEnvOrDefault(e.ENVIRONMENT, "dev") = "local",
     tracing |-> GetBoolEnv(e.ENABLE_TRACING, TRUE),
     brokers |-> SplitAndTrim(e.KAFKA_BROKERS)]

cfg == NewConfig(env)

OtlpEnabled == cfg.tracing /\ ~cfg.local

-----------------------------------------------------------------------------
(***************************************************************************)
(* Telemetry.                                                              *)
(***************************************************************************)
\* The providers after record x of signal s.
Emit(s, x) ==
    /\ buffered' = IF pipeline[s] = "on"
                   THEN [buffered EXCEPT ![s] = @ \cup {x}] ELSE buffered
    /\ dropped' = IF pipeline[s] = "released"
                  THEN [dropped EXCEPT ![s] = @ \cup {x}] ELSE dropped
    /\ UNCHANGED <<pipeline, cut, late>>

\* The batch processor's own timer.
Export(s) ==
    /\ pipeline[s] = "on" /\ buffered[s] # {} /\ proc # "exited"
    /\ buffered' = [buffered EXCEPT ![s] = {}]
    /\ UNCHANGED <<vars, wiringVars, pipeline, dropped, cut, late>>

StartProvider(s) == pipeline' = [pipeline EXCEPT ![s] = "on"]

\* The application's logger writes its first record through the new provider.
NewLogs ==
    /\ boot = "logs" /\ proc = "starting"
    /\ boot' = "tracing"
    /\ \/ ~OtlpEnabled /\ UNCHANGED <<pipeline, buffered>>
       \/ OtlpEnabled /\ StartProvider("logs")
          /\ buffered' = [buffered EXCEPT !["logs"] = {MainLog}]
    /\ UNCHANGED <<vars, env, services, wired, open, notified, dropped, cut, late>>

NewTracing ==
    /\ boot = "tracing" /\ proc = "starting"
    /\ boot' = "metrics"
    /\ IF OtlpEnabled THEN StartProvider("tracing") ELSE UNCHANGED pipeline
    /\ UNCHANGED <<vars, env, services, wired, open, notified, buffered, dropped,
                   cut, late>>

-----------------------------------------------------------------------------
(***************************************************************************)
(* bootstrap.New.                                                          *)
(***************************************************************************)
Continue(step, next) ==
    /\ boot = step /\ proc = "starting" /\ boot' = next
    /\ UNCHANGED <<vars, env, notified, telemetryVars>>

\* Prometheus pulls: the metrics provider has nothing to flush.
NewMetrics == Continue("metrics", "mode") /\ UNCHANGED <<services, wired, open>>

\* Local mode skips everything that needs AWS.
InitializeLocal ==
    /\ cfg.local /\ Continue("mode", "services") /\ UNCHANGED <<services, wired, open>>

NewAWSClients ==
    /\ ~cfg.local /\ Continue("mode", "parameters")
    /\ UNCHANGED <<services, wired, open>>

\* REDIS_ADDR wins over the parameter; neither key defaults to an empty one.
LoadRuntimeConfig ==
    /\ Continue("parameters", "redis") /\ UNCHANGED <<services, wired, open>>

DialRedis ==
    /\ Continue("redis", "ping")
    /\ open' = open \cup {"redis"} /\ UNCHANGED <<services, wired>>

Ping ==
    /\ Continue("ping", "services")
    /\ services' = [services EXCEPT !.idempotency = TRUE]
    /\ UNCHANGED <<wired, open>>

\* log.Fatal: nothing is flushed.  Nothing after the ping can fail.
TelemetryFails ==
    /\ BootstrapFails
    /\ boot = "metrics" \/ (boot \in Signals /\ OtlpEnabled)
    /\ UNCHANGED <<wiringVars, telemetryVars>>

\* The AWS configuration does not load, or a parameter cannot be read.
AwsFails ==
    /\ BootstrapFails /\ ~cfg.local /\ boot \in {"mode", "parameters"}
    /\ UNCHANGED <<wiringVars, telemetryVars>>

\* Broken form: NewRedisClient keeps the client it could not ping.
PingFailsLeaks ==
    /\ boot = "ping" /\ BootstrapFails
    /\ UNCHANGED <<wiringVars, telemetryVars>>

\* Broken form: a Redis that does not answer only disables the middleware.
PingTolerated ==
    /\ Continue("ping", "services")
    /\ open' = open \ {"redis"}
    /\ UNCHANGED <<services, wired>>

PingFails ==
    /\ boot = "ping" /\ BootstrapFails
    /\ open' = open \ {"redis"}
    /\ UNCHANGED <<env, boot, services, wired, notified, telemetryVars>>

InitializeServices ==
    /\ ~cfg.local /\ Continue("services", "handlers")
    /\ services' = [services EXCEPT !.resource = "sqs", !.auth = "cognito"]
    /\ UNCHANGED <<wired, open>>

\* Without brokers the service stays nil.
InitializeKafkaResourceService ==
    /\ cfg.local /\ Continue("services", "handlers")
    /\ IF cfg.brokers = {} THEN UNCHANGED <<services, open>>
       ELSE services' = [services EXCEPT !.resource = "kafka"] /\ open' = open \cup {"kafka"}
    /\ UNCHANGED wired

\* Broken form: the server listens before its router is built.
InitializeHandlersListens ==
    /\ boot = "handlers" /\ Bootstrap /\ boot' = "server"
    /\ wired' = [wired EXCEPT !.resource = services.resource, !.auth = services.auth]
    /\ UNCHANGED <<env, services, open, notified, telemetryVars>>

\* The handlers keep the services they are given.
InitializeHandlers ==
    /\ Continue("handlers", "server")
    /\ wired' = [wired EXCEPT !.resource = services.resource, !.auth = services.auth]
    /\ UNCHANGED <<services, open>>

\* The router skips the middleware without a store.  Start listens.
InitializeServer ==
    /\ boot = "server" /\ Bootstrap
    /\ boot' = "up"
    /\ wired' = [wired EXCEPT !.idempotency = services.idempotency]
    /\ UNCHANGED <<env, services, open, notified, telemetryVars>>

Boot ==
    \/ NewLogs \/ NewTracing \/ NewMetrics \/ TelemetryFails \/ InitializeLocal
    \/ NewAWSClients \/ LoadRuntimeConfig \/ AwsFails \/ DialRedis \/ Ping \/ PingFails
    \/ InitializeServices \/ InitializeKafkaResourceService \/ InitializeHandlers
    \/ InitializeServer

-----------------------------------------------------------------------------
(***************************************************************************)
(* Requests, with the log lines and the span each leaves: RecoveryMiddleware *)
(* logs a panic, RequestLoggingMiddleware the request.                     *)
(***************************************************************************)
Request(r) ==
    \/ /\ Enter(r) \/ Respond(r) \/ RecordDuration(r)
       /\ UNCHANGED telemetryVars
    \/ Panic(r) /\ Emit("logs", r)
    \/ /\ LogRequest(r)
       /\ IF Logged(r) THEN Emit("logs", r) ELSE UNCHANGED telemetryVars
    \/ LeaveRequest(r) /\ Emit("tracing", r)

-----------------------------------------------------------------------------
(***************************************************************************)
(* Run and Shutdown.                                                       *)
(***************************************************************************)
Notify ==
    /\ proc = "serving" /\ ~notified /\ notified' = TRUE
    /\ UNCHANGED <<vars, env, boot, services, wired, open, telemetryVars>>

\* Start selects on signals and server errors once it asked for both.
Stop ==
    /\ notified
    /\ ServeFails \/ Signal \/ Drained \/ DrainTimesOut
    /\ UNCHANGED <<wiringVars, telemetryVars>>

ReleaseClients ==
    /\ CloseClients /\ Emit("logs", MainLog)
    /\ open' = {}
    /\ UNCHANGED <<env, boot, services, wired, notified>>

\* Broken form: the logs are released first.
TurnLogsFirst(s) ==
    /\ proc = "flushing" /\ pipeline[s] = "on"
    /\ s = "tracing" => pipeline["logs"] # "on"

\* Tracing before logs, so that its failure can still be logged.
Turn(s) ==
    /\ proc = "flushing" /\ pipeline[s] = "on"
    /\ s = "logs" => pipeline["tracing"] # "on"

\* Broken form: the provider is released without a flush.
ReleaseUnflushed(s) ==
    /\ Turn(s)
    /\ pipeline' = [pipeline EXCEPT ![s] = "released"]
    /\ UNCHANGED <<vars, wiringVars, buffered, dropped, cut, late>>

\* An expired context still lets an empty queue go.
Release(s) ==
    /\ Turn(s) /\ (late => buffered[s] = {})
    /\ pipeline' = [pipeline EXCEPT ![s] = "released"]
    /\ buffered' = [buffered EXCEPT ![s] = {}]
    /\ UNCHANGED <<vars, wiringVars, dropped, cut, late>>

\* Broken form: a flush that failed is tried again until the export succeeds.
ReleaseRetried(s) ==
    /\ Turn(s) /\ ~late /\ late' = TRUE
    /\ UNCHANGED <<vars, wiringVars, pipeline, buffered, dropped, cut>>

\* The export fails, perhaps because the deadline the providers share is over.
\* What is left in the queue is lost; the warning goes to the logs.
ReleaseFails(s) ==
    /\ Turn(s)
    /\ pipeline' = [pipeline EXCEPT ![s] = "released"]
    /\ cut' = cut \cup {s}
    /\ late' \in {late, TRUE}
    /\ IF pipeline'["logs"] = "on"
       THEN buffered' = [buffered EXCEPT !["logs"] = @ \cup {MainLog}] /\ UNCHANGED dropped
       ELSE dropped' = [dropped EXCEPT !["logs"] = @ \cup {MainLog}] /\ UNCHANGED buffered
    /\ UNCHANGED <<vars, wiringVars>>

Flush == \E s \in Signals : Release(s) \/ ReleaseFails(s)

Leave ==
    /\ Exit /\ \A s \in Signals : pipeline[s] # "on"
    /\ UNCHANGED <<wiringVars, telemetryVars>>

\* Without Notify a SIGTERM has its default effect; with it, it is queued.
Die ==
    /\ Kill /\ (notified => exitCode' = 137)
    /\ UNCHANGED <<wiringVars, telemetryVars>>

ProcessEnded == Ended /\ UNCHANGED <<wiringVars, telemetryVars>>

ProcessNext ==
    \/ Boot \/ Notify \/ Stop \/ ReleaseClients \/ Flush \/ Leave \/ Die
    \/ ProcessEnded
    \/ \E r \in Requests : Request(r) /\ UNCHANGED wiringVars
    \/ \E s \in Signals : Export(s)

ProcessSpec == ProcessInit /\ [][ProcessNext]_processVars

\* main runs once it is told to stop; the flush ends at the latest when its
\* context does.
ProcessFairSpec ==
    /\ ProcessSpec
    /\ WF_processVars(Exiting /\ Stop) /\ WF_processVars(ReleaseClients)
    /\ WF_processVars(Flush) /\ WF_processVars(Leave)

-----------------------------------------------------------------------------
(***************************************************************************)
(* Properties.                                                             *)
(***************************************************************************)
Steps == {"logs", "tracing", "metrics", "mode", "parameters", "redis",
          "ping", "services", "handlers", "server", "up"}

Wirings == [resource : {"nil", "sqs", "kafka"}, auth : {"nil", "cognito"},
            idempotency : BOOLEAN]

\* Every variable keeps its type; the process serves exactly when New is done.
ProcessTypeOK ==
    /\ TypeOK
    /\ env \in Environments /\ boot \in Steps
    /\ services \in Wirings /\ wired \in Wirings
    /\ open \subseteq {"redis", "kafka"} /\ notified \in BOOLEAN
    /\ pipeline \in [Signals -> {"off", "on", "released"}]
    /\ buffered \in [Signals -> SUBSET (Requests \cup {MainLog})]
    /\ dropped \in [Signals -> SUBSET (Requests \cup {MainLog})]
    /\ cut \subseteq Signals /\ late \in BOOLEAN
    /\ proc = "starting" => boot # "up"
    /\ proc \notin {"starting", "exited"} => boot = "up"

\* A process that takes requests has what its environment asks for: outside
\* local mode SQS, Cognito and, whatever Redis did at boot, the idempotency
\* middleware; in local mode Kafka exactly if the list names a broker, while "auth
\* routes still return 500".  Tracing is on unless ENVIRONMENT is "local" or
\* ENABLE_TRACING is one of the six spellings of false; what is not a Boolean
\* leaves it on.
WiredWhenServing ==
    LET isLocal == env.ENVIRONMENT = "local"
        list == env.KAFKA_BROKERS
        names == \E i \in DOMAIN list : list[i] \notin {Space, Separator}
        refused == {"0", "f", "F", "false", "False", "FALSE"}
    IN  proc \notin {"starting", "exited"} =>
            /\ wired = IF isLocal
                       THEN [Nothing EXCEPT !.resource = IF names THEN "kafka" ELSE "nil"]
                       ELSE [resource |-> "sqs", auth |-> "cognito", idempotency |-> TRUE]
            /\ pipeline["tracing"] # "off" <=> ~isLocal /\ env.ENABLE_TRACING \notin refused

\* A process that ends by itself, at boot or after serving, has closed every
\* client it opened ("The caller owns Close()").
ReleasedOnExit == exitCode \in {0, 1} => open = {}

\* Every log line and span of a request the server waited for is exported before
\* the process ends, unless a flush failed: nothing is written to a provider
\* that is gone, nothing is left in a queue.
NothingLost ==
    boot = "up" /\ exitCode \in {0, 1} =>
        \A s \in Signals :
            /\ buffered[s] # {} => s \in cut
            /\ ~failed => dropped[s] \subseteq {MainLog}

\* "Logs is shut down last so the preceding shutdown steps can still be logged":
\* main's records reach the provider, the failure of its own release excepted.
ShutdownIsLogged == MainLog \in dropped["logs"] => "logs" \in cut

\* The process, step by step, is a process as ApiServer describes it.
ImplementsServer == FairSpec
=============================================================================
