--------------------------- MODULE ApiProcessProofs ---------------------------
(***************************************************************************)
(* Proofs about ApiProcess, for any finite number of requests and whatever *)
(* the configuration is: that it is a process as ApiServer describes it,   *)
(* so that the theorems of ApiServerProofs hold of it, its own invariants  *)
(* about clients and telemetry, and that it serves with the wiring its     *)
(* environment asks for.                                                   *)
(***************************************************************************)
EXTENDS ApiProcess, ApiServerProofs, WellFoundedInduction, SequenceTheorems

LEMMA BootImplements == Boot => Next \/ UNCHANGED vars
  BY DEF Boot, NewLogs, NewTracing, NewMetrics, TelemetryFails, InitializeLocal,
         NewAWSClients, LoadRuntimeConfig, AwsFails, DialRedis, Ping, PingFails,
         InitializeServices, InitializeKafkaResourceService, InitializeHandlers,
         InitializeServer, Continue, Next, Main

\* Every step of the process is a step of ApiServer or leaves its variables alone.
LEMMA ProcessStep == [ProcessNext]_processVars => [Next]_vars
<1> SUFFICES ASSUME [ProcessNext]_processVars PROVE Next \/ UNCHANGED vars
  OBVIOUS
<1>1. CASE Boot
  BY <1>1, BootImplements
<1>2. CASE Stop \/ ReleaseClients \/ Leave \/ Die \/ ProcessEnded
  BY <1>2 DEF Stop, ReleaseClients, Leave, Die, ProcessEnded, Next, Main
<1>3. ASSUME NEW r \in Requests, Request(r) PROVE Next
  BY <1>3 DEF Request, Next, Serve
<1>4. CASE Notify \/ Flush \/ \E s \in Signals : Export(s)
  BY <1>4 DEF Notify, Flush, Release, ReleaseFails, Export
<1>5. CASE UNCHANGED processVars
  BY <1>5 DEF processVars
<1> QED
  BY <1>1, <1>2, <1>3, <1>4, <1>5 DEF ProcessNext

\* The process is a process as ApiServer describes it: the safety part of
\* ImplementsServer.
THEOREM ProcessIsServer == ProcessSpec => Spec
<1>1. ProcessInit => Init
  BY DEF ProcessInit
<1> QED
  BY <1>1, ProcessStep, PTL DEF ProcessSpec, Spec

-----------------------------------------------------------------------------
\* The clients: none before Redis is dialled, only Redis until it answered, none
\* once the flush began.
ClientInv ==
    /\ boot \in {"logs", "tracing", "metrics", "mode", "parameters", "redis"} => open = {}
    /\ boot = "ping" => open \subseteq {"redis"}
    /\ proc = "flushing" => open = {}
    /\ ReleasedOnExit

\* The providers: logs goes on before tracing and is released after it, and
\* neither is released before the flush.
PipelineInv ==
    /\ boot = "logs" => \A s \in Signals : pipeline[s] = "off"
    /\ boot = "tracing" => pipeline["tracing"] = "off"
    /\ boot = "tracing" /\ OtlpEnabled => pipeline["logs"] = "on"
    /\ pipeline["tracing"] = "on" => pipeline["logs"] = "on"
    /\ proc \in {"starting", "serving", "draining", "closing"} =>
           \A s \in Signals : pipeline[s] # "released"
    /\ boot = "up" /\ exitCode \in {0, 1} => \A s \in Signals : pipeline[s] # "on"

\* The records: what a provider has buffered it will export, unless its release
\* failed, and what it dropped came from main's last warning or from a request
\* that outlived the drain.
RecordInv ==
    /\ \A s \in Signals :
        /\ pipeline[s] = "off" => buffered[s] = {}
        /\ pipeline[s] = "released" /\ buffered[s] # {} => s \in cut
        /\ ~failed => dropped[s] \subseteq {MainLog}
    /\ ShutdownIsLogged

ProcessInv == ServerInv /\ ProcessTypeOK /\ ClientInv /\ PipelineInv /\ RecordInv

LEMMA InitProcess == ProcessInit => ProcessInv
<1> SUFFICES ASSUME ProcessInit PROVE ProcessInv
  OBVIOUS
<1>1. ServerInv /\ TypeOK
  BY InitServer DEF ProcessInit, ServerInv
<1>2. proc = "starting" /\ exitCode = None
  BY DEF ProcessInit, Init
<1>3. ProcessTypeOK
  BY <1>1, <1>2 DEF ProcessInit, ProcessTypeOK, Steps, Wirings, Nothing
<1>4. ClientInv /\ PipelineInv /\ RecordInv
  BY <1>2, ConstantsAssumption
     DEF ProcessInit, ClientInv, PipelineInv, RecordInv, ReleasedOnExit,
         ShutdownIsLogged, Signals, ExitCodes
<1> QED
  BY <1>1, <1>3, <1>4 DEF ProcessInv

\* A step of bootstrap.New that only continues.
LEMMA ContinueStep ==
  ASSUME ProcessInv, ServerInv', NEW step \in Steps, NEW next \in Steps \ {"up", "logs", "tracing"},
         Continue(step, next), services' \in Wirings, wired' \in Wirings,
         open' \subseteq {"redis", "kafka"},
         next \in {"metrics", "mode", "parameters", "redis"} => open' = {},
         next = "ping" => open' \subseteq {"redis"}
  PROVE  ProcessInv'
<1>1. /\ boot = step /\ proc = "starting" /\ boot' = next /\ exitCode' = exitCode
      /\ proc' = proc /\ failed' = failed /\ env' = env /\ notified' = notified
      /\ UNCHANGED <<pipeline, buffered, dropped, cut, late>>
  BY DEF Continue, vars, procVars, telemetryVars
<1>2. exitCode = None /\ TypeOK'
  BY <1>1 DEF ProcessInv, ServerInv, TypeOK
<1>3. ProcessTypeOK'
  BY <1>1, <1>2 DEF ProcessInv, ProcessTypeOK
<1>4. ClientInv'
  BY <1>1, <1>2, ConstantsAssumption DEF ProcessInv, ClientInv, ReleasedOnExit, Steps, ExitCodes
<1>5. PipelineInv' /\ RecordInv'
  BY <1>1 DEF ProcessInv, PipelineInv, RecordInv, ShutdownIsLogged
<1> QED
  BY <1>3, <1>4, <1>5 DEF ProcessInv

LEMMA BootStep == ASSUME ProcessInv, ServerInv', Boot PROVE ProcessInv'
<1>0. /\ ProcessTypeOK /\ ClientInv /\ PipelineInv /\ RecordInv /\ TypeOK
      /\ TypeOK' /\ services \in Wirings /\ wired \in Wirings
  BY DEF ProcessInv, ServerInv, ProcessTypeOK
<1>1. CASE NewMetrics \/ InitializeLocal \/ NewAWSClients \/ LoadRuntimeConfig
  <2>1. PICK step \in {"metrics", "mode", "parameters"},
             next \in {"mode", "services", "parameters", "redis"} : Continue(step, next)
    BY <1>1 DEF NewMetrics, InitializeLocal, NewAWSClients, LoadRuntimeConfig
  <2>2. UNCHANGED <<services, wired, open>> /\ boot = step /\ open = {}
    BY <1>1, <1>0, <2>1
       DEF NewMetrics, InitializeLocal, NewAWSClients, LoadRuntimeConfig, Continue, ClientInv
  <2> QED
    BY <1>0, <2>1, <2>2, ContinueStep DEF Steps
<1>2. CASE DialRedis
  <2>1. /\ Continue("redis", "ping") /\ open' = {"redis"} /\ UNCHANGED <<services, wired>>
    BY <1>2, <1>0 DEF DialRedis, Continue, ClientInv
  <2> QED
    BY <1>0, <2>1, ContinueStep DEF Steps
<1>3. CASE Ping
  <2>1. services' \in Wirings
    BY <1>3, <1>0 DEF Ping, Wirings
  <2> QED
    BY <1>3, <1>0, <2>1, ContinueStep DEF Ping, Steps, ProcessTypeOK
<1>4. CASE InitializeServices \/ InitializeKafkaResourceService
  <2>1. Continue("services", "handlers") /\ wired' = wired
    BY <1>4 DEF InitializeServices, InitializeKafkaResourceService
  <2>2. services' \in Wirings /\ open' \subseteq {"redis", "kafka"}
    BY <1>4, <1>0 DEF InitializeServices, InitializeKafkaResourceService, Wirings, ProcessTypeOK
  <2> QED
    BY <1>0, <2>1, <2>2, ContinueStep DEF Steps
<1>5. CASE InitializeHandlers
  <2>1. wired' \in Wirings
    BY <1>5, <1>0 DEF InitializeHandlers, Wirings
  <2> QED
    BY <1>5, <1>0, <2>1, ContinueStep DEF InitializeHandlers, Steps, ProcessTypeOK
<1>6. CASE InitializeServer
  <2>1. /\ boot = "server" /\ boot' = "up" /\ proc = "starting" /\ proc' = "serving"
        /\ exitCode = None /\ exitCode' = None /\ failed' = failed
        /\ UNCHANGED <<env, services, open, notified, pipeline, buffered, dropped, cut, late>>
    BY <1>6, <1>0 DEF InitializeServer, Bootstrap, telemetryVars, TypeOK
  <2>2. wired' \in Wirings
    BY <1>6, <1>0 DEF InitializeServer, Wirings
  <2>3. ProcessTypeOK'
    BY <2>1, <2>2, <1>0 DEF ProcessTypeOK, Steps
  <2>4. ClientInv' /\ PipelineInv' /\ RecordInv'
    BY <2>1, <1>0, ConstantsAssumption
       DEF ClientInv, PipelineInv, RecordInv, ReleasedOnExit, ShutdownIsLogged, ExitCodes
  <2> QED
    BY <2>3, <2>4 DEF ProcessInv
<1>7. CASE NewLogs
  <2>1. /\ boot = "logs" /\ proc = "starting" /\ boot' = "tracing" /\ proc' = proc
        /\ exitCode = None /\ exitCode' = None /\ failed' = failed
        /\ UNCHANGED <<env, services, wired, open, notified, dropped, cut, late>>
    BY <1>7, <1>0 DEF NewLogs, vars, procVars, TypeOK
  <2>2. OtlpEnabled' = OtlpEnabled
    BY <2>1 DEF OtlpEnabled, cfg
  <2>3. \/ ~OtlpEnabled /\ UNCHANGED <<pipeline, buffered>>
        \/ /\ OtlpEnabled /\ pipeline' = [pipeline EXCEPT !["logs"] = "on"]
           /\ buffered' = [buffered EXCEPT !["logs"] = {MainLog}]
    BY <1>7 DEF NewLogs, StartProvider
  <2>4. /\ pipeline' \in [Signals -> {"off", "on", "released"}]
        /\ buffered' \in [Signals -> SUBSET (Requests \cup {MainLog})]
    BY <2>3, <1>0 DEF ProcessTypeOK, Signals
  <2>5. ProcessTypeOK'
    BY <2>1, <2>4, <1>0 DEF ProcessTypeOK, Steps
  <2>6. ClientInv'
    BY <2>1, <1>0, ConstantsAssumption DEF ClientInv, ReleasedOnExit, ExitCodes
  <2>7. PipelineInv' /\ RecordInv'
    BY <2>1, <2>2, <2>3, <1>0
       DEF ProcessTypeOK, PipelineInv, RecordInv, ShutdownIsLogged, Signals
  <2> QED
    BY <2>5, <2>6, <2>7 DEF ProcessInv
<1>8. CASE NewTracing
  <2>1. /\ boot = "tracing" /\ proc = "starting" /\ boot' = "metrics" /\ proc' = proc
        /\ exitCode = None /\ exitCode' = None /\ failed' = failed
        /\ UNCHANGED <<env, services, wired, open, notified, buffered, dropped, cut, late>>
    BY <1>8, <1>0 DEF NewTracing, vars, procVars, TypeOK
  <2>2. \/ ~OtlpEnabled /\ UNCHANGED pipeline
        \/ OtlpEnabled /\ pipeline' = [pipeline EXCEPT !["tracing"] = "on"]
    BY <1>8 DEF NewTracing, StartProvider
  <2>3. ProcessTypeOK'
    BY <2>1, <2>2, <1>0 DEF ProcessTypeOK, Steps, Signals
  <2>4. ClientInv'
    BY <2>1, <1>0, ConstantsAssumption DEF ClientInv, ReleasedOnExit, ExitCodes
  <2>5. PipelineInv' /\ RecordInv'
    BY <2>1, <2>2, <1>0
       DEF ProcessTypeOK, PipelineInv, RecordInv, ShutdownIsLogged, Signals
  <2> QED
    BY <2>3, <2>4, <2>5 DEF ProcessInv
<1>9. CASE TelemetryFails \/ AwsFails \/ PingFails
  <2>1. /\ proc = "starting" /\ proc' = "exited" /\ failed' = failed
        /\ UNCHANGED <<env, boot, services, wired, notified, pipeline, buffered, dropped, cut, late>>
        /\ boot \in {"logs", "tracing", "metrics", "mode", "parameters", "ping"}
    BY <1>9 DEF TelemetryFails, AwsFails, PingFails, BootstrapFails, wiringVars,
                telemetryVars, Signals
  <2>2. open' = {}
    BY <1>9, <2>1, <1>0 DEF TelemetryFails, AwsFails, PingFails, wiringVars, ClientInv, Signals
  <2>3. ProcessTypeOK'
    BY <2>1, <2>2, <1>0 DEF ProcessTypeOK
  <2>4. OtlpEnabled' = OtlpEnabled
    BY <2>1 DEF OtlpEnabled, cfg
  <2>5. ClientInv' /\ PipelineInv' /\ RecordInv'
    BY <2>1, <2>2, <2>4, <1>0
       DEF ClientInv, PipelineInv, RecordInv, ReleasedOnExit, ShutdownIsLogged
  <2> QED
    BY <2>3, <2>5 DEF ProcessInv
<1> QED
  BY <1>1, <1>2, <1>3, <1>4, <1>5, <1>6, <1>7, <1>8, <1>9 DEF Boot

\* A record given to a provider: it is buffered, or dropped if the provider is gone.
LEMMA EmitStep ==
  ASSUME ProcessInv, NEW s \in Signals, NEW x \in Requests \cup {MainLog}, Emit(s, x),
         failed' = failed,
         pipeline[s] = "released" => failed /\ x # MainLog
  PROVE  /\ RecordInv'
         /\ buffered' \in [Signals -> SUBSET (Requests \cup {MainLog})]
         /\ dropped' \in [Signals -> SUBSET (Requests \cup {MainLog})]
<1>0. ProcessTypeOK /\ RecordInv
  BY DEF ProcessInv
<1>1. pipeline' = pipeline /\ cut' = cut
  BY DEF Emit
<1>2. CASE pipeline[s] = "released"
  <2>1. buffered' = buffered /\ dropped' = [dropped EXCEPT ![s] = @ \cup {x}]
    BY <1>2 DEF Emit
  <2> QED
    BY <1>0, <1>1, <1>2, <2>1 DEF ProcessTypeOK, RecordInv, ShutdownIsLogged, Signals
<1>3. CASE pipeline[s] = "on"
  <2>1. dropped' = dropped /\ buffered' = [buffered EXCEPT ![s] = @ \cup {x}]
    BY <1>3 DEF Emit
  <2> QED
    BY <1>0, <1>1, <1>3, <2>1 DEF ProcessTypeOK, RecordInv, ShutdownIsLogged
<1>4. CASE pipeline[s] \notin {"on", "released"}
  <2>1. dropped' = dropped /\ buffered' = buffered
    BY <1>4 DEF Emit
  <2> QED
    BY <1>0, <1>1, <2>1 DEF ProcessTypeOK, RecordInv, ShutdownIsLogged
<1> QED
  BY <1>2, <1>3, <1>4

LEMMA RequestStep ==
  ASSUME ProcessInv, ServerInv', NEW r \in Requests, Request(r), UNCHANGED wiringVars
  PROVE  ProcessInv'
<1>0. /\ ProcessTypeOK /\ ClientInv /\ PipelineInv /\ RecordInv /\ TypeOK /\ TypeOK' /\ Phases
  BY DEF ProcessInv, ServerInv
<1>1. /\ UNCHANGED <<proc, failed, exitCode, env, boot, services, wired, open, notified>>
  BY DEF Request, Enter, Respond, Panic, RecordDuration, LogRequest, LeaveRequest,
         procVars, wiringVars
<1>2. OtlpEnabled' = OtlpEnabled
  BY <1>1 DEF OtlpEnabled, cfg
<1> DEFINE Kept ==
        /\ UNCHANGED <<pipeline, cut, late>> /\ RecordInv'
        /\ buffered' \in [Signals -> SUBSET (Requests \cup {MainLog})]
        /\ dropped' \in [Signals -> SUBSET (Requests \cup {MainLog})]
<1>3. Kept
  <2>1. CASE UNCHANGED telemetryVars
    BY <2>1, <1>0, <1>1 DEF telemetryVars, ProcessTypeOK, RecordInv, ShutdownIsLogged
  <2>2. ASSUME NEW s \in Signals, Emit(s, r),
                    Panic(r) \/ LogRequest(r) \/ LeaveRequest(r)
             PROVE  Kept
    <3>1. pipeline[s] = "released" => proc = "flushing"
      BY <1>0, <2>2 DEF PipelineInv, TypeOK, Panic, LogRequest, LeaveRequest
    <3>2. pipeline[s] = "released" => failed
      BY <1>0, <2>2, <3>1 DEF Phases, Inside, Panic, Running, LogRequest, LeaveRequest
    <3>3. r # MainLog
      BY MainAssumption
    <3>4. UNCHANGED <<pipeline, cut, late>>
      BY <2>2 DEF Emit
    <3> QED
      BY <1>1, <2>2, <3>2, <3>3, <3>4, EmitStep
  <2> QED
    BY <2>1, <2>2 DEF Request, Signals
<1>4. ProcessTypeOK'
  BY <1>0, <1>1, <1>3 DEF ProcessTypeOK
<1>5. ClientInv' /\ PipelineInv'
  BY <1>0, <1>1, <1>2, <1>3 DEF ClientInv, PipelineInv, ReleasedOnExit
<1> QED
  BY <1>3, <1>4, <1>5 DEF ProcessInv

\* What main does before the flush and after it, the timers of the providers, and
\* the end of the process.
LEMMA MainSteps ==
  ASSUME ProcessInv, ServerInv',
         \/ Notify \/ Stop \/ ReleaseClients \/ Leave \/ Die \/ ProcessEnded
         \/ (\E s \in Signals : Export(s)) \/ UNCHANGED processVars
  PROVE  ProcessInv'
<1>0. /\ ProcessTypeOK /\ ClientInv /\ PipelineInv /\ RecordInv /\ TypeOK /\ TypeOK' /\ Phases
  BY DEF ProcessInv, ServerInv
<1>1. CASE Notify \/ ProcessEnded \/ UNCHANGED processVars
  <2>1. /\ UNCHANGED <<proc, failed, exitCode, env, boot, services, wired, open,
                       pipeline, buffered, dropped, cut, late>>
        /\ notified' \in BOOLEAN
    BY <1>0, <1>1 DEF Notify, ProcessEnded, Ended, processVars, vars, procVars, wiringVars,
                      telemetryVars, ProcessTypeOK
  <2>2. OtlpEnabled' = OtlpEnabled
    BY <2>1 DEF OtlpEnabled, cfg
  <2> QED
    BY <1>0, <2>1, <2>2
       DEF ProcessInv, ProcessTypeOK, ClientInv, PipelineInv, RecordInv, ReleasedOnExit,
           ShutdownIsLogged
<1>2. CASE Stop
  <2>1. /\ proc \in {"serving", "draining"} /\ proc' \in {"draining", "closing"}
        /\ exitCode' = exitCode /\ (failed => failed')
        /\ UNCHANGED <<env, boot, services, wired, open, notified, pipeline, buffered,
                       dropped, cut, late>>
    BY <1>2 DEF Stop, ServeFails, Signal, Drained, DrainTimesOut, wiringVars, telemetryVars
  <2>2. boot = "up" /\ exitCode = None
    BY <1>0, <2>1 DEF ProcessTypeOK, TypeOK
  <2>3. ProcessTypeOK'
    BY <1>0, <2>1, <2>2 DEF ProcessTypeOK
  <2>4. ClientInv' /\ PipelineInv'
    BY <1>0, <2>1, <2>2, ConstantsAssumption
       DEF ClientInv, PipelineInv, ReleasedOnExit, ExitCodes
  <2>5. RecordInv'
    BY <1>0, <2>1 DEF RecordInv, ShutdownIsLogged
  <2> QED
    BY <2>3, <2>4, <2>5 DEF ProcessInv
<1>3. CASE ReleaseClients
  <2>1. /\ proc = "closing" /\ proc' = "flushing" /\ exitCode' = exitCode /\ failed' = failed
        /\ open' = {} /\ Emit("logs", MainLog)
        /\ UNCHANGED <<env, boot, services, wired, notified>>
    BY <1>3 DEF ReleaseClients, CloseClients
  <2>2. boot = "up" /\ exitCode = None /\ pipeline["logs"] # "released"
    BY <1>0, <2>1 DEF ProcessTypeOK, TypeOK, PipelineInv, Signals
  <2>3. UNCHANGED <<pipeline, cut, late>>
    BY <2>1 DEF Emit
  <2>4. /\ RecordInv'
        /\ buffered' \in [Signals -> SUBSET (Requests \cup {MainLog})]
        /\ dropped' \in [Signals -> SUBSET (Requests \cup {MainLog})]
    BY <2>1, <2>2, EmitStep DEF Signals
  <2>5. ProcessTypeOK'
    BY <1>0, <2>1, <2>2, <2>3, <2>4 DEF ProcessTypeOK
  <2>6. ClientInv' /\ PipelineInv'
    BY <1>0, <2>1, <2>2, <2>3, ConstantsAssumption
       DEF ClientInv, PipelineInv, ReleasedOnExit, ExitCodes
  <2> QED
    BY <2>4, <2>5, <2>6 DEF ProcessInv
<1>4. CASE Leave
  <2>1. /\ proc = "flushing" /\ proc' = "exited" /\ failed' = failed
        /\ \A s \in Signals : pipeline[s] # "on"
        /\ UNCHANGED <<env, boot, services, wired, open, notified, pipeline, buffered,
                       dropped, cut, late>>
    BY <1>4 DEF Leave, Exit, wiringVars, telemetryVars
  <2>2. boot = "up" /\ open = {}
    BY <1>0, <2>1 DEF ProcessTypeOK, ClientInv
  <2>3. ProcessTypeOK'
    BY <1>0, <2>1, <2>2 DEF ProcessTypeOK
  <2>4. ClientInv' /\ PipelineInv' /\ RecordInv'
    BY <1>0, <2>1, <2>2
       DEF ClientInv, PipelineInv, RecordInv, ReleasedOnExit, ShutdownIsLogged
  <2> QED
    BY <2>3, <2>4 DEF ProcessInv
<1>5. CASE Die
  <2>1. /\ proc' = "exited" /\ exitCode' \in {137, 143} /\ failed' = failed
        /\ UNCHANGED <<env, boot, services, wired, open, notified, pipeline, buffered,
                       dropped, cut, late>>
    BY <1>5 DEF Die, Kill, wiringVars, telemetryVars
  <2>2. exitCode' \notin {0, 1}
    BY <2>1
  <2>3. OtlpEnabled' = OtlpEnabled
    BY <2>1 DEF OtlpEnabled, cfg
  <2>4. ProcessTypeOK'
    BY <1>0, <2>1 DEF ProcessTypeOK
  <2>5. ClientInv' /\ PipelineInv' /\ RecordInv'
    BY <1>0, <2>1, <2>2, <2>3
       DEF ClientInv, PipelineInv, RecordInv, ReleasedOnExit, ShutdownIsLogged
  <2> QED
    BY <2>4, <2>5 DEF ProcessInv
<1>6. ASSUME NEW s \in Signals, Export(s) PROVE ProcessInv'
  <2>1. /\ buffered' = [buffered EXCEPT ![s] = {}]
        /\ UNCHANGED <<proc, failed, exitCode, env, boot, services, wired, open, notified,
                       pipeline, dropped, cut, late>>
    BY <1>6 DEF Export, vars, procVars, wiringVars
  <2>2. OtlpEnabled' = OtlpEnabled
    BY <2>1 DEF OtlpEnabled, cfg
  <2>3. ProcessTypeOK'
    BY <1>0, <2>1 DEF ProcessTypeOK
  <2>4. ClientInv' /\ PipelineInv' /\ RecordInv'
    BY <1>0, <2>1, <2>2
       DEF ClientInv, PipelineInv, RecordInv, ReleasedOnExit, ShutdownIsLogged, ProcessTypeOK
  <2> QED
    BY <2>3, <2>4 DEF ProcessInv
<1> QED
  BY <1>1, <1>2, <1>3, <1>4, <1>5, <1>6

\* The release of a provider.  While tracing is on so is logs, which takes the
\* warning about it; when logs goes, its own warning has nowhere to go.
LEMMA FlushStep ==
  ASSUME ProcessInv, ServerInv', NEW s \in Signals, Release(s) \/ ReleaseFails(s)
  PROVE  ProcessInv'
<1>0. /\ ProcessTypeOK /\ ClientInv /\ PipelineInv /\ RecordInv /\ TypeOK /\ TypeOK'
  BY DEF ProcessInv, ServerInv
<1>1. /\ proc = "flushing" /\ pipeline[s] = "on" /\ (s = "logs" => pipeline["tracing"] # "on")
      /\ pipeline' = [pipeline EXCEPT ![s] = "released"]
      /\ UNCHANGED <<proc, failed, exitCode, env, boot, services, wired, open, notified>>
  BY DEF Release, ReleaseFails, Turn, vars, procVars, wiringVars
<1>2. boot = "up" /\ exitCode = None /\ pipeline["logs"] = "on"
  BY <1>0, <1>1 DEF ProcessTypeOK, TypeOK, PipelineInv, Signals
<1>3. /\ RecordInv' /\ cut' \subseteq Signals /\ late' \in BOOLEAN
      /\ buffered' \in [Signals -> SUBSET (Requests \cup {MainLog})]
      /\ dropped' \in [Signals -> SUBSET (Requests \cup {MainLog})]
  <2>1. CASE Release(s)
    <3>1. buffered' = [buffered EXCEPT ![s] = {}] /\ UNCHANGED <<dropped, cut, late>>
      BY <2>1 DEF Release
    <3> QED
      BY <1>0, <1>1, <3>1 DEF ProcessTypeOK, RecordInv, ShutdownIsLogged
  <2>2. CASE ReleaseFails(s) /\ s = "tracing"
    <3>1. /\ buffered' = [buffered EXCEPT !["logs"] = @ \cup {MainLog}] /\ dropped' = dropped
          /\ cut' = cut \cup {s} /\ late' \in {late, TRUE}
      BY <1>0, <1>1, <1>2, <2>2 DEF ReleaseFails, ProcessTypeOK, Signals
    <3> QED
      BY <1>0, <1>1, <1>2, <2>2, <3>1 DEF ProcessTypeOK, RecordInv, ShutdownIsLogged, Signals
  <2>3. CASE ReleaseFails(s) /\ s = "logs"
    <3>1. /\ dropped' = [dropped EXCEPT !["logs"] = @ \cup {MainLog}] /\ buffered' = buffered
          /\ cut' = cut \cup {s} /\ late' \in {late, TRUE}
      BY <1>0, <1>1, <2>3 DEF ReleaseFails, ProcessTypeOK, Signals
    <3> QED
      BY <1>0, <1>1, <2>3, <3>1 DEF ProcessTypeOK, RecordInv, ShutdownIsLogged, Signals
  <2> QED
    BY <2>1, <2>2, <2>3 DEF Signals
<1>4. ProcessTypeOK'
  BY <1>0, <1>1, <1>3 DEF ProcessTypeOK
<1>5. ClientInv' /\ PipelineInv'
  BY <1>0, <1>1, <1>2, ConstantsAssumption
     DEF ClientInv, PipelineInv, ReleasedOnExit, ProcessTypeOK, ExitCodes, Signals
<1> QED
  BY <1>3, <1>4, <1>5 DEF ProcessInv

LEMMA NextProcess == ProcessInv /\ [ProcessNext]_processVars => ProcessInv'
<1> SUFFICES ASSUME ProcessInv, [ProcessNext]_processVars PROVE ProcessInv'
  OBVIOUS
<1>1. ServerInv'
  BY ProcessStep, NextServer DEF ProcessInv
<1> QED
  BY <1>1, BootStep, RequestStep, MainSteps, FlushStep DEF ProcessNext, Flush

LEMMA ProcessInvariant == ProcessSpec => []ProcessInv
  BY InitProcess, NextProcess, PTL DEF ProcessSpec

-----------------------------------------------------------------------------
\* Every variable keeps its type, and the process serves exactly when New is done.
THEOREM ProcessTypeCorrect == ProcessSpec => []ProcessTypeOK
<1>1. ProcessInv => ProcessTypeOK
  BY DEF ProcessInv
<1> QED
  BY ProcessInvariant, <1>1, PTL

\* A process that ends by itself, at any step of the boot or after serving, has
\* closed every client it opened.
THEOREM ProcessReleasedOnExit == ProcessSpec => []ReleasedOnExit
<1>1. ProcessInv => ReleasedOnExit
  BY DEF ProcessInv, ClientInv
<1> QED
  BY ProcessInvariant, <1>1, PTL

\* Every log line and span of a request the server waited for is exported before
\* the process ends, unless a flush failed.
THEOREM ProcessNothingLost == ProcessSpec => []NothingLost
<1>1. ProcessInv => NothingLost
  <2> SUFFICES ASSUME ProcessInv, boot = "up", exitCode \in {0, 1}, NEW s \in Signals
               PROVE  /\ buffered[s] # {} => s \in cut
                      /\ ~failed => dropped[s] \subseteq {MainLog}
    BY DEF NothingLost
  <2>1. pipeline[s] # "on" /\ pipeline[s] \in {"off", "on", "released"}
    BY DEF ProcessInv, PipelineInv, ProcessTypeOK
  <2> QED
    BY <2>1 DEF ProcessInv, RecordInv
<1> QED
  BY ProcessInvariant, <1>1, PTL

\* What main logs while it shuts down reaches the provider of the logs, the
\* failure of that provider's own release excepted.
THEOREM ProcessShutdownIsLogged == ProcessSpec => []ShutdownIsLogged
<1>1. ProcessInv => ShutdownIsLogged
  BY DEF ProcessInv, RecordInv
<1> QED
  BY ProcessInvariant, <1>1, PTL

-----------------------------------------------------------------------------
(***************************************************************************)
(* The lists of config.go.                                                 *)
(***************************************************************************)
\* A set of natural numbers has a least element.
LEMMA LeastExists ==
  ASSUME NEW S \in SUBSET Nat, S # {}
  PROVE  \E least \in S : \A k \in S : least <= k
<1>1. PICK least \in S : \A k \in S : <<k, least>> \notin OpToRel(<, Nat)
  BY NatLessThanWellFounded, WFMin
<1>2. \A k \in S : ~(k < least)
  BY <1>1 DEF OpToRel
<1> QED
  BY <1>2

\* A bounded one has a greatest: the least of its distances to the bound.
LEMMA GreatestExists ==
  ASSUME NEW n \in Nat, NEW S \in SUBSET (0..n), S # {}
  PROVE  \E greatest \in S : \A k \in S : k <= greatest
<1> DEFINE D == {n - k : k \in S}
<1>1. D \in SUBSET Nat /\ D # {}
  <2>1. \A k \in S : n - k \in Nat
    OBVIOUS
  <2>2. PICK k \in S : TRUE
    OBVIOUS
  <2> QED
    BY <2>1, <2>2
<1>2. PICK least \in D : \A d \in D : least <= d
  BY <1>1, LeastExists
<1>3. PICK greatest \in S : least = n - greatest
  BY <1>2
<1>4. \A k \in S : n - greatest <= n - k
  BY <1>2, <1>3
<1> QED
  BY <1>4

\* What a slice of a list is.
LEMMA SliceOfList ==
  ASSUME NEW Char, NEW s \in Seq(Char), NEW m \in Int, NEW n \in Int, 0 < m, n <= Len(s)
  PROVE  \E slice \in Seq(Char) :
            /\ slice = SubSeq(s, m, n)
            /\ Len(slice) = IF m <= n THEN n - m + 1 ELSE 0
            /\ \A k \in 1..(n - m + 1) : slice[k] = s[m + k - 1]
<1>1. \A i \in m..n : s[i] \in Char
  OBVIOUS
<1>2. PICK slice : slice = SubSeq(s, m, n)
  OBVIOUS
<1>3. /\ slice \in Seq(Char)
      /\ Len(slice) = IF m <= n THEN n - m + 1 ELSE 0
      /\ \A k \in 1..(n - m + 1) : slice[k] = s[m + k - 1]
  BY <1>1, <1>2, SubSeqProperties
<1> QED
  BY <1>2, <1>3

\* Trimming leaves nothing exactly of white space, and what it leaves ends in
\* other characters.
LEMMA TrimSpaceOfBlank ==
  ASSUME NEW Char, NEW s \in Seq(Char)
  PROVE  TrimSpace(s) = <<>> <=> \A i \in DOMAIN s : s[i] = Space
<1> DEFINE Kept == {i \in DOMAIN s : s[i] # Space}
<1>1. CASE Kept = {}
  BY <1>1 DEF TrimSpace
<1>2. CASE Kept # {}
  <2>1. Kept \in SUBSET Nat /\ Kept \in SUBSET (0..Len(s)) /\ Len(s) \in Nat
    OBVIOUS
  <2>2. Min(Kept) \in Kept /\ \A k \in Kept : Min(Kept) <= k
    BY <1>2, <2>1, LeastExists DEF Min
  <2>3. Max(Kept) \in Kept /\ \A k \in Kept : k <= Max(Kept)
    BY <1>2, <2>1, GreatestExists DEF Max
  <2>4. PICK m \in Int, n \in Int : m = Min(Kept) /\ n = Max(Kept)
    <3>1. Min(Kept) \in Int /\ Max(Kept) \in Int
      BY <2>1, <2>2, <2>3
    <3> QED
      BY <3>1, Zenon
  <2>5. 0 < m /\ m <= n /\ n <= Len(s)
    BY <2>1, <2>2, <2>3, <2>4
  <2>6. PICK kept \in Seq(Char) : kept = SubSeq(s, m, n) /\ Len(kept) = n - m + 1
    BY <2>5, SliceOfList
  <2>7. TrimSpace(s) = kept
    BY <1>2, <2>4, <2>6 DEF TrimSpace
  <2>8. TrimSpace(s) # <<>>
    BY <2>5, <2>6, <2>7, EmptySeq
  <2>9. ~ \A i \in DOMAIN s : s[i] = Space
    BY <1>2
  <2> QED
    BY <2>8, <2>9
<1> QED
  BY <1>1, <1>2

\* A piece holds characters of the list and no separator.
LEMMA PieceOfList ==
  ASSUME NEW Char, NEW s \in Seq(Char), NEW part \in SplitString(s)
  PROVE  /\ part \in Seq(Char)
         /\ \A k \in DOMAIN part : \E i \in DOMAIN s : part[k] = s[i] /\ s[i] # Separator
<1>1. PICK i \in Cuts(s), j \in Cuts(s) :
        Neighbours(i, j, Cuts(s)) /\ part = SubSeq(s, i + 1, j - 1)
  BY DEF SplitString
<1>2. i \in Int /\ j \in Int /\ 0 <= i /\ j <= Len(s) + 1 /\ Len(s) \in Nat /\ i < j
  BY <1>1 DEF Cuts, Neighbours
<1>3. \A k \in (i + 1)..(j - 1) : k \in DOMAIN s /\ s[k] # Separator /\ s[k] \in Char
  BY <1>1, <1>2 DEF Cuts, Neighbours
<1>4. /\ part \in Seq(Char)
      /\ Len(part) = IF i + 1 <= j - 1 THEN (j - 1) - (i + 1) + 1 ELSE 0
      /\ \A k \in 1..((j - 1) - (i + 1) + 1) : part[k] = s[(i + 1) + k - 1]
  BY <1>1, <1>2, <1>3, SubSeqProperties
<1>5. ASSUME NEW k \in DOMAIN part
      PROVE  i + k \in (i + 1)..(j - 1) /\ part[k] = s[i + k]
  <2>1. k \in 1..Len(part) /\ i + 1 <= j - 1
    BY <1>2, <1>4, <1>5
  <2> QED
    BY <1>2, <1>4, <2>1
<1> QED
  BY <1>3, <1>4, <1>5

\* Every character but a separator is in a piece.
LEMMA CharacterInPiece ==
  ASSUME NEW Char, NEW s \in Seq(Char), NEW n \in DOMAIN s, s[n] # Separator
  PROVE  \E part \in SplitString(s) : \E k \in DOMAIN part : part[k] = s[n]
<1> DEFINE Before == {i \in Cuts(s) : i < n}
           After == {j \in Cuts(s) : n < j}
<1>1. Len(s) \in Nat /\ n \in 1..Len(s) /\ Cuts(s) \in SUBSET (0..(Len(s) + 1))
  BY DEF Cuts
<1>2. 0 \in Before /\ Len(s) + 1 \in After /\ n \notin Cuts(s)
  BY <1>1 DEF Cuts
<1>3. PICK i \in Before : \A k \in Before : k <= i
  <2>1. Before \in SUBSET (0..(Len(s) + 1)) /\ Before # {} /\ Len(s) + 1 \in Nat
    BY <1>1, <1>2
  <2> HIDE DEF Before
  <2> QED
    BY <2>1, GreatestExists
<1>4. PICK j \in After : \A k \in After : j <= k
  <2>1. After \in SUBSET Nat /\ After # {}
    BY <1>1, <1>2
  <2> HIDE DEF After
  <2> QED
    BY <2>1, LeastExists
<1>5. /\ i \in Cuts(s) /\ j \in Cuts(s) /\ i < n /\ n < j
      /\ i \in Nat /\ j \in Nat /\ j <= Len(s) + 1
  BY <1>1
<1>6. \A k \in Cuts(s) : k \in Nat /\ (k < n \/ n < k)
  BY <1>1, <1>2
<1>7. Neighbours(i, j, Cuts(s))
  BY <1>1, <1>3, <1>4, <1>5, <1>6 DEF Neighbours
<1>8. PICK first \in Int, last \in Int : first = i + 1 /\ last = j - 1
  BY <1>5
<1>9. PICK part \in Seq(Char) :
         /\ part = SubSeq(s, first, last)
         /\ Len(part) = IF first <= last THEN last - first + 1 ELSE 0
         /\ \A k \in 1..(last - first + 1) : part[k] = s[first + k - 1]
  <2>1. 0 < first /\ last <= Len(s)
    BY <1>1, <1>5, <1>8
  <2> QED
    BY <2>1, SliceOfList
<1>10. part \in SplitString(s)
  <2>1. <<i, j>> \in {d \in Cuts(s) \X Cuts(s) : Neighbours(d[1], d[2], Cuts(s))}
    BY <1>5, <1>7
  <2>2. part = SubSeq(s, <<i, j>>[1] + 1, <<i, j>>[2] - 1)
    BY <1>8, <1>9
  <2> QED
    BY <2>1, <2>2, Zenon DEF SplitString
<1>11. Len(part) = j - i - 1 /\ n - i \in 1..(j - i - 1)
  BY <1>1, <1>5, <1>8, <1>9
<1>12. part[n - i] = s[n]
  BY <1>1, <1>5, <1>8, <1>9, <1>11
<1>13. n - i \in DOMAIN part
  BY <1>9, <1>11
<1> QED
  BY <1>10, <1>12, <1>13

\* A list names something exactly when it holds more than separators and space.
THEOREM SplitAndTrimNames ==
  ASSUME NEW Char, NEW s \in Seq(Char)
  PROVE  SplitAndTrim(s) # {} <=> \E i \in DOMAIN s : s[i] \notin {Space, Separator}
<1>1. ASSUME NEW i \in DOMAIN s, s[i] \notin {Space, Separator} PROVE SplitAndTrim(s) # {}
  <2>1. PICK part \in SplitString(s) : \E k \in DOMAIN part : part[k] = s[i]
    BY <1>1, CharacterInPiece
  <2>2. TrimSpace(part) # <<>>
    BY <1>1, <2>1, PieceOfList, TrimSpaceOfBlank
  <2> QED
    BY <2>2 DEF SplitAndTrim
<1>2. ASSUME NEW part \in SplitString(s), TrimSpace(part) # <<>>
      PROVE  \E i \in DOMAIN s : s[i] \notin {Space, Separator}
  <2>1. PICK k \in DOMAIN part : part[k] # Space
    BY <1>2, PieceOfList, TrimSpaceOfBlank
  <2>2. PICK i \in DOMAIN s : part[k] = s[i] /\ s[i] # Separator
    BY <2>1, PieceOfList
  <2> QED
    BY <2>1, <2>2
<1> QED
  BY <1>1, <1>2 DEF SplitAndTrim

-----------------------------------------------------------------------------
(***************************************************************************)
(* The wiring.                                                             *)
(***************************************************************************)
\* What the configuration asks the handlers and the router to be given.
Wanted ==
    IF cfg.local
    THEN [resource |-> IF cfg.brokers = {} THEN "nil" ELSE "kafka", auth |-> "nil",
          idempotency |-> FALSE]
    ELSE [resource |-> "sqs", auth |-> "cognito", idempotency |-> TRUE]

\* Up to the ping nothing is wired, and only a deployed process gets there; then
\* the store, the services, the handlers and the router follow in this order.
WiringInv ==
    /\ boot \in {"logs", "tracing", "metrics", "mode", "parameters", "redis", "ping"} =>
           services = Nothing /\ wired = Nothing
    /\ boot \in {"parameters", "redis", "ping"} => ~cfg.local
    /\ boot = "services" =>
           /\ services = IF cfg.local THEN Nothing
                         ELSE [resource |-> "nil", auth |-> "nil", idempotency |-> TRUE]
           /\ wired = Nothing
    /\ boot = "handlers" => services = Wanted /\ wired = Nothing
    /\ boot = "server" =>
           /\ services = Wanted
           /\ wired = [resource |-> Wanted.resource, auth |-> Wanted.auth,
                       idempotency |-> FALSE]
    /\ boot = "up" => wired = Wanted
    /\ boot \in {"logs", "tracing"} => pipeline["tracing"] = "off"
    /\ boot \notin {"logs", "tracing"} => (pipeline["tracing"] # "off" <=> OtlpEnabled)

LEMMA InitWiring == ProcessInit => WiringInv
  BY DEF ProcessInit, WiringInv, Signals

\* A step that wires nothing and turns tracing neither on nor off.
LEMMA QuietWiring ==
  ASSUME WiringInv, UNCHANGED <<env, boot, services, wired>>,
         pipeline'["tracing"] = "off" <=> pipeline["tracing"] = "off"
  PROVE  WiringInv'
<1>1. cfg' = cfg /\ OtlpEnabled' = OtlpEnabled /\ Wanted' = Wanted
  BY DEF cfg, OtlpEnabled, Wanted
<1> QED
  BY <1>1 DEF WiringInv

LEMMA BootWiring == ASSUME ProcessTypeOK, WiringInv, Boot PROVE WiringInv'
<1>0. /\ env' = env /\ cfg' = cfg /\ OtlpEnabled' = OtlpEnabled /\ Wanted' = Wanted
  <2>1. env' = env
    BY DEF Boot, NewLogs, NewTracing, NewMetrics, TelemetryFails, InitializeLocal,
           NewAWSClients, LoadRuntimeConfig, AwsFails, DialRedis, Ping, PingFails,
           InitializeServices, InitializeKafkaResourceService, InitializeHandlers,
           InitializeServer, Continue, wiringVars
  <2> QED
    BY <2>1 DEF cfg, OtlpEnabled, Wanted
<1>1. CASE TelemetryFails \/ AwsFails \/ PingFails
  BY <1>1, QuietWiring DEF TelemetryFails, AwsFails, PingFails, wiringVars, telemetryVars
<1>2. CASE NewLogs
  <2>1. /\ boot = "logs" /\ boot' = "tracing" /\ UNCHANGED <<services, wired>>
        /\ pipeline'["tracing"] = pipeline["tracing"]
    BY <1>2 DEF NewLogs, StartProvider, ProcessTypeOK, Signals
  <2> QED
    BY <2>1 DEF WiringInv
<1>3. CASE NewTracing
  <2>1. /\ boot = "tracing" /\ boot' = "metrics" /\ UNCHANGED <<services, wired>>
        /\ IF OtlpEnabled THEN pipeline'["tracing"] = "on" ELSE pipeline' = pipeline
    BY <1>3 DEF NewTracing, StartProvider, ProcessTypeOK, Signals
  <2> QED
    BY <1>0, <2>1 DEF WiringInv
<1>4. CASE NewMetrics \/ InitializeLocal \/ NewAWSClients \/ LoadRuntimeConfig \/ DialRedis
  <2>1. UNCHANGED <<services, wired, pipeline>>
    BY <1>4 DEF NewMetrics, InitializeLocal, NewAWSClients, LoadRuntimeConfig, DialRedis,
                Continue, telemetryVars
  <2>2. \/ boot = "metrics" /\ boot' = "mode"
        \/ boot = "mode" /\ boot' = "services" /\ cfg.local
        \/ boot = "mode" /\ boot' = "parameters" /\ ~cfg.local
        \/ boot = "parameters" /\ boot' = "redis"
        \/ boot = "redis" /\ boot' = "ping"
    BY <1>4 DEF NewMetrics, InitializeLocal, NewAWSClients, LoadRuntimeConfig, DialRedis,
                Continue
  <2> QED
    BY <1>0, <2>1, <2>2 DEF WiringInv, Nothing
<1>5. CASE Ping
  <2>1. /\ boot = "ping" /\ boot' = "services" /\ UNCHANGED <<wired, pipeline>>
        /\ services' = [services EXCEPT !.idempotency = TRUE]
    BY <1>5 DEF Ping, Continue, telemetryVars
  <2>2. /\ services = Nothing /\ wired = Nothing /\ ~cfg.local
        /\ pipeline["tracing"] # "off" <=> OtlpEnabled
    BY <2>1 DEF WiringInv
  <2>3. services' = [resource |-> "nil", auth |-> "nil", idempotency |-> TRUE]
    BY <2>1, <2>2 DEF Nothing
  <2> QED
    BY <1>0, <2>1, <2>2, <2>3 DEF WiringInv
<1>6. CASE InitializeServices \/ InitializeKafkaResourceService
  <2>1. boot = "services" /\ boot' = "handlers" /\ UNCHANGED <<wired, pipeline>>
    BY <1>6 DEF InitializeServices, InitializeKafkaResourceService, Continue, telemetryVars
  <2>2. services = IF cfg.local THEN Nothing
                   ELSE [resource |-> "nil", auth |-> "nil", idempotency |-> TRUE]
    BY <2>1 DEF WiringInv
  <2>3. CASE InitializeServices
    <3>1. services' = [services EXCEPT !.resource = "sqs", !.auth = "cognito"] /\ ~cfg.local
      BY <2>3 DEF InitializeServices
    <3>2. services' = [resource |-> "sqs", auth |-> "cognito", idempotency |-> TRUE]
      BY <2>2, <3>1
    <3> QED
      BY <1>0, <2>1, <3>1, <3>2 DEF WiringInv, Wanted
  <2>4. CASE InitializeKafkaResourceService
    <3>1. /\ cfg.local
          /\ IF cfg.brokers = {} THEN services' = services
             ELSE services' = [services EXCEPT !.resource = "kafka"]
      BY <2>4 DEF InitializeKafkaResourceService
    <3>2. services' = [resource |-> IF cfg.brokers = {} THEN "nil" ELSE "kafka",
                       auth |-> "nil", idempotency |-> FALSE]
      BY <2>2, <3>1 DEF Nothing
    <3> QED
      BY <1>0, <2>1, <3>1, <3>2 DEF WiringInv, Wanted
  <2> QED
    BY <1>6, <2>3, <2>4
<1>7. CASE InitializeHandlers
  <2>1. /\ boot = "handlers" /\ boot' = "server" /\ UNCHANGED <<services, pipeline>>
        /\ wired' = [wired EXCEPT !.resource = services.resource, !.auth = services.auth]
    BY <1>7 DEF InitializeHandlers, Continue, telemetryVars
  <2>2. services = Wanted /\ wired = Nothing /\ (pipeline["tracing"] # "off" <=> OtlpEnabled)
    BY <2>1 DEF WiringInv
  <2>3. wired' = [resource |-> Wanted.resource, auth |-> Wanted.auth, idempotency |-> FALSE]
    BY <2>1, <2>2 DEF Nothing
  <2> QED
    BY <1>0, <2>1, <2>2, <2>3 DEF WiringInv
<1>8. CASE InitializeServer
  <2>1. /\ boot = "server" /\ boot' = "up" /\ UNCHANGED <<services, pipeline>>
        /\ wired' = [wired EXCEPT !.idempotency = services.idempotency]
    BY <1>8 DEF InitializeServer, telemetryVars
  <2>2. wired' = [resource |-> Wanted.resource, auth |-> Wanted.auth,
                  idempotency |-> Wanted.idempotency]
    BY <2>1 DEF WiringInv
  <2>3. wired' = Wanted
    BY <2>2 DEF Wanted
  <2> QED
    BY <1>0, <2>1, <2>3 DEF WiringInv
<1> QED
  BY <1>1, <1>2, <1>3, <1>4, <1>5, <1>6, <1>7, <1>8 DEF Boot

LEMMA NextWiring == ProcessTypeOK /\ WiringInv /\ [ProcessNext]_processVars => WiringInv'
<1> SUFFICES ASSUME ProcessTypeOK, WiringInv, [ProcessNext]_processVars PROVE WiringInv'
  OBVIOUS
<1>1. CASE Boot
  BY <1>1, BootWiring
<1>2. CASE \/ Notify \/ Stop \/ ReleaseClients \/ Leave \/ Die \/ ProcessEnded
           \/ (\E s \in Signals : Export(s)) \/ UNCHANGED processVars
  BY <1>2, QuietWiring
     DEF Notify, Stop, ReleaseClients, Emit, Leave, Die, ProcessEnded, Export, processVars,
         wiringVars, telemetryVars
<1>3. ASSUME NEW r \in Requests, Request(r), UNCHANGED wiringVars PROVE WiringInv'
  BY <1>3, QuietWiring DEF Request, Emit, wiringVars, telemetryVars
<1>4. ASSUME NEW s \in Signals, Release(s) \/ ReleaseFails(s) PROVE WiringInv'
  <2>1. /\ pipeline[s] = "on" /\ pipeline' = [pipeline EXCEPT ![s] = "released"]
        /\ UNCHANGED <<env, boot, services, wired>>
    BY <1>4 DEF Release, ReleaseFails, Turn, wiringVars
  <2>2. pipeline'["tracing"] = "off" <=> pipeline["tracing"] = "off"
    BY <2>1 DEF ProcessTypeOK, Signals
  <2> QED
    BY <2>1, <2>2, QuietWiring
<1> QED
  BY <1>1, <1>2, <1>3, <1>4 DEF ProcessNext, Flush

LEMMA ConfigRead ==
  ASSUME env \in Environments
  PROVE  /\ cfg.local <=> env.ENVIRONMENT = "local"
         /\ cfg.tracing <=> env.ENABLE_TRACING \notin FalseWords
         /\ cfg.brokers # {} <=>
                \E i \in DOMAIN env.KAFKA_BROKERS :
                    env.KAFKA_BROKERS[i] \notin {Space, Separator}
<1>1. env.KAFKA_BROKERS \in Seq(STRING)
  BY EnvironmentsAssumption
<1>2. cfg.brokers = SplitAndTrim(env.KAFKA_BROKERS)
  BY DEF cfg, NewConfig
<1>3. /\ cfg.local <=> env.ENVIRONMENT = "local"
      /\ cfg.tracing <=> env.ENABLE_TRACING \notin FalseWords
  BY DEF cfg, NewConfig, GetEnvOrDefault, GetBoolEnv, TrueWords, FalseWords
<1> QED
  BY <1>1, <1>2, <1>3, SplitAndTrimNames

\* A process that takes requests has what its environment asks for, whatever the
\* environment is and however the boot went.
THEOREM ProcessWiredWhenServing == ProcessSpec => []WiredWhenServing
<1>1. ProcessTypeOK /\ WiringInv => WiredWhenServing
  <2> SUFFICES ASSUME ProcessTypeOK, WiringInv, proc \notin {"starting", "exited"}
               PROVE  WiredWhenServing
    BY DEF WiredWhenServing
  <2>1. boot = "up" /\ env \in Environments
    BY DEF ProcessTypeOK
  <2>2. wired = Wanted /\ (pipeline["tracing"] # "off" <=> cfg.tracing /\ ~cfg.local)
    BY <2>1 DEF WiringInv, OtlpEnabled
  <2> QED
    BY <2>1, <2>2, ConfigRead DEF WiredWhenServing, Wanted, Nothing, FalseWords
<1> QED
  BY InitWiring, NextWiring, ProcessTypeCorrect, <1>1, PTL DEF ProcessSpec

-----------------------------------------------------------------------------
\* Exit code 0 means that every request that entered was answered and counted
\* out, also when the boot, the clients and the telemetry take their steps.
THEOREM ProcessCleanExitDrained == ProcessSpec => []CleanExitDrained
  BY ProcessIsServer, ServerCleanExitDrained

\* The gauge counts the requests inside the chain, at every step of the process.
THEOREM ProcessGaugeIsInFlight == ProcessSpec => []GaugeIsInFlight
  BY ProcessIsServer, ServerGaugeIsInFlight

\* A request that left is in the histogram and in the log with its client's status.
THEOREM ProcessRecordsTellTheAnswer == ProcessSpec => []RecordsTellTheAnswer
  BY ProcessIsServer, ServerRecordsTellTheAnswer

\* The clients outlive every request the server still waits for.
THEOREM ProcessStoreOutlivesRequests == ProcessSpec => []StoreOutlivesRequests
  BY ProcessIsServer, ServerStoreOutlivesRequests
=============================================================================
