-------------------------- MODULE ProvisionerProcess --------------------------
(***************************************************************************)
(* The process around the consumer of services/provisioner on SQS: main    *)
(* sets up telemetry, runs the consumer (ProvisionerSqs) and on the way    *)
(* out flushes what the consumer recorded.  The deferred flush runs when   *)
(* main returns, not when it calls os.Exit.  What the timers of the batch  *)
(* processors export in between only leaves less to flush and is left out. *)
(***************************************************************************)
EXTENDS ProvisionerSqs

CONSTANT Collector  \* OTEL_EXPORTER_OTLP_ENDPOINT is set

ASSUME CollectorAssumption == Collector \in BOOLEAN

VARIABLES
    main,   \* where main of each process is
    stale,  \* processes whose spans, counters and logs are not all exported
    cut     \* processes whose flush failed

telemetryVars == <<main, stale, cut>>
processVars == <<vars, telemetryVars>>

ProcessInit ==
    /\ Init
    /\ main = [c \in Consumers |-> "setup"]
    /\ stale = {} /\ cut = {}

Main(c, p) == main' = [main EXCEPT ![c] = p]

-----------------------------------------------------------------------------
\* Without an endpoint the providers are no-ops.
Setup(c) ==
    /\ main[c] = "setup" /\ pc[c] = "start"
    /\ Main(c, "consume")
    /\ UNCHANGED <<vars, stale, cut>>

\* An exporter or the resource fails; whatever was set up before stays behind.
SetupFails(c) ==
    /\ main[c] = "setup" /\ Collector
    /\ Crash(c) /\ Main(c, "gone")
    /\ UNCHANGED <<stale, cut>>

\* What c records goes to the batch processors and the counters.
Record(c) == stale' = IF Collector THEN stale \cup {c} ELSE stale

\* Broken form: main goes on whatever runSQS returns.
ResolveIgnored(c) ==
    /\ main[c] = "consume"
    /\ ResolveQueue(c) \/ ResolveQueueFails(c)
    /\ Record(c)
    /\ UNCHANGED <<main, cut>>

\* The span of getQueueURL records the error.  Only a consumer that stopped for
\* a signal lets main return.
Resolve(c) ==
    /\ main[c] = "consume"
    /\ \/ ResolveQueue(c) /\ UNCHANGED main
       \/ ResolveQueueFails(c) /\ Main(c, IF c \in cancelled THEN "flush" ELSE "gone")
    /\ Record(c)
    /\ UNCHANGED cut

\* The loop of RunSQS: spans for polls and messages, counters, log records.
Consume(c) ==
    /\ main[c] = "consume"
    /\ Receive(c) \/ ReceiveNothing(c) \/ BatchDone(c) \/ Process(c) \/ Delete(c)
           \/ DeleteFails(c)
    /\ Record(c)
    /\ UNCHANGED <<main, cut>>

\* A poll fails: its span records the error.
PollFails(c) ==
    /\ ReceiveUnacked(c) /\ Main(c, IF c \in cancelled THEN "flush" ELSE "consume")
    /\ Record(c)
    /\ UNCHANGED cut

Return(c) ==
    /\ StopPolling(c) /\ Main(c, "flush")
    /\ UNCHANGED <<stale, cut>>

\* Broken form: the shutdown function is not deferred.
FlushForgotten(c) ==
    /\ main[c] = "flush" /\ Main(c, "gone")
    /\ UNCHANGED <<vars, stale, cut>>

Flush(c) ==
    /\ main[c] = "flush" /\ Main(c, "gone")
    /\ stale' = stale \ {c}
    /\ UNCHANGED <<vars, cut>>

\* Five seconds for the three providers together, if the kubelet leaves as much.
FlushFails(c) ==
    /\ main[c] = "flush" /\ Collector /\ Main(c, "gone")
    /\ cut' = cut \cup {c}
    /\ UNCHANGED <<vars, stale>>

-----------------------------------------------------------------------------
Interrupt(c) == Signal(c) /\ UNCHANGED telemetryVars

Die(c) ==
    /\ Crash(c) /\ Main(c, "gone")
    /\ UNCHANGED <<stale, cut>>

Replace(c) ==
    /\ main[c] = "gone"
    /\ Restart(c) /\ Main(c, "setup")
    /\ stale' = stale \ {c} /\ cut' = cut \ {c}

ProcessStep(c) ==
    \/ Setup(c) \/ Resolve(c) \/ Consume(c) \/ Return(c) \/ Flush(c)
    \/ FlushFails(c) \/ Replace(c)

ProcessNext ==
    \/ \E c \in Consumers :
          \/ ProcessStep(c) \/ SetupFails(c) \/ PollFails(c)
          \/ Interrupt(c) \/ Die(c)
    \/ \E m \in Messages : VisibilityLapses(m) /\ UNCHANGED telemetryVars

ProcessSpec == ProcessInit /\ [][ProcessNext]_processVars

\* As in ProvisionerSqs; the flush has a time limit.
ProcessFairSpec ==
    /\ ProcessSpec
    /\ \A c \in Consumers : WF_processVars(ProcessStep(c))
    /\ \A m \in Messages :
          WF_processVars(VisibilityLapses(m) /\ UNCHANGED telemetryVars)

-----------------------------------------------------------------------------
(***************************************************************************)
(* Properties.                                                             *)
(***************************************************************************)

\* Every variable keeps its type; a process consumes exactly while its main is
\* in the consumer.
ProcessTypeOK ==
    /\ TypeOK
    /\ main \in [Consumers -> {"setup", "consume", "flush", "gone"}]
    /\ stale \subseteq Consumers /\ cut \subseteq Consumers
    /\ \A c \in Consumers :
          /\ main[c] = "setup" => pc[c] = "start"
          /\ main[c] = "consume" <=> pc[c] \notin Ended /\ main[c] # "setup"
          /\ main[c] = "flush" => pc[c] = "stopped"

\* "the consumer drains and the telemetry batch exporters flush before exit": a
\* process that a signal stopped leaves nothing unexported and no message of its
\* batch unprocessed, whenever the signal came, unless its flush failed.
StoppedIsFlushed ==
    \A c \in Consumers : main[c] = "gone" /\ pc[c] \notin {"crashed", "exited"} =>
        /\ c \in stale => c \in cut
        /\ batch[c] = {} /\ current[c] = None
=============================================================================
