------------------------------- MODULE ApiServer -------------------------------
(***************************************************************************)
(* The process of services/api: main, bootstrap.New and Shutdown, the      *)
(* server's Start and Shutdown, and the outer middleware every request     *)
(* passes through (in-flight gauge, duration histogram, request log, panic *)
(* recovery).  Requests run concurrently with each other and with the      *)
(* shutdown of the process; what a route does with a request is left open. *)
(***************************************************************************)
EXTENDS Integers, FiniteSets

CONSTANTS
    Requests,  \* HTTP requests, one goroutine each
    None       \* no status yet, nothing recorded

\* What a route answers, and what RecoveryMiddleware does; others are handled alike.
Statuses == {200, 500}

ExitCodes == {0, 1, 137, 143}

ASSUME ConstantsAssumption ==
    IsFiniteSet(Requests) /\ None \notin Statuses \cup ExitCodes

VARIABLES
    path,      \* "metrics", "health", or "route" for every other path
    at,        \* how far each request is through the middleware
    status,    \* the status the client got: the first one written
    seen,      \* the status in the recorders of each request: the last one written
    panicked,  \* history: requests whose route panicked
    gauge,     \* http.server.active_requests
    recorded,  \* the status the duration histogram has for each request
    logged,    \* the status in the log line of each request
    proc,      \* where main is
    failed,    \* Start returned an error
    store,     \* the Redis client and the publisher: "open" or "closed"
    exitCode   \* exit status of the process

requestVars == <<path, at, status, seen, panicked, gauge, recorded, logged>>
procVars == <<proc, failed, store, exitCode>>
vars == <<requestVars, procVars>>

Init ==
    /\ path \in [Requests -> {"metrics", "health", "route"}]
    /\ at = [r \in Requests |-> "outside"]
    /\ status = [r \in Requests |-> None]
    /\ seen = [r \in Requests |-> 200] /\ panicked = {}
    /\ gauge = 0
    /\ recorded = [r \in Requests |-> None]
    /\ logged = [r \in Requests |-> None]
    /\ proc = "starting" /\ failed = FALSE /\ store = "closed" /\ exitCode = None

-----------------------------------------------------------------------------
(***************************************************************************)
(* A request on its way in and out: ActiveRequests -> RequestDuration ->   *)
(* RequestLogging -> Recovery -> route.                                    *)
(***************************************************************************)
MoveTo(r, p) == at' = [at EXCEPT ![r] = p]

Gauged(r) == path[r] # "metrics"
Logged(r) == path[r] \notin {"metrics", "health"}

\* Shutdown closes the listeners; a connection accepted before may still bring
\* its request.  One that Shutdown gave up on, or that outlived a failed
\* listener, is served for as long as the process lives.
Accepting ==
    \/ proc \in {"serving", "draining"}
    \/ proc \in {"closing", "flushing"} /\ failed

Enter(r) ==
    /\ at[r] = "outside" /\ Accepting
    /\ MoveTo(r, "route")
    /\ gauge' = IF Gauged(r) THEN gauge + 1 ELSE gauge
    /\ UNCHANGED <<path, status, seen, panicked, recorded, logged, procVars>>

\* statusRecorder.WriteHeader keeps what it is told last, in both recorders;
\* net/http sends the first status and ignores the rest.
WriteHeader(r, s) ==
    /\ seen' = [seen EXCEPT ![r] = s]
    /\ status' = [status EXCEPT ![r] = IF @ = None THEN s ELSE @]

\* The route answers, once.  It need not have returned: behind the idempotency
\* layer Complete and Release come after the answer.
Respond(r) ==
    /\ at[r] = "route" /\ proc # "exited"
    /\ \E s \in Statuses : WriteHeader(r, s)
    /\ MoveTo(r, "answered")
    /\ UNCHANGED <<path, panicked, gauge, recorded, logged, procVars>>

Running(r) == at[r] \in {"route", "answered"} /\ r \notin panicked

\* Broken forms: the panic unwinds past the recorders; it unwinds past them and
\* the decrement is not deferred.
PanicUnrecorded(r) ==
    /\ Running(r) /\ proc # "exited"
    /\ WriteHeader(r, 500) /\ panicked' = panicked \cup {r}
    /\ MoveTo(r, "leave")
    /\ UNCHANGED <<path, gauge, recorded, logged, procVars>>

PanicUncounted(r) ==
    /\ Running(r) /\ proc # "exited"
    /\ WriteHeader(r, 500) /\ panicked' = panicked \cup {r}
    /\ MoveTo(r, "done")
    /\ UNCHANGED <<path, gauge, recorded, logged, procVars>>

\* The route panics, before or after it answered; RecoveryMiddleware, below the
\* recorders, writes 500 in either case.
Panic(r) ==
    /\ Running(r) /\ proc # "exited"
    /\ WriteHeader(r, 500) /\ panicked' = panicked \cup {r}
    /\ MoveTo(r, "answered")
    /\ UNCHANGED <<path, gauge, recorded, logged, procVars>>

\* The route returned, or its panic was recovered.
LogRequest(r) ==
    /\ at[r] = "answered" /\ proc # "exited"
    /\ logged' = IF Logged(r) THEN [logged EXCEPT ![r] = seen[r]] ELSE logged
    /\ MoveTo(r, "record")
    /\ UNCHANGED <<path, status, seen, panicked, gauge, recorded, procVars>>

RecordDuration(r) ==
    /\ at[r] = "record" /\ proc # "exited"
    /\ recorded' = IF Gauged(r) THEN [recorded EXCEPT ![r] = seen[r]] ELSE recorded
    /\ MoveTo(r, "leave")
    /\ UNCHANGED <<path, status, seen, panicked, gauge, logged, procVars>>

LeaveRequest(r) ==
    /\ at[r] = "leave" /\ proc # "exited"
    /\ gauge' = IF Gauged(r) THEN gauge - 1 ELSE gauge
    /\ MoveTo(r, "done")
    /\ UNCHANGED <<path, status, seen, panicked, recorded, logged, procVars>>

Inside(r) == at[r] \in {"route", "answered", "record", "leave"}

-----------------------------------------------------------------------------
(***************************************************************************)
(* main: New, Run (the server's Start), Shutdown, exit.                    *)
(***************************************************************************)
\* bootstrap.New dials Redis and wires the server; any step of it may fail.
Bootstrap ==
    /\ proc = "starting"
    /\ proc' = "serving" /\ store' = "open"
    /\ UNCHANGED <<requestVars, failed, exitCode>>

BootstrapFails ==
    /\ proc = "starting"
    /\ proc' = "exited" /\ exitCode' = 1
    /\ UNCHANGED <<requestVars, failed, store>>

\* ListenAndServe returns an error: Start returns without draining.
ServeFails ==
    /\ proc = "serving"
    /\ proc' = "closing" /\ failed' = TRUE
    /\ UNCHANGED <<requestVars, store, exitCode>>

Signal ==
    /\ proc = "serving"
    /\ proc' = "draining"
    /\ UNCHANGED <<requestVars, failed, store, exitCode>>

\* Broken form: Shutdown does not wait for the requests.
DrainSkipped ==
    /\ proc = "draining"
    /\ proc' = "closing"
    /\ UNCHANGED <<requestVars, failed, store, exitCode>>

Drained ==
    /\ proc = "draining" /\ \A r \in Requests : ~Inside(r)
    /\ proc' = "closing"
    /\ UNCHANGED <<requestVars, failed, store, exitCode>>

\* Broken forms: the error of Shutdown is dropped; it waits without a limit.
DrainErrorDropped ==
    /\ proc = "draining" /\ \E r \in Requests : Inside(r)
    /\ proc' = "closing"
    /\ UNCHANGED <<requestVars, failed, store, exitCode>>

DrainWaits ==
    /\ proc = "draining" /\ \A r \in Requests : ~Inside(r)
    /\ proc' = "closing"
    /\ UNCHANGED <<requestVars, failed, store, exitCode>>

\* ShutdownTimeout elapses with requests still running.
DrainTimesOut ==
    /\ proc = "draining" /\ \E r \in Requests : Inside(r)
    /\ proc' = "closing" /\ failed' = TRUE
    /\ UNCHANGED <<requestVars, store, exitCode>>

\* Application.Shutdown closes Redis and the publisher, then flushes telemetry.
CloseClients ==
    /\ proc = "closing"
    /\ proc' = "flushing" /\ store' = "closed"
    /\ UNCHANGED <<requestVars, failed, exitCode>>

Exit ==
    /\ proc = "flushing"
    /\ proc' = "exited" /\ exitCode' = (IF failed THEN 1 ELSE 0)
    /\ UNCHANGED <<requestVars, failed, store>>

\* SIGKILL, when the grace period is over or memory is short, or a SIGTERM that
\* comes before Start asked for signals.
Kill ==
    /\ proc # "exited"
    /\ proc' = "exited" /\ exitCode' \in {137, 143}
    /\ UNCHANGED <<requestVars, failed, store>>

Ended == proc = "exited" /\ UNCHANGED vars

Main ==
    \/ Bootstrap \/ BootstrapFails \/ ServeFails \/ Drained \/ DrainTimesOut
    \/ CloseClients \/ Exit

Serve(r) ==
    \/ Respond(r) \/ Panic(r) \/ LogRequest(r) \/ RecordDuration(r)
    \/ LeaveRequest(r)

Next ==
    \/ \E r \in Requests : Enter(r) \/ Serve(r)
    \/ Main \/ Signal \/ Kill \/ Ended

Spec == Init /\ [][Next]_vars

\* main runs, and a drain with requests left ends when the timer fires.  A
\* route may take for ever: requests are not assumed to make progress.
Exiting == Drained \/ DrainTimesOut \/ CloseClients \/ Exit

FairSpec == Spec /\ WF_vars(Exiting)

-----------------------------------------------------------------------------
(***************************************************************************)
(* Properties.                                                             *)
(***************************************************************************)

\* Every variable keeps its type; a request past its route has an answer, and
\* only a process that exited has an exit status.
TypeOK ==
    /\ path \in [Requests -> {"metrics", "health", "route"}]
    /\ at \in [Requests -> {"outside", "route", "answered", "record", "leave", "done"}]
    /\ status \in [Requests -> Statuses \cup {None}]
    /\ seen \in [Requests -> Statuses] /\ panicked \subseteq Requests
    /\ gauge \in Nat
    /\ recorded \in [Requests -> Statuses \cup {None}]
    /\ logged \in [Requests -> Statuses \cup {None}]
    /\ proc \in {"starting", "serving", "draining", "closing", "flushing", "exited"}
    /\ failed \in BOOLEAN /\ store \in {"open", "closed"}
    /\ exitCode \in ExitCodes \cup {None}
    /\ exitCode # None <=> proc = "exited"
    /\ \A r \in Requests : status[r] # None <=> at[r] \notin {"outside", "route"}

\* "reflects concurrent request load at scrape time": the gauge is the number
\* of requests inside the chain, scrapes excepted, whether they panic or not.
GaugeIsInFlight ==
    gauge = Cardinality({r \in Requests : Gauged(r) /\ Inside(r)})

\* "a request whose panic is recovered below is timed and recorded with the 500
\* that layer writes": every request that left is in the histogram and in the log,
\* with 500 if its route panicked, also after it had answered, and otherwise with
\* the status its client got.  Scrapes are in neither, health checks only in the
\* histogram.
RecordsTellTheAnswer ==
    \A r \in Requests : at[r] = "done" =>
        LET told == IF r \in panicked THEN 500 ELSE status[r]
        IN  /\ recorded[r] = IF Gauged(r) THEN told ELSE None
            /\ logged[r] = IF Logged(r) THEN told ELSE None

\* Exit code 0 means the shutdown was graceful: every request that entered was
\* answered, recorded and counted out.
CleanExitDrained ==
    exitCode = 0 => \A r \in Requests : ~Inside(r)

\* Redis and the publisher are closed under a running request only if the
\* server failed or its drain timed out; otherwise they outlive every request.
StoreOutlivesRequests ==
    store = "closed" /\ (\E r \in Requests : Inside(r)) => failed

\* A process that got its signal exits, even if some request never ends.
SignalledProcessExits == proc = "draining" ~> proc = "exited"
=============================================================================
