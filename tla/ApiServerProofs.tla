---------------------------- MODULE ApiServerProofs ----------------------------
(***************************************************************************)
(* Proofs about ApiServer, for any finite number of requests.              *)
(***************************************************************************)
EXTENDS ApiServer, FiniteSetTheorems, TLAPS

\* The requests the gauge should count.
InFlight == {r \in Requests : Gauged(r) /\ Inside(r)}

\* What the status recorders hold: the 500 of a panic, or what the client got.
Recorders ==
    \A r \in Requests :
        IF r \in panicked
        THEN seen[r] = 500 /\ at[r] \notin {"outside", "route"}
        ELSE at[r] \notin {"outside", "route"} => seen[r] = status[r]

\* What was recorded of a request at each point of its way out, and who can be
\* inside in each phase of the process.
Chain ==
    \A r \in Requests :
        /\ recorded[r] = IF at[r] \in {"leave", "done"} /\ Gauged(r)
                         THEN seen[r] ELSE None
        /\ logged[r] = IF at[r] \in {"record", "leave", "done"} /\ Logged(r)
                       THEN seen[r] ELSE None

Phases ==
    /\ proc = "starting" => \A r \in Requests : ~Inside(r)
    /\ proc \in {"serving", "draining", "closing"} => store = "open"
    /\ proc \in {"closing", "flushing"} /\ ~failed => \A r \in Requests : ~Inside(r)

ServerInv ==
    /\ TypeOK /\ GaugeIsInFlight /\ Recorders /\ Chain /\ Phases
    /\ CleanExitDrained /\ StoreOutlivesRequests

LEMMA InitServer == Init => ServerInv
<1> SUFFICES ASSUME Init PROVE ServerInv
  OBVIOUS
<1>1. {r \in Requests : Gauged(r) /\ Inside(r)} = {}
  BY DEF Init, Inside
<1>2. GaugeIsInFlight
  BY <1>1, FS_EmptySet DEF Init, GaugeIsInFlight
<1> QED
  BY <1>2, ConstantsAssumption
     DEF Init, ServerInv, TypeOK, Statuses, Recorders, Chain, Phases, CleanExitDrained,
         StoreOutlivesRequests, Inside

LEMMA InFlightFinite ==
  /\ IsFiniteSet(InFlight) /\ Cardinality(InFlight) \in Nat
  /\ IsFiniteSet(InFlight') /\ Cardinality(InFlight') \in Nat
  BY ConstantsAssumption, FS_Subset, FS_CardinalityType DEF InFlight

\* The gauge follows a request that enters, leaves, or moves inside the chain.
LEMMA GaugeMoves ==
  ASSUME TypeOK, GaugeIsInFlight, path' = path, NEW r \in Requests,
         NEW p \in {"outside", "route", "answered", "record", "leave", "done"}, MoveTo(r, p),
         \/ Inside(r) /\ Inside(r)' /\ gauge' = gauge
         \/ ~Inside(r) /\ Inside(r)' /\ gauge' = IF Gauged(r) THEN gauge + 1 ELSE gauge
         \/ Inside(r) /\ ~Inside(r)' /\ gauge' = IF Gauged(r) THEN gauge - 1 ELSE gauge
  PROVE  GaugeIsInFlight' /\ gauge' \in Nat
<1>0. gauge = Cardinality(InFlight) /\ (GaugeIsInFlight' <=> gauge' = Cardinality(InFlight'))
  BY DEF GaugeIsInFlight, InFlight
<1>1. CASE Inside(r) <=> Inside(r)'
  <2>1. InFlight' = InFlight /\ gauge' = gauge
    BY <1>1 DEF InFlight, Inside, Gauged, MoveTo, TypeOK
  <2> QED
    BY <1>0, <2>1 DEF TypeOK
<1>2. CASE ~Gauged(r)
  <2>1. InFlight' = InFlight /\ gauge' = gauge
    BY <1>2 DEF InFlight, Inside, Gauged, MoveTo, TypeOK
  <2> QED
    BY <1>0, <2>1 DEF TypeOK
<1>3. CASE Gauged(r) /\ ~Inside(r) /\ Inside(r)'
  <2>1. InFlight' = InFlight \cup {r} /\ r \notin InFlight /\ gauge' = gauge + 1
    BY <1>3 DEF InFlight, Inside, Gauged, MoveTo, TypeOK
  <2>2. Cardinality(InFlight') = Cardinality(InFlight) + 1
    BY <2>1, InFlightFinite, FS_AddElement
  <2> QED
    BY <1>0, <2>1, <2>2 DEF TypeOK
<1>4. CASE Gauged(r) /\ Inside(r) /\ ~Inside(r)'
  <2>1. InFlight' = InFlight \ {r} /\ r \in InFlight /\ gauge' = gauge - 1
    BY <1>4 DEF InFlight, Inside, Gauged, MoveTo, TypeOK
  <2>2. Cardinality(InFlight') = Cardinality(InFlight) - 1
    BY <2>1, InFlightFinite, FS_RemoveElement
  <2> QED
    BY <1>0, <2>1, <2>2, InFlightFinite
<1> QED
  BY <1>1, <1>2, <1>3, <1>4

\* Steps of main leave the requests, and so the gauge and the records, alone.
LEMMA MainStep ==
  ASSUME ServerInv, UNCHANGED requestVars, TypeOK', Phases', CleanExitDrained',
         StoreOutlivesRequests'
  PROVE  ServerInv'
  BY DEF ServerInv, requestVars, GaugeIsInFlight, Recorders, Chain, Gauged, Logged, Inside

LEMMA NextServer == ServerInv /\ [Next]_vars => ServerInv'
<1> SUFFICES ASSUME ServerInv, [Next]_vars PROVE ServerInv'
  OBVIOUS
<1>0. /\ TypeOK /\ GaugeIsInFlight /\ Recorders /\ Chain /\ Phases
      /\ CleanExitDrained /\ StoreOutlivesRequests
  BY DEF ServerInv
<1>1. ASSUME NEW r \in Requests, Enter(r) PROVE ServerInv'
  <2>1. /\ at[r] = "outside" /\ MoveTo(r, "route") /\ Accepting
        /\ gauge' = (IF Gauged(r) THEN gauge + 1 ELSE gauge)
        /\ UNCHANGED <<path, status, seen, panicked, recorded, logged, proc, failed, store,
                       exitCode>>
    BY <1>1 DEF Enter, procVars
  <2>2. GaugeIsInFlight' /\ gauge' \in Nat
    <3>1. ~Inside(r) /\ Inside(r)'
      BY <2>1, <1>0 DEF Inside, MoveTo, TypeOK
    <3> QED
      BY <2>1, <3>1, <1>0, GaugeMoves
  <2>3. TypeOK'
    BY <2>1, <2>2, <1>0 DEF TypeOK, MoveTo
  <2>4. Recorders' /\ Chain'
    BY <2>1, <1>0 DEF Recorders, Chain, Gauged, Logged, MoveTo, TypeOK
  <2>5. Phases' /\ CleanExitDrained' /\ StoreOutlivesRequests'
    <3>1. proc # "exited" /\ proc # "starting" /\ exitCode # 0
      BY <2>1, <1>0, ConstantsAssumption DEF Accepting, TypeOK, ExitCodes
    <3>2. \A q \in Requests : q # r => at'[q] = at[q]
      BY <2>1, <1>0 DEF MoveTo, TypeOK
    <3> QED
      BY <2>1, <1>0, <3>1, <3>2
         DEF Phases, CleanExitDrained, StoreOutlivesRequests, Inside, Accepting
  <2> QED
    BY <2>2, <2>3, <2>4, <2>5 DEF ServerInv
<1>2. ASSUME NEW r \in Requests, Serve(r) PROVE ServerInv'
  <2>1. /\ proc # "exited" /\ path' = path /\ Inside(r)
        /\ UNCHANGED <<proc, failed, store, exitCode>>
    BY <1>2 DEF Serve, Respond, Panic, LogRequest, RecordDuration, LeaveRequest,
                Inside, Running, procVars
  <2>2. \/ /\ MoveTo(r, "answered") /\ UNCHANGED <<gauge, recorded, logged>>
           /\ \/ at[r] = "route" /\ panicked' = panicked
                 /\ \E s \in Statuses : WriteHeader(r, s)
              \/ /\ at[r] \in {"route", "answered"} /\ r \notin panicked
                 /\ WriteHeader(r, 500) /\ panicked' = panicked \cup {r}
        \/ /\ at[r] = "answered" /\ MoveTo(r, "record")
           /\ UNCHANGED <<status, seen, panicked, gauge, recorded>>
           /\ logged' = IF Logged(r) THEN [logged EXCEPT ![r] = seen[r]] ELSE logged
        \/ /\ at[r] = "record" /\ MoveTo(r, "leave")
           /\ UNCHANGED <<status, seen, panicked, gauge, logged>>
           /\ recorded' = IF Gauged(r) THEN [recorded EXCEPT ![r] = seen[r]] ELSE recorded
        \/ /\ at[r] = "leave" /\ MoveTo(r, "done")
           /\ UNCHANGED <<status, seen, panicked, recorded, logged>>
           /\ gauge' = IF Gauged(r) THEN gauge - 1 ELSE gauge
    BY <1>2 DEF Serve, Respond, Panic, Running, LogRequest, RecordDuration, LeaveRequest
  <2>3. GaugeIsInFlight' /\ gauge' \in Nat
    <3>1. CASE at[r] = "leave"
      <4>1. ~Inside(r)' /\ MoveTo(r, "done") /\ gauge' = IF Gauged(r) THEN gauge - 1 ELSE gauge
        BY <2>2, <3>1, <1>0 DEF Inside, MoveTo, TypeOK
      <4> QED
        BY <2>1, <4>1, <1>0, GaugeMoves
    <3>2. CASE at[r] # "leave"
      <4>1. PICK p \in {"answered", "record", "leave"} : MoveTo(r, p) /\ gauge' = gauge
        BY <2>2, <3>2
      <4>2. Inside(r)'
        BY <4>1, <1>0 DEF Inside, MoveTo, TypeOK
      <4> QED
        BY <2>1, <4>1, <4>2, <1>0, GaugeMoves
    <3> QED
      BY <3>1, <3>2
  <2>4. TypeOK'
    BY <2>1, <2>2, <2>3, <1>0, ConstantsAssumption DEF TypeOK, MoveTo, WriteHeader, Statuses
  <2>5. Recorders' /\ Chain'
    BY <2>1, <2>2, <1>0
       DEF Recorders, Chain, Gauged, Logged, MoveTo, WriteHeader, TypeOK, Statuses
  <2>6. \A q \in Requests : Inside(q)' => Inside(q)
    BY <2>1, <2>2, <1>0 DEF Inside, MoveTo, TypeOK
  <2>7. Phases' /\ CleanExitDrained' /\ StoreOutlivesRequests'
    BY <2>1, <2>6, <1>0 DEF Phases, CleanExitDrained, StoreOutlivesRequests
  <2> QED
    BY <2>3, <2>4, <2>5, <2>7 DEF ServerInv
<1>3. CASE Main \/ Signal \/ Kill
  <2>1. UNCHANGED requestVars
    BY <1>3 DEF Main, Bootstrap, BootstrapFails, ServeFails, Drained, DrainTimesOut,
                CloseClients, Exit, Signal, Kill
  <2>2. UNCHANGED <<path, at, status, seen, panicked, gauge, recorded, logged>>
    BY <2>1 DEF requestVars
  <2>3. TypeOK'
    <3>1. ASSUME Main \/ Signal PROVE TypeOK'
      BY <3>1, <2>2, <1>0, ConstantsAssumption
         DEF Main, Bootstrap, BootstrapFails, ServeFails, Drained, DrainTimesOut,
             CloseClients, Exit, Signal, TypeOK, ExitCodes
    <3>2. ASSUME Kill PROVE TypeOK'
      BY <3>2, <2>2, <1>0, ConstantsAssumption DEF Kill, TypeOK, ExitCodes
    <3> QED
      BY <1>3, <3>1, <3>2
  <2> DEFINE Safe == Phases /\ CleanExitDrained /\ StoreOutlivesRequests
  <2>5. proc # "exited" => exitCode # 0
    BY <1>0, ConstantsAssumption DEF TypeOK, ExitCodes
  <2> USE DEF Phases, CleanExitDrained, StoreOutlivesRequests, Inside
  <2>6. ASSUME Bootstrap \/ BootstrapFails PROVE Safe'
    BY <2>2, <2>5, <2>6, <1>0 DEF Bootstrap, BootstrapFails
  <2>7. ASSUME ServeFails \/ Signal \/ Kill PROVE Safe'
    BY <2>2, <2>5, <2>7, <1>0 DEF ServeFails, Signal, Kill
  <2>8. ASSUME Drained \/ DrainTimesOut PROVE Safe'
    BY <2>2, <2>5, <2>8, <1>0 DEF Drained, DrainTimesOut
  <2>9. ASSUME CloseClients \/ Exit PROVE Safe'
    BY <2>2, <2>5, <2>9, <1>0 DEF CloseClients, Exit, TypeOK
  <2> HIDE DEF Phases, CleanExitDrained, StoreOutlivesRequests, Inside, Safe
  <2>10. Safe'
    BY <1>3, <2>6, <2>7, <2>8, <2>9 DEF Main
  <2> QED
    BY <2>1, <2>3, <2>10, MainStep DEF Safe
<1>4. CASE UNCHANGED vars
  <2>1. UNCHANGED <<path, at, status, seen, panicked, gauge, recorded, logged, proc,
                    failed, store, exitCode>>
    BY <1>4 DEF vars, requestVars, procVars
  <2> QED
    BY <2>1, <1>0
       DEF ServerInv, TypeOK, GaugeIsInFlight, Recorders, Chain, Phases, CleanExitDrained,
           StoreOutlivesRequests, Gauged, Logged, Inside
<1> QED
  BY <1>1, <1>2, <1>3, <1>4 DEF Next, Ended

\* The invariant of the process and of all its requests holds in every behaviour.
LEMMA ServerInvHolds == Spec => []ServerInv
<1> QED
  BY InitServer, NextServer, PTL DEF Spec

\* Every variable of the API process keeps its type.
THEOREM ServerTypeCorrect == Spec => []TypeOK
<1>1. ServerInv => TypeOK
  BY DEF ServerInv
<1> QED
  BY ServerInvHolds, <1>1, PTL

\* http.server.active_requests is the number of requests inside the middleware,
\* however they interleave, panic and outlive a shutdown.
THEOREM ServerGaugeIsInFlight == Spec => []GaugeIsInFlight
<1>1. ServerInv => GaugeIsInFlight
  BY DEF ServerInv
<1> QED
  BY ServerInvHolds, <1>1, PTL

\* The histogram and the log have the 500 of a panic, whenever it came, or else the
\* status the client got, for exactly the paths they are meant to record.
THEOREM ServerRecordsTellTheAnswer == Spec => []RecordsTellTheAnswer
<1>1. ServerInv => RecordsTellTheAnswer
  BY DEF ServerInv, Recorders, Chain, RecordsTellTheAnswer
<1> QED
  BY ServerInvHolds, <1>1, PTL

\* Exit status 0 is given only when no request was cut off.
THEOREM ServerCleanExitDrained == Spec => []CleanExitDrained
<1>1. ServerInv => CleanExitDrained
  BY DEF ServerInv
<1> QED
  BY ServerInvHolds, <1>1, PTL

\* Application.Shutdown closes Redis and the publisher under a running request
\* only after the server failed or its drain timed out.
THEOREM ServerStoreOutlivesRequests == Spec => []StoreOutlivesRequests
<1>1. ServerInv => StoreOutlivesRequests
  BY DEF ServerInv
<1> QED
  BY ServerInvHolds, <1>1, PTL
=============================================================================
