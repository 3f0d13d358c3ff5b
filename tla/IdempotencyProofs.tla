-------------------------- MODULE IdempotencyProofs --------------------------
(***************************************************************************)
(* Theorems about Idempotency for any finite set of requests and any sets  *)
(* of keys and bodies.  The order is: types, the permit count behind the   *)
(* duplicate bound, the ownership of records, and what follows from it.    *)
(***************************************************************************)
EXTENDS IdempotencyRefinement, FiniteSetTheorems, TLAPS

(***************************************************************************)
(* Types.                                                                  *)
(***************************************************************************)
\* Initially every request is idle and the store is empty.
LEMMA TypeInit == Init => TypeOK
  BY ConstantsAssumption DEF Init, TypeOK, Headers, Keyed

\* One step per action: an action that stores a record or an answer stores a
\* well-formed one.
LEMMA TypeStep ==
    ASSUME TypeOK, [Next]_vars
    PROVE  TypeOK'
<1> USE ConstantsAssumption DEF Headers, Statuses, Record, Response, Key, Body, Keyed, Goto, Answer
<1>1. ASSUME NEW r \in Requests, PassThrough(r) PROVE TypeOK'
  BY <1>1 DEF TypeOK, PassThrough
<1>2. ASSUME NEW r \in Requests, BeginReserve(r) PROVE TypeOK'
  BY <1>2 DEF TypeOK, BeginReserve
<1>3. ASSUME NEW r \in Requests, RejectRequest(r) PROVE TypeOK'
  BY <1>3 DEF TypeOK, RejectRequest
<1>4. ASSUME NEW r \in Requests, ReserveCreated(r) PROVE TypeOK'
  BY <1>4 DEF TypeOK, ReserveCreated, InFlight
<1>5. ASSUME NEW r \in Requests, ReserveTaken(r) PROVE TypeOK'
  BY <1>5 DEF TypeOK, ReserveTaken
<1>6. ASSUME NEW r \in Requests, ReserveUnacked(r) PROVE TypeOK'
  <2>1. Key(r) \in Keys /\ store' \in [Keys -> Record \cup {None}]
    BY <1>6 DEF TypeOK, ReserveUnacked, InFlight
  <2>2. /\ answer' \in [Requests -> Response \cup {None}]
        /\ pc' = [pc EXCEPT ![r] = "lookup"] \/ pc' = [pc EXCEPT ![r] = "done"]
    BY <1>6 DEF TypeOK, ReserveUnacked
  <2>3. \A q \in Requests : q # r => answer'[q] = answer[q] /\ pc'[q] = pc[q]
    BY <1>6 DEF TypeOK, ReserveUnacked
  <2> QED
    BY <1>6, <2>1, <2>2, <2>3 DEF TypeOK, ReserveUnacked
<1>7. ASSUME NEW r \in Requests, ReserveFails(r) PROVE TypeOK'
  BY <1>7 DEF TypeOK, ReserveFails
<1>8. ASSUME NEW r \in Requests, Replay(r) PROVE TypeOK'
  <2>1. store[Key(r)] \in Record
    BY <1>8 DEF TypeOK, Replay
  <2>2. PICK status \in Statuses, by \in Requests \cup {None} : Answer(r, status, by)
    BY <1>8, <2>1 DEF TypeOK, Replay
  <2>3. answer' \in [Requests -> Response \cup {None}]
    BY <2>2 DEF TypeOK
  <2>4. \A q \in Requests : q # r => answer'[q] = answer[q] /\ pc'[q] = pc[q]
    BY <1>8, <2>2 DEF TypeOK, Replay
  <2> QED
    BY <1>8, <2>3, <2>4 DEF TypeOK, Replay
<1>9. ASSUME NEW r \in Requests, ValidationFails(r) PROVE TypeOK'
  BY <1>9 DEF TypeOK, ValidationFails, AfterHandler
<1>10. ASSUME NEW r \in Requests, PublishSucceeds(r) PROVE TypeOK'
  BY <1>10 DEF TypeOK, PublishSucceeds, AfterHandler
<1>11. ASSUME NEW r \in Requests, PublishUnacked(r) PROVE TypeOK'
  BY <1>11 DEF TypeOK, PublishUnacked
<1>12. ASSUME NEW r \in Requests, PublishFails(r) PROVE TypeOK'
  BY <1>12 DEF TypeOK, PublishFails, AfterHandler
<1>13. ASSUME NEW r \in Requests, HandlerPanics(r) PROVE TypeOK'
  BY <1>13 DEF TypeOK, HandlerPanics, AfterHandler
<1>14. ASSUME NEW r \in Requests, CompleteGet(r) PROVE TypeOK'
  <2>1. CASE store[Key(r)] = None
    BY <1>14, <2>1 DEF TypeOK, CompleteGet
  <2>2. CASE store[Key(r)] # None
    <3>1. Key(r) \in Keys /\ store[Key(r)] \in Record
      BY <1>14, <2>2 DEF TypeOK, CompleteGet
    <3>2. store[Key(r)].hash \in Bodies
      BY <3>1 DEF TypeOK
    <3> QED
      <4>1. /\ pc' = [pc EXCEPT ![r] = "script"]
            /\ readHash' = [readHash EXCEPT ![r] = store[Key(r)].hash]
        BY <1>14, <2>2 DEF TypeOK, CompleteGet
      <4>2. readHash' \in [Requests -> Bodies \cup {None}] /\ readHash'[r] \in Bodies
        BY <3>2, <4>1 DEF TypeOK
      <4>3. \A q \in Requests : q # r => readHash'[q] = readHash[q] /\ pc'[q] = pc[q]
        BY <4>1 DEF TypeOK
      <4> QED
        BY <1>14, <3>1, <4>1, <4>2, <4>3 DEF TypeOK, CompleteGet
  <2> QED
    BY <2>1, <2>2
<1>15. ASSUME NEW r \in Requests, CompleteScript(r) PROVE TypeOK'
  BY <1>15 DEF TypeOK, CompleteScript, Completed
<1>16. ASSUME NEW r \in Requests, CompleteFails(r) PROVE TypeOK'
  BY <1>16 DEF TypeOK, CompleteFails
<1>17. ASSUME NEW r \in Requests, ReleaseScript(r) PROVE TypeOK'
  <2>1. /\ pc' = [pc EXCEPT ![r] = "done"]
        /\ answer' \in [Requests -> Response \cup {None}]
        /\ \A q \in Requests : q # r => answer'[q] = answer[q]
    <3>1. CASE pc[r] = "unwind"
      BY <1>17, <3>1 DEF TypeOK, ReleaseScript, FinishRelease
    <3>2. CASE pc[r] # "unwind"
      BY <1>17, <3>2 DEF TypeOK, ReleaseScript, FinishRelease
    <3> QED
      BY <3>1, <3>2
  <2>2. store' \in [Keys -> Record \cup {None}]
    BY <1>17 DEF TypeOK, ReleaseScript
  <2> QED
    BY <1>17, <2>1, <2>2 DEF TypeOK, ReleaseScript
<1>18. ASSUME NEW r \in Requests, ReleaseUnacked(r) PROVE TypeOK'
  BY <1>18 DEF TypeOK, ReleaseUnacked
<1>19. ASSUME NEW r \in Requests, ReleaseFails(r) PROVE TypeOK'
  <2>1. /\ pc' = [pc EXCEPT ![r] = "done"]
        /\ answer' \in [Requests -> Response \cup {None}]
        /\ \A q \in Requests : q # r => answer'[q] = answer[q]
    BY <1>19 DEF TypeOK, ReleaseFails, FinishRelease
  <2>2. store' \in [Keys -> Record \cup {None}]
    BY <1>19 DEF TypeOK, ReleaseFails
  <2> QED
    BY <1>19, <2>1, <2>2 DEF TypeOK, ReleaseFails
<1>20. ASSUME NEW r \in Requests, Cancel(r) PROVE TypeOK'
  BY <1>20 DEF TypeOK, Cancel
<1>21. ASSUME NEW r \in Requests, Crash(r) PROVE TypeOK'
  BY <1>21 DEF TypeOK, Crash, Finished
<1>22. ASSUME NEW k \in Keys, LoseRecord(k) PROVE TypeOK'
  BY <1>22 DEF TypeOK, LoseRecord
<1>23. CASE UNCHANGED vars
  BY <1>23 DEF TypeOK, vars
<1> QED
  BY <1>1, <1>2, <1>3, <1>4, <1>5, <1>6, <1>7, <1>8, <1>9, <1>10, <1>11, <1>12,
     <1>13, <1>14, <1>15, <1>16, <1>17, <1>18, <1>19, <1>20, <1>21, <1>22, <1>23
  DEF Next, Step, Quiescent

\* Every variable keeps its type in every reachable state.
THEOREM TypeCorrect == Spec => []TypeOK
<1>1. Init => TypeOK
  BY TypeInit
<1>2. TypeOK /\ [Next]_vars => TypeOK'
  BY TypeStep
<1> QED
  BY <1>1, <1>2, PTL DEF Spec

(***************************************************************************)
(* The duplicate bound.                                                    *)
(***************************************************************************)
\* A finite number of requests hold a permit.
LEMMA PermitsFinite ==
    ASSUME NEW k
    PROVE  /\ IsFiniteSet(Permits(k)) /\ Cardinality(Permits(k)) \in Nat
           /\ Cardinality(Permits(k)') \in Nat
<1>1. /\ IsFiniteSet(Requests)
      /\ Permits(k) \in SUBSET Requests /\ Permits(k)' \in SUBSET Requests
  BY ConstantsAssumption DEF Permits
<1> QED
  BY <1>1, FS_Subset, FS_CardinalityType

\* How a step of one request changes the number of permits of a key.
LEMMA PermitTaken ==
    ASSUME TypeOK, NEW r \in Requests, NEW k \in Keys, Key(r) = k,
           pc[r] \notin HoldingStates, pc' = [pc EXCEPT ![r] = "handle"], req' = req
    PROVE  Cardinality(Permits(k)') = Cardinality(Permits(k)) + 1
<1>1. Permits(k)' = Permits(k) \cup {r} /\ r \notin Permits(k)
  BY DEF Permits, TypeOK, Key, HoldingStates
<1> QED
  BY <1>1, PermitsFinite, FS_AddElement

\* A request that leaves the holding states gives its permit back.
LEMMA PermitReturned ==
    ASSUME TypeOK, NEW r \in Requests, NEW k \in Keys, Key(r) = k,
           pc[r] \in HoldingStates, NEW p, p \notin HoldingStates,
           pc' = [pc EXCEPT ![r] = p], req' = req
    PROVE  Cardinality(Permits(k)') = Cardinality(Permits(k)) - 1
<1>1. Permits(k)' = Permits(k) \ {r} /\ r \in Permits(k)
  BY DEF Permits, TypeOK, Key, HoldingStates
<1>2. Cardinality(Permits(k) \ {r}) = Cardinality(Permits(k)) - 1
  BY <1>1, PermitsFinite, FS_RemoveElement
<1> QED
  BY <1>1, <1>2

\* Any other step of a request leaves the permits of the key alone.
LEMMA PermitsKept ==
    ASSUME TypeOK, NEW r \in Requests, NEW k \in Keys, NEW p,
           Key(r) # k \/ (pc[r] \in HoldingStates <=> p \in HoldingStates),
           pc' = [pc EXCEPT ![r] = p] \/ pc' = pc, req' = req
    PROVE  Permits(k)' = Permits(k)
  BY DEF Permits, TypeOK, Key, HoldingStates

\* A step of a request leaves the counts of every other key alone.
LEMMA OtherKeysUntouched ==
    ASSUME TypeOK, NEW k \in Keys, NEW r \in Requests, Key(r) # k,
           Step(r) \/ Cancel(r) \/ Crash(r)
    PROVE  /\ Permits(k)' = Permits(k) /\ store'[k] = store[k]
           /\ published'[k] = published[k] /\ unacked'[k] = unacked[k]
           /\ losses'[k] = losses[k]
<1>1. /\ store'[k] = store[k] /\ losses'[k] = losses[k]
      /\ published'[k] = published[k] /\ unacked'[k] = unacked[k] /\ req' = req
      /\ \A q \in Requests : q # r => pc'[q] = pc[q]
  <2> USE DEF TypeOK, Headers, Goto
  <2>1. CASE PassThrough(r)
    BY <2>1 DEF PassThrough
  <2>2. CASE BeginReserve(r)
    BY <2>2 DEF BeginReserve
  <2>3. CASE RejectRequest(r)
    BY <2>3 DEF RejectRequest
  <2>4. CASE ReserveCreated(r)
    BY <2>4 DEF ReserveCreated
  <2>5. CASE ReserveTaken(r)
    BY <2>5 DEF ReserveTaken
  <2>6. CASE ReserveUnacked(r)
    BY <2>6 DEF ReserveUnacked
  <2>7. CASE ReserveFails(r)
    BY <2>7 DEF ReserveFails
  <2>8. CASE Replay(r)
    BY <2>8 DEF Replay
  <2>9. CASE ValidationFails(r)
    BY <2>9 DEF ValidationFails, AfterHandler
  <2>10. CASE PublishSucceeds(r)
    BY <2>10 DEF PublishSucceeds, AfterHandler
  <2>11. CASE PublishUnacked(r)
    BY <2>11 DEF PublishUnacked
  <2>12. CASE PublishFails(r)
    BY <2>12 DEF PublishFails, AfterHandler
  <2>13. CASE HandlerPanics(r)
    BY <2>13 DEF HandlerPanics, AfterHandler
  <2>14. CASE CompleteGet(r)
    BY <2>14 DEF CompleteGet
  <2>15. CASE CompleteScript(r)
    BY <2>15 DEF CompleteScript
  <2>16. CASE CompleteFails(r)
    BY <2>16 DEF CompleteFails
  <2>17. CASE ReleaseScript(r)
    BY <2>17 DEF ReleaseScript, FinishRelease
  <2>18. CASE ReleaseUnacked(r)
    BY <2>18 DEF ReleaseUnacked
  <2>19. CASE ReleaseFails(r)
    BY <2>19 DEF ReleaseFails, FinishRelease
  <2>20. CASE Cancel(r)
    BY <2>20 DEF Cancel
  <2>21. CASE Crash(r)
    BY <2>21 DEF Crash
  <2> HIDE DEF TypeOK, Headers, Goto
  <2> QED
    BY <2>1, <2>2, <2>3, <2>4, <2>5, <2>6, <2>7, <2>8, <2>9, <2>10, <2>11,
       <2>12, <2>13, <2>14, <2>15, <2>16, <2>17, <2>18, <2>19, <2>20, <2>21
    DEF Step
<1> QED
  BY <1>1 DEF Permits, Key

\* Each publish, reservation, release and loss moves one unit between the
\* permits, the published messages, the free slot and the two fault counters.
LEMMA PermitsStep ==
    ASSUME TypeOK, PermitsConserved, [Next]_vars
    PROVE  PermitsConserved'
<1> DEFINE Free(k) == IF store[k] = None THEN 1 ELSE 0
           Within(k) == Cardinality(Permits(k)) + published[k] + Free(k)
                           <= 1 + losses[k] + unacked[k]
<1> SUFFICES ASSUME NEW k \in Keys
             PROVE  Within(k)'
  BY DEF PermitsConserved
<1>0. /\ Within(k) /\ Cardinality(Permits(k)) \in Nat /\ Cardinality(Permits(k)') \in Nat
      /\ published \in [Headers -> Nat] /\ unacked \in [Headers -> Nat]
      /\ losses \in [Keys -> Nat] /\ k \in Headers
  BY PermitsFinite DEF PermitsConserved, TypeOK, Headers
<1>1. ASSUME NEW r \in Requests, Step(r) \/ Cancel(r) \/ Crash(r) PROVE Within(k)'
  <2>1. CASE Key(r) # k
    BY <1>0, <1>1, <2>1, OtherKeysUntouched
  <2>2. CASE Key(r) = k
    <3>1. CASE PassThrough(r)
      BY <2>2, <3>1, ConstantsAssumption DEF PassThrough
    <3>2. CASE BeginReserve(r)
      <4>1. Permits(k)' = Permits(k)
        BY <3>2, PermitsKept DEF BeginReserve, Goto, HoldingStates
      <4>2. UNCHANGED <<store, published, losses, unacked>>
        BY <3>2 DEF BeginReserve
      <4> QED
        BY <1>0, <4>1, <4>2
    <3>3. CASE RejectRequest(r)
      <4>1. Permits(k)' = Permits(k)
        BY <3>3, PermitsKept DEF RejectRequest, Goto, HoldingStates
      <4>2. UNCHANGED <<store, published, losses, unacked>>
        BY <3>3 DEF RejectRequest
      <4> QED
        BY <1>0, <4>1, <4>2
    <3>4. CASE ReserveCreated(r)
      <4>1. Cardinality(Permits(k)') = Cardinality(Permits(k)) + 1
        BY <2>2, <3>4, PermitTaken DEF ReserveCreated, Goto, HoldingStates
      <4>2. InFlight(r) \in Record
        BY DEF InFlight, Record, Body, TypeOK
      <4>3. /\ store[k] = None /\ store'[k] # None
            /\ UNCHANGED <<published, losses, unacked>>
        BY <2>2, <3>4, <4>2, ConstantsAssumption DEF ReserveCreated, TypeOK
      <4> QED
        BY <1>0, <4>1, <4>3
    <3>5. CASE ReserveTaken(r)
      <4>1. Permits(k)' = Permits(k)
        BY <3>5, PermitsKept DEF ReserveTaken, Goto, HoldingStates
      <4>2. UNCHANGED <<store, published, losses, unacked>>
        BY <3>5 DEF ReserveTaken
      <4> QED
        BY <1>0, <4>1, <4>2
    <3>6. CASE ReserveUnacked(r)
      <4>1. Permits(k)' = Permits(k)
        <5>1. PICK p \in {"lookup", "done"} : pc' = [pc EXCEPT ![r] = p]
          BY <3>6 DEF ReserveUnacked, Goto
        <5> QED
          BY <2>2, <3>6, <5>1, PermitsKept DEF ReserveUnacked, HoldingStates
      <4>2. InFlight(r) \in Record
        BY DEF InFlight, Record, Body, TypeOK
      <4>3. /\ store[k] = None /\ store'[k] # None
            /\ UNCHANGED <<published, losses, unacked>>
        BY <2>2, <3>6, <4>2, ConstantsAssumption DEF ReserveUnacked, TypeOK
      <4> QED
        BY <1>0, <4>1, <4>3
    <3>7. CASE ReserveFails(r)
      <4>1. Permits(k)' = Permits(k)
        BY <3>7, PermitsKept DEF ReserveFails, Goto, HoldingStates
      <4>2. UNCHANGED <<store, published, losses, unacked>>
        BY <3>7 DEF ReserveFails
      <4> QED
        BY <1>0, <4>1, <4>2
    <3>8. CASE Replay(r)
      <4>1. Permits(k)' = Permits(k)
        BY <3>8, PermitsKept DEF Replay, Goto, HoldingStates
      <4>2. UNCHANGED <<store, published, losses, unacked>>
        BY <3>8 DEF Replay
      <4> QED
        BY <1>0, <4>1, <4>2
    <3>9. CASE ValidationFails(r)
      <4>1. /\ pc[r] \in HoldingStates /\ req' = req
            /\ pc' = [pc EXCEPT ![r] = "complete"]
        BY <2>2, <3>9 DEF ValidationFails, AfterHandler, Goto, Keyed, HoldingStates
      <4>2. Cardinality(Permits(k)') = Cardinality(Permits(k)) - 1
        BY <2>2, <4>1, PermitReturned DEF HoldingStates
      <4>3. UNCHANGED <<store, published, losses, unacked>>
        BY <2>2, <3>9 DEF ValidationFails, TypeOK, Headers
      <4> QED
        BY <1>0, <4>2, <4>3
    <3>10. CASE PublishSucceeds(r)
      <4>1. /\ pc[r] \in HoldingStates /\ req' = req
            /\ pc' = [pc EXCEPT ![r] = "complete"]
        BY <2>2, <3>10 DEF PublishSucceeds, AfterHandler, Goto, Keyed, HoldingStates
      <4>2. Cardinality(Permits(k)') = Cardinality(Permits(k)) - 1
        BY <2>2, <4>1, PermitReturned DEF HoldingStates
      <4>3. published'[k] = published[k] + 1 /\ UNCHANGED <<store, losses, unacked>>
        BY <2>2, <3>10 DEF PublishSucceeds, TypeOK, Headers
      <4> QED
        BY <1>0, <4>2, <4>3
    <3>11. CASE PublishUnacked(r)
      <4>1. Permits(k)' = Permits(k)
        BY <3>11, PermitsKept DEF PublishUnacked
      <4>2. /\ published'[k] = published[k] + 1 /\ unacked'[k] = unacked[k] + 1
            /\ UNCHANGED <<store, losses>>
        BY <2>2, <3>11 DEF PublishUnacked, TypeOK, Headers
      <4> QED
        BY <1>0, <4>1, <4>2
    <3>12. CASE PublishFails(r)
      <4>1. /\ pc[r] \in HoldingStates /\ req' = req
            /\ pc' = [pc EXCEPT ![r] = "release"]
        BY <2>2, <3>12 DEF PublishFails, AfterHandler, Goto, Keyed, HoldingStates
      <4>2. Permits(k)' = Permits(k)
        BY <4>1, PermitsKept DEF HoldingStates
      <4>3. UNCHANGED <<store, published, losses, unacked>>
        BY <3>12 DEF PublishFails
      <4> QED
        BY <1>0, <4>2, <4>3
    <3>13. CASE HandlerPanics(r)
      <4>1. /\ pc[r] \in HoldingStates /\ req' = req
            /\ pc' = [pc EXCEPT ![r] = "unwind"]
        BY <2>2, <3>13 DEF HandlerPanics, AfterHandler, Goto, Keyed, HoldingStates
      <4>2. Permits(k)' = Permits(k)
        BY <4>1, PermitsKept DEF HoldingStates
      <4>3. UNCHANGED <<store, published, losses, unacked>>
        BY <3>13 DEF HandlerPanics
      <4> QED
        BY <1>0, <4>2, <4>3
    <3>14. CASE CompleteGet(r)
      <4>1. Permits(k)' = Permits(k)
        <5>1. PICK p \in {"script", "done"} : pc' = [pc EXCEPT ![r] = p]
          BY <3>14 DEF CompleteGet, Goto
        <5> QED
          BY <3>14, <5>1, PermitsKept DEF CompleteGet, HoldingStates
      <4>2. UNCHANGED <<store, published, losses, unacked>>
        BY <3>14 DEF CompleteGet
      <4> QED
        BY <1>0, <4>1, <4>2
    <3>15. CASE CompleteScript(r)
      <4>1. Permits(k)' = Permits(k)
        BY <3>15, PermitsKept DEF CompleteScript, Goto, HoldingStates
      <4>2. Completed(r) \in Record
        BY <3>15 DEF CompleteScript, Completed, Record, TypeOK
      <4>3. /\ store[k] = None <=> store'[k] = None
            /\ UNCHANGED <<published, losses, unacked>>
        BY <2>2, <3>15, <4>2, ConstantsAssumption DEF CompleteScript, TypeOK
      <4> QED
        BY <1>0, <4>1, <4>3
    <3>16. CASE CompleteFails(r)
      <4>1. Permits(k)' = Permits(k)
        BY <3>16, PermitsKept DEF CompleteFails, Goto, HoldingStates
      <4>2. UNCHANGED <<store, published, losses, unacked>>
        BY <3>16 DEF CompleteFails
      <4> QED
        BY <1>0, <4>1, <4>2
    <3>17. CASE ReleaseScript(r)
      <4>1. /\ pc[r] \in HoldingStates /\ req' = req
            /\ pc' = [pc EXCEPT ![r] = "done"]
        BY <2>2, <3>17 DEF ReleaseScript, FinishRelease, Goto, Keyed, HoldingStates
      <4>2. Cardinality(Permits(k)') = Cardinality(Permits(k)) - 1
        BY <2>2, <4>1, PermitReturned DEF HoldingStates
      <4>3. UNCHANGED <<published, losses, unacked>>
        BY <2>2, <3>17 DEF ReleaseScript, TypeOK, Headers
      <4> QED
        BY <1>0, <4>2, <4>3
    <3>18. CASE ReleaseUnacked(r)
      <4>1. Permits(k)' = Permits(k)
        BY <3>18, PermitsKept DEF ReleaseUnacked
      <4>2. /\ losses'[k] = losses[k] + 1 /\ store[k] # None /\ store'[k] = None
            /\ UNCHANGED <<published, unacked>>
        BY <2>2, <3>18 DEF ReleaseUnacked, TypeOK
      <4> QED
        BY <1>0, <4>1, <4>2
    <3>19. CASE ReleaseFails(r)
      <4>1. /\ pc[r] \in HoldingStates /\ req' = req
            /\ pc' = [pc EXCEPT ![r] = "done"]
        BY <2>2, <3>19 DEF ReleaseFails, FinishRelease, Goto, Keyed, HoldingStates
      <4>2. Cardinality(Permits(k)') = Cardinality(Permits(k)) - 1
        BY <2>2, <4>1, PermitReturned DEF HoldingStates
      <4>3. UNCHANGED <<store, published, losses, unacked>>
        BY <2>2, <3>19 DEF ReleaseFails, TypeOK, Headers
      <4> QED
        BY <1>0, <4>2, <4>3
    <3>20. CASE Cancel(r)
      <4>1. Permits(k)' = Permits(k)
        BY <3>20, PermitsKept DEF Cancel
      <4>2. UNCHANGED <<store, published, losses, unacked>>
        BY <3>20 DEF Cancel
      <4> QED
        BY <1>0, <4>1, <4>2
    <3>21. CASE Crash(r)
      <4>1. CASE pc[r] \in HoldingStates
        <5>1. Cardinality(Permits(k)') = Cardinality(Permits(k)) - 1
          BY <2>2, <3>21, <4>1, PermitReturned DEF Crash, Goto, HoldingStates
        <5>2. UNCHANGED <<store, published, losses, unacked>>
          BY <3>21 DEF Crash
        <5> QED
          BY <1>0, <5>1, <5>2
      <4>2. CASE pc[r] \notin HoldingStates
        <5>1. Permits(k)' = Permits(k)
          BY <3>21, <4>2, PermitsKept DEF Crash, Goto, HoldingStates
        <5>2. UNCHANGED <<store, published, losses, unacked>>
          BY <3>21 DEF Crash
        <5> QED
          BY <1>0, <5>1, <5>2
      <4> QED
        BY <4>1, <4>2
    <3> QED
      BY <1>1, <3>1, <3>2, <3>3, <3>4, <3>5, <3>6, <3>7, <3>8, <3>9, <3>10, <3>11,
         <3>12, <3>13, <3>14, <3>15, <3>16, <3>17, <3>18, <3>19, <3>20, <3>21
      DEF Step
  <2> QED
    BY <2>1, <2>2
<1>2. ASSUME NEW j \in Keys, LoseRecord(j) PROVE Within(k)'
  <2>1. Permits(k)' = Permits(k)
    BY <1>2 DEF LoseRecord, Permits, Key
  <2>2. /\ UNCHANGED <<published, unacked>>
        /\ IF j = k THEN losses'[k] = losses[k] + 1 /\ store[k] # None /\ store'[k] = None
           ELSE losses'[k] = losses[k] /\ store'[k] = store[k]
    BY <1>2 DEF LoseRecord, TypeOK
  <2> QED
    BY <1>0, <2>1, <2>2
<1>3. CASE UNCHANGED vars
  <2>1. Permits(k)' = Permits(k)
    BY <1>3 DEF vars, Permits, Key
  <2> QED
    BY <1>0, <1>3, <2>1 DEF vars
<1> HIDE DEF Within
<1> QED
  BY <1>1, <1>2, <1>3 DEF Next, Quiescent

\* Under each key the permits, the messages on the queue and the free slot
\* never exceed one plus the losses and lost acknowledgements.
THEOREM PermitsAreConserved == Spec => []PermitsConserved
<1>1. Init => PermitsConserved
  <2> SUFFICES ASSUME Init, NEW k \in Keys
               PROVE  Cardinality(Permits(k)) + published[k]
                         + (IF store[k] = None THEN 1 ELSE 0)
                            <= 1 + losses[k] + unacked[k]
    BY DEF PermitsConserved
  <2>1. Permits(k) = {}
    BY DEF Init, Permits, HoldingStates
  <2>2. published[k] = 0 /\ losses[k] = 0 /\ unacked[k] = 0
    BY DEF Init, Headers
  <2> QED
    BY <2>1, <2>2, FS_EmptySet
<1>2. TypeOK /\ PermitsConserved /\ [Next]_vars => PermitsConserved'
  BY PermitsStep
<1> QED
  BY <1>1, <1>2, TypeCorrect, PTL DEF Spec

\* The queue receives at most one message per key, plus one for each lost
\* record and each lost acknowledgement, for any number of requests, crashes,
\* disconnects and panics.
THEOREM DuplicatesAreBounded == Spec => []DuplicateBound
<1>1. TypeOK /\ PermitsConserved => DuplicateBound
  <2> SUFFICES ASSUME TypeOK, PermitsConserved, NEW k \in Keys
               PROVE  published[k] <= 1 + losses[k] + unacked[k]
    BY DEF DuplicateBound
  <2>1. Cardinality(Permits(k)) \in Nat
    BY PermitsFinite
  <2>2. published[k] \in Nat /\ losses[k] \in Nat /\ unacked[k] \in Nat
    BY DEF TypeOK, Headers
  <2> QED
    BY <2>1, <2>2 DEF PermitsConserved
<1> QED
  BY <1>1, TypeCorrect, PermitsAreConserved, PTL

(***************************************************************************)
(* Ownership of records.                                                   *)
(***************************************************************************)
\* The owner a record names is a request that sent the record's key.
LEMMA OwnerIsRequest ==
    ASSUME IndInv, NEW k \in Keys, store[k] # None
    PROVE  /\ store[k] \in Record /\ store[k].by \in Requests
           /\ Key(store[k].by) = k
           /\ losses[k] = 0 => store[k].hash = Body(store[k].by)
<1>1. store[k] \in Record
  BY DEF IndInv, TypeOK
<1>2. store[k].by \in Requests
  BY <1>1 DEF Record
<1> QED
  BY <1>1, <1>2 DEF IndInv, RecordMatchesOwner

\* A record keeps naming the request that wrote it: Complete carries over the
\* hash of a record that, without losses, is the caller's own.
LEMMA RecordStep ==
    ASSUME IndInv, [Next]_vars
    PROVE  RecordMatchesOwner'
<1> USE ConstantsAssumption DEF IndInv, RecordMatchesOwner, RunningOwnsRecord, TypeOK, Headers, Statuses,
           Record, Response, Key, Body, Keyed, Goto, Answer, Active
<1>1. ASSUME NEW r \in Requests, PassThrough(r) PROVE RecordMatchesOwner'
  BY <1>1 DEF PassThrough
<1>2. ASSUME NEW r \in Requests, BeginReserve(r) PROVE RecordMatchesOwner'
  BY <1>2 DEF BeginReserve
<1>3. ASSUME NEW r \in Requests, RejectRequest(r) PROVE RecordMatchesOwner'
  BY <1>3 DEF RejectRequest
<1>4. ASSUME NEW r \in Requests, ReserveCreated(r) PROVE RecordMatchesOwner'
  BY <1>4 DEF ReserveCreated, InFlight
<1>5. ASSUME NEW r \in Requests, ReserveTaken(r) PROVE RecordMatchesOwner'
  BY <1>5 DEF ReserveTaken
<1>6. ASSUME NEW r \in Requests, ReserveUnacked(r) PROVE RecordMatchesOwner'
  BY <1>6 DEF ReserveUnacked, InFlight
<1>7. ASSUME NEW r \in Requests, ReserveFails(r) PROVE RecordMatchesOwner'
  BY <1>7 DEF ReserveFails
<1>8. ASSUME NEW r \in Requests, Replay(r) PROVE RecordMatchesOwner'
  BY <1>8 DEF Replay
<1>9. ASSUME NEW r \in Requests, ValidationFails(r) PROVE RecordMatchesOwner'
  BY <1>9 DEF ValidationFails, AfterHandler
<1>10. ASSUME NEW r \in Requests, PublishSucceeds(r) PROVE RecordMatchesOwner'
  BY <1>10 DEF PublishSucceeds, AfterHandler
<1>11. ASSUME NEW r \in Requests, PublishUnacked(r) PROVE RecordMatchesOwner'
  BY <1>11 DEF PublishUnacked
<1>12. ASSUME NEW r \in Requests, PublishFails(r) PROVE RecordMatchesOwner'
  BY <1>12 DEF PublishFails, AfterHandler
<1>13. ASSUME NEW r \in Requests, HandlerPanics(r) PROVE RecordMatchesOwner'
  BY <1>13 DEF HandlerPanics, AfterHandler
<1>14. ASSUME NEW r \in Requests, CompleteGet(r) PROVE RecordMatchesOwner'
  <2>1. UNCHANGED <<req, store, losses, answer>> /\ pc[r] = "complete"
    BY <1>14 DEF CompleteGet
  <2>2. \A q \in Requests : q # r => pc'[q] = pc[q]
    BY <1>14 DEF CompleteGet
  <2>3. \A k \in Keys : store[k] # None => store[k].by \in Requests
    BY OwnerIsRequest
  <2> QED
    BY <2>1, <2>2, <2>3
<1>15. ASSUME NEW r \in Requests, CompleteScript(r) PROVE RecordMatchesOwner'
  BY <1>15 DEF CompleteScript, Completed
<1>16. ASSUME NEW r \in Requests, CompleteFails(r) PROVE RecordMatchesOwner'
  BY <1>16 DEF CompleteFails
<1>17. ASSUME NEW r \in Requests, ReleaseScript(r) PROVE RecordMatchesOwner'
  BY <1>17 DEF ReleaseScript, FinishRelease
<1>18. ASSUME NEW r \in Requests, ReleaseUnacked(r) PROVE RecordMatchesOwner'
  BY <1>18 DEF ReleaseUnacked
<1>19. ASSUME NEW r \in Requests, ReleaseFails(r) PROVE RecordMatchesOwner'
  BY <1>19 DEF ReleaseFails, FinishRelease
<1>20. ASSUME NEW r \in Requests, Cancel(r) PROVE RecordMatchesOwner'
  BY <1>20 DEF Cancel, Finished
<1>21. ASSUME NEW r \in Requests, Crash(r) PROVE RecordMatchesOwner'
  BY <1>21 DEF Crash, Finished
<1>22. ASSUME NEW k \in Keys, LoseRecord(k) PROVE RecordMatchesOwner'
  BY <1>22 DEF LoseRecord
<1>23. CASE UNCHANGED vars
  BY <1>23 DEF vars
<1> HIDE DEF IndInv, RecordMatchesOwner, RunningOwnsRecord, TypeOK, Headers, Statuses, Record,
            Response, Key, Body, Keyed, Goto, Answer, Active
<1> QED
  BY <1>1, <1>2, <1>3, <1>4, <1>5, <1>6, <1>7, <1>8, <1>9, <1>10, <1>11, <1>12,
     <1>13, <1>14, <1>15, <1>16, <1>17, <1>18, <1>19, <1>20, <1>21, <1>22, <1>23
  DEF Next, Step, Quiescent

\* Only SET NX starts a handler run, and without losses only its own request
\* changes the record it created.
LEMMA RunningStep ==
    ASSUME IndInv, [Next]_vars
    PROVE  RunningOwnsRecord'
<1> USE ConstantsAssumption DEF IndInv, RecordMatchesOwner, RunningOwnsRecord, TypeOK, Headers, Statuses,
           Record, Response, Key, Body, Keyed, Goto, Answer, Active
<1>1. ASSUME NEW r \in Requests, PassThrough(r) PROVE RunningOwnsRecord'
  BY <1>1 DEF PassThrough
<1>2. ASSUME NEW r \in Requests, BeginReserve(r) PROVE RunningOwnsRecord'
  BY <1>2 DEF BeginReserve
<1>3. ASSUME NEW r \in Requests, RejectRequest(r) PROVE RunningOwnsRecord'
  BY <1>3 DEF RejectRequest
<1>4. ASSUME NEW r \in Requests, ReserveCreated(r) PROVE RunningOwnsRecord'
  BY <1>4 DEF ReserveCreated, InFlight
<1>5. ASSUME NEW r \in Requests, ReserveTaken(r) PROVE RunningOwnsRecord'
  BY <1>5 DEF ReserveTaken
<1>6. ASSUME NEW r \in Requests, ReserveUnacked(r) PROVE RunningOwnsRecord'
  BY <1>6 DEF ReserveUnacked, InFlight
<1>7. ASSUME NEW r \in Requests, ReserveFails(r) PROVE RunningOwnsRecord'
  BY <1>7 DEF ReserveFails
<1>8. ASSUME NEW r \in Requests, Replay(r) PROVE RunningOwnsRecord'
  BY <1>8 DEF Replay
<1>9. ASSUME NEW r \in Requests, ValidationFails(r) PROVE RunningOwnsRecord'
  BY <1>9 DEF ValidationFails, AfterHandler
<1>10. ASSUME NEW r \in Requests, PublishSucceeds(r) PROVE RunningOwnsRecord'
  BY <1>10 DEF PublishSucceeds, AfterHandler
<1>11. ASSUME NEW r \in Requests, PublishUnacked(r) PROVE RunningOwnsRecord'
  BY <1>11 DEF PublishUnacked
<1>12. ASSUME NEW r \in Requests, PublishFails(r) PROVE RunningOwnsRecord'
  BY <1>12 DEF PublishFails, AfterHandler
<1>13. ASSUME NEW r \in Requests, HandlerPanics(r) PROVE RunningOwnsRecord'
  BY <1>13 DEF HandlerPanics, AfterHandler
<1>14. ASSUME NEW r \in Requests, CompleteGet(r) PROVE RunningOwnsRecord'
  <2>1. \A q \in Requests : q # r => pc'[q] = pc[q] /\ readHash'[q] = readHash[q]
    BY <1>14 DEF CompleteGet
  <2>2. losses[Key(r)] = 0 => store[Key(r)] # None /\ readHash'[r] = Body(r)
    <3> SUFFICES ASSUME losses[Key(r)] = 0
                 PROVE  store[Key(r)] # None /\ readHash'[r] = Body(r)
      OBVIOUS
    <3>1. Active(r) /\ Key(r) \in Keys
      BY <1>14 DEF CompleteGet
    <3>2. store[Key(r)] # None /\ store[Key(r)].by = r
      BY <3>1
    <3>3. store[Key(r)].hash = Body(r)
      BY <3>1, <3>2, OwnerIsRequest
    <3> QED
      BY <1>14, <3>2, <3>3 DEF CompleteGet
  <2>3. pc'[r] \in {"done", "script"} /\ UNCHANGED <<req, store, losses>>
    BY <1>14 DEF CompleteGet
  <2>4. losses[Key(r)] = 0 =>
           store[Key(r)].by = r /\ store[Key(r)].state # "COMPLETED"
    BY <1>14 DEF CompleteGet
  <2> QED
    BY <2>1, <2>2, <2>3, <2>4
<1>15. ASSUME NEW r \in Requests, CompleteScript(r) PROVE RunningOwnsRecord'
  BY <1>15 DEF CompleteScript, Completed
<1>16. ASSUME NEW r \in Requests, CompleteFails(r) PROVE RunningOwnsRecord'
  BY <1>16 DEF CompleteFails
<1>17. ASSUME NEW r \in Requests, ReleaseScript(r) PROVE RunningOwnsRecord'
  BY <1>17 DEF ReleaseScript, FinishRelease
<1>18. ASSUME NEW r \in Requests, ReleaseUnacked(r) PROVE RunningOwnsRecord'
  BY <1>18 DEF ReleaseUnacked
<1>19. ASSUME NEW r \in Requests, ReleaseFails(r) PROVE RunningOwnsRecord'
  BY <1>19 DEF ReleaseFails, FinishRelease
<1>20. ASSUME NEW r \in Requests, Cancel(r) PROVE RunningOwnsRecord'
  BY <1>20 DEF Cancel, Finished
<1>21. ASSUME NEW r \in Requests, Crash(r) PROVE RunningOwnsRecord'
  BY <1>21 DEF Crash, Finished
<1>22. ASSUME NEW k \in Keys, LoseRecord(k) PROVE RunningOwnsRecord'
  BY <1>22 DEF LoseRecord
<1>23. CASE UNCHANGED vars
  BY <1>23 DEF vars
<1> HIDE DEF IndInv, RecordMatchesOwner, RunningOwnsRecord, TypeOK, Headers, Statuses, Record,
            Response, Key, Body, Keyed, Goto, Answer, Active
<1> QED
  BY <1>1, <1>2, <1>3, <1>4, <1>5, <1>6, <1>7, <1>8, <1>9, <1>10, <1>11, <1>12,
     <1>13, <1>14, <1>15, <1>16, <1>17, <1>18, <1>19, <1>20, <1>21, <1>22, <1>23
  DEF Next, Step, Quiescent

\* Every return path after a successful Reserve completes or releases the
\* record, or leaves the mark of a failed call or a crash.
LEMMA InFlightStep ==
    ASSUME IndInv, [Next]_vars
    PROVE  InFlightHasOwner'
<1> USE ConstantsAssumption DEF IndInv, RecordMatchesOwner, InFlightHasOwner, TypeOK, Headers, Statuses,
           Record, Response, Key, Body, Keyed, Goto, Answer, Active
<1>1. ASSUME NEW r \in Requests, PassThrough(r) PROVE InFlightHasOwner'
  BY <1>1 DEF PassThrough
<1>2. ASSUME NEW r \in Requests, BeginReserve(r) PROVE InFlightHasOwner'
  BY <1>2 DEF BeginReserve
<1>3. ASSUME NEW r \in Requests, RejectRequest(r) PROVE InFlightHasOwner'
  BY <1>3 DEF RejectRequest
<1>4. ASSUME NEW r \in Requests, ReserveCreated(r) PROVE InFlightHasOwner'
  <2>1. /\ Key(r) \in Keys /\ store'[Key(r)].by = r
        /\ pc' = [pc EXCEPT ![r] = "handle"]
        /\ UNCHANGED <<req, fault>>
    BY <1>4 DEF ReserveCreated, InFlight
  <2>2. Active(r)'
    BY <2>1
  <2>3. \A k \in Keys : k # Key(r) => store'[k] = store[k]
    BY <1>4 DEF ReserveCreated
  <2>4. \A k \in Keys : k # Key(r) /\ store[k] # None =>
           store[k].by \in Requests /\ store[k].by # r
    BY OwnerIsRequest
  <2> QED
    BY <2>1, <2>2, <2>3, <2>4
<1>5. ASSUME NEW r \in Requests, ReserveTaken(r) PROVE InFlightHasOwner'
  BY <1>5 DEF ReserveTaken
<1>6. ASSUME NEW r \in Requests, ReserveUnacked(r) PROVE InFlightHasOwner'
  BY <1>6 DEF ReserveUnacked, InFlight
<1>7. ASSUME NEW r \in Requests, ReserveFails(r) PROVE InFlightHasOwner'
  BY <1>7 DEF ReserveFails
<1>8. ASSUME NEW r \in Requests, Replay(r) PROVE InFlightHasOwner'
  BY <1>8 DEF Replay
<1>9. ASSUME NEW r \in Requests, ValidationFails(r) PROVE InFlightHasOwner'
  BY <1>9 DEF ValidationFails, AfterHandler
<1>10. ASSUME NEW r \in Requests, PublishSucceeds(r) PROVE InFlightHasOwner'
  BY <1>10 DEF PublishSucceeds, AfterHandler
<1>11. ASSUME NEW r \in Requests, PublishUnacked(r) PROVE InFlightHasOwner'
  BY <1>11 DEF PublishUnacked
<1>12. ASSUME NEW r \in Requests, PublishFails(r) PROVE InFlightHasOwner'
  BY <1>12 DEF PublishFails, AfterHandler
<1>13. ASSUME NEW r \in Requests, HandlerPanics(r) PROVE InFlightHasOwner'
  BY <1>13 DEF HandlerPanics, AfterHandler
<1>14. ASSUME NEW r \in Requests, CompleteGet(r) PROVE InFlightHasOwner'
  <2>1. UNCHANGED <<req, store, fault>> /\ Key(r) \in Keys
    BY <1>14 DEF CompleteGet
  <2>2. \A q \in Requests : q # r => pc'[q] = pc[q]
    BY <1>14 DEF CompleteGet
  <2>3. store[Key(r)] # None => pc'[r] = "script"
    BY <1>14 DEF CompleteGet
  <2>4. \A k \in Keys : store[k] # None =>
           store[k].by \in Requests /\ Key(store[k].by) = k
    BY OwnerIsRequest
  <2> QED
    BY <2>1, <2>2, <2>3, <2>4
<1>15. ASSUME NEW r \in Requests, CompleteScript(r) PROVE InFlightHasOwner'
  <2>1. /\ Key(r) \in Keys /\ UNCHANGED <<req, fault>>
        /\ store'[Key(r)] = None \/ store'[Key(r)].state = "COMPLETED"
    BY <1>15 DEF CompleteScript, Completed
  <2>2. \A k \in Keys : k # Key(r) => store'[k] = store[k]
    BY <1>15 DEF CompleteScript, Completed
  <2>3. \A q \in Requests : q # r => pc'[q] = pc[q]
    BY <1>15 DEF CompleteScript, Completed
  <2>4. \A k \in Keys : store[k] # None =>
           store[k].by \in Requests /\ Key(store[k].by) = k
    BY OwnerIsRequest
  <2> QED
    BY <2>1, <2>2, <2>3, <2>4
<1>16. ASSUME NEW r \in Requests, CompleteFails(r) PROVE InFlightHasOwner'
  BY <1>16 DEF CompleteFails
<1>17. ASSUME NEW r \in Requests, ReleaseScript(r) PROVE InFlightHasOwner'
  <2>1. /\ Key(r) \in Keys /\ UNCHANGED <<req, fault>>
        /\ store'[Key(r)] = None \/ store'[Key(r)].state = "COMPLETED"
    BY <1>17 DEF ReleaseScript, FinishRelease
  <2>2. \A k \in Keys : k # Key(r) => store'[k] = store[k]
    BY <1>17 DEF ReleaseScript, FinishRelease
  <2>3. \A q \in Requests : q # r => pc'[q] = pc[q]
    BY <1>17 DEF ReleaseScript, FinishRelease
  <2>4. \A k \in Keys : store[k] # None =>
           store[k].by \in Requests /\ Key(store[k].by) = k
    BY OwnerIsRequest
  <2> QED
    BY <2>1, <2>2, <2>3, <2>4
<1>18. ASSUME NEW r \in Requests, ReleaseUnacked(r) PROVE InFlightHasOwner'
  BY <1>18 DEF ReleaseUnacked
<1>19. ASSUME NEW r \in Requests, ReleaseFails(r) PROVE InFlightHasOwner'
  BY <1>19 DEF ReleaseFails, FinishRelease
<1>20. ASSUME NEW r \in Requests, Cancel(r) PROVE InFlightHasOwner'
  BY <1>20 DEF Cancel, Finished
<1>21. ASSUME NEW r \in Requests, Crash(r) PROVE InFlightHasOwner'
  BY <1>21 DEF Crash, Finished
<1>22. ASSUME NEW k \in Keys, LoseRecord(k) PROVE InFlightHasOwner'
  BY <1>22 DEF LoseRecord
<1>23. CASE UNCHANGED vars
  BY <1>23 DEF vars
<1> HIDE DEF IndInv, RecordMatchesOwner, InFlightHasOwner, TypeOK, Headers, Statuses, Record,
            Response, Key, Body, Keyed, Goto, Answer, Active
<1> QED
  BY <1>1, <1>2, <1>3, <1>4, <1>5, <1>6, <1>7, <1>8, <1>9, <1>10, <1>11, <1>12,
     <1>13, <1>14, <1>15, <1>16, <1>17, <1>18, <1>19, <1>20, <1>21, <1>22, <1>23
  DEF Next, Step, Quiescent

\* A 202 is written only after a publish, and replays repeat a stored 202.
LEMMA AcceptedStep ==
    ASSUME IndInv, [Next]_vars
    PROVE  AcceptedMeansPublished'
<1> USE ConstantsAssumption DEF IndInv, RecordMatchesOwner, AcceptedMeansPublished, TypeOK, Headers, Statuses,
           Record, Response, Key, Body, Keyed, Goto, Answer, Active
<1>1. ASSUME NEW r \in Requests, PassThrough(r) PROVE AcceptedMeansPublished'
  BY <1>1 DEF PassThrough
<1>2. ASSUME NEW r \in Requests, BeginReserve(r) PROVE AcceptedMeansPublished'
  BY <1>2 DEF BeginReserve
<1>3. ASSUME NEW r \in Requests, RejectRequest(r) PROVE AcceptedMeansPublished'
  BY <1>3 DEF RejectRequest
<1>4. ASSUME NEW r \in Requests, ReserveCreated(r) PROVE AcceptedMeansPublished'
  BY <1>4 DEF ReserveCreated, InFlight
<1>5. ASSUME NEW r \in Requests, ReserveTaken(r) PROVE AcceptedMeansPublished'
  BY <1>5 DEF ReserveTaken
<1>6. ASSUME NEW r \in Requests, ReserveUnacked(r) PROVE AcceptedMeansPublished'
  BY <1>6 DEF ReserveUnacked, InFlight
<1>7. ASSUME NEW r \in Requests, ReserveFails(r) PROVE AcceptedMeansPublished'
  BY <1>7 DEF ReserveFails
<1>8. ASSUME NEW r \in Requests, Replay(r) PROVE AcceptedMeansPublished'
  BY <1>8 DEF Replay
<1>9. ASSUME NEW r \in Requests, ValidationFails(r) PROVE AcceptedMeansPublished'
  BY <1>9 DEF ValidationFails, AfterHandler
<1>10. ASSUME NEW r \in Requests, PublishSucceeds(r) PROVE AcceptedMeansPublished'
  BY <1>10 DEF PublishSucceeds, AfterHandler
<1>11. ASSUME NEW r \in Requests, PublishUnacked(r) PROVE AcceptedMeansPublished'
  BY <1>11 DEF PublishUnacked
<1>12. ASSUME NEW r \in Requests, PublishFails(r) PROVE AcceptedMeansPublished'
  BY <1>12 DEF PublishFails, AfterHandler
<1>13. ASSUME NEW r \in Requests, HandlerPanics(r) PROVE AcceptedMeansPublished'
  BY <1>13 DEF HandlerPanics, AfterHandler
<1>14. ASSUME NEW r \in Requests, CompleteGet(r) PROVE AcceptedMeansPublished'
  BY <1>14 DEF CompleteGet
<1>15. ASSUME NEW r \in Requests, CompleteScript(r) PROVE AcceptedMeansPublished'
  BY <1>15 DEF CompleteScript, Completed
<1>16. ASSUME NEW r \in Requests, CompleteFails(r) PROVE AcceptedMeansPublished'
  BY <1>16 DEF CompleteFails
<1>17. ASSUME NEW r \in Requests, ReleaseScript(r) PROVE AcceptedMeansPublished'
  BY <1>17 DEF ReleaseScript, FinishRelease
<1>18. ASSUME NEW r \in Requests, ReleaseUnacked(r) PROVE AcceptedMeansPublished'
  BY <1>18 DEF ReleaseUnacked
<1>19. ASSUME NEW r \in Requests, ReleaseFails(r) PROVE AcceptedMeansPublished'
  BY <1>19 DEF ReleaseFails, FinishRelease
<1>20. ASSUME NEW r \in Requests, Cancel(r) PROVE AcceptedMeansPublished'
  BY <1>20 DEF Cancel, Finished
<1>21. ASSUME NEW r \in Requests, Crash(r) PROVE AcceptedMeansPublished'
  BY <1>21 DEF Crash, Finished
<1>22. ASSUME NEW k \in Keys, LoseRecord(k) PROVE AcceptedMeansPublished'
  BY <1>22 DEF LoseRecord
<1>23. CASE UNCHANGED vars
  BY <1>23 DEF vars
<1> HIDE DEF IndInv, RecordMatchesOwner, AcceptedMeansPublished, TypeOK, Headers, Statuses, Record,
            Response, Key, Body, Keyed, Goto, Answer, Active
<1> QED
  BY <1>1, <1>2, <1>3, <1>4, <1>5, <1>6, <1>7, <1>8, <1>9, <1>10, <1>11, <1>12,
     <1>13, <1>14, <1>15, <1>16, <1>17, <1>18, <1>19, <1>20, <1>21, <1>22, <1>23
  DEF Next, Step, Quiescent

\* A replay comes from a record whose hash equals the request's body and,
\* without losses, the body of the request that produced the response.
LEMMA ReplayStep ==
    ASSUME IndInv, [Next]_vars
    PROVE  ReplayOfSameBody'
<1> USE ConstantsAssumption DEF IndInv, RecordMatchesOwner, RunningOwnsRecord, ReplayOfSameBody, TypeOK, Headers, Statuses,
           Record, Response, Key, Body, Keyed, Goto, Answer, Active
<1>1. ASSUME NEW r \in Requests, PassThrough(r) PROVE ReplayOfSameBody'
  BY <1>1 DEF PassThrough
<1>2. ASSUME NEW r \in Requests, BeginReserve(r) PROVE ReplayOfSameBody'
  BY <1>2 DEF BeginReserve
<1>3. ASSUME NEW r \in Requests, RejectRequest(r) PROVE ReplayOfSameBody'
  BY <1>3 DEF RejectRequest
<1>4. ASSUME NEW r \in Requests, ReserveCreated(r) PROVE ReplayOfSameBody'
  BY <1>4 DEF ReserveCreated, InFlight
<1>5. ASSUME NEW r \in Requests, ReserveTaken(r) PROVE ReplayOfSameBody'
  BY <1>5 DEF ReserveTaken
<1>6. ASSUME NEW r \in Requests, ReserveUnacked(r) PROVE ReplayOfSameBody'
  BY <1>6 DEF ReserveUnacked, InFlight
<1>7. ASSUME NEW r \in Requests, ReserveFails(r) PROVE ReplayOfSameBody'
  BY <1>7 DEF ReserveFails
<1>8. ASSUME NEW r \in Requests, Replay(r) PROVE ReplayOfSameBody'
  BY <1>8 DEF Replay
<1>9. ASSUME NEW r \in Requests, ValidationFails(r) PROVE ReplayOfSameBody'
  BY <1>9 DEF ValidationFails, AfterHandler
<1>10. ASSUME NEW r \in Requests, PublishSucceeds(r) PROVE ReplayOfSameBody'
  BY <1>10 DEF PublishSucceeds, AfterHandler
<1>11. ASSUME NEW r \in Requests, PublishUnacked(r) PROVE ReplayOfSameBody'
  BY <1>11 DEF PublishUnacked
<1>12. ASSUME NEW r \in Requests, PublishFails(r) PROVE ReplayOfSameBody'
  BY <1>12 DEF PublishFails, AfterHandler
<1>13. ASSUME NEW r \in Requests, HandlerPanics(r) PROVE ReplayOfSameBody'
  BY <1>13 DEF HandlerPanics, AfterHandler
<1>14. ASSUME NEW r \in Requests, CompleteGet(r) PROVE ReplayOfSameBody'
  BY <1>14 DEF CompleteGet
<1>15. ASSUME NEW r \in Requests, CompleteScript(r) PROVE ReplayOfSameBody'
  BY <1>15 DEF CompleteScript, Completed
<1>16. ASSUME NEW r \in Requests, CompleteFails(r) PROVE ReplayOfSameBody'
  BY <1>16 DEF CompleteFails
<1>17. ASSUME NEW r \in Requests, ReleaseScript(r) PROVE ReplayOfSameBody'
  BY <1>17 DEF ReleaseScript, FinishRelease
<1>18. ASSUME NEW r \in Requests, ReleaseUnacked(r) PROVE ReplayOfSameBody'
  BY <1>18 DEF ReleaseUnacked
<1>19. ASSUME NEW r \in Requests, ReleaseFails(r) PROVE ReplayOfSameBody'
  <2>1. CASE pc[r] = "unwind"
    BY <1>19, <2>1 DEF ReleaseFails, FinishRelease
  <2>2. CASE pc[r] # "unwind"
    BY <1>19, <2>2 DEF ReleaseFails, FinishRelease
  <2> QED
    BY <2>1, <2>2
<1>20. ASSUME NEW r \in Requests, Cancel(r) PROVE ReplayOfSameBody'
  BY <1>20 DEF Cancel, Finished
<1>21. ASSUME NEW r \in Requests, Crash(r) PROVE ReplayOfSameBody'
  BY <1>21 DEF Crash, Finished
<1>22. ASSUME NEW k \in Keys, LoseRecord(k) PROVE ReplayOfSameBody'
  BY <1>22 DEF LoseRecord
<1>23. CASE UNCHANGED vars
  BY <1>23 DEF vars
<1> HIDE DEF IndInv, RecordMatchesOwner, RunningOwnsRecord, ReplayOfSameBody, TypeOK, Headers, Statuses, Record,
            Response, Key, Body, Keyed, Goto, Answer, Active
<1> QED
  BY <1>1, <1>2, <1>3, <1>4, <1>5, <1>6, <1>7, <1>8, <1>9, <1>10, <1>11, <1>12,
     <1>13, <1>14, <1>15, <1>16, <1>17, <1>18, <1>19, <1>20, <1>21, <1>22, <1>23
  DEF Next, Step, Quiescent

\* The inductive invariant holds in every reachable state.
THEOREM Ownership == Spec => []IndInv
<1>1. Init => IndInv
  <2> SUFFICES ASSUME Init PROVE IndInv
    OBVIOUS
  <2>1. TypeOK
    BY TypeInit
  <2>2. RecordMatchesOwner /\ InFlightHasOwner
    BY DEF Init, RecordMatchesOwner, InFlightHasOwner
  <2>3. RunningOwnsRecord /\ AcceptedMeansPublished /\ ReplayOfSameBody
    BY DEF Init, RunningOwnsRecord, Active, AcceptedMeansPublished, ReplayOfSameBody
  <2> QED
    BY <2>1, <2>2, <2>3 DEF IndInv
<1>2. IndInv /\ [Next]_vars => IndInv'
  <2> SUFFICES ASSUME IndInv, [Next]_vars PROVE IndInv'
    OBVIOUS
  <2>1. TypeOK'
    BY TypeStep DEF IndInv
  <2> QED
    BY <2>1, RecordStep, RunningStep, InFlightStep, AcceptedStep, ReplayStep DEF IndInv
<1> QED
  BY <1>1, <1>2, PTL DEF Spec

\* Without losses two requests with the same key never run the handler, or
\* complete or release the key, at the same time.
THEOREM HandlersExclude == Spec => []OneHandlerPerKey
<1>1. IndInv => OneHandlerPerKey
  BY DEF IndInv, RunningOwnsRecord, OneHandlerPerKey
<1> QED
  BY <1>1, Ownership, PTL

\* No return path of the middleware forgets a reservation.
THEOREM ReservationsAreOwned == Spec => []InFlightHasOwner
<1>1. IndInv => InFlightHasOwner
  BY DEF IndInv
<1> QED
  BY <1>1, Ownership, PTL

\* A 202 always stands for a message that reached the queue.
THEOREM AcceptedIsPublished == Spec => []AcceptedMeansPublished
<1>1. IndInv => AcceptedMeansPublished
  BY DEF IndInv
<1> QED
  BY <1>1, Ownership, PTL

\* Without losses a stored response is replayed to the same body only.
THEOREM ReplaysMatch == Spec => []ReplayOfSameBody
<1>1. IndInv => ReplayOfSameBody
  BY DEF IndInv
<1> QED
  BY <1>1, Ownership, PTL

\* Without losses only the script of the record's own request can touch a
\* COMPLETED record, and it writes back the same record.
LEMMA CompletedStep ==
    ASSUME IndInv, [Next]_vars, NEW k \in Keys,
           store[k] # None, store[k].state = "COMPLETED", losses'[k] = 0
    PROVE  store'[k] = store[k]
<1>1. ASSUME NEW r \in Requests, CompleteScript(r) PROVE store'[k] = store[k]
  <2>1. CASE Key(r) # k
    BY <1>1, <2>1 DEF CompleteScript
  <2>2. CASE Key(r) = k
    <3>1. losses[k] = 0 /\ Active(r)
      BY <1>1, <2>2 DEF CompleteScript, Active, Keyed
    <3>2. store[k].by = r /\ readHash[r] = Body(r)
      BY <1>1, <2>2, <3>1 DEF CompleteScript, IndInv, RunningOwnsRecord
    <3>3. /\ store[k] \in Record /\ store[k].hash = Body(r)
          /\ answer[r] = [status |-> store[k].status, by |-> r]
      BY <3>1, <3>2, OwnerIsRequest DEF IndInv, RecordMatchesOwner
    <3>4. store[k] = Completed(r)
      BY <3>2, <3>3 DEF Completed, Record
    <3> QED
      BY <1>1, <2>2, <3>4 DEF CompleteScript, IndInv, TypeOK
  <2> QED
    BY <2>1, <2>2
<1>2. ASSUME NEW r \in Requests,
             \/ ReserveCreated(r) \/ ReserveUnacked(r)
             \/ ReleaseScript(r) \/ ReleaseUnacked(r)
      PROVE  store'[k] = store[k]
  BY <1>2 DEF ReserveCreated, ReserveUnacked, ReleaseScript, ReleaseUnacked, IndInv, TypeOK
<1>3. ASSUME NEW r \in Requests,
             \/ PassThrough(r) \/ BeginReserve(r) \/ RejectRequest(r)
             \/ ReserveTaken(r) \/ ReserveFails(r) \/ Replay(r)
             \/ ValidationFails(r) \/ PublishSucceeds(r) \/ PublishUnacked(r)
             \/ PublishFails(r) \/ HandlerPanics(r) \/ CompleteGet(r)
             \/ CompleteFails(r) \/ ReleaseFails(r) \/ Cancel(r) \/ Crash(r)
      PROVE  store'[k] = store[k]
  BY <1>3 DEF PassThrough, BeginReserve, RejectRequest, ReserveTaken, ReserveFails,
     Replay, ValidationFails, PublishSucceeds, PublishUnacked, PublishFails,
     HandlerPanics, CompleteGet, CompleteFails, ReleaseFails, Cancel, Crash
<1>4. ASSUME NEW j \in Keys, LoseRecord(j) PROVE store'[k] = store[k]
  <2>1. j # k
    BY <1>4 DEF LoseRecord, IndInv, TypeOK
  <2> QED
    BY <1>4, <2>1 DEF LoseRecord
<1>5. CASE UNCHANGED vars
  BY <1>5 DEF vars
<1> QED
  BY <1>1, <1>2, <1>3, <1>4, <1>5 DEF Next, Step, Quiescent

\* Without losses a COMPLETED record is never changed.
THEOREM CompletedStaysFinal == Spec => CompletedIsFinal
<1>1. IndInv /\ [Next]_vars =>
        [\A k \in Keys :
            store[k] # None /\ store[k].state = "COMPLETED" /\ losses'[k] = 0
                => store'[k] = store[k]]_vars
  BY CompletedStep
<1> QED
  BY <1>1, Ownership, PTL DEF Spec, CompletedIsFinal
=============================================================================
