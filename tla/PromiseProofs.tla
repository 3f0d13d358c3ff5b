----------------------------- MODULE PromiseProofs -----------------------------
(***************************************************************************)
(* The middleware and RedisStore implement IdempotentSubmission, for any   *)
(* finite set of requests, any keys and bodies and any number of losses:   *)
(* KeepsPromise as a theorem.                                              *)
(***************************************************************************)
EXTENDS IdempotencyProofs

(***************************************************************************)
(* The strengthening PromiseInv.                                           *)
(***************************************************************************)
\* A request is answered in the step that takes it out of the states in which
\* it has no answer.
LEMMA AnsweredStep ==
    ASSUME TypeOK, AnsweredOnce, [Next]_vars
    PROVE  AnsweredOnce'
<1> USE ConstantsAssumption DEF AnsweredOnce, TypeOK, Headers, Statuses, Record, Response, Key, Body, Keyed, Goto, Answer
<1>1. ASSUME NEW r \in Requests, PassThrough(r) PROVE AnsweredOnce'
  BY <1>1 DEF PassThrough
<1>2. ASSUME NEW r \in Requests, BeginReserve(r) PROVE AnsweredOnce'
  BY <1>2 DEF BeginReserve
<1>3. ASSUME NEW r \in Requests, RejectRequest(r) PROVE AnsweredOnce'
  BY <1>3 DEF RejectRequest
<1>4. ASSUME NEW r \in Requests, ReserveCreated(r) PROVE AnsweredOnce'
  BY <1>4 DEF ReserveCreated, InFlight
<1>5. ASSUME NEW r \in Requests, ReserveTaken(r) PROVE AnsweredOnce'
  BY <1>5 DEF ReserveTaken
<1>6. ASSUME NEW r \in Requests, ReserveUnacked(r) PROVE AnsweredOnce'
  BY <1>6 DEF ReserveUnacked, InFlight
<1>7. ASSUME NEW r \in Requests, ReserveFails(r) PROVE AnsweredOnce'
  BY <1>7 DEF ReserveFails
<1>8. ASSUME NEW r \in Requests, Replay(r) PROVE AnsweredOnce'
  BY <1>8 DEF Replay
<1>9. ASSUME NEW r \in Requests, ValidationFails(r) PROVE AnsweredOnce'
  BY <1>9 DEF ValidationFails, AfterHandler
<1>10. ASSUME NEW r \in Requests, PublishSucceeds(r) PROVE AnsweredOnce'
  BY <1>10 DEF PublishSucceeds, AfterHandler
<1>11. ASSUME NEW r \in Requests, PublishUnacked(r) PROVE AnsweredOnce'
  BY <1>11 DEF PublishUnacked
<1>12. ASSUME NEW r \in Requests, PublishFails(r) PROVE AnsweredOnce'
  BY <1>12 DEF PublishFails, AfterHandler
<1>13. ASSUME NEW r \in Requests, HandlerPanics(r) PROVE AnsweredOnce'
  BY <1>13 DEF HandlerPanics, AfterHandler
<1>14. ASSUME NEW r \in Requests, CompleteGet(r) PROVE AnsweredOnce'
  BY <1>14 DEF CompleteGet
<1>15. ASSUME NEW r \in Requests, CompleteScript(r) PROVE AnsweredOnce'
  BY <1>15 DEF CompleteScript, Completed
<1>16. ASSUME NEW r \in Requests, CompleteFails(r) PROVE AnsweredOnce'
  BY <1>16 DEF CompleteFails
<1>17. ASSUME NEW r \in Requests, ReleaseScript(r) PROVE AnsweredOnce'
  BY <1>17 DEF ReleaseScript, FinishRelease
<1>18. ASSUME NEW r \in Requests, ReleaseUnacked(r) PROVE AnsweredOnce'
  BY <1>18 DEF ReleaseUnacked
<1>19. ASSUME NEW r \in Requests, ReleaseFails(r) PROVE AnsweredOnce'
  BY <1>19 DEF ReleaseFails, FinishRelease
<1>20. ASSUME NEW r \in Requests, Cancel(r) PROVE AnsweredOnce'
  BY <1>20 DEF Cancel, Finished
<1>21. ASSUME NEW r \in Requests, Crash(r) PROVE AnsweredOnce'
  BY <1>21 DEF Crash, Finished
<1>22. ASSUME NEW k \in Keys, LoseRecord(k) PROVE AnsweredOnce'
  BY <1>22 DEF LoseRecord
<1>23. CASE UNCHANGED vars
  BY <1>23 DEF vars
<1> HIDE DEF AnsweredOnce, TypeOK, Headers, Statuses, Record, Response, Key, Body, Keyed, Goto, Answer
<1> QED
  BY <1>1, <1>2, <1>3, <1>4, <1>5, <1>6, <1>7, <1>8, <1>9, <1>10, <1>11, <1>12,
     <1>13, <1>14, <1>15, <1>16, <1>17, <1>18, <1>19, <1>20, <1>21, <1>22, <1>23
  DEF Next, Step, Quiescent

\* SET NX stores the hash of the request's own body, Complete the one it read.
LEMMA HashesStep ==
    ASSUME TypeOK, HashesAreUsed, [Next]_vars
    PROVE  HashesAreUsed'
<1> USE ConstantsAssumption DEF HashesAreUsed, TypeOK, Headers, Statuses, Record, Response, Key, Body, Keyed, Goto, Answer
<1>1. ASSUME NEW r \in Requests, PassThrough(r) PROVE HashesAreUsed'
  BY <1>1 DEF PassThrough
<1>2. ASSUME NEW r \in Requests, BeginReserve(r) PROVE HashesAreUsed'
  BY <1>2 DEF BeginReserve
<1>3. ASSUME NEW r \in Requests, RejectRequest(r) PROVE HashesAreUsed'
  BY <1>3 DEF RejectRequest
<1>4. ASSUME NEW r \in Requests, ReserveCreated(r) PROVE HashesAreUsed'
  BY <1>4 DEF ReserveCreated, InFlight
<1>5. ASSUME NEW r \in Requests, ReserveTaken(r) PROVE HashesAreUsed'
  BY <1>5 DEF ReserveTaken
<1>6. ASSUME NEW r \in Requests, ReserveUnacked(r) PROVE HashesAreUsed'
  BY <1>6 DEF ReserveUnacked, InFlight
<1>7. ASSUME NEW r \in Requests, ReserveFails(r) PROVE HashesAreUsed'
  BY <1>7 DEF ReserveFails
<1>8. ASSUME NEW r \in Requests, Replay(r) PROVE HashesAreUsed'
  BY <1>8 DEF Replay
<1>9. ASSUME NEW r \in Requests, ValidationFails(r) PROVE HashesAreUsed'
  BY <1>9 DEF ValidationFails, AfterHandler
<1>10. ASSUME NEW r \in Requests, PublishSucceeds(r) PROVE HashesAreUsed'
  BY <1>10 DEF PublishSucceeds, AfterHandler
<1>11. ASSUME NEW r \in Requests, PublishUnacked(r) PROVE HashesAreUsed'
  BY <1>11 DEF PublishUnacked
<1>12. ASSUME NEW r \in Requests, PublishFails(r) PROVE HashesAreUsed'
  BY <1>12 DEF PublishFails, AfterHandler
<1>13. ASSUME NEW r \in Requests, HandlerPanics(r) PROVE HashesAreUsed'
  BY <1>13 DEF HandlerPanics, AfterHandler
<1>14. ASSUME NEW r \in Requests, CompleteGet(r) PROVE HashesAreUsed'
  BY <1>14 DEF CompleteGet
<1>15. ASSUME NEW r \in Requests, CompleteScript(r) PROVE HashesAreUsed'
  BY <1>15 DEF CompleteScript, Completed
<1>16. ASSUME NEW r \in Requests, CompleteFails(r) PROVE HashesAreUsed'
  BY <1>16 DEF CompleteFails
<1>17. ASSUME NEW r \in Requests, ReleaseScript(r) PROVE HashesAreUsed'
  BY <1>17 DEF ReleaseScript, FinishRelease
<1>18. ASSUME NEW r \in Requests, ReleaseUnacked(r) PROVE HashesAreUsed'
  BY <1>18 DEF ReleaseUnacked
<1>19. ASSUME NEW r \in Requests, ReleaseFails(r) PROVE HashesAreUsed'
  BY <1>19 DEF ReleaseFails, FinishRelease
<1>20. ASSUME NEW r \in Requests, Cancel(r) PROVE HashesAreUsed'
  BY <1>20 DEF Cancel, Finished
<1>21. ASSUME NEW r \in Requests, Crash(r) PROVE HashesAreUsed'
  BY <1>21 DEF Crash, Finished
<1>22. ASSUME NEW k \in Keys, LoseRecord(k) PROVE HashesAreUsed'
  BY <1>22 DEF LoseRecord
<1>23. CASE UNCHANGED vars
  BY <1>23 DEF vars
<1> HIDE DEF HashesAreUsed, TypeOK, Headers, Statuses, Record, Response, Key, Body, Keyed, Goto, Answer
<1> QED
  BY <1>1, <1>2, <1>3, <1>4, <1>5, <1>6, <1>7, <1>8, <1>9, <1>10, <1>11, <1>12,
     <1>13, <1>14, <1>15, <1>16, <1>17, <1>18, <1>19, <1>20, <1>21, <1>22, <1>23
  DEF Next, Step, Quiescent

\* Without losses the handler runs for the owner of the record alone, and nothing
\* removes or overwrites the record of a request that settled its key.
LEMMA SettlerStep ==
    ASSUME IndInv, AnsweredOnce, SettlerOwnsRecord, [Next]_vars
    PROVE  SettlerOwnsRecord'
<1> USE ConstantsAssumption DEF IndInv, RecordMatchesOwner, RunningOwnsRecord, AnsweredOnce,
           SettlerOwnsRecord, Settlers, Void, Active, TypeOK, Headers, Statuses, Record, Response, Key, Body, Keyed, Goto, Answer
<1>1. ASSUME NEW r \in Requests, PassThrough(r) PROVE SettlerOwnsRecord'
  BY <1>1 DEF PassThrough
<1>2. ASSUME NEW r \in Requests, BeginReserve(r) PROVE SettlerOwnsRecord'
  BY <1>2 DEF BeginReserve
<1>3. ASSUME NEW r \in Requests, RejectRequest(r) PROVE SettlerOwnsRecord'
  BY <1>3 DEF RejectRequest
<1>4. ASSUME NEW r \in Requests, ReserveCreated(r) PROVE SettlerOwnsRecord'
  BY <1>4 DEF ReserveCreated, InFlight
<1>5. ASSUME NEW r \in Requests, ReserveTaken(r) PROVE SettlerOwnsRecord'
  BY <1>5 DEF ReserveTaken
<1>6. ASSUME NEW r \in Requests, ReserveUnacked(r) PROVE SettlerOwnsRecord'
  BY <1>6 DEF ReserveUnacked, InFlight
<1>7. ASSUME NEW r \in Requests, ReserveFails(r) PROVE SettlerOwnsRecord'
  BY <1>7 DEF ReserveFails
<1>8. ASSUME NEW r \in Requests, Replay(r) PROVE SettlerOwnsRecord'
  BY <1>8 DEF Replay
<1>9. ASSUME NEW r \in Requests, ValidationFails(r) PROVE SettlerOwnsRecord'
  BY <1>9 DEF ValidationFails, AfterHandler
<1>10. ASSUME NEW r \in Requests, PublishSucceeds(r) PROVE SettlerOwnsRecord'
  BY <1>10 DEF PublishSucceeds, AfterHandler
<1>11. ASSUME NEW r \in Requests, PublishUnacked(r) PROVE SettlerOwnsRecord'
  BY <1>11 DEF PublishUnacked
<1>12. ASSUME NEW r \in Requests, PublishFails(r) PROVE SettlerOwnsRecord'
  BY <1>12 DEF PublishFails, AfterHandler
<1>13. ASSUME NEW r \in Requests, HandlerPanics(r) PROVE SettlerOwnsRecord'
  BY <1>13 DEF HandlerPanics, AfterHandler
<1>14. ASSUME NEW r \in Requests, CompleteGet(r) PROVE SettlerOwnsRecord'
  BY <1>14 DEF CompleteGet
<1>15. ASSUME NEW r \in Requests, CompleteScript(r) PROVE SettlerOwnsRecord'
  BY <1>15 DEF CompleteScript, Completed
<1>16. ASSUME NEW r \in Requests, CompleteFails(r) PROVE SettlerOwnsRecord'
  BY <1>16 DEF CompleteFails
<1>17. ASSUME NEW r \in Requests, ReleaseScript(r) PROVE SettlerOwnsRecord'
  BY <1>17 DEF ReleaseScript, FinishRelease
<1>18. ASSUME NEW r \in Requests, ReleaseUnacked(r) PROVE SettlerOwnsRecord'
  BY <1>18 DEF ReleaseUnacked
<1>19. ASSUME NEW r \in Requests, ReleaseFails(r) PROVE SettlerOwnsRecord'
  BY <1>19 DEF ReleaseFails, FinishRelease
<1>20. ASSUME NEW r \in Requests, Cancel(r) PROVE SettlerOwnsRecord'
  BY <1>20 DEF Cancel, Finished
<1>21. ASSUME NEW r \in Requests, Crash(r) PROVE SettlerOwnsRecord'
  BY <1>21 DEF Crash, Finished
<1>22. ASSUME NEW k \in Keys, LoseRecord(k) PROVE SettlerOwnsRecord'
  BY <1>22 DEF LoseRecord
<1>23. CASE UNCHANGED vars
  BY <1>23 DEF vars
<1> HIDE DEF IndInv, RecordMatchesOwner, RunningOwnsRecord, AnsweredOnce,
           SettlerOwnsRecord, Settlers, Void, Active, TypeOK, Headers, Statuses, Record, Response, Key, Body, Keyed, Goto, Answer
<1> QED
  BY <1>1, <1>2, <1>3, <1>4, <1>5, <1>6, <1>7, <1>8, <1>9, <1>10, <1>11, <1>12,
     <1>13, <1>14, <1>15, <1>16, <1>17, <1>18, <1>19, <1>20, <1>21, <1>22, <1>23
  DEF Next, Step, Quiescent

\* The invariant of the refinement holds in every reachable state.
THEOREM PromiseInvariant == Spec => []PromiseInv
<1>1. Init => PromiseInv
  BY DEF Init, PromiseInv, AnsweredOnce, SettlerOwnsRecord, Settlers, HashesAreUsed
<1>2. IndInv /\ PromiseInv /\ [Next]_vars => PromiseInv'
  BY AnsweredStep, HashesStep, SettlerStep DEF PromiseInv, IndInv
<1> QED
  BY <1>1, <1>2, Ownership, PTL DEF Spec

(***************************************************************************)
(* The refinement mapping: how Outcome and Void change.                    *)
(***************************************************************************)
\* The outcome of a key depends on its settlers and on whether it is void.
LEMMA OutcomeKept ==
    ASSUME Void' = Void, \A k \in Keys : Settlers(k)' = Settlers(k)
    PROVE  Outcome' = Outcome
  BY DEF Outcome

\* A step that answers nobody and loses nothing is a stutter of the promise.
LEMMA QuietStep ==
    ASSUME UNCHANGED <<req, answer, losses>>
    PROVE  UNCHANGED Promise!vars
<1>1. Void' = Void
  BY DEF Void
<1>2. \A k \in Keys : Settlers(k)' = Settlers(k)
  BY DEF Settlers, Key
<1> QED
  BY <1>1, <1>2, OutcomeKept DEF Promise!vars

\* An answer adds its request to the settlers of its key if it is the request's
\* own and below 500, and to no others.
LEMMA SettlersAfter ==
    ASSUME NEW r \in Requests, NEW s \in Statuses,
           NEW p \in Requests \cup {None}, answer[r] = None, TypeOK,
           Answer(r, s, p), UNCHANGED req, NEW k \in Keys
    PROVE  Settlers(k)' = IF k = Key(r) /\ p = r /\ s # 500
                          THEN Settlers(k) \cup {r} ELSE Settlers(k)
<1>1. \A q \in Requests \ {r} : answer'[q] = answer[q]
  BY DEF Answer, TypeOK
<1>2. answer'[r] = [status |-> s, by |-> p] /\ answer'[r] # None
  BY ConstantsAssumption DEF Answer, TypeOK, Response
<1>3. \A q \in Requests : Key(q)' = Key(q)
  BY DEF Key
<1>4. r \in Settlers(k)' <=> k = Key(r) /\ p = r /\ s # 500
  BY <1>2, <1>3 DEF Settlers
<1>5. r \notin Settlers(k)
  BY DEF Settlers
<1>6. \A q \in Requests \ {r} : q \in Settlers(k)' <=> q \in Settlers(k)
  BY <1>1, <1>3 DEF Settlers
<1>7. Settlers(k)' \subseteq Requests /\ Settlers(k) \subseteq Requests
  BY DEF Settlers
<1> QED
  BY <1>4, <1>5, <1>6, <1>7

\* An answer that does not settle a key leaves the outcomes alone.
LEMMA ReplyStep ==
    ASSUME NEW r \in Requests, NEW s \in Statuses,
           NEW p \in Requests \cup {None}, answer[r] = None, TypeOK,
           Answer(r, s, p), UNCHANGED <<req, losses>>,
           p # r \/ s = 500 \/ Key(r) \notin Keys \ Void
    PROVE  Promise!Reply(r, s, p) /\ Outcome' = Outcome /\ Void' = Void
<1>1. Void' = Void
  BY DEF Void
<1>2. \A k \in Keys \ Void : Settlers(k)' = Settlers(k)
  BY SettlersAfter
<1>3. Outcome' = Outcome
  BY <1>1, <1>2 DEF Outcome
<1> QED
  BY <1>1, <1>3 DEF Promise!Reply, Answer

\* The first answer of a handler under a key settles it.
LEMMA SettleStep ==
    ASSUME NEW r \in Requests, NEW s \in {202, 400}, answer[r] = None, TypeOK,
           Answer(r, s, r), UNCHANGED <<req, losses>>, s = Promise!Verdict(r),
           Key(r) \in Keys \ Void, Settlers(Key(r)) = {}
    PROVE  Promise!Settle(r)
<1> PICK k \in Keys \ Void : k = Key(r)
  OBVIOUS
<1> USE DEF Statuses
<1>1. Void' = Void
  BY DEF Void
<1>2. Settlers(k)' = {r} /\ The({r}) = r
  BY SettlersAfter DEF The
<1>3. \A j \in Keys \ {k} : Settlers(j)' = Settlers(j)
  BY SettlersAfter
<1>4. Outcome[k] = None
  BY DEF Outcome
<1>5. Outcome' = [Outcome EXCEPT ![k] = r]
  <2>1. Outcome'[k] = r
    BY <1>1, <1>2 DEF Outcome
  <2>2. \A j \in Keys \ {k} : Outcome'[j] = Outcome[j]
    BY <1>1, <1>3 DEF Outcome
  <2>3. /\ Outcome' = [j \in Keys |-> Outcome'[j]]
        /\ Outcome = [j \in Keys |-> Outcome[j]]
    BY DEF Outcome
  <2> QED
    BY <2>1, <2>2, <2>3
<1>6. Promise!Reply(r, s, r)
  BY <1>1 DEF Promise!Reply, Answer
<1> QED
  BY <1>4, <1>5, <1>6 DEF Promise!Settle, Promise!Key, Key

\* A loss makes the promise for its key void.
LEMMA ForgetStep ==
    ASSUME NEW k \in Keys, TypeOK, losses' = [losses EXCEPT ![k] = @ + 1],
           UNCHANGED <<req, answer>>
    PROVE  Promise!Forget(k)
<1>1. Void' = Void \cup {k}
  BY DEF Void, TypeOK
<1>2. \A j \in Keys : Settlers(j)' = Settlers(j)
  BY DEF Settlers, Key
<1>3. Outcome' = [Outcome EXCEPT ![k] = None]
  BY <1>1, <1>2 DEF Outcome
<1> QED
  BY <1>1, <1>3 DEF Promise!Forget

(***************************************************************************)
(* Every step of the middleware is a step of the promise or a stutter.     *)
(***************************************************************************)
\* The handler answers below 500: the request settles its key, or the key is
\* absent or void.
LEMMA HandlerAnswers ==
    ASSUME IndInv, PromiseInv, NEW r \in Requests,
           ValidationFails(r) \/ PublishSucceeds(r)
    PROVE  Promise!Next
<1>1. PICK s \in {202, 400} : Answer(r, s, r) /\ s = Promise!Verdict(r)
  BY DEF ValidationFails, PublishSucceeds, Promise!Verdict, Promise!Body, Body
<1>2. pc[r] = "handle" /\ UNCHANGED <<req, losses>>
  BY DEF ValidationFails, PublishSucceeds
<1>3. answer[r] = None /\ TypeOK
  BY <1>2 DEF PromiseInv, AnsweredOnce, IndInv
<1>4. CASE Key(r) \in Keys \ Void
  <2>1. losses[Key(r)] = 0 /\ Active(r)
    BY <1>2, <1>3, <1>4 DEF Void, TypeOK, Active, Keyed
  <2>2. store[Key(r)].by = r
    BY <2>1 DEF IndInv, RunningOwnsRecord
  <2>3. Settlers(Key(r)) = {}
    BY <1>3, <1>4, <2>2 DEF PromiseInv, SettlerOwnsRecord, Settlers
  <2> QED
    BY <1>1, <1>2, <1>3, <1>4, <2>3, SettleStep DEF Promise!Next
<1>5. CASE Key(r) \notin Keys \ Void
  <2>1. Promise!Unprotected(r)
    BY <1>1, <1>2, <1>3, <1>5, ReplyStep DEF Statuses, Promise!Unprotected, Promise!Key, Key
  <2> QED
    BY <2>1 DEF Promise!Next
<1> QED
  BY <1>4, <1>5

\* The middleware answers from the record: a conflict, a mismatch that some
\* request with the key explains, or the outcome of the key.
LEMMA ReplayAnswers ==
    ASSUME IndInv, PromiseInv, NEW r \in Requests, Replay(r)
    PROVE  Promise!Next
<1> DEFINE k == Key(r)
           rec == store[k]
           o == rec.by
<1>1. /\ pc[r] = "lookup" /\ rec # None /\ UNCHANGED <<req, losses>>
      /\ k \in Keys /\ answer[r] = None /\ TypeOK
  BY DEF Replay, PromiseInv, AnsweredOnce, IndInv, TypeOK, Keyed
<1>2. o \in Requests /\ Key(o) = k /\ rec \in Record
  BY <1>1, OwnerIsRequest
<1>3. CASE rec.hash # Body(r) /\ Answer(r, 422, None)
  <2>1. PICK q \in Requests : Key(q) = k /\ Body(q) = rec.hash
    BY <1>1 DEF PromiseInv, HashesAreUsed
  <2>2. Promise!Reply(r, 422, None) /\ Outcome' = Outcome
    BY <1>1, <1>3, ConstantsAssumption, ReplyStep DEF Statuses
  <2>3. Promise!Refuse(r)
    BY <1>3, <2>1, <2>2 DEF Promise!Refuse, Promise!Key, Promise!Body, Key, Body
  <2> QED
    BY <2>3 DEF Promise!Next
<1>4. CASE Answer(r, 409, None)
  <2>1. Promise!Reply(r, 409, None) /\ Outcome' = Outcome
    BY <1>1, <1>4, ConstantsAssumption, ReplyStep DEF Statuses
  <2> QED
    BY <2>1 DEF Promise!Refuse, Promise!Next, Statuses
<1>5. CASE /\ rec.hash = Body(r) /\ rec.state = "COMPLETED"
           /\ Answer(r, rec.status, o)
  <2>1. /\ answer[o] = [status |-> rec.status, by |-> o] /\ answer[o] # None
        /\ o # r
    BY <1>1, <1>2, <1>5, ConstantsAssumption
    DEF IndInv, RecordMatchesOwner, Response, TypeOK, Statuses, Record
  <2>2. Promise!Reply(r, rec.status, o) /\ Outcome' = Outcome
    BY <1>1, <1>2, <1>5, <2>1, ReplyStep DEF Record, Statuses
  <2>3. CASE k \in Void
    <3>1. Promise!RepeatAny(r)
      BY <1>2, <2>1, <2>2, <2>3 DEF Promise!RepeatAny, Promise!Key, Key
    <3> QED
      BY <3>1 DEF Promise!Next
  <2>4. CASE k \notin Void
    <3>1. losses[k] = 0 /\ Body(o) = Body(r)
      BY <1>1, <1>2, <1>5, <2>4, OwnerIsRequest DEF Void, TypeOK
    <3>2. o \in Settlers(k)
      BY <1>2, <1>5, <2>1 DEF Settlers, Record
    <3>3. Settlers(k) = {o}
      BY <1>1, <2>4, <3>2 DEF PromiseInv, SettlerOwnsRecord
    <3>4. Outcome[k] = o /\ o # None
      BY <1>1, <1>2, <2>4, <3>3, ConstantsAssumption DEF Outcome, The
    <3>5. Promise!Repeat(r)
      BY <1>1, <2>1, <2>2, <2>4, <3>1, <3>4
      DEF Promise!Repeat, Promise!Key, Promise!Body, Key, Body
    <3> QED
      BY <3>5 DEF Promise!Next
  <2> QED
    BY <2>3, <2>4
<1> QED
  BY <1>3, <1>4, <1>5 DEF Replay

\* A refusal by the middleware, or a failure of the handler.
LEMMA Refusal ==
    ASSUME TypeOK, AnsweredOnce, NEW r \in Requests,
           pc[r] \in {"idle", "reserve", "lookup", "handle", "unwind"},
           \/ Answer(r, 400, None) \/ Answer(r, 500, None) \/ Answer(r, 500, r),
           UNCHANGED <<req, losses>>
    PROVE  Promise!Next
<1>1. answer[r] = None
  BY DEF AnsweredOnce
<1>2. CASE Answer(r, 400, None)
  BY <1>1, <1>2, ReplyStep, ConstantsAssumption DEF Promise!Refuse, Promise!Next, Statuses
<1>3. CASE Answer(r, 500, None)
  BY <1>1, <1>3, ReplyStep, ConstantsAssumption DEF Promise!Refuse, Promise!Next, Statuses
<1>4. CASE Answer(r, 500, r)
  BY <1>1, <1>4, ReplyStep DEF Promise!Refuse, Promise!Next, Statuses
<1> QED
  BY <1>2, <1>3, <1>4

LEMMA PromiseStep ==
    ASSUME IndInv, PromiseInv, [Next]_vars
    PROVE  [Promise!Next]_(Promise!vars)
<1> USE DEF IndInv, PromiseInv
<1>1. ASSUME NEW r \in Requests,
             \/ PassThrough(r) \/ BeginReserve(r) \/ ReserveCreated(r)
             \/ ReserveTaken(r) \/ PublishUnacked(r) \/ CompleteGet(r)
             \/ CompleteScript(r) \/ CompleteFails(r) \/ Cancel(r) \/ Crash(r)
      PROVE  UNCHANGED Promise!vars
  <2>1. UNCHANGED <<req, answer, losses>>
    BY <1>1 DEF PassThrough, BeginReserve, ReserveCreated, ReserveTaken,
       PublishUnacked, CompleteGet, CompleteScript, CompleteFails, Cancel, Crash
  <2> QED
    BY <2>1, QuietStep
<1>2. ASSUME NEW r \in Requests, RejectRequest(r) PROVE Promise!Next
  BY <1>2, Refusal DEF RejectRequest
<1>3. ASSUME NEW r \in Requests, ReserveUnacked(r)
      PROVE  Promise!Next \/ UNCHANGED Promise!vars
  BY <1>3, Refusal, QuietStep DEF ReserveUnacked
<1>4. ASSUME NEW r \in Requests, ReserveFails(r) PROVE Promise!Next
  BY <1>4, Refusal DEF ReserveFails
<1>5. ASSUME NEW r \in Requests, Replay(r) PROVE Promise!Next
  BY <1>5, ReplayAnswers
<1>6. ASSUME NEW r \in Requests, ValidationFails(r) \/ PublishSucceeds(r)
      PROVE  Promise!Next
  BY <1>6, HandlerAnswers
<1>7. ASSUME NEW r \in Requests, PublishFails(r) PROVE Promise!Next
  BY <1>7, Refusal DEF PublishFails
<1>8. ASSUME NEW r \in Requests, HandlerPanics(r)
      PROVE  Promise!Next \/ UNCHANGED Promise!vars
  BY <1>8, Refusal, QuietStep DEF HandlerPanics
<1>9. ASSUME NEW r \in Requests, ReleaseScript(r) \/ ReleaseFails(r)
      PROVE  Promise!Next \/ UNCHANGED Promise!vars
  <2>1. UNCHANGED <<req, losses>> /\ FinishRelease(r)
    BY <1>9 DEF ReleaseScript, ReleaseFails
  <2> QED
    BY <2>1, Refusal, QuietStep DEF FinishRelease
<1>10. ASSUME NEW r \in Requests, ReleaseUnacked(r) PROVE Promise!Next
  <2>1. Key(r) \in Keys
    BY <1>10 DEF ReleaseUnacked, TypeOK, Keyed
  <2>2. Promise!Forget(Key(r))
    BY <1>10, <2>1, ForgetStep DEF ReleaseUnacked
  <2> QED
    BY <2>1, <2>2 DEF Promise!Next
<1>11. ASSUME NEW k \in Keys, LoseRecord(k) PROVE Promise!Next
  BY <1>11, ForgetStep DEF LoseRecord, Promise!Next
<1>12. CASE UNCHANGED vars
  BY <1>12, QuietStep DEF vars
<1> HIDE DEF IndInv, PromiseInv
<1> QED
  BY <1>1, <1>2, <1>3, <1>4, <1>5, <1>6, <1>7, <1>8, <1>9, <1>10, <1>11, <1>12
  DEF Next, Step, Quiescent

\* The middleware keeps the promise: its behaviours, seen through Outcome and
\* Void, are behaviours of IdempotentSubmission.
THEOREM MiddlewareKeepsPromise == Spec => KeepsPromise
<1>1. Init => Promise!Init
  <2> SUFFICES ASSUME Init PROVE Promise!Init
    OBVIOUS
  <2>1. Void = {}
    BY DEF Init, Void
  <2>2. \A k \in Keys : Settlers(k) = {}
    BY DEF Init, Settlers
  <2>3. Outcome = [k \in Keys |-> None]
    BY <2>1, <2>2 DEF Outcome
  <2> QED
    BY <2>1, <2>3 DEF Init, Promise!Init, Headers
<1>2. IndInv /\ PromiseInv /\ [Next]_vars => [Promise!Next]_(Promise!vars)
  BY PromiseStep
<1> QED
  BY <1>1, <1>2, Ownership, PromiseInvariant, PTL DEF Spec, KeepsPromise, Promise!Spec

-----------------------------------------------------------------------------
(***************************************************************************)
(* What the promise entails, argued from IdempotentSubmission alone.       *)
(***************************************************************************)
\* A key was settled by a request that used it, and what a reply repeats was
\* given under the same key, to the same body while the promise stands.
PromisedReplies ==
    /\ answer = [r \in Requests |-> answer[r]]
    /\ \A k \in Keys : Outcome[k] # None =>
          Outcome[k] \in Requests /\ Key(Outcome[k]) = k
    /\ \A r \in Requests : answer[r] # None /\ answer[r].by # None =>
          /\ Key(answer[r].by) = Key(r)
          /\ Key(r) \in Keys \ Void => Body(answer[r].by) = Body(r)

\* A reply that keeps the invariant, whatever it does to the outcomes.
LEMMA PromisedReply ==
    ASSUME PromisedReplies, NEW r \in Requests, NEW status, NEW by,
           Promise!Reply(r, status, by),
           \A k \in Keys : Outcome'[k] # None =>
              Outcome'[k] \in Requests /\ Key(Outcome'[k]) = k,
           by # None =>
              /\ Key(by) = Key(r)
              /\ Key(r) \in Keys \ Void => Body(by) = Body(r)
    PROVE  PromisedReplies'
<1>1. /\ answer' = [answer EXCEPT ![r] = [status |-> status, by |-> by]]
      /\ UNCHANGED <<req, Void>>
  BY DEF Promise!Reply
<1>2. ASSUME NEW q \in Requests
      PROVE  answer'[q] = IF q = r THEN [status |-> status, by |-> by] ELSE answer[q]
  BY <1>1 DEF PromisedReplies
<1>3. answer' = [q \in Requests |-> answer'[q]]
  BY <1>1 DEF PromisedReplies
<1> QED
  BY <1>1, <1>2, <1>3 DEF PromisedReplies, Key, Body

LEMMA NextPromisedReplies ==
    PromisedReplies /\ [Promise!Next]_(Promise!vars) => PromisedReplies'
<1> SUFFICES ASSUME PromisedReplies, [Promise!Next]_(Promise!vars)
             PROVE  PromisedReplies'
  OBVIOUS
<1> DEFINE Settled(f) == \A k \in Keys : f[k] # None => f[k] \in Requests /\ Key(f[k]) = k
<1>0. Settled(Outcome) /\ Outcome = [k \in Keys |-> Outcome[k]]
  BY DEF PromisedReplies, Outcome
<1>1. ASSUME NEW r \in Requests, Promise!Settle(r) PROVE PromisedReplies'
  <2>1. /\ Promise!Reply(r, Promise!Verdict(r), r)
        /\ Outcome' = [Outcome EXCEPT ![Key(r)] = r] /\ Key(r) \in Keys
    BY <1>1 DEF Promise!Settle, Promise!Key, Key
  <2>2. Settled(Outcome')
    BY <1>0, <2>1
  <2> HIDE DEF Settled
  <2> QED
    BY <2>1, <2>2, PromisedReply DEF Settled
<1>2. ASSUME NEW r \in Requests, Promise!Repeat(r) PROVE PromisedReplies'
  <2> DEFINE o == Outcome[Key(r)]
  <2>1. /\ Promise!Reply(r, answer[o].status, o) /\ Outcome' = Outcome
        /\ Key(r) \in Keys /\ o # None /\ Body(r) = Body(o)
    BY <1>2 DEF Promise!Repeat, Promise!Key, Promise!Body, Key, Body
  <2> QED
    BY <1>0, <2>1, PromisedReply
<1>3. ASSUME NEW r \in Requests, Promise!Unprotected(r) PROVE PromisedReplies'
  BY <1>0, <1>3, PromisedReply DEF Promise!Unprotected
<1>4. ASSUME NEW r \in Requests, Promise!RepeatAny(r) PROVE PromisedReplies'
  <2>1. PICK q \in Requests : Key(q) = Key(r) /\ Promise!Reply(r, answer[q].status, q)
    BY <1>4 DEF Promise!RepeatAny, Promise!Key, Key
  <2>2. Key(r) \in Void /\ Outcome' = Outcome
    BY <1>4 DEF Promise!RepeatAny, Promise!Key, Key
  <2> QED
    BY <1>0, <2>1, <2>2, PromisedReply
<1>5. ASSUME NEW r \in Requests, Promise!Refuse(r) PROVE PromisedReplies'
  <2>1. Outcome' = Outcome
    BY <1>5 DEF Promise!Refuse
  <2>2. \/ Promise!Reply(r, 500, r) \/ Promise!Reply(r, 422, None)
        \/ \E status \in {400, 409, 500} : Promise!Reply(r, status, None)
    BY <1>5 DEF Promise!Refuse
  <2> QED
    BY <1>0, <2>1, <2>2, PromisedReply
<1>6. ASSUME NEW k \in Keys, Promise!Forget(k) PROVE PromisedReplies'
  <2>1. /\ Void' = Void \cup {k} /\ Outcome' = [Outcome EXCEPT ![k] = None]
        /\ UNCHANGED <<req, answer>>
    BY <1>6 DEF Promise!Forget
  <2>2. Settled(Outcome')
    BY <1>0, <2>1
  <2> QED
    BY <2>1, <2>2 DEF PromisedReplies, Key, Body
<1>7. CASE UNCHANGED Promise!vars
  BY <1>7 DEF Promise!vars, PromisedReplies, Key, Body
<1> QED
  BY <1>1, <1>2, <1>3, <1>4, <1>5, <1>6, <1>7 DEF Promise!Next

\* Whatever keeps the promise replays a response to the same key and body only:
\* the 422 check of replayCachedResponse is part of what KeepsPromise says.
THEOREM PromiseMatchesBodies == KeepsPromise => []ReplayOfSameBody
<1>1. Promise!Init => PromisedReplies
  BY DEF Promise!Init, PromisedReplies
<1>2. PromisedReplies => ReplayOfSameBody
  BY DEF PromisedReplies, ReplayOfSameBody, Void, Keyed
<1> QED
  BY <1>1, <1>2, NextPromisedReplies, PTL DEF KeepsPromise, Promise!Spec
=============================================================================
