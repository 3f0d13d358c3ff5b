--------------------------- MODULE ScaffolderProofs ---------------------------
(***************************************************************************)
(* Proofs about Scaffolder, for any number of workers, tasks, names and    *)
(* requests, any Ttl, and any bound on receives, disruptions and the       *)
(* clock.                                                                  *)
(***************************************************************************)
EXTENDS ScaffolderRefinement, TLAPS

-----------------------------------------------------------------------------
(***************************************************************************)
(* Types.                                                                  *)
(***************************************************************************)
\* A reservation asks for a name on behalf of a request.
LEMMA PayloadFields ==
  ASSUME TypeOK, NEW t \in Tasks, Kind(t) = "reserve"
  PROVE  Name(t) \in Names /\ Request(t) \in Requests
  BY DEF TypeOK, Payload, Kind, Name, Request

\* What a write leaves in the table has the type of an item.
LEMMA WriteType ==
  ASSUME TypeOK, NEW t \in Tasks, Kind(t) = "reserve", NEW time \in Nat, Write(t, time)
  PROVE  reservation' \in [Names -> Reservation \cup {None}]
<1>1. [by |-> Request(t), until |-> time] \in Reservation
  BY PayloadFields DEF Reservation
<1> QED
  BY <1>1 DEF Write, TypeOK

\* What SQS keeps of messages it hands out has its type.
LEMMA HandOutType ==
  ASSUME TypeOK, NEW w \in Workers, NEW ms \in Batches, HandOut(ms, w)
  PROVE  /\ receives' \in [Tasks -> 0..MaxReceives]
         /\ queue' \in [Tasks -> {"visible", "inflight", "deleted", "dead"}]
         /\ receiver' \in [Tasks -> Workers \cup {None}]
         /\ \A t \in Tasks : queue'[t] = "deleted" => queue[t] = "deleted"
<1>1. \A t \in ms : t \in Tasks /\ receives[t] + 1 \in 0..MaxReceives
  BY ConstantsAssumption DEF Batches, Receivable, TypeOK
<1> QED
  BY <1>1 DEF HandOut, TypeOK

LEMMA InitType == Init => TypeOK
  BY ConstantsAssumption DEF Init, TypeOK, Down

LEMMA StutterType == TypeOK /\ UNCHANGED vars => TypeOK'
  BY DEF TypeOK, vars, sqsVars, sfnVars, workerVars, tableVars, Kind

LEMMA NextType == TypeOK /\ Next => TypeOK'
<1> SUFFICES ASSUME TypeOK, Next PROVE TypeOK'
  OBVIOUS
<1> USE ConstantsAssumption
<1>a. ASSUME NEW w \in Workers, Resolve(w) PROVE TypeOK'
  BY <1>a DEF Resolve, TypeOK, Goto, Down, Kind, sqsVars, sfnVars, tableVars
<1>b. ASSUME NEW w \in Workers, Receive(w) PROVE TypeOK'
  <2>1. PICK ms \in Batches : HandOut(ms, w) /\ batch' = [batch EXCEPT ![w] = ms]
    BY <1>b DEF Receive
  <2>2. ms \subseteq Tasks
    BY DEF Batches, Receivable
  <2>3. /\ receives' \in [Tasks -> 0..MaxReceives]
        /\ batch' \in [Workers -> SUBSET Tasks]
        /\ queue' \in [Tasks -> {"visible", "inflight", "deleted", "dead"}]
        /\ receiver' \in [Tasks -> Workers \cup {None}]
    BY <2>1, <2>2, HandOutType DEF TypeOK
  <2>4. /\ pc' = [pc EXCEPT ![w] = "batch"]
        /\ UNCHANGED <<work, token, granted, current, until, stopping, reservation,
                       lapsed, now, disruptions>>
    BY <1>b DEF Receive, Goto, sfnVars, tableVars
  <2> QED
    BY <2>3, <2>4 DEF TypeOK, Down, Kind
<1>c. ASSUME NEW w \in Workers, ReceiveNothing(w) PROVE TypeOK'
  BY <1>c, StutterType DEF ReceiveNothing
<1>d. ASSUME NEW w \in Workers, ReceiveThrows(w) PROVE TypeOK'
  BY <1>d DEF ReceiveThrows, TypeOK, Goto, Down, Kind, sqsVars, sfnVars, tableVars
<1>e. ASSUME NEW w \in Workers, Leave(w) PROVE TypeOK'
  BY <1>e DEF Leave, TypeOK, Goto, Down, Kind, sqsVars, sfnVars, tableVars
<1>f. ASSUME NEW w \in Workers, BatchDone(w) PROVE TypeOK'
  BY <1>f DEF BatchDone, TypeOK, Goto, Down, Kind, sqsVars, sfnVars, tableVars
<1>g. ASSUME NEW w \in Workers, Read(w) PROVE TypeOK'
  <2>1. PICK t \in batch[w] :
          /\ batch' = [batch EXCEPT ![w] = @ \ {t}]
          /\ \/ Kind(t) = "unreadable" /\ UNCHANGED <<pc, current>>
             \/ /\ Kind(t) # "unreadable" /\ pc' = [pc EXCEPT ![w] = "dispatch"]
                /\ current' = [current EXCEPT ![w] = t]
    BY <1>g DEF Read, Goto
  <2>2. t \in Tasks
    BY <2>1 DEF TypeOK
  <2>3. UNCHANGED <<work, queue, receives, receiver, token, granted, until,
                    stopping, reservation, lapsed, now, disruptions>>
    BY <1>g DEF Read, sqsVars, sfnVars, tableVars
  <2> QED
    BY <2>1, <2>2, <2>3 DEF TypeOK, Down, Kind
<1>h. ASSUME NEW w \in Workers, Dispatch(w) PROVE TypeOK'
  <2>1. /\ pc[w] = "dispatch"
        /\ UNCHANGED <<work, queue, receives, receiver, token, granted, batch,
                       stopping, reservation, lapsed, now, disruptions>>
    BY <1>h DEF Dispatch, sqsVars, sfnVars, tableVars
  <2>2. CASE Kind(current[w]) = "reserve"
    BY <1>h, <2>1, <2>2 DEF Dispatch, Open, Goto, TypeOK, Down, Kind
  <2>3. CASE Kind(current[w]) = "refused"
    BY <1>h, <2>1, <2>3 DEF Dispatch, Goto, TypeOK, Down, Kind
  <2>4. CASE Kind(current[w]) \notin {"reserve", "refused"}
    <3>1. Proceed(w) /\ until' = until
      BY <1>h, <2>4 DEF Dispatch
    <3> QED
      BY <2>1, <3>1 DEF Proceed, Goto, TypeOK, Down, Kind
  <2> QED
    BY <2>2, <2>3, <2>4
<1>i. ASSUME NEW w \in Workers, PutReserves(w) PROVE TypeOK'
  <2>1. reservation' \in [Names -> Reservation \cup {None}]
    BY <1>i, WriteType DEF PutReserves, TypeOK
  <2> QED
    BY <1>i, <2>1 DEF PutReserves, TypeOK, Goto, Down, Kind, sqsVars, sfnVars
<1>j. ASSUME NEW w \in Workers, PutConflicts(w) PROVE TypeOK'
  BY <1>j DEF PutConflicts, TypeOK, Goto, Down, Kind, sqsVars, sfnVars, tableVars
<1>k. ASSUME NEW w \in Workers, PutUnacked(w) PROVE TypeOK'
  <2>1. reservation' \in [Names -> Reservation \cup {None}]
    BY <1>k, WriteType DEF PutUnacked, TypeOK
  <2>2. /\ UNCHANGED <<work, queue, receives, receiver, token, granted, batch,
                       until, stopping, lapsed, now, disruptions>>
        /\ UNCHANGED <<pc, current>> \/ Proceed(w)
    BY <1>k DEF PutUnacked, sqsVars, sfnVars
  <2> QED
    BY <2>1, <2>2 DEF Proceed, TypeOK, Goto, Down, Kind
<1>l. ASSUME NEW w \in Workers, CallFailsInTry(w) PROVE TypeOK'
  BY <1>l DEF CallFailsInTry, Proceed, TypeOK, Goto, Down, Kind, sqsVars, sfnVars,
              tableVars
<1>m. ASSUME NEW w \in Workers, SendSuccess(w) PROVE TypeOK'
  <2>1. /\ pc[w] = "succeed" /\ current[w] \in Tasks
        /\ token' = [token EXCEPT ![current[w]] = "succeeded"]
        /\ granted' = [granted EXCEPT ![current[w]] = until[w]]
        /\ UNCHANGED <<work, queue, receives, receiver, batch, until, stopping,
                       reservation, lapsed, now, disruptions>>
    BY <1>m DEF SendSuccess, Report, sqsVars, tableVars, TypeOK
  <2>2. \/ pc' = [pc EXCEPT ![w] = "delete"] /\ current' = current
        \/ /\ pc' = [pc EXCEPT ![w] = "batch"]
           /\ current' = [current EXCEPT ![w] = None]
    BY <1>m DEF SendSuccess, Proceed, Goto
  <2> QED
    BY <2>1, <2>2 DEF TypeOK, Down, Kind
<1>n. ASSUME NEW w \in Workers, SendSuccessClosed(w) PROVE TypeOK'
  BY <1>n DEF SendSuccessClosed, Proceed, TypeOK, Goto, Down, Kind, sqsVars,
              sfnVars, tableVars
<1>o. ASSUME NEW w \in Workers, SendFailure(w) PROVE TypeOK'
  <2>1. /\ pc[w] = "fail" /\ current[w] \in Tasks
        /\ token' = [token EXCEPT ![current[w]] = "failed"]
        /\ UNCHANGED <<work, queue, receives, receiver, granted, until, stopping,
                       reservation, lapsed, now, disruptions>>
    BY <1>o DEF SendFailure, Report, sqsVars, tableVars, TypeOK
  <2>2. \/ /\ pc' = [pc EXCEPT ![w] = "drop"]
           /\ UNCHANGED <<batch, current>>
        \/ /\ \E p \in Down : pc' = [pc EXCEPT ![w] = p]
           /\ batch' = [batch EXCEPT ![w] = {}]
           /\ current' = [current EXCEPT ![w] = None]
    BY <1>o DEF SendFailure, Escape, Goto, Down
  <2> QED
    BY <2>1, <2>2 DEF TypeOK, Down, Kind
<1>p. ASSUME NEW w \in Workers, SendFailureClosed(w) \/ CallFailsInCatch(w)
      PROVE  TypeOK'
  <2>1. /\ UNCHANGED <<work, queue, receives, receiver, token, granted, until,
                       stopping, reservation, lapsed, now, disruptions>>
        /\ \E p \in Down : pc' = [pc EXCEPT ![w] = p]
        /\ batch' = [batch EXCEPT ![w] = {}]
        /\ current' = [current EXCEPT ![w] = None]
    BY <1>p DEF SendFailureClosed, CallFailsInCatch, Escape, Goto, Down, sqsVars,
                sfnVars, tableVars
  <2> QED
    BY <2>1 DEF TypeOK, Down, Kind
<1>q. ASSUME NEW w \in Workers, Delete(w) PROVE TypeOK'
  <2>1. /\ queue' = queue \/ queue' = [queue EXCEPT ![current[w]] = "deleted"]
        /\ \E p \in Down \cup {"batch"} : pc' = [pc EXCEPT ![w] = p]
        /\ batch' = batch \/ batch' = [batch EXCEPT ![w] = {}]
        /\ current' = [current EXCEPT ![w] = None]
        /\ UNCHANGED <<work, receives, receiver, token, granted, until, stopping,
                       reservation, lapsed, now, disruptions>>
    BY <1>q DEF Delete, Proceed, Escape, Goto, Down, sfnVars, tableVars
  <2> QED
    BY <2>1 DEF TypeOK, Down, Kind
<1>r. ASSUME NEW w \in Workers, Restart(w) PROVE TypeOK'
  BY <1>r DEF Restart, TypeOK, Goto, Down, Kind, sqsVars, sfnVars, tableVars
<1>s. ASSUME NEW w \in Workers, Stop(w) PROVE TypeOK'
  BY <1>s DEF Stop, TypeOK, Down, Kind, sqsVars, sfnVars, tableVars
<1>t. ASSUME NEW w \in Workers, Crash(w) PROVE TypeOK'
  BY <1>t DEF Crash, TypeOK, Goto, Down, Kind, sqsVars, sfnVars, tableVars
<1>u. ASSUME NEW t \in Tasks, VisibilityLapses(t) \/ DeadLetter(t) PROVE TypeOK'
  BY <1>u DEF VisibilityLapses, DeadLetter, TypeOK, Down, Kind, sfnVars,
              workerVars, tableVars
<1>v. ASSUME NEW t \in Tasks, TaskTimesOut(t) PROVE TypeOK'
  BY <1>v DEF TaskTimesOut, Report, TypeOK, Down, Kind, sqsVars, workerVars, tableVars
<1>w. ASSUME NEW n \in Names, Lapse(n) PROVE TypeOK'
  BY <1>w DEF Lapse, TypeOK, Down, Kind, sqsVars, sfnVars, workerVars
<1>x. CASE Tick
  BY <1>x DEF Tick, TypeOK, Down, Kind, sqsVars, sfnVars, workerVars, tableVars
<1>y. ASSUME NEW w \in Workers, ReceiveUnacked(w) PROVE TypeOK'
  BY <1>y, HandOutType
     DEF ReceiveUnacked, TypeOK, Down, Kind, sfnVars, workerVars, tableVars
<1> QED
  BY <1>a, <1>b, <1>c, <1>d, <1>e, <1>f, <1>g, <1>h, <1>i, <1>j, <1>k, <1>l, <1>m,
     <1>n, <1>o, <1>p, <1>q, <1>r, <1>s, <1>t, <1>u, <1>v, <1>w, <1>x,
     <1>y
     DEF Next, Advance

\* Every variable of the worker and its environment keeps its type, and each
\* phase of HandleAsync has in hand a message that can be there.
THEOREM ScaffolderTypeCorrect == Spec => []TypeOK
<1>1. TypeOK /\ [Next]_vars => TypeOK'
  BY NextType, StutterType
<1> QED
  BY InitType, <1>1, PTL DEF Spec

-----------------------------------------------------------------------------
(***************************************************************************)
(* Most steps of a worker neither write the table nor report an outcome:   *)
(* what matters of them is where they leave the worker.                    *)
(***************************************************************************)
Quiet(w) ==
    \/ Resolve(w) \/ Receive(w) \/ ReceiveUnacked(w) \/ ReceiveNothing(w)
    \/ ReceiveThrows(w) \/ Leave(w) \/ BatchDone(w) \/ Read(w) \/ Dispatch(w)
    \/ CallFailsInTry(w) \/ SendSuccessClosed(w) \/ SendFailureClosed(w)
    \/ CallFailsInCatch(w) \/ Restart(w) \/ Stop(w) \/ Crash(w)

\* The worker that moved has not just written, reported or been refused a name.
MovesQuietly(w) ==
    \/ UNCHANGED <<pc, current, until>>
    \/ /\ \A v \in Workers \ {w} :
             pc'[v] = pc[v] /\ current'[v] = current[v] /\ until'[v] = until[v]
       /\ until'[w] \in {until[w], now + Ttl}
       /\ pc'[w] \notin {"succeed", "delete", "drop"}
       /\ pc'[w] = "fail" => Kind(current'[w]) # "reserve"

QuietEffect(w) ==
    /\ UNCHANGED <<work, token, granted, reservation, lapsed, now>>
    /\ \A t \in Tasks : queue'[t] = "deleted" => queue[t] = "deleted"
    /\ MovesQuietly(w)

LEMMA QuietSteps ==
  ASSUME TypeOK, NEW w \in Workers, Quiet(w)
  PROVE  QuietEffect(w)
<1> USE DEF QuietEffect, MovesQuietly, TypeOK, Goto, Down, sqsVars, sfnVars, tableVars
<1>1. ASSUME Resolve(w) PROVE QuietEffect(w)
  BY <1>1 DEF Resolve
<1>2. ASSUME Receive(w) PROVE QuietEffect(w)
  <2>1. /\ \A t \in Tasks : queue'[t] = "deleted" => queue[t] = "deleted"
        /\ pc' = [pc EXCEPT ![w] = "batch"]
        /\ UNCHANGED <<work, token, granted, current, until, reservation, lapsed, now>>
    BY <1>2, HandOutType DEF Receive
  <2> QED
    BY <2>1
<1>11. ASSUME ReceiveUnacked(w) PROVE QuietEffect(w)
  BY <1>11, HandOutType DEF ReceiveUnacked, workerVars
<1>3. ASSUME ReceiveNothing(w) PROVE QuietEffect(w)
  BY <1>3 DEF ReceiveNothing, vars, workerVars
<1>4. ASSUME ReceiveThrows(w) PROVE QuietEffect(w)
  BY <1>4 DEF ReceiveThrows
<1>5. ASSUME Leave(w) \/ BatchDone(w) PROVE QuietEffect(w)
  BY <1>5 DEF Leave, BatchDone
<1>6. ASSUME Read(w) PROVE QuietEffect(w)
  <2>1. \/ UNCHANGED <<pc, current>>
        \/ /\ pc' = [pc EXCEPT ![w] = "dispatch"]
           /\ \E t \in Tasks : current' = [current EXCEPT ![w] = t]
    BY <1>6 DEF Read
  <2> QED
    BY <1>6, <2>1 DEF Read
<1>7. ASSUME Dispatch(w) PROVE QuietEffect(w)
  <2>1. UNCHANGED <<work, token, granted, queue, reservation, lapsed, now>>
    BY <1>7 DEF Dispatch
  <2>2. \/ /\ pc' = [pc EXCEPT ![w] = "put"] /\ current' = current
           /\ until' = [until EXCEPT ![w] = now + Ttl]
        \/ /\ pc' = [pc EXCEPT ![w] = "fail"] /\ UNCHANGED <<current, until>>
           /\ Kind(current[w]) = "refused"
        \/ /\ pc' = [pc EXCEPT ![w] = "batch"] /\ until' = until
           /\ current' = [current EXCEPT ![w] = None]
    BY <1>7 DEF Dispatch, Open, Proceed
  <2>3. Kind(current[w])' = "refused" <=> work[current'[w]].kind = "refused"
    BY <2>1 DEF Kind
  <2> QED
    BY <2>1, <2>2 DEF Kind
<1>8. ASSUME CallFailsInTry(w) \/ SendSuccessClosed(w) PROVE QuietEffect(w)
  BY <1>8 DEF CallFailsInTry, SendSuccessClosed, Proceed
<1>9. ASSUME SendFailureClosed(w) \/ CallFailsInCatch(w) PROVE QuietEffect(w)
  BY <1>9 DEF SendFailureClosed, CallFailsInCatch, Escape
<1>10. ASSUME Restart(w) \/ Stop(w) \/ Crash(w) PROVE QuietEffect(w)
  BY <1>10 DEF Restart, Stop, Crash
<1> QED
  BY <1>1, <1>2, <1>3, <1>4, <1>5, <1>6, <1>7, <1>8, <1>9, <1>10, <1>11 DEF Quiet

\* Every step is quiet, or one of the steps the invariants are about.
LEMMA StepKinds ==
  ASSUME [Next]_vars
  PROVE  \/ \E w \in Workers : Quiet(w)
         \/ \E w \in Workers : PutReserves(w) \/ PutUnacked(w)
         \/ \E w \in Workers : PutConflicts(w)
         \/ \E w \in Workers : SendSuccess(w)
         \/ \E w \in Workers : SendFailure(w)
         \/ \E w \in Workers : Delete(w)
         \/ \E t \in Tasks : VisibilityLapses(t) \/ DeadLetter(t)
         \/ \E t \in Tasks : TaskTimesOut(t)
         \/ \E n \in Names : Lapse(n)
         \/ Tick \/ UNCHANGED vars
  BY DEF Next, Advance, Quiet

\* What the steps that are not quiet do to the variables the invariants read.
LEMMA PutEffect ==
  ASSUME TypeOK, NEW w \in Workers, PutReserves(w) \/ PutUnacked(w)
  PROVE  LET t == current[w]
         IN  /\ t \in Tasks /\ Kind(t) = "reserve" /\ Name(t) \in Names
             /\ MayReserve(t)
             /\ reservation' = [reservation EXCEPT ![Name(t)] =
                                  [by |-> Request(t), until |-> until[w]]]
             /\ UNCHANGED <<work, queue, token, granted, until, lapsed, now>>
             /\ \A v \in Workers \ {w} : pc'[v] = pc[v] /\ current'[v] = current[v]
             /\ pc'[w] = "succeed" => current'[w] = t
             /\ pc'[w] \notin {"fail", "delete", "drop"}
<1>1. /\ pc[w] = "put" /\ current[w] \in Tasks /\ Kind(current[w]) = "reserve"
      /\ MayReserve(current[w]) /\ Write(current[w], until[w])
      /\ UNCHANGED <<work, queue, token, granted, until, lapsed, now>>
  BY DEF PutReserves, PutUnacked, TypeOK, sqsVars, sfnVars
<1>2. \/ pc' = [pc EXCEPT ![w] = "succeed"] /\ current' = current
      \/ UNCHANGED <<pc, current>>
      \/ /\ pc' = [pc EXCEPT ![w] = "batch"]
         /\ current' = [current EXCEPT ![w] = None]
  BY DEF PutReserves, PutUnacked, Proceed, Goto
<1>3. Name(current[w]) \in Names
  BY <1>1, PayloadFields
<1> QED
  BY <1>1, <1>2, <1>3 DEF Write, TypeOK

LEMMA SendEffect ==
  ASSUME TypeOK, NEW w \in Workers,
         NEW outcome \in {"succeeded", "failed"},
         IF outcome = "succeeded" THEN SendSuccess(w) ELSE SendFailure(w)
  PROVE  LET t == current[w]
         IN  /\ pc[w] = IF outcome = "succeeded" THEN "succeed" ELSE "fail"
             /\ t \in Tasks /\ token[t] = "waiting"
             /\ token' = [token EXCEPT ![t] = outcome]
             /\ IF outcome = "succeeded"
                THEN granted' = [granted EXCEPT ![t] = until[w]]
                ELSE granted' = granted
             /\ UNCHANGED <<work, queue, until, reservation, lapsed, now>>
             /\ \A v \in Workers \ {w} : pc'[v] = pc[v] /\ current'[v] = current[v]
             /\ pc'[w] \notin {"succeed", "fail"}
             /\ pc'[w] \in {"delete", "drop"} =>
                   /\ current'[w] = t
                   /\ pc'[w] = IF outcome = "succeeded" THEN "delete" ELSE "drop"
<1>1. CASE outcome = "succeeded"
  <2>1. /\ pc[w] = "succeed" /\ current[w] \in Tasks /\ token[current[w]] = "waiting"
        /\ token' = [token EXCEPT ![current[w]] = "succeeded"]
        /\ granted' = [granted EXCEPT ![current[w]] = until[w]]
        /\ UNCHANGED <<work, queue, until, reservation, lapsed, now>>
    BY <1>1 DEF SendSuccess, Report, TypeOK, sqsVars, tableVars
  <2>2. \/ pc' = [pc EXCEPT ![w] = "delete"] /\ current' = current
        \/ /\ pc' = [pc EXCEPT ![w] = "batch"]
           /\ current' = [current EXCEPT ![w] = None]
    BY <1>1 DEF SendSuccess, Proceed, Goto
  <2> QED
    BY <1>1, <2>1, <2>2 DEF TypeOK
<1>2. CASE outcome = "failed"
  <2>1. /\ pc[w] = "fail" /\ current[w] \in Tasks /\ token[current[w]] = "waiting"
        /\ token' = [token EXCEPT ![current[w]] = "failed"]
        /\ UNCHANGED <<work, queue, granted, until, reservation, lapsed, now>>
    BY <1>2 DEF SendFailure, Report, TypeOK, sqsVars, tableVars
  <2>2. \/ pc' = [pc EXCEPT ![w] = "drop"] /\ current' = current
        \/ /\ \E p \in Down : pc' = [pc EXCEPT ![w] = p]
           /\ current' = [current EXCEPT ![w] = None]
    BY <1>2 DEF SendFailure, Escape, Goto, Down
  <2> QED
    BY <1>2, <2>1, <2>2 DEF TypeOK, Down
<1> QED
  BY <1>1, <1>2

\* Delete and the steps of the environment leave the workers' decisions alone.
LEMMA DeleteEffect ==
  ASSUME TypeOK, NEW w \in Workers, Delete(w)
  PROVE  /\ pc[w] \in {"delete", "drop"} /\ current[w] \in Tasks
         /\ queue' = queue \/ queue' = [queue EXCEPT ![current[w]] = "deleted"]
         /\ UNCHANGED <<work, token, granted, until, reservation, lapsed, now>>
         /\ \A v \in Workers \ {w} : pc'[v] = pc[v] /\ current'[v] = current[v]
         /\ pc'[w] \in {"batch", "stopped", "faulted"}
  BY DEF Delete, Proceed, Escape, Goto, Down, sfnVars, tableVars, TypeOK

-----------------------------------------------------------------------------
(***************************************************************************)
(* Deleted means reported.                                                 *)
(***************************************************************************)
\* A worker about to delete a message knows that its outcome arrived.
ReportInv ==
    /\ DeletedMeansReported
    /\ \A w \in Workers :
          /\ pc[w] = "delete" => token[current[w]] = "succeeded"
          /\ pc[w] = "drop" => token[current[w]] = "failed"

LEMMA InitReport == Init => ReportInv
  BY DEF Init, ReportInv, DeletedMeansReported

LEMMA NextReport == TypeOK /\ ReportInv /\ [Next]_vars => ReportInv'
<1> SUFFICES ASSUME TypeOK, ReportInv, [Next]_vars PROVE ReportInv'
  OBVIOUS
<1> USE DEF ReportInv, DeletedMeansReported
<1>1. ASSUME NEW w \in Workers, Quiet(w) PROVE ReportInv'
  BY <1>1, QuietSteps DEF QuietEffect, MovesQuietly
<1>2. ASSUME NEW w \in Workers, PutReserves(w) \/ PutUnacked(w) PROVE ReportInv'
  <2>1. /\ queue' = queue /\ token' = token
        /\ \A v \in Workers \ {w} : pc'[v] = pc[v] /\ current'[v] = current[v]
        /\ pc'[w] \notin {"delete", "drop"}
    BY <1>2, PutEffect
  <2>2. DeletedMeansReported'
    BY <2>1
  <2>3. ASSUME NEW v \in Workers
        PROVE  /\ pc'[v] = "delete" => token'[current'[v]] = "succeeded"
               /\ pc'[v] = "drop" => token'[current'[v]] = "failed"
    <3>1. CASE v = w
      BY <2>1, <3>1
    <3>2. CASE v # w
      BY <2>1, <3>2
    <3> QED
      BY <3>1, <3>2
  <2> QED
    BY <2>2, <2>3
<1>3. ASSUME NEW w \in Workers, PutConflicts(w) PROVE ReportInv'
  BY <1>3 DEF PutConflicts, Goto, sqsVars, sfnVars, TypeOK
<1>4. ASSUME NEW w \in Workers, NEW outcome \in {"succeeded", "failed"},
             IF outcome = "succeeded" THEN SendSuccess(w) ELSE SendFailure(w)
      PROVE  ReportInv'
  <2>1. /\ current[w] \in Tasks /\ token[current[w]] = "waiting"
        /\ token' = [token EXCEPT ![current[w]] = outcome] /\ queue' = queue
        /\ \A v \in Workers \ {w} : pc'[v] = pc[v] /\ current'[v] = current[v]
        /\ pc'[w] \in {"delete", "drop"} =>
              /\ current'[w] = current[w]
              /\ pc'[w] = IF outcome = "succeeded" THEN "delete" ELSE "drop"
    BY <1>4, SendEffect
  <2>2. \A t \in Tasks : token[t] # "waiting" => token'[t] = token[t]
    BY <2>1 DEF TypeOK
  <2>3. token'[current[w]] = outcome
    BY <2>1 DEF TypeOK
  <2>4. DeletedMeansReported'
    BY <2>1, <2>2
  <2>5. \A v \in Workers \ {w} : pc[v] \in {"delete", "drop"} => current[v] \in Tasks
    BY DEF TypeOK
  <2>6. ASSUME NEW v \in Workers
        PROVE  /\ pc'[v] = "delete" => token'[current'[v]] = "succeeded"
               /\ pc'[v] = "drop" => token'[current'[v]] = "failed"
    BY <2>1, <2>2, <2>3, <2>5
  <2> QED
    BY <2>4, <2>6
<1>5. ASSUME NEW w \in Workers, Delete(w) PROVE ReportInv'
  <2>1. token[current[w]] \in {"succeeded", "failed"}
    BY <1>5, DeleteEffect
  <2> QED
    BY <1>5, <2>1, DeleteEffect DEF TypeOK
<1>6. ASSUME NEW t \in Tasks, VisibilityLapses(t) \/ DeadLetter(t) PROVE ReportInv'
  BY <1>6 DEF VisibilityLapses, DeadLetter, sfnVars, workerVars, TypeOK
<1>7. ASSUME NEW t \in Tasks, TaskTimesOut(t) PROVE ReportInv'
  BY <1>7 DEF TaskTimesOut, Report, sqsVars, workerVars, TypeOK
<1>8. (\E n \in Names : Lapse(n)) \/ Tick \/ UNCHANGED vars => ReportInv'
  BY DEF Lapse, Tick, vars, sqsVars, sfnVars, workerVars
<1> HIDE DEF ReportInv
<1>9. ASSUME NEW w \in Workers, SendSuccess(w) PROVE ReportInv'
  BY <1>4, <1>9
<1>10. ASSUME NEW w \in Workers, SendFailure(w) PROVE ReportInv'
  BY <1>4, <1>10
<1> QED
  BY StepKinds, <1>1, <1>2, <1>3, <1>5, <1>6, <1>7, <1>8, <1>9, <1>10

\* TaskQueueWorker deletes a message only once its outcome has reached Step
\* Functions, whatever call fails, times out or is repeated.
THEOREM ScaffolderDeletedAreReported == Spec => []DeletedMeansReported
<1>1. ReportInv => DeletedMeansReported
  BY DEF ReportInv
<1> QED
  BY InitReport, NextReport, ScaffolderTypeCorrect, <1>1, PTL DEF Spec

-----------------------------------------------------------------------------
(***************************************************************************)
(* One holder per name.                                                    *)
(***************************************************************************)
\* The table has the name of t for the request of t.
Owns(t) == reservation[Name(t)] # None /\ reservation[Name(t)].by = Request(t)

\* What a task was told, or is about to be told, is what the table says, until
\* DynamoDB has deleted the item.
HolderInv ==
    /\ \A t \in Tasks : Holds(t) /\ Name(t) \notin lapsed => Owns(t)
    /\ \A w \in Workers :
          pc[w] = "succeed" /\ Name(current[w]) \notin lapsed => Owns(current[w])

LEMMA InitHolder == Init => HolderInv
  BY DEF Init, HolderInv, Holds

LEMMA NextHolder == TypeOK /\ HolderInv /\ [Next]_vars => HolderInv'
<1> SUFFICES ASSUME TypeOK, HolderInv, [Next]_vars PROVE HolderInv'
  OBVIOUS
<1> USE DEF HolderInv, Holds, Owns, Kind, Name, Request
<1>0. ASSUME UNCHANGED <<work, token, reservation, lapsed>>,
             \A w \in Workers : pc'[w] = "succeed" =>
                 pc[w] = "succeed" /\ current'[w] = current[w]
      PROVE  HolderInv'
  BY <1>0
<1>1. ASSUME NEW w \in Workers, Quiet(w) PROVE HolderInv'
  BY <1>1, <1>0, QuietSteps DEF QuietEffect, MovesQuietly
<1>2. ASSUME NEW w \in Workers, PutReserves(w) \/ PutUnacked(w) PROVE HolderInv'
  <2>1. PICK t \in Tasks, item \in Reservation :
          /\ t = current[w] /\ Name(t) \in Names /\ MayReserve(t)
          /\ item.by = Request(t)
          /\ reservation' = [reservation EXCEPT ![Name(t)] = item]
          /\ UNCHANGED <<work, token, lapsed>>
          /\ \A v \in Workers \ {w} : pc'[v] = pc[v] /\ current'[v] = current[v]
          /\ pc'[w] = "succeed" => current'[w] = t
    <3> DEFINE item == [by |-> Request(current[w]), until |-> until[w]]
    <3>1. item \in Reservation /\ item.by = Request(current[w])
      BY <1>2, PutEffect, PayloadFields DEF Reservation, TypeOK
    <3> HIDE DEF item
    <3>2. reservation' = [reservation EXCEPT ![Name(current[w])] = item]
      BY <1>2, PutEffect DEF item
    <3> QED
      BY <1>2, <3>1, <3>2, PutEffect
  <2>2. item # None
    BY ConstantsAssumption
  <2>3. \A u \in Tasks : Name(u) \in Names /\ Owns(u) => Owns(u)'
    BY <2>1, <2>2 DEF MayReserve, TypeOK
  <2>4. \A u \in Tasks : Kind(u) = "reserve" => Name(u) \in Names
    BY PayloadFields
  <2>5. Owns(t)'
    BY <2>1, <2>2 DEF TypeOK
  <2>6. ASSUME NEW v \in Workers, NEW u \in Tasks, pc'[v] = "succeed",
               current'[v] = u, Name(u) \notin lapsed
        PROVE  Owns(u)'
    <3>1. CASE v = w
      BY <2>1, <2>5, <2>6, <3>1
    <3>2. CASE v # w
      <4>1. pc[v] = "succeed" /\ current[v] = u /\ Kind(u) = "reserve"
        BY <2>1, <2>6, <3>2 DEF TypeOK
      <4>2. Owns(u)
        BY <2>6, <4>1
      <4> QED
        BY <2>3, <2>4, <4>1, <4>2
    <3> QED
      BY <3>1, <3>2
  <2>7. ASSUME NEW u \in Tasks, Kind(u) = "reserve", token[u] = "succeeded",
               Name(u) \notin lapsed
        PROVE  Owns(u)'
    BY <2>3, <2>4, <2>7
  <2>8. \A v \in Workers : pc'[v] = "succeed" => current'[v] \in Tasks
    BY <2>1 DEF TypeOK
  <2> QED
    BY <2>1, <2>6, <2>7, <2>8
<1>3. ASSUME NEW w \in Workers, PutConflicts(w) PROVE HolderInv'
  BY <1>3, <1>0 DEF PutConflicts, Goto, sfnVars, tableVars, TypeOK
<1>4. ASSUME NEW w \in Workers, SendSuccess(w) PROVE HolderInv'
  <2>1. /\ pc[w] = "succeed" /\ current[w] \in Tasks
        /\ token' = [token EXCEPT ![current[w]] = "succeeded"]
        /\ UNCHANGED <<work, reservation, lapsed>>
        /\ \A v \in Workers \ {w} : pc'[v] = pc[v] /\ current'[v] = current[v]
        /\ pc'[w] # "succeed"
    BY <1>4, SendEffect
  <2> QED
    BY <2>1 DEF TypeOK
<1>5. ASSUME NEW w \in Workers, SendFailure(w) PROVE HolderInv'
  <2>1. /\ current[w] \in Tasks /\ token' = [token EXCEPT ![current[w]] = "failed"]
        /\ UNCHANGED <<work, reservation, lapsed>>
        /\ \A v \in Workers \ {w} : pc'[v] = pc[v] /\ current'[v] = current[v]
        /\ pc'[w] # "succeed"
    BY <1>5, SendEffect
  <2> QED
    BY <2>1 DEF TypeOK
<1>6. ASSUME NEW w \in Workers, Delete(w) PROVE HolderInv'
  BY <1>6, <1>0, DeleteEffect
<1>7. ASSUME NEW t \in Tasks, VisibilityLapses(t) \/ DeadLetter(t) PROVE HolderInv'
  BY <1>7, <1>0 DEF VisibilityLapses, DeadLetter, sfnVars, workerVars, tableVars
<1>8. ASSUME NEW t \in Tasks, TaskTimesOut(t) PROVE HolderInv'
  BY <1>8 DEF TaskTimesOut, Report, workerVars, tableVars, TypeOK
<1>9. ASSUME NEW n \in Names, Lapse(n) PROVE HolderInv'
  BY <1>9 DEF Lapse, sfnVars, workerVars, TypeOK
<1>10. Tick \/ UNCHANGED vars => HolderInv'
  BY <1>0 DEF Tick, vars, sfnVars, workerVars, tableVars
<1> HIDE DEF HolderInv
<1> QED
  BY StepKinds, <1>1, <1>2, <1>3, <1>4, <1>5, <1>6, <1>7, <1>8, <1>9, <1>10

\* The conditional write gives a name to one request at a time, on however many
\* workers its tasks and those of its rivals run.
THEOREM ScaffolderOneHolderPerName == Spec => []OneHolderPerName
<1>1. HolderInv => OneHolderPerName
  BY DEF HolderInv, OneHolderPerName, Owns
<1> QED
  BY InitHolder, NextHolder, ScaffolderTypeCorrect, <1>1, PTL DEF Spec

-----------------------------------------------------------------------------
(***************************************************************************)
(* No request conflicts with itself.                                       *)
(***************************************************************************)
\* Some task asks for the name n on behalf of the request q.
Asked(n, q) ==
    \E u \in Tasks : Kind(u) = "reserve" /\ Name(u) = n /\ Request(u) = q

\* Some task of another request asks for the name t asks for.
Contended(t) ==
    \E u \in Tasks : Kind(u) = "reserve" /\ Name(u) = Name(t) /\ Request(u) # Request(t)

\* The table holds only what was asked for, so a refused name has a rival.
ConflictInv ==
    /\ NoSelfConflict
    /\ \A n \in Names : reservation[n] # None => Asked(n, reservation[n].by)
    /\ \A w \in Workers :
          pc[w] = "fail" /\ Kind(current[w]) = "reserve" => Contended(current[w])

LEMMA InitConflict == Init => ConflictInv
  BY DEF Init, ConflictInv, NoSelfConflict

LEMMA NextConflict == TypeOK /\ ConflictInv /\ [Next]_vars => ConflictInv'
<1> SUFFICES ASSUME TypeOK, ConflictInv, [Next]_vars PROVE ConflictInv'
  OBVIOUS
<1> USE DEF ConflictInv, NoSelfConflict, Asked, Contended, Kind, Name, Request
<1>0. ASSUME UNCHANGED <<work, token, reservation>>,
             \A w \in Workers : pc'[w] = "fail" =>
                 \/ pc[w] = "fail" /\ current'[w] = current[w]
                 \/ work[current'[w]].kind # "reserve"
      PROVE  ConflictInv'
  BY <1>0
<1>1. ASSUME NEW w \in Workers, Quiet(w) PROVE ConflictInv'
  BY <1>1, <1>0, QuietSteps DEF QuietEffect, MovesQuietly
<1>2. ASSUME NEW w \in Workers, PutReserves(w) \/ PutUnacked(w) PROVE ConflictInv'
  <2>1. PICK t \in Tasks, item \in Reservation :
          /\ Kind(t) = "reserve" /\ Name(t) \in Names
          /\ item.by = Request(t)
          /\ reservation' = [reservation EXCEPT ![Name(t)] = item]
          /\ UNCHANGED <<work, token>>
          /\ \A v \in Workers \ {w} : pc'[v] = pc[v] /\ current'[v] = current[v]
          /\ pc'[w] # "fail"
    <3> DEFINE item == [by |-> Request(current[w]), until |-> until[w]]
    <3>1. item \in Reservation /\ item.by = Request(current[w])
      BY <1>2, PutEffect, PayloadFields DEF Reservation, TypeOK
    <3> HIDE DEF item
    <3>2. reservation' = [reservation EXCEPT ![Name(current[w])] = item]
      BY <1>2, PutEffect DEF item
    <3> QED
      BY <1>2, <3>1, <3>2, PutEffect
  <2> QED
    BY <2>1 DEF TypeOK
<1>3. ASSUME NEW w \in Workers, PutConflicts(w) PROVE ConflictInv'
  <2>1. /\ pc[w] = "put" /\ ~MayReserve(current[w])
        /\ pc' = [pc EXCEPT ![w] = "fail"]
        /\ UNCHANGED <<work, token, reservation, current>>
    BY <1>3 DEF PutConflicts, Goto, sfnVars, tableVars
  <2>2. current[w] \in Tasks /\ Kind(current[w]) = "reserve" /\ Name(current[w]) \in Names
    BY <2>1, PayloadFields DEF TypeOK
  <2>3. Contended(current[w])
    BY <2>1, <2>2 DEF MayReserve
  <2> QED
    BY <2>1, <2>3 DEF TypeOK
<1>4. ASSUME NEW w \in Workers, SendSuccess(w) PROVE ConflictInv'
  <2>1. /\ current[w] \in Tasks /\ token' = [token EXCEPT ![current[w]] = "succeeded"]
        /\ UNCHANGED <<work, reservation>>
        /\ \A v \in Workers \ {w} : pc'[v] = pc[v] /\ current'[v] = current[v]
        /\ pc'[w] # "fail"
    BY <1>4, SendEffect
  <2> QED
    BY <2>1 DEF TypeOK
<1>5. ASSUME NEW w \in Workers, SendFailure(w) PROVE ConflictInv'
  <2>1. /\ current[w] \in Tasks /\ token' = [token EXCEPT ![current[w]] = "failed"]
        /\ pc[w] = "fail" /\ UNCHANGED <<work, reservation>>
        /\ \A v \in Workers \ {w} : pc'[v] = pc[v] /\ current'[v] = current[v]
        /\ pc'[w] # "fail"
    BY <1>5, SendEffect
  <2> QED
    BY <2>1 DEF TypeOK
<1>6. ASSUME NEW w \in Workers, Delete(w) PROVE ConflictInv'
  BY <1>6, <1>0, DeleteEffect
<1>7. ASSUME NEW t \in Tasks, VisibilityLapses(t) \/ DeadLetter(t) PROVE ConflictInv'
  BY <1>7, <1>0 DEF VisibilityLapses, DeadLetter, sfnVars, workerVars, tableVars
<1>8. ASSUME NEW t \in Tasks, TaskTimesOut(t) PROVE ConflictInv'
  BY <1>8 DEF TaskTimesOut, Report, workerVars, tableVars, TypeOK
<1>9. ASSUME NEW n \in Names, Lapse(n) PROVE ConflictInv'
  BY <1>9 DEF Lapse, sfnVars, workerVars, TypeOK
<1>10. Tick \/ UNCHANGED vars => ConflictInv'
  BY <1>0 DEF Tick, vars, sfnVars, workerVars, tableVars
<1> HIDE DEF ConflictInv
<1> QED
  BY StepKinds, <1>1, <1>2, <1>3, <1>4, <1>5, <1>6, <1>7, <1>8, <1>9, <1>10

\* ReserveNameUseCase refuses a name only when another request asks for it:
\* "RequestId = :requestId" keeps a redelivery from conflicting with itself.
THEOREM ScaffolderNoSelfConflict == Spec => []NoSelfConflict
<1>1. ConflictInv => NoSelfConflict
  BY DEF ConflictInv
<1> QED
  BY InitConflict, NextConflict, ScaffolderTypeCorrect, <1>1, PTL DEF Spec

-----------------------------------------------------------------------------
(***************************************************************************)
(* Held as reported, with one worker.                                      *)
(***************************************************************************)
\* The table gives the name of t to the request of t at least until time.
OwnsUntil(t, time) ==
    Owns(t) /\ reservation[Name(t)].until >= time

\* Expiries grow: what was granted is no later than the expiry of the next write.
HeldInv ==
    /\ HeldAsReported
    /\ \A w \in Workers : until[w] <= now + Ttl
    /\ \A t \in Tasks, w \in Workers : granted[t] <= until[w]
    /\ \A w \in Workers :
          pc[w] = "succeed" /\ now < until[w] => OwnsUntil(current[w], until[w])

LEMMA InitHeld == Init => HeldInv
  BY ConstantsAssumption DEF Init, HeldInv, HeldAsReported, Holds

LEMMA NextHeld ==
  ASSUME \A v, w \in Workers : v = w
  PROVE  TypeOK /\ HeldInv /\ [Next]_vars => HeldInv'
<1> SUFFICES ASSUME TypeOK, HeldInv, [Next]_vars PROVE HeldInv'
  OBVIOUS
<1> USE ConstantsAssumption
        DEF HeldInv, HeldAsReported, Holds, OwnsUntil, Owns, Kind, Name, Request
<1>0. ASSUME UNCHANGED <<work, token, granted, reservation, now>>, until' = until,
             \A w \in Workers : pc'[w] = "succeed" =>
                 pc[w] = "succeed" /\ current'[w] = current[w]
      PROVE  HeldInv'
  BY <1>0
<1>1. ASSUME NEW w \in Workers, Quiet(w) PROVE HeldInv'
  <2>1. UNCHANGED <<work, token, granted, reservation, now>>
    BY <1>1, QuietSteps DEF QuietEffect
  <2>2. CASE UNCHANGED <<pc, current, until>>
    BY <2>1, <2>2, <1>0
  <2>3. CASE /\ until'[w] \in {until[w], now + Ttl}
             /\ pc'[w] # "succeed"
    <3>1. \A v \in Workers : until'[v] <= now + Ttl /\ until[v] <= until'[v]
      BY <2>3 DEF TypeOK
    <3>2. \A t \in Tasks, v \in Workers : granted[t] <= until'[v]
      BY <2>3, <3>1 DEF TypeOK
    <3>3. \A v \in Workers : pc'[v] # "succeed"
      BY <2>3
    <3> QED
      BY <2>1, <3>1, <3>2, <3>3
  <2> QED
    BY <1>1, <2>2, <2>3, QuietSteps DEF QuietEffect, MovesQuietly
<1>2. ASSUME NEW w \in Workers, PutReserves(w) \/ PutUnacked(w) PROVE HeldInv'
  <2>1. PICK t \in Tasks, item \in Reservation :
          /\ t = current[w] /\ Name(t) \in Names /\ MayReserve(t)
          /\ item.by = Request(t) /\ item.until = until[w]
          /\ reservation' = [reservation EXCEPT ![Name(t)] = item]
          /\ UNCHANGED <<work, token, granted, until, now>>
          /\ pc'[w] = "succeed" => current'[w] = t
    <3> DEFINE item == [by |-> Request(current[w]), until |-> until[w]]
    <3>1. /\ item \in Reservation /\ item.by = Request(current[w])
          /\ item.until = until[w]
      BY <1>2, PutEffect, PayloadFields DEF Reservation, TypeOK
    <3> HIDE DEF item
    <3>2. reservation' = [reservation EXCEPT ![Name(current[w])] = item]
      BY <1>2, PutEffect DEF item
    <3> QED
      BY <1>2, <3>1, <3>2, PutEffect
  <2>2. item # None /\ until[w] \in Nat
    BY DEF TypeOK
  <2>3. ASSUME NEW u \in Tasks, Name(u) \in Names, OwnsUntil(u, granted[u])
        PROVE  /\ reservation'[Name(u)] # None
               /\ reservation'[Name(u)].by = Request(u)
               /\ reservation'[Name(u)].until >= granted[u]
    BY <2>1, <2>2, <2>3 DEF MayReserve, TypeOK
  <2>4. HeldAsReported'
    <3> SUFFICES ASSUME NEW u \in Tasks, Kind(u) = "reserve", token[u] = "succeeded",
                        now < granted[u]
                 PROVE  /\ reservation'[Name(u)] # None
                        /\ reservation'[Name(u)].by = Request(u)
                        /\ reservation'[Name(u)].until >= granted[u]
      BY <2>1
    <3>1. Name(u) \in Names
      BY PayloadFields
    <3>2. OwnsUntil(u, granted[u])
      OBVIOUS
    <3> QED
      BY <2>3, <3>1, <3>2
  <2>5. /\ reservation'[Name(t)] # None /\ reservation'[Name(t)].by = Request(t)
        /\ reservation'[Name(t)].until >= until[w]
    BY <2>1, <2>2 DEF TypeOK
  <2> QED
    BY <2>1, <2>4, <2>5
<1>3. ASSUME NEW w \in Workers, PutConflicts(w) PROVE HeldInv'
  BY <1>3, <1>0 DEF PutConflicts, Goto, sfnVars, tableVars, TypeOK
<1>4. ASSUME NEW w \in Workers, SendSuccess(w) PROVE HeldInv'
  <2>1. /\ pc[w] = "succeed" /\ current[w] \in Tasks
        /\ token' = [token EXCEPT ![current[w]] = "succeeded"]
        /\ granted' = [granted EXCEPT ![current[w]] = until[w]]
        /\ UNCHANGED <<work, until, reservation, now>>
        /\ pc'[w] # "succeed"
    BY <1>4, SendEffect
  <2>2. \A t \in Tasks, v \in Workers : granted'[t] <= until[v]
    BY <2>1 DEF TypeOK
  <2>3. \A v \in Workers : pc'[v] # "succeed"
    BY <2>1
  <2>4. HeldAsReported'
    BY <2>1 DEF TypeOK
  <2> QED
    BY <2>1, <2>2, <2>3, <2>4
<1>5. ASSUME NEW w \in Workers, SendFailure(w) PROVE HeldInv'
  <2>1. /\ current[w] \in Tasks /\ token' = [token EXCEPT ![current[w]] = "failed"]
        /\ UNCHANGED <<work, granted, until, reservation, now>>
        /\ pc'[w] # "succeed"
    BY <1>5, SendEffect
  <2> QED
    BY <2>1 DEF TypeOK
<1>6. ASSUME NEW w \in Workers, Delete(w) PROVE HeldInv'
  BY <1>6, <1>0, DeleteEffect
<1>7. ASSUME NEW t \in Tasks, VisibilityLapses(t) \/ DeadLetter(t) PROVE HeldInv'
  BY <1>7, <1>0 DEF VisibilityLapses, DeadLetter, sfnVars, workerVars, tableVars
<1>8. ASSUME NEW t \in Tasks, TaskTimesOut(t) PROVE HeldInv'
  BY <1>8 DEF TaskTimesOut, Report, workerVars, tableVars, TypeOK
<1>9. ASSUME NEW n \in Names, Lapse(n) PROVE HeldInv'
  <2>1. /\ reservation[n] \in Reservation /\ reservation[n].until <= now
        /\ reservation' = [reservation EXCEPT ![n] = None]
        /\ UNCHANGED <<work, token, granted, pc, current, until, now>>
    BY <1>9 DEF Lapse, sfnVars, workerVars, TypeOK
  <2>2. reservation[n].until \in Nat
    BY <2>1 DEF Reservation
  <2>3. ASSUME NEW t \in Tasks, NEW time \in Nat, now < time, OwnsUntil(t, time)
        PROVE  Name(t) # n
    BY <2>1, <2>2, <2>3 DEF TypeOK
  <2>4. HeldAsReported'
    BY <2>1, <2>3 DEF TypeOK
  <2>5. ASSUME NEW w \in Workers, pc[w] = "succeed", now < until[w]
        PROVE  OwnsUntil(current[w], until[w]) /\ Name(current[w]) # n
    BY <2>3, <2>5 DEF TypeOK
  <2> QED
    BY <2>1, <2>4, <2>5 DEF TypeOK
<1>10. CASE Tick
  BY <1>10 DEF Tick, sfnVars, workerVars, tableVars, TypeOK
<1>11. UNCHANGED vars => HeldInv'
  BY <1>0 DEF vars, sfnVars, workerVars, tableVars
<1> HIDE DEF HeldInv
<1> QED
  BY StepKinds, <1>1, <1>2, <1>3, <1>4, <1>5, <1>6, <1>7, <1>8, <1>9, <1>10, <1>11

\* With the one worker the deployment asks for, a name stays with its request
\* as long as the reported ExpiresAt says: no redelivery, crash or lost reply
\* shortens it.
THEOREM ScaffolderHeldAsReported ==
  ASSUME \A v, w \in Workers : v = w
  PROVE  Spec => []HeldAsReported
<1>1. HeldInv => HeldAsReported
  BY DEF HeldInv
<1>2. TypeOK /\ HeldInv /\ [Next]_vars => HeldInv'
  BY NextHeld
<1> QED
  BY InitHeld, ScaffolderTypeCorrect, <1>1, <1>2, PTL DEF Spec

-----------------------------------------------------------------------------
(***************************************************************************)
(* The leases the table keeps, with one worker.                            *)
(***************************************************************************)
\* No item is later than what the worker writes next.
LeasesGrow ==
    \A n \in Names, w \in Workers :
        reservation[n] # None => reservation[n].until <= until[w]

LEMMA InitGrow == Init => LeasesGrow
  BY DEF Init, LeasesGrow

LEMMA NextGrow ==
  ASSUME \A v, w \in Workers : v = w
  PROVE  TypeOK /\ HeldInv /\ LeasesGrow /\ [Next]_vars => LeasesGrow'
<1> SUFFICES ASSUME TypeOK, HeldInv, LeasesGrow, [Next]_vars PROVE LeasesGrow'
  OBVIOUS
<1>0. ASSUME UNCHANGED <<reservation, until>> PROVE LeasesGrow'
  BY <1>0 DEF LeasesGrow
<1>1. ASSUME NEW w \in Workers, Quiet(w) PROVE LeasesGrow'
  <2>1. \/ UNCHANGED <<reservation, until>>
        \/ reservation' = reservation /\ until'[w] \in {until[w], now + Ttl}
    BY <1>1, QuietSteps DEF QuietEffect, MovesQuietly
  <2>2. CASE until'[w] \in {until[w], now + Ttl}
    <3>1. until[w] <= until'[w] /\ until[w] \in Nat /\ until'[w] \in Nat
      BY <2>2, ConstantsAssumption DEF HeldInv, TypeOK
    <3>2. ASSUME NEW n \in Names, reservation[n] # None
          PROVE  reservation[n].until \in Nat /\ reservation[n].until <= until[w]
      BY <3>2 DEF LeasesGrow, TypeOK, Reservation
    <3>3. ASSUME NEW n \in Names, reservation[n] # None
          PROVE  reservation[n].until <= until'[w]
      BY <3>1, <3>2, <3>3
    <3> QED
      BY <1>1, <2>1, <3>3, QuietSteps DEF LeasesGrow, QuietEffect
  <2> QED
    BY <1>0, <2>1, <2>2
<1>2. ASSUME NEW w \in Workers, PutReserves(w) \/ PutUnacked(w) PROVE LeasesGrow'
  <2>1. /\ UNCHANGED until /\ Name(current[w]) \in Names
        /\ \E item : /\ item.until = until[w]
                     /\ reservation' = [reservation EXCEPT ![Name(current[w])] = item]
    BY <1>2, PutEffect
  <2> QED
    BY <2>1 DEF LeasesGrow, TypeOK
<1>3. ASSUME NEW w \in Workers, PutConflicts(w) PROVE LeasesGrow'
  BY <1>0, <1>3 DEF PutConflicts, tableVars
<1>4. ASSUME NEW w \in Workers, SendSuccess(w) \/ SendFailure(w) PROVE LeasesGrow'
  BY <1>0, <1>4 DEF SendSuccess, SendFailure, tableVars
<1>5. ASSUME NEW w \in Workers, Delete(w) PROVE LeasesGrow'
  BY <1>0, <1>5, DeleteEffect
<1>6. ASSUME NEW t \in Tasks, VisibilityLapses(t) \/ DeadLetter(t) \/ TaskTimesOut(t)
      PROVE  LeasesGrow'
  BY <1>0, <1>6 DEF VisibilityLapses, DeadLetter, TaskTimesOut, workerVars, tableVars
<1>7. ASSUME NEW n \in Names, Lapse(n) PROVE LeasesGrow'
  BY <1>7 DEF Lapse, workerVars, LeasesGrow, TypeOK
<1>8. Tick \/ UNCHANGED vars => LeasesGrow'
  BY <1>0 DEF Tick, vars, workerVars, tableVars
<1> QED
  BY StepKinds, <1>1, <1>2, <1>3, <1>4, <1>5, <1>6, <1>7, <1>8

\* What a task asks the lease for.
LEMMA AskOf ==
  ASSUME NEW t \in Tasks
  PROVE  Asks[t] = IF Kind(t) = "reserve"
                   THEN {[name |-> Name(t), request |-> Request(t)]} ELSE {}
  BY DEF Asks

LEMMA InitLease == Init => Lease!Init
<1> SUFFICES ASSUME Init PROVE Lease!Init
  OBVIOUS
<1>1. ASSUME NEW t \in Tasks
      PROVE  Asks[t] \in {{}} \cup {{a} : a \in Lease!Ask}
  <2>1. CASE Kind(t) = "reserve"
    <3>1. [name |-> Name(t), request |-> Request(t)] \in Lease!Ask
      BY <2>1, InitType, PayloadFields DEF Lease!Ask
    <3> QED
      BY <2>1, <3>1, AskOf
  <2>2. CASE Kind(t) # "reserve"
    BY <2>2, AskOf
  <2> QED
    BY <2>1, <2>2
<1>2. Asks \in [Tasks -> {{}} \cup {{a} : a \in Lease!Ask}]
  BY <1>1 DEF Asks
<1> QED
  BY <1>2 DEF Init, Lease!Init

LEMMA LeaseStep ==
  ASSUME \A v, w \in Workers : v = w,
         TypeOK, HeldInv, ConflictInv, LeasesGrow, [Next]_vars
  PROVE  [Lease!Next]_(Lease!vars)
<1> DEFINE Abstract == Lease!Next \/ UNCHANGED Lease!vars
<1>0. work' = work => Asks' = Asks
  BY DEF Asks, Kind, Name, Request
<1>1. ASSUME UNCHANGED <<work, token, granted, reservation, now>> PROVE Abstract
  BY <1>0, <1>1 DEF Lease!vars
<1>2. ASSUME NEW w \in Workers, Quiet(w) PROVE Abstract
  BY <1>1, <1>2, QuietSteps DEF QuietEffect
<1>3. ASSUME NEW w \in Workers, PutReserves(w) \/ PutUnacked(w) PROVE Abstract
  <2>1. PICK t \in Tasks : t = current[w] /\ Kind(t) = "reserve" /\ Name(t) \in Names /\ MayReserve(t)
    BY <1>3, PutEffect
  <2>2. /\ reservation' = [reservation EXCEPT ![Name(t)] =
                             [by |-> Request(t), until |-> until[w]]]
        /\ UNCHANGED <<work, token, granted, now>>
    BY <1>3, <2>1, PutEffect
  <2>3. until[w] \in 0..(now + Ttl)
    BY ConstantsAssumption DEF TypeOK, HeldInv
  <2>4. reservation[Name(t)] # None =>
           reservation[Name(t)].by = Request(t) /\ reservation[Name(t)].until <= until[w]
    BY <2>1 DEF MayReserve, LeasesGrow
  <2> DEFINE a == [name |-> Name(t), request |-> Request(t)]
  <2>5. a \in Asks[t] /\ a.name = Name(t) /\ a.request = Request(t)
    BY <2>1, AskOf
  <2> HIDE DEF a
  <2>6. Lease!Grant(t)
    BY <1>0, <2>2, <2>3, <2>4, <2>5 DEF Lease!Grant
  <2> QED
    BY <2>6 DEF Lease!Next
<1>4. ASSUME NEW w \in Workers, PutConflicts(w) PROVE Abstract
  BY <1>1, <1>4 DEF PutConflicts, sfnVars, tableVars
<1>5. ASSUME NEW w \in Workers, SendSuccess(w) PROVE Abstract
  <2>1. PICK t \in Tasks : t = current[w]
    BY <1>5, SendEffect
  <2>2. /\ pc[w] = "succeed" /\ token[t] = "waiting"
        /\ token' = [token EXCEPT ![t] = "succeeded"]
        /\ granted' = [granted EXCEPT ![t] = until[w]]
        /\ UNCHANGED <<work, reservation, now>>
    BY <1>5, <2>1, SendEffect
  <2>3. until[w] \in 0..(now + Ttl)
    BY ConstantsAssumption DEF TypeOK, HeldInv
  <2>4. Kind(t) = "reserve"
    BY <2>1, <2>2 DEF TypeOK
  <2>5. now < until[w] =>
           /\ reservation[Name(t)] # None
           /\ reservation[Name(t)].by = Request(t) /\ until[w] <= reservation[Name(t)].until
    BY <2>1, <2>2 DEF HeldInv, OwnsUntil, Owns
  <2> DEFINE a == [name |-> Name(t), request |-> Request(t)]
  <2>6. a \in Asks[t] /\ a.name = Name(t) /\ a.request = Request(t)
    BY <2>4, AskOf
  <2> HIDE DEF a
  <2>7. Lease!Confirm(t)
    BY <1>0, <2>2, <2>3, <2>5, <2>6 DEF Lease!Confirm, Lease!Tell
  <2> QED
    BY <2>7 DEF Lease!Next
<1>6. ASSUME NEW w \in Workers, SendFailure(w) PROVE Abstract
  <2>1. PICK t \in Tasks : t = current[w]
    BY <1>6, SendEffect
  <2>2. /\ pc[w] = "fail" /\ token[t] = "waiting"
        /\ token' = [token EXCEPT ![t] = "failed"]
        /\ UNCHANGED <<work, granted, reservation, now>>
    BY <1>6, <2>1, SendEffect
  <2>3. ASSUME NEW a \in Asks[t]
        PROVE  \E r \in Tasks : \E b \in Asks[r] : b.name = a.name /\ b.request # a.request
    <3>1. Kind(t) = "reserve" /\ a.name = Name(t) /\ a.request = Request(t)
      <4>1. CASE Kind(t) = "reserve"
        <5>1. a = [name |-> Name(t), request |-> Request(t)]
          BY <4>1, AskOf
        <5> QED
          BY <4>1, <5>1
      <4>2. CASE Kind(t) # "reserve"
        BY <4>2, AskOf
      <4> QED
        BY <4>1, <4>2
    <3>2. PICK r \in Tasks : Kind(r) = "reserve" /\ Name(r) = Name(t) /\ Request(r) # Request(t)
      BY <2>1, <2>2, <3>1 DEF ConflictInv, Contended
    <3>3. [name |-> Name(r), request |-> Request(r)] \in Asks[r]
      BY <3>2, AskOf
    <3> QED
      BY <3>1, <3>2, <3>3
  <2>4. Lease!Refuse(t)
    BY <1>0, <2>2, <2>3 DEF Lease!Refuse, Lease!Tell
  <2> QED
    BY <2>4 DEF Lease!Next
<1>7. ASSUME NEW w \in Workers, Delete(w) PROVE Abstract
  BY <1>1, <1>7, DeleteEffect
<1>8. ASSUME NEW t \in Tasks, VisibilityLapses(t) \/ DeadLetter(t) PROVE Abstract
  BY <1>1, <1>8 DEF VisibilityLapses, DeadLetter, sfnVars, tableVars
<1>9. ASSUME NEW t \in Tasks, TaskTimesOut(t) PROVE Abstract
  <2>1. Lease!TimeOut(t)
    BY <1>0, <1>9 DEF TaskTimesOut, Report, tableVars, Lease!TimeOut, Lease!Tell
  <2> QED
    BY <2>1 DEF Lease!Next
<1>10. ASSUME NEW n \in Names, Lapse(n) PROVE Abstract
  <2>1. Lease!Expire(n)
    BY <1>0, <1>10 DEF Lapse, sfnVars, Lease!Expire
  <2> QED
    BY <2>1 DEF Lease!Next
<1>11. CASE Tick
  <2>1. Lease!Tick
    BY <1>0, <1>11 DEF Tick, sfnVars, tableVars, Lease!Tick
  <2> QED
    BY <2>1 DEF Lease!Next
<1>12. CASE UNCHANGED vars
  BY <1>1, <1>12 DEF vars, sfnVars, tableVars
<1> QED
  BY StepKinds, <1>2, <1>3, <1>4, <1>5, <1>6, <1>7, <1>8, <1>9, <1>10, <1>11, <1>12

\* The one worker of the deployment implements the lease: a name changes hands
\* only when its lease is over, no redelivery or repeated write shortens one, and
\* every verdict the state machine gets is true of the table when it is given.
THEOREM ScaffolderKeepsLeases ==
  ASSUME \A v, w \in Workers : v = w
  PROVE  Spec => KeepsLeases
<1>1. TypeOK /\ HeldInv /\ [Next]_vars => HeldInv'
  BY NextHeld
<1>2. TypeOK /\ HeldInv /\ LeasesGrow /\ [Next]_vars => LeasesGrow'
  BY NextGrow
<1>3. TypeOK /\ HeldInv /\ ConflictInv /\ LeasesGrow /\ [Next]_vars
        => [Lease!Next]_(Lease!vars)
  BY LeaseStep
<1> QED
  BY InitHeld, InitConflict, NextConflict, InitGrow, InitLease, ScaffolderTypeCorrect,
     <1>1, <1>2, <1>3, PTL DEF Spec, KeepsLeases, Lease!Spec

-----------------------------------------------------------------------------
(***************************************************************************)
(* What the lease entails, argued from NameLease alone.                    *)
(***************************************************************************)
\* The clock and the leases keep their types, and a confirmed task's request has
\* the lease until the time it was told, or that time has passed.
LeasesHold ==
    /\ now \in Nat /\ DOMAIN reservation = Names
    /\ token = [t \in Tasks |-> token[t]] /\ granted \in [Tasks -> Nat]
    /\ \A n \in Names : reservation[n] # None => reservation[n].until \in Nat
    /\ \A t \in Tasks : \A a, b \in Asks[t] : a = b
    /\ \A t \in Tasks : \A a \in Asks[t] :
          /\ a.name \in Names /\ a.request \in Requests
          /\ token[t] = "succeeded" /\ now < granted[t] =>
                /\ reservation[a.name] # None
                /\ reservation[a.name].by = a.request
                /\ granted[t] <= reservation[a.name].until

LEMMA NextLeasesHold ==
  LeasesHold /\ [Lease!Next]_(Lease!vars) => LeasesHold'
<1> SUFFICES ASSUME LeasesHold, [Lease!Next]_(Lease!vars) PROVE LeasesHold'
  OBVIOUS
<1> USE DEF LeasesHold
<1>1. ASSUME NEW t \in Tasks, Lease!Grant(t) PROVE LeasesHold'
  <2>1. PICK a \in Asks[t], u \in 0..(now + Ttl) :
          /\ reservation[a.name] # None =>
                reservation[a.name].by = a.request /\ reservation[a.name].until <= u
          /\ reservation' = [reservation EXCEPT ![a.name] = [by |-> a.request, until |-> u]]
    BY <1>1 DEF Lease!Grant
  <2>2. /\ a.name \in Names /\ a.request \in Requests /\ u \in Nat
        /\ UNCHANGED <<Asks, token, granted, now>>
    BY <1>1, ConstantsAssumption DEF Lease!Grant
  <2> DEFINE item == [by |-> a.request, until |-> u]
  <2>3. item # None /\ item.by = a.request /\ item.until = u
    BY <2>2, ConstantsAssumption DEF Reservation
  <2> HIDE DEF item
  <2>4. reservation' = [reservation EXCEPT ![a.name] = item]
    BY <2>1 DEF item
  <2> QED
    BY <2>1, <2>2, <2>3, <2>4
<1>2. ASSUME NEW t \in Tasks, Lease!Confirm(t) PROVE LeasesHold'
  <2>1. PICK a \in Asks[t], u \in 0..(now + Ttl) :
          /\ now < u =>
                /\ reservation[a.name] # None
                /\ reservation[a.name].by = a.request /\ u <= reservation[a.name].until
          /\ granted' = [granted EXCEPT ![t] = u]
    BY <1>2 DEF Lease!Confirm
  <2>2. /\ u \in Nat /\ token' = [token EXCEPT ![t] = "succeeded"]
        /\ UNCHANGED <<Asks, reservation, now>>
    BY <1>2, ConstantsAssumption DEF Lease!Confirm, Lease!Tell
  <2>3. ASSUME NEW b \in Asks[t] PROVE b = a
    BY <2>3
  <2> QED
    BY <2>1, <2>2, <2>3
<1>3. ASSUME NEW t \in Tasks, Lease!Refuse(t) \/ Lease!TimeOut(t) PROVE LeasesHold'
  BY <1>3 DEF Lease!Refuse, Lease!TimeOut, Lease!Tell
<1>4. ASSUME NEW n \in Names, Lease!Expire(n) PROVE LeasesHold'
  BY <1>4 DEF Lease!Expire
<1>5. CASE Lease!Tick
  BY <1>5 DEF Lease!Tick
<1>6. CASE UNCHANGED Lease!vars
  BY <1>6 DEF Lease!vars
<1> QED
  BY <1>1, <1>2, <1>3, <1>4, <1>5, <1>6 DEF Lease!Next

\* Whatever keeps the leases holds every name as long as was reported.
THEOREM LeasesHoldAsReported == KeepsLeases => []HeldAsReported
<1>1. Lease!Init => LeasesHold
  BY DEF Lease!Init, Lease!Ask, LeasesHold
<1>2. LeasesHold => HeldAsReported
  <2> SUFFICES ASSUME LeasesHold, NEW t \in Tasks, Holds(t), now < granted[t]
               PROVE  /\ reservation[Name(t)] # None
                      /\ reservation[Name(t)].by = Request(t)
                      /\ reservation[Name(t)].until >= granted[t]
    BY DEF HeldAsReported
  <2> DEFINE a == [name |-> Name(t), request |-> Request(t)]
  <2>1. a \in Asks[t] /\ a.name = Name(t) /\ a.request = Request(t)
    BY AskOf DEF Holds
  <2> HIDE DEF a
  <2>2. /\ reservation[Name(t)] # None /\ reservation[Name(t)].by = Request(t)
        /\ granted[t] <= reservation[Name(t)].until
    BY <2>1 DEF LeasesHold, Holds
  <2>3. reservation[Name(t)].until \in Nat /\ granted[t] \in Nat
    BY <2>1, <2>2 DEF LeasesHold
  <2> QED
    BY <2>2, <2>3
<1> QED
  BY <1>1, <1>2, NextLeasesHold, PTL DEF KeepsLeases, Lease!Spec
=============================================================================
