------------------------- MODULE ProvisionerSqsProofs -------------------------
(***************************************************************************)
(* Proofs about ProvisionerSqs and the process around it, for any number   *)
(* of consumers and messages, any batch size and any bound on lapses and   *)
(* disruptions, with and without a Collector.                              *)
(***************************************************************************)
EXTENDS ProvisionerProcess, FiniteSetTheorems, TLAPS

\* Where the loop keeps its messages: none between batches, the one in hand
\* processed and not yet deleted.
LoopShape ==
    \A c \in Consumers :
        /\ pc[c] \in {"start", "poll", "stopped"} => batch[c] = {}
        /\ pc[c] \in {"start", "poll", "batch", "stopped"} => current[c] = None
        /\ pc[c] = "delete" => handled[current[c]] > 0

\* The part of the invariant that says nothing of cardinalities.
LoopInv == TypeOK /\ LoopShape /\ DeletedMeansHandled

LEMMA InitLoop == Init => LoopInv
  BY ConstantsAssumption
     DEF Init, LoopInv, TypeOK, LoopShape, DeletedMeansHandled, NoMetrics, Ended

LEMMA StutterLoop == LoopInv /\ UNCHANGED vars => LoopInv'
  BY DEF LoopInv, TypeOK, LoopShape, DeletedMeansHandled, vars, sqsVars, loopVars

\* A counter of a process goes up by a natural number.
LEMMA CountType ==
  ASSUME TypeOK, NEW c \in Consumers, NEW n \in Nat,
         NEW counter \in {"received", "processed", "failed"}, Count(c, counter, n)
  PROVE  metrics' \in [Consumers -> [received : Nat, processed : Nat, failed : Nat]]
  BY DEF TypeOK, Count

\* Handing messages out keeps the types of SQS and deletes nothing.
LEMMA HandOutType ==
  ASSUME TypeOK, NEW c \in Consumers, NEW ms \in Batches, HandOut(c, ms)
  PROVE  /\ queue' \in [Messages -> {"visible", "inflight", "deleted"}]
         /\ receiver' \in [Messages -> Consumers \cup {None}]
         /\ lapses' = lapses
         /\ ms \in SUBSET Messages /\ Cardinality(ms) \in Nat
         /\ \A m \in ms : queue[m] = "visible" /\ queue'[m] = "inflight"
         /\ \A m \in Messages \ ms : queue'[m] = queue[m]
<1>1. ms \in SUBSET Messages /\ \A m \in ms : queue[m] = "visible"
  BY DEF Batches, Visible
<1>2. Cardinality(ms) \in Nat
  BY <1>1, ConstantsAssumption, FS_Subset, FS_CardinalityType
<1> QED
  BY <1>1, <1>2 DEF HandOut, TypeOK

LEMMA NextLoop == LoopInv /\ Next => LoopInv'
<1> SUFFICES ASSUME LoopInv, Next PROVE LoopInv'
  OBVIOUS
<1> USE ConstantsAssumption DEF LoopInv, TypeOK, LoopShape, DeletedMeansHandled,
        Goto, Ended, sqsVars, loopVars
<1>1. ASSUME NEW c \in Consumers, ResolveQueue(c) PROVE LoopInv'
  BY <1>1 DEF ResolveQueue
<1>2. ASSUME NEW c \in Consumers, ResolveQueueFails(c) PROVE LoopInv'
  BY <1>2 DEF ResolveQueueFails, CallFails, Disrupt
<1>3. ASSUME NEW c \in Consumers, Receive(c) PROVE LoopInv'
  <2>1. PICK ms \in Batches : /\ HandOut(c, ms)
                              /\ batch' = [batch EXCEPT ![c] = ms]
                              /\ Count(c, "received", Cardinality(ms))
    BY <1>3 DEF Receive
  <2>2. TypeOK
    OBVIOUS
  <2> HIDE DEF Goto, TypeOK
  <2>3. /\ queue' \in [Messages -> {"visible", "inflight", "deleted"}]
        /\ receiver' \in [Messages -> Consumers \cup {None}]
        /\ lapses' = lapses
        /\ ms \in SUBSET Messages /\ Cardinality(ms) \in Nat
        /\ \A m \in Messages : queue'[m] = "deleted" => queue[m] = "deleted"
    BY <2>1, <2>2, HandOutType
  <2>4. metrics' \in [Consumers -> [received : Nat, processed : Nat, failed : Nat]]
    BY <2>1, <2>2, <2>3, CountType
  <2>5. pc' = [pc EXCEPT ![c] = "batch"]
    BY <1>3 DEF Receive, Goto
  <2>6. pc[c] = "poll" /\ UNCHANGED <<current, cancelled, handled, disruptions>>
    BY <1>3 DEF Receive
  <2> QED
    BY <2>1, <2>3, <2>4, <2>5, <2>6 DEF TypeOK
<1>14. ASSUME NEW c \in Consumers, ReceiveUnacked(c) PROVE LoopInv'
  <2>1. PICK ms \in Batches : HandOut(c, ms)
    BY <1>14 DEF ReceiveUnacked
  <2>2. TypeOK
    OBVIOUS
  <2> HIDE DEF Goto, TypeOK
  <2>3. /\ queue' \in [Messages -> {"visible", "inflight", "deleted"}]
        /\ receiver' \in [Messages -> Consumers \cup {None}]
        /\ lapses' = lapses
        /\ \A m \in Messages : queue'[m] = "deleted" => queue[m] = "deleted"
    BY <2>1, <2>2, HandOutType
  <2>4. disruptions' \in 0..MaxDisruptions
    BY <1>14, <2>2 DEF ReceiveUnacked, CallFails, Disrupt, TypeOK
  <2>5. /\ pc[c] = "poll"
        /\ pc' = [pc EXCEPT ![c] = "poll"] \/ pc' = [pc EXCEPT ![c] = "stopped"]
    BY <1>14 DEF ReceiveUnacked, Goto
  <2>6. UNCHANGED <<batch, current, cancelled, handled, metrics>>
    BY <1>14 DEF ReceiveUnacked
  <2> QED
    BY <2>3, <2>4, <2>5, <2>6 DEF TypeOK
<1>4. ASSUME NEW c \in Consumers, ReceiveNothing(c) PROVE LoopInv'
  BY <1>4, StutterLoop DEF ReceiveNothing
<1>5. ASSUME NEW c \in Consumers, StopPolling(c) PROVE LoopInv'
  BY <1>5 DEF StopPolling
<1>6. ASSUME NEW c \in Consumers, BatchDone(c) PROVE LoopInv'
  BY <1>6 DEF BatchDone
<1>7. ASSUME NEW c \in Consumers, Process(c) PROVE LoopInv'
  BY <1>7 DEF Process
<1>8. ASSUME NEW c \in Consumers, Delete(c) PROVE LoopInv'
  <2>1. metrics' \in [Consumers -> [received : Nat, processed : Nat, failed : Nat]]
    BY <1>8, CountType DEF Delete
  <2> QED
    BY <1>8, <2>1 DEF Delete, NextMessage
<1>9. ASSUME NEW c \in Consumers, DeleteFails(c) PROVE LoopInv'
  <2>1. metrics' \in [Consumers -> [received : Nat, processed : Nat, failed : Nat]]
    BY <1>9, CountType DEF DeleteFails
  <2>2. disruptions' \in 0..MaxDisruptions
    BY <1>9 DEF DeleteFails, CallFails, Disrupt
  <2>3. \/ queue' = queue
        \/ queue' = [queue EXCEPT ![current[c]] = "deleted"]
    BY <1>9 DEF DeleteFails
  <2>4. /\ pc[c] = "delete" /\ pc' = [pc EXCEPT ![c] = "batch"]
        /\ current' = [current EXCEPT ![c] = None]
        /\ UNCHANGED <<receiver, lapses, batch, cancelled, handled>>
    BY <1>9 DEF DeleteFails, NextMessage
  <2>5. DeletedMeansHandled'
    BY <2>3, <2>4
  <2> QED
    BY <2>1, <2>2, <2>3, <2>4, <2>5
<1>10. ASSUME NEW c \in Consumers, Restart(c) PROVE LoopInv'
  BY <1>10 DEF Restart, NoMetrics
<1>11. ASSUME NEW c \in Consumers, Signal(c) PROVE LoopInv'
  BY <1>11 DEF Signal, Disrupt
<1>12. ASSUME NEW c \in Consumers, Crash(c) PROVE LoopInv'
  BY <1>12 DEF Crash, Disrupt
<1>13. ASSUME NEW m \in Messages, VisibilityLapses(m) PROVE LoopInv'
  BY <1>13 DEF VisibilityLapses
<1> HIDE DEF LoopInv
<1> QED
  BY <1>1, <1>2, <1>3, <1>4, <1>5, <1>6, <1>7, <1>8, <1>9, <1>10, <1>11, <1>12,
     <1>13, <1>14 DEF Next, Step

\* Every behaviour keeps the loop's invariant.
LEMMA LoopInvHolds == Spec => []LoopInv
<1>1. LoopInv /\ [Next]_vars => LoopInv'
  BY NextLoop, StutterLoop
<1> QED
  BY InitLoop, <1>1, PTL DEF Spec

\* Every variable of the SQS consumer keeps its type, and its delete has a
\* message in hand.
THEOREM SqsTypeCorrect == Spec => []TypeOK
<1>1. LoopInv => TypeOK
  BY DEF LoopInv
<1> QED
  BY LoopInvHolds, <1>1, PTL

\* At-least-once on SQS: RunSQS deletes only messages it processed.
THEOREM SqsDeletedAreHandled == Spec => []DeletedMeansHandled
<1>1. LoopInv => DeletedMeansHandled
  BY DEF LoopInv
<1> QED
  BY LoopInvHolds, <1>1, PTL

-----------------------------------------------------------------------------
(***************************************************************************)
(* One run of the handler per delivery.                                    *)
(***************************************************************************)
\* Deliveries only go up, whatever happens to the message, and a message
\* nobody took or processed keeps the bound.
LEMMA DeliveriesSuffice ==
  ASSUME TypeOK, TypeOK', OneProcessPerDelivery,
         \A m \in Messages : /\ Pending(m)' \subseteq Pending(m)
                             /\ handled'[m] = handled[m]
                             /\ Deliveries(m) <= Deliveries(m)'
  PROVE  OneProcessPerDelivery'
<1> SUFFICES ASSUME NEW m \in Messages
             PROVE  handled'[m] + Cardinality(Pending(m)') <= Deliveries(m)'
  BY DEF OneProcessPerDelivery
<1>1. IsFiniteSet(Pending(m))
  BY ConstantsAssumption, FS_Subset DEF Pending
<1>2. /\ IsFiniteSet(Pending(m)') /\ Cardinality(Pending(m)') <= Cardinality(Pending(m))
  BY <1>1, FS_Subset
<1>3. /\ Cardinality(Pending(m)) \in Nat /\ Cardinality(Pending(m)') \in Nat
      /\ handled[m] \in Nat /\ Deliveries(m) \in Nat /\ Deliveries(m)' \in Nat
  BY <1>1, <1>2, FS_CardinalityType DEF TypeOK, Deliveries
<1>4. handled[m] + Cardinality(Pending(m)) <= Deliveries(m)
  BY DEF OneProcessPerDelivery
<1> QED
  BY <1>2, <1>3, <1>4

LEMMA InitDelivery == Init => OneProcessPerDelivery
<1> SUFFICES ASSUME Init, NEW m \in Messages
             PROVE  handled[m] + Cardinality(Pending(m)) <= Deliveries(m)
  BY DEF OneProcessPerDelivery
<1>1. Pending(m) = {}
  BY DEF Init, Pending
<1> QED
  BY <1>1, FS_EmptySet DEF Init, Deliveries

\* Actions that leave the queue, the batches and what was processed alone.
LEMMA QuietStepDelivery ==
  ASSUME TypeOK, TypeOK', OneProcessPerDelivery, UNCHANGED <<queue, lapses, handled>>,
         \A m \in Messages : Pending(m)' \subseteq Pending(m)
  PROVE  OneProcessPerDelivery'
<1>1. \A m \in Messages : Deliveries(m) <= Deliveries(m)'
  BY DEF Deliveries, TypeOK
<1> QED
  BY <1>1, DeliveriesSuffice

LEMMA NextDelivery ==
  LoopInv /\ LoopInv' /\ OneProcessPerDelivery /\ [Next]_vars => OneProcessPerDelivery'
<1> SUFFICES ASSUME LoopInv, LoopInv', OneProcessPerDelivery, [Next]_vars
             PROVE  OneProcessPerDelivery'
  OBVIOUS
<1>0. TypeOK /\ TypeOK' /\ LoopShape
  BY DEF LoopInv
<1> DEFINE Shrinks == \A m \in Messages : Pending(m)' \subseteq Pending(m)
<1>1. ASSUME NEW c \in Consumers, Process(c) PROVE OneProcessPerDelivery'
  <2>1. PICK n \in batch[c] : /\ batch' = [batch EXCEPT ![c] = @ \ {n}]
                              /\ handled' = [handled EXCEPT ![n] = @ + 1]
    BY <1>1 DEF Process
  <2>2. pc[c] = "batch" /\ pc' = [pc EXCEPT ![c] = "delete"] /\ UNCHANGED sqsVars
    BY <1>1 DEF Process, Goto
  <2> SUFFICES ASSUME NEW m \in Messages
               PROVE  handled'[m] + Cardinality(Pending(m)') <= Deliveries(m)'
    BY DEF OneProcessPerDelivery
  <2>3. Deliveries(m)' = Deliveries(m) /\ Deliveries(m) \in Nat
    BY <2>2, <1>0 DEF Deliveries, sqsVars, TypeOK
  <2>4. IsFiniteSet(Pending(m)) /\ Cardinality(Pending(m)) \in Nat
    BY ConstantsAssumption, FS_Subset, FS_CardinalityType DEF Pending
  <2>5. handled[m] + Cardinality(Pending(m)) <= Deliveries(m) /\ handled[m] \in Nat
    BY <1>0 DEF OneProcessPerDelivery, TypeOK
  <2>6. CASE m = n
    <3>1. Pending(m)' = Pending(m) \ {c} /\ c \in Pending(m)
      BY <2>1, <2>2, <2>6, <1>0 DEF Pending, Ended, TypeOK
    <3>2. Cardinality(Pending(m)') = Cardinality(Pending(m)) - 1
      BY <3>1, <2>4, FS_RemoveElement
    <3>3. handled'[m] = handled[m] + 1
      BY <2>1, <2>6, <1>0 DEF TypeOK
    <3> QED
      BY <2>3, <2>4, <2>5, <3>2, <3>3
  <2>7. CASE m # n
    <3>1. Pending(m)' = Pending(m)
      BY <2>1, <2>2, <2>7, <1>0 DEF Pending, Ended, TypeOK
    <3>2. handled'[m] = handled[m]
      BY <2>1, <2>7, <1>0 DEF TypeOK
    <3> QED
      BY <2>3, <2>5, <3>1, <3>2
  <2> QED
    BY <2>6, <2>7
<1>2. ASSUME NEW c \in Consumers, Receive(c) PROVE OneProcessPerDelivery'
  <2>0. PICK ms \in Batches : HandOut(c, ms) /\ batch' = [batch EXCEPT ![c] = ms]
    BY <1>2 DEF Receive
  <2>1. /\ batch' = [batch EXCEPT ![c] = ms]
        /\ ms \in SUBSET Messages /\ \A m \in ms : queue[m] = "visible"
        /\ queue' = [m \in Messages |-> IF m \in ms THEN "inflight" ELSE queue[m]]
    BY <2>0 DEF HandOut, Batches, Visible
  <2>2. /\ pc[c] = "poll" /\ pc' = [pc EXCEPT ![c] = "batch"]
        /\ lapses' = lapses /\ handled' = handled
    BY <1>2, <2>0 DEF Receive, HandOut, Goto
  <2> SUFFICES ASSUME NEW m \in Messages
               PROVE  handled'[m] + Cardinality(Pending(m)') <= Deliveries(m)'
    BY DEF OneProcessPerDelivery
  <2>3. /\ IsFiniteSet(Pending(m)) /\ Cardinality(Pending(m)) \in Nat
        /\ IsFiniteSet(Pending(m)') /\ Cardinality(Pending(m)') \in Nat
    BY ConstantsAssumption, FS_Subset, FS_CardinalityType DEF Pending
  <2>4. /\ handled[m] + Cardinality(Pending(m)) <= Deliveries(m)
        /\ handled'[m] = handled[m] /\ handled[m] \in Nat /\ lapses[m] \in Nat
    BY <1>0, <2>2 DEF OneProcessPerDelivery, TypeOK
  <2>5. CASE m \in ms
    <3>1. Pending(m)' \subseteq Pending(m) \cup {c}
      BY <2>1, <2>2, <1>0 DEF Pending, Ended, TypeOK
    <3>2. Cardinality(Pending(m)') <= Cardinality(Pending(m)) + 1
      <4>0. /\ IsFiniteSet(Pending(m) \cup {c})
            /\ Cardinality(Pending(m) \cup {c})
                 = IF c \in Pending(m) THEN Cardinality(Pending(m))
                   ELSE Cardinality(Pending(m)) + 1
        BY <2>3, FS_AddElement
      <4>1. /\ IsFiniteSet(Pending(m) \cup {c})
            /\ Cardinality(Pending(m) \cup {c}) <= Cardinality(Pending(m)) + 1
        BY <2>3, <4>0
      <4>2. Cardinality(Pending(m)') <= Cardinality(Pending(m) \cup {c})
        BY <3>1, <4>1, FS_Subset
      <4>3. Cardinality(Pending(m) \cup {c}) \in Nat
        BY <4>1, FS_CardinalityType
      <4> QED
        BY <2>3, <4>1, <4>2, <4>3
    <3>3. Deliveries(m) = lapses[m] /\ Deliveries(m)' = lapses[m] + 1
      BY <2>1, <2>2, <2>5, <1>0 DEF Deliveries, TypeOK
    <3> QED
      BY <2>3, <2>4, <3>2, <3>3
  <2>6. CASE m \notin ms
    <3>1. Pending(m)' \subseteq Pending(m)
      BY <2>1, <2>2, <2>6, <1>0 DEF Pending, Ended, TypeOK
    <3>2. Cardinality(Pending(m)') <= Cardinality(Pending(m))
      BY <3>1, <2>3, FS_Subset
    <3>3. Deliveries(m)' = Deliveries(m) /\ Deliveries(m) \in Nat
      BY <2>1, <2>2, <2>6, <1>0 DEF Deliveries, TypeOK
    <3> QED
      BY <2>3, <2>4, <3>2, <3>3
  <2> QED
    BY <2>5, <2>6
<1>3. ASSUME NEW c \in Consumers, Delete(c) \/ DeleteFails(c)
      PROVE  OneProcessPerDelivery'
  <2>1. /\ pc[c] = "delete" /\ pc' = [pc EXCEPT ![c] = "batch"]
        /\ UNCHANGED <<lapses, batch, handled>>
        /\ queue' = queue \/ queue' = [queue EXCEPT ![current[c]] = "deleted"]
    BY <1>3 DEF Delete, DeleteFails, NextMessage, Goto
  <2>2. Shrinks
    BY <2>1, <1>0 DEF Pending, Ended, TypeOK
  <2>3. \A m \in Messages : Deliveries(m) <= Deliveries(m)'
    BY <2>1, <1>0 DEF Deliveries, TypeOK
  <2> QED
    BY <1>0, <2>1, <2>2, <2>3, DeliveriesSuffice
<1>4. ASSUME NEW n \in Messages, VisibilityLapses(n) PROVE OneProcessPerDelivery'
  <2>1. Shrinks /\ handled' = handled
    BY <1>4 DEF VisibilityLapses, Pending, loopVars
  <2>2. \A m \in Messages : Deliveries(m) <= Deliveries(m)'
    BY <1>4, <1>0 DEF VisibilityLapses, Deliveries, TypeOK
  <2> QED
    BY <1>0, <2>1, <2>2, DeliveriesSuffice
<1>5. ASSUME NEW c \in Consumers,
             ResolveQueue(c) \/ ResolveQueueFails(c) \/ StopPolling(c) \/ BatchDone(c)
             \/ Signal(c) \/ Crash(c)
      PROVE  OneProcessPerDelivery'
  <2>1. UNCHANGED <<queue, lapses, handled, batch>>
    BY <1>5 DEF ResolveQueue, ResolveQueueFails, StopPolling, BatchDone, Signal,
                Crash, sqsVars
  <2>2. /\ pc[c] \notin Ended
        /\ pc' = pc \/ \E p \in {"poll", "batch"} \cup Ended : pc' = [pc EXCEPT ![c] = p]
    BY <1>5 DEF ResolveQueue, ResolveQueueFails, StopPolling, BatchDone, Signal,
                Crash, Goto, Ended
  <2>3. Shrinks
    BY <2>1, <2>2, <1>0 DEF Pending, TypeOK
  <2> QED
    BY <1>0, <2>1, <2>3, QuietStepDelivery
<1>6. ASSUME NEW c \in Consumers, Restart(c) PROVE OneProcessPerDelivery'
  <2>1. Shrinks
    BY <1>6, <1>0 DEF Restart, Goto, Pending, TypeOK
  <2> QED
    BY <1>0, <1>6, <2>1, QuietStepDelivery DEF Restart, sqsVars
<1>8. ASSUME NEW c \in Consumers, ReceiveUnacked(c) PROVE OneProcessPerDelivery'
  <2>1. PICK ms \in Batches : HandOut(c, ms)
    BY <1>8 DEF ReceiveUnacked
  <2>2. /\ lapses' = lapses
        /\ \A m \in ms : queue[m] = "visible" /\ queue'[m] = "inflight"
        /\ \A m \in Messages \ ms : queue'[m] = queue[m]
    BY <1>0, <2>1, HandOutType
  <2>3. \A m \in Messages : Deliveries(m) <= Deliveries(m)'
    BY <1>0, <2>2 DEF Deliveries, TypeOK
  <2>4. /\ UNCHANGED <<batch, handled>> /\ pc[c] = "poll"
        /\ \E p \in {"poll", "stopped"} : pc' = [pc EXCEPT ![c] = p]
    BY <1>8 DEF ReceiveUnacked, Goto
  <2>5. Shrinks
    BY <2>4, <1>0 DEF Pending, Ended, TypeOK
  <2> QED
    BY <1>0, <2>3, <2>4, <2>5, DeliveriesSuffice
<1>7. CASE UNCHANGED vars
  <2>1. Shrinks /\ UNCHANGED <<queue, lapses, handled>>
    BY <1>7 DEF vars, sqsVars, loopVars, Pending
  <2> QED
    BY <1>0, <2>1, QuietStepDelivery
<1> QED
  BY <1>1, <1>2, <1>3, <1>4, <1>5, <1>6, <1>7, <1>8 DEF Next, Step, ReceiveNothing

\* Each delivery of a message is processed at most once, by whichever consumer
\* of RunSQS has it.
THEOREM SqsOneProcessPerDelivery == Spec => []OneProcessPerDelivery
<1> QED
  BY LoopInvHolds, InitDelivery, NextDelivery, PTL DEF Spec

\* A message is processed again only after its visibility timeout lapsed: one
\* more time for each lapse.
THEOREM SqsRepeatsNeedRedelivery == Spec => []RepeatsNeedRedelivery
<1>1. LoopInv /\ OneProcessPerDelivery => RepeatsNeedRedelivery
  <2> SUFFICES ASSUME LoopInv, OneProcessPerDelivery, NEW m \in Messages
               PROVE  handled[m] <= 1 + lapses[m]
    BY DEF RepeatsNeedRedelivery
  <2>1. Cardinality(Pending(m)) \in Nat
    BY ConstantsAssumption, FS_Subset, FS_CardinalityType DEF Pending
  <2> QED
    BY <2>1 DEF LoopInv, TypeOK, OneProcessPerDelivery, Deliveries
<1> QED
  BY <1>1, LoopInvHolds, SqsOneProcessPerDelivery, PTL

-----------------------------------------------------------------------------
(***************************************************************************)
(* RunSQS implements AtLeastOnce.                                          *)
(***************************************************************************)
LEMMA SqsDeliveryStep ==
  ASSUME LoopInv, LoopInv', OneProcessPerDelivery, [Next]_vars
  PROVE  [Delivery!Next]_(Delivery!vars)
<1>0. TypeOK
  BY DEF LoopInv
<1>1. ASSUME UNCHANGED <<lapses, handled>>, Deleted' = Deleted
      PROVE  UNCHANGED Delivery!vars
  BY <1>1 DEF Delivery!vars
<1>2. ASSUME NEW c \in Consumers, Process(c) PROVE Delivery!Next
  <2>1. PICK m \in batch[c] : handled' = [handled EXCEPT ![m] = @ + 1]
    BY <1>2 DEF Process
  <2>2. /\ m \in Messages /\ c \in Pending(m)
        /\ UNCHANGED <<queue, lapses>>
    BY <1>0, <1>2 DEF Process, TypeOK, Pending, Ended, sqsVars
  <2>3. Cardinality(Pending(m)) \in Nat /\ Cardinality(Pending(m)) # 0
    <3>1. IsFiniteSet(Pending(m))
      BY ConstantsAssumption, FS_Subset DEF Pending
    <3> QED
      BY <2>2, <3>1, FS_EmptySet, FS_CardinalityType
  <2>4. /\ handled[m] + Cardinality(Pending(m)) <= lapses[m] + 1
        /\ handled[m] \in Nat /\ lapses[m] \in Nat
    BY <1>0, <2>2, <2>3 DEF OneProcessPerDelivery, Deliveries, TypeOK
  <2>5. handled[m] <= lapses[m]
    BY <2>3, <2>4
  <2>6. Delivery!Handle(m)
    BY <2>1, <2>2, <2>5 DEF Delivery!Handle, Deleted
  <2> QED
    BY <2>2, <2>6 DEF Delivery!Next
<1>3. ASSUME NEW c \in Consumers, Delete(c) \/ DeleteFails(c) PROVE Delivery!Next
  <2>1. UNCHANGED <<lapses, handled>>
    BY <1>3 DEF Delete, DeleteFails
  <2>2. Deleted' \subseteq {m \in Messages : handled[m] > 0}
    BY <2>1 DEF LoopInv, DeletedMeansHandled, Deleted
  <2>3. Delivery!Acknowledge
    BY <2>1, <2>2 DEF Delivery!Acknowledge
  <2> QED
    BY <2>3 DEF Delivery!Next
<1>4. ASSUME NEW m \in Messages, VisibilityLapses(m) PROVE Delivery!Next
  <2>1. /\ queue[m] = "inflight" /\ queue' = [queue EXCEPT ![m] = "visible"]
        /\ lapses' = [lapses EXCEPT ![m] = lapses[m] + 1] /\ handled' = handled
    BY <1>4 DEF VisibilityLapses
  <2>2. Deleted' = Deleted /\ {m} \in SUBSET (Messages \ Deleted)
    BY <1>0, <2>1 DEF Deleted, TypeOK
  <2>3. lapses' = [n \in Messages |-> IF n \in {m} THEN lapses[n] + 1 ELSE lapses[n]]
    BY <1>0, <2>1 DEF TypeOK
  <2>4. Delivery!Redeliver
    BY <2>1, <2>2, <2>3 DEF Delivery!Redeliver
  <2> QED
    BY <2>4 DEF Delivery!Next
<1>5. ASSUME NEW c \in Consumers, Receive(c) \/ ReceiveUnacked(c)
      PROVE  UNCHANGED Delivery!vars
  <2>1. PICK ms \in Batches : HandOut(c, ms)
    BY <1>5 DEF Receive, ReceiveUnacked
  <2>2. Deleted' = Deleted /\ lapses' = lapses
    BY <2>1 DEF Deleted, HandOut, Batches, Visible
  <2> QED
    BY <1>1, <1>5, <2>2 DEF Receive, ReceiveUnacked
<1>6. ASSUME NEW c \in Consumers,
             \/ ResolveQueue(c) \/ ResolveQueueFails(c) \/ StopPolling(c)
             \/ BatchDone(c) \/ Signal(c) \/ Crash(c) \/ Restart(c)
      PROVE  UNCHANGED Delivery!vars
  <2>1. UNCHANGED <<queue, lapses, handled>>
    BY <1>6 DEF ResolveQueue, ResolveQueueFails, StopPolling, BatchDone, Signal,
                Crash, Restart, sqsVars
  <2> QED
    BY <1>1, <2>1 DEF Deleted
<1>7. CASE UNCHANGED vars
  BY <1>1, <1>7 DEF vars, sqsVars, Deleted
<1> QED
  BY <1>2, <1>3, <1>4, <1>5, <1>6, <1>7 DEF Next, Step, ReceiveNothing

\* The consumers of the queue implement AtLeastOnce, over any number of
\* consumers, messages, lapses, failed and lost deletes, signals and crashes.
THEOREM SqsKeepsDelivery == Spec => KeepsDelivery
<1>1. Init => Delivery!Init
  BY DEF Init, Delivery!Init, Deleted
<1>2. LoopInv /\ LoopInv' /\ OneProcessPerDelivery /\ [Next]_vars
        => [Delivery!Next]_(Delivery!vars)
  BY SqsDeliveryStep
<1> QED
  BY <1>1, <1>2, LoopInvHolds, SqsOneProcessPerDelivery, PTL
  DEF Spec, KeepsDelivery, Delivery!Spec

-----------------------------------------------------------------------------
(***************************************************************************)
(* The counters.                                                           *)
(***************************************************************************)
LEMMA InitBalance == Init => CountersBalance
  BY FS_EmptySet DEF Init, CountersBalance, NoMetrics

LEMMA NextBalance ==
  LoopInv /\ CountersBalance /\ [Next]_vars => CountersBalance'
<1> SUFFICES ASSUME LoopInv, CountersBalance, [Next]_vars,
                    NEW d \in Consumers
             PROVE  metrics'[d].received
                      = metrics'[d].processed + metrics'[d].failed
                          + Cardinality(batch'[d])
                          + (IF current'[d] = None THEN 0 ELSE 1)
  BY DEF CountersBalance
<1> DEFINE Balanced == metrics'[d].received
                      = metrics'[d].processed + metrics'[d].failed
                          + Cardinality(batch'[d])
                          + (IF current'[d] = None THEN 0 ELSE 1)
<1>0. TypeOK /\ LoopShape
  BY DEF LoopInv
<1>f. ASSUME metrics'[d] = metrics[d], batch'[d] = batch[d], current'[d] = current[d]
      PROVE  Balanced
  BY <1>f DEF CountersBalance
<1>n. /\ metrics[d].received \in Nat /\ metrics[d].processed \in Nat
      /\ metrics[d].failed \in Nat
      /\ IsFiniteSet(batch[d]) /\ Cardinality(batch[d]) \in Nat
  <2>1. batch[d] \in SUBSET Messages /\ metrics[d] \in [received : Nat, processed : Nat, failed : Nat]
    BY <1>0 DEF TypeOK
  <2> QED
    BY <2>1, ConstantsAssumption, FS_Subset, FS_CardinalityType
<1>b. metrics[d].received
        = metrics[d].processed + metrics[d].failed + Cardinality(batch[d])
            + (IF current[d] = None THEN 0 ELSE 1)
  BY DEF CountersBalance
<1>1. ASSUME NEW c \in Consumers, Receive(c) PROVE Balanced
  <2>1. PICK ms \in Batches :
          /\ batch' = [batch EXCEPT ![c] = ms]
          /\ Count(c, "received", Cardinality(ms))
    BY <1>1 DEF Receive
  <2>2. pc[c] = "poll" /\ current' = current
    BY <1>1 DEF Receive
  <2>3. CASE d = c
    <3>1. batch[d] = {} /\ current[d] = None /\ Cardinality(batch[d]) = 0
      BY <2>2, <2>3, <1>0, FS_EmptySet DEF LoopShape
    <3>2. Cardinality(ms) \in Nat
      BY <2>1, ConstantsAssumption, FS_Subset, FS_CardinalityType DEF Batches, Visible
    <3>3. /\ metrics'[d].received = metrics[d].received + Cardinality(ms)
          /\ metrics'[d].processed = metrics[d].processed
          /\ metrics'[d].failed = metrics[d].failed
      BY <2>1, <2>3, <1>0 DEF Count, TypeOK
    <3>4. batch'[d] = ms /\ current'[d] = None
      BY <2>1, <2>2, <2>3, <3>1, <1>0 DEF TypeOK
    <3>5. metrics[d].received = metrics[d].processed + metrics[d].failed
      BY <1>b, <1>n, <3>1
    <3> QED
      BY <1>n, <3>2, <3>3, <3>4, <3>5
  <2>4. CASE d # c
    BY <2>1, <2>2, <2>4, <1>0, <1>f DEF Count, TypeOK
  <2> QED
    BY <2>3, <2>4
<1>2. ASSUME NEW c \in Consumers, Process(c) PROVE Balanced
  <2>1. PICK m \in batch[c] : /\ current' = [current EXCEPT ![c] = m]
                              /\ batch' = [batch EXCEPT ![c] = @ \ {m}]
    BY <1>2 DEF Process
  <2>2. pc[c] = "batch" /\ metrics' = metrics
    BY <1>2 DEF Process
  <2>3. CASE d = c
    <3>1. current[d] = None /\ m \in Messages /\ m # None
      BY <2>1, <2>2, <2>3, <1>0, ConstantsAssumption DEF LoopShape, TypeOK
    <3>2. batch'[d] = batch[d] \ {m} /\ current'[d] = m /\ m \in batch[d]
      BY <2>1, <2>3, <1>0 DEF TypeOK
    <3>3. Cardinality(batch'[d]) = Cardinality(batch[d]) - 1
      BY <3>2, <1>n, FS_RemoveElement
    <3> QED
      BY <1>b, <1>n, <2>2, <3>1, <3>2, <3>3
  <2>4. CASE d # c
    BY <2>1, <2>2, <2>4, <1>0, <1>f DEF TypeOK
  <2> QED
    BY <2>3, <2>4
<1>3. ASSUME NEW c \in Consumers, NEW counter \in {"processed", "failed"},
             pc[c] = "delete", Count(c, counter, 1), NextMessage(c), batch' = batch
      PROVE  Balanced
  <2>1. CASE d = c
    <3>1. current[d] # None /\ current'[d] = None
      BY <1>3, <2>1, <1>0, ConstantsAssumption DEF TypeOK, NextMessage
    <3>2. /\ metrics'[d].received = metrics[d].received
          /\ metrics'[d].processed + metrics'[d].failed
                = metrics[d].processed + metrics[d].failed + 1
      BY <1>3, <2>1, <1>0, <1>n DEF Count, TypeOK
    <3>3. metrics'[d].processed \in Nat /\ metrics'[d].failed \in Nat
      BY <1>3, <2>1, <1>0, <1>n DEF Count, TypeOK
    <3> QED
      BY <1>3, <1>b, <1>n, <3>1, <3>2, <3>3
  <2>2. CASE d # c
    BY <1>3, <2>2, <1>0, <1>f DEF Count, NextMessage, TypeOK
  <2> QED
    BY <2>1, <2>2
<1>4. ASSUME NEW c \in Consumers, Delete(c) PROVE Balanced
  BY <1>4, <1>3 DEF Delete
<1>5. ASSUME NEW c \in Consumers, DeleteFails(c) PROVE Balanced
  BY <1>5, <1>3 DEF DeleteFails
<1>6. ASSUME NEW c \in Consumers, Restart(c) PROVE Balanced
  BY <1>6, <1>0, <1>f, FS_EmptySet DEF Restart, NoMetrics, TypeOK
<1>7. CASE UNCHANGED <<metrics, batch, current>>
  BY <1>7, <1>f
<1>8. ASSUME NEW c \in Consumers,
             ResolveQueue(c) \/ ResolveQueueFails(c) \/ ReceiveNothing(c)
             \/ ReceiveUnacked(c) \/ StopPolling(c) \/ BatchDone(c) \/ Signal(c)
             \/ Crash(c)
      PROVE  Balanced
  BY <1>8, <1>7 DEF ResolveQueue, ResolveQueueFails, ReceiveNothing, ReceiveUnacked,
              StopPolling, BatchDone, Signal, Crash, vars, loopVars
<1>9. ASSUME (UNCHANGED vars) \/ (\E m \in Messages : VisibilityLapses(m))
      PROVE  Balanced
  BY <1>9, <1>7 DEF vars, loopVars, VisibilityLapses
<1> HIDE DEF Balanced
<1>10. Balanced
  BY <1>1, <1>2, <1>4, <1>5, <1>6, <1>8, <1>9 DEF Next, Step
<1> QED
  BY <1>10 DEF Balanced

\* The metrics of a process add up at every moment: received is processed plus
\* failed plus what it still has.
THEOREM SqsCountersBalance == Spec => []CountersBalance
<1> QED
  BY LoopInvHolds, InitBalance, NextBalance, PTL DEF Spec

-----------------------------------------------------------------------------
(***************************************************************************)
(* The process around the consumer.                                        *)
(***************************************************************************)
\* Every step of the process is a step of the consumer or leaves it alone.
LEMMA ProcessStepIsStep == [ProcessNext]_processVars => [Next]_vars
<1> SUFFICES ASSUME [ProcessNext]_processVars PROVE Next \/ UNCHANGED vars
  OBVIOUS
<1>1. ASSUME NEW c \in Consumers,
             \/ ProcessStep(c) \/ SetupFails(c) \/ PollFails(c)
             \/ Interrupt(c) \/ Die(c)
      PROVE  Next \/ UNCHANGED vars
  BY <1>1 DEF ProcessStep, Setup, SetupFails, PollFails, Resolve, Consume, Return, Flush, FlushFails,
              Interrupt, Die, Replace, Next, Step
<1>2. CASE (\E m \in Messages : VisibilityLapses(m)) \/ UNCHANGED processVars
  BY <1>2 DEF processVars, Next
<1> QED
  BY <1>1, <1>2 DEF ProcessNext

\* The provisioner with its start, its telemetry and its exits is the consumer
\* of ProvisionerSqs, so that the theorems above hold of it.
THEOREM ProvisionerIsConsumer == ProcessSpec => Spec
<1>1. ProcessInit => Init
  BY DEF ProcessInit
<1> QED
  BY <1>1, ProcessStepIsStep, PTL DEF ProcessSpec, Spec

ProcessInv == LoopInv /\ ProcessTypeOK /\ StoppedIsFlushed

LEMMA InitProcess == ProcessInit => ProcessInv
<1> SUFFICES ASSUME ProcessInit PROVE ProcessInv
  OBVIOUS
<1>1. Init /\ LoopInv /\ TypeOK
  BY InitLoop DEF ProcessInit, LoopInv
<1> QED
  BY <1>1 DEF ProcessInit, Init, ProcessInv, ProcessTypeOK, StoppedIsFlushed, Ended

\* It is enough to look at the process that moves: what it does to its own entry.
LEMMA ProcessMoves ==
  ASSUME ProcessInv, LoopInv', NEW c \in Consumers,
         NEW p \in {"setup", "consume", "flush", "gone"},
         NEW q \in {"start", "poll", "batch", "delete"} \cup Ended,
         main' = [main EXCEPT ![c] = p], pc' = [pc EXCEPT ![c] = q],
         stale' \in SUBSET Consumers, cut' \in SUBSET Consumers,
         \A d \in Consumers \ {c} :
            /\ (d \in stale' <=> d \in stale) /\ (d \in cut' <=> d \in cut)
            /\ batch'[d] = batch[d] /\ current'[d] = current[d],
         p = "setup" => q = "start",
         p = "consume" <=> q \notin Ended /\ p # "setup",
         p = "flush" => q = "stopped",
         p = "gone" /\ q = "stopped" /\ c \in stale' => c \in cut'
  PROVE  ProcessInv'
<1>0. ProcessTypeOK /\ StoppedIsFlushed /\ TypeOK /\ TypeOK' /\ LoopShape'
  BY DEF ProcessInv, LoopInv, ProcessTypeOK
<1>1. /\ main'[c] = p /\ pc'[c] = q
      /\ \A d \in Consumers \ {c} : main'[d] = main[d] /\ pc'[d] = pc[d]
  BY <1>0 DEF ProcessTypeOK, TypeOK
<1>2. ProcessTypeOK'
  <2>1. main' \in [Consumers -> {"setup", "consume", "flush", "gone"}]
    BY <1>0 DEF ProcessTypeOK
  <2>2. \A d \in Consumers : /\ main'[d] = "setup" => pc'[d] = "start"
                             /\ main'[d] = "consume" <=> pc'[d] \notin Ended /\ main'[d] # "setup"
                             /\ main'[d] = "flush" => pc'[d] = "stopped"
    BY <1>0, <1>1 DEF ProcessTypeOK
  <2> QED
    BY <1>0, <2>1, <2>2 DEF ProcessTypeOK, Ended
<1>3. StoppedIsFlushed'
  <2> SUFFICES ASSUME NEW d \in Consumers, main'[d] = "gone", pc'[d] \notin {"crashed", "exited"}
               PROVE  /\ d \in stale' => d \in cut'
                      /\ batch'[d] = {} /\ current'[d] = None
    BY DEF StoppedIsFlushed
  <2>1. pc'[d] = "stopped"
    BY <1>2 DEF ProcessTypeOK, Ended
  <2>2. batch'[d] = {} /\ current'[d] = None
    BY <2>1, <1>0 DEF LoopShape
  <2>3. d \in stale' => d \in cut'
    BY <1>0, <1>1, <2>1 DEF StoppedIsFlushed
  <2> QED
    BY <2>2, <2>3
<1> QED
  BY <1>2, <1>3 DEF ProcessInv

LEMMA NextProcess == ProcessInv /\ [ProcessNext]_processVars => ProcessInv'
<1> SUFFICES ASSUME ProcessInv, [ProcessNext]_processVars PROVE ProcessInv'
  OBVIOUS
<1>0. /\ ProcessTypeOK /\ StoppedIsFlushed /\ LoopInv /\ TypeOK /\ LoopInv' /\ TypeOK'
  BY ProcessStepIsStep, NextLoop, StutterLoop DEF ProcessInv, LoopInv
<1>1. ASSUME NEW c \in Consumers, Setup(c) PROVE ProcessInv'
  <2>1. /\ main[c] = "setup" /\ pc[c] = "start" /\ main' = [main EXCEPT ![c] = "consume"]
        /\ UNCHANGED <<pc, batch, current, stale, cut>>
    BY <1>1 DEF Setup, Main, vars, loopVars
  <2>2. pc' = [pc EXCEPT ![c] = "start"]
    BY <2>1, <1>0 DEF TypeOK
  <2> QED
    BY <1>0, <2>1, <2>2, ProcessMoves DEF ProcessTypeOK, Ended
<1>2. ASSUME NEW c \in Consumers, SetupFails(c) \/ Die(c) PROVE ProcessInv'
  <2>1. /\ main' = [main EXCEPT ![c] = "gone"] /\ pc' = [pc EXCEPT ![c] = "crashed"]
        /\ UNCHANGED <<batch, current, stale, cut>>
    BY <1>2 DEF SetupFails, Die, Crash, Main, Goto
  <2> QED
    BY <1>0, <2>1, ProcessMoves DEF ProcessTypeOK, Ended
<1>3. ASSUME NEW c \in Consumers, Resolve(c) PROVE ProcessInv'
  <2>1. /\ main[c] = "consume" /\ UNCHANGED <<batch, current, cut>> /\ Record(c)
    BY <1>3 DEF Resolve, ResolveQueue, ResolveQueueFails
  <2>2. PICK p \in {"consume", "flush", "gone"}, q \in {"poll", "stopped", "exited"} :
          /\ main' = [main EXCEPT ![c] = p] /\ pc' = [pc EXCEPT ![c] = q]
          /\ <<p, q>> \in {<<"consume", "poll">>, <<"flush", "stopped">>, <<"gone", "exited">>}
    <3>1. CASE ResolveQueue(c) /\ UNCHANGED main
      <4>1. main' = [main EXCEPT ![c] = "consume"]
        BY <2>1, <3>1, <1>0 DEF ProcessTypeOK
      <4> QED
        BY <3>1, <4>1 DEF ResolveQueue, Goto
    <3>2. CASE ResolveQueueFails(c) /\ Main(c, IF c \in cancelled THEN "flush" ELSE "gone")
      BY <3>2 DEF ResolveQueueFails, Goto, Main
    <3> QED
      BY <1>3, <3>1, <3>2 DEF Resolve
  <2>3. stale' \in {stale, stale \cup {c}}
    BY <2>1 DEF Record
  <2> QED
    BY <1>0, <2>1, <2>2, <2>3, ProcessMoves DEF ProcessTypeOK, Ended
<1>4. ASSUME NEW c \in Consumers, Consume(c) PROVE ProcessInv'
  <2>1. /\ main[c] = "consume" /\ main' = main /\ cut' = cut /\ Record(c)
    BY <1>4 DEF Consume
  <2>2. /\ pc' = pc \/ \E q \in {"poll", "batch", "delete"} : pc' = [pc EXCEPT ![c] = q]
        /\ \A d \in Consumers \ {c} : batch'[d] = batch[d] /\ current'[d] = current[d]
    BY <1>4, <1>0 DEF Consume, Receive, ReceiveNothing, BatchDone, Process, Delete, DeleteFails,
             NextMessage, Goto, TypeOK, vars, loopVars
  <2>3. pc[c] \in {"start", "poll", "batch", "delete"}
    BY <2>1, <1>0 DEF ProcessTypeOK, TypeOK
  <2>4. PICK q \in {"start", "poll", "batch", "delete"} : pc' = [pc EXCEPT ![c] = q]
    BY <2>2, <2>3, <1>0 DEF TypeOK
  <2>5. main' = [main EXCEPT ![c] = "consume"]
    BY <2>1, <1>0 DEF ProcessTypeOK
  <2>6. stale' \in {stale, stale \cup {c}}
    BY <2>1 DEF Record
  <2> QED
    BY <1>0, <2>1, <2>2, <2>4, <2>5, <2>6, ProcessMoves DEF ProcessTypeOK, Ended
<1>5. ASSUME NEW c \in Consumers, Return(c) PROVE ProcessInv'
  <2>1. /\ main' = [main EXCEPT ![c] = "flush"] /\ pc' = [pc EXCEPT ![c] = "stopped"]
        /\ UNCHANGED <<batch, current, stale, cut>>
    BY <1>5 DEF Return, StopPolling, Main, Goto
  <2> QED
    BY <1>0, <2>1, ProcessMoves DEF ProcessTypeOK, Ended
<1>6. ASSUME NEW c \in Consumers, Flush(c) \/ FlushFails(c) PROVE ProcessInv'
  <2>1. /\ main[c] = "flush" /\ main' = [main EXCEPT ![c] = "gone"]
        /\ UNCHANGED <<pc, batch, current>>
        /\ \/ stale' = stale \ {c} /\ cut' = cut
           \/ stale' = stale /\ cut' = cut \cup {c}
    BY <1>6 DEF Flush, FlushFails, Main, vars, loopVars
  <2>2. pc[c] = "stopped"
    BY <2>1, <1>0 DEF ProcessTypeOK
  <2>3. pc' = [pc EXCEPT ![c] = "stopped"]
    BY <2>1, <2>2, <1>0 DEF TypeOK
  <2> QED
    BY <1>0, <2>1, <2>3, ProcessMoves DEF ProcessTypeOK, Ended
<1>7. ASSUME NEW c \in Consumers, Replace(c) PROVE ProcessInv'
  <2>1. /\ main' = [main EXCEPT ![c] = "setup"] /\ pc' = [pc EXCEPT ![c] = "start"]
        /\ stale' = stale \ {c} /\ cut' = cut \ {c}
        /\ \A d \in Consumers \ {c} : batch'[d] = batch[d] /\ current'[d] = current[d]
    BY <1>7, <1>0 DEF Replace, Restart, Main, Goto, TypeOK
  <2> QED
    BY <1>0, <2>1, ProcessMoves DEF ProcessTypeOK, Ended
<1>12. ASSUME NEW c \in Consumers, PollFails(c) PROVE ProcessInv'
  <2>1. UNCHANGED <<batch, current, cut>> /\ Record(c)
    BY <1>12 DEF PollFails, ReceiveUnacked
  <2>2. \/ main' = [main EXCEPT ![c] = "flush"] /\ pc' = [pc EXCEPT ![c] = "stopped"]
        \/ main' = [main EXCEPT ![c] = "consume"] /\ pc' = [pc EXCEPT ![c] = "poll"]
    BY <1>12 DEF PollFails, ReceiveUnacked, Main, Goto
  <2>3. stale' \in {stale, stale \cup {c}}
    BY <2>1 DEF Record
  <2> QED
    BY <1>0, <2>1, <2>2, <2>3, ProcessMoves DEF ProcessTypeOK, Ended
<1>8. ASSUME UNCHANGED <<main, pc, batch, current, stale, cut>> PROVE ProcessInv'
  BY <1>8, <1>0 DEF ProcessInv, ProcessTypeOK, StoppedIsFlushed
<1>9. ASSUME NEW c \in Consumers, Interrupt(c) PROVE ProcessInv'
  BY <1>9, <1>8 DEF Interrupt, Signal, telemetryVars
<1>10. ASSUME NEW m \in Messages, VisibilityLapses(m), UNCHANGED telemetryVars
       PROVE  ProcessInv'
  BY <1>10, <1>8 DEF VisibilityLapses, loopVars, telemetryVars
<1>11. CASE UNCHANGED processVars
  BY <1>11, <1>8 DEF processVars, vars, loopVars, telemetryVars
<1> QED
  BY <1>1, <1>2, <1>3, <1>4, <1>5, <1>6, <1>7, <1>9, <1>10, <1>11, <1>12
     DEF ProcessNext, ProcessStep

LEMMA ProcessInvariant == ProcessSpec => []ProcessInv
  BY InitProcess, NextProcess, PTL DEF ProcessSpec

\* Every variable keeps its type, and a process consumes exactly while its main
\* is in the consumer.
THEOREM SqsProcessTypeCorrect == ProcessSpec => []ProcessTypeOK
<1>1. ProcessInv => ProcessTypeOK
  BY DEF ProcessInv
<1> QED
  BY ProcessInvariant, <1>1, PTL

\* A process stopped by a signal has processed its batch and exported its
\* telemetry, unless its flush failed.
THEOREM SqsStoppedIsFlushed == ProcessSpec => []StoppedIsFlushed
<1>1. ProcessInv => StoppedIsFlushed
  BY DEF ProcessInv
<1> QED
  BY ProcessInvariant, <1>1, PTL
=============================================================================
