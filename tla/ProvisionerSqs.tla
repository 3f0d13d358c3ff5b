---------------------------- MODULE ProvisionerSqs ----------------------------
(***************************************************************************)
(* services/provisioner on SQS: main resolves the queue and runs RunSQS,   *)
(* which long-polls it, processes each message of a batch and deletes it.  *)
(* Any number of consumers share the queue.  SQS hands a message out again *)
(* when its visibility timeout lapses; the queue has no redrive policy, so *)
(* it does so for as long as the message is not deleted.                   *)
(***************************************************************************)
EXTENDS Integers, FiniteSets

CONSTANTS
    Consumers,       \* consumer processes
    Messages,        \* messages the API put on the queue
    None,            \* no message in hand, no receipt given out
    BatchSize,       \* MaxNumberOfMessages
    MaxLapses,       \* bound on the visibility timeouts that lapse while a
                     \* consumer still has the message, per message
    MaxDisruptions,  \* bound on signals, crashes and failed calls
    Faults           \* {"aws"} when calls may fail, {} otherwise

ASSUME ConstantsAssumption ==
    /\ None \notin Messages /\ None \notin Consumers
    /\ IsFiniteSet(Messages) /\ IsFiniteSet(Consumers)
    /\ BatchSize \in Nat \ {0} /\ MaxLapses \in Nat /\ MaxDisruptions \in Nat
    /\ Faults \subseteq {"aws"}

VARIABLES
    queue,       \* where each message is
    receiver,    \* the consumer that has its latest receipt handle
    lapses,      \* lapsed visibility timeouts of each message
    pc,          \* where each consumer's loop is
    batch,       \* messages received and not yet processed
    current,     \* the message in hand
    cancelled,   \* consumers whose root context is cancelled
    handled,     \* how often each message was processed
    metrics,     \* the three counters of each process
    disruptions  \* signals, crashes and failed calls so far

sqsVars == <<queue, receiver, lapses>>
loopVars == <<pc, batch, current, cancelled>>
vars == <<sqsVars, loopVars, handled, metrics, disruptions>>

NoMetrics == [received |-> 0, processed |-> 0, failed |-> 0]

Init ==
    /\ queue = [m \in Messages |-> "visible"]
    /\ receiver = [m \in Messages |-> None]
    /\ lapses = [m \in Messages |-> 0]
    /\ pc = [c \in Consumers |-> "start"]
    /\ batch = [c \in Consumers |-> {}]
    /\ current = [c \in Consumers |-> None]
    /\ cancelled = {}
    /\ handled = [m \in Messages |-> 0]
    /\ metrics = [c \in Consumers |-> NoMetrics]
    /\ disruptions = 0

-----------------------------------------------------------------------------
Goto(c, p) == pc' = [pc EXCEPT ![c] = p]

Count(c, counter, n) == metrics' = [metrics EXCEPT ![c][counter] = @ + n]

Disrupt == disruptions < MaxDisruptions /\ disruptions' = disruptions + 1

\* A call to AWS under the root context fails after a signal, or for a fault.
CallFails(c) ==
    \/ c \in cancelled /\ UNCHANGED disruptions
    \/ c \notin cancelled /\ Faults # {} /\ Disrupt

\* runSQS: Parameter Store has the queue URL.
ResolveQueue(c) ==
    /\ pc[c] = "start" /\ c \notin cancelled
    /\ Goto(c, "poll")
    /\ UNCHANGED <<sqsVars, batch, current, cancelled, handled, metrics, disruptions>>

\* It has not, or the call fails: exit code 1, unless a signal was the reason.
ResolveQueueFails(c) ==
    /\ pc[c] = "start" /\ CallFails(c)
    /\ Goto(c, IF c \in cancelled THEN "stopped" ELSE "exited")
    /\ UNCHANGED <<sqsVars, batch, current, cancelled, handled, metrics>>

Visible == {m \in Messages : queue[m] = "visible"}

Batches == {ms \in SUBSET Visible \ {{}} : Cardinality(ms) <= BatchSize}

HandOut(c, ms) ==
    /\ queue' = [m \in Messages |-> IF m \in ms THEN "inflight" ELSE queue[m]]
    /\ receiver' = [m \in Messages |-> IF m \in ms THEN c ELSE receiver[m]]
    /\ UNCHANGED lapses

Receive(c) ==
    /\ pc[c] = "poll" /\ c \notin cancelled
    /\ \E ms \in Batches :
          /\ HandOut(c, ms)
          /\ batch' = [batch EXCEPT ![c] = ms]
          /\ Count(c, "received", Cardinality(ms))
    /\ Goto(c, "batch")
    /\ UNCHANGED <<current, cancelled, handled, disruptions>>

\* The reply is lost, or a signal cancels the call: nobody has the messages, and
\* the loop goes on or ends.
ReceiveUnacked(c) ==
    /\ pc[c] = "poll" /\ CallFails(c)
    /\ \E ms \in Batches : HandOut(c, ms)
    /\ Goto(c, IF c \in cancelled THEN "stopped" ELSE "poll")
    /\ UNCHANGED <<batch, current, cancelled, handled, metrics>>

\* An empty long poll and a failed one both lead back to the top of the loop.
ReceiveNothing(c) ==
    /\ pc[c] = "poll" /\ c \notin cancelled /\ Visible = {}
    /\ UNCHANGED vars

\* The context is looked at only here, between batches.
StopPolling(c) ==
    /\ pc[c] = "poll" /\ c \in cancelled
    /\ Goto(c, "stopped")
    /\ UNCHANGED <<sqsVars, batch, current, cancelled, handled, metrics, disruptions>>

BatchDone(c) ==
    /\ pc[c] = "batch" /\ batch[c] = {}
    /\ Goto(c, "poll")
    /\ UNCHANGED <<sqsVars, batch, current, cancelled, handled, metrics, disruptions>>

\* Broken form: the message is deleted first and processed afterwards.
ProcessLater(c) ==
    /\ pc[c] = "batch"
    /\ \E m \in batch[c] :
          /\ current' = [current EXCEPT ![c] = m]
          /\ batch' = [batch EXCEPT ![c] = @ \ {m}]
    /\ Goto(c, "delete")
    /\ UNCHANGED <<sqsVars, cancelled, handled, metrics, disruptions>>

Process(c) ==
    /\ pc[c] = "batch"
    /\ \E m \in batch[c] :
          /\ current' = [current EXCEPT ![c] = m]
          /\ batch' = [batch EXCEPT ![c] = @ \ {m}]
          /\ handled' = [handled EXCEPT ![m] = @ + 1]
    /\ Goto(c, "delete")
    /\ UNCHANGED <<sqsVars, cancelled, metrics, disruptions>>

NextMessage(c) == Goto(c, "batch") /\ current' = [current EXCEPT ![c] = None]

\* DeleteMessage with a receipt handle that is no longer the latest may be
\* accepted without deleting anything.
Delete(c) ==
    LET m == current[c]
    IN  /\ pc[c] = "delete" /\ c \notin cancelled
        /\ \/ queue' = [queue EXCEPT ![m] = "deleted"]
           \/ receiver[m] # c /\ UNCHANGED queue
        /\ Count(c, "processed", 1)
        /\ NextMessage(c)
        /\ UNCHANGED <<receiver, lapses, batch, cancelled, handled, disruptions>>

\* Broken forms: the failure is not counted; the message is put back in the
\* batch; the delete is tried again until it succeeds.
DeleteFailsRetries(c) ==
    /\ pc[c] = "delete" /\ CallFails(c)
    /\ UNCHANGED <<sqsVars, loopVars, handled, metrics>>

DeleteFailsUncounted(c) ==
    /\ pc[c] = "delete" /\ CallFails(c)
    /\ UNCHANGED queue
    /\ NextMessage(c)
    /\ UNCHANGED <<receiver, lapses, batch, cancelled, handled, metrics>>

DeleteFailsRequeues(c) ==
    /\ pc[c] = "delete" /\ CallFails(c)
    /\ batch' = [batch EXCEPT ![c] = @ \cup {current[c]}]
    /\ NextMessage(c)
    /\ UNCHANGED <<queue, receiver, lapses, cancelled, handled, metrics>>

\* The delete fails, or it is applied and its reply lost.  Either way the
\* failure is counted and the loop goes on.
DeleteFails(c) ==
    /\ pc[c] = "delete" /\ CallFails(c)
    /\ UNCHANGED queue \/ queue' = [queue EXCEPT ![current[c]] = "deleted"]
    /\ Count(c, "failed", 1)
    /\ NextMessage(c)
    /\ UNCHANGED <<receiver, lapses, batch, cancelled, handled>>

-----------------------------------------------------------------------------
(***************************************************************************)
(* The environment: signals, crashes, restarts, visibility timeouts.       *)
(***************************************************************************)
Ended == {"stopped", "exited", "crashed"}

Signal(c) ==
    /\ pc[c] \notin Ended /\ c \notin cancelled /\ Disrupt
    /\ cancelled' = cancelled \cup {c}
    /\ UNCHANGED <<sqsVars, pc, batch, current, handled, metrics>>

Crash(c) ==
    /\ pc[c] \notin Ended /\ Disrupt
    /\ Goto(c, "crashed")
    /\ UNCHANGED <<sqsVars, batch, current, cancelled, handled, metrics>>

\* A new process: nothing of the old one is left.
Restart(c) ==
    /\ pc[c] \in Ended
    /\ Goto(c, "start")
    /\ batch' = [batch EXCEPT ![c] = {}]
    /\ current' = [current EXCEPT ![c] = None]
    /\ cancelled' = cancelled \ {c}
    /\ metrics' = [metrics EXCEPT ![c] = NoMetrics]
    /\ UNCHANGED <<sqsVars, handled, disruptions>>

Held(m) ==
    \E c \in Consumers : pc[c] \notin Ended /\ (m \in batch[c] \/ current[c] = m)

VisibilityLapses(m) ==
    /\ queue[m] = "inflight"
    /\ Held(m) => lapses[m] < MaxLapses
    /\ queue' = [queue EXCEPT ![m] = "visible"]
    /\ lapses' = [lapses EXCEPT ![m] = @ + 1]
    /\ UNCHANGED <<receiver, loopVars, handled, metrics, disruptions>>

Step(c) ==
    \/ ResolveQueue(c) \/ ResolveQueueFails(c) \/ Receive(c) \/ ReceiveNothing(c)
    \/ StopPolling(c) \/ BatchDone(c) \/ Process(c) \/ Delete(c)
    \/ DeleteFails(c) \/ Restart(c)

Next ==
    \/ \E c \in Consumers : Step(c) \/ ReceiveUnacked(c) \/ Signal(c) \/ Crash(c)
    \/ \E m \in Messages : VisibilityLapses(m)

Spec == Init /\ [][Next]_vars

\* A started process runs, Kubernetes restarts one that ended, and SQS lapses
\* the visibility timeout of a message nobody deletes.
FairSpec ==
    /\ Spec
    /\ \A c \in Consumers : WF_vars(Step(c))
    /\ \A m \in Messages : WF_vars(VisibilityLapses(m))

-----------------------------------------------------------------------------
(***************************************************************************)
(* Properties.                                                             *)
(***************************************************************************)

\* Every variable keeps its type; a message in hand is one that was received.
TypeOK ==
    /\ queue \in [Messages -> {"visible", "inflight", "deleted"}]
    /\ receiver \in [Messages -> Consumers \cup {None}]
    /\ lapses \in [Messages -> Nat]
    /\ pc \in [Consumers -> {"start", "poll", "batch", "delete"} \cup Ended]
    /\ batch \in [Consumers -> SUBSET Messages]
    /\ current \in [Consumers -> Messages \cup {None}]
    /\ cancelled \subseteq Consumers
    /\ handled \in [Messages -> Nat]
    /\ metrics \in [Consumers -> [received : Nat, processed : Nat, failed : Nat]]
    /\ disruptions \in 0..MaxDisruptions
    /\ \A c \in Consumers : pc[c] = "delete" => current[c] \in Messages

\* "deletes each message after processing (at-least-once)": a message leaves
\* the queue only after some consumer processed it.
DeletedMeansHandled ==
    \A m \in Messages : queue[m] = "deleted" => handled[m] > 0

\* A message is processed again only if its visibility timeout lapsed in
\* between: once more for each lapse, whatever fails, stops or crashes.
RepeatsNeedRedelivery ==
    \A m \in Messages : handled[m] <= 1 + lapses[m]

\* Deliveries of m: the lapses, and the current one while it is out.
Deliveries(m) == lapses[m] + (IF queue[m] = "visible" THEN 0 ELSE 1)

\* Consumers that have m and have not processed it yet.
Pending(m) == {c \in Consumers : m \in batch[c] /\ pc[c] \notin Ended}

\* Each delivery is processed at most once.  Inductive form of
\* RepeatsNeedRedelivery.
OneProcessPerDelivery ==
    \A m \in Messages : handled[m] + Cardinality(Pending(m)) <= Deliveries(m)

Deleted == {m \in Messages : queue[m] = "deleted"}

Delivery == INSTANCE AtLeastOnce WITH redelivered <- lapses, acknowledged <- Deleted

\* "deletes each message after processing (at-least-once)": whatever fails, stops
\* or crashes, the consumers together process each message before it is deleted,
\* and again only when its visibility timeout lapsed and it was not deleted.
KeepsDelivery == Delivery!Spec

\* The counters add up: every message a process received was counted as
\* processed or failed, or is still in its hands.
CountersBalance ==
    \A c \in Consumers :
        metrics[c].received = metrics[c].processed + metrics[c].failed
            + Cardinality(batch[c]) + (IF current[c] = None THEN 0 ELSE 1)

\* Every message is eventually processed and deleted, once the faults are over.
EveryMessageDeleted == \A m \in Messages : <>(queue[m] = "deleted")
=============================================================================
