--------------------------- MODULE ProvisionerKafka ---------------------------
(***************************************************************************)
(* services/provisioner on Kafka: RunKafka fetches the messages of the     *)
(* provisioning topic in order, processes each and commits its offset.     *)
(* One partition; the consumers form a group that owns it one at a time.   *)
(*                                                                         *)
(* A consumer that loses the partition in a rebalance goes on with what    *)
(* its reader has prefetched until the reader joins the group again, and   *)
(* commits it: the coordinator takes the offset of any member of the       *)
(* group, even one lower than the committed offset.                        *)
(***************************************************************************)
EXTENDS Integers, FiniteSets

CONSTANTS
    Consumers,      \* processes of the consumer group
    None,           \* nobody owns the partition
    Length,         \* number of messages in the partition
    MaxDisruptions  \* bound on rebalances, failed commits, signals and crashes

ASSUME ConstantsAssumption ==
    /\ None \notin Consumers /\ IsFiniteSet(Consumers)
    /\ Length \in Nat /\ MaxDisruptions \in Nat

Offsets == 0..(Length - 1)

VARIABLES
    committed,   \* the committed offset of the group
    owner,       \* the consumer the partition is assigned to
    reading,     \* the consumers whose reader hands out messages
    position,    \* the offset the reader of each consumer fetches next
    pc,          \* where each consumer's loop is
    current,     \* the offset of the message in hand
    cancelled,   \* consumers whose root context is cancelled
    handled,     \* how often each message was processed
    assignments, \* how often a reader was started at or before each message
    disruptions  \* rebalances, failed commits, signals and crashes so far

groupVars == <<owner, reading, position, assignments>>
vars == <<committed, groupVars, pc, current, cancelled, handled, disruptions>>

Init ==
    /\ committed = 0
    /\ owner = None
    /\ reading = {}
    /\ position = [c \in Consumers |-> 0]
    /\ pc = [c \in Consumers |-> "fetch"]
    /\ current = [c \in Consumers |-> 0]
    /\ cancelled = {}
    /\ handled = [o \in Offsets |-> 0]
    /\ assignments = [o \in Offsets |-> 0]
    /\ disruptions = 0

-----------------------------------------------------------------------------
Goto(c, p) == pc' = [pc EXCEPT ![c] = p]

Disrupt == disruptions < MaxDisruptions /\ disruptions' = disruptions + 1

Ended == {"stopped", "crashed"}

\* The coordinator gives the partition to a member, which starts at the
\* committed offset.
Assign(c) ==
    /\ pc[c] \notin Ended /\ c \notin cancelled
    /\ \/ owner = None /\ UNCHANGED disruptions
       \/ owner # None /\ Disrupt
    /\ owner' = c
    /\ reading' = reading \cup {c}
    /\ position' = [position EXCEPT ![c] = committed]
    /\ assignments' = [o \in Offsets |->
                          IF o < committed THEN assignments[o] ELSE assignments[o] + 1]
    /\ UNCHANGED <<committed, pc, current, cancelled, handled>>

\* The reader of a consumer that lost the partition joins the group again and
\* drops what it has prefetched.
Rejoin(c) ==
    /\ c \in reading /\ owner # c
    /\ reading' = reading \ {c}
    /\ UNCHANGED <<committed, owner, position, pc, current, cancelled, handled,
                   assignments, disruptions>>

Fetch(c) ==
    /\ pc[c] = "fetch" /\ c \notin cancelled
    /\ c \in reading /\ position[c] < Length
    /\ current' = [current EXCEPT ![c] = position[c]]
    /\ position' = [position EXCEPT ![c] = @ + 1]
    /\ Goto(c, "process")
    /\ UNCHANGED <<committed, owner, reading, cancelled, handled, assignments,
                   disruptions>>

Process(c) ==
    /\ pc[c] = "process"
    /\ handled' = [handled EXCEPT ![current[c]] = @ + 1]
    /\ Goto(c, "commit")
    /\ UNCHANGED <<committed, groupVars, current, cancelled, disruptions>>

\* Broken form: the offset after the next one is committed.
CommitSkips(c) ==
    /\ pc[c] = "commit" /\ c \notin cancelled
    /\ committed' = current[c] + 2
    /\ Goto(c, "fetch")
    /\ UNCHANGED <<groupVars, current, cancelled, handled, disruptions>>

Commit(c) ==
    /\ pc[c] = "commit" /\ c \notin cancelled
    /\ committed' = current[c] + 1
    /\ Goto(c, "fetch")
    /\ UNCHANGED <<groupVars, current, cancelled, handled, disruptions>>

\* Broken form: the commit is tried again until it succeeds, even under a
\* context that is done.
CommitRetries(c) ==
    /\ pc[c] = "commit"
    /\ c \notin cancelled /\ Disrupt
    /\ UNCHANGED <<committed, groupVars, pc, current, cancelled, handled>>

\* Broken form: the message whose commit failed is fetched again.
CommitFailsRefetches(c) ==
    /\ pc[c] = "commit"
    /\ \/ c \in cancelled /\ UNCHANGED disruptions
       \/ c \notin cancelled /\ Disrupt
    /\ UNCHANGED committed \/ committed' = current[c] + 1
    /\ Goto(c, "fetch")
    /\ position' = [position EXCEPT ![c] = current[c]]
    /\ UNCHANGED <<owner, reading, current, cancelled, handled, assignments>>

\* The commit fails, or it is applied and its reply lost.  The loop goes on
\* with the next message either way.
CommitFails(c) ==
    /\ pc[c] = "commit"
    /\ \/ c \in cancelled /\ UNCHANGED disruptions
       \/ c \notin cancelled /\ Disrupt
    /\ UNCHANGED committed \/ committed' = current[c] + 1
    /\ Goto(c, "fetch")
    /\ UNCHANGED <<groupVars, current, cancelled, handled>>

LeaveGroup(c) ==
    /\ owner' = IF owner = c THEN None ELSE owner
    /\ reading' = reading \ {c}

\* The deferred reader.Close leaves the group.
StopFetching(c) ==
    /\ pc[c] = "fetch" /\ c \in cancelled
    /\ Goto(c, "stopped")
    /\ LeaveGroup(c)
    /\ UNCHANGED <<committed, position, current, cancelled, handled,
                   assignments, disruptions>>

-----------------------------------------------------------------------------
Signal(c) ==
    /\ pc[c] \notin Ended /\ c \notin cancelled /\ Disrupt
    /\ cancelled' = cancelled \cup {c}
    /\ UNCHANGED <<committed, groupVars, pc, current, handled>>

\* The session times out and the coordinator takes the partition back.
Crash(c) ==
    /\ pc[c] \notin Ended /\ Disrupt
    /\ Goto(c, "crashed")
    /\ LeaveGroup(c)
    /\ UNCHANGED <<committed, position, current, cancelled, handled, assignments>>

Restart(c) ==
    /\ pc[c] \in Ended
    /\ Goto(c, "fetch")
    /\ cancelled' = cancelled \ {c}
    /\ UNCHANGED <<committed, groupVars, current, handled, disruptions>>

Handled(o) == handled[o] > 0

\* Everything is processed and every consumer waits for the next message.
Idle ==
    /\ \A o \in Offsets : Handled(o)
    /\ \A c \in Consumers : pc[c] = "fetch"
    /\ UNCHANGED vars

Step(c) ==
    \/ Fetch(c) \/ Process(c) \/ Commit(c) \/ CommitFails(c) \/ StopFetching(c)
    \/ Restart(c)

Next ==
    \/ \E c \in Consumers :
          Step(c) \/ Assign(c) \/ Rejoin(c) \/ Signal(c) \/ Crash(c)
    \/ Idle

Spec == Init /\ [][Next]_vars

\* A started process runs, Kubernetes restarts one that ended, and the
\* coordinator does not leave the partition without an owner.
FairSpec ==
    /\ Spec
    /\ \A c \in Consumers : WF_vars(Step(c))
    /\ WF_vars(owner = None /\ \E c \in Consumers : Assign(c))

-----------------------------------------------------------------------------
(***************************************************************************)
(* Properties.                                                             *)
(***************************************************************************)

\* Every variable keeps its type; readers and the group stay inside the log.
TypeOK ==
    /\ committed \in 0..Length
    /\ owner \in Consumers \cup {None} /\ reading \subseteq Consumers
    /\ position \in [Consumers -> 0..Length]
    /\ pc \in [Consumers -> {"fetch", "process", "commit"} \cup Ended]
    /\ current \in [Consumers -> 0..Length]
    /\ cancelled \subseteq Consumers
    /\ handled \in [Offsets -> Nat] /\ assignments \in [Offsets -> Nat]
    /\ disruptions \in 0..MaxDisruptions
    /\ \A c \in Consumers : pc[c] \in {"process", "commit"} => current[c] < Length

\* "Offsets are committed only after a message is processed (at-least-once)":
\* every message below the committed offset was processed, although commits
\* fail, go backwards and cover messages whose own commit failed.
CommittedMeansHandled == \A o \in Offsets : o < committed => Handled(o)

\* What a reader has gone past was processed, save the message in hand, also after
\* its consumer lost the partition.
\* Inductive form of CommittedMeansHandled.
ReadMeansHandled ==
    \A c \in Consumers :
        /\ pc[c] \in {"process", "commit"} =>
              \A o \in Offsets : o < current[c] => Handled(o)
        /\ pc[c] = "commit" => Handled(current[c])
        /\ c \in reading => \A o \in Offsets : o < position[c] =>
              \/ Handled(o)
              \/ pc[c] = "process" /\ o = current[c]

\* A message is processed again only after the partition was assigned again from
\* an offset that does not lie behind it: no failed commit, and no consumer that
\* lost the partition, repeats a message by itself.
RepeatsNeedReassignment == \A o \in Offsets : handled[o] <= assignments[o]

\* Consumers that have message o in hand and have not processed it yet.
InHand(o) == {c \in Consumers : pc[c] = "process" /\ current[c] = o}

\* Consumers whose reader still has to hand out message o.
Ahead(o) == {c \in reading : position[c] <= o}

\* Each assignment leads to one run of the handler per message.  Inductive form
\* of RepeatsNeedReassignment.
OneRunPerAssignment ==
    \A o \in Offsets :
        handled[o] + Cardinality(InHand(o)) + Cardinality(Ahead(o)) <= assignments[o]

\* The first assignment delivers a message, the others deliver it again.
Redelivered ==
    [o \in Offsets |-> IF assignments[o] = 0 THEN 0 ELSE assignments[o] - 1]

Acknowledged == {o \in Offsets : o < committed}

Delivery == INSTANCE AtLeastOnce
               WITH Messages <- Offsets, redelivered <- Redelivered,
                    acknowledged <- Acknowledged

\* "mirroring the SQS delete-after-process semantics": RunKafka keeps the promise
\* that RunSQS keeps, with the committed offset for the deletes.
KeepsDelivery == Delivery!Spec

\* Every message is eventually processed, once the disruptions are over.
EveryMessageHandled == <>(\A o \in Offsets : Handled(o))
=============================================================================
