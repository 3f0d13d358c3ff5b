------------------------ MODULE ProvisionerKafkaProofs ------------------------
(***************************************************************************)
(* Proofs about ProvisionerKafka, for any number of consumers, any length  *)
(* of the partition and any number of disruptions.                         *)
(***************************************************************************)
EXTENDS ProvisionerKafka, FiniteSetTheorems, TLAPS

\* The three invariants hold together: what the readers have gone past was
\* processed, so what they commit was.
KafkaInv == TypeOK /\ ReadMeansHandled /\ CommittedMeansHandled

LEMMA InitKafkaInv == Init => KafkaInv
  BY ConstantsAssumption
     DEF Init, KafkaInv, TypeOK, ReadMeansHandled, CommittedMeansHandled, Handled,
         Offsets

LEMMA StutterKafkaInv == KafkaInv /\ UNCHANGED vars => KafkaInv'
  BY DEF KafkaInv, TypeOK, ReadMeansHandled, CommittedMeansHandled,
        Handled, vars, groupVars

\* The offsets of the log, for the provers.
LEMMA OffsetsOfLog == \A o : o \in Offsets <=> o \in Nat /\ o < Length
  BY ConstantsAssumption DEF Offsets

LEMMA NextKafkaInv == KafkaInv /\ Next => KafkaInv'
<1> SUFFICES ASSUME KafkaInv, Next PROVE KafkaInv'
  OBVIOUS
<1> DEFINE Counted == handled \in [Offsets -> Nat] /\ assignments \in [Offsets -> Nat]
<1>0. Counted
  BY DEF KafkaInv, TypeOK
<1> USE ConstantsAssumption DEF KafkaInv, TypeOK, ReadMeansHandled,
        CommittedMeansHandled, Handled, Goto, Ended
<1>1. ASSUME NEW c \in Consumers, Fetch(c) PROVE KafkaInv'
  BY <1>1, OffsetsOfLog DEF Fetch
<1>2. ASSUME NEW c \in Consumers, Process(c) PROVE KafkaInv'
  <2>1. current[c] \in Offsets
    BY <1>2, OffsetsOfLog DEF Process
  <2>2. /\ handled' \in [Offsets -> Nat] /\ handled'[current[c]] > 0
        /\ \A o \in Offsets : handled[o] > 0 => handled'[o] > 0
    BY <1>0, <1>2, <2>1 DEF Process
  <2>3. /\ pc[c] = "process" /\ pc' = [pc EXCEPT ![c] = "commit"]
        /\ UNCHANGED <<committed, owner, reading, position, current, cancelled,
                       assignments, disruptions>>
    BY <1>2 DEF Process, groupVars
  <2>4. TypeOK'
    BY <2>2, <2>3
  <2>5. CommittedMeansHandled'
    BY <2>2, <2>3
  <2>6. ReadMeansHandled'
    <3> SUFFICES ASSUME NEW d \in Consumers
                 PROVE  /\ pc'[d] \in {"process", "commit"} =>
                              \A o \in Offsets : o < current[d] => handled'[o] > 0
                        /\ pc'[d] = "commit" => handled'[current[d]] > 0
                        /\ d \in reading => \A o \in Offsets : o < position[d] =>
                              \/ handled'[o] > 0
                              \/ pc'[d] = "process" /\ o = current[d]
      BY <2>3
    <3>1. current[d] \in Offsets \/ pc[d] \notin {"process", "commit"}
      BY OffsetsOfLog
    <3>2. CASE d = c
      BY <2>1, <2>2, <2>3, <3>2
    <3>3. CASE d # c
      BY <2>2, <2>3, <3>1, <3>3
    <3> QED
      BY <3>2, <3>3
  <2> QED
    BY <2>4, <2>5, <2>6
<1>3. ASSUME NEW c \in Consumers, Commit(c) \/ CommitFails(c) PROVE KafkaInv'
  <2>1. /\ pc[c] = "commit" /\ pc' = [pc EXCEPT ![c] = "fetch"]
        /\ committed' \in {committed, current[c] + 1}
        /\ disruptions' \in 0..MaxDisruptions
        /\ UNCHANGED <<owner, reading, position, current, cancelled, handled,
                       assignments>>
    BY <1>3 DEF Commit, CommitFails, Disrupt, groupVars
  <2>2. committed' \in 0..Length
    BY <2>1
  <2>3. CommittedMeansHandled'
    <3> SUFFICES ASSUME NEW o \in Offsets, o < committed' PROVE handled[o] > 0
      BY <2>1
    <3>1. o < committed \/ o < current[c] \/ o = current[c]
      BY <2>1, OffsetsOfLog
    <3> QED
      BY <2>1, <3>1
  <2>4. TypeOK' /\ ReadMeansHandled'
    BY <2>1, <2>2
  <2> QED
    BY <2>3, <2>4
<1>4. ASSUME NEW c \in Consumers, StopFetching(c) \/ Crash(c) PROVE KafkaInv'
  BY <1>4 DEF StopFetching, Crash, LeaveGroup, Disrupt
<1>5. ASSUME NEW c \in Consumers, Restart(c) PROVE KafkaInv'
  BY <1>5 DEF Restart, groupVars
<1>6. ASSUME NEW c \in Consumers, Assign(c) PROVE KafkaInv'
  <2>1. /\ owner' = c /\ reading' = reading \cup {c}
        /\ position' = [position EXCEPT ![c] = committed]
        /\ disruptions' \in 0..MaxDisruptions
        /\ UNCHANGED <<committed, pc, current, cancelled, handled>>
    BY <1>6 DEF Assign, Disrupt
  <2>2. assignments' \in [Offsets -> Nat]
    BY <1>0, <1>6 DEF Assign
  <2> QED
    BY <2>1, <2>2
<1>7. ASSUME NEW c \in Consumers, Signal(c) PROVE KafkaInv'
  BY <1>7 DEF Signal, Disrupt, groupVars
<1>9. ASSUME NEW c \in Consumers, Rejoin(c) PROVE KafkaInv'
  BY <1>9 DEF Rejoin
<1>8. CASE Idle
  <2>1. UNCHANGED vars
    BY <1>8 DEF Idle
  <2> QED
    BY <2>1, StutterKafkaInv
<1> HIDE DEF KafkaInv
<1> QED
  BY <1>1, <1>2, <1>3, <1>4, <1>5, <1>6, <1>7, <1>8, <1>9 DEF Next, Step

\* Every behaviour of the consumer group satisfies the invariant of all three parts.
LEMMA KafkaInvHolds == Spec => []KafkaInv
<1>1. KafkaInv /\ [Next]_vars => KafkaInv'
  BY NextKafkaInv, StutterKafkaInv
<1> QED
  BY InitKafkaInv, <1>1, PTL DEF Spec

\* Every variable of the Kafka consumer keeps its type: positions, the
\* committed offset and the message in hand stay inside the log.
THEOREM KafkaTypeCorrect == Spec => []TypeOK
<1>1. KafkaInv => TypeOK
  BY DEF KafkaInv
<1> QED
  BY KafkaInvHolds, <1>1, PTL

\* At-least-once on Kafka: RunKafka never commits past a message that was not
\* processed, although commits fail, arrive late and cover one another.
THEOREM KafkaCommitsAreHandled == Spec => []CommittedMeansHandled
<1>1. KafkaInv => CommittedMeansHandled
  BY DEF KafkaInv
<1> QED
  BY KafkaInvHolds, <1>1, PTL

\* A reader of RunKafka has gone past processed messages only, save the one in
\* hand, whether its consumer still has the partition or not.
THEOREM KafkaReadsAreHandled == Spec => []ReadMeansHandled
<1>1. KafkaInv => ReadMeansHandled
  BY DEF KafkaInv
<1> QED
  BY KafkaInvHolds, <1>1, PTL

-----------------------------------------------------------------------------
(***************************************************************************)
(* How often a message is processed: once per assignment of the partition. *)
(***************************************************************************)
LEMMA InHandIsFinite ==
  ASSUME NEW o \in Offsets
  PROVE  IsFiniteSet(InHand(o)) /\ Cardinality(InHand(o)) \in Nat
  BY ConstantsAssumption, FS_Subset, FS_CardinalityType DEF InHand

LEMMA AheadIsFinite ==
  ASSUME TypeOK, NEW o \in Offsets
  PROVE  IsFiniteSet(Ahead(o)) /\ Cardinality(Ahead(o)) \in Nat
  BY ConstantsAssumption, FS_Subset, FS_CardinalityType DEF Ahead, TypeOK

LEMMA InitRuns == Init => OneRunPerAssignment
<1> SUFFICES ASSUME Init, NEW o \in Offsets
             PROVE  handled[o] + Cardinality(InHand(o)) + Cardinality(Ahead(o))
                       <= assignments[o]
  BY DEF OneRunPerAssignment
<1>1. InHand(o) = {} /\ Ahead(o) = {}
  BY DEF Init, InHand, Ahead
<1> QED
  BY <1>1, FS_EmptySet DEF Init

\* A step that processes nothing, takes nothing new in hand and lets a message be
\* fetched by one more reader only if it was assigned.
LEMMA RunsDoNotGrow ==
  ASSUME TypeOK, OneRunPerAssignment, TypeOK', handled' = handled,
         \A o \in Offsets : InHand(o)' \subseteq InHand(o),
         \A o \in Offsets :
            \/ /\ assignments'[o] = assignments[o] + 1
               /\ \E c \in Consumers : Ahead(o)' \subseteq Ahead(o) \cup {c}
            \/ assignments'[o] = assignments[o] /\ Ahead(o)' \subseteq Ahead(o)
  PROVE  OneRunPerAssignment'
<1> SUFFICES ASSUME NEW o \in Offsets
             PROVE  handled'[o] + Cardinality(InHand(o)') + Cardinality(Ahead(o)')
                       <= assignments'[o]
  BY DEF OneRunPerAssignment
<1>1. /\ Cardinality(InHand(o)) \in Nat /\ Cardinality(InHand(o)') \in Nat
      /\ Cardinality(InHand(o)') <= Cardinality(InHand(o))
  BY InHandIsFinite, FS_Subset, FS_CardinalityType
<1>2. handled[o] + Cardinality(InHand(o)) + Cardinality(Ahead(o)) <= assignments[o]
  BY DEF OneRunPerAssignment
<1>3. handled'[o] = handled[o] /\ handled[o] \in Nat /\ assignments[o] \in Nat
  BY DEF TypeOK
<1>4. IsFiniteSet(Ahead(o)) /\ Cardinality(Ahead(o)) \in Nat
  BY AheadIsFinite
<1>5. CASE assignments'[o] = assignments[o] /\ Ahead(o)' \subseteq Ahead(o)
  <2>1. Cardinality(Ahead(o)') \in Nat /\ Cardinality(Ahead(o)') <= Cardinality(Ahead(o))
    BY <1>4, <1>5, FS_Subset, FS_CardinalityType
  <2> QED
    BY <1>1, <1>2, <1>3, <1>4, <1>5, <2>1
<1>6. ASSUME NEW c \in Consumers, assignments'[o] = assignments[o] + 1,
             Ahead(o)' \subseteq Ahead(o) \cup {c}
      PROVE  handled'[o] + Cardinality(InHand(o)') + Cardinality(Ahead(o)')
                <= assignments'[o]
  <2>1. /\ IsFiniteSet(Ahead(o) \cup {c})
        /\ \/ Cardinality(Ahead(o) \cup {c}) = Cardinality(Ahead(o))
           \/ Cardinality(Ahead(o) \cup {c}) = Cardinality(Ahead(o)) + 1
    BY <1>4, FS_AddElement
  <2>2. /\ Cardinality(Ahead(o)') \in Nat
        /\ Cardinality(Ahead(o)') <= Cardinality(Ahead(o) \cup {c})
    BY <1>6, <2>1, FS_Subset, FS_CardinalityType
  <2> QED
    BY <1>1, <1>2, <1>3, <1>4, <1>6, <2>1, <2>2
<1> QED
  BY <1>5, <1>6

LEMMA NextRuns ==
  ASSUME KafkaInv, OneRunPerAssignment, Next
  PROVE  OneRunPerAssignment'
<1>0. TypeOK /\ TypeOK'
  BY NextKafkaInv DEF KafkaInv
<1>1. ASSUME NEW c \in Consumers, Fetch(c) PROVE OneRunPerAssignment'
  <2> SUFFICES ASSUME NEW o \in Offsets
               PROVE  handled'[o] + Cardinality(InHand(o)') + Cardinality(Ahead(o)')
                         <= assignments'[o]
    BY DEF OneRunPerAssignment
  <2>1. /\ pc[c] = "fetch" /\ c \in reading
        /\ current' = [current EXCEPT ![c] = position[c]]
        /\ position' = [position EXCEPT ![c] = position[c] + 1]
        /\ pc' = [pc EXCEPT ![c] = "process"]
        /\ UNCHANGED <<reading, handled, assignments>>
    BY <1>1 DEF Fetch, Goto
  <2>2. /\ handled[o] + Cardinality(InHand(o)) + Cardinality(Ahead(o)) <= assignments[o]
        /\ handled[o] \in Nat /\ assignments[o] \in Nat /\ position[c] \in Nat /\ o \in Nat
    BY <1>0, ConstantsAssumption DEF OneRunPerAssignment, TypeOK, Offsets
  <2>3. /\ IsFiniteSet(InHand(o)) /\ Cardinality(InHand(o)) \in Nat
        /\ IsFiniteSet(Ahead(o)) /\ Cardinality(Ahead(o)) \in Nat
    BY <1>0, InHandIsFinite, AheadIsFinite
  <2>4. CASE position[c] = o
    <3>1. InHand(o)' = InHand(o) \cup {c} /\ c \notin InHand(o)
      BY <1>0, <2>1, <2>4 DEF InHand, TypeOK
    <3>2. Cardinality(InHand(o)') = Cardinality(InHand(o)) + 1
      BY <2>3, <3>1, FS_AddElement
    <3>3. Ahead(o)' = Ahead(o) \ {c} /\ c \in Ahead(o)
      BY <1>0, <2>1, <2>2, <2>4 DEF Ahead, TypeOK
    <3>4. Cardinality(Ahead(o)') = Cardinality(Ahead(o)) - 1
      BY <2>3, <3>3, FS_RemoveElement
    <3> QED
      BY <2>1, <2>2, <2>3, <3>2, <3>4
  <2>5. CASE position[c] # o
    <3>1. InHand(o)' = InHand(o)
      BY <1>0, <2>1, <2>5 DEF InHand, TypeOK
    <3>2. Ahead(o)' = Ahead(o)
      BY <1>0, <2>1, <2>2, <2>5 DEF Ahead, TypeOK
    <3> QED
      BY <2>1, <2>2, <2>3, <3>1, <3>2
  <2> QED
    BY <2>4, <2>5
<1>2. ASSUME NEW c \in Consumers, Process(c) PROVE OneRunPerAssignment'
  <2> SUFFICES ASSUME NEW o \in Offsets
               PROVE  handled'[o] + Cardinality(InHand(o)') + Cardinality(Ahead(o)')
                         <= assignments'[o]
    BY DEF OneRunPerAssignment
  <2>1. /\ pc[c] = "process" /\ pc' = [pc EXCEPT ![c] = "commit"]
        /\ handled' = [handled EXCEPT ![current[c]] = handled[current[c]] + 1]
        /\ UNCHANGED <<reading, position, current, assignments>>
    BY <1>2 DEF Process, Goto, groupVars
  <2>2. /\ handled[o] + Cardinality(InHand(o)) + Cardinality(Ahead(o)) <= assignments[o]
        /\ handled[o] \in Nat /\ assignments[o] \in Nat
    BY <1>0 DEF OneRunPerAssignment, TypeOK
  <2>3. /\ IsFiniteSet(InHand(o)) /\ Cardinality(InHand(o)) \in Nat
        /\ Cardinality(Ahead(o)) \in Nat
    BY <1>0, InHandIsFinite, AheadIsFinite
  <2>4. Ahead(o)' = Ahead(o)
    BY <2>1 DEF Ahead
  <2>5. CASE current[c] = o
    <3>1. InHand(o)' = InHand(o) \ {c} /\ c \in InHand(o)
      BY <1>0, <2>1, <2>5 DEF InHand, TypeOK
    <3>2. Cardinality(InHand(o)') = Cardinality(InHand(o)) - 1
      BY <2>3, <3>1, FS_RemoveElement
    <3>3. handled'[o] = handled[o] + 1
      BY <1>0, <2>1, <2>5 DEF TypeOK
    <3> QED
      BY <2>1, <2>2, <2>3, <2>4, <3>2, <3>3
  <2>6. CASE current[c] # o
    <3>1. InHand(o)' = InHand(o)
      BY <1>0, <2>1, <2>6 DEF InHand, TypeOK
    <3>2. handled'[o] = handled[o]
      BY <1>0, <2>1, <2>6 DEF TypeOK
    <3> QED
      BY <2>1, <2>2, <2>4, <3>1, <3>2
  <2> QED
    BY <2>5, <2>6
<1>3. ASSUME NEW c \in Consumers, Assign(c) PROVE OneRunPerAssignment'
  <2>1. /\ reading' = reading \cup {c} /\ position' = [position EXCEPT ![c] = committed]
        /\ assignments' = [o \in Offsets |->
              IF o < committed THEN assignments[o] ELSE assignments[o] + 1]
        /\ UNCHANGED <<handled, pc, current>>
    BY <1>3 DEF Assign
  <2>2. \A o \in Offsets : Ahead(o)' \subseteq Ahead(o) \cup {c}
    BY <1>0, <2>1 DEF Ahead, TypeOK
  <2>3. ASSUME NEW o \in Offsets, o < committed
        PROVE  assignments'[o] = assignments[o] /\ Ahead(o)' \subseteq Ahead(o)
    <3>1. position'[c] = committed /\ committed \in Nat /\ o \in Nat
      BY <1>0, <2>1, ConstantsAssumption DEF TypeOK, Offsets
    <3>2. c \notin Ahead(o)'
      BY <2>3, <3>1 DEF Ahead
    <3> QED
      BY <2>1, <2>2, <2>3, <3>2
  <2>4. \A o \in Offsets : InHand(o)' \subseteq InHand(o)
    BY <2>1 DEF InHand
  <2>5. \A o \in Offsets : ~(o < committed) => assignments'[o] = assignments[o] + 1
    BY <2>1
  <2> QED
    BY <1>0, <2>1, <2>2, <2>3, <2>4, <2>5, RunsDoNotGrow
<1>4. ASSUME NEW c \in Consumers,
             \/ Commit(c) \/ CommitFails(c) \/ StopFetching(c) \/ Restart(c)
             \/ Rejoin(c) \/ Signal(c) \/ Crash(c)
      PROVE  OneRunPerAssignment'
  <2>1. /\ UNCHANGED <<handled, position, current, assignments>>
        /\ reading' \subseteq reading
        /\ \E p : p # "process" /\ pc' \in {pc, [pc EXCEPT ![c] = p]}
    BY <1>4 DEF Commit, CommitFails, StopFetching, Restart, Rejoin, Signal, Crash,
                LeaveGroup, Goto, groupVars
  <2>2. \A o \in Offsets : InHand(o)' \subseteq InHand(o)
    BY <1>0, <2>1 DEF InHand, TypeOK
  <2>3. \A o \in Offsets : Ahead(o)' \subseteq Ahead(o)
    BY <2>1 DEF Ahead
  <2> QED
    BY <1>0, <2>1, <2>2, <2>3, RunsDoNotGrow
<1>5. CASE Idle
  BY <1>5 DEF Idle, vars, groupVars, OneRunPerAssignment, InHand, Ahead
<1> QED
  BY <1>1, <1>2, <1>3, <1>4, <1>5 DEF Next, Step

\* For any number of consumers and any length of the log, the runs of a message,
\* those about to happen and the one still ahead never exceed the assignments.
THEOREM KafkaOneRunPerAssignment == Spec => []OneRunPerAssignment
<1>1. KafkaInv /\ OneRunPerAssignment /\ [Next]_vars => OneRunPerAssignment'
  <2>1. OneRunPerAssignment /\ UNCHANGED vars => OneRunPerAssignment'
    BY DEF OneRunPerAssignment, InHand, Ahead, vars, groupVars
  <2> QED
    BY <2>1, NextRuns
<1> QED
  BY <1>1, InitRuns, KafkaInvHolds, PTL DEF Spec

\* RunKafka processes a message at most once per assignment of the partition from
\* an offset not behind it: a commit that fails or comes late repeats nothing.
THEOREM KafkaRepeatsNeedReassignment == Spec => []RepeatsNeedReassignment
<1>1. KafkaInv /\ OneRunPerAssignment => RepeatsNeedReassignment
  <2> SUFFICES ASSUME KafkaInv, OneRunPerAssignment, NEW o \in Offsets
               PROVE  handled[o] <= assignments[o]
    BY DEF RepeatsNeedReassignment
  <2>1. /\ handled[o] + Cardinality(InHand(o)) + Cardinality(Ahead(o)) <= assignments[o]
        /\ handled[o] \in Nat /\ assignments[o] \in Nat /\ TypeOK
    BY DEF KafkaInv, TypeOK, OneRunPerAssignment
  <2> QED
    BY <2>1, InHandIsFinite, AheadIsFinite
<1> QED
  BY <1>1, KafkaInvHolds, KafkaOneRunPerAssignment, PTL

-----------------------------------------------------------------------------
(***************************************************************************)
(* RunKafka implements AtLeastOnce.                                        *)
(***************************************************************************)
LEMMA KafkaDeliveryStep ==
  ASSUME KafkaInv, KafkaInv', OneRunPerAssignment, [Next]_vars
  PROVE  [Delivery!Next]_(Delivery!vars)
<1>0. TypeOK /\ TypeOK'
  BY DEF KafkaInv
<1>1. ASSUME UNCHANGED <<committed, handled, assignments>>
      PROVE  UNCHANGED Delivery!vars
  BY <1>1 DEF Delivery!vars, Redelivered, Acknowledged
<1>2. ASSUME NEW c \in Consumers, Process(c) PROVE Delivery!Next
  <2> DEFINE o == current[c]
  <2>1. /\ pc[c] = "process" /\ handled' = [handled EXCEPT ![o] = @ + 1]
        /\ UNCHANGED <<committed, assignments>>
    BY <1>2 DEF Process, groupVars
  <2>2. o \in Offsets /\ c \in InHand(o)
    BY <1>0, <2>1, ConstantsAssumption DEF TypeOK, Offsets, InHand
  <2> HIDE DEF o
  <2>3. Cardinality(InHand(o)) \in Nat /\ Cardinality(InHand(o)) # 0
    BY <2>2, InHandIsFinite, FS_EmptySet
  <2>7. Cardinality(Ahead(o)) \in Nat
    BY <1>0, <2>2, AheadIsFinite
  <2>4. /\ handled[o] + Cardinality(InHand(o)) + Cardinality(Ahead(o))
             <= assignments[o]
        /\ handled[o] \in Nat /\ assignments[o] \in Nat
    BY <1>0, <2>2 DEF OneRunPerAssignment, TypeOK
  <2>5. handled[o] <= Redelivered[o]
    <3>1. assignments[o] # 0 /\ handled[o] <= assignments[o] - 1
      BY <2>3, <2>4, <2>7
    <3> QED
      BY <2>2, <3>1 DEF Redelivered
  <2>6. Delivery!Handle(o)
    BY <2>1, <2>5 DEF Delivery!Handle, Redelivered, Acknowledged
  <2> QED
    BY <2>2, <2>6 DEF Delivery!Next
<1>3. ASSUME NEW c \in Consumers, Commit(c) \/ CommitFails(c) PROVE Delivery!Next
  <2>1. UNCHANGED <<handled, assignments>>
    BY <1>3 DEF Commit, CommitFails, groupVars
  <2>2. Acknowledged' \subseteq {o \in Offsets : handled[o] > 0}
    BY <2>1 DEF KafkaInv, CommittedMeansHandled, Handled, Acknowledged
  <2>3. Delivery!Acknowledge
    BY <2>1, <2>2 DEF Delivery!Acknowledge, Redelivered
  <2> QED
    BY <2>3 DEF Delivery!Next
<1>4. ASSUME NEW c \in Consumers, Assign(c) PROVE Delivery!Next
  <2> DEFINE again == {o \in Offsets : ~(o < committed) /\ assignments[o] # 0}
  <2>1. /\ assignments' = [o \in Offsets |->
              IF o < committed THEN assignments[o] ELSE assignments[o] + 1]
        /\ UNCHANGED <<committed, handled>>
    BY <1>4 DEF Assign
  <2>2. again \in SUBSET (Offsets \ Acknowledged)
    BY DEF Acknowledged
  <2>3. ASSUME NEW o \in Offsets
        PROVE  Redelivered'[o] = IF o \in again THEN Redelivered[o] + 1 ELSE Redelivered[o]
    <3>1. assignments[o] \in Nat
      BY <1>0 DEF TypeOK
    <3> QED
      BY <2>1, <3>1 DEF Redelivered
  <2>4. Redelivered' = [o \in Offsets |->
             IF o \in again THEN Redelivered[o] + 1 ELSE Redelivered[o]]
    BY <2>3 DEF Redelivered
  <2> HIDE DEF again
  <2>5. Delivery!Redeliver
    BY <2>1, <2>2, <2>4 DEF Delivery!Redeliver, Acknowledged
  <2> QED
    BY <2>5 DEF Delivery!Next
<1>5. ASSUME NEW c \in Consumers,
             \/ Fetch(c) \/ StopFetching(c) \/ Restart(c) \/ Rejoin(c)
             \/ Signal(c) \/ Crash(c)
      PROVE  UNCHANGED Delivery!vars
  BY <1>1, <1>5 DEF Fetch, StopFetching, Restart, Rejoin, Signal, Crash, groupVars
<1>6. ASSUME Idle \/ UNCHANGED vars PROVE UNCHANGED Delivery!vars
  BY <1>1, <1>6 DEF Idle, vars, groupVars
<1> QED
  BY <1>2, <1>3, <1>4, <1>5, <1>6 DEF Next, Step

\* "mirroring the SQS delete-after-process semantics": RunKafka implements the
\* specification that RunSQS implements, over any number of consumers, messages,
\* rebalances, failed and late commits, signals and crashes.
THEOREM KafkaKeepsDelivery == Spec => KeepsDelivery
<1>1. Init => Delivery!Init
  BY DEF Init, Delivery!Init, Redelivered, Acknowledged, Offsets
<1>2. KafkaInv /\ KafkaInv' /\ OneRunPerAssignment /\ [Next]_vars
        => [Delivery!Next]_(Delivery!vars)
  BY KafkaDeliveryStep
<1> QED
  BY <1>1, <1>2, KafkaInvHolds, KafkaOneRunPerAssignment, PTL
  DEF Spec, KeepsDelivery, Delivery!Spec
=============================================================================
