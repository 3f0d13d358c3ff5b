------------------------------ MODULE AtLeastOnce ------------------------------
(***************************************************************************)
(* What services/provisioner promises of every message on either           *)
(* transport, with nothing said of batches, offsets, processes or faults.  *)
(* A message is processed before it is acknowledged, and processed again   *)
(* only when it is redelivered; what is acknowledged is not redelivered.   *)
(* A transport may forget an acknowledgement.                              *)
(***************************************************************************)
EXTENDS Naturals

CONSTANT Messages

VARIABLES
    redelivered,  \* how often each message was delivered again
    handled,      \* how often each message was processed
    acknowledged  \* messages the transport takes for done

vars == <<redelivered, handled, acknowledged>>

Init ==
    /\ redelivered = [m \in Messages |-> 0]
    /\ handled = [m \in Messages |-> 0]
    /\ acknowledged = {}

Redeliver ==
    /\ \E ms \in SUBSET (Messages \ acknowledged) :
          redelivered' = [m \in Messages |->
                             IF m \in ms THEN redelivered[m] + 1 ELSE redelivered[m]]
    /\ UNCHANGED <<handled, acknowledged>>

Handle(m) ==
    /\ handled[m] <= redelivered[m]
    /\ handled' = [handled EXCEPT ![m] = @ + 1]
    /\ UNCHANGED <<redelivered, acknowledged>>

Acknowledge ==
    /\ acknowledged' \in SUBSET {m \in Messages : handled[m] > 0}
    /\ UNCHANGED <<redelivered, handled>>

Next == Redeliver \/ Acknowledge \/ \E m \in Messages : Handle(m)

Spec == Init /\ [][Next]_vars
=============================================================================
