------------------------------- MODULE NameLease -------------------------------
(***************************************************************************)
(* What services/scaffolder promises the state machine whose tasks reserve *)
(* names, with nothing said of queues, workers, retries or faults.  A name *)
(* is leased to one request at a time; the request may extend its lease    *)
(* and nobody shortens it.  A task is told that its request holds the name *)
(* until a time only while the lease runs that long, or when that time has *)
(* passed; it is refused only what another request asks for as well.       *)
(***************************************************************************)
EXTENDS Integers

CONSTANTS Tasks, Names, Requests, None, Ttl

VARIABLES
    asks,     \* the name each task wants and for which request: one, or none
    verdict,  \* what each task was told
    expiry,   \* the time a task was told it holds the name until
    lease,    \* the request that has each name and until when, or None
    now       \* the clock

vars == <<asks, verdict, expiry, lease, now>>

Ask == [name : Names, request : Requests]

Init ==
    /\ asks \in [Tasks -> {{}} \cup {{a} : a \in Ask}]
    /\ verdict = [t \in Tasks |-> "waiting"]
    /\ expiry = [t \in Tasks |-> 0]
    /\ lease = [n \in Names |-> None]
    /\ now = 0

\* A new lease, or a longer one for the request that has the name.
Grant(t) ==
    /\ \E a \in asks[t], u \in 0..(now + Ttl) :
          /\ lease[a.name] # None =>
                lease[a.name].by = a.request /\ lease[a.name].until <= u
          /\ lease' = [lease EXCEPT ![a.name] = [by |-> a.request, until |-> u]]
    /\ UNCHANGED <<asks, verdict, expiry, now>>

Tell(t, what) ==
    /\ verdict[t] = "waiting"
    /\ verdict' = [verdict EXCEPT ![t] = what]
    /\ UNCHANGED <<asks, lease, now>>

Confirm(t) ==
    /\ Tell(t, "succeeded")
    /\ \E a \in asks[t], u \in 0..(now + Ttl) :
          /\ now < u =>
                /\ lease[a.name] # None
                /\ lease[a.name].by = a.request /\ u <= lease[a.name].until
          /\ expiry' = [expiry EXCEPT ![t] = u]

\* A task that wants no name, or one that another request wants.
Refuse(t) ==
    /\ Tell(t, "failed")
    /\ \A a \in asks[t] : \E r \in Tasks : \E b \in asks[r] :
          b.name = a.name /\ b.request # a.request
    /\ UNCHANGED expiry

TimeOut(t) == Tell(t, "timedout") /\ UNCHANGED expiry

Expire(n) ==
    /\ lease[n] # None /\ lease[n].until <= now
    /\ lease' = [lease EXCEPT ![n] = None]
    /\ UNCHANGED <<asks, verdict, expiry, now>>

Tick == now' = now + 1 /\ UNCHANGED <<asks, verdict, expiry, lease>>

Next ==
    \/ \E t \in Tasks : Grant(t) \/ Confirm(t) \/ Refuse(t) \/ TimeOut(t)
    \/ \E n \in Names : Expire(n)
    \/ Tick

Spec == Init /\ [][Next]_vars
=============================================================================
