------------------------ MODULE ScaffolderRefinement ------------------------
(***************************************************************************)
(* The worker that the deployment runs implements NameLease, whatever is   *)
(* delivered twice, times out, fails or crashes.  The queue and the worker *)
(* do not appear in it; the table is the leases, the tokens the verdicts.  *)
(***************************************************************************)
EXTENDS Scaffolder

Asks ==
    [t \in Tasks |-> IF Kind(t) = "reserve"
                     THEN {[name |-> Name(t), request |-> Request(t)]} ELSE {}]

Lease == INSTANCE NameLease
            WITH asks <- Asks, verdict <- token, expiry <- granted, lease <- reservation

\* Every behaviour of one worker is one the promise allows: a name changes hands
\* only when its lease is over, no write shortens a lease, and a task is told
\* nothing about a name that the table does not bear out at that moment.
KeepsLeases == Lease!Spec
=============================================================================
