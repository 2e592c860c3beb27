-------------------------- MODULE DeploymentLease --------------------------
(***************************************************************************)
(* What the deployments table and the workers promise together, without    *)
(* heartbeats, reports or clocks: a deployment is submitted, wanted, and   *)
(* withdrawn once for good; while it is wanted, one supervisor at a time   *)
(* may hold it, and the next one takes it only after the last let go.      *)
(***************************************************************************)
CONSTANTS Deps, Threads

VARIABLES phase, holders

leaseVars == <<phase, holders>>

LeaseInit ==
    /\ phase = [d \in Deps |-> "new"]
    /\ holders = [d \in Deps |-> {}]

\* A new deployment is wanted; those it replaces are not any more.
Submit(d, R) ==
    /\ phase[d] = "new" /\ d \notin R
    /\ phase' = [e \in Deps |-> IF e = d THEN "wanted"
                                ELSE IF e \in R THEN "withdrawn" ELSE phase[e]]
    /\ UNCHANGED holders

Withdraw(d) ==
    /\ phase' = [phase EXCEPT ![d] = "withdrawn"]
    /\ UNCHANGED holders

Acquire(d, s) ==
    /\ phase[d] = "wanted" /\ holders[d] = {}
    /\ holders' = [holders EXCEPT ![d] = {s}]
    /\ UNCHANGED phase

\* Several deployments at once: a worker dies with all its supervisors.
Release(D) ==
    /\ holders' = [d \in Deps |-> IF d \in D THEN {} ELSE holders[d]]
    /\ UNCHANGED phase

LeaseNext ==
    \/ \E d \in Deps, R \in SUBSET Deps : Submit(d, R)
    \/ \E d \in Deps : Withdraw(d)
    \/ \E d \in Deps, s \in Threads : Acquire(d, s)
    \/ \E D \in SUBSET Deps : Release(D)

LeaseSpec == LeaseInit /\ [][LeaseNext]_leaseVars

=============================================================================
