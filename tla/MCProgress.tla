----------------------------- MODULE MCProgress -----------------------------
(***************************************************************************)
(* What the backend must get round to, on small instances: the scheduler   *)
(* and the jobs runner, whose jobs do not wait for ever, and the endpoint  *)
(* for Slack's events, whose loop does not.  One of the two moves at a     *)
(* time, for they share no row; the other one, which has nothing to do,    *)
(* asks for nothing by its fairness.                                       *)
(***************************************************************************)
EXTENDS TriggerScheduler, SlackEvents

VARIABLE part       \* the one that moves

progressVars == <<part, vars, slackVars>>

ProgressInit == part \in {"schedule", "slack"} /\ Init /\ SlackInit

ProgressNext ==
    \/ part = "schedule" /\ Next /\ UNCHANGED <<part, slackVars>>
    \/ part = "slack" /\ SlackNext /\ UNCHANGED <<part, vars>>

ProgressSpec == ProgressInit /\ [][ProgressNext]_progressVars
                             /\ Fairness /\ SlackFairness

MCJobs == 1 .. 2
MCNextAt == [x \in Schedules \X (0 .. MaxTime) |-> (x[2] \div x[1] + 1) * x[1]]
=============================================================================
