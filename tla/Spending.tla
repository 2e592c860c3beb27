------------------------------- MODULE Spending -------------------------------
(***************************************************************************)
(* What a workspace spends on the LLM, and what is to stop it: the pool of *)
(* free credits (backend/billing_gate.py) and the budget per month         *)
(* (backend/main.py, backend/cost.py).                                     *)
(*                                                                         *)
(* Bots call the LLM on their own and report it as events.  The backend    *)
(* calls it in jobs: to generate an agent (agent_generator.py), to plan a  *)
(* team (team_planner.py), and, asked by a cron, to judge the runs that    *)
(* ended (eval_runner.py, eval_sampler.py).  The first two commit before   *)
(* each call and read the workspace anew when they record its cost.  An    *)
(* evaluation is one transaction, and its session keeps the workspace's    *)
(* row from before its first call (db.py, expire_on_commit=False).         *)
(*                                                                         *)
(* Abstractions.  One workspace, within one month; a call costs 1.  Jobs   *)
(* are claimed in any order (JobsRunner has the queue).  A run leaves the  *)
(* window of the sample at any time.  What a model answers, the prompts    *)
(* and GitHub are choices.                                                 *)
(*                                                                         *)
(* A definition marked "broken" is no part of the model: it is the one     *)
(* below it with a plausible bug, there to show that a property notices.   *)
(***************************************************************************)
EXTENDS Naturals, FiniteSets, FiniteSetsExt

CONSTANTS
    AgentJobs,      \* generation_jobs of kind agent_generate
    PlanJobs,       \* ... of kind team_plan
    EvalJobs,       \* ... of kind eval_runs
    Posts,          \* events that report a call of a bot
    EndedRuns,      \* runs of the workspace's bots
    PerAgent,       \* how many an evaluation takes
    Runners,        \* job runners, one for each backend that is up
    FreeCredits,    \* what the pool holds at first
    Budgets,        \* values of budget_usd_monthly, 0 for none
    MaxSettings,    \* bound on changes of the budget, the plan and the key
    MaxSpendFaults  \* bound on jobs and requests that die

ASSUME SpendingAssumption ==
    /\ \A S \in {AgentJobs, PlanJobs, EvalJobs, Posts} : IsFiniteSet(S)
    /\ FreeCredits \in Nat /\ Budgets \subseteq Nat /\ 0 \in Budgets
    /\ Runners \in Nat /\ PerAgent \in Nat
    /\ MaxSettings \in Nat /\ MaxSpendFaults \in Nat

VARIABLES
    purse,          \* the workspace's row: its plan, credits and budget
    key,            \* whether its Anthropic key is set
    ledger,         \* the sum of runs.cost_usd
    work,           \* jobs and requests that spend
    judged,         \* run_evaluations: <<run_id, judge_model>>
    echo,           \* the model that a judge's answer names
    billed,         \* history: calls that were paid for
    lost,           \* history: those whose cost is recorded nowhere
    owed,           \* history: recorded cost that the pool is to pay
    stale,          \* history: whether a pool was written that had changed since
                    \*   it was read
    settings,
    spendFaults

spendVars == <<purse, key, ledger, work, judged, echo, billed, lost, owed,
               stale, settings, spendFaults>>

JudgeModel == "judge"
GenJobs == AgentJobs \cup PlanJobs
Spenders == GenJobs \cup EvalJobs \cup Posts
PoolRow == [plan : {"free", "paid"}, credits : 0..FreeCredits]
Purse == [plan : {"free", "paid"}, credits : 0..FreeCredits, cap : Budgets]
Pool == [plan |-> purse.plan, credits |-> purse.credits]
NoRow == [plan |-> "free", credits |-> 0]

\* asking    a generation, between two calls
\* judging   an evaluation, between two calls
\* answered  the last call is over; the cost is not recorded
\* writing   the pool was read and is about to be written
\* The rest are the statuses of generation_jobs; "died" is one that is
\* "running" for ever, or a request that failed.
WorkStages == {"new", "pending", "asking", "judging", "answered", "writing",
           "success", "failed", "died"}
AtWork == {"asking", "judging", "answered", "writing"}

\* fate is the status to come, calls what was counted, held the workspace's row
\* in the session, left the runs to judge and verdicts those judged; earlier is
\* history: the evaluations that had succeeded when this one took its sample.
Work == [stage : WorkStages, fate : {"success", "failed"}, calls : Nat, held : PoolRow,
         left : SUBSET EndedRuns, verdicts : SUBSET EndedRuns,
         earlier : SUBSET EvalJobs]

NewWork == [stage |-> "new", fate |-> "success", calls |-> 0, held |-> NoRow,
            left |-> {}, verdicts |-> {}, earlier |-> {}]

SpendingInit ==
    /\ purse = [plan |-> "free", credits |-> FreeCredits, cap |-> 0]
    /\ key = TRUE /\ echo \in {JudgeModel, "dated"}
    /\ work = [j \in Spenders |-> NewWork]
    /\ judged = {} /\ stale = FALSE
    /\ ledger = 0 /\ billed = 0 /\ lost = 0 /\ owed = 0
    /\ settings = 0 /\ spendFaults = 0

-----------------------------------------------------------------------------
(* The gates.                                                              *)

\* assert_billing_active, and the same test at the start of an evaluation.
OutOfCredits == purse.plan = "free" /\ purse.credits = 0

\* workspace_cost_mtd.  It has no key "total_usd".
CostMtd == [mtd_usd |-> ledger]

\* float(cost.get("total_usd") or 0)
Used == IF "total_usd" \in DOMAIN CostMtd THEN CostMtd.total_usd ELSE 0

OverBudget == purse.cap > 0 /\ Used >= purse.cap

-----------------------------------------------------------------------------
(* Users and the webhook of Stripe, each on columns of its own.            *)

Setting == settings < MaxSettings /\ settings' = settings + 1

\* patch_me.
SetBudget(b) ==
    /\ b # purse.cap /\ Setting
    /\ purse' = [purse EXCEPT !.cap = b]
    /\ UNCHANGED <<key, ledger, work, judged, echo, billed, lost, owed, stale, spendFaults>>

\* Module Billing says when.
ChangePlan ==
    /\ Setting
    /\ purse' = [purse EXCEPT !.plan = IF @ = "free" THEN "paid" ELSE "free"]
    /\ UNCHANGED <<key, ledger, work, judged, echo, billed, lost, owed, stale, spendFaults>>

\* delete_secret.
RemoveKey ==
    /\ key /\ key' = FALSE /\ Setting
    /\ UNCHANGED <<purse, ledger, work, judged, echo, billed, lost, owed, stale, spendFaults>>

-----------------------------------------------------------------------------
(* Asking for jobs.                                                        *)

SetStage(j, stage) == work' = [work EXCEPT ![j].stage = stage]

\* The session is closed.
Closes(j, stage) == work' = [work EXCEPT ![j].stage = stage, ![j].calls = 0,
                                       ![j].held = NoRow, ![j].left = {}]

\* generate_agent and plan_team: refused without a key and over the budget.
Ask(j) ==
    /\ j \in GenJobs /\ work[j].stage = "new"
    /\ key /\ ~OverBudget
    /\ SetStage(j, "pending")
    /\ UNCHANGED <<purse, key, ledger, judged, echo, billed, lost, owed, stale, settings, spendFaults>>

\* _enqueue_eval_jobs_for_all_workspaces, of the cron of any backend: no gate.
Cron(j) ==
    /\ j \in EvalJobs /\ work[j].stage = "new"
    /\ SetStage(j, "pending")
    /\ UNCHANGED <<purse, key, ledger, judged, echo, billed, lost, owed, stale, settings, spendFaults>>

RunnerFree == Cardinality({j \in GenJobs \cup EvalJobs : work[j].stage \in AtWork}) < Runners

-----------------------------------------------------------------------------
(* run_agent_generation_job and run_team_plan_job.                         *)

\* The gate and the key again, before a call; a plan's README is fetched too.
StartGeneration(j) ==
    /\ j \in GenJobs /\ work[j].stage = "pending" /\ RunnerFree
    /\ \/ ~OutOfCredits /\ key /\ SetStage(j, "asking")
       \/ (OutOfCredits \/ ~key \/ j \in PlanJobs) /\ SetStage(j, "failed")
    /\ UNCHANGED <<purse, key, ledger, judged, echo, billed, lost, owed, stale, settings, spendFaults>>

\* An invalid name and an invalid bot are asked for once more, and so is an
\* invalid plan.
MaxCalls(j) == IF j \in AgentJobs THEN 3 ELSE 2

\* The call is answered: well, or not and it is asked again, or for the last time.
CallAnswered(j) ==
    /\ work[j].stage = "asking"
    /\ \/ \E f \in {"success", "failed"} :
            work' = [work EXCEPT ![j].calls = @ + 1, ![j].stage = "answered", ![j].fate = f]
       \/ /\ work[j].calls + 1 < MaxCalls(j)
          /\ work' = [work EXCEPT ![j].calls = @ + 1]
    /\ billed' = billed + 1
    /\ UNCHANGED <<purse, key, ledger, judged, echo, lost, owed, stale, settings, spendFaults>>

\* broken: only the cost of a generation that succeeds is recorded
CallFailsAndSpendIsForgotten(j) ==
    /\ work[j].stage = "asking"
    /\ work' = [work EXCEPT ![j].stage = "failed"]
    /\ UNCHANGED <<purse, key, ledger, judged, echo, billed, lost, owed, stale, settings, spendFaults>>

\* The call fails (anthropic.APIError): "finally" records what was spent before.
CallFails(j) ==
    /\ work[j].stage = "asking"
    /\ work' = [work EXCEPT ![j].stage = IF work[j].calls = 0 THEN "failed" ELSE "answered",
                            ![j].fate = "failed"]
    /\ UNCHANGED <<purse, key, ledger, judged, echo, billed, lost, owed, stale, settings, spendFaults>>

\* decrement_free_credits reads the row: nothing refers to it since the gate.
ReadPool(j) ==
    /\ work[j].stage = "answered"
    /\ work' = [work EXCEPT ![j].stage = "writing", ![j].held = Pool]
    /\ UNCHANGED <<purse, key, ledger, judged, echo, billed, lost, owed, stale, settings, spendFaults>>

-----------------------------------------------------------------------------
(* Recording what was spent: a row of runs, and the pool.                  *)

\* broken: a paid plan's calls come out of the pool as well
PoolPaysAlways(w) == w.calls > 0

PoolPays(w) == w.held.plan = "free" /\ w.calls > 0

\* The pool that decrement_free_credits computes, no less than 0.
Left(w) == IF w.held.credits > w.calls THEN w.held.credits - w.calls ELSE 0

\* The commit. A pool that stays as it was read is not written.
Record(w) ==
    /\ ledger' = ledger + w.calls
    /\ owed' = IF w.held.plan = "free" THEN owed + w.calls ELSE owed
    /\ IF PoolPays(w) /\ Left(w) # w.held.credits
         THEN /\ purse' = [purse EXCEPT !.credits = Left(w)]
              /\ stale' = (stale \/ w.held.credits # purse.credits)
         ELSE UNCHANGED <<purse, stale>>

\* The end of a generation, and of the request that stores an event.
Commit(j) ==
    /\ work[j].stage = "writing"
    /\ Record(work[j])
    /\ Closes(j, work[j].fate)
    /\ UNCHANGED <<key, judged, echo, billed, lost, settings, spendFaults>>

\* ingest_event and add_run_cost_from_event: a bot made a call, which no gate
\* held back, and says so.
Report(j) ==
    /\ j \in Posts /\ work[j].stage = "new"
    /\ work' = [work EXCEPT ![j].stage = "writing", ![j].calls = 1, ![j].held = Pool]
    /\ billed' = billed + 1
    /\ UNCHANGED <<purse, key, ledger, judged, echo, lost, owed, stale, settings, spendFaults>>

-----------------------------------------------------------------------------
(* run_eval_job.                                                           *)

\* broken: no run is left out
UnjudgedOrNot == EndedRuns

\* pick_sample's runs: no row of run_evaluations by the judge asked for.
Unjudged == {r \in EndedRuns : <<r, JudgeModel>> \notin judged}

\* The gates, which skip rather than fail, and the sample, which may be empty.
StartEval(j) ==
    /\ j \in EvalJobs /\ work[j].stage = "pending" /\ RunnerFree
    /\ \/ /\ ~OutOfCredits /\ key /\ ~OverBudget
          /\ \E S \in SUBSET Unjudged \ {{}} :
                /\ Cardinality(S) <= PerAgent
                /\ work' = [work EXCEPT ![j].stage = "judging", ![j].left = S,
                                        ![j].held = Pool,
                                        ![j].earlier = {k \in EvalJobs : work[k].stage = "success"}]
       \/ SetStage(j, "success")
    /\ UNCHANGED <<purse, key, ledger, judged, echo, billed, lost, owed, stale, settings, spendFaults>>

\* The rows of run_evaluations to come.
Rows(j) == {<<r, echo>> : r \in work[j].verdicts}

\* One run: its agent is gone or the call fails; or the answer has no verdict,
\* and what it cost is not counted; or it has one.
Judge(j, r) ==
    /\ work[j].stage = "judging" /\ r \in work[j].left
    /\ \/ /\ work' = [work EXCEPT ![j].left = @ \ {r}]
          /\ UNCHANGED <<billed, lost>>
       \/ /\ work' = [work EXCEPT ![j].left = @ \ {r}]
          /\ billed' = billed + 1 /\ lost' = lost + 1
       \/ /\ work' = [work EXCEPT ![j].left = @ \ {r}, ![j].verdicts = @ \cup {r},
                                  ![j].calls = @ + 1]
          /\ billed' = billed + 1 /\ UNCHANGED lost
    /\ UNCHANGED <<purse, key, ledger, judged, echo, owed, stale, settings, spendFaults>>

\* The commit of it all.
EndEval(j) ==
    /\ work[j].stage = "judging" /\ work[j].left = {}
    /\ Rows(j) \cap judged = {}
    /\ judged' = judged \cup Rows(j)
    /\ Record(work[j])
    /\ Closes(j, "success")
    /\ UNCHANGED <<key, echo, billed, lost, settings, spendFaults>>

\* A verdict is inserted before the next prompt is built, or by the commit: the
\* unique index refuses it, and all is lost.
EvalRefused(j) ==
    /\ work[j].stage = "judging"
    /\ Rows(j) \cap judged # {}
    /\ lost' = lost + work[j].calls
    /\ Closes(j, "failed")
    /\ UNCHANGED <<purse, key, ledger, judged, echo, billed, owed, stale, settings, spendFaults>>

-----------------------------------------------------------------------------
(* Faults.                                                                 *)

\* The process ends, the commit fails, or the database ends an evaluation that
\* was idle in its transaction while it waited for the LLM.
Die(j) ==
    /\ spendFaults < MaxSpendFaults
    /\ work[j].stage \in AtWork
    /\ Closes(j, "died")
    /\ lost' = lost + work[j].calls
    /\ spendFaults' = spendFaults + 1
    /\ UNCHANGED <<purse, key, ledger, judged, echo, billed, owed, stale, settings>>

SpendingNext ==
    \/ \E b \in Budgets : SetBudget(b)
    \/ ChangePlan \/ RemoveKey
    \/ \E j \in Spenders :
         \/ Ask(j) \/ Cron(j) \/ StartGeneration(j) \/ CallAnswered(j) \/ CallFails(j)
         \/ ReadPool(j) \/ Commit(j) \/ Report(j) \/ StartEval(j) \/ EndEval(j) \/ EvalRefused(j)
         \/ Die(j)
         \/ \E r \in EndedRuns : Judge(j, r)

SpendingSpec == SpendingInit /\ [][SpendingNext]_spendVars

-----------------------------------------------------------------------------
(* Properties.                                                             *)

SpendingTypeOK ==
    /\ purse \in Purse /\ key \in BOOLEAN /\ echo \in {JudgeModel, "dated"}
    /\ work \in [Spenders -> Work]
    /\ judged \subseteq EndedRuns \X {JudgeModel, "dated"}
    /\ {ledger, billed, lost, owed} \subseteq Nat
    /\ stale \in BOOLEAN /\ settings \in 0..MaxSettings /\ spendFaults \in 0..MaxSpendFaults

Unrecorded(w) == IF w.stage \in AtWork THEN w.calls ELSE 0

\* What the pool should hold: recorded while the plan was free, down to 0.
Due == IF owed < FreeCredits THEN FreeCredits - owed ELSE 0

\* The pool never pays more than was recorded while the plan was free; it pays all
\* of that, down to 0, unless it was written from a row that was out of date.
PoolAgrees == purse.credits >= Due /\ (~stale => purse.credits = Due)

\* The books agree with the bill.  A call that was paid for is recorded or about
\* to be ("Record cost even on failure paths"), except for an answer without a
\* verdict, an evaluation whose rows are refused, and what dies on its way.  And
\* the pool agrees with the books.
BooksBalance ==
    /\ billed = ledger + lost + MapThenSumSet(LAMBDA j : Unrecorded(work[j]), Spenders)
    /\ PoolAgrees

\* pick_sample: an evaluation asks for no verdict that an evaluation before it
\* got, however runners, crons and failures mix, if the judge answers under the
\* name it is called by.
JudgedOnce ==
    echo = JudgeModel =>
        \A j, k \in EvalJobs :
            k \in work[j].earlier => work[j].verdicts \cap work[k].verdicts = {}

=============================================================================
