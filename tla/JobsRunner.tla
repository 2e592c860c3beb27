---------------------------- MODULE JobsRunner ----------------------------
(***************************************************************************)
(* The jobs that the backend runs off the request path (backend/jobs.py):  *)
(* the generation_jobs table and the runner of each backend process, which *)
(* claims one job at a time, runs its handler in a thread and writes how   *)
(* it ended.                                                               *)
(*                                                                         *)
(* Three transactions follow one another: the claim commits "running", the *)
(* handler commits its effects, the runner commits the end.  A crash, or a *)
(* shutdown that cancels the runner's task, may come between any two, and  *)
(* each may fail before or after the database has acted.  Two backends may *)
(* run at once, as they do while a new release takes over.                 *)
(*                                                                         *)
(* A handler that raises is rolled back, with one exception: what team     *)
(* planning and agent generation have paid for is committed on the way     *)
(* out, whether they return or raise (agent_generator.py, team_planner.py; *)
(* the run and the credits are in Spending).  That row is all they commit, *)
(* for their result goes into the job's own row.                           *)
(*                                                                         *)
(* Abstractions.  An id is its place in created_at order.  Results, errors *)
(* and attempt_count are left out; effects is no column, it counts the     *)
(* handler's commits, also the one of a handler that raises.  Every kind   *)
(* that is enqueued has a handler.                                         *)
(*                                                                         *)
(* A definition marked "broken" is no part of the model: it is the one     *)
(* below it with a plausible bug, there to show that a property notices.   *)
(***************************************************************************)
EXTENDS Naturals, FiniteSets, Tables

CONSTANTS
    Jobs,       \* ids of the jobs that may be enqueued
    Payloads,   \* what a job may be asked to do
    Generations, \* the payloads of team_plan and agent_generate jobs
    Backends,   \* backend processes
    MaxFaults   \* bound on crashes, shutdowns and lost database answers

ASSUME JobsAssumption == Jobs \subseteq Nat \ {0} /\ MaxFaults \in Nat
ASSUME PayloadsAssumption == Generations \subseteq Payloads

VARIABLES
    job,        \* the committed rows: a function on their ids
    proc,       \* the process: serving, shutting down or gone
    runner,     \* the runner of each process, and the thread it waits for
    jobFaults   \* faults so far

jobVars == <<job, proc, runner, jobFaults>>

NoJob == 0

Job == [payload : Payloads,
        status : {"pending", "running", "success", "failed"}, effects : Nat]

\* idle      between two jobs
\* handler   the handler runs in its thread, the task awaits it
\* returned  the handler's session committed; "success" comes next
\* raised    something raised; "failed" comes next
\* loose     the task was cancelled; the thread goes on by itself
Runner == [pc : {"idle", "handler", "returned", "raised", "loose"},
           job : Jobs \cup {NoJob}]

Idle == [pc |-> "idle", job |-> NoJob]

Pending == {j \in DOMAIN job : job[j].status = "pending"}

Goto(b, pc) == runner' = [runner EXCEPT ![b].pc = pc]

Fault == jobFaults < MaxFaults /\ jobFaults' = jobFaults + 1

-----------------------------------------------------------------------------
(* Enqueueing: a request or a tick commits new rows with the rest of its   *)
(* transaction.                                                            *)

NewJob(p) == [payload |-> p, status |-> "pending", effects |-> 0]

Fresh(J) == /\ J \subseteq Jobs \ DOMAIN job
            /\ \A j \in J, k \in Jobs \ (DOMAIN job \cup J) : j < k

\* new maps the ids of the new jobs to their payloads.
Enqueued(new) ==
    /\ Fresh(DOMAIN new)
    /\ job' = [j \in DOMAIN job \cup DOMAIN new |->
                  IF j \in DOMAIN new THEN NewJob(new[j]) ELSE job[j]]

-----------------------------------------------------------------------------
(* The runner. *)

Claimable(j) == job[j].status = "pending"

\* broken: the oldest job that has not ended must be pending.
Claimed_HeadOfLine(j) ==
    /\ j \in DOMAIN job /\ Claimable(j)
    /\ \A k \in DOMAIN job : job[k].status \in {"pending", "running"} => j <= k
    /\ job' = [job EXCEPT ![j].status = "running"]

\* The oldest pending row, FOR UPDATE SKIP LOCKED, committed as running.
Claimed(j) ==
    /\ j \in DOMAIN job /\ Claimable(j)
    /\ \A k \in DOMAIN job : Claimable(k) => j <= k
    /\ job' = [job EXCEPT ![j].status = "running"]

Claim(b, j) ==
    /\ proc[b] = "up" /\ runner[b].pc = "idle"
    /\ Claimed(j)
    /\ runner' = [runner EXCEPT ![b] = [pc |-> "handler", job |-> j]]
    /\ UNCHANGED <<proc, jobFaults>>

\* The claim commits and its answer is lost: "claim failed", and the runner
\* goes on to the next job.
ClaimLost(b, j) ==
    /\ proc[b] = "up" /\ runner[b].pc = "idle"
    /\ Fault
    /\ Claimed(j)
    /\ UNCHANGED <<proc, runner>>

InThread(b) == runner[b].pc \in {"handler", "loose"}

\* The handler returns and its session commits.  Nobody awaits a loose thread.
HandlerCommit(b) ==
    /\ InThread(b)
    /\ job' = [job EXCEPT ![runner[b].job].effects = @ + 1]
    /\ runner' = [runner EXCEPT ![b] = IF @.pc = "loose" THEN Idle
                                       ELSE [@ EXCEPT !.pc = "returned"]]
    /\ UNCHANGED <<proc, jobFaults>>

\* The commit is done and its answer is lost: to the runner, a failure.
HandlerCommitLost(b) ==
    /\ runner[b].pc = "handler"
    /\ Fault
    /\ job' = [job EXCEPT ![runner[b].job].effects = @ + 1]
    /\ Goto(b, "raised")
    /\ UNCHANGED proc

\* broken: whatever the handler did before it raised is committed.
HandlerRaise_Partial(b) ==
    /\ InThread(b)
    /\ job' = [job EXCEPT ![runner[b].job].effects = @ + 1]
    /\ runner' = [runner EXCEPT ![b] = IF @.pc = "loose" THEN Idle
                                       ELSE [@ EXCEPT !.pc = "raised"]]
    /\ UNCHANGED <<proc, jobFaults>>

\* The handler raises and its session rolls back, after the commit of what
\* the answers of the model cost if it generates and has got one.
HandlerRaise(b) ==
    /\ InThread(b)
    /\ \/ UNCHANGED job
       \/ /\ job[runner[b].job].payload \in Generations
          /\ job' = [job EXCEPT ![runner[b].job].effects = @ + 1]
    /\ runner' = [runner EXCEPT ![b] = IF @.pc = "loose" THEN Idle
                                       ELSE [@ EXCEPT !.pc = "raised"]]
    /\ UNCHANGED <<proc, jobFaults>>

\* broken: a job whose handler raised goes back to the queue.
Outcome_Retry(b) ==
    IF runner[b].pc = "returned" THEN "success" ELSE "pending"

Outcome(b) == IF runner[b].pc = "returned" THEN "success" ELSE "failed"

Ended(b) == job' = [job EXCEPT ![runner[b].job].status = Outcome(b)]

Finalize(b) ==
    /\ runner[b].pc \in {"returned", "raised"}
    /\ Ended(b)
    /\ runner' = [runner EXCEPT ![b] = Idle]
    /\ UNCHANGED <<proc, jobFaults>>

\* Writing the end fails, done or not.  A success that could not be written
\* becomes a failure; a failure that could not be written is only logged.
FinalizeLost(b) ==
    /\ runner[b].pc \in {"returned", "raised"}
    /\ Fault
    /\ Ended(b) \/ UNCHANGED job
    /\ runner' = [runner EXCEPT ![b] = IF @.pc = "returned"
                                       THEN [@ EXCEPT !.pc = "raised"]
                                       ELSE Idle]
    /\ UNCHANGED proc

-----------------------------------------------------------------------------
(* Processes. *)

\* The awaiting task is cancelled: a running thread goes on by itself, and
\* what it returned is not written any more.
Cancelled(b) ==
    [runner EXCEPT ![b] = IF @.pc = "handler" THEN [@ EXCEPT !.pc = "loose"]
                          ELSE Idle]

Shutdown(b) ==
    /\ proc[b] = "up"
    /\ Fault
    /\ proc' = [proc EXCEPT ![b] = "closing"]
    /\ runner' = Cancelled(b)
    /\ UNCHANGED job

\* The interpreter joins its threads before it exits.
Exit(b) ==
    /\ proc[b] = "closing" /\ runner[b].pc = "idle"
    /\ proc' = [proc EXCEPT ![b] = "down"]
    /\ UNCHANGED <<job, runner, jobFaults>>

\* The process dies, and open transactions with it.
Kill(b) ==
    /\ proc[b] # "down"
    /\ Fault
    /\ proc' = [proc EXCEPT ![b] = "down"]
    /\ runner' = [runner EXCEPT ![b] = Idle]
    /\ UNCHANGED job

Start(b) ==
    /\ proc[b] = "down"
    /\ proc' = [proc EXCEPT ![b] = "up"]
    /\ UNCHANGED <<job, runner, jobFaults>>

-----------------------------------------------------------------------------
JobsInit ==
    /\ job = EmptyTable
    /\ proc = [b \in Backends |-> "up"]
    /\ runner = [b \in Backends |-> Idle]
    /\ jobFaults = 0

-----------------------------------------------------------------------------
\* Rows and runners keep their types; a runner names the job it has exactly
\* while it has one, and a process that is gone runs nothing.
JobsTypeOK ==
    /\ IsTable(job, Jobs, Job)
    /\ proc \in [Backends -> {"up", "closing", "down"}]
    /\ runner \in [Backends -> Runner]
    /\ jobFaults \in Nat
    /\ \A b \in Backends :
          /\ runner[b].pc = "idle" <=> runner[b].job = NoJob
          /\ runner[b].job \in DOMAIN job \cup {NoJob}
          /\ proc[b] = "down" => runner[b].pc = "idle"
          /\ proc[b] = "closing" => runner[b].pc \in {"idle", "loose"}
          /\ proc[b] = "up" => runner[b].pc # "loose"

Held(j) == \E b \in Backends : runner[b].job = j /\ runner[b].pc # "loose"

\* A job did something beyond paying for its model: a generation's result is
\* in the job's row or nowhere.
Worked(j) == job[j].effects > 0 /\ job[j].payload \notin Generations

\* Jobs whose row does not tell what became of them: left running with nobody
\* to write their end, or failed although their work is there.  The spend of a
\* generation that failed is kept on purpose ("so the cost survives the
\* runner's session-rollback on handler failure").
Orphans == {j \in DOMAIN job : job[j].status = "running" /\ ~Held(j)}
Belied == {j \in DOMAIN job : job[j].status = "failed" /\ Worked(j)}

Stage(j) == IF j \notin DOMAIN job THEN "absent"
            ELSE CASE job[j].status = "pending" -> "waiting"
                   [] job[j].status = "running" -> "taken"
                   [] OTHER -> "ended"

Acts(j) == IF j \in DOMAIN job THEN job[j].effects ELSE 0

Once == INSTANCE AtMostOnce WITH
            Items <- Jobs,
            stage <- [j \in Jobs |-> Stage(j)],
            acts <- [j \in Jobs |-> Acts(j)]

=============================================================================
