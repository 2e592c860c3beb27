-------------------------- MODULE TriggerScheduler --------------------------
(***************************************************************************)
(* Triggers that fire agents on a schedule or on a webhook call: the       *)
(* endpoints that edit them (backend/main.py), the scheduler's tick and    *)
(* its startup sweep (backend/scheduler.py), and the job that a fire       *)
(* becomes (backend/scheduled_run.py), run by the jobs runner.             *)
(*                                                                         *)
(* A tick holds the lock of every row it read until it commits, and skips  *)
(* the rows that are locked; everyone else's write waits for the lock.     *)
(* Editing a schedule reads the row without a lock: a tick or another edit *)
(* may commit before the edit's write, which sets only the columns that    *)
(* differ from what was read.  A webhook call finds its trigger enabled    *)
(* and enqueues the job once its body has come, whatever was done to the   *)
(* trigger meanwhile, except that its row must be there to be stamped.     *)
(*                                                                         *)
(* Time.  now is the clock; NextAt stands for croniter, of which only is   *)
(* known that the next slot is later.  Grace is the grace window.          *)
(*                                                                         *)
(* Abstractions.  The sweep is one step: it comes before anything else the *)
(* process does.  Ids are places in the order of commit.  The run and the  *)
(* command that a dispatch inserts are its job's effects; what becomes of  *)
(* them is in EventPipeline and CommandQueue.  gen and fire are history:   *)
(* the edits of a schedule, and the slot (next_run_at) a job was enqueued  *)
(* for, with the clock of its tick.  Create and edit refuse malformed      *)
(* schedules, so the branches for those are left out.  calls has a trigger *)
(* while one or more webhook calls of it are waiting for their bodies.     *)
(* The other jobs of a user, which plan teams and generate agents, are     *)
(* enqueued here too, for they share the queue.                            *)
(***************************************************************************)
EXTENDS JobsRunner

CONSTANTS
    Trigs,      \* ids of the triggers that may be created
    Schedules,  \* cron expressions
    NextAt,     \* the first slot of a schedule after a time
    MaxTime,    \* bound on the clock
    Grace,      \* the grace window
    MaxEdits    \* bound on the edits of a schedule

Time == 0 .. MaxTime

ASSUME TrigsAssumption == Trigs \subseteq Payloads \ Generations
ASSUME CronAssumption ==
    /\ NextAt \in [Schedules \X Time -> Nat]
    /\ \A s \in Schedules, t \in Time : NextAt[<<s, t>>] > t
ASSUME BoundsAssumption == {MaxTime, Grace, MaxEdits} \subseteq Nat

VARIABLES
    trig,       \* the triggers table: a function on the ids
    made,       \* ids handed out so far
    now,        \* the clock
    tick,       \* the open tick of each backend, and its clock
    edit,       \* schedule edits that have read their row
    calls,      \* triggers of the webhook calls that have read their row
    fire        \* what each job was enqueued for

trigVars == <<trig, made, now, tick, edit, calls, fire>>
vars == <<job, proc, runner, jobFaults,
          trig, made, now, tick, edit, calls, fire>>

NoSchedule == 0
NoSlot == 0

ASSUME NoScheduleAssumption == NoSchedule \notin Schedules

Trigger == [kind : {"cron", "webhook"}, enabled : BOOLEAN,
            sched : Schedules \cup {NoSchedule}, next : Nat, gen : Nat]

TickTx == [at : Time, rows : SUBSET Trigs]
NoTick == [at |-> 0, rows |-> {}]

Edit == [t : Trigs, sched : Schedules, next : Nat,
         seenSched : Schedules, seenNext : Nat]

Fire == [t : Trigs, gen : Nat, slot : Nat, at : Time]

Cron(t) == t \in DOMAIN trig /\ trig[t].kind = "cron"

Locked(t) == \E b \in Backends : t \in tick[b].rows

-----------------------------------------------------------------------------
(* The endpoints. *)

CreateTrigger(t) ==
    /\ t \in Trigs \ made /\ made' = made \cup {t}
    /\ \/ \E s \in Schedules :
             trig' = Inserted(trig, t,
                [kind |-> "cron", enabled |-> TRUE, sched |-> s,
                 next |-> NextAt[<<s, now>>], gen |-> 0])
       \/ trig' = Inserted(trig, t,
             [kind |-> "webhook", enabled |-> TRUE, sched |-> NoSchedule,
              next |-> NoSlot, gen |-> 0])
    /\ UNCHANGED <<jobVars, now, tick, edit, calls, fire>>

\* The toggle leaves next_run_at alone.
SetEnabled(t) ==
    /\ t \in DOMAIN trig /\ ~Locked(t)
    /\ trig' = [trig EXCEPT ![t].enabled = ~@]
    /\ UNCHANGED <<jobVars, made, now, tick, edit, calls, fire>>

\* PATCH with a schedule: read the row, compute the next slot from the clock.
EditRead(t, s) ==
    /\ Cron(t)
    /\ trig[t].gen + Cardinality({e \in edit : e.t = t}) < MaxEdits
    /\ edit' = edit \cup {[t |-> t, sched |-> s, next |-> NextAt[<<s, now>>],
                           seenSched |-> trig[t].sched,
                           seenNext |-> trig[t].next]}
    /\ UNCHANGED <<jobVars, trig, made, now, tick, calls, fire>>

\* Only columns that differ from what was read are written.
EditWrite(e) ==
    /\ e \in edit /\ edit' = edit \ {e}
    /\ Cron(e.t) /\ ~Locked(e.t)
    /\ trig' = [trig EXCEPT
          ![e.t].sched = IF e.sched = e.seenSched THEN @ ELSE e.sched,
          ![e.t].next = IF e.next = e.seenNext THEN @ ELSE e.next,
          ![e.t].gen = @ + 1]
    /\ UNCHANGED <<jobVars, made, now, tick, calls, fire>>

\* The request fails, or its row is gone.
EditDrop(e) ==
    /\ e \in edit /\ edit' = edit \ {e}
    /\ UNCHANGED <<jobVars, trig, made, now, tick, calls, fire>>

\* broken: the delete does not wait for the tick that holds the row.
DeleteTrigger_NoWait(t) ==
    /\ t \in DOMAIN trig
    /\ trig' = Removed(trig, {t})
    /\ UNCHANGED <<jobVars, made, now, tick, edit, calls, fire>>

DeleteTrigger(t) ==
    /\ t \in DOMAIN trig /\ ~Locked(t)
    /\ trig' = Removed(trig, {t})
    /\ UNCHANGED <<jobVars, made, now, tick, edit, calls, fire>>

\* The jobs of `new`, a function to triggers, are enqueued, each for the slot
\* its trigger stands at, by the clock `at`.
Fires(new, at) ==
    /\ Enqueued(new)
    /\ fire' = [j \in DOMAIN fire \cup DOMAIN new |->
                  IF j \in DOMAIN new
                  THEN [t |-> new[j], gen |-> trig[new[j]].gen,
                        slot |-> trig[new[j]].next, at |-> at]
                  ELSE fire[j]]

\* The handler finds the trigger enabled and awaits the body.
WebhookCall(t) ==
    /\ t \in DOMAIN trig /\ trig[t].kind = "webhook" /\ trig[t].enabled
    /\ calls' = calls \cup {t}
    /\ UNCHANGED <<jobVars, trig, made, now, tick, edit, fire>>

\* The body is there: enqueue and stamp the row, switched off or not.
WebhookFire(t, j) ==
    /\ t \in calls
    /\ t \in DOMAIN trig /\ trig[t].kind = "webhook"
    /\ Fires([k \in {j} |-> t], now)
    /\ UNCHANGED <<proc, runner, jobFaults, trig, made, now, tick, edit, calls>>

\* The last call of a trigger is over, answered or not.
WebhookOver(t) ==
    /\ t \in calls /\ calls' = calls \ {t}
    /\ UNCHANGED <<jobVars, trig, made, now, tick, edit, fire>>

\* generate_agent, plan_team.
Generate(p, j) ==
    /\ p \in Generations
    /\ Enqueued([k \in {j} |-> p])
    /\ UNCHANGED <<proc, runner, jobFaults>> /\ UNCHANGED trigVars

-----------------------------------------------------------------------------
(* The scheduler. *)

\* broken: a row is due only after its slot and before the window's end.
Due_Strict(t) ==
    /\ Cron(t) /\ trig[t].enabled
    /\ trig[t].next < now /\ now < trig[t].next + Grace

Due(t) ==
    /\ Cron(t) /\ trig[t].enabled
    /\ trig[t].next <= now /\ now <= trig[t].next + Grace

Stale(t) == Cron(t) /\ trig[t].enabled /\ trig[t].next + Grace < now

\* SELECT ... FOR UPDATE SKIP LOCKED.
TickOpen(b) ==
    LET due == {t \in Trigs : Due(t) /\ ~Locked(t)}
    IN  /\ proc[b] = "up" /\ tick[b] = NoTick
        /\ due # {}
        /\ tick' = [tick EXCEPT ![b] = [at |-> now, rows |-> due]]
        /\ UNCHANGED <<jobVars, trig, made, now, edit, calls, fire>>

\* broken: the next slot is computed from the missed one, so that every
\* missed slot is fired.
Advanced_Backfills(rows, at) ==
    [t \in DOMAIN trig |->
        IF t \in rows
        THEN [trig[t] EXCEPT !.next = NextAt[<<trig[t].sched,
                                              IF @ \in Time THEN @ ELSE at>>]]
        ELSE trig[t]]

\* next_run_at of the rows that a tick or a sweep holds, from its own clock.
Advanced(rows, at) ==
    [t \in DOMAIN trig |->
        IF t \in rows
        THEN [trig[t] EXCEPT !.next = NextAt[<<trig[t].sched, at>>]]
        ELSE trig[t]]

\* One job per row, in the order of their slots, and the rows move on.
TickCommit(b) ==
    LET D == tick[b].rows
    IN  /\ tick[b] # NoTick
        /\ \E J \in SUBSET Jobs : \E new \in [J -> D] :
              /\ \A t \in D : \E j \in J : new[j] = t
              /\ \A i, k \in J : i < k => /\ new[i] # new[k]
                                          /\ trig[new[i]].next <= trig[new[k]].next
              /\ Fires(new, tick[b].at)
        /\ trig' = Advanced(D, tick[b].at)
        /\ tick' = [tick EXCEPT ![b] = NoTick]
        /\ UNCHANGED <<proc, runner, jobFaults, made, now, edit, calls>>

\* A failing tick rolls back and is logged.
TickAbort(b) ==
    /\ tick[b] # NoTick
    /\ Fault
    /\ tick' = [tick EXCEPT ![b] = NoTick]
    /\ UNCHANGED <<job, proc, runner, trig, made, now, edit, calls, fire>>

\* A process starts; the sweep skips locked rows too.
StartSweep(b) ==
    /\ Start(b)
    /\ trig' = Advanced({t \in Trigs : Stale(t) /\ ~Locked(t)}, now)
    /\ UNCHANGED <<made, now, tick, edit, calls, fire>>

TimePasses ==
    /\ now < MaxTime /\ now' = now + 1
    /\ UNCHANGED <<jobVars, trig, made, tick, edit, calls, fire>>

-----------------------------------------------------------------------------
(* The job of a fire. *)

\* run_scheduled_job inserts a run and a command and stamps the trigger, whose
\* row must be free; if the trigger is gone, or its agent, it inserts nothing.
\* A generation commits its spend and locks no trigger.
Dispatch(b) ==
    /\ HandlerCommit(b) \/ HandlerCommitLost(b)
    /\ ~Locked(job[runner[b].job].payload)
    /\ UNCHANGED trigVars

-----------------------------------------------------------------------------
Init ==
    /\ JobsInit
    /\ trig = EmptyTable
    /\ made = {}
    /\ now = 0
    /\ tick = [b \in Backends |-> NoTick]
    /\ edit = {}
    /\ calls = {}
    /\ fire = EmptyTable

UserNext ==
    \/ \E t \in Trigs : CreateTrigger(t) \/ SetEnabled(t) \/ DeleteTrigger(t)
    \/ \E t \in Trigs, s \in Schedules : EditRead(t, s)
    \/ \E e \in edit : EditWrite(e) \/ EditDrop(e)
    \/ \E t \in Trigs : WebhookCall(t) \/ WebhookOver(t)
    \/ \E t \in Trigs, j \in Jobs : WebhookFire(t, j)
    \/ \E p \in Generations, j \in Jobs : Generate(p, j)

SchedulerNext(b) ==
    TickOpen(b) \/ TickCommit(b) \/ TickAbort(b) \/ StartSweep(b)

\* A process that dies rolls its open tick back.
JobsNext(b) ==
    \/ (\E j \in Jobs : Claim(b, j) \/ ClaimLost(b, j)) /\ UNCHANGED trigVars
    \/ Dispatch(b)
    \/ (HandlerRaise(b) \/ Finalize(b) \/ FinalizeLost(b)) /\ UNCHANGED trigVars
    \/ Shutdown(b) /\ UNCHANGED trigVars
    \/ Exit(b) /\ tick[b] = NoTick /\ UNCHANGED trigVars
    \/ /\ Kill(b)
       /\ tick' = [tick EXCEPT ![b] = NoTick]
       /\ UNCHANGED <<trig, made, now, edit, calls, fire>>

Next ==
    \/ UserNext \/ TimePasses
    \/ \E b \in Backends : SchedulerNext(b) \/ JobsNext(b)

Spec == Init /\ [][Next]_vars

\* What the two loops of a process do next, if it is there.
RunnerStep(b) ==
    \/ (\E j \in Jobs : Claim(b, j)) /\ UNCHANGED trigVars
    \/ Dispatch(b)
    \/ (HandlerRaise(b) \/ Finalize(b)) /\ UNCHANGED trigVars
    \/ Exit(b) /\ tick[b] = NoTick /\ UNCHANGED trigVars
    \/ StartSweep(b)

TickStep(b) == TickOpen(b) \/ TickCommit(b)

\* Both loops run for ever, handlers return, Railway restarts a process.
Fairness == \A b \in Backends : WF_vars(RunnerStep(b)) /\ WF_vars(TickStep(b))

FairSpec == Spec /\ Fairness

-----------------------------------------------------------------------------
\* Rows, transactions and history keep their types; a row that a tick holds is
\* there and is a cron trigger.
TrigTypeOK ==
    /\ JobsTypeOK
    /\ IsTable(trig, Trigs, Trigger)
    /\ DOMAIN trig \subseteq made /\ made \subseteq Trigs
    /\ now \in Time
    /\ tick \in [Backends -> TickTx]
    /\ edit \subseteq Edit /\ calls \subseteq Trigs
    /\ IsTable(fire, Jobs, Fire) /\ DOMAIN fire \subseteq DOMAIN job
    /\ \A t \in DOMAIN trig : trig[t].kind = "cron" <=> trig[t].sched # NoSchedule
    /\ \A b \in Backends : \A t \in tick[b].rows : Cron(t)

\* A window fires once, on time, and what was missed is never fired in a
\* stampede: between two edits of its schedule, a trigger's next fire is for a
\* slot after the time of the last one, however ticks of two backends, sweeps,
\* restarts, toggles and rolled-back transactions meet.
OncePerWindow ==
    \A k \in DOMAIN fire : fire[k].slot # NoSlot =>
        /\ fire[k].at \in fire[k].slot .. fire[k].slot + Grace
        /\ \A i \in DOMAIN fire :
              i < k /\ fire[i].t = fire[k].t /\ fire[i].gen = fire[k].gen
                  => fire[i].at < fire[k].slot

\* A job's effects are committed at most once, and certainly if it reads
\* success: no crash, shutdown or lost answer makes a runner repeat it, nor a
\* generation pay twice.
EffectsOnce ==
    \A j \in DOMAIN job :
        /\ job[j].effects <= 1
        /\ job[j].status = "success" => job[j].effects = 1
        /\ job[j].status = "pending" => job[j].effects = 0

\* Every crash, shutdown or lost answer leaves at most one job whose row does
\* not tell what became of it; handlers that raise leave none, except that a
\* generation which failed has its spend on record, as it should.
OneJobPerFault == Cardinality(Orphans \cup Belied) <= jobFaults

\* What the runner does to its jobs, with two processes, crashes, shutdowns and
\* lost answers, is what AtMostOnce allows: taken once, acting at most once
\* and only while running, ended for good.
RunsAtMostOnce == Once!Spec

\* When no more jobs come, all of them end but those that a fault orphaned:
\* neither an older job nor a backend that is replaced blocks the queue.
QueueDrains ==
    <>[](\A j \in DOMAIN job :
            job[j].status \in {"success", "failed"} \/ j \in Orphans)

InWindow(t) == /\ Cron(t) /\ trig[t].enabled
               /\ now \in trig[t].next .. trig[t].next + Grace

\* A due trigger does not stay due: it is fired, unless it is edited, switched
\* off, deleted or goes stale before a tick finds it.
DueIsFired ==
    \A t \in Trigs :
        InWindow(t) ~> (~InWindow(t) \/ DOMAIN job = Jobs)

=============================================================================
