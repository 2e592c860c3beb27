----------------------------- MODULE JobsProofs -----------------------------
(***************************************************************************)
(* Proofs about triggers and jobs, for any number of either and of         *)
(* backends: the types, what a runner may do to a job, and that a window   *)
(* of a schedule is fired once.                                            *)
(***************************************************************************)
EXTENDS TriggerScheduler, FiniteSetTheorems, TLAPS

-----------------------------------------------------------------------------
(* Steps, as the jobs table sees them. *)

\* A request or a tick enqueues.
EnqueueStep ==
    /\ \E J \in SUBSET Jobs : \E new \in [J -> Payloads] : Enqueued(new)
    /\ UNCHANGED <<proc, runner, jobFaults>>

\* A process, its runner or its thread moves.
ProcessStep(b) ==
    \/ \E j \in Jobs : Claim(b, j) \/ ClaimLost(b, j)
    \/ HandlerCommit(b) \/ HandlerCommitLost(b) \/ HandlerRaise(b)
    \/ Finalize(b) \/ FinalizeLost(b)
    \/ Shutdown(b) \/ Exit(b) \/ Kill(b) \/ Start(b)

\* A failing tick counts as a fault of the instance.
JobStep ==
    \/ EnqueueStep
    \/ \E b \in Backends : ProcessStep(b)
    \/ Fault /\ UNCHANGED <<job, proc, runner>>
    \/ UNCHANGED jobVars

\* The triggers that a tick enqueues for are payloads.
LEMMA StepIsJobStep ==
    ASSUME TrigTypeOK, [Next]_vars
    PROVE  JobStep
<1>1. CASE UserNext
  <2>1. ASSUME NEW t \in Trigs, NEW j \in Jobs, WebhookFire(t, j)
        PROVE  EnqueueStep
    <3>1. [k \in {j} |-> t] \in [{j} -> Payloads] /\ {j} \in SUBSET Jobs
      BY TrigsAssumption
    <3> QED BY <2>1, <3>1 DEF WebhookFire, Fires, EnqueueStep
  <2>2. ASSUME NEW p \in Generations, NEW j \in Jobs, Generate(p, j)
        PROVE  EnqueueStep
    <3>1. [k \in {j} |-> p] \in [{j} -> Payloads] /\ {j} \in SUBSET Jobs
      BY PayloadsAssumption
    <3> QED BY <2>2, <3>1 DEF Generate, EnqueueStep
  <2> QED BY <1>1, <2>1, <2>2 DEF UserNext, CreateTrigger, SetEnabled, DeleteTrigger,
            EditRead, EditWrite, EditDrop, WebhookCall, WebhookOver, JobStep
<1>2. CASE TimePasses
  BY <1>2 DEF TimePasses, JobStep
<1>3. ASSUME NEW b \in Backends, SchedulerNext(b)
      PROVE  JobStep
  <2>1. CASE TickCommit(b)
    <3>1. tick[b].rows \subseteq Payloads
      BY TrigsAssumption DEF TrigTypeOK, TickTx
    <3>2. PICK J \in SUBSET Jobs : \E new \in [J -> tick[b].rows] : Fires(new, tick[b].at)
      BY <2>1 DEF TickCommit
    <3>3. PICK new \in [J -> tick[b].rows] : Fires(new, tick[b].at)
      BY <3>2
    <3>4. new \in [J -> Payloads]
      BY <3>1
    <3> QED BY <2>1, <3>3, <3>4 DEF TickCommit, Fires, EnqueueStep, JobStep
  <2> QED BY <1>3, <2>1 DEF SchedulerNext, TickOpen, TickAbort, StartSweep,
            JobStep, ProcessStep, jobVars
<1>4. ASSUME NEW b \in Backends, JobsNext(b)
      PROVE  JobStep
  BY <1>4 DEF JobsNext, Dispatch, JobStep, ProcessStep
<1>5. CASE UNCHANGED vars
  BY <1>5 DEF vars, jobVars, JobStep
<1> QED BY <1>1, <1>2, <1>3, <1>4, <1>5 DEF Next

-----------------------------------------------------------------------------
(* Types. *)

\* Enqueueing adds rows of the right type.
LEMMA EnqueueTypeOK ==
    ASSUME JobsTypeOK, EnqueueStep
    PROVE  JobsTypeOK'
<1>1. PICK J \in SUBSET Jobs : \E new \in [J -> Payloads] : Enqueued(new)
  BY DEF EnqueueStep
<1>2. PICK new \in [J -> Payloads] : Enqueued(new)
  BY <1>1
<1>3. \A j \in J : NewJob(new[j]) \in Job
  BY DEF NewJob, Job
<1>4. IsTable(job', Jobs, Job) /\ DOMAIN job \subseteq DOMAIN job'
  BY <1>2, <1>3 DEF JobsTypeOK, IsTable, Enqueued
<1> QED BY <1>4 DEF JobsTypeOK, EnqueueStep

\* A process keeps the types of its job and its own.
LEMMA ProcessTypeOK ==
    ASSUME JobsTypeOK, JobsAssumption, NEW b \in Backends, ProcessStep(b)
    PROVE  JobsTypeOK'
<1> USE DEF JobsTypeOK, IsTable, Runner, Idle, NoJob, Fault
<1>1. NoJob \notin Jobs
  BY DEF JobsAssumption
<1>2. ASSUME NEW j \in Jobs, Claim(b, j) PROVE JobsTypeOK'
  BY <1>1, <1>2 DEF Claim, Claimed, Job
<1>3. ASSUME NEW j \in Jobs, ClaimLost(b, j) PROVE JobsTypeOK'
  BY <1>3 DEF ClaimLost, Claimed, Job
<1>4. ASSUME runner[b].pc # "idle"
      PROVE  runner[b].job \in DOMAIN job /\ job[runner[b].job] \in Job
  BY <1>4
<1>5. CASE HandlerCommit(b)
  BY <1>1, <1>4, <1>5 DEF HandlerCommit, InThread, Job
<1>6. CASE HandlerCommitLost(b)
  BY <1>4, <1>6 DEF HandlerCommitLost, Goto, Job
<1>7. CASE HandlerRaise(b)
  <2>1. CASE UNCHANGED job
    BY <1>4, <1>7, <2>1 DEF HandlerRaise, InThread
  <2>2. CASE job' = [job EXCEPT ![runner[b].job].effects = @ + 1]
    BY <1>1, <1>4, <1>7, <2>2 DEF HandlerRaise, InThread, Job
  <2> QED BY <1>7, <2>1, <2>2 DEF HandlerRaise
<1>8. CASE Finalize(b)
  BY <1>4, <1>8 DEF Finalize, Ended, Outcome, Job
<1>9. CASE FinalizeLost(b)
  BY <1>4, <1>9 DEF FinalizeLost, Ended, Outcome, Job
<1>10. CASE Shutdown(b)
  BY <1>4, <1>10 DEF Shutdown, Cancelled
<1>11. CASE Exit(b) \/ Kill(b) \/ Start(b)
  BY <1>11 DEF Exit, Kill, Start
<1> QED BY <1>2, <1>3, <1>5, <1>6, <1>7, <1>8, <1>9, <1>10, <1>11 DEF ProcessStep

\* Together: the runner's rows keep their types.
LEMMA JobsTypeStep ==
    ASSUME JobsTypeOK, JobsAssumption, JobStep
    PROVE  JobsTypeOK'
<1>1. CASE UNCHANGED jobVars
  BY <1>1 DEF jobVars, JobsTypeOK, IsTable
<1>2. CASE Fault /\ UNCHANGED <<job, proc, runner>>
  BY <1>2, JobsAssumption DEF Fault, JobsTypeOK, IsTable
<1> QED BY <1>1, <1>2, EnqueueTypeOK, ProcessTypeOK DEF JobStep

\* The rows and columns of the triggers table, and what is recorded of fires.
TrigsOK ==
    /\ IsTable(trig, Trigs, Trigger)
    /\ DOMAIN trig \subseteq made /\ made \subseteq Trigs
    /\ now \in Time
    /\ tick \in [Backends -> TickTx]
    /\ edit \subseteq Edit /\ calls \subseteq Trigs
    /\ \A t \in DOMAIN trig : trig[t].kind = "cron" <=> trig[t].sched # NoSchedule
    /\ \A b \in Backends : \A t \in tick[b].rows : Cron(t)

\* The request handlers keep them.
LEMMA UserTypeOK ==
    ASSUME TrigsOK, UserNext
    PROVE  TrigsOK'
<1> USE DEF TrigsOK, IsTable, Cron, Trigger, Inserted, Removed
<1>1. ASSUME NEW t \in Trigs, CreateTrigger(t) PROVE TrigsOK'
  <2>1. PICK r \in Trigger :
           /\ trig' = Inserted(trig, t, r)
           /\ r.kind = "cron" <=> r.sched # NoSchedule
    <3>1. \A s \in Schedules : NextAt[<<s, now>>] \in Nat
      BY CronAssumption
    <3> DEFINE row(k, s, n) == [kind |-> k, enabled |-> TRUE, sched |-> s,
                                next |-> n, gen |-> 0]
    <3>2. ASSUME NEW s \in Schedules,
                 trig' = Inserted(trig, t, row("cron", s, NextAt[<<s, now>>]))
          PROVE  row("cron", s, NextAt[<<s, now>>]) \in Trigger
      BY <3>1
    <3>3. row("webhook", NoSchedule, NoSlot) \in Trigger
      BY DEF NoSlot
    <3>4. CASE trig' = Inserted(trig, t, row("webhook", NoSchedule, NoSlot))
      <4> WITNESS row("webhook", NoSchedule, NoSlot) \in Trigger
      <4> QED BY <3>4
    <3>5. ASSUME NEW s \in Schedules,
                 trig' = Inserted(trig, t, row("cron", s, NextAt[<<s, now>>]))
          PROVE  \E r \in Trigger :
                    /\ trig' = Inserted(trig, t, r)
                    /\ r.kind = "cron" <=> r.sched # NoSchedule
      <4>1. row("cron", s, NextAt[<<s, now>>]) \in Trigger
        BY <3>2, <3>5
      <4> WITNESS row("cron", s, NextAt[<<s, now>>]) \in Trigger
      <4> QED BY <3>5, NoScheduleAssumption
    <3> HIDE DEF Inserted, Trigger, row
    <3>6. \/ \E s \in Schedules : trig' = Inserted(trig, t, row("cron", s, NextAt[<<s, now>>]))
          \/ trig' = Inserted(trig, t, row("webhook", NoSchedule, NoSlot))
      BY <1>1 DEF CreateTrigger, row
    <3> QED BY <3>4, <3>5, <3>6
  <2>2. t \notin DOMAIN trig
    BY <1>1 DEF CreateTrigger
  <2>3. IsTable(trig', Trigs, Trigger) /\ DOMAIN trig' = DOMAIN trig \cup {t}
    BY <2>1
  <2>4. trig'[t] = r /\ \A x \in DOMAIN trig : trig'[x] = trig[x]
    BY <2>1, <2>2
  <2> QED BY <1>1, <2>1, <2>3, <2>4 DEF CreateTrigger
<1>2. ASSUME NEW t \in Trigs, SetEnabled(t) PROVE TrigsOK'
  BY <1>2 DEF SetEnabled
<1>3. ASSUME NEW t \in Trigs, DeleteTrigger(t) PROVE TrigsOK'
  BY <1>3 DEF DeleteTrigger, Locked
<1>4. ASSUME NEW t \in Trigs, NEW s \in Schedules, EditRead(t, s) PROVE TrigsOK'
  <2>1. NextAt[<<s, now>>] \in Nat
    BY CronAssumption
  <2> QED BY <1>4, <2>1 DEF EditRead, Edit
<1>5. ASSUME NEW e \in edit, EditWrite(e) PROVE TrigsOK'
  BY <1>5, NoScheduleAssumption DEF EditWrite, Edit
<1>6. ASSUME NEW e \in edit, EditDrop(e) PROVE TrigsOK'
  BY <1>6 DEF EditDrop
<1>7. ASSUME NEW t \in Trigs, NEW j \in Jobs, WebhookFire(t, j) PROVE TrigsOK'
  BY <1>7 DEF WebhookFire
<1>8. ASSUME NEW t \in Trigs, WebhookCall(t) \/ WebhookOver(t) PROVE TrigsOK'
  BY <1>8 DEF WebhookCall, WebhookOver
<1>9. ASSUME NEW p \in Generations, NEW j \in Jobs, Generate(p, j) PROVE TrigsOK'
  BY <1>9 DEF Generate, trigVars
<1> QED BY <1>1, <1>2, <1>3, <1>4, <1>5, <1>6, <1>7, <1>8, <1>9 DEF UserNext

\* A tick or a sweep moves cron triggers to a slot of their schedule.
LEMMA AdvancedTypeOK ==
    ASSUME TrigsOK, NEW R, R \subseteq {t \in DOMAIN trig : trig[t].kind = "cron"},
           NEW at \in Time, trig' = Advanced(R, at)
    PROVE  /\ IsTable(trig', Trigs, Trigger) /\ DOMAIN trig' = DOMAIN trig
           /\ \A t \in DOMAIN trig :
                 trig'[t] = [trig[t] EXCEPT !.next = trig'[t].next]
           /\ \A t \in R : trig'[t].next > at
           /\ \A t \in DOMAIN trig \ R : trig'[t] = trig[t]
<1>1. \A t \in R : trig[t].sched \in Schedules
  BY DEF TrigsOK, IsTable, Trigger
<1>2. \A t \in R : /\ NextAt[<<trig[t].sched, at>>] \in Nat
                   /\ NextAt[<<trig[t].sched, at>>] > at
  BY <1>1, CronAssumption
<1> QED BY <1>1, <1>2 DEF Advanced, TrigsOK, IsTable, Trigger

\* The scheduler and the processes keep the types too.
LEMMA SchedulerTypeOK ==
    ASSUME TrigsOK, NEW b \in Backends, SchedulerNext(b) \/ JobsNext(b)
    PROVE  TrigsOK'
<1>1. CASE TickOpen(b)
  BY <1>1 DEF TickOpen, TrigsOK, Due, TickTx, Cron
<1>2. CASE TickCommit(b)
  <2>1. /\ trig' = Advanced(tick[b].rows, tick[b].at)
        /\ tick' = [tick EXCEPT ![b] = NoTick]
        /\ UNCHANGED <<made, now, edit, calls>>
    BY <1>2 DEF TickCommit
  <2>2. tick[b].at \in Time /\ tick[b].rows \subseteq {t \in DOMAIN trig : trig[t].kind = "cron"}
    BY DEF TrigsOK, TickTx, Cron
  <2>3. /\ IsTable(trig', Trigs, Trigger) /\ DOMAIN trig' = DOMAIN trig
        /\ \A t \in DOMAIN trig : trig'[t] = [trig[t] EXCEPT !.next = trig'[t].next]
    BY <2>1, <2>2, AdvancedTypeOK
  <2>4. NoTick \in TickTx
    BY BoundsAssumption DEF NoTick, TickTx, Time
  <2>5. \A t \in DOMAIN trig : trig'[t].kind = trig[t].kind /\ trig'[t].sched = trig[t].sched
    BY <2>3 DEF TrigsOK, IsTable, Trigger
  <2> QED BY <2>1, <2>3, <2>4, <2>5 DEF TrigsOK, NoTick, Cron
<1>3. CASE TickAbort(b)
  BY <1>3, BoundsAssumption DEF TickAbort, TrigsOK, NoTick, TickTx, Time, Cron
<1>4. CASE StartSweep(b)
  <2> DEFINE R == {t \in Trigs : Stale(t) /\ ~Locked(t)}
  <2>1. trig' = Advanced(R, now) /\ UNCHANGED <<made, now, tick, edit, calls>>
    BY <1>4 DEF StartSweep
  <2>2. now \in Time /\ R \subseteq {t \in DOMAIN trig : trig[t].kind = "cron"}
    BY DEF TrigsOK, Stale, Cron
  <2>3. /\ IsTable(trig', Trigs, Trigger) /\ DOMAIN trig' = DOMAIN trig
        /\ \A t \in DOMAIN trig : trig'[t] = [trig[t] EXCEPT !.next = trig'[t].next]
    BY <2>1, <2>2, AdvancedTypeOK
  <2>4. \A t \in DOMAIN trig : trig'[t].kind = trig[t].kind /\ trig'[t].sched = trig[t].sched
    BY <2>3 DEF TrigsOK, IsTable, Trigger
  <2> QED BY <2>1, <2>3, <2>4 DEF TrigsOK, Cron
<1>5. CASE JobsNext(b)
  <2>1. /\ UNCHANGED <<trig, made, now, edit, calls>>
        /\ tick' = tick \/ tick' = [tick EXCEPT ![b] = NoTick]
    BY <1>5 DEF JobsNext, Dispatch, trigVars
  <2>2. NoTick \in TickTx
    BY BoundsAssumption DEF NoTick, TickTx, Time
  <2>3. tick' \in [Backends -> TickTx]
    BY <2>1, <2>2 DEF TrigsOK
  <2>4. \A c \in Backends : tick'[c].rows \subseteq tick[c].rows
    BY <2>1 DEF TrigsOK, NoTick
  <2>5. \A c \in Backends : \A t \in tick'[c].rows : Cron(t)'
    BY <2>1, <2>4 DEF TrigsOK, Cron
  <2> QED BY <2>1, <2>3, <2>5 DEF TrigsOK, IsTable
<1> QED BY <1>1, <1>2, <1>3, <1>4, <1>5 DEF SchedulerNext

\* Rows of the jobs table are never deleted.
LEMMA JobsStay ==
    ASSUME JobsTypeOK, JobStep
    PROVE  DOMAIN job \subseteq DOMAIN job'
<1>1. CASE EnqueueStep
  BY <1>1 DEF EnqueueStep, Enqueued
<1>2. ASSUME NEW b \in Backends, ProcessStep(b)
      PROVE  DOMAIN job \subseteq DOMAIN job'
  BY <1>2 DEF ProcessStep, Claim, ClaimLost, Claimed, HandlerCommit, HandlerCommitLost,
        HandlerRaise, Finalize, FinalizeLost, Ended, Shutdown, Exit, Kill, Start
<1> QED BY <1>1, <1>2 DEF JobStep, jobVars

FiresOK == IsTable(fire, Jobs, Fire) /\ DOMAIN fire \subseteq DOMAIN job

\* What a fire records of the jobs it enqueues.
LEMMA FiresTypeOK ==
    ASSUME TrigTypeOK, NEW J, NEW new \in [J -> DOMAIN trig], NEW at \in Time,
           Fires(new, at)
    PROVE  /\ FiresOK'
           /\ J \subseteq Jobs \ DOMAIN job
           /\ DOMAIN fire' = DOMAIN fire \cup J /\ DOMAIN job' = DOMAIN job \cup J
           /\ \A j \in J : fire'[j] = [t |-> new[j], gen |-> trig[new[j]].gen,
                                      slot |-> trig[new[j]].next, at |-> at]
           /\ \A j \in DOMAIN fire : fire'[j] = fire[j]
<1>1. J \subseteq Jobs \ DOMAIN job /\ DOMAIN job' = DOMAIN job \cup J
  BY DEF Fires, Enqueued, Fresh
<1>2. fire' = [j \in DOMAIN fire \cup J |->
                 IF j \in J
                 THEN [t |-> new[j], gen |-> trig[new[j]].gen,
                       slot |-> trig[new[j]].next, at |-> at]
                 ELSE fire[j]]
  BY DEF Fires
<1>3. \A j \in J : [t |-> new[j], gen |-> trig[new[j]].gen,
                   slot |-> trig[new[j]].next, at |-> at] \in Fire
  BY DEF TrigTypeOK, IsTable, Trigger, Fire
<1>4. J \cap DOMAIN fire = {}
  BY <1>1 DEF TrigTypeOK
<1> QED BY <1>1, <1>2, <1>3, <1>4 DEF TrigTypeOK, FiresOK, IsTable

\* A tick's transaction, taken apart: the job of each of its rows.
LEMMA TickCommits ==
    ASSUME TrigTypeOK, NEW b \in Backends, TickCommit(b)
    PROVE  \E J \in SUBSET Jobs : \E new \in [J -> DOMAIN trig] :
              /\ \A j \in J : new[j] \in tick[b].rows
              /\ \A i, k \in J : i < k => new[i] # new[k]
              /\ Fires(new, tick[b].at)
<1>1. tick[b].rows \subseteq DOMAIN trig
  BY DEF TrigTypeOK, Cron
<1>2. PICK J \in SUBSET Jobs : \E new \in [J -> tick[b].rows] :
         /\ \A i, k \in J : i < k => new[i] # new[k]
         /\ Fires(new, tick[b].at)
  BY DEF TickCommit
<1>3. PICK new \in [J -> tick[b].rows] :
         /\ \A i, k \in J : i < k => new[i] # new[k]
         /\ Fires(new, tick[b].at)
  BY <1>2
<1>4. new \in [J -> DOMAIN trig]
  BY <1>1
<1> QED BY <1>3, <1>4

\* Every step keeps all types.
LEMMA TrigTypeStep ==
    ASSUME TrigTypeOK, [Next]_vars
    PROVE  TrigTypeOK'
<1>1. JobsTypeOK /\ TrigsOK /\ FiresOK
  BY DEF TrigTypeOK, TrigsOK, FiresOK
<1>2. JobsTypeOK' /\ DOMAIN job \subseteq DOMAIN job'
  BY <1>1, StepIsJobStep, JobsTypeStep, JobsStay, JobsAssumption
<1>3. TrigsOK'
  <2>1. CASE UserNext
    BY <1>1, <2>1, UserTypeOK
  <2>2. CASE TimePasses
    BY <1>1, <2>2, BoundsAssumption DEF TimePasses, TrigsOK, Time, IsTable, Cron
  <2>3. CASE UNCHANGED vars
    BY <1>1, <2>3 DEF vars, TrigsOK, IsTable, Cron
  <2> QED BY <1>1, <2>1, <2>2, <2>3, SchedulerTypeOK DEF Next
<1>4. FiresOK'
  <2>1. ASSUME NEW t \in Trigs, NEW j \in Jobs, WebhookFire(t, j)
        PROVE  FiresOK'
    <3>1. [k \in {j} |-> t] \in [{j} -> DOMAIN trig] /\ now \in Time
      BY <1>1, <2>1 DEF WebhookFire, TrigsOK
    <3> QED BY <2>1, <3>1, FiresTypeOK DEF WebhookFire
  <2>2. ASSUME NEW b \in Backends, TickCommit(b)
        PROVE  FiresOK'
    <3>1. tick[b].at \in Time
      BY <1>1 DEF TrigsOK, TickTx
    <3> QED BY <2>2, <3>1, TickCommits, FiresTypeOK
  <2>3. CASE UNCHANGED fire
    BY <1>1, <1>2, <2>3 DEF FiresOK, IsTable
  <2> QED BY <2>1, <2>2, <2>3 DEF Next, UserNext, TimePasses, SchedulerNext, JobsNext,
            CreateTrigger, SetEnabled, DeleteTrigger, EditRead, EditWrite, EditDrop,
            WebhookCall, WebhookOver, Generate, TickOpen, TickAbort, StartSweep, Dispatch, trigVars, vars
<1> QED BY <1>2, <1>3, <1>4 DEF TrigTypeOK, TrigsOK, FiresOK

\* The types hold, and a row that a tick holds is there (scheduler.py, tick):
\* deletes, edits and toggles wait for the tick's transaction.
THEOREM TrigTypeCorrect == Spec => []TrigTypeOK
<1>1. Init => TrigTypeOK
  <2>1. NoTick \in TickTx /\ 0 \in Time
    BY BoundsAssumption DEF NoTick, TickTx, Time
  <2> QED BY <2>1 DEF Init, JobsInit, TrigTypeOK, JobsTypeOK, IsTable, EmptyTable,
            Runner, Idle, NoJob, NoTick
<1> QED BY <1>1, TrigTypeStep, PTL DEF Spec
-----------------------------------------------------------------------------
(* A job acts once. *)

\* What a runner's program counter says of its job's row, and that no other
\* runner has it.  A success whose answer was lost is a job that "raised".
Matches(b) ==
    LET r == runner[b] IN
    /\ r.pc \in {"handler", "loose"} =>
          job[r.job].status = "running" /\ job[r.job].effects = 0
    /\ r.pc = "returned" =>
          job[r.job].status = "running" /\ job[r.job].effects = 1
    /\ r.pc = "raised" => job[r.job].status \in {"running", "success"}

RunnerInv ==
    /\ EffectsOnce
    /\ \A b \in Backends : Matches(b)
    /\ \A a, b \in Backends : runner[a].job = runner[b].job /\ a # b
                               => runner[a].job = NoJob

\* A step of one runner that writes at most its own job's row, or lets go.
LEMMA OwnJobOnly ==
    ASSUME JobsTypeOK, RunnerInv, NEW b \in Backends, NEW r,
           runner' = [runner EXCEPT ![b] = r],
           r = Idle \/ r.job = runner[b].job,
           \A k \in DOMAIN job : k # runner[b].job => job'[k] = job[k],
           EffectsOnce', Matches(b)'
    PROVE  RunnerInv'
<1>1. \A a \in Backends \ {b} : runner'[a] = runner[a]
  BY DEF JobsTypeOK
<1>2. runner'[b].job \in {NoJob, runner[b].job}
  BY DEF JobsTypeOK, Idle
<1>3. ASSUME NEW a \in Backends \ {b} PROVE Matches(a)'
  <2>1. CASE runner[a].pc = "idle"
    BY <1>1, <2>1 DEF Matches
  <2>2. CASE runner[a].pc # "idle"
    <3>1. runner[a].job \in DOMAIN job /\ runner[a].job # runner[b].job
      BY <2>2 DEF JobsTypeOK, RunnerInv
    <3>2. job'[runner[a].job] = job[runner[a].job] /\ Matches(a)
      BY <3>1 DEF RunnerInv
    <3> QED BY <1>1, <3>2 DEF Matches
  <2> QED BY <2>1, <2>2
<1>4. \A a, c \in Backends : runner'[a].job = runner'[c].job /\ a # c
                             => runner'[a].job = NoJob
  BY <1>1, <1>2 DEF RunnerInv
<1> QED BY <1>3, <1>4 DEF RunnerInv

\* The rows of runners' jobs do not change by an insert.
LEMMA EnqueueRunnerInv ==
    ASSUME JobsTypeOK, RunnerInv, JobsAssumption, EnqueueStep
    PROVE  RunnerInv'
<1>1. PICK J \in SUBSET Jobs : \E new \in [J -> Payloads] : Enqueued(new)
  BY DEF EnqueueStep
<1>2. PICK new \in [J -> Payloads] : Enqueued(new)
  BY <1>1
<1>3. \A j \in DOMAIN job : j \in DOMAIN job' /\ job'[j] = job[j]
  BY <1>2 DEF Enqueued, Fresh
<1>4. \A j \in DOMAIN job' \ DOMAIN job : job'[j].status = "pending" /\ job'[j].effects = 0
  BY <1>2 DEF Enqueued, NewJob
<1>5. EffectsOnce'
  BY <1>3, <1>4 DEF RunnerInv, EffectsOnce, JobsTypeOK, IsTable
<1>6. ASSUME NEW b \in Backends PROVE Matches(b)'
  <2>1. Matches(b) /\ runner' = runner
    BY DEF RunnerInv, EnqueueStep
  <2>2. runner[b].pc # "idle" => runner[b].job \in DOMAIN job
    BY DEF JobsTypeOK
  <2> QED BY <1>3, <2>1, <2>2 DEF Matches
<1> QED BY <1>5, <1>6 DEF RunnerInv, EnqueueStep

\* One step per action of a process: its own job is all it touches.
LEMMA ProcessRunnerInv ==
    ASSUME JobsTypeOK, RunnerInv, JobsAssumption, NEW b \in Backends, ProcessStep(b)
    PROVE  RunnerInv'
<1> USE DEF JobsTypeOK, IsTable, Runner, Idle, NoJob
<1> DEFINE j == runner[b].job
<1>1. runner[b].pc # "idle" => j \in DOMAIN job /\ job[j] \in Job
  OBVIOUS
<1>0. NoJob \notin Jobs
  BY DEF JobsAssumption
<1>2. ASSUME NEW r \in Runner, runner' = [runner EXCEPT ![b] = r],
             r = Idle \/ r.job = j,
             \A k \in DOMAIN job : k # j => job'[k] = job[k],
             EffectsOnce', r.pc # "idle" => Matches(b)'
      PROVE  RunnerInv'
  <2>1. Matches(b)'
    BY <1>2 DEF Matches
  <2> QED BY <1>2, <2>1, OwnJobOnly
<1>3. ASSUME NEW k \in Jobs, Claim(b, k) PROVE RunnerInv'
  <2>1. /\ k \in DOMAIN job /\ job[k].status = "pending" /\ job[k] \in Job
        /\ job' = [job EXCEPT ![k].status = "running"]
        /\ runner' = [runner EXCEPT ![b] = [pc |-> "handler", job |-> k]]
    BY <1>3 DEF Claim, Claimed, Claimable
  <2>2. \A a \in Backends : runner[a].pc # "idle" => runner[a].job # k
    BY <2>1 DEF RunnerInv, Matches
  <2>3. EffectsOnce'
    BY <2>1 DEF RunnerInv, EffectsOnce, Job
  <2>4. ASSUME NEW a \in Backends \ {b} PROVE Matches(a)'
    BY <2>1, <2>2 DEF RunnerInv, Matches
  <2>5. Matches(b)'
    BY <2>1 DEF RunnerInv, EffectsOnce, Matches, Job
  <2>6. \A a \in Backends \ {b} : runner'[a].job = runner[a].job /\ runner[a].job # k
    BY <2>1, <2>2, <1>0
  <2> QED BY <2>1, <2>3, <2>4, <2>5, <2>6 DEF RunnerInv
<1>4. ASSUME NEW k \in Jobs, ClaimLost(b, k) PROVE RunnerInv'
  <2>1. /\ k \in DOMAIN job /\ job[k].status = "pending" /\ job[k] \in Job
        /\ job' = [job EXCEPT ![k].status = "running"]
        /\ runner' = runner
    BY <1>4 DEF ClaimLost, Claimed, Claimable
  <2>2. \A a \in Backends : runner[a].pc # "idle" => runner[a].job # k
    BY <2>1 DEF RunnerInv, Matches
  <2>3. EffectsOnce'
    BY <2>1 DEF RunnerInv, EffectsOnce, Job
  <2>4. ASSUME NEW a \in Backends PROVE Matches(a)'
    BY <2>1, <2>2 DEF RunnerInv, Matches
  <2> QED BY <2>1, <2>3, <2>4 DEF RunnerInv
<1>9. ASSUME NEW pc \in {"handler", "returned", "raised", "loose"},
             runner[b].pc # "idle",
             runner' = [runner EXCEPT ![b].pc = pc] \/ runner' = [runner EXCEPT ![b] = Idle]
       PROVE  \E r \in Runner : /\ runner' = [runner EXCEPT ![b] = r]
                                /\ r = Idle \/ r = [pc |-> pc, job |-> j]
  <2>1. CASE runner' = [runner EXCEPT ![b].pc = pc]
    <3>1. [pc |-> pc, job |-> j] \in Runner
      OBVIOUS
    <3>2. runner' = [runner EXCEPT ![b] = [pc |-> pc, job |-> j]]
      <4>1. runner[b] \in Runner
        OBVIOUS
      <4>2. [runner[b] EXCEPT !.pc = pc] = [pc |-> pc, job |-> j]
        BY <4>1
      <4>3. runner' = [runner EXCEPT ![b] = [runner[b] EXCEPT !.pc = pc]]
        BY <2>1
      <4> QED BY <4>2, <4>3
    <3> WITNESS [pc |-> pc, job |-> j] \in Runner
    <3> QED BY <3>2
  <2>2. CASE runner' = [runner EXCEPT ![b] = Idle]
    <3>1. Idle \in Runner
      OBVIOUS
    <3> QED BY <2>2, <3>1
  <2> QED BY <1>9, <2>1, <2>2
<1>5. CASE \/ HandlerCommit(b) \/ HandlerCommitLost(b)
           \/ HandlerRaise(b) /\ job' # job
  <2>1. /\ runner[b].pc \in {"handler", "loose"}
        /\ job' = [job EXCEPT ![j].effects = @ + 1]
        /\ \E pc \in {"returned", "raised"} :
              \/ runner' = [runner EXCEPT ![b].pc = pc]
              \/ runner' = [runner EXCEPT ![b] = Idle]
    BY <1>5 DEF HandlerCommit, HandlerCommitLost, HandlerRaise, InThread, Goto
  <2>2. job[j].status = "running" /\ job[j].effects = 0 /\ j \in DOMAIN job
    BY <2>1 DEF RunnerInv, Matches
  <2>3. job' = [job EXCEPT ![j] = [job[j] EXCEPT !.effects = 1]]
    BY <2>1, <2>2
  <2>4. job'[j].status = "running" /\ job'[j].effects = 1
    BY <1>1, <2>2, <2>3 DEF Job
  <2>5. EffectsOnce'
    BY <2>3, <2>4 DEF RunnerInv, EffectsOnce
  <2>6. PICK pc \in {"returned", "raised"} : \E r \in Runner :
           /\ runner' = [runner EXCEPT ![b] = r]
           /\ r = Idle \/ r = [pc |-> pc, job |-> j]
    BY <2>1, <1>9
  <2>7. PICK r \in Runner : /\ runner' = [runner EXCEPT ![b] = r]
                            /\ r = Idle \/ r = [pc |-> pc, job |-> j]
    BY <2>6
  <2>8. r.pc # "idle" => Matches(b)'
    BY <2>4, <2>7 DEF Matches
  <2> QED BY <1>2, <2>3, <2>5, <2>7, <2>8
<1>6. CASE HandlerRaise(b) /\ job' = job
  <2>1. /\ runner[b].pc \in {"handler", "loose"} /\ job' = job
        /\ \/ runner' = [runner EXCEPT ![b] = Idle]
           \/ runner' = [runner EXCEPT ![b].pc = "raised"]
    BY <1>6 DEF HandlerRaise, InThread
  <2>2. EffectsOnce' /\ job[j].status = "running"
    BY <2>1 DEF RunnerInv, EffectsOnce, Matches
  <2>3. PICK r \in Runner : /\ runner' = [runner EXCEPT ![b] = r]
                            /\ r = Idle \/ r = [pc |-> "raised", job |-> j]
    BY <2>1, <1>9
  <2>4. r.pc # "idle" => Matches(b)'
    BY <2>1, <2>2, <2>3 DEF Matches
  <2> QED BY <1>2, <2>1, <2>2, <2>3, <2>4
<1>7. CASE Finalize(b) \/ FinalizeLost(b)
  <2>1. /\ runner[b].pc \in {"returned", "raised"}
        /\ job' = [job EXCEPT ![j].status = Outcome(b)] \/ job' = job
        /\ \/ runner' = [runner EXCEPT ![b] = Idle]
           \/ runner[b].pc = "returned" /\ runner' = [runner EXCEPT ![b].pc = "raised"]
    BY <1>7 DEF Finalize, FinalizeLost, Ended
  <2>2. /\ Outcome(b) \in {"success", "failed"}
        /\ Outcome(b) = "success" <=> runner[b].pc = "returned"
        /\ runner[b].pc = "returned" => job[j].status = "running" /\ job[j].effects = 1
    BY <2>1 DEF Outcome, RunnerInv, Matches
  <2>3. job[j].effects \in {0, 1}
    <3> DEFINE n == job[j].effects
    <3>1. n \in Nat /\ n <= 1
      BY <1>1, <2>1 DEF RunnerInv, EffectsOnce, Job
    <3> HIDE DEF n
    <3>2. n \in {0, 1}
      BY <3>1
    <3> QED BY <3>2 DEF n
  <2>4. \/ job' = job
        \/ /\ job' = [job EXCEPT ![j] = [job[j] EXCEPT !.status = Outcome(b)]]
           /\ job'[j].status = Outcome(b) /\ job'[j].effects = job[j].effects
    BY <1>1, <2>1 DEF Job
  <2>5. EffectsOnce'
    BY <1>1, <2>1, <2>2, <2>3, <2>4 DEF RunnerInv, EffectsOnce
  <2>6. PICK r \in Runner : /\ runner' = [runner EXCEPT ![b] = r]
                            /\ r = Idle \/ r = [pc |-> "raised", job |-> j]
    BY <2>1, <1>9
  <2>7. r.pc # "idle" => runner[b].pc = "returned"
    BY <2>1, <2>6, <1>0
  <2>8. r.pc # "idle" => Matches(b)'
    BY <2>2, <2>4, <2>6, <2>7 DEF Matches
  <2> QED BY <1>2, <2>4, <2>5, <2>6, <2>8
<1>8. CASE Shutdown(b) \/ Exit(b) \/ Kill(b) \/ Start(b)
  <2>1. /\ job' = job
        /\ \/ runner' = runner
           \/ runner' = [runner EXCEPT ![b] = Idle]
           \/ runner[b].pc = "handler" /\ runner' = [runner EXCEPT ![b].pc = "loose"]
    BY <1>8 DEF Shutdown, Cancelled, Exit, Kill, Start
  <2>2. EffectsOnce'
    BY <2>1 DEF RunnerInv, EffectsOnce
  <2>3. CASE runner' = runner
    BY <2>1, <2>2, <2>3 DEF RunnerInv, Matches
  <2>4. CASE runner' = [runner EXCEPT ![b] = Idle]
    BY <1>2, <2>1, <2>2, <2>4
  <2>5. CASE runner[b].pc = "handler" /\ runner' = [runner EXCEPT ![b].pc = "loose"]
    <3>1. PICK r \in Runner : /\ runner' = [runner EXCEPT ![b] = r]
                              /\ r = Idle \/ r = [pc |-> "loose", job |-> j]
      BY <2>5, <1>9
    <3>2. r.pc # "idle" => Matches(b)'
      BY <2>1, <2>5, <3>1 DEF Matches, RunnerInv
    <3> QED BY <1>2, <2>1, <2>2, <3>1, <3>2
  <2> QED BY <2>1, <2>3, <2>4, <2>5
<1> QED BY <1>3, <1>4, <1>5, <1>6, <1>7, <1>8 DEF ProcessStep

\* Every step keeps it.
LEMMA RunnerInvStep ==
    ASSUME TrigTypeOK, RunnerInv, [Next]_vars
    PROVE  RunnerInv'
<1>1. JobsTypeOK /\ JobStep
  BY StepIsJobStep DEF TrigTypeOK
<1>2. CASE UNCHANGED <<job, runner>>
  BY <1>2 DEF RunnerInv, EffectsOnce, Matches
<1> QED BY <1>1, <1>2, EnqueueRunnerInv, ProcessRunnerInv, JobsAssumption
       DEF JobStep, jobVars

\* The types and the runner's invariant together.
THEOREM RunnerInvariant == Spec => [](TrigTypeOK /\ RunnerInv)
<1>1. Init => RunnerInv
  BY DEF Init, JobsInit, RunnerInv, EffectsOnce, Matches, EmptyTable, Idle, NoJob
<1> QED BY TrigTypeCorrect, <1>1, RunnerInvStep, PTL DEF Spec

\* No crash, shutdown or lost answer makes a runner repeat a job (jobs.py):
\* its effects are committed once at most, and certainly if it reads success.
THEOREM JobsActOnce == Spec => []EffectsOnce
<1>1. RunnerInv => EffectsOnce
  BY DEF RunnerInv
<1> QED BY RunnerInvariant, <1>1, PTL
-----------------------------------------------------------------------------
(* The runner implements AtMostOnce. *)

\* What an insert does to the stages.
LEMMA EnqueueOffers ==
    ASSUME JobsTypeOK, EnqueueStep
    PROVE  Once!Next
<1>1. PICK J \in SUBSET Jobs : \E new \in [J -> Payloads] : Enqueued(new)
  BY DEF EnqueueStep
<1>2. PICK new \in [J -> Payloads] : Enqueued(new)
  BY <1>1
<1>3. /\ J \cap DOMAIN job = {} /\ DOMAIN job' = DOMAIN job \cup J
      /\ \A j \in DOMAIN job : job'[j] = job[j]
      /\ \A j \in J : job'[j].status = "pending" /\ job'[j].effects = 0
  BY <1>2 DEF Enqueued, Fresh, NewJob
<1>4. \A j \in Jobs :
         /\ j \in J => (Stage(j) = "absent" /\ Stage(j)' = "waiting")
         /\ j \notin J => Stage(j)' = Stage(j)
         /\ Acts(j)' = Acts(j)
  BY <1>3 DEF Stage, Acts
<1>5. Once!Moved(J, "absent", "waiting")
  <2> DEFINE st == [j \in Jobs |-> Stage(j)]
  <2>1. \A j \in J : st[j] = "absent"
    BY <1>4
  <2>2. st' = [i \in Jobs |-> IF i \in J THEN "waiting" ELSE st[i]]
    BY <1>4
  <2> QED BY <2>1, <2>2 DEF Once!Moved
<1>6. Once!Offer(J)
  BY <1>4, <1>5 DEF Once!Offer
<1> QED BY <1>6 DEF Once!Next

\* What a change of one row does to them.
LEMMA RowMoves ==
    ASSUME JobsTypeOK, NEW j \in DOMAIN job, NEW r \in Job,
           job' = [job EXCEPT ![j] = r],
           \/ /\ job[j].status = "pending" /\ r.status = "running"
              /\ r.effects = job[j].effects
           \/ /\ job[j].status = "running" /\ r.status = "running"
              /\ job[j].effects = 0 /\ r.effects = 1
           \/ /\ job[j].status \in {"running", "success"}
              /\ r.status \in {"success", "failed"}
              /\ r.effects = job[j].effects
    PROVE  [Once!Next]_Once!onceVars
<1>1. j \in Jobs /\ DOMAIN job' = DOMAIN job /\ job'[j] = r
      /\ \A i \in DOMAIN job : i # j => job'[i] = job[i]
  BY DEF JobsTypeOK, IsTable
<1>2. \A i \in Jobs : i # j => Stage(i)' = Stage(i) /\ Acts(i)' = Acts(i)
  BY <1>1 DEF Stage, Acts
<1>3. CASE job[j].status = "pending" /\ r.status = "running" /\ r.effects = job[j].effects
  <2>1. Stage(j) = "waiting" /\ Stage(j)' = "taken" /\ Acts(j)' = Acts(j)
    BY <1>1, <1>3 DEF Stage, Acts
  <2>2. Once!Take(j)
    BY <1>1, <1>2, <2>1 DEF Once!Take, Once!Moved
  <2> QED BY <1>1, <2>2 DEF Once!Next
<1>4. CASE /\ job[j].status = "running" /\ r.status = "running"
           /\ job[j].effects = 0 /\ r.effects = 1
  <2>1. Stage(j) = "taken" /\ Stage(j)' = Stage(j) /\ Acts(j) = 0 /\ Acts(j)' = 1
    BY <1>1, <1>4 DEF Stage, Acts
  <2>2. Once!Act(j)
    BY <1>1, <1>2, <2>1 DEF Once!Act
  <2> QED BY <1>1, <2>2 DEF Once!Next
<1>5. CASE /\ job[j].status \in {"running", "success"}
           /\ r.status \in {"success", "failed"} /\ r.effects = job[j].effects
  <2>1. Stage(j) \in {"taken", "ended"} /\ Stage(j)' = "ended" /\ Acts(j)' = Acts(j)
    BY <1>1, <1>5 DEF Stage, Acts
  <2>2. CASE Stage(j) = "taken"
    <3>1. Once!End(j)
      BY <1>1, <1>2, <2>1, <2>2 DEF Once!End, Once!Moved
    <3> QED BY <1>1, <3>1 DEF Once!Next
  <2>3. CASE Stage(j) = "ended"
    BY <1>2, <2>1, <2>3 DEF Once!onceVars
  <2> QED BY <2>1, <2>2, <2>3
<1> QED BY <1>3, <1>4, <1>5

\* Every step of the system is one of the abstract queue, or none.
LEMMA OnceStep ==
    ASSUME TrigTypeOK, RunnerInv, [Next]_vars
    PROVE  [Once!Next]_Once!onceVars
<1>1. JobsTypeOK /\ JobStep
  BY StepIsJobStep DEF TrigTypeOK
<1>2. CASE UNCHANGED job
  BY <1>2 DEF Once!onceVars, Stage, Acts
<1>3. CASE EnqueueStep
  BY <1>1, <1>3, EnqueueOffers
<1>4. ASSUME NEW b \in Backends, ProcessStep(b), job' # job
      PROVE  [Once!Next]_Once!onceVars
  <2> DEFINE j == runner[b].job
  <2>1. ASSUME NEW k \in Jobs, Claim(b, k) \/ ClaimLost(b, k)
        PROVE  [Once!Next]_Once!onceVars
    <3>1. k \in DOMAIN job /\ job[k].status = "pending" /\ job[k] \in Job
      BY <1>1, <2>1 DEF Claim, ClaimLost, Claimed, Claimable, JobsTypeOK, IsTable
    <3>2. job' = [job EXCEPT ![k] = [job[k] EXCEPT !.status = "running"]]
      BY <2>1 DEF Claim, ClaimLost, Claimed
    <3>3. [job[k] EXCEPT !.status = "running"] \in Job
      BY <3>1 DEF Job
    <3> QED BY <1>1, <3>1, <3>2, <3>3, RowMoves DEF Job
  <2>2. runner[b].pc # "idle" => j \in DOMAIN job /\ job[j] \in Job
    BY <1>1 DEF JobsTypeOK, IsTable
  <2>3. CASE HandlerCommit(b) \/ HandlerCommitLost(b) \/ HandlerRaise(b)
    <3>1. runner[b].pc \in {"handler", "loose"} /\ job' = [job EXCEPT ![j].effects = @ + 1]
      BY <1>4, <2>3 DEF HandlerCommit, HandlerCommitLost, HandlerRaise, InThread
    <3>2. job[j].status = "running" /\ job[j].effects = 0
      BY <3>1 DEF RunnerInv, Matches
    <3>3. job' = [job EXCEPT ![j] = [job[j] EXCEPT !.effects = 1]]
      BY <3>1, <3>2
    <3> DEFINE r == [job[j] EXCEPT !.effects = 1]
    <3>4. j \in DOMAIN job /\ job[j] \in Job
      BY <2>2, <3>1
    <3>5. r \in Job /\ r.status = "running" /\ r.effects = 1
      BY <3>2, <3>4 DEF Job
    <3> HIDE DEF r
    <3> QED BY <1>1, <3>2, <3>3, <3>4, <3>5, RowMoves DEF r
  <2>4. CASE Finalize(b) \/ FinalizeLost(b)
    <3>1. /\ runner[b].pc \in {"returned", "raised"}
          /\ job' = [job EXCEPT ![j] = [job[j] EXCEPT !.status = Outcome(b)]]
      BY <1>4, <2>4 DEF Finalize, FinalizeLost, Ended
    <3>2. job[j].status \in {"running", "success"} /\ Outcome(b) \in {"success", "failed"}
      BY <3>1 DEF RunnerInv, Matches, Outcome
    <3>3. [job[j] EXCEPT !.status = Outcome(b)] \in Job /\ j \in DOMAIN job
      BY <2>2, <3>1, <3>2 DEF Job
    <3> QED BY <1>1, <2>2, <3>1, <3>2, <3>3, RowMoves DEF Job
  <2> QED BY <1>4, <2>1, <2>3, <2>4 DEF ProcessStep, Shutdown, Exit, Kill, Start
<1> QED BY <1>1, <1>2, <1>3, <1>4 DEF JobStep, jobVars

\* What the runner does to its jobs is what AtMostOnce allows (jobs.py): taken
\* once, acting at most once and only while running, ended for good.
THEOREM RunsOnce == Spec => RunsAtMostOnce
<1>1. Init => Once!Init
  BY DEF Init, JobsInit, Once!Init, Stage, Acts, EmptyTable
<1> QED BY <1>1, OnceStep, RunnerInvariant, PTL DEF Spec, RunsAtMostOnce, Once!Spec
-----------------------------------------------------------------------------
(* Every fault leaves one job in doubt at most. *)

\* A job whose row does not tell, or will not, what became of it: the third
\* disjunct is a runner about to write "failed" over work that is there.
InDoubt(j) ==
    \/ job[j].status = "running" /\ ~Held(j)
    \/ job[j].status = "failed" /\ Worked(j)
    \/ /\ Worked(j)
       /\ \E b \in Backends : runner[b].job = j /\ runner[b].pc = "raised"

Doubted == {j \in DOMAIN job : InDoubt(j)}

DoubtInv == IsFiniteSet(Doubted) /\ Cardinality(Doubted) <= jobFaults

\* A runner that keeps or drops its job casts no doubt on another.
LEMMA OthersInNoNewDoubt ==
    ASSUME JobsTypeOK, JobsAssumption, NEW b \in Backends, NEW r \in Runner,
           runner' = [runner EXCEPT ![b] = r],
           r.job = NoJob \/ r.job = runner[b].job,
           NEW j \in DOMAIN job, j # runner[b].job, job'[j] = job[j], InDoubt(j)'
    PROVE  InDoubt(j)
<1>1. j # NoJob
  BY DEF JobsTypeOK, IsTable, JobsAssumption, NoJob
<1>2. \A a \in Backends : a # b => runner'[a] = runner[a]
  BY DEF JobsTypeOK
<1>3. runner'[b].job # j
  BY <1>1 DEF JobsTypeOK
<1>4. Held(j)' <=> Held(j)
  BY <1>2, <1>3 DEF Held
<1> QED BY <1>2, <1>3, <1>4 DEF InDoubt, Worked

\* What a step may do to the jobs in doubt.
NoNewDoubt == Doubted' \subseteq Doubted
OneNewDoubt == \E j \in Jobs : Doubted' \subseteq Doubted \cup {j}

\* A step of a process: only a fault casts doubt, and on one job.
LEMMA ProcessDoubt ==
    ASSUME JobsTypeOK, RunnerInv, JobsAssumption, NEW b \in Backends, ProcessStep(b)
    PROVE  \/ NoNewDoubt /\ jobFaults' = jobFaults
           \/ (NoNewDoubt \/ OneNewDoubt) /\ jobFaults' = jobFaults + 1
\* A name that a prime leaves alone.
<1>0. PICK j : j = runner[b].job
  OBVIOUS
<1> USE <1>0
<1>1. runner[b].pc # "idle" => j \in DOMAIN job /\ j \in Jobs
  BY DEF JobsTypeOK, IsTable
<1>2. NoJob \notin Jobs /\ DOMAIN job \subseteq Jobs
  BY DEF JobsAssumption, NoJob, JobsTypeOK, IsTable
<1>3. ASSUME NEW k \in Jobs, Claim(b, k) PROVE NoNewDoubt
  <2>1. /\ k \in DOMAIN job /\ job[k].status = "pending"
        /\ job' = [job EXCEPT ![k].status = "running"]
        /\ runner' = [runner EXCEPT ![b] = [pc |-> "handler", job |-> k]]
        /\ runner[b].job = NoJob /\ runner[b].pc = "idle"
    BY <1>3 DEF Claim, Claimed, Claimable, JobsTypeOK
  <2>2. job[k].effects = 0
    BY <2>1 DEF RunnerInv, EffectsOnce
  <2>3. DOMAIN job' = DOMAIN job /\ \A i \in DOMAIN job : i # k => job'[i] = job[i]
    BY <2>1
  <2>4. job'[k].effects = 0 /\ job'[k].status = "running"
    BY <2>1, <2>2 DEF JobsTypeOK, IsTable, Job
  <2>5. runner'[b] = [pc |-> "handler", job |-> k]
        /\ \A a \in Backends : a # b => runner'[a] = runner[a]
    BY <2>1 DEF JobsTypeOK
  <2>6. Held(k)'
    BY <2>5 DEF Held
  <2>7. ~InDoubt(k)'
    BY <2>4, <2>6 DEF InDoubt, Worked
  <2>8. ASSUME NEW i \in DOMAIN job, i # k, InDoubt(i)' PROVE InDoubt(i)
    <3>1. Held(i) => Held(i)'
      BY <1>2, <2>1, <2>5, <2>8 DEF Held
    <3> QED BY <2>3, <2>5, <2>8, <3>1 DEF InDoubt, Worked
  <2> QED BY <2>3, <2>7, <2>8 DEF NoNewDoubt, Doubted
<1>4. ASSUME NEW k \in Jobs, ClaimLost(b, k) PROVE OneNewDoubt
  <2>1. /\ DOMAIN job' = DOMAIN job /\ runner' = runner
        /\ \A i \in DOMAIN job : i # k => job'[i] = job[i]
    BY <1>4 DEF ClaimLost, Claimed
  <2>2. \A i \in DOMAIN job : i # k /\ InDoubt(i)' => InDoubt(i)
    BY <2>1 DEF InDoubt, Worked, Held
  <2> QED BY <2>1, <2>2 DEF OneNewDoubt, Doubted
<1>5. ASSUME runner[b].pc # "idle", DOMAIN job' = DOMAIN job,
             \A i \in DOMAIN job : i # j => job'[i] = job[i],
             NEW r \in Runner, runner' = [runner EXCEPT ![b] = r],
             r.job = NoJob \/ r.job = j
      PROVE  OneNewDoubt /\ (~InDoubt(j)' \/ InDoubt(j) => NoNewDoubt)
  <2>1. \A i \in DOMAIN job : i # j /\ InDoubt(i)' => InDoubt(i)
    BY <1>5, OthersInNoNewDoubt
  <2>2. Doubted' = {i \in DOMAIN job : InDoubt(i)'}
    BY <1>5 DEF Doubted
  <2>3. Doubted' \subseteq Doubted \cup {j}
    BY <2>1, <2>2 DEF Doubted
  <2>4. ~InDoubt(j)' \/ InDoubt(j) => Doubted' \subseteq Doubted
    BY <2>1, <2>2 DEF Doubted
  <2> QED BY <1>1, <1>5, <2>3, <2>4 DEF OneNewDoubt, NoNewDoubt
<1>14. ASSUME NEW p \in {"returned", "raised", "loose"}, runner[b].pc # "idle"
       PROVE  /\ [runner[b] EXCEPT !.pc = p] = [pc |-> p, job |-> j]
              /\ [pc |-> p, job |-> j] \in Runner
  BY <1>1, <1>14 DEF JobsTypeOK, Runner
\* Its own job, which no other runner has.
<1>6. ASSUME NEW a \in Backends, a # b, runner[b].pc # "idle"
      PROVE  runner[a].job # j
  BY <1>1, <1>2, <1>6 DEF RunnerInv, NoJob
<1>7. CASE HandlerCommit(b)
  <2>1. /\ runner[b].pc \in {"handler", "loose"}
        /\ job' = [job EXCEPT ![j].effects = @ + 1]
        /\ job[j].status = "running"
    BY <1>7 DEF HandlerCommit, InThread, RunnerInv, Matches
  <2>2. DOMAIN job' = DOMAIN job /\ job'[j].status = "running"
        /\ \A i \in DOMAIN job : i # j => job'[i] = job[i]
    BY <1>1, <2>1 DEF JobsTypeOK, IsTable, Job
  <2>3. CASE runner[b].pc = "loose"
    <3>1. runner' = [runner EXCEPT ![b] = Idle]
      BY <1>7, <2>3 DEF HandlerCommit
    <3>2. ~Held(j)
      BY <1>6, <2>3 DEF Held
    <3>3. InDoubt(j)
      BY <2>1, <3>2 DEF InDoubt, Worked
    <3>4. Idle \in Runner /\ Idle.job = NoJob
      BY DEF Idle, Runner
    <3> QED BY <1>5, <1>7, <2>1, <2>2, <3>1, <3>3, <3>4 DEF HandlerCommit
  <2>4. CASE runner[b].pc = "handler"
    <3> DEFINE r == [pc |-> "returned", job |-> j]
    <3>1. runner' = [runner EXCEPT ![b] = r] /\ r \in Runner
      BY <1>14, <1>7, <2>4 DEF HandlerCommit
    <3>2. runner'[b] = r /\ \A a \in Backends : a # b => runner'[a] = runner[a]
      BY <3>1 DEF JobsTypeOK
    <3>3. Held(j)'
      BY <3>2 DEF Held
    <3>4. ~InDoubt(j)'
      BY <1>6, <2>1, <2>2, <3>2, <3>3 DEF InDoubt, Worked
    <3> QED BY <1>5, <1>7, <2>1, <2>2, <3>1, <3>4 DEF HandlerCommit
  <2> QED BY <2>1, <2>3, <2>4
<1>8. CASE HandlerRaise(b)
  <2>1. /\ runner[b].pc \in {"handler", "loose"}
        /\ job[j].status = "running" /\ job[j].effects = 0
        /\ \/ job' = job
           \/ /\ job[j].payload \in Generations
              /\ job' = [job EXCEPT ![j].effects = @ + 1]
    BY <1>8 DEF HandlerRaise, InThread, RunnerInv, Matches
  <2>2. /\ DOMAIN job' = DOMAIN job /\ job'[j].status = "running"
        /\ \A i \in DOMAIN job : i # j => job'[i] = job[i]
        /\ job'[j].effects = 0 \/ job'[j].payload \in Generations
    BY <1>1, <2>1 DEF JobsTypeOK, IsTable, Job
  <2>3. CASE runner[b].pc = "loose"
    <3>1. runner' = [runner EXCEPT ![b] = Idle]
      BY <1>8, <2>3 DEF HandlerRaise
    <3>2. ~Held(j)
      BY <1>6, <2>3 DEF Held
    <3>3. InDoubt(j)
      BY <2>1, <3>2 DEF InDoubt, Worked
    <3>4. Idle \in Runner /\ Idle.job = NoJob
      BY DEF Idle, Runner
    <3> QED BY <1>5, <1>8, <2>1, <2>2, <3>1, <3>3, <3>4 DEF HandlerRaise
  <2>4. CASE runner[b].pc = "handler"
    <3> DEFINE r == [pc |-> "raised", job |-> j]
    <3>1. runner' = [runner EXCEPT ![b] = r] /\ r \in Runner
      BY <1>14, <1>8, <2>4 DEF HandlerRaise
    <3>2. runner'[b] = r
      BY <3>1 DEF JobsTypeOK
    <3>3. Held(j)'
      BY <3>2 DEF Held
    <3>4. ~InDoubt(j)'
      BY <2>2, <3>3 DEF InDoubt, Worked
    <3> QED BY <1>5, <1>8, <2>1, <2>2, <3>1, <3>4 DEF HandlerRaise
  <2> QED BY <2>1, <2>3, <2>4
<1>9. CASE Finalize(b)
  <2>1. /\ runner[b].pc \in {"returned", "raised"}
        /\ job' = [job EXCEPT ![j].status = Outcome(b)]
        /\ runner' = [runner EXCEPT ![b] = Idle]
    BY <1>9 DEF Finalize, Ended
  <2>2. DOMAIN job' = DOMAIN job
        /\ job'[j].status = Outcome(b) /\ job'[j].effects = job[j].effects
        /\ job'[j].payload = job[j].payload
        /\ \A i \in DOMAIN job : i # j => job'[i] = job[i]
    BY <1>1, <2>1 DEF JobsTypeOK, IsTable, Job
  <2>3. runner'[b] = Idle /\ \A a \in Backends : a # b => runner'[a] = runner[a]
    BY <2>1 DEF JobsTypeOK
  <2>4. ~InDoubt(j)' \/ InDoubt(j)
    BY <1>1, <1>2, <1>6, <2>1, <2>2, <2>3 DEF InDoubt, Worked, Outcome, Idle
  <2>5. Idle \in Runner /\ Idle.job = NoJob
    BY DEF Idle, Runner
  <2> QED BY <1>5, <1>9, <2>1, <2>2, <2>4, <2>5 DEF Finalize
<1>10. CASE HandlerCommitLost(b)
  <2> DEFINE r == [pc |-> "raised", job |-> j]
  <2>1. /\ runner[b].pc = "handler" /\ job' = [job EXCEPT ![j].effects = @ + 1]
        /\ jobFaults' = jobFaults + 1
    BY <1>10 DEF HandlerCommitLost, Fault
  <2>2. runner' = [runner EXCEPT ![b] = r] /\ r \in Runner
    BY <1>14, <1>10 DEF HandlerCommitLost, Goto
  <2> QED BY <1>5, <2>1, <2>2
<1>11. CASE FinalizeLost(b)
  <2>1. /\ runner[b].pc \in {"returned", "raised"} /\ jobFaults' = jobFaults + 1
        /\ DOMAIN job' = DOMAIN job /\ \A i \in DOMAIN job : i # j => job'[i] = job[i]
    BY <1>11 DEF FinalizeLost, Ended, Fault
  <2>2. PICK r \in Runner : /\ runner' = [runner EXCEPT ![b] = r]
                            /\ r = Idle \/ r = [pc |-> "raised", job |-> j]
    <3>1. Idle \in Runner
      BY DEF Idle, Runner
    <3> QED BY <1>14, <1>11, <3>1 DEF FinalizeLost
  <2>3. r.job = NoJob \/ r.job = j
    BY <2>2 DEF Idle
  <2> QED BY <1>5, <2>1, <2>2, <2>3
<1>12. CASE Shutdown(b) \/ Kill(b)
  <2>1. job' = job /\ jobFaults' = jobFaults + 1
    BY <1>12 DEF Shutdown, Kill, Fault
  <2>2. CASE runner' = runner
    BY <2>1, <2>2 DEF NoNewDoubt, Doubted, InDoubt, Worked, Held
  <2>3. CASE runner' # runner
    <3>1. PICK r \in Runner : /\ runner' = [runner EXCEPT ![b] = r]
                              /\ r = Idle \/ r = [pc |-> "loose", job |-> j]
      <4>1. Idle \in Runner
        BY DEF Idle, Runner
      <4> QED BY <1>14, <1>12, <2>3, <4>1 DEF Shutdown, Cancelled, Kill
    <3>2. r.job = NoJob \/ r.job = j
      BY <3>1 DEF Idle
    <3>3. runner[b].pc # "idle"
      <4>1. runner[b].pc = "idle" => runner[b] = Idle
        BY DEF JobsTypeOK, Runner, Idle
      <4>2. runner[b].pc = "idle" => runner' = [runner EXCEPT ![b] = Idle]
        BY <1>12 DEF Shutdown, Cancelled, Kill
      <4> QED BY <2>3, <4>1, <4>2 DEF JobsTypeOK
    <3> QED BY <1>5, <2>1, <3>1, <3>2, <3>3
  <2> QED BY <2>2, <2>3
<1>13. CASE Exit(b) \/ Start(b)
  BY <1>13 DEF Exit, Start, NoNewDoubt, Doubted, InDoubt, Worked, Held
<1> QED BY <1>3, <1>4, <1>7, <1>8, <1>9, <1>10, <1>11, <1>12, <1>13
       DEF ProcessStep, Claim, ClaimLost, Fault

\* Every step keeps the count.
LEMMA DoubtStep ==
    ASSUME TrigTypeOK, RunnerInv, DoubtInv, [Next]_vars
    PROVE  DoubtInv'
<1>1. JobsTypeOK /\ JobStep /\ jobFaults \in Nat
  BY StepIsJobStep DEF TrigTypeOK, JobsTypeOK
<1>2. \/ NoNewDoubt /\ jobFaults' \in {jobFaults, jobFaults + 1}
      \/ OneNewDoubt /\ jobFaults' = jobFaults + 1
  <2>1. CASE EnqueueStep
    <3>1. PICK J \in SUBSET Jobs : \E new \in [J -> Payloads] : Enqueued(new)
      BY <2>1 DEF EnqueueStep
    <3>2. PICK new \in [J -> Payloads] : Enqueued(new)
      BY <3>1
    <3>3. DOMAIN job' = DOMAIN job \cup J /\ \A j \in DOMAIN job : job'[j] = job[j]
      BY <3>2 DEF Enqueued, Fresh
    <3>4. \A j \in DOMAIN job' \ DOMAIN job : job'[j].status = "pending" /\ job'[j].effects = 0
      BY <3>2 DEF Enqueued, NewJob
    <3>5. runner' = runner /\ jobFaults' = jobFaults
      BY <2>1 DEF EnqueueStep
    <3>6. \A j \in DOMAIN job' : InDoubt(j)' => j \in DOMAIN job /\ InDoubt(j)
      BY <3>3, <3>4, <3>5 DEF InDoubt, Worked, Held
    <3> QED BY <3>5, <3>6 DEF NoNewDoubt, Doubted
  <2>2. CASE \E b \in Backends : ProcessStep(b)
    BY <1>1, <2>2, ProcessDoubt, JobsAssumption
  <2>3. CASE (Fault /\ UNCHANGED <<job, proc, runner>>) \/ UNCHANGED jobVars
    BY <2>3 DEF Fault, jobVars, NoNewDoubt, Doubted, InDoubt, Worked, Held
  <2> QED BY <1>1, <2>1, <2>2, <2>3 DEF JobStep
<1>3. CASE NoNewDoubt /\ jobFaults' \in {jobFaults, jobFaults + 1}
  <2>1. IsFiniteSet(Doubted') /\ Cardinality(Doubted') <= Cardinality(Doubted)
    BY <1>3, FS_Subset DEF DoubtInv, NoNewDoubt
  <2>2. Cardinality(Doubted) \in Nat /\ Cardinality(Doubted') \in Nat
    BY <2>1, FS_CardinalityType DEF DoubtInv
  <2> QED BY <1>1, <1>3, <2>1, <2>2 DEF DoubtInv
<1>4. CASE OneNewDoubt /\ jobFaults' = jobFaults + 1
  <2>1. PICK j \in Jobs : Doubted' \subseteq Doubted \cup {j}
    BY <1>4 DEF OneNewDoubt
  <2>2. /\ IsFiniteSet(Doubted \cup {j})
        /\ Cardinality(Doubted \cup {j}) = IF j \in Doubted THEN Cardinality(Doubted)
                                           ELSE Cardinality(Doubted) + 1
    BY FS_AddElement DEF DoubtInv
  <2>3. IsFiniteSet(Doubted') /\ Cardinality(Doubted') <= Cardinality(Doubted \cup {j})
    BY <2>1, <2>2, FS_Subset
  <2>4. Cardinality(Doubted) \in Nat /\ Cardinality(Doubted') \in Nat
    BY <2>3, FS_CardinalityType DEF DoubtInv
  <2> QED BY <1>1, <1>4, <2>2, <2>3, <2>4 DEF DoubtInv
<1> QED BY <1>2, <1>3, <1>4

\* Every crash, shutdown or lost answer leaves at most one job whose row does
\* not tell what became of it (jobs.py: nobody sweeps the running rows).
THEOREM OneJobEachFault == Spec => []OneJobPerFault
<1>1. Init => DoubtInv
  <2>1. Init => Doubted = {} /\ jobFaults = 0
    BY DEF Init, JobsInit, EmptyTable, Doubted
  <2> QED BY <2>1, FS_EmptySet DEF DoubtInv
<1>2. DoubtInv /\ TrigTypeOK => OneJobPerFault
  <2> SUFFICES ASSUME DoubtInv, TrigTypeOK PROVE OneJobPerFault
    OBVIOUS
  <2>1. Orphans \cup Belied \subseteq Doubted
    BY DEF Orphans, Belied, Doubted, InDoubt
  <2>2. /\ IsFiniteSet(Orphans \cup Belied)
        /\ Cardinality(Orphans \cup Belied) <= Cardinality(Doubted)
    BY <2>1, FS_Subset DEF DoubtInv
  <2>3. Cardinality(Doubted) \in Nat /\ Cardinality(Orphans \cup Belied) \in Nat
        /\ jobFaults \in Nat
    BY <2>2, FS_CardinalityType DEF DoubtInv, TrigTypeOK, JobsTypeOK
  <2> QED BY <2>2, <2>3 DEF DoubtInv, OneJobPerFault
<1> QED BY RunnerInvariant, <1>1, <1>2, DoubtStep, PTL DEF Spec
-----------------------------------------------------------------------------
(* A window is fired once. *)

\* The slot that a trigger stands at is after its schedule's last fire.
PastFires ==
    \A j \in DOMAIN fire : LET f == fire[j] IN
        /\ f.t \in made
        /\ f.t \in DOMAIN trig => f.gen <= trig[f.t].gen
        /\ Cron(f.t) /\ f.gen = trig[f.t].gen => f.at < trig[f.t].next

\* What a tick holds was due when it read it, and stays so.
HeldDue ==
    \A b \in Backends : \A t \in tick[b].rows :
        tick[b].at \in trig[t].next .. trig[t].next + Grace

HeldByOne ==
    \A a, b \in Backends : a # b => tick[a].rows \cap tick[b].rows = {}

HooksHaveNoSlot ==
    \A t \in DOMAIN trig : trig[t].kind = "webhook" => trig[t].next = NoSlot

NewJobsAreLast ==
    \A j \in DOMAIN job, k \in Jobs \ DOMAIN job : j < k

WindowInv == /\ OncePerWindow /\ PastFires /\ HooksHaveNoSlot
             /\ HeldDue /\ HeldByOne /\ NewJobsAreLast

\* A row that is new, gone, kept, moved to a later slot or edited.
Onward(t) ==
    \/ t \notin made
    \/ /\ t \in DOMAIN trig /\ trig'[t].kind = trig[t].kind
       /\ \/ trig'[t].gen = trig[t].gen /\ trig'[t].next >= trig[t].next
          \/ trig'[t].gen = trig[t].gen + 1

\* Rows that only move onward stay ahead of the fires.
LEMMA OnwardPastFires ==
    ASSUME TrigTypeOK, TrigTypeOK', PastFires, fire' = fire, made \subseteq made',
           \A t \in DOMAIN trig' : Onward(t)
    PROVE  PastFires'
<1> SUFFICES ASSUME NEW j \in DOMAIN fire
             PROVE  /\ fire[j].t \in made'
                    /\ fire[j].t \in DOMAIN trig' => fire[j].gen <= trig'[fire[j].t].gen
                    /\ Cron(fire[j].t)' /\ fire[j].gen = trig'[fire[j].t].gen
                          => fire[j].at < trig'[fire[j].t].next
  BY DEF PastFires, Cron
<1>1. PICK t : t = fire[j].t
  OBVIOUS
<1>2. t \in made /\ fire[j].gen \in Nat /\ fire[j].at \in Nat
  BY <1>1, BoundsAssumption DEF PastFires, TrigTypeOK, IsTable, Fire, Time
<1>3. ASSUME t \in DOMAIN trig'
      PROVE  /\ fire[j].gen <= trig'[t].gen
             /\ Cron(t)' /\ fire[j].gen = trig'[t].gen => fire[j].at < trig'[t].next
  <2>1. /\ t \in DOMAIN trig /\ trig'[t].kind = trig[t].kind
        /\ \/ trig'[t].gen = trig[t].gen /\ trig'[t].next >= trig[t].next
           \/ trig'[t].gen = trig[t].gen + 1
    BY <1>2, <1>3 DEF Onward
  <2>2. /\ trig[t].gen \in Nat /\ trig[t].next \in Nat
        /\ trig'[t].gen \in Nat /\ trig'[t].next \in Nat
    BY <1>3, <2>1 DEF TrigTypeOK, IsTable, Trigger
  <2>3. /\ fire[j].gen <= trig[t].gen
        /\ Cron(t) /\ fire[j].gen = trig[t].gen => fire[j].at < trig[t].next
    BY <1>1, <2>1 DEF PastFires
  <2> QED BY <1>2, <2>1, <2>2, <2>3 DEF Cron
<1> QED BY <1>1, <1>2, <1>3 DEF Cron

\* Ticks that keep their rows, or drop them all.
LEMMA KeptHeld ==
    ASSUME TrigTypeOK, HeldDue, HeldByOne,
           \A b \in Backends : tick'[b] = tick[b] \/ tick'[b] = NoTick,
           \A t : Locked(t) /\ Locked(t)' => trig'[t] = trig[t]
    PROVE  HeldDue' /\ HeldByOne'
<1>1. \A b \in Backends : \A t \in tick'[b].rows :
         tick'[b] = tick[b] /\ t \in tick[b].rows /\ trig'[t] = trig[t]
  BY DEF NoTick, Locked
<1>2. HeldDue'
  BY <1>1 DEF HeldDue
<1>3. HeldByOne'
  BY <1>1 DEF HeldByOne
<1> QED BY <1>2, <1>3

\* The endpoints wait for a tick's locks, and an edit begins a new schedule.
LEMMA UserWindow ==
    ASSUME TrigTypeOK, TrigTypeOK', WindowInv, UserNext, job' = job, fire' = fire
    PROVE  WindowInv'
<1> USE DEF WindowInv
<1>1. tick' = tick /\ made \subseteq made'
  BY DEF UserNext, CreateTrigger, SetEnabled, DeleteTrigger, EditRead, EditWrite,
         EditDrop, WebhookCall, WebhookFire, WebhookOver, Generate, trigVars
<1>2. OncePerWindow' /\ NewJobsAreLast'
  BY DEF OncePerWindow, NewJobsAreLast
<1>3. ASSUME \A t \in DOMAIN trig' : \/ Onward(t)
             , HooksHaveNoSlot'
             , \A t : Locked(t) => trig'[t] = trig[t]
      PROVE  WindowInv'
  <2>1. PastFires'
    BY <1>1, <1>3, OnwardPastFires
  <2>2. HeldDue' /\ HeldByOne'
    BY <1>1, <1>3, KeptHeld
  <2> QED BY <1>2, <1>3, <2>1, <2>2
<1>4. \A t : Locked(t) => t \in DOMAIN trig
  BY DEF Locked, TrigTypeOK, Cron
<1>5. \A t \in DOMAIN trig : trig[t].next \in Nat /\ trig[t].gen \in Nat
  BY DEF TrigTypeOK, IsTable, Trigger
<1>6. ASSUME NEW t \in Trigs, CreateTrigger(t) PROVE WindowInv'
  <2>1. /\ t \notin made /\ DOMAIN trig' = DOMAIN trig \cup {t}
        /\ \A u \in DOMAIN trig : u # t => trig'[u] = trig[u]
        /\ trig'[t].kind = "webhook" => trig'[t].next = NoSlot
    <3>1. PICK r : trig' = Inserted(trig, t, r) /\ (r.kind = "webhook" => r.next = NoSlot)
      <4>1. CASE trig' = Inserted(trig, t,
                    [kind |-> "webhook", enabled |-> TRUE, sched |-> NoSchedule,
                     next |-> NoSlot, gen |-> 0])
        BY <4>1
      <4>2. CASE \E s \in Schedules : trig' = Inserted(trig, t,
                    [kind |-> "cron", enabled |-> TRUE, sched |-> s,
                     next |-> NextAt[<<s, now>>], gen |-> 0])
        BY <4>2
      <4> QED BY <1>6, <4>1, <4>2 DEF CreateTrigger
    <3>2. /\ DOMAIN trig' = DOMAIN trig \cup {t} /\ trig'[t] = r
          /\ \A u \in DOMAIN trig : u # t => trig'[u] = trig[u]
      BY <3>1 DEF Inserted
    <3> QED BY <1>6, <3>1, <3>2 DEF CreateTrigger
  <2>2. t \notin DOMAIN trig
    BY <2>1 DEF TrigTypeOK
  <2>3. \A u \in DOMAIN trig' : Onward(u)
    BY <1>5, <2>1 DEF Onward
  <2>4. HooksHaveNoSlot'
    BY <2>1, <2>2 DEF HooksHaveNoSlot
  <2> QED BY <1>3, <1>4, <2>1, <2>2, <2>3, <2>4
<1>7. ASSUME NEW t \in Trigs, SetEnabled(t) \/ DeleteTrigger(t) PROVE WindowInv'
  <2>1. /\ DOMAIN trig' \subseteq DOMAIN trig /\ ~Locked(t)
        /\ \A u \in DOMAIN trig' : /\ trig'[u].kind = trig[u].kind
                                   /\ trig'[u].next = trig[u].next
                                   /\ trig'[u].gen = trig[u].gen
        /\ \A u \in DOMAIN trig : u # t => trig'[u] = trig[u]
    BY <1>7 DEF SetEnabled, DeleteTrigger, Removed, TrigTypeOK, IsTable, Trigger
  <2>2. \A u \in DOMAIN trig' : Onward(u)
    BY <1>5, <2>1 DEF Onward
  <2>3. HooksHaveNoSlot'
    BY <2>1 DEF HooksHaveNoSlot
  <2> QED BY <1>3, <1>4, <2>1, <2>2, <2>3
<1>8. ASSUME NEW e \in edit, EditWrite(e) PROVE WindowInv'
  <2>1. /\ DOMAIN trig' = DOMAIN trig /\ ~Locked(e.t) /\ Cron(e.t)
        /\ trig'[e.t].kind = trig[e.t].kind /\ trig'[e.t].gen = trig[e.t].gen + 1
        /\ \A u \in DOMAIN trig : u # e.t => trig'[u] = trig[u]
    <3>1. PICK s, n : trig' = [trig EXCEPT ![e.t].sched = s, ![e.t].next = n,
                                           ![e.t].gen = @ + 1]
      BY <1>8 DEF EditWrite
    <3>2. e.t \in DOMAIN trig /\ trig[e.t] \in Trigger
      BY <1>8 DEF EditWrite, Cron, TrigTypeOK, IsTable
    <3>3. trig'[e.t] = [trig[e.t] EXCEPT !.sched = s, !.next = n, !.gen = trig[e.t].gen + 1]
          /\ DOMAIN trig' = DOMAIN trig
          /\ \A u \in DOMAIN trig : u # e.t => trig'[u] = trig[u]
      BY <3>1, <3>2
    <3>4. trig'[e.t].kind = trig[e.t].kind /\ trig'[e.t].gen = trig[e.t].gen + 1
      BY <3>2, <3>3 DEF Trigger
    <3> QED BY <1>8, <3>3, <3>4 DEF EditWrite
  <2>2. \A u \in DOMAIN trig' : Onward(u)
    BY <1>5, <2>1 DEF Onward
  <2>3. HooksHaveNoSlot'
    BY <2>1 DEF HooksHaveNoSlot, Cron
  <2> QED BY <1>3, <1>4, <2>1, <2>2, <2>3
<1>9. CASE trig' = trig
  <2>1. \A u \in DOMAIN trig' : Onward(u)
    BY <1>5, <1>9 DEF Onward
  <2>2. HooksHaveNoSlot'
    BY <1>9 DEF HooksHaveNoSlot
  <2> QED BY <1>3, <1>9, <2>1, <2>2
<1> QED BY <1>6, <1>7, <1>8, <1>9 DEF UserNext, EditRead, EditDrop, WebhookCall,
       WebhookFire, WebhookOver, Generate, trigVars

\* A tick reads free rows that are due; a sweep moves stale ones on.
LEMMA ReadAndSweepWindow ==
    ASSUME TrigTypeOK, TrigTypeOK', WindowInv, NEW b \in Backends,
           TickOpen(b) \/ StartSweep(b)
    PROVE  WindowInv'
<1> USE DEF WindowInv
<1>1. job' = job /\ fire' = fire /\ made' = made
  BY DEF TickOpen, StartSweep, Start, jobVars
<1>2. OncePerWindow' /\ NewJobsAreLast'
  BY <1>1 DEF OncePerWindow, NewJobsAreLast
<1>3. CASE TickOpen(b)
  <2>1. PICK due : /\ due = {t \in Trigs : Due(t) /\ ~Locked(t)}
                   /\ tick' = [tick EXCEPT ![b] = [at |-> now, rows |-> due]]
                   /\ trig' = trig /\ tick[b] = NoTick
    BY <1>3 DEF TickOpen
  <2>2. /\ tick'[b].at = now /\ tick'[b].rows = due
        /\ \A a \in Backends : a # b => tick'[a] = tick[a]
    BY <2>1 DEF TrigTypeOK
  <2>3. HeldDue'
    <3>1. \A t \in due : now \in trig[t].next .. trig[t].next + Grace
      BY <2>1, BoundsAssumption DEF Due, Cron, TrigTypeOK, IsTable, Trigger, Time
    <3> QED BY <2>1, <2>2, <3>1 DEF HeldDue
  <2>4. HeldByOne'
    BY <2>1, <2>2 DEF HeldByOne, Locked
  <2>5. PastFires' /\ HooksHaveNoSlot'
    BY <1>1, <2>1 DEF PastFires, HooksHaveNoSlot, Cron
  <2> QED BY <1>2, <2>3, <2>4, <2>5
<1>4. CASE StartSweep(b)
  <2>1. PICK R : /\ R = {t \in Trigs : Stale(t) /\ ~Locked(t)}
                 /\ trig' = Advanced(R, now) /\ tick' = tick
    BY <1>4 DEF StartSweep
  <2>2. R \subseteq {t \in DOMAIN trig : trig[t].kind = "cron"}
    BY <2>1 DEF Stale, Cron
  <2>3. TrigsOK /\ now \in Time
    BY DEF TrigTypeOK, TrigsOK
  <2>4. /\ DOMAIN trig' = DOMAIN trig
        /\ \A t \in DOMAIN trig : trig'[t] = [trig[t] EXCEPT !.next = trig'[t].next]
        /\ \A t \in R : trig'[t].next > now
        /\ \A t \in DOMAIN trig \ R : trig'[t] = trig[t]
    BY <2>1, <2>2, <2>3, AdvancedTypeOK
  <2>5. \A t \in DOMAIN trig : /\ trig[t] \in Trigger /\ trig'[t] \in Trigger
                               /\ trig'[t].kind = trig[t].kind
                               /\ trig'[t].gen = trig[t].gen
    BY <2>4 DEF TrigTypeOK, IsTable, Trigger
  <2>6. ASSUME NEW t \in R PROVE trig[t].next < now
    <3>1. trig[t].next \in Nat /\ trig[t].next + Grace < now
      BY <2>1, <2>2, <2>5 DEF Stale, Trigger
    <3> QED BY <2>3, <3>1, BoundsAssumption DEF Time
  <2>7. \A t \in DOMAIN trig : trig'[t].next >= trig[t].next
    BY <2>3, <2>4, <2>5, <2>6, BoundsAssumption DEF Trigger, Time
  <2>8. \A t \in DOMAIN trig' : Onward(t)
    BY <2>4, <2>5, <2>7 DEF Onward
  <2>9. PastFires'
    BY <1>1, <2>8, OnwardPastFires
  <2>10. HooksHaveNoSlot'
    BY <2>2, <2>4, <2>5 DEF HooksHaveNoSlot
  <2>11. \A t : Locked(t) => trig'[t] = trig[t]
    <3>1. \A t : Locked(t) => t \in DOMAIN trig /\ t \notin R
      BY <2>1 DEF Locked, TrigTypeOK, Cron
    <3> QED BY <2>4, <3>1
  <2>12. HeldDue' /\ HeldByOne'
    BY <2>1, <2>11, KeptHeld
  <2> QED BY <1>2, <2>9, <2>10, <2>12
<1> QED BY <1>3, <1>4

\* A tick commits: its jobs are the last ones, each for a slot that its
\* schedule had not fired, and its rows move past its clock.
LEMMA CommitWindow ==
    ASSUME TrigTypeOK, TrigTypeOK', WindowInv, NEW b \in Backends, TickCommit(b)
    PROVE  WindowInv'
<1> USE DEF WindowInv
<1>1. PICK J \in SUBSET Jobs : \E new \in [J -> DOMAIN trig] :
         /\ \A j \in J : new[j] \in tick[b].rows
         /\ \A i, k \in J : i < k => new[i] # new[k]
         /\ Fires(new, tick[b].at)
  BY TickCommits
<1>2. PICK new \in [J -> DOMAIN trig] :
         /\ \A j \in J : new[j] \in tick[b].rows
         /\ \A i, k \in J : i < k => new[i] # new[k]
         /\ Fires(new, tick[b].at)
  BY <1>1
<1>3. PICK at, D : at = tick[b].at /\ D = tick[b].rows
  OBVIOUS
<1>4. /\ trig' = Advanced(D, at) /\ tick' = [tick EXCEPT ![b] = NoTick]
      /\ made' = made
  BY <1>3 DEF TickCommit
<1>5. at \in Time /\ D \subseteq {t \in DOMAIN trig : trig[t].kind = "cron"}
  BY <1>3 DEF TrigTypeOK, TickTx, Cron
<1>6. /\ J \subseteq Jobs \ DOMAIN job
      /\ DOMAIN fire' = DOMAIN fire \cup J /\ DOMAIN job' = DOMAIN job \cup J
      /\ \A j \in J : fire'[j] = [t |-> new[j], gen |-> trig[new[j]].gen,
                                 slot |-> trig[new[j]].next, at |-> at]
      /\ \A j \in DOMAIN fire : fire'[j] = fire[j]
  BY <1>2, <1>3, <1>5, FiresTypeOK
<1>7. TrigsOK
  BY DEF TrigTypeOK, TrigsOK
<1>8. /\ DOMAIN trig' = DOMAIN trig
      /\ \A t \in DOMAIN trig : trig'[t] = [trig[t] EXCEPT !.next = trig'[t].next]
      /\ \A t \in D : trig'[t].next > at
      /\ \A t \in DOMAIN trig \ D : trig'[t] = trig[t]
  BY <1>4, <1>5, <1>7, AdvancedTypeOK
<1>9. \A t \in DOMAIN trig : /\ trig[t] \in Trigger /\ trig'[t] \in Trigger
                             /\ trig'[t].kind = trig[t].kind
                             /\ trig'[t].gen = trig[t].gen
  BY <1>8 DEF TrigTypeOK, IsTable, Trigger
<1>10. \A t \in D : at \in trig[t].next .. trig[t].next + Grace
  BY <1>3 DEF HeldDue
<1>11. \A t \in DOMAIN trig : trig'[t].next >= trig[t].next
  BY <1>5, <1>8, <1>9, <1>10, BoundsAssumption DEF Trigger, Time
<1>12. NewJobsAreLast'
  <2>1. \A j \in J, k \in Jobs \ (DOMAIN job \cup J) : j < k
    BY <1>2 DEF Fires, Enqueued, Fresh
  <2> QED BY <1>6, <2>1 DEF NewJobsAreLast
<1>13. HooksHaveNoSlot'
  BY <1>5, <1>8, <1>9 DEF HooksHaveNoSlot
<1>14. HeldDue' /\ HeldByOne'
  <2>1. \A a \in Backends : tick'[a] = tick[a] \/ tick'[a] = NoTick
    BY <1>4 DEF TrigTypeOK
  <2>2. \A t : Locked(t)' => t \in DOMAIN trig /\ t \notin D
    <3>1. \A a \in Backends : \A t \in tick'[a].rows : a # b /\ t \in tick[a].rows
      BY <1>4 DEF TrigTypeOK, NoTick
    <3>2. \A a \in Backends : \A t \in tick[a].rows : t \in DOMAIN trig
      BY DEF TrigTypeOK, Cron
    <3> QED BY <1>3, <3>1, <3>2 DEF Locked, HeldByOne
  <2>3. \A t : Locked(t) /\ Locked(t)' => trig'[t] = trig[t]
    BY <1>8, <2>2
  <2> QED BY <2>1, <2>3, KeptHeld
<1>15. \A j \in J : new[j] \in D
  BY <1>2, <1>3
<1>16. PastFires'
  <2>1. ASSUME NEW j \in J
        PROVE  /\ new[j] \in made' /\ trig[new[j]].gen <= trig'[new[j]].gen
               /\ at < trig'[new[j]].next
    <3>1. new[j] \in D /\ new[j] \in DOMAIN trig
      BY <1>15
    <3>2. trig'[new[j]].gen = trig[new[j]].gen /\ trig[new[j]].gen \in Nat
      BY <1>9, <3>1 DEF Trigger
    <3>3. trig'[new[j]].next > at /\ trig'[new[j]].next \in Nat /\ at \in Nat
      BY <1>5, <1>8, <1>9, <3>1, BoundsAssumption DEF Trigger, Time
    <3>4. new[j] \in made'
      BY <1>4, <3>1 DEF TrigTypeOK
    <3> QED BY <3>2, <3>3, <3>4
  <2>2. ASSUME NEW j \in DOMAIN fire
        PROVE  /\ fire[j].t \in made'
               /\ fire[j].t \in DOMAIN trig' => fire[j].gen <= trig'[fire[j].t].gen
               /\ Cron(fire[j].t)' /\ fire[j].gen = trig'[fire[j].t].gen
                     => fire[j].at < trig'[fire[j].t].next
    <3>1. PICK t : t = fire[j].t
      OBVIOUS
    <3>2. fire[j].gen \in Nat /\ fire[j].at \in Nat
      BY BoundsAssumption DEF TrigTypeOK, IsTable, Fire, Time
    <3>3. /\ t \in made
          /\ t \in DOMAIN trig => fire[j].gen <= trig[t].gen
          /\ Cron(t) /\ fire[j].gen = trig[t].gen => fire[j].at < trig[t].next
      BY <3>1 DEF PastFires
    <3>4. t \in DOMAIN trig => /\ trig[t].next \in Nat /\ trig'[t].next \in Nat
                               /\ trig'[t].gen = trig[t].gen
                               /\ trig'[t].kind = trig[t].kind
      BY <1>9 DEF Trigger
    <3>5. Cron(t)' /\ fire[j].gen = trig'[t].gen => fire[j].at < trig'[t].next
      BY <1>8, <1>11, <3>2, <3>3, <3>4 DEF Cron
    <3>6. t \in DOMAIN trig' => fire[j].gen <= trig'[t].gen
      BY <1>8, <3>3, <3>4
    <3> QED BY <1>4, <1>6, <3>1, <3>3, <3>5, <3>6 DEF Cron
  <2> QED BY <1>6, <2>1, <2>2 DEF PastFires
<1>17. OncePerWindow'
  <2> SUFFICES ASSUME NEW k \in DOMAIN fire', fire'[k].slot # NoSlot
               PROVE  /\ fire'[k].at \in fire'[k].slot .. fire'[k].slot + Grace
                      /\ \A i \in DOMAIN fire' :
                            i < k /\ fire'[i].t = fire'[k].t /\ fire'[i].gen = fire'[k].gen
                               => fire'[i].at < fire'[k].slot
    BY DEF OncePerWindow
  <2>1. \A i \in DOMAIN fire, j \in J : i < j /\ ~(j < i)
    <3>1. \A i \in DOMAIN fire : i \in DOMAIN job /\ i \in Nat
      BY JobsAssumption DEF TrigTypeOK, JobsTypeOK, IsTable
    <3>2. \A j \in J : j \in Nat /\ j \in Jobs \ DOMAIN job
      BY <1>6, JobsAssumption
    <3> QED BY <3>1, <3>2 DEF NewJobsAreLast
  <2>2. CASE k \in DOMAIN fire
    BY <1>6, <2>1, <2>2 DEF OncePerWindow
  <2>3. CASE k \in J
    <3>1. PICK t : t = new[k] /\ t \in D /\ t \in DOMAIN trig
      BY <1>5, <1>15, <2>3
    <3>2. fire'[k].t = t /\ fire'[k].gen = trig[t].gen /\ fire'[k].slot = trig[t].next
          /\ fire'[k].at = at
      BY <1>6, <2>3, <3>1
    <3>3. ASSUME NEW i \in DOMAIN fire, fire[i].t = t, fire[i].gen = trig[t].gen
          PROVE  fire[i].at < trig[t].next
      BY <1>5, <3>1, <3>3 DEF PastFires, Cron
    <3>4. \A i \in J : i < k => fire'[i].t # t
      BY <1>2, <1>6, <2>3, <3>1
    <3> QED BY <1>6, <1>10, <3>1, <3>2, <3>3, <3>4
  <2> QED BY <1>6, <2>2, <2>3
<1> QED BY <1>12, <1>13, <1>14, <1>16, <1>17

\* A webhook's fire has no slot.
LEMMA WebhookWindow ==
    ASSUME TrigTypeOK, TrigTypeOK', WindowInv, NEW t \in Trigs, NEW h \in Jobs,
           WebhookFire(t, h)
    PROVE  WindowInv'
<1> USE DEF WindowInv
<1>1. PICK new : new = [k \in {h} |-> t]
  OBVIOUS
<1>2. /\ new \in [{h} -> DOMAIN trig] /\ Fires(new, now) /\ new[h] = t
      /\ trig[t].kind = "webhook" /\ t \in DOMAIN trig
      /\ trig' = trig /\ made' = made /\ tick' = tick
  BY <1>1 DEF WebhookFire
<1>4. /\ {h} \subseteq Jobs \ DOMAIN job
      /\ DOMAIN fire' = DOMAIN fire \cup {h} /\ DOMAIN job' = DOMAIN job \cup {h}
      /\ fire'[h] = [t |-> t, gen |-> trig[t].gen, slot |-> trig[t].next, at |-> now]
      /\ \A i \in DOMAIN fire : fire'[i] = fire[i]
  <2>1. DOMAIN new = {h}
    BY <1>1
  <2>2. {h} \subseteq Jobs \ DOMAIN job /\ DOMAIN job' = DOMAIN job \cup {h}
    BY <1>2, <2>1 DEF Fires, Enqueued, Fresh
  <2>3. fire' = [j \in DOMAIN fire \cup {h} |->
                   IF j \in {h}
                   THEN [t |-> new[j], gen |-> trig[new[j]].gen,
                         slot |-> trig[new[j]].next, at |-> now]
                   ELSE fire[j]]
    BY <1>2, <2>1 DEF Fires
  <2>4. h \notin DOMAIN fire
    BY <2>2 DEF TrigTypeOK
  <2> QED BY <1>2, <2>2, <2>3, <2>4
<1>5. NewJobsAreLast'
  <2>1. \A i \in {h}, k \in Jobs \ (DOMAIN job \cup {h}) : i < k
    BY <1>2 DEF Fires, Enqueued, Fresh
  <2> QED BY <1>4, <2>1 DEF NewJobsAreLast
<1>6. PastFires'
  <2>1. t \in made /\ trig[t].gen \in Nat /\ ~Cron(t)
    BY <1>2 DEF TrigTypeOK, IsTable, Trigger, Cron
  <2> QED BY <1>2, <1>4, <2>1 DEF PastFires, Cron
<1>7. OncePerWindow'
  <2>1. fire'[h].slot = NoSlot
    BY <1>2, <1>4 DEF HooksHaveNoSlot
  <2>2. \A i \in DOMAIN fire : i < h /\ ~(h < i)
    <3>1. \A i \in DOMAIN fire : i \in DOMAIN job /\ i \in Nat
      BY JobsAssumption DEF TrigTypeOK, JobsTypeOK, IsTable
    <3> QED BY <1>4, <3>1, JobsAssumption DEF NewJobsAreLast
  <2> QED BY <1>4, <2>1, <2>2 DEF OncePerWindow
<1>8. HooksHaveNoSlot' /\ HeldDue' /\ HeldByOne'
  BY <1>2 DEF HooksHaveNoSlot, HeldDue, HeldByOne
<1> QED BY <1>5, <1>6, <1>7, <1>8

\* A generation is enqueued last and fires nothing.
LEMMA GenerateWindow ==
    ASSUME WindowInv, NEW p \in Generations, NEW h \in Jobs, Generate(p, h)
    PROVE  WindowInv'
<1> USE DEF WindowInv
<1>1. Enqueued([k \in {h} |-> p]) /\ UNCHANGED trigVars
  BY DEF Generate
<1>2. /\ DOMAIN job' = DOMAIN job \cup {h}
      /\ \A k \in Jobs \ (DOMAIN job \cup {h}) : h < k
  BY <1>1 DEF Enqueued, Fresh
<1>3. NewJobsAreLast'
  BY <1>2 DEF NewJobsAreLast
<1>4. /\ OncePerWindow' /\ PastFires' /\ HooksHaveNoSlot'
      /\ HeldDue' /\ HeldByOne'
  BY <1>1 DEF trigVars, OncePerWindow, PastFires, Cron, HooksHaveNoSlot,
     HeldDue, HeldByOne
<1> QED BY <1>3, <1>4

\* Every step keeps it.
LEMMA WindowStep ==
    ASSUME TrigTypeOK, TrigTypeOK', WindowInv, [Next]_vars
    PROVE  WindowInv'
<1> USE DEF WindowInv
<1>1. CASE UserNext /\ job' = job /\ fire' = fire
  BY <1>1, UserWindow
<1>3. CASE UserNext
  <2>1. \/ job' = job /\ fire' = fire
        \/ \E t \in Trigs, j \in Jobs : WebhookFire(t, j)
        \/ \E q \in Generations, j \in Jobs : Generate(q, j)
    BY <1>3 DEF UserNext, CreateTrigger, SetEnabled, DeleteTrigger,
              EditRead, EditWrite, EditDrop, WebhookCall, WebhookOver, jobVars
  <2> QED BY <1>1, WebhookWindow, GenerateWindow, <1>3, <2>1
<1>4. ASSUME DOMAIN job' = DOMAIN job, UNCHANGED <<trig, made, fire>>,
             \A b \in Backends : tick'[b] = tick[b] \/ tick'[b] = NoTick
      PROVE  WindowInv'
  <2>1. OncePerWindow' /\ NewJobsAreLast' /\ HooksHaveNoSlot' /\ PastFires'
    BY <1>4 DEF OncePerWindow, NewJobsAreLast, HooksHaveNoSlot, PastFires, Cron
  <2> QED BY <1>4, <2>1, KeptHeld
<1>5. ASSUME NEW b \in Backends, JobsNext(b) \/ TickAbort(b) PROVE WindowInv'
  <2>1. UNCHANGED <<trig, made, fire>>
        /\ (tick' = tick \/ tick' = [tick EXCEPT ![b] = NoTick])
    BY <1>5 DEF JobsNext, TickAbort, Dispatch, trigVars
  <2>2. DOMAIN job' = DOMAIN job
    BY <1>5 DEF JobsNext, TickAbort, Dispatch, Claim, ClaimLost, Claimed, HandlerCommit,
           HandlerCommitLost, HandlerRaise, Finalize, FinalizeLost, Ended, Shutdown, Exit, Kill
  <2>3. \A a \in Backends : tick'[a] = tick[a] \/ tick'[a] = NoTick
    BY <2>1 DEF TrigTypeOK
  <2> QED BY <1>4, <2>1, <2>2, <2>3
<1>6. CASE TimePasses \/ UNCHANGED vars
  <2>1. DOMAIN job' = DOMAIN job /\ UNCHANGED <<trig, made, fire, tick>>
    BY <1>6 DEF TimePasses, vars, jobVars
  <2> QED BY <1>4, <2>1
<1> QED BY <1>3, <1>5, <1>6, ReadAndSweepWindow, CommitWindow DEF Next, SchedulerNext

\* A window of a schedule fires once, on time, and missed ones never in a
\* stampede (scheduler.py, tick and the sweep): for any number of backends.
THEOREM WindowFiresOnce == Spec => []OncePerWindow
<1>1. Init => WindowInv
  BY DEF Init, JobsInit, EmptyTable, NoTick, WindowInv, OncePerWindow, PastFires, HeldDue,
         HeldByOne, HooksHaveNoSlot, NewJobsAreLast
<1>2. TrigTypeOK /\ TrigTypeOK' /\ WindowInv /\ [Next]_vars => WindowInv'
  BY WindowStep
<1>3. WindowInv => OncePerWindow
  BY DEF WindowInv
<1> QED BY TrigTypeCorrect, <1>1, <1>2, <1>3, PTL DEF Spec
=============================================================================
