---------------------------- MODULE WorkerFleet ----------------------------
(***************************************************************************)
(* The workers that run bots (worker/runner.py), composed with the         *)
(* deployments table they claim work from.                                 *)
(*                                                                         *)
(* A worker's main loop claims a deployment and starts a supervisor thread *)
(* for it.  The thread builds the bundle, spawns the bot process and waits *)
(* for it; from the spawn on a second thread heartbeats the row and learns *)
(* from the answer that the user wants a stop.  Every call to the backend  *)
(* may fail, before or after the backend has acted on it, and the worker   *)
(* goes on either way.                                                     *)
(*                                                                         *)
(* Time.  Tick ages the claims and the threads.  What the code leaves to   *)
(* its surroundings is bounded by three constants, in ticks since a        *)
(* thread's last answered call: how long a build may take, how long        *)
(* heartbeats may go unanswered, how long a worker that was told to stop   *)
(* may outlive its closed HTTP client.                                     *)
(*                                                                         *)
(* Not modelled: log streaming, the order of the tail threads, and a call  *)
(* that the backend executes after its caller has given up on it.  A       *)
(* definition marked "broken" is no part of the model, as in Deployments.  *)
(***************************************************************************)
EXTENDS Deployments, FiniteSets

CONSTANTS
    Workers,        \* worker processes, each in a container of its own
    Threads,        \* supervisor threads, over all workers
    MaxConcurrent,  \* MAX_CONCURRENT of each worker
    BuildMax,       \* longest time from the "building" report to the spawn
    HeartbeatMax,   \* longest time without an answered heartbeat, or to end
    GraceMax,       \* longest survival of a worker whose client is closed
    MaxFaults       \* bound on kills, shutdowns and lost claim answers

ASSUME LimitsAssumption == {MaxConcurrent, BuildMax, HeartbeatMax, GraceMax} \subseteq Nat

VARIABLES
    wk,         \* what each worker process is doing
    sup,        \* supervisor threads started and not yet forgotten
    faults      \* faults so far

fleetVars == <<wk, sup, faults>>
vars == <<row, blobs, issued, tx, dels, wk, sup, faults>>

\* "closed": the loop has ended and main has closed the HTTP client, while
\* threads that are not daemons keep the process and its bots alive.
WorkerState == {"up", "stopping", "closed", "down"}

\* start     the "building" report comes next
\* build     fetching the bundle, unpacking, pip install
\* spawn     fetching the secrets, starting bot.py
\* spawned   the bot runs, the "running" report comes next
\* run       _supervise waits for the bot or for the user's stop
\* failing   a set-up step failed, the "failed" report comes next
\* cleanup   the final report was made
\* dead      the thread has ended, the main loop has not reaped it yet
Pc == {"start", "build", "spawn", "spawned", "run", "failing", "cleanup",
       "dead"}

Thread == [w : Workers, d : Deps, pc : Pc, blob : Deps \cup {NoBlob},
           bot : {"none", "alive", "clean", "crash"}, stop : BOOLEAN,
           tracked : BOOLEAN, t : Nat]

-----------------------------------------------------------------------------
Running(s) == s \in DOMAIN sup /\ sup[s].pc # "dead"
BotAlive(s) == s \in DOMAIN sup /\ sup[s].bot = "alive"

\* _run_loop's dict of threads by deployment id.
Active(w) == {s \in DOMAIN sup : sup[s].w = w /\ sup[s].tracked}
Reaped(w) == {s \in Active(w) : sup[s].pc = "dead"}

\* The worker's HTTP client still works.
Online(w) == wk[w] \in {"up", "stopping"}

Heartbeating(s) ==
    \/ sup[s].pc \in {"spawned", "run"}
    \/ sup[s].pc = "cleanup" /\ sup[s].bot \in {"clean", "crash"}

Limit(s) == IF ~Online(sup[s].w) THEN GraceMax
            ELSE IF sup[s].pc \in {"start", "build", "spawn"} THEN BuildMax
            ELSE HeartbeatMax

Goto(s, pc) == sup' = [sup EXCEPT ![s].pc = pc]

-----------------------------------------------------------------------------
(* The main loop. *)

\* Broken: one too many.
CanClaim_OffByOne(w) ==
    /\ wk[w] = "up"
    /\ Cardinality(Active(w) \ Reaped(w)) <= MaxConcurrent

CanClaim(w) ==
    /\ wk[w] = "up"
    /\ Cardinality(Active(w) \ Reaped(w)) < MaxConcurrent

\* Reap, claim, start a thread.  An older thread of the same deployment loses
\* its place in the dict.
ClaimStart(w, d, s) ==
    /\ CanClaim(w)
    /\ s \in Threads \ DOMAIN sup
    /\ Claim(d)
    /\ sup' = [r \in (DOMAIN sup \ Reaped(w)) \cup {s} |->
                 IF r = s
                 THEN [w |-> w, d |-> d, pc |-> "start", blob |-> row[d].blob,
                       bot |-> "none", stop |-> FALSE, tracked |-> TRUE,
                       t |-> 0]
                 ELSE IF sup[r].w = w /\ sup[r].d = d
                      THEN [sup[r] EXCEPT !.tracked = FALSE]
                      ELSE sup[r]]
    /\ UNCHANGED <<wk, faults>>

\* The backend commits the claim, the worker never sees the answer.
ClaimLost(w, d) ==
    /\ CanClaim(w)
    /\ faults < MaxFaults /\ faults' = faults + 1
    /\ Claim(d)
    /\ sup' = Removed(sup, Reaped(w))
    /\ UNCHANGED wk

\* Nothing to claim, no room, or the call failed.
LoopIdle(w) ==
    /\ wk[w] = "up" /\ Reaped(w) # {}
    /\ sup' = Removed(sup, Reaped(w))
    /\ UNCHANGED <<depVars, wk, faults>>

-----------------------------------------------------------------------------
(* A supervisor thread. *)

\* _safe_status: the row takes the status, or the call fails in some way and
\* the thread does not care.
Report(s, st, pc) ==
    \/ /\ Online(sup[s].w) /\ UpdateStatus(sup[s].d, st)
       /\ sup' = [sup EXCEPT ![s].pc = pc, ![s].t = 0]
       /\ UNCHANGED <<wk, faults>>
    \/ /\ Goto(s, pc)
       /\ UNCHANGED <<depVars, wk, faults>>

At(s, pc) == s \in DOMAIN sup /\ sup[s].pc = pc

ReportBuilding(s) == At(s, "start") /\ Report(s, "building", "build")

Build(s) ==
    /\ At(s, "build")
    /\ Online(sup[s].w) /\ sup[s].blob \in blobs
    /\ Goto(s, "spawn")
    /\ UNCHANGED <<depVars, wk, faults>>

\* No bundle, no answer, a bad archive, pip, no bot.py, no secrets.
SetupFails(s) ==
    /\ At(s, "build") \/ At(s, "spawn")
    /\ Goto(s, "failing")
    /\ UNCHANGED <<depVars, wk, faults>>

Spawn(s) ==
    /\ At(s, "spawn") /\ Online(sup[s].w)
    /\ sup' = [sup EXCEPT ![s].pc = "spawned", ![s].bot = "alive"]
    /\ UNCHANGED <<depVars, wk, faults>>

\* The bot is up but one of its threads does not start: the generic handler
\* reports the failure before the clean-up kills the bot.
SpawnBreaks(s) ==
    /\ At(s, "spawn") /\ Online(sup[s].w)
    /\ sup' = [sup EXCEPT ![s].pc = "failing", ![s].bot = "alive"]
    /\ UNCHANGED <<depVars, wk, faults>>

ReportRunning(s) == At(s, "spawned") /\ Report(s, "running", "run")

ReportSetupFailure(s) == At(s, "failing") /\ Report(s, "failed", "cleanup")

BotExits(s) ==
    /\ BotAlive(s) /\ sup[s].pc # "cleanup"
    /\ \E rc \in {"clean", "crash"} : sup' = [sup EXCEPT ![s].bot = rc]
    /\ UNCHANGED <<depVars, wk, faults>>

\* The user's stop has reached the thread.
Terminate(s) ==
    /\ At(s, "run") /\ BotAlive(s) /\ sup[s].stop
    /\ sup' = [sup EXCEPT ![s].bot = "crash"]
    /\ UNCHANGED <<depVars, wk, faults>>

\* Broken: the report of a stop goes out before the bot is terminated.
ReportExit_Early(s) ==
    /\ At(s, "run") /\ (~BotAlive(s) \/ sup[s].stop)
    /\ Report(s, IF sup[s].stop \/ sup[s].bot = "clean"
                 THEN "stopped" ELSE "failed", "cleanup")

ReportExit(s) ==
    /\ At(s, "run") /\ ~BotAlive(s)
    /\ Report(s, IF sup[s].stop \/ sup[s].bot = "clean"
                 THEN "stopped" ELSE "failed", "cleanup")

\* _cleanup ends the bot if it still runs, then the thread ends.  One that is
\* no longer in the dict is never looked at again.
Cleanup(s) ==
    /\ At(s, "cleanup")
    /\ sup' = IF sup[s].tracked
              THEN [sup EXCEPT ![s].pc = "dead", ![s].bot = "none",
                               ![s].stop = FALSE, ![s].blob = NoBlob,
                               ![s].t = 0]
              ELSE Removed(sup, {s})
    /\ UNCHANGED <<depVars, wk, faults>>

\* Broken: the thread looks for the stop in the wrong column.
HeartbeatOk_LooksAtStatus(s) ==
    /\ s \in DOMAIN sup /\ Heartbeating(s) /\ Online(sup[s].w)
    /\ Heartbeat(sup[s].d)
    /\ sup' = [sup EXCEPT ![s].t = 0,
                          ![s].stop = @ \/ row[sup[s].d].status = "stopped"]
    /\ UNCHANGED <<wk, faults>>

\* Broken: the answer is about any deployment of the agent.
HeartbeatOk_ByAgent(s) ==
    /\ s \in DOMAIN sup /\ Heartbeating(s) /\ Online(sup[s].w)
    /\ Heartbeat(sup[s].d)
    /\ sup' = [sup EXCEPT ![s].t = 0,
                 ![s].stop = \E e \in DOMAIN row :
                                /\ row[e].agent = row[sup[s].d].agent
                                /\ row[e].desired = "stopped"]
    /\ UNCHANGED <<wk, faults>>

\* The heartbeat thread.  An answer may be lost on its way back; a refusal
\* (404, or 409 on a terminal row) is logged and the thread beats on.
HeartbeatOk(s) ==
    /\ s \in DOMAIN sup /\ Heartbeating(s) /\ Online(sup[s].w)
    /\ Heartbeat(sup[s].d)
    /\ sup' = [sup EXCEPT ![s].t = 0,
                          ![s].stop = @ \/ row[sup[s].d].desired = "stopped"]
    /\ UNCHANGED <<wk, faults>>

HeartbeatAnswerLost(s) ==
    /\ s \in DOMAIN sup /\ Heartbeating(s) /\ Online(sup[s].w)
    /\ Heartbeat(sup[s].d)
    /\ UNCHANGED <<wk, sup, faults>>

HeartbeatRefused(s) ==
    /\ s \in DOMAIN sup /\ Heartbeating(s) /\ Online(sup[s].w)
    /\ \/ sup[s].d \notin DOMAIN row
       \/ Writable(sup[s].d) /\ row[sup[s].d].status \in TerminalStatus
    /\ sup' = [sup EXCEPT ![s].t = 0]
    /\ UNCHANGED <<depVars, wk, faults>>

-----------------------------------------------------------------------------
(* Worker processes. *)

\* SIGTERM: the loop ends after its turn; no supervisor is told.
Shutdown(w) ==
    /\ wk[w] = "up"
    /\ faults < MaxFaults /\ faults' = faults + 1
    /\ wk' = [wk EXCEPT ![w] = "stopping"]
    /\ UNCHANGED <<depVars, sup>>

\* Each thread was joined, or 15 s were spent waiting for it; main closes the
\* client and returns.
CloseClient(w) ==
    /\ wk[w] = "stopping"
    /\ wk' = [wk EXCEPT ![w] = "closed"]
    /\ UNCHANGED <<depVars, sup, faults>>

\* The container goes, and every thread and bot in it.
Gone(w) ==
    /\ wk' = [wk EXCEPT ![w] = "down"]
    /\ sup' = Removed(sup, {s \in DOMAIN sup : sup[s].w = w})
    /\ UNCHANGED depVars

\* The process exits once its last thread has, or its platform kills it.
Exit(w) == wk[w] = "closed" /\ Gone(w) /\ UNCHANGED faults

Kill(w) ==
    /\ Online(w)
    /\ faults < MaxFaults /\ faults' = faults + 1
    /\ Gone(w)

Restart(w) ==
    /\ wk[w] = "down"
    /\ wk' = [wk EXCEPT ![w] = "up"]
    /\ UNCHANGED <<depVars, sup, faults>>

TimePasses ==
    /\ Tick
    /\ \A s \in DOMAIN sup : Running(s) => sup[s].t < Limit(s)
    /\ sup' = [s \in DOMAIN sup |->
                  IF Running(s) THEN [sup[s] EXCEPT !.t = @ + 1] ELSE sup[s]]
    /\ UNCHANGED <<wk, faults>>

-----------------------------------------------------------------------------
Init ==
    /\ DepInit
    /\ wk = [w \in Workers |-> "up"]
    /\ sup = [s \in {} |-> 0]
    /\ faults = 0

ThreadNext(s) ==
    \/ ReportBuilding(s) \/ Build(s) \/ SetupFails(s)
    \/ Spawn(s) \/ SpawnBreaks(s) \/ ReportRunning(s) \/ ReportSetupFailure(s)
    \/ BotExits(s) \/ Terminate(s) \/ ReportExit(s) \/ Cleanup(s)
    \/ HeartbeatOk(s) \/ HeartbeatAnswerLost(s) \/ HeartbeatRefused(s)

WorkerNext(w) ==
    \/ \E d \in Deps, s \in Threads : ClaimStart(w, d, s)
    \/ \E d \in Deps : ClaimLost(w, d)
    \/ LoopIdle(w)
    \/ Shutdown(w) \/ CloseClient(w) \/ Exit(w) \/ Kill(w) \/ Restart(w)

Next ==
    \/ UserNext /\ UNCHANGED fleetVars
    \/ \E s \in Threads : ThreadNext(s)
    \/ \E w \in Workers : WorkerNext(w)
    \/ TimePasses

Spec == Init /\ [][Next]_vars

\* Threads and workers that are free to run do run, the heartbeat thread beats
\* until it gets an answer, the platform ends a process whose client is closed
\* and restarts it, time goes on.  Users do as they like, except that an open
\* transaction ends.
Fairness ==
    /\ \A s \in Threads :
          /\ WF_vars(ReportBuilding(s)) /\ WF_vars(Build(s) \/ SetupFails(s))
          /\ WF_vars(Spawn(s) \/ SpawnBreaks(s) \/ SetupFails(s))
          /\ WF_vars(ReportRunning(s)) /\ WF_vars(ReportSetupFailure(s))
          /\ WF_vars(Terminate(s)) /\ WF_vars(ReportExit(s))
          /\ WF_vars(Cleanup(s))
          /\ WF_vars(HeartbeatOk(s)) /\ WF_vars(HeartbeatRefused(s))
    /\ \A w \in Workers :
          /\ WF_vars(LoopIdle(w))
          /\ WF_vars(\E d \in Deps, s \in Threads : ClaimStart(w, d, s))
          /\ WF_vars(CloseClient(w)) /\ WF_vars(Exit(w)) /\ WF_vars(Restart(w))
    /\ \A d \in Deps : WF_vars(DeleteCommit(d) /\ UNCHANGED fleetVars)
    /\ WF_vars(TimePasses)

FairSpec == Spec /\ Fairness

-----------------------------------------------------------------------------
\* Columns, threads and workers keep their types.
FleetTypeOK ==
    /\ DepTypeOK
    /\ wk \in [Workers -> WorkerState]
    /\ IsTable(sup, Threads, Thread)
    /\ faults \in Nat

\* A deployment's bot is never alive twice, on one worker or on two, through
\* re-claims, crashes, shutdowns and lost calls: "re-claiming is safe because
\* the dead worker can't possibly be running a bot anymore".
AtMostOneBot ==
    \A r, s \in DOMAIN sup :
        BotAlive(r) /\ BotAlive(s) /\ sup[r].d = sup[s].d => r = s

StaysEnded(d) ==
    row[d].status \in TerminalStatus =>
        d \notin DOMAIN row' \/ row'[d].status = row[d].status

\* What the surroundings must grant: no thread goes unanswered for longer than
\* the claim TTL.
Timely == BuildMax <= TTL /\ HeartbeatMax <= TTL /\ GraceMax <= TTL

\* The status endpoint takes anything from anyone, so a supervisor that lost
\* its claim may undo what its successor reported last.  As long as every
\* supervisor is answered within the TTL, so that none has lost its claim, no
\* row leaves stopped or failed: not by a report that follows lost ones, by a
\* heartbeat that comes after the end, by a re-claim or by a user.
EndedForGood == [][Timely => \A d \in DOMAIN row : StaysEnded(d)]_vars

\* A row that says stopped has no bot; one that says failed has none but the
\* bot whose set-up broke half way, which its thread is about to kill.
EndedMeansDead ==
    \A s \in DOMAIN sup :
        BotAlive(s) /\ sup[s].d \in DOMAIN row =>
            /\ row[sup[s].d].status # "stopped"
            /\ row[sup[s].d].status = "failed" => sup[s].pc = "cleanup"

\* A worker never runs more bots than MAX_CONCURRENT: the dict it counts
\* knows every thread that is still running.
Capacity ==
    \A w \in Workers :
        Cardinality({s \in DOMAIN sup : BotAlive(s) /\ sup[s].w = w})
            <= MaxConcurrent

\* A bot is told to stop only if its row is retired or gone.
StopWasAsked ==
    \A s \in DOMAIN sup :
        sup[s].stop /\ sup[s].d \in DOMAIN row =>
            row[sup[s].d].desired = "stopped"

Held(d) == \E s \in DOMAIN sup : Running(s) /\ sup[s].d = d

\* Stopping or replacing a deployment ends its bot, whatever is lost on the
\* way, unless the row is deleted first.
StopObeyed ==
    \A d \in Deps, s \in Threads :
        (d \in DOMAIN row /\ row[d].desired = "stopped"
             /\ BotAlive(s) /\ sup[s].d = d)
            ~> (~BotAlive(s) \/ sup[s].d # d \/ d \notin DOMAIN row)

\* A wanted deployment that no supervisor holds (queued, or its worker died,
\* or the answer to the claim was lost, or the final report) is picked up.
WantedIsPickedUp ==
    \A d \in Deps :
        (d \in DOMAIN row /\ Wanted(d))
            ~> (Held(d) \/ d \notin DOMAIN row \/ ~Wanted(d))

-----------------------------------------------------------------------------
(* The inductive invariant behind the safety properties. *)

\* One thread at a time stands for a deployment.
OneHolder ==
    \A r, s \in DOMAIN sup :
        Running(r) /\ Running(s) /\ sup[r].d = sup[s].d => r = s

\* While a thread runs, the row of its deployment is claimed, ends only by
\* the thread's own last report (after the bot, if that said "stopped"), and
\* is no staler than the thread's last answered call, which is within the
\* claim TTL.
HolderKeepsClaim ==
    \A s \in DOMAIN sup : Running(s) =>
        /\ sup[s].t <= TTL
        /\ sup[s].d \in DOMAIN row =>
              /\ row[sup[s].d].claimed
              /\ row[sup[s].d].status \in TerminalStatus => sup[s].pc = "cleanup"
              /\ row[sup[s].d].status = "stopped" => sup[s].bot # "alive"
              /\ row[sup[s].d].status \in ActiveStatus =>
                     row[sup[s].d].age <= sup[s].t

\* A thread's deployment was inserted before, and a dead thread has no bot.
HolderWasInserted ==
    \A s \in DOMAIN sup :
        /\ sup[s].d \in issued \ DOMAIN tx
        /\ sup[s].pc = "dead" => sup[s].bot = "none"

\* What every step preserves when the surroundings are timely.
IInv == FleetTypeOK /\ OneHolder /\ HolderKeepsClaim /\ HolderWasInserted

-----------------------------------------------------------------------------
(* The abstract promise. *)

Phase(d) == IF d \in DOMAIN row /\ Wanted(d) THEN "wanted"
            ELSE IF d \notin issued \/ d \in DOMAIN tx THEN "new"
            ELSE "withdrawn"

Holders(d) == {s \in DOMAIN sup : Running(s) /\ sup[s].d = d}

Lease == INSTANCE DeploymentLease WITH
             phase <- [d \in Deps |-> Phase(d)],
             holders <- [d \in Deps |-> Holders(d)]

\* The table and its workers implement the lease: one supervisor at a time
\* holds a deployment, takes it only while wanted and free, and no withdrawn
\* deployment is wanted again.
KeepsLease == Lease!LeaseSpec

=============================================================================
