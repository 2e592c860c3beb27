# A formal model of Lightsei

Lightsei hosts small businesses' bots: users deploy bot bundles, a fleet of
workers builds and runs them, and users, triggers and the bots themselves
command bots through a queue. This directory holds TLA+ models of the parts in
which several processes meet over shared rows, the TLC runs that check them on
small instances, and TLAPS proofs for every instance.

Run `tlc -config X.cfg M.tla` for a run of the tables below and `tlapm M.tla`
for a module of proofs.

## The system

Postgres is the only shared state. The backend (`backend/main.py`, FastAPI) runs
each request in one READ COMMITTED transaction that commits when the request
ends (`backend/db.py`, `get_session`). Handlers that read rows, decide and then
write them by key do not lock what they read; the three claim endpoints use
`SELECT ... FOR UPDATE SKIP LOCKED`.

| Component | State | Operations | What makes it hard | What makes it correct |
|---|---|---|---|---|
| Deployments (`main.py`, `models.py`) | `deployments`, `deployment_blobs` | upload, push, team deploy, stop, redeploy, delete; claim, status, heartbeat from workers | transactions that meet over rows read without a lock; a bundle shared by rows; workers that report late | a row always has its bundle; a retired row stays retired; one wanted row per agent |
| Workers (`worker/runner.py`) | the `active` dict, one supervisor thread per deployment, a heartbeat thread and a bot process each | main loop, build, spawn, supervise, heartbeat, terminate, shutdown | crashes, lost calls, leases that expire, threads that outlive `main` | one bot per deployment; statuses that do not lie; a stop is obeyed; capacity |
| Commands (`main.py`, `sdk/lightsei/_commands.py`) | `commands`, `command_auto_approval_rules`, the poller's command | enqueue, approve, reject, cancel, claim, complete, set rules | check-then-write races, caps that are counted before the insert, bots that die | approval gates a claim; at most one run; bounded chains; approved commands are served |
| Triggers and scheduler (`scheduler.py`, `scheduled_run.py`, `main.py`) | `triggers.next_run_at`, `enabled` | create, edit, toggle, delete, webhook fire; tick and startup sweep | missed windows, an edit that read before a tick, two backends | once per window, never before it, stale ones skipped |
| Jobs (`jobs.py`) | `generation_jobs`, one runner per process | enqueue, claim, run in a thread, finalize, cancel at shutdown | three transactions with crashes and lost answers between them | a job acts once; each fault hides the outcome of one job at most |
| Chat (`main.py` threads, `sdk/lightsei/_chat.py`) | `threads`, `thread_messages`, team messages | post, route, claim a turn, chunk, complete, delete | a chunk is a read and a write; calls the bot gave up on come late; bots die | a whole reply is its stream; what ended stays ended |
| Widget inbox (`main.py`, `widget_orchestrator.py`) | conversations, messages, escalations | visitor posts, job, command, reply, escalation, take-over, resolve | everybody writes the status over what it has become | nobody is forgotten |
| Instances and rate limits (`main.py`, `limits.py`, `sdk/lightsei/_instance.py`) | `agent_instances`; timestamps per key | first and later heartbeats; `hit` | count, then insert; the clock is read before the lock | the limits hold but for what overlapped |
| SDK events (`sdk/lightsei/_client.py`, `main.py`, `cost.py`) | a bounded queue, a flush thread, the run's row | emit, flush, retry, shutdown; `POST /events` | drops when full, duplicates on retry, two first posts at once | stored once; the run costs what its events cost |
| Slack webhook (`main.py`, `db.py`) | `slack_events` | receive, deduplicate, enqueue | redelivery, and an insert that blocks the event loop | one job per event; the loop comes back |
| Feeders (`feeder.py`, `scheduler.py`) | commands with a source marker | pass, forced digest | overlapping and rolled-back passes | an item is fed once, a sweep once in its window |
| Codes (`main.py`) | magic links, invite codes, bonds | consume, redeem | read as unspent, written as spent, then an insert that may conflict | spent once, and only by a success |
| Accounts (`main.py`, `models.py`) | users, workspaces, memberships, sessions | sign-up, sign-in, create, switch, delete workspace or account | deletes cascade over what was read before | every workspace has an owner |
| Plan (`main.py`, `stripe_billing.py`) | `plan_tier`, `stripe_subscription_id` | checkout, webhook | events repeated, reordered, side by side | the plan is what Stripe said last |
| Spending (`billing_gate.py`, `cost.py`, `agent_generator.py`, `team_planner.py`, `eval_runner.py`, `eval_sampler.py`) | free credits, runs' costs, `run_evaluations` | gates, generations, plans, evaluations, the cost of posted events | a pool computed from an old row; calls that fail after others were paid for; evaluations side by side | the books agree with the bill; no verdict is asked for twice |
| Connectors (`main.py`, `connectors/google_oauth.py`) | installations, pending states | consent, callback, revoke, call with refresh | three writers of one row, two of which wait for Google | the tokens are those of the account shown |
| Notifications, validators' rules, personas, dashboard | - | - | data or I/O, little shared control | not modelled |

They interact through rows only: a deployment's worker injects the agent's name
and the bot's SDK then claims that agent's commands; a fired trigger becomes a
job and the job inserts a command; Slack mentions, widget messages and feeders become
jobs or commands too; events of a bot add to its run's cost and take from the
workspace's credits; the plan decides whether the gates stop a job;
`set_secret` redeploys assistants; deleting,
stopping or replacing a deployment reaches the worker in a heartbeat's answer.

## Modules

| Module | Models |
|---|---|
| `Deployments` | the table and every handler that writes it; trusts no worker |
| `WorkerFleet` | EXTENDS `Deployments`: workers, supervisors, bots, time and faults |
| `DeploymentLease` | the abstract promise of the two: who holds a deployment |
| `CommandQueue` | commands, rules, open requests, and the bots that run commands |
| `Tables` | a table is a function on the ids that exist: insertion and typing |
| `JobsRunner` | the jobs table and the runners; `AtMostOnce` is its abstract promise |
| `TriggerScheduler` | EXTENDS `JobsRunner`: triggers, ticks, edits, the clock |
| `ChatTurns`, `WidgetInbox` | conversations of users with agents, of visitors with bots and operators |
| `EventPipeline`, `SlackEvents`, `Feeders`, `Admission` | events from bots, events from Slack, the feeders' passes, the two limits |
| `Invites`, `Accounts`, `Billing`, `Spending`, `Connectors` | codes, accounts, the plan, what is spent, Google accounts |
| `MCDeployments`, `MCWorkerFleet`, `MCCommandQueue`, `MCTriggerScheduler` | constants and symmetry for TLC |
| `MCServices` | the services of the last three rows, each on a small instance |
| `MCProgress` | the scheduler or the Slack endpoint under fairness, one at a time, on small instances |
| `WorkerFleetProofs`, `CommandQueueProofs`, `JobsProofs` | theorems about the table, the fleet and the lease, the queue, the runners and triggers |
| `ConversationProofs`, `EventProofs`, `WorkspaceProofs` | theorems about the services, row by row of the three above |
| `ServicesProofs`, `SumLemmas` | the services next to each other; sums over finite sets |

`MCServices` composes nothing: the services share no state in the models, so a
behaviour picks one of them (`part`) and the others stay as they are initially.
`SpecOfEach` shows that a behaviour of `MCServices` is one of each service, so the
theorems about one hold there too.
Where they do meet, through jobs and commands, each module has its own view of
the other's promise: a row is handed out at most once (`RunsAtMostOnce`,
`OneHandler`).

### Deployments

`row` is the table, a function on the ids that exist; an id is the row's place
in `created_at` order. `blobs` names the stored bundles by the deployment that
stored them. `tx` and `dels` are the transactions that another can overtake:

- creating (upload, push, team deploy) opens, reads the active rows of the agent
  (`ReadActive`, the query of `_retire_active_deployments_for_agent`) and commits
  (`DeployCommit`): the rows read are retired by key and the new one inserted;
- deleting removes the row and asks whether its bundle has other users
  (`DeleteOpen`), then commits (`DeleteCommit`).

Handlers that only touch one row by key, and the claim, which locks, are single
actions: `Stop`, `Redeploy` (the button, and `set_secret` for assistants),
`Claim`, `UpdateStatus`, `Heartbeat`. `Tick` ages claims; an age stops just past
the TTL, for the code only ever asks whether it is older.

### WorkerFleet

`sup` holds the supervisor threads with the program counter of
`DeploymentSupervisor.run` (`start`, `build`, `spawn`, `spawned`, `run`,
`failing`, `cleanup`, `dead`), the bot's process, the stop flag its heartbeat
thread sets, whether the main loop's dict still knows it (a second claim of one
id replaces the entry), and the ticks since the backend last answered it. `wk` is
the process: `up`, `stopping` (the signal has come, the loop has not seen it),
`closed` (`main` has closed the HTTP client; threads and bots live on), `down`.
Every call may fail before or after the backend acted: `ClaimLost`,
`HeartbeatAnswerLost`, and a `Report` that goes on whether or not it arrived.
`Kill` ends a container with everything in it.

`DeploymentLease` forgets heartbeats, reports and clocks: a deployment is new,
wanted, then withdrawn once for good, and while it is wanted one supervisor at a
time takes it, only after the last let go. `KeepsLease` is the refinement.

### CommandQueue

`cmd` is the table, `tx` the dispatches that have read their depth and count and
not committed, `req` the approve, reject, cancel and complete requests that have
checked their row and not written it, `work` the command each bot runs. Users'
and triggers' inserts read nothing that matters, so they are one action. Two
fields are history and no columns: `parent`, the command whose handler dispatched
this one, and `hop`, how many dispatches led here. `TriggerEnqueue` leaves the
chain to the column's default, as `scheduled_run.py:142`,
`slack_orchestrator.py:305` and `widget_orchestrator.py:190` do. Bots name
themselves in `source_agent`, as the bundled ones do; a call that omits it counts
as a user's. Caps and zones can be edited at run time in the code and are
constants here.

### JobsRunner and TriggerScheduler

`job` is `generation_jobs`, `proc` the state of each backend process, `runner`
its `_runner_loop` with the thread it waits for: `idle`, `handler`, `returned`
and `raised` (the handler is over, `_finalize` comes next), `loose` (the task was
cancelled at shutdown, the thread goes on alone). Claim, handler and finalize
are three transactions; `ClaimLost` and its likes let each fail before or after
the database acted. `effects` counts the handler's commits. A handler that raises
is rolled back, but team plans and generations (`Generations`) commit what they
have spent in a `finally` while the exception goes on, so `HandlerRaise` may
count an effect for them. `Orphans` are rows that read running with nobody to
end them, `Belied` rows that read failed with their work there; the spend of a
failed generation is no such work, its code keeps it on purpose.

`trig` is the table. A tick takes the due rows with SKIP LOCKED, at the time it
read before, and commits the jobs with the new `next_run_at`; `tick` holds what
it locked. An edit reads its row without a lock and later writes the columns
that differ from what it read (`edit`). A webhook call checks that its trigger is
on (`WebhookCall`), awaits the body, and enqueues (`WebhookFire`), so one may
fire a trigger that was switched off meanwhile. `Generate` enqueues the jobs that
users ask for. The sweep of a restart fast-forwards what
is older than `Grace`, 24 hours in the code. `NextAt` is croniter, of which only
is known that the next slot is later. `gen` and `fire` are history.

### ChatTurns, WidgetInbox

`turn` is an assistant's message, `poller` the chat thread of each bot, `call` a
chunk or a completion on its way: it reads the turn, and writes by key what
changed. A bot that gave up on a call leaves it to `Nobody`, and it may still be
carried out. `stream` is history: what was posted for a turn, and whether the
bot gave up on any of it.

`message` follows a visitor's message through its request, its job, its command
and the bot's call (`hop`), with the status each of them read (`seen`); `desk` is
an operator's open request. The commit of each writes `wstatus` whatever it has
become.

### EventPipeline, SlackEvents, Feeders, Admission

`sender` has the two threads that drain the SDK's queue: the flush thread and the
one that calls flush or shutdown. `post` is a request in the server, with the run
row that it read; two first posts conflict on the row's key. `overlap` records
that two posts had read the run at once.

A Slack delivery goes `sent`, `waiting` (its insert waits for a twin's
transaction, and the event loop with it), `inserted` (its transaction is idle
until the loop starts the commit), `committing`. The database aborts the idle one
in the end, so the loop comes back.

`pass` is a tick's round of the feeders, with what it has fed since its last
commit (`new`), `fed` every command committed, `met` which passes were open at
once. A connector call that fails commits the session of the pass it is in, to
keep its own record (`main.py:9927`), and the feeder goes on without it
(`FeedFails`); an error in the database rolls back what came after the last
commit (`PassAbort`). `Admission` has the first heartbeat that counts
and then inserts, with who committed in between (`since`), and the sliding window
with threads that read the clock before they take the lock.

### Invites, Accounts, Billing, Spending, Connectors

`Invites`: a request reads the code, writes it spent (a write waits for an open
one and looks at nothing again), looks for the row the code is for, and inserts
it or conflicts; `lapped` is which requests overlapped. `Accounts`: `tab` is a
browser's request between its read and its commit; the cascades of the foreign
keys are part of the delete. `Billing`: Stripe's side is external, `hook` is a
delivery between its read and its commit; `disorder` and `rivals` record what
`PlanFollows` excepts. `Spending`: `work` is a generation, a plan, an evaluation
or a posted event, with what it has paid for and the workspace row its session
keeps; `billed`, `lost`, `owed` and `stale` are the bill, for comparison with
`ledger` and the pool. An evaluation is one transaction from before its first
call; `EvalRefused` is the unique index of `run_evaluations`. `Connectors`: a
callback deletes its pending state, trades the code and reads the active row; a
revocation and a refresh hold the row while Google answers; columns whose value
does not change are not written.

## Runs

| Run | Instance | Shows |
|---|---|---|
| `table` | 3 deployments of one agent | rows keep their bundle, retired rows stay retired, whatever workers report |
| `one_wanted` (violation) | the same | two redeploys of one row leave two wanted deployments |
| `fleet` | 1 deployment, 2 workers with room for 1, 3 threads, 2 faults, every wait within the TTL; or 2 deployments for one of the workers, no fault | one bot, honest statuses, ended for good, `MAX_CONCURRENT`, stops that were asked for, the inductive invariant, the lease |
| `fleet_live` | 1 deployment, 2 workers, 2 threads, 2 faults, fairness | a stop is obeyed; a wanted deployment is picked up |
| `slow_build` (violation) | builds may take 5 ticks, the TTL is 2 | two bots of one deployment |
| `queue` | 2 commands, 2 bots, 2 user requests at once, 1 fault, fairness | approval gates, at most one run, approved commands are served |
| `caps` | 3 commands, 2 overlapping dispatches, depth cap 2, daily cap 1 | hops within the depth cap; the daily cap overrun by the overlap at most |
| `siblings` (violation) | 3 commands, 1 bot | a handler's second dispatch is refused one hop down |
| `rejected_run` (violation) | 2 commands, 2 bots | a bot runs a command whose rejection answered ok |
| `schedule` | 2 backends, 1 trigger, 1 generation, 2 schedules, 2 jobs, clock to 3, grace 1, 1 edit, 1 fault | a window fires once, on time; a job acts once (`RunsAtMostOnce`, a refinement); a row hides its job's outcome only after a fault |
| `progress` | the same with 1 schedule and a clock to 2, or 2 Slack events delivered twice; fairness | the queue drains; a due trigger is fired; a blocked event loop comes back (`LoopComesBack`) |
| `services` | one service at a time, see below | what each service promises when its transactions, threads and calls overlap, fail or repeat |

| Property of `services` | Says |
|---|---|
| `StreamIntact`, `FinalStays` | a completed reply is its stream, no chunk twice; a late chunk reopens nothing |
| `StuckPerFault` | a turn stuck for ever, or a question nobody answers, took a fault of its own |
| `NobodyForgotten` | what the inbox shows as escalated can be resolved; an unanswered message is with an operator |
| `EventsStored` | an event is stored once but for a timeout, none is lost without a fault, the cost is right but for overlapping posts |
| `SlackOnce` | one job per event |
| `FedOnce` | an item once, a sweep once per window, but for passes that overlapped |
| `LimitsHold` | instances and rate within their limits, but for what overlapped |
| `CodesSpentOnce` | a code twice only by overlapping requests, spent only by a success |
| `NoOrphans` | a workspace has an owner, with two named exceptions |
| `PlanFollows` | the plan is what Stripe said last, if in order and of one subscription |
| `BooksBalance` | every paid call is recorded, about to be, or of a kind that is lost; the pool agrees with the books |
| `JudgedOnce` | no run is judged again by a later evaluation |
| `ConnectedAs` | an active connector's tokens are those of the account it shows, but for what overlapped |

The exceptions are as much the result as the rule: each is a history variable
that is true only of the overlap, disorder or fault it is named for, and TLC finds
the property violated without it.

The bounds. Three deployments let two transactions meet over a row and a third
share its bundle. One deployment suffices for hand-over, because supervisors of
different deployments touch only the worker's dict; two compete for that dict in
the same run, under a constraint (`MCTwoShareOneWorker`) that keeps the second one
out of instances with faults, with threads on both workers or with a team's bot. Three threads are a holder, its successor and one more claim. Two faults
are enough to lose an answer and then the worker. Three commands are a root and
two siblings, or a root, a hop and a second hop; with both caps below three, the
interesting refusals happen. `MaxFaults`, `MaxRequests`, `Fanout` and the sets of
ids bound the instance and nothing else (so do `MaxClock`, `MaxInstant`,
`MaxTime`, `MaxSettings`, `MaxEvents`); `MaxOpen` is real, the database pool of
`db.py` (20 + 40 connections). Runs whose ids can be used up with nothing left
to do say `CHECK_DEADLOCK FALSE`; the others check deadlock.

In `schedule` a clock to 3 with grace 1 has a slot that is due, one that is
stale and one after; two backends overlap as they do during a release (they are
interchangeable, so the run uses symmetry: 579,000 distinct states). Its liveness
is in `progress`, without symmetry, which is not sound for it,
and with one schedule and a clock to 2, where a slot comes due, is fired, and the
next one comes due; that what went stale is not fired is the other run's. In
`services` each instance is the smallest in which its actors meet in every way
that matters: two bots and a team question of two turns, with two faults (a late
call, and a death); two messages and an operator in one conversation; three
events against a queue of 2, in batches of 2; two Slack events delivered twice;
three passes of two backends across a window; two instances for one place, and a
window of 2 in a clock of 4; two requests for two codes; two tabs of one person,
with a second user for the account made anew; two checkouts, three events, two
deliveries side by side; a plan job, a post and two evaluations for a pool of 2,
and two evaluations of two runs without the rest (all at once adds states, not
cases: evaluations meet generations only in the pool); two consents for two
Google accounts with a revocation and a call. In all, 719,000 distinct states.

Fairness. Supervisor threads, the main loop and requests run when they can:
they are plain threads with finite timeouts. A heartbeat gets through in the end
(it is retried every 30 s for ever). Railway restarts a worker that ended. Bots
poll for ever and handlers return. Runners and ticks loop for ever in
each backend, and Railway restarts it (`WF` on `RunnerStep` and `TickStep` of each
backend). `SlackFairness`: the event loop and its threads run, and the database
ends an idle transaction (`db.py`, `idle_in_transaction_session_timeout`). Nothing
is assumed of users, of faults, or of a build's outcome. `ApprovedIsServed` is
claimed only where a bot of the agent
runs, and a command that passes its 24 hours is given up, as in the code.

## What is proved

For all constants, with the assumptions named in the modules:

- `WorkerFleetProofs`, of the table: `DepTypeOK`, `BundlePresent`, `RetiredForGood`.
  The last two hold whatever workers send. `BundlePresent` is not inductive: a purge
  that was decided could meet a redeploy that hands the bundle on. `BundleInv` adds
  that a bundle about to be purged has no user but a locked row, and that open
  transactions' bundles are new.
- `WorkerFleetProofs`, of the workers, assuming `Timely`: `IInv`, `AtMostOneBot`,
  `EndedMeansDead`, `KeepsLease`, `Capacity`, `StopWasAsked`; and `EndedForGood`,
  which has the condition in it: a step under `Timely` takes no row out of stopped
  or failed. The condition is part of it: the status endpoint (`main.py:6605`) takes any
  status from anyone, so a supervisor that lost its claim may undo its successor's
  last report. `AtMostOneBot` says nothing of claims, so it
  is not inductive; `IInv` says that a running thread is its deployment's only
  one, that its row is claimed, is no staler than the thread's own last answer,
  and ends only with the thread's last report. A claim needs a row that is
  unclaimed or older than the TTL, so it finds no holder.
  `CapacityCorrect` rests on it too: only a claim starts a thread, and it finds no
  running thread of its deployment, so none drops out of the dict that the worker
  counts. `StopWasAskedCorrect`: the row that said so was inserted before, stays
  retired, and its id does not come back. `KeepsLease` is the refinement: each
  action is shown to submit, withdraw, acquire, release or stutter, and `IInv` is
  what makes a claim an acquire.
- `CommandQueueProofs`, with no such condition: `CmdTypeOK`,
  `ClaimedIsApproved`, `OneHandler`, `HopsBounded`, `CapOverrun`. Late writes are
  what makes the gate more than its guards: `GateInv` adds that a request that
  found its command ended still finds it ended, for a rejection that read
  `cancelled` writes no status. `HopsInv` extends the depth bound to open
  dispatches. `CapInv` counts an agent's recent rows and its open dispatches
  together: whoever opens one has read fewer than the cap, and there are at most
  `MaxOpen` of them.
- `JobsProofs`: `TrigTypeOK`, `OneJobPerFault`, `OncePerWindow`, and the refinement
  `RunsAtMostOnce`, for any number of backends, jobs, triggers and schedules. A
  job acts once (`JobsActOnce`) because of `Matches`: where a runner is says what
  its job's row reads and how often it has acted, and `RunnerInv` lets one runner
  have it. `DoubtInv` charges each orphaned or belied job to a fault; a raising
  handler adds none, as what a failed generation has committed is its spend alone. `WindowInv`
  holds the schedule together: fires of one generation lie before `next_run_at`
  (`PastFires`), a row that a tick holds is due at the tick's time and held by no
  other (`HeldDue`, `HeldByOne`), webhooks have no slot, and jobs are numbered in
  the order of their ticks.
- `ConversationProofs`, of the chat: `StreamIntact`, `StuckPerFault`, `FinalStays`.
  None of them mentions calls under way, and those are what could break them.
  `CallOK` says what each call of a bot carries and which row it may still change,
  `PairOK` that two calls of one turn are no duplicates, `PollerOK` where a bot is
  when it has one out, `TurnOK` that a row's text is as long as its stream so far.
  Turns nobody will end and questions nobody will answer only grow by one, and
  only in a step that counts a fault.
- `ConversationProofs`, of the widget: `NobodyForgotten` is inductive once `MessageOK`
  and `DeskOK` say what a bot that has read a conversation, and an operator who has
  read one, may still write over it.
- `EventProofs`, of the pipeline: `EventsStored`. `PipeBase` says where an event can
  be: in the queue, in a thread's batch, in a request. `FewCopies` counts, of each
  event, its rows, its requests and its places in the client, and bounds what there
  is beyond one, summed over the events, by the timeouts. `RunOK` makes the run's
  cost the sum over its rows while no two posts cross, and `NoLoss` follows an
  accepted event until it is stored. The proof found an assumption that TLC's
  bounds had hidden: with `MaxRetries` of 1 an event is lost without any
  fault, for the loser of two first posts of a run is answered 500 and not tried
  again. `EventsStored` now says so; the SDK's default is 3 (`_client.py:17`).
- `EventProofs`, of the rest: `SlackOnce` (`OneHolder`: whoever holds an event's row is
  alone and the row is not there yet), `FedOnce` (`NumberedMeets`: a pass has met
  every later one that opened before it closed; a commit half way moves what was
  fed to `fed`, and the pass goes on with nothing pending), `CodesSpentOnce` (`InvitesInv`: of
  the requests for one code, those past the write of another have met it) and
  `LimitsHold`: a heartbeat that is to be inserted found room (`RoomFound`), each
  unregistered instance has a lost heartbeat of its own, and what a bucket dropped
  is older than the window (`Suffix`, `DroppedFor`), so it misses no hit that counts.
- `WorkspaceProofs`: `NoOrphans` (`AccountsInv`: a request that deletes an account has
  read all its workspaces but those made since, and a session's request is for
  a workspace of its own user), `PlanFollows` (`BillingInv`: an event tells how the subscriptions
  stood when it was made, and in order there is one delivery at a time, which has
  read the plan as it is), `BooksBalance` (`BooksInv`: what is billed is what is
  recorded, lost, or still held by one of the jobs, posts and evaluations, as a sum
  over them; `PoolInv`: a row kept in a session is no poorer than the pool
  ought to be), `JudgedOnce` (`JudgedInv`: an evaluation that succeeded has its rows
  in the table and shares no run with what a later one has left to judge) and
  `ConnectedAs` (`ConnInv`: one active row at most, and whoever has read it has its
  account and tokens unless another request crossed over it, `Excused`).
- `ServicesProofs`: `ServicesTypeOK`, from `SpecOfEach` and the type theorems of the
  three modules. Types here are more than domains: one transaction holds a
  Slack event's row, one writes a code, one connector is active.
- `SumLemmas`: a sum over a finite set is a number, is unique, changes by as much as
  one of its terms (`TotalChanges`) and grows with them. The provers cannot
  instantiate the library's induction theorems, so induction is over a set of
  numbers and a set of subsets, from the least element of a set.

`Timely` says that no thread goes without an answer for longer than the claim
TTL (120 s): no build, no run of lost heartbeats (one every 30 s), no survival
after the client was closed. The code does not grant it: `pip install` alone may
take 300 s and nothing heartbeats before the spawn. The theorems say that this is
all that stands between the code and its promise; `slow_build` shows the promise
broken without it, and then a supervisor that lost its claim may also overwrite the
row: the status endpoint takes any status from anyone (`main.py:6605`).

Assumptions: the theorems use the named `ASSUME`s of the modules, which bound
constants by their types, `CronAssumption` (the next slot is later) and
`TrigsAssumption` (generations are no triggers). What is counted or summed is finite (events, instances, jobs,
posts and evaluations, the requests about connectors), and the callbacks,
revocations and calls of `Connectors` are different requests. TLC evaluates them in
the runs.

Only model-checked: what needs fairness, that is `StopObeyed`, `WantedIsPickedUp`,
`ApprovedIsServed`, `QueueDrains`, `DueIsFired` and `LoopComesBack`, for the provers
have no backend for `ENABLED`; and the counterexamples of the next section. Every
other property of a passing run is a theorem.

## Disagreements between the code and its documentation

1. `slow_build`: re-claiming is called safe because a stale worker is dead
   (`main.py:6547`); a build outlasts the TTL.
2. `one_wanted`: `_redeploy_from` stops only the row it was given
   (`main.py:6411`), unlike the helper that keeps redeploys from accumulating
   orphans (`main.py:5082`). Overlapping uploads do the same.
3. `siblings`: `dispatch_depth` is documented as hops from the root
   (`models.py:988`); it is one more than the deepest command of the chain, so
   siblings use it up, and so do strangers in the shared default chain of
   triggers, Slack mentions and widget turns.
4. `rejected_run`: reject is documented as terminal (`TASKS.md:2084`,
   `main.py:12070`); it reads and writes without a lock.

Seen and not made into runs, in the order of the modules:

- Fleet: `worker_heartbeat` expects the worker to break its loop on a 409 and the
  worker only logs it (`runner.py:386`); `worker/README.md` says a claim is stale
  after 90 s, the code says 120 s; a bot whose row was deleted runs on; a row
  stopped while queued never reaches a terminal status; the heartbeat answers 409
  on a terminal row (`main.py:6627`), the status endpoint beside it takes any
  transition (`main.py:6605`).
- Triggers: a webhook call whose body is slow fires a trigger that was switched off
  meanwhile (`main.py:1855`); one that is enabled when stale is not fast-forwarded until the next
  restart sweeps; an edit that read before a tick may leave `next_run_at` off the
  new schedule; an older run's status overwrites a newer fire's.
- Chat: a turn whose bot died stays in progress; the order of messages created at
  the same instant is open.
- Widget: a bot's reply lands in a conversation an operator owns (`main.py:11525`);
  a stale take-over or escalation overwrites `resolved`, and a resolved
  conversation may keep an open escalation; the poll's cursor (`main.py:10518`) can
  pass a message that committed late.
- Events: two posts that read the run at once lose the cost of one
  (`cost.py:256`); two first posts of a run at once have one answered 500, so a
  client set to `max_retries=1` loses that event. An instance whose first heartbeat failed runs unregistered.
- Slack: a duplicate blocks the event loop, and with it the process, for up to the
  30 s of the idle timeout.
- Feeders: "processed once, ever" is not so for overlapping passes; a database
  error in one feeder rolls back what the others of the pass fed, but only since
  the last failed connector call, whose record commits the session.
- Codes: "the loser of a parallel redeem gets a 422" (`main.py:7681`) and "a parallel
  POST gets rejected" (`main.py:7077`, `7282`) are not so: the second write waits
  and then succeeds.
- Accounts: deleting the workspace of the sign-up deletes the user and all their
  sessions by cascade (`users.workspace_id`), though the handler goes on to switch
  to another (`main.py:2348`); a workspace made while its account is being deleted
  keeps no owner.
- Plan: a late or repeated event is no no-op as `main.py:8520` has it; the deletion
  of an old subscription downgrades a newer one; two open checkouts make two
  subscriptions.
- Spending: the monthly budget stops nothing. `generate_agent`, `plan_team`
  (`main.py:12505`, `12581`) and `eval_runner.py:117` read `total_usd`, a key that
  `workspace_cost_mtd` never returns (`cost.py:121`; it is `mtd_usd`), against the
  comment that generation "shouldn't bypass the budget gate" (`main.py:12499`);
  `test_eval_runner.py:171` stubs the key and so hides it. The models translate it
  as it is (`Used`). An evaluation keeps the workspace row from before its first
  call and may write an exhausted pool back full; answers without a verdict are
  recorded nowhere; evaluations side by side pay twice and the second loses its
  rows; a judge that answers under another name than asked defeats the sample's
  exclusion.
- Connectors: a refresh writes the old account's tokens over a reinstallation; two
  reinstallations at once mix account and tokens; "a parallel callback can't
  double-consume" (`main.py:9112`) holds only because Google takes a code once.

## Not modelled

Log lines and their cap; payloads; a call that the backend executes after its
caller gave up (modelled for chat and events, not for the fleet); a claim that
skips a row because a write to it is in flight (the next poll finds it); a
redelivered push, which joins the chain of the first delivery; a bot that
survives `kill`; several workspaces, which never meet.

Personas, incident reports, SEO autopublishing and push subscriptions are bot
programs or single-row handlers. Notifications are one attempt per channel after
the response. Slack's OAuth and posting, the GitHub client, validators' rules and
prompts are data or I/O. Passwords, API keys, expiry and the password reset check
one row and write it. Dashboard and iOS app are views; with the personas and
`main.py`'s listing and formatting they are most of the source, which is why the
lines the models stand for are a small share of it.

## Plan

1. Compose the jobs runner with the services that enqueue: a Slack mention or a
   widget message up to its command, with the orphans of `JobsRunner` as losses.
2. Wider: notifications and push subscriptions; the password reset; the incident
   report; the OAuth installs of Slack and GitHub.
3. `StopObeyed` with two deployments, and the trigger's last status.
4. A theorem of the kind of `FewCopies` for the loss side of the pipeline: how many
   events each fault can cost.
