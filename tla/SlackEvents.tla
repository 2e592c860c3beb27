---------------------------- MODULE SlackEvents ----------------------------
(***************************************************************************)
(* The webhook that Slack calls with its events (backend/main.py): a row   *)
(* of slack_events keeps an event from being routed twice, and goes into   *)
(* the same transaction as the job that routes it.                         *)
(*                                                                         *)
(* The handler is a coroutine: it runs on the event loop of its process,   *)
(* blocking calls to the database and all, and its session is committed in *)
(* a thread that the loop starts once the handler has returned, before the *)
(* answer is sent.  The insert of a row that another transaction has       *)
(* inserted waits for that transaction, and the loop waits with it; the    *)
(* database aborts a transaction that is left idle (backend/db.py).        *)
(*                                                                         *)
(* Abstractions.  One process, signed and well-formed envelopes, app       *)
(* mentions; what the job does is left out.  Slack sends an event again    *)
(* when it got no answer in time, up to a number of times.                 *)
(*                                                                         *)
(* A definition marked "broken" is no part of the model: it is the one     *)
(* below it with a plausible bug, there to show that a property notices.   *)
(***************************************************************************)
EXTENDS Naturals, FiniteSets, Tables

CONSTANTS
    SlackIds,       \* events that Slack may send
    MaxDeliveries,  \* how often Slack sends one
    MaxSlackFaults  \* bound on crashes, lost answers and failed commits

ASSUME SlackAssumption == {MaxDeliveries, MaxSlackFaults} \subseteq Nat

VARIABLES
    slackEvent,     \* the committed rows of slack_events, with their outcome
    slackJobs,      \* how many jobs each event has
    installed,      \* whether the Slack workspace is connected
    delivery,       \* requests in the process
    sent,           \* deliveries of each event so far
    acked,          \* events that Slack got a 200 for
    slackFaults

slackVars == <<slackEvent, slackJobs, installed, delivery, sent, acked, slackFaults>>

\* sent        not handled yet
\* waiting     its insert waits for another transaction, and the loop for it
\* inserted    its handler returned, its transaction is open and idle
\* committing  a thread commits it
Stages == {"sent", "waiting", "inserted", "committing"}

RowOutcome == {"queued", "ignored"}

Delivery == [event : SlackIds, n : 1 .. MaxDeliveries, stage : Stages,
             outcome : RowOutcome \cup {"none"}]

SlackFault == slackFaults < MaxSlackFaults /\ slackFaults' = slackFaults + 1

LoopFree == \A d \in delivery : d.stage # "waiting"

Holds(d) == d.stage \in {"inserted", "committing"}

Blocked(e) == \E d \in delivery : d.event = e /\ Holds(d)

Becomes(d, stage, outcome) ==
    delivery' = (delivery \ {d}) \cup
                   {[d EXCEPT !.stage = stage, !.outcome = outcome]}

-----------------------------------------------------------------------------
\* Slack, which does not wait for one delivery before it sends another.
SlackSends(e) ==
    /\ e \notin acked /\ sent[e] < MaxDeliveries
    /\ sent' = [sent EXCEPT ![e] = @ + 1]
    /\ delivery' = delivery \cup {[event |-> e, n |-> sent[e] + 1,
                                   stage |-> "sent", outcome |-> "none"]}
    /\ UNCHANGED <<slackEvent, slackJobs, installed, acked, slackFaults>>

\* Connecting and revoking the workspace.
SlackInstall ==
    /\ installed' = ~installed
    /\ UNCHANGED <<slackEvent, slackJobs, delivery, sent, acked, slackFaults>>

\* 200 "duplicate": the answer arrives or not.
Duplicate(d) ==
    /\ d.event \in DOMAIN slackEvent
    /\ delivery' = delivery \ {d}
    /\ \/ acked' = acked \cup {d.event} /\ UNCHANGED slackFaults
       \/ UNCHANGED acked /\ SlackFault

\* The row, and its job if the workspace is connected.
InsertRow(d) ==
    /\ d.event \notin DOMAIN slackEvent /\ ~Blocked(d.event)
    /\ Becomes(d, "inserted", IF installed THEN "queued" ELSE "ignored")
    /\ UNCHANGED <<acked, slackFaults>>

\* The loop takes up a request, which may block it.
Handle(d) ==
    /\ d \in delivery /\ d.stage = "sent" /\ LoopFree
    /\ \/ Duplicate(d) \/ InsertRow(d)
       \/ /\ d.event \notin DOMAIN slackEvent /\ Blocked(d.event)
          /\ Becomes(d, "waiting", "none")
          /\ UNCHANGED <<acked, slackFaults>>
    /\ UNCHANGED <<slackEvent, slackJobs, installed, sent>>

\* The other transaction is over.
Woken(d) ==
    /\ d \in delivery /\ d.stage = "waiting" /\ ~Blocked(d.event)
    /\ Duplicate(d) \/ InsertRow(d)
    /\ UNCHANGED <<slackEvent, slackJobs, installed, sent>>

\* The loop hands the session to a thread.
StartCommit(d) ==
    /\ d \in delivery /\ d.stage = "inserted" /\ LoopFree
    /\ Becomes(d, "committing", d.outcome)
    /\ UNCHANGED <<slackEvent, slackJobs, installed, sent, acked, slackFaults>>

\* broken: the row is committed on its own, and the job afterwards.
Committed_RowFirst(d, there) ==
    /\ slackEvent' = Inserted(slackEvent, d.event, d.outcome)
    /\ slackJobs' = IF there /\ d.outcome = "queued"
                    THEN [slackJobs EXCEPT ![d.event] = @ + 1] ELSE slackJobs

\* Row and job are there together, or neither is.
Committed(d, there) ==
    IF there
    THEN /\ slackEvent' = Inserted(slackEvent, d.event, d.outcome)
         /\ slackJobs' = IF d.outcome = "queued"
                         THEN [slackJobs EXCEPT ![d.event] = @ + 1] ELSE slackJobs
    ELSE UNCHANGED <<slackEvent, slackJobs>>

\* Committed and answered; or the answer is lost; or the commit fails.
EndCommit(d) ==
    /\ d \in delivery /\ d.stage = "committing"
    /\ delivery' = delivery \ {d}
    /\ \/ Committed(d, TRUE) /\ acked' = acked \cup {d.event} /\ UNCHANGED slackFaults
       \/ \E there \in BOOLEAN : Committed(d, there) /\ UNCHANGED acked /\ SlackFault
    /\ UNCHANGED <<installed, sent>>

\* broken: nothing ends a transaction that is left idle.
IdleAbort_Never(d) == FALSE

\* idle_in_transaction_session_timeout, which is far longer than a loop that
\* runs needs to hand the session over.
IdleAbort(d) ==
    /\ d \in delivery /\ d.stage = "inserted" /\ ~LoopFree
    /\ delivery' = delivery \ {d}
    /\ UNCHANGED <<slackEvent, slackJobs, installed, sent, acked, slackFaults>>

\* The process dies, and its transactions with it.
SlackCrash ==
    /\ delivery # {}
    /\ SlackFault
    /\ delivery' = {}
    /\ UNCHANGED <<slackEvent, slackJobs, installed, sent, acked>>

-----------------------------------------------------------------------------
SlackInit ==
    /\ slackEvent = EmptyTable
    /\ slackJobs = [e \in SlackIds |-> 0]
    /\ installed = TRUE
    /\ delivery = {}
    /\ sent = [e \in SlackIds |-> 0]
    /\ acked = {}
    /\ slackFaults = 0

LoopNext == \E d \in delivery : Handle(d) \/ Woken(d) \/ StartCommit(d) \/ EndCommit(d)

DatabaseNext == \E d \in delivery : IdleAbort(d)

SlackNext ==
    \/ \E e \in SlackIds : SlackSends(e)
    \/ SlackInstall \/ SlackCrash \/ LoopNext \/ DatabaseNext

SlackSpec == SlackInit /\ [][SlackNext]_slackVars

\* The loop and its threads go on, and the database keeps its time.
SlackFairness == WF_slackVars(LoopNext) /\ WF_slackVars(DatabaseNext)

-----------------------------------------------------------------------------
\* Rows and requests keep their types; at most one transaction holds the row
\* of an event, none once it is committed, and at most one blocks the loop.
SlackTypeOK ==
    /\ IsTable(slackEvent, SlackIds, RowOutcome)
    /\ slackJobs \in [SlackIds -> Nat]
    /\ installed \in BOOLEAN
    /\ delivery \subseteq Delivery
    /\ sent \in [SlackIds -> 0 .. MaxDeliveries]
    /\ acked \subseteq SlackIds
    /\ slackFaults \in 0 .. MaxSlackFaults
    /\ Cardinality({d \in delivery : d.stage = "waiting"}) <= 1
    /\ \A e \in SlackIds :
          Cardinality({d \in delivery : d.event = e /\ Holds(d)})
              <= IF e \in DOMAIN slackEvent THEN 0 ELSE 1

\* An event that Slack was told is handled has been, and no event is routed
\* twice: whatever is delivered again, at once or after a crash, an event of a
\* connected workspace has exactly one job.
SlackOnce ==
    \A e \in SlackIds :
        /\ e \in acked => e \in DOMAIN slackEvent
        /\ slackJobs[e] = IF e \in DOMAIN slackEvent /\ slackEvent[e] = "queued"
                          THEN 1 ELSE 0

\* The process does not stay blocked: a delivery whose twin's transaction
\* only the loop could have committed gets it when the database gives up.
LoopComesBack == ~LoopFree ~> LoopFree

=============================================================================
