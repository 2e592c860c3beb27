--------------------------- MODULE EventPipeline ---------------------------
(***************************************************************************)
(* A run's events on their way from a bot to the database: the queue, the  *)
(* flush thread, flush and shutdown of the SDK (sdk/lightsei/_client.py),  *)
(* and POST /events (backend/main.py), which stores an event and adds what *)
(* it cost to the run (backend/cost.py).                                   *)
(*                                                                         *)
(* A post reads the run's row, or finds that there is none, and writes it  *)
(* when it commits; two first posts at once conflict on its key, and one   *)
(* of them fails.  A client that gave up waiting does not stop its post.   *)
(*                                                                         *)
(* Abstractions.  One run; an event costs one unit or nothing.  The back-  *)
(* off between attempts is left out; the deadlines of join and flush, a    *)
(* refused connection and a rolled-back transaction are faults.  Whether   *)
(* validators reject an event, 422, is a constant.  Validation rows,       *)
(* notifications and the trigger's last status are left out.               *)
(*                                                                         *)
(* A definition marked "broken" is no part of the model: it is the one     *)
(* below it with a plausible bug, there to show that a property notices.   *)
(***************************************************************************)
EXTENDS Naturals, FiniteSets, Sequences, FiniteSetsExt, Tables

CONSTANTS
    Events,         \* events the bot may emit
    LLMEvents,      \* those that cost something
    Rejected,       \* those that a blocking validator refuses
    MaxQueue,       \* _MAX_QUEUE_SIZE
    BatchSize,
    MaxRetries,     \* attempts at an event
    MaxPipeFaults   \* bound on failures, timeouts and passed deadlines

ASSUME PipeAssumption ==
    /\ IsFiniteSet(Events) /\ LLMEvents \subseteq Events /\ Rejected \subseteq Events
    /\ {MaxQueue, BatchSize, MaxRetries} \subseteq Nat \ {0}
    /\ MaxPipeFaults \in Nat

VARIABLES
    queue,          \* what the bot emitted and nobody has drained
    sender,         \* the flush thread, and the thread that flushes
    stop,           \* _stop_event
    post,           \* requests in the server
    run,            \* the run's row
    rows,           \* how many rows of each event there are
    accepted,       \* history: events queued before the stop
    overlap,        \* history: two posts had read the run at once
    pipeFaults

pipeVars == <<queue, sender, stop, post, run, rows, accepted, overlap, pipeFaults>>

Senders == {"loop", "main"}
Gone == "gone"          \* whose a post is once its sender stopped waiting

Absent == [there |-> FALSE, cost |-> 0]
Row(c) == [there |-> TRUE, cost |-> c]

\* loop: ticking, then triggered and last after the stop, then done
\* main: free, flushing, joining and closing to shut down, closed
Phases == {"ticking", "triggered", "last", "done",
           "free", "flushing", "joining", "closing", "closed"}

Phase(s) == sender[s].phase
Resting(s) == sender[s].batch = <<>>

PipeFault == pipeFaults < MaxPipeFaults /\ pipeFaults' = pipeFaults + 1

Smaller(a, b) == IF a <= b THEN a ELSE b

-----------------------------------------------------------------------------
(* The bot. *)

\* A full queue drops the event.  Who emits after the stop is on his own.
Emit(e) ==
    /\ e \notin accepted /\ ~stop
    /\ Len(queue) < MaxQueue
    /\ queue' = Append(queue, e)
    /\ accepted' = accepted \cup {e}
    /\ UNCHANGED <<sender, stop, post, run, rows, overlap, pipeFaults>>

\* The sender enters a phase with a batch that it drained.
Drains(s, phase) ==
    LET n == Smaller(BatchSize, Len(queue))
    IN  /\ Resting(s)
        /\ queue' = SubSeq(queue, n + 1, Len(queue))
        /\ sender' = [sender EXCEPT ![s] = [phase |-> phase, tries |-> 0,
                         out |-> FALSE, batch |-> SubSeq(queue, 1, n)]]
        /\ UNCHANGED <<stop, post, run, rows, accepted, overlap, pipeFaults>>

\* The sender only changes its phase.
MovesTo(s, phase) ==
    /\ Resting(s)
    /\ sender' = [sender EXCEPT ![s].phase = phase]
    /\ UNCHANGED <<queue, post, run, rows, accepted, overlap>>

LoopTick == Phase("loop") = "ticking" /\ ~stop /\ Drains("loop", "ticking")

\* The event interrupts the wait: one batch, and one more.
LoopStop ==
    \/ Phase("loop") = "ticking" /\ stop /\ Drains("loop", "triggered")
    \/ Phase("loop") = "triggered" /\ Drains("loop", "last")

\* A loop that was sending when the stop came ends with that batch.
LoopEnd ==
    /\ Phase("loop") = "last" \/ (Phase("loop") = "ticking" /\ stop)
    /\ MovesTo("loop", "done") /\ UNCHANGED <<stop, pipeFaults>>

Flush ==
    /\ Phase("main") = "free"
    /\ MovesTo("main", "flushing") /\ UNCHANGED <<stop, pipeFaults>>

FlushBatch ==
    /\ Phase("main") \in {"flushing", "closing"} /\ queue # <<>>
    /\ Drains("main", Phase("main"))

\* flush returns when the queue is empty, or at its deadline.
FlushEnd ==
    /\ \/ queue = <<>> /\ UNCHANGED pipeFaults
       \/ queue # <<>> /\ PipeFault
    /\ \/ Phase("main") = "flushing" /\ MovesTo("main", "free")
       \/ \* closing the client ends the process, a loop that still sends too
          /\ Phase("main") = "closing"
          /\ Resting("main")
          /\ sender' = [sender EXCEPT !["main"].phase = "closed",
                !["loop"] = [phase |-> "done", batch |-> <<>>, tries |-> 0,
                             out |-> FALSE]]
          /\ post' = {IF p.by = "loop" THEN [p EXCEPT !.by = Gone] ELSE p : p \in post}
          /\ UNCHANGED <<queue, run, rows, accepted, overlap>>
    /\ UNCHANGED stop

Stops(phase) ==
    /\ Phase("main") = "free"
    /\ MovesTo("main", phase)
    /\ stop' = TRUE
    /\ UNCHANGED pipeFaults

\* broken: what the flush thread leaves is not flushed.
CloseClient_NoFlush == Stops("closed")

CloseClient == Stops("joining")

Join ==
    /\ Phase("main") = "joining"
    /\ \/ Phase("loop") = "done" /\ UNCHANGED pipeFaults
       \/ Phase("loop") # "done" /\ PipeFault
    /\ MovesTo("main", "closing") /\ UNCHANGED stop

-----------------------------------------------------------------------------
(* _post_event. *)

Send(s) ==
    /\ ~Resting(s) /\ ~sender[s].out
    /\ sender' = [sender EXCEPT ![s].out = TRUE]
    /\ post' = post \cup {[by |-> s, event |-> Head(sender[s].batch),
                           tries |-> sender[s].tries, read |-> FALSE,
                           seen |-> Absent]}
    /\ UNCHANGED <<queue, stop, run, rows, accepted, overlap, pipeFaults>>

NextEvent(x) == [x EXCEPT !.batch = Tail(@), !.tries = 0, !.out = FALSE]

Retried(x) == IF x.tries + 1 < MaxRetries
              THEN [x EXCEPT !.tries = @ + 1, !.out = FALSE]
              ELSE NextEvent(x)

\* 2xx and 422 end the attempts.
Answer(p) ==
    /\ post' = post \ {p}
    /\ sender' = IF p.by = Gone THEN sender
                 ELSE [sender EXCEPT ![p.by] = NextEvent(@)]

ErrorAnswer(p) ==
    /\ post' = post \ {p}
    /\ sender' = IF p.by = Gone THEN sender
                 ELSE [sender EXCEPT ![p.by] = Retried(@)]

\* The client stops waiting.
Timeout(p) ==
    /\ p \in post /\ p.by # Gone
    /\ PipeFault
    /\ post' = (post \ {p}) \cup {[p EXCEPT !.by = Gone]}
    /\ sender' = [sender EXCEPT ![p.by] = Retried(@)]
    /\ UNCHANGED <<queue, stop, run, rows, accepted, overlap>>

-----------------------------------------------------------------------------
(* POST /events. *)

Reject(p) ==
    /\ p \in post /\ p.event \in Rejected
    /\ Answer(p)
    /\ UNCHANGED <<queue, stop, run, rows, accepted, overlap, pipeFaults>>

PostRead(p) ==
    /\ p \in post /\ ~p.read /\ p.event \notin Rejected
    /\ post' = (post \ {p}) \cup {[p EXCEPT !.read = TRUE, !.seen = run]}
    /\ overlap' = (overlap \/ \E q \in post : q.read)
    /\ UNCHANGED <<queue, sender, stop, run, rows, accepted, pipeFaults>>

Cost(e) == IF e \in LLMEvents THEN 1 ELSE 0

\* A post writes the cost only if it has any, on top of what it read.
Charged(p) ==
    IF ~p.seen.there THEN Row(Cost(p.event))
    ELSE IF Cost(p.event) = 0 THEN run ELSE Row(p.seen.cost + Cost(p.event))

PostCommit(p) ==
    /\ p \in post /\ p.read
    /\ p.seen.there \/ ~run.there
    /\ run' = Charged(p)
    /\ rows' = [rows EXCEPT ![p.event] = @ + 1]
    /\ Answer(p)
    /\ UNCHANGED <<queue, stop, accepted, overlap, pipeFaults>>

\* Somebody else inserted the run: 500.
PostConflict(p) ==
    /\ p \in post /\ p.read /\ ~p.seen.there /\ run.there
    /\ ErrorAnswer(p)
    /\ UNCHANGED <<queue, stop, run, rows, accepted, overlap, pipeFaults>>

PostFails(p) ==
    /\ p \in post
    /\ PipeFault
    /\ ErrorAnswer(p)
    /\ UNCHANGED <<queue, stop, run, rows, accepted, overlap>>

-----------------------------------------------------------------------------
PipeInit ==
    /\ queue = <<>>
    /\ sender = [s \in Senders |-> [phase |-> IF s = "loop" THEN "ticking" ELSE "free",
                                    batch |-> <<>>, tries |-> 0, out |-> FALSE]]
    /\ stop = FALSE
    /\ post = {}
    /\ run = Absent
    /\ rows = [e \in Events |-> 0]
    /\ accepted = {}
    /\ overlap = FALSE
    /\ pipeFaults = 0

PipeNext ==
    \/ \E e \in Events : Emit(e)
    \/ LoopTick \/ LoopStop \/ LoopEnd
    \/ Flush \/ FlushBatch \/ FlushEnd \/ CloseClient \/ Join
    \/ \E s \in Senders : Send(s)
    \/ \E p \in post : \/ Timeout(p) \/ Reject(p) \/ PostRead(p) \/ PostCommit(p)
                       \/ PostConflict(p) \/ PostFails(p)

PipeSpec == PipeInit /\ [][PipeNext]_pipeVars

-----------------------------------------------------------------------------
Post == [by : Senders \cup {Gone}, event : Events, tries : 0 .. MaxRetries - 1,
         read : BOOLEAN, seen : [there : BOOLEAN, cost : Nat]]

\* Queue, threads and requests keep their types, and a sender that waits for
\* an answer has exactly one request: none is waited for twice.
PipeTypeOK ==
    /\ queue \in Seq(Events) /\ Len(queue) <= MaxQueue
    /\ sender \in [Senders -> [phase : Phases, batch : Seq(Events),
                                tries : 0 .. MaxRetries - 1, out : BOOLEAN]]
    /\ stop \in BOOLEAN /\ overlap \in BOOLEAN
    /\ post \subseteq Post
    /\ run \in [there : BOOLEAN, cost : Nat]
    /\ rows \in [Events -> Nat] /\ accepted \subseteq Events
    /\ pipeFaults \in 0 .. MaxPipeFaults
    /\ \A s \in Senders :
          /\ Len(sender[s].batch) <= BatchSize
          /\ Cardinality({p \in post : p.by = s}) = IF sender[s].out THEN 1 ELSE 0

Duplicates(e) == IF rows[e] > 1 THEN rows[e] - 1 ELSE 0

\* An event is stored once.  Every duplicate is the work of a timeout of its
\* own: neither the conflict of two first posts nor the two threads that send
\* make one.  And without faults nothing is lost: once the client is closed,
\* every event queued before the stop is stored, or was rejected, if there is a
\* second attempt, which the loser of two first posts needs.  A run never costs
\* more than its events, and costs as much unless two posts read it at once.
EventsStored ==
    /\ MapThenSumSet(Duplicates, Events) <= pipeFaults
    /\ Phase("main") = "closed" /\ pipeFaults = 0 /\ MaxRetries > 1 =>
          \A e \in accepted \ Rejected : rows[e] = 1
    /\ LET total == MapThenSumSet(LAMBDA e : rows[e] * Cost(e), Events)
       IN  /\ run.cost <= total
           /\ ~overlap => run.cost = total

=============================================================================
