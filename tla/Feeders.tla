------------------------------ MODULE Feeders ------------------------------
(***************************************************************************)
(* The feeders that make the assistants proactive (backend/feeder.py):     *)
(* once per scheduler tick (backend/scheduler.py) a pass asks every feeder *)
(* of every workspace for commands, in one session, which it commits at    *)
(* its end.  A connector call that fails on the way commits the session    *)
(* too, to keep the record of the failure (backend/main.py): the pass goes *)
(* on, and what it has fed so far stays.                                   *)
(*                                                                         *)
(* A pass reads the clock first and may be overtaken by another backend's. *)
(* It locks nothing: what it sees of the commands is what is committed,    *)
(* and its own.  An error in the database spoils the open transaction, and *)
(* with it what every feeder and workspace got from the pass since the     *)
(* last commit.                                                            *)
(*                                                                         *)
(* Abstractions.  A feeder is one feeder of one workspace.  Whether it is  *)
(* on, has an address, whether spending has jumped, and what is in the     *)
(* inbox or among the reviews, is any set of items that a pass may find    *)
(* for it, none if the gates refuse the call; the items of a sweep are     *)
(* none or the sweep itself.  What is in a command is left out.  fed keeps *)
(* every command that was committed.                                       *)
(*                                                                         *)
(* A definition marked "broken" is no part of the model: it is the one     *)
(* below it with a plausible bug, there to show that a property notices.   *)
(***************************************************************************)
EXTENDS Naturals, FiniteSets, Tables

CONSTANTS
    Sweeps,         \* feeders that may run once in a window
    Polls,          \* feeders that feed each item once
    Items,          \* mails and reviews
    Sweep,          \* the one item of a sweep
    Window,         \* the dedup window
    Passes,         \* numbers of the passes, and of requests for a digest
    Backends,       \* how many backends run passes
    MaxClock        \* bound on the clock

Clock == 0 .. MaxClock

ASSUME FeedersAssumption ==
    /\ Sweeps \cap Polls = {} /\ Sweep \notin Items
    /\ Passes \subseteq Nat \ {0} /\ {Window, MaxClock, Backends} \subseteq Nat

VARIABLES
    clock,
    pass,           \* the passes so far, each with its transaction
    fed,            \* the commands that feeders have enqueued
    met             \* history: pairs of passes that were open at once

feederVars == <<clock, pass, fed, met>>

Feeds == Sweeps \cup Polls

ItemsOf(f) == IF f \in Sweeps THEN {Sweep} ELSE Items

Command == [feed : Feeds, item : Items \cup {Sweep}, at : Clock, pass : Passes,
            forced : BOOLEAN]

\* new holds what the pass has fed since its last commit.
Pass == [at : Clock, state : {"open", "over"},
         todo : SUBSET Feeds, new : SUBSET Command]

OpenPasses == {p \in DOMAIN pass : pass[p].state = "open"}

NextPass(p) == p \in Passes \ DOMAIN pass
               /\ \A q \in Passes \ DOMAIN pass : p <= q

-----------------------------------------------------------------------------
ClockTicks ==
    /\ clock < MaxClock /\ clock' = clock + 1
    /\ UNCHANGED <<pass, fed, met>>

\* A backend runs one pass at a time.
PassOpen(p) ==
    /\ NextPass(p)
    /\ Cardinality(OpenPasses) < Backends
    /\ pass' = Inserted(pass, p, [at |-> clock, state |-> "open",
                                  todo |-> Feeds, new |-> {}])
    /\ met' = met \cup {{p, q} : q \in OpenPasses}
    /\ UNCHANGED <<clock, fed>>

Recent(c, at) == c.at + Window >= at

\* broken: a poll, too, only looks at what is recent.
Handled_Recent(c, f, i, at) ==
    /\ c.feed = f /\ c.item = i
    /\ Recent(c, at)

\* What keeps an item from being fed: a recent command of the sweep, any
\* command at all for a mail or a review.
Handled(c, f, i, at) ==
    /\ c.feed = f /\ c.item = i
    /\ f \in Sweeps => Recent(c, at)

\* The pass comes to a feeder, which finds some items.
Feed(p, f) ==
    LET x == pass[p]
        seen == fed \cup x.new
    IN  /\ p \in OpenPasses /\ f \in x.todo
        /\ \E found \in SUBSET ItemsOf(f) :
              pass' = [pass EXCEPT
                 ![p].todo = @ \ {f},
                 ![p].new = @ \cup
                    {[feed |-> f, item |-> i, at |-> x.at, pass |-> p,
                      forced |-> FALSE] :
                     i \in {j \in found : \A c \in seen : ~Handled(c, f, j, x.at)}}]
        /\ UNCHANGED <<clock, fed, met>>

\* The feeder's connector call fails upstream: the session is committed with
\* the record of the call, and the pass goes on to the next feeder.
FeedFails(p, f) ==
    /\ p \in OpenPasses /\ f \in Polls \cap pass[p].todo
    /\ fed' = fed \cup pass[p].new
    /\ pass' = [pass EXCEPT ![p].todo = @ \ {f}, ![p].new = {}]
    /\ UNCHANGED <<clock, met>>

PassCommit(p) ==
    /\ p \in OpenPasses /\ pass[p].todo = {}
    /\ fed' = fed \cup pass[p].new
    /\ pass' = [pass EXCEPT ![p].state = "over"]
    /\ UNCHANGED <<clock, met>>

\* A statement fails, or the process dies: what was fed since the pass's last
\* commit is lost.
PassAbort(p) ==
    /\ p \in OpenPasses
    /\ pass' = [pass EXCEPT ![p].state = "over", ![p].new = {}]
    /\ UNCHANGED <<clock, fed, met>>

\* The owner asks for a digest, whatever was fed before.
ForceDigest(p, f) ==
    /\ NextPass(p) /\ f \in Sweeps
    /\ fed' = fed \cup {[feed |-> f, item |-> Sweep, at |-> clock, pass |-> p,
                         forced |-> TRUE]}
    /\ pass' = Inserted(pass, p, [at |-> clock, state |-> "over",
                                  todo |-> {}, new |-> {}])
    /\ met' = met \cup {{p, q} : q \in OpenPasses}
    /\ UNCHANGED clock

-----------------------------------------------------------------------------
FeedersInit == clock = 0 /\ pass = EmptyTable /\ fed = {} /\ met = {}

FeedersNext ==
    \/ ClockTicks
    \/ \E p \in Passes :
          \/ PassOpen(p)
          \/ \E f \in Sweeps : ForceDigest(p, f)
          \/ \E f \in Feeds : Feed(p, f) \/ FeedFails(p, f)
          \/ PassCommit(p) \/ PassAbort(p)

FeedersSpec == FeedersInit /\ [][FeedersNext]_feederVars

-----------------------------------------------------------------------------
\* Passes and commands keep their types; a command has its pass, and what a
\* pass has found for a feeder it has been through.
FeedersTypeOK ==
    /\ clock \in Clock
    /\ IsTable(pass, Passes, Pass)
    /\ fed \subseteq Command
    /\ met \subseteq SUBSET Passes
    /\ \A c \in fed : c.pass \in DOMAIN pass /\ c.at = pass[c.pass].at
    /\ \A p \in OpenPasses : \A c \in pass[p].new : c.feed \notin pass[p].todo

\* A mail or a review is fed once, ever, and a sweep once in its window unless
\* the owner asks, from whichever backend, whatever passes are rolled back in
\* between and wherever a failed call has committed one half way; twice only by
\* two passes that were open at once.
FedOnce ==
    \A c, d \in fed :
        /\ c.feed = d.feed /\ c.item = d.item
        /\ c.pass < d.pass /\ ~d.forced
        /\ c.feed \in Sweeps => d.at <= c.at + Window
        => {c.pass, d.pass} \in met

=============================================================================
