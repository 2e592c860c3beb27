---------------------------- MODULE CommandQueue ----------------------------
(***************************************************************************)
(* The command queue through which users and agents command agents: the    *)
(* commands table, the handlers that write it (backend/main.py), and the   *)
(* bots that claim, run and complete commands (sdk/lightsei/_commands.py). *)
(*                                                                         *)
(* An agent's dispatch reads the depth of its chain and its count of the   *)
(* last day, and inserts the command when it commits: another request may  *)
(* come in between.  So it may between the check of the approve, reject,   *)
(* cancel and complete handlers and their write, which sets its columns by *)
(* key whatever the row has become.  A claim locks the row it takes.       *)
(*                                                                         *)
(* Time.  COMMAND_TTL and the window of the daily cap are both 24 hours: a *)
(* command is old when it is past them, oldest first.                      *)
(*                                                                         *)
(* Abstractions.  An id is its place in created_at order; a chain is named *)
(* by the id of its first command; payloads, results and kinds are left    *)
(* out.  parent and hop are no columns: they record which command a        *)
(* handler was running when it dispatched this one, and how many           *)
(* dispatches led here.                                                    *)
(*                                                                         *)
(* A definition marked "broken" is no part of the model: it is the one     *)
(* below it with a plausible bug, there to show that a property notices.   *)
(***************************************************************************)
EXTENDS Naturals, FiniteSets

CONSTANTS
    Cmds,       \* ids of the commands that may be created
    Agents,     \* agent names
    Bots,       \* bot processes
    AgentOf,    \* the agent each bot serves
    RuleKeys,   \* the auto-approval rules that may be set
    MaxDepth,   \* max_dispatch_depth of every agent
    MaxPerDay,  \* max_dispatch_per_day of every agent
    MayDispatch,    \* pairs of agents whose zones let one command the other
    MaxOpen,    \* dispatch requests the backend handles at once
    MaxRequests,    \* bound on the users' requests at once
    Fanout,     \* bound on the dispatches of one handler
    MaxFaults   \* bound on crashes and lost answers

ASSUME CmdsAssumption == Cmds \subseteq Nat \ {0}
ASSUME BotsAssumption == /\ AgentOf \in [Bots -> Agents]
                         /\ MayDispatch \subseteq Agents \X Agents
ASSUME CapsAssumption ==
    /\ {MaxDepth, MaxPerDay, Fanout, MaxFaults} \subseteq Nat
    /\ {MaxOpen, MaxRequests} \subseteq Nat \ {0}

VARIABLES
    cmd,        \* the committed rows: a function on their ids
    rules,      \* the auto-approval rules: a function on their keys
    issued,     \* ids handed out so far
    tx,         \* open transactions that will insert a command, by its id
    req,        \* requests that have checked a row and not written it yet
    work,       \* the command each bot is running
    faults      \* faults so far

vars == <<cmd, rules, issued, tx, req, work, faults>>

None == 0

User == "user"          \* source_agent IS NULL
SharedChain == 0        \* the column's default, 00000000-0000-...

ASSUME AgentsAssumption == User \notin Agents

Ended == {"completed", "failed", "cancelled"}
Status == {"pending", "claimed"} \cup Ended
Sanctioned == {"approved", "auto_approved"}
Approval == {"pending", "rejected"} \cup Sanctioned

Command == [target : Agents, src : Agents \cup {User},
            chain : Cmds \cup {SharedChain}, depth : Nat,
            status : Status, appr : Approval, old : BOOLEAN,
            parent : Cmds \cup {None}, hop : Nat]

UserOps == {"approve", "reject", "cancel"}
Request == [op : UserOps \cup {"complete", "fail"}, c : Cmds, seen : Status]

IsTable(f, S, T) == DOMAIN f \subseteq S /\ f \in [DOMAIN f -> T]
Inserted(f, k, v) == [x \in DOMAIN f \cup {k} |-> IF x = k THEN v ELSE f[x]]
Removed(f, K) == [x \in DOMAIN f \ K |-> f[x]]

-----------------------------------------------------------------------------
(* Auto-approval rules. *)

\* The rule of (source, target, kind), then of any source, then of any kind.
RuleFor(src, tgt) ==
    LET exact == <<src, tgt, "kind">>
        anySource == <<"*", tgt, "kind">>
        anyKind == <<src, tgt, "*">>
    IN  IF exact \in DOMAIN rules THEN rules[exact]
        ELSE IF anySource \in DOMAIN rules THEN rules[anySource]
        ELSE IF anyKind \in DOMAIN rules THEN rules[anyKind]
        ELSE "require_human"

\* broken: the rule's mode is stored as the approval state.
Resolve_Mode(src, tgt) ==
    IF src = User THEN "auto_approved" ELSE RuleFor(src, tgt)

\* _resolve_auto_approval; users are trusted.
Resolve(src, tgt) ==
    IF src = User \/ RuleFor(src, tgt) = "auto_approve"
    THEN "auto_approved" ELSE "pending"

SetRule(k) ==
    /\ \E mode \in {"auto_approve", "require_human"} :
          rules' = Inserted(rules, k, mode)
    /\ UNCHANGED <<cmd, issued, tx, req, work, faults>>

DeleteRule(k) ==
    /\ k \in DOMAIN rules
    /\ rules' = Removed(rules, {k})
    /\ UNCHANGED <<cmd, issued, tx, req, work, faults>>

-----------------------------------------------------------------------------
(* Enqueueing. *)

Fresh(d) == d \in Cmds \ issued /\ \A e \in Cmds \ issued : d <= e

NewCommand(src, tgt, chain, depth, appr) ==
    [target |-> tgt, src |-> src, chain |-> chain, depth |-> depth,
     status |-> "pending", appr |-> appr, old |-> FALSE,
     parent |-> None, hop |-> 0]

Insert(d, c) ==
    /\ Fresh(d)
    /\ cmd' = Inserted(cmd, d, c)
    /\ issued' = issued \cup {d}
    /\ UNCHANGED <<rules, tx, req, work, faults>>

\* A user's click, or a push: the root of a chain of its own.
UserEnqueue(d, tgt) ==
    Insert(d, NewCommand(User, tgt, d, 0, Resolve(User, tgt)))

\* A trigger that fires (Slack and the widget do the same): approval is given,
\* the chain is left to the column's default.
TriggerEnqueue(d, tgt) ==
    Insert(d, NewCommand(User, tgt, SharedChain, 0, "auto_approved"))

InChain(ch) == {c \in DOMAIN cmd : cmd[c].chain = ch}

\* broken: the depth of the deepest command, with no hop added.
IsNextDepth_SameDepth(n, ch) ==
    /\ \A c \in InChain(ch) : cmd[c].depth <= n
    /\ n = 0 \/ \E c \in InChain(ch) : cmd[c].depth = n

\* One more than the deepest command of the chain.
IsNextDepth(n, ch) ==
    /\ \A c \in InChain(ch) : cmd[c].depth < n
    /\ n = 0 \/ \E c \in InChain(ch) : cmd[c].depth + 1 = n

Recent(a) == {c \in DOMAIN cmd : cmd[c].src = a /\ ~cmd[c].old}

\* broken: commands already claimed or ended are not counted.
UnderDailyCap_Waiting(a) ==
    Cardinality({c \in Recent(a) : cmd[c].status = "pending"}) < MaxPerDay

UnderDailyCap(a) == Cardinality(Recent(a)) < MaxPerDay

Children(p) == {c \in DOMAIN cmd : cmd[c].parent = p}
                   \cup {d \in DOMAIN tx : tx[d].parent = p}

\* Bot b calls send_command.  Inside a handler it passes on the chain of the
\* command it runs, outside it starts a chain.  Past a cap: 422; to another zone: 403.
DispatchRead(b, d, tgt) ==
    LET a == AgentOf[b]
        p == work[b]
        chain == IF p = None THEN d ELSE cmd[p].chain
    IN  /\ Fresh(d)
        /\ Cardinality(DOMAIN tx) < MaxOpen
        /\ p # None => Cardinality(Children(p)) < Fanout
        /\ UnderDailyCap(a)
        /\ <<a, tgt>> \in MayDispatch
        /\ \E depth \in 0 .. MaxDepth :
              /\ IsNextDepth(depth, chain) /\ depth < MaxDepth
              /\ tx' = Inserted(tx, d,
                    [NewCommand(a, tgt, chain, depth, Resolve(a, tgt)) EXCEPT
                        !.parent = p,
                        !.hop = IF p = None THEN 0 ELSE cmd[p].hop + 1])
        /\ issued' = issued \cup {d}
        /\ UNCHANGED <<cmd, rules, req, work, faults>>

DispatchCommit(d) ==
    /\ d \in DOMAIN tx
    /\ cmd' = Inserted(cmd, d, tx[d])
    /\ tx' = Removed(tx, {d})
    /\ UNCHANGED <<rules, issued, req, work, faults>>

DispatchAbort(d) ==
    /\ d \in DOMAIN tx
    /\ tx' = Removed(tx, {d})
    /\ UNCHANGED <<cmd, rules, issued, req, work, faults>>

-----------------------------------------------------------------------------
(* Approve, reject, cancel, complete: check, then write. *)

Check(op, c) ==
    /\ req' = req \cup {[op |-> op, c |-> c, seen |-> cmd[c].status]}
    /\ UNCHANGED <<cmd, rules, issued, tx, faults>>

UserCheck(op, c) ==
    /\ Cardinality({r \in req : r.op \in UserOps}) < MaxRequests
    /\ Check(op, c)
    /\ UNCHANGED work

ApproveRead(c) ==
    c \in DOMAIN cmd /\ cmd[c].appr = "pending" /\ UserCheck("approve", c)

RejectRead(c) ==
    c \in DOMAIN cmd /\ cmd[c].appr = "pending" /\ UserCheck("reject", c)

CancelRead(c) ==
    c \in DOMAIN cmd /\ cmd[c].status = "pending" /\ UserCheck("cancel", c)

\* broken: a rejection leaves the status alone.
Written_KeepsStatus(r) ==
    CASE r.op = "approve" -> [cmd[r.c] EXCEPT !.appr = "approved"]
      [] r.op = "reject" -> [cmd[r.c] EXCEPT !.appr = "rejected"]
      [] r.op = "cancel" -> [cmd[r.c] EXCEPT !.status = "cancelled"]
      [] r.op = "complete" -> [cmd[r.c] EXCEPT !.status = "completed"]
      [] r.op = "fail" -> [cmd[r.c] EXCEPT !.status = "failed"]

\* Only columns that differ from what was read are written.
Written(r) ==
    CASE r.op = "approve" -> [cmd[r.c] EXCEPT !.appr = "approved"]
      [] r.op = "reject" ->
            [cmd[r.c] EXCEPT
               !.appr = "rejected",
               !.status = IF r.seen = "cancelled" THEN @ ELSE "cancelled"]
      [] r.op = "cancel" -> [cmd[r.c] EXCEPT !.status = "cancelled"]
      [] r.op = "complete" -> [cmd[r.c] EXCEPT !.status = "completed"]
      [] r.op = "fail" -> [cmd[r.c] EXCEPT !.status = "failed"]

Write(r) ==
    /\ r \in req /\ req' = req \ {r}
    /\ cmd' = [cmd EXCEPT ![r.c] = Written(r)]
    /\ UNCHANGED <<rules, issued, tx, work, faults>>

\* The request rolls back.
Drop(r) ==
    /\ r \in req /\ req' = req \ {r}
    /\ UNCHANGED <<cmd, rules, issued, tx, work, faults>>

-----------------------------------------------------------------------------
(* Bots. *)

\* broken: a claimed command is handed out again, as a retry.
Claimable_Retry(c, a) ==
    /\ cmd[c].target = a /\ cmd[c].status \in {"pending", "claimed"}
    /\ cmd[c].appr \in Sanctioned /\ ~cmd[c].old

\* broken: only what a human approved is claimed.
Claimable_ByHand(c, a) ==
    /\ cmd[c].target = a /\ cmd[c].status = "pending"
    /\ cmd[c].appr = "approved" /\ ~cmd[c].old

Claimable(c, a) ==
    /\ cmd[c].target = a /\ cmd[c].status = "pending"
    /\ cmd[c].appr \in Sanctioned /\ ~cmd[c].old

\* SELECT ... ORDER BY created_at LIMIT 1 FOR UPDATE SKIP LOCKED.
Taken(c, a) ==
    /\ c \in DOMAIN cmd /\ Claimable(c, a)
    /\ \A e \in DOMAIN cmd : Claimable(e, a) => c <= e
    /\ cmd' = [cmd EXCEPT ![c].status = "claimed"]

\* The poller (or the bot itself) claims and runs one command at a time.
Claim(b, c) ==
    /\ work[b] = None
    /\ Taken(c, AgentOf[b])
    /\ work' = [work EXCEPT ![b] = c]
    /\ UNCHANGED <<rules, issued, tx, req, faults>>

\* The claim commits, its answer is lost: nobody runs the command.
ClaimLost(b, c) ==
    /\ work[b] = None
    /\ faults < MaxFaults /\ faults' = faults + 1
    /\ Taken(c, AgentOf[b])
    /\ UNCHANGED <<rules, issued, tx, req, work>>

\* The handler returns or raises; its result is posted once.
Finish(b) ==
    LET c == work[b]
    IN  /\ c # None
        /\ work' = [work EXCEPT ![b] = None]
        /\ IF cmd[c].status \in {"claimed", "pending"}
           THEN \E op \in {"complete", "fail"} : Check(op, c)
           ELSE UNCHANGED <<cmd, rules, issued, tx, req, faults>>

\* The bot dies, or the post of its result is lost.
Vanish(b) ==
    /\ work[b] # None
    /\ faults < MaxFaults /\ faults' = faults + 1
    /\ work' = [work EXCEPT ![b] = None]
    /\ UNCHANGED <<cmd, rules, issued, tx, req>>

\* 24 hours have passed since the command was enqueued.
Expire(c) ==
    /\ c \in DOMAIN cmd /\ ~cmd[c].old
    /\ \A e \in issued : e < c =>
          e \notin DOMAIN tx /\ (e \in DOMAIN cmd => cmd[e].old)
    /\ cmd' = [cmd EXCEPT ![c].old = TRUE]
    /\ UNCHANGED <<rules, issued, tx, req, work, faults>>

-----------------------------------------------------------------------------
Init ==
    /\ cmd = [c \in {} |-> 0]
    /\ rules = [k \in {} |-> ""]
    /\ issued = {}
    /\ tx = [d \in {} |-> 0]
    /\ req = {}
    /\ work = [b \in Bots |-> None]
    /\ faults = 0

UserNext ==
    \/ \E k \in RuleKeys : SetRule(k) \/ DeleteRule(k)
    \/ \E d \in Cmds, tgt \in Agents : UserEnqueue(d, tgt)
                                       \/ TriggerEnqueue(d, tgt)
    \/ \E c \in Cmds : ApproveRead(c) \/ RejectRead(c) \/ CancelRead(c)

ServerNext ==
    \/ \E d \in Cmds : DispatchCommit(d) \/ DispatchAbort(d)
    \/ \E r \in req : Write(r) \/ Drop(r)
    \/ \E c \in Cmds : Expire(c)

BotNext(b) ==
    \/ \E c \in Cmds : Claim(b, c) \/ ClaimLost(b, c)
    \/ \E d \in Cmds, tgt \in Agents : DispatchRead(b, d, tgt)
    \/ Finish(b) \/ Vanish(b)

Next == UserNext \/ ServerNext \/ \E b \in Bots : BotNext(b)

Spec == Init /\ [][Next]_vars

\* Bots poll and their handlers return, requests end.
Fairness ==
    /\ \A b \in Bots : WF_vars(\E c \in Cmds : Claim(b, c))
                       /\ WF_vars(Finish(b))
    /\ WF_vars(\E d \in Cmds : DispatchCommit(d) \/ DispatchAbort(d))
    /\ WF_vars(\E r \in req : Write(r) \/ Drop(r))

FairSpec == Spec /\ Fairness

-----------------------------------------------------------------------------
\* Columns keep their types; requests and bots name committed commands.
CmdTypeOK ==
    /\ IsTable(cmd, Cmds, Command)
    /\ IsTable(tx, Cmds, Command)
    /\ DOMAIN rules \subseteq RuleKeys
    /\ issued \subseteq Cmds
    /\ DOMAIN cmd \cup DOMAIN tx \subseteq issued
    /\ DOMAIN cmd \cap DOMAIN tx = {}
    /\ req \subseteq Request
    /\ \A r \in req : r.c \in DOMAIN cmd
    /\ work \in [Bots -> DOMAIN cmd \cup {None}]
    /\ faults \in Nat

\* A command that reads claimed was approved, whatever approvals, rejections
\* and claims meet: "'pending' commands sit safely until a human acts".
ClaimedIsApproved ==
    \A c \in DOMAIN cmd : cmd[c].status = "claimed" => cmd[c].appr \in Sanctioned

\* A command's handler is run by one bot at most, and never handed out again
\* once it was: no crash, lost answer or late write requeues it.
OneHandler ==
    \A b \in Bots : work[b] # None =>
        /\ cmd[work[b]].status # "pending"
        /\ \A e \in Bots : work[e] = work[b] => e = b

\* The depth on a command is never less than the dispatches that led to it,
\* so the cap ends every runaway chain, however requests overlap.
HopsBounded ==
    \A c \in DOMAIN cmd : cmd[c].hop <= cmd[c].depth
                          /\ (cmd[c].src # User => cmd[c].hop < MaxDepth)

\* The daily cap is overrun by no more than the requests that overlap.
CapOverrun ==
    \A a \in Agents : Cardinality(Recent(a)) < MaxPerDay + MaxOpen

\* An approved command is claimed, withdrawn or past its 24 hours in the end,
\* if a bot of its agent runs.
ApprovedIsServed ==
    \A c \in Cmds :
        (/\ c \in DOMAIN cmd /\ cmd[c].appr \in Sanctioned
         /\ \E b \in Bots : AgentOf[b] = cmd[c].target)
            ~> (c \in DOMAIN cmd /\ (cmd[c].status # "pending" \/ cmd[c].old))

-----------------------------------------------------------------------------
(* Disagreements with the documentation. *)

\* A handler is refused a dispatch only when it is as deep as the cap says:
\* dispatch_depth is the "number of hops from the chain's root command".
RefusedOnlyIfDeep ==
    \A b \in Bots : work[b] # None /\ cmd[work[b]].hop + 1 < MaxDepth =>
        \A c \in InChain(cmd[work[b]].chain) : cmd[c].depth + 1 < MaxDepth

\* A rejected command is off the floor: no bot runs it.
RejectedIsNotRun ==
    \A b \in Bots : work[b] # None => cmd[work[b]].appr # "rejected"

-----------------------------------------------------------------------------
(* The inductive invariants behind the safety properties. *)

\* A request that found its command ended still finds it ended, and what is
\* about to be inserted is pending.
GateInv ==
    /\ CmdTypeOK /\ ClaimedIsApproved /\ OneHandler
    /\ \A r \in req : r.seen \in Ended => cmd[r.c].status \in Ended
    /\ \A d \in DOMAIN tx : tx[d].status = "pending"

\* Open dispatches respect the depth cap as committed ones do.
HopsInv ==
    /\ CmdTypeOK /\ HopsBounded
    /\ \A d \in DOMAIN tx : tx[d].hop <= tx[d].depth /\ tx[d].hop < MaxDepth

DispatchesOf(a) == {d \in DOMAIN tx : tx[d].src = a}

\* The daily cap bounds an agent's recent commands and its open dispatches
\* together: each of the latter has read a count below the cap.
CapInv ==
    /\ CmdTypeOK /\ IsFiniteSet(issued)
    /\ \A a \in Agents :
          Cardinality(Recent(a)) + Cardinality(DispatchesOf(a))
              < MaxPerDay + MaxOpen

=============================================================================
