------------------------ MODULE CommandQueueProofs ------------------------
(***************************************************************************)
(* Proofs about the command queue, for any number of commands, agents and  *)
(* bots and any caps: its types, the approval gate, the single run of each *)
(* command and the two dispatch caps.                                      *)
(***************************************************************************)
EXTENDS CommandQueue, FiniteSetTheorems, TLAPS

-----------------------------------------------------------------------------
(* Types. *)

\* A rule lookup ends in an approval state.
LEMMA ResolveType ==
    ASSUME NEW src, NEW tgt PROVE Resolve(src, tgt) \in {"auto_approved", "pending"}
BY DEF Resolve

\* What the handlers insert is a command.
LEMMA NewCommandType ==
    ASSUME NEW src \in Agents \cup {User}, NEW tgt \in Agents,
           NEW ch \in Cmds \cup {SharedChain}, NEW n \in Nat,
           NEW appr \in {"auto_approved", "pending"}
    PROVE  NewCommand(src, tgt, ch, n, appr) \in Command
BY DEF NewCommand, Command, Status, Approval, Sanctioned, None

\* Inserting a command, in one step or two, keeps the types.
LEMMA InsertTypeOK ==
    ASSUME CmdTypeOK, NEW d \in Cmds, NEW c \in Command, Insert(d, c)
    PROVE  CmdTypeOK'
BY DEF CmdTypeOK, IsTable, Insert, Inserted, Fresh, Request, None

\* A dispatch that read its caps keeps the types.
LEMMA DispatchTypeOK ==
    ASSUME CmdTypeOK, NEW b \in Bots, NEW d \in Cmds, NEW tgt \in Agents,
           DispatchRead(b, d, tgt)
    PROVE  CmdTypeOK'
<1> DEFINE a == AgentOf[b]
           p == work[b]
           chain == IF p = None THEN d ELSE cmd[p].chain
           row(n) == [NewCommand(a, tgt, chain, n, Resolve(a, tgt)) EXCEPT
                        !.parent = p,
                        !.hop = IF p = None THEN 0 ELSE cmd[p].hop + 1]
<1>1. PICK n \in 0 .. MaxDepth : tx' = Inserted(tx, d, row(n))
  BY DEF DispatchRead
<1>2. p \in DOMAIN cmd \cup {None} /\ (p # None => cmd[p] \in Command)
  BY DEF CmdTypeOK, IsTable
<1>3. chain \in Cmds \cup {SharedChain} /\ a \in Agents /\ n \in Nat
  BY <1>2, BotsAssumption, CapsAssumption DEF Command
<1>4. NewCommand(a, tgt, chain, n, Resolve(a, tgt)) \in Command
  BY <1>3, NewCommandType, ResolveType
<1>5. row(n) \in Command
  <2>1. (IF p = None THEN 0 ELSE cmd[p].hop + 1) \in Nat
    BY <1>2 DEF Command
  <2>2. p \in Cmds \cup {None}
    BY <1>2 DEF CmdTypeOK, IsTable
  <2> QED BY <1>4, <2>1, <2>2 DEF Command
<1> HIDE DEF row
<1>6. IsTable(tx', Cmds, Command) /\ DOMAIN tx' = DOMAIN tx \cup {d}
  BY <1>1, <1>5 DEF CmdTypeOK, IsTable, Inserted
<1>7. Fresh(d) /\ issued' = issued \cup {d} /\ UNCHANGED <<cmd, rules, req, work, faults>>
  BY DEF DispatchRead
<1> QED BY <1>6, <1>7 DEF CmdTypeOK, IsTable, Fresh

\* So does its end.
LEMMA CommitTypeOK ==
    ASSUME CmdTypeOK, NEW d \in Cmds, DispatchCommit(d) \/ DispatchAbort(d)
    PROVE  CmdTypeOK'
<1>1. CASE DispatchCommit(d)
  <2>1. IsTable(cmd', Cmds, Command) /\ DOMAIN cmd' = DOMAIN cmd \cup {d}
    BY <1>1 DEF DispatchCommit, CmdTypeOK, IsTable, Inserted
  <2>2. IsTable(tx', Cmds, Command) /\ DOMAIN tx' = DOMAIN tx \ {d}
    BY <1>1 DEF DispatchCommit, CmdTypeOK, IsTable, Removed
  <2> QED BY <1>1, <2>1, <2>2 DEF DispatchCommit, CmdTypeOK
<1>2. CASE DispatchAbort(d)
  BY <1>2 DEF DispatchAbort, CmdTypeOK, IsTable, Removed
<1> QED BY <1>1, <1>2

\* Checking a command for a request on it.
LEMMA CheckTypeOK ==
    ASSUME CmdTypeOK, NEW op \in UserOps \cup {"complete", "fail"},
           NEW c \in DOMAIN cmd, Check(op, c),
           work' \in [Bots -> DOMAIN cmd \cup {None}]
    PROVE  CmdTypeOK'
<1>1. [op |-> op, c |-> c, seen |-> cmd[c].status] \in Request
  BY DEF CmdTypeOK, IsTable, Command, Request
<1> QED BY <1>1 DEF CmdTypeOK, Check, IsTable

\* A request's write keeps the row's type and its key columns.
LEMMA WrittenType ==
    ASSUME CmdTypeOK, NEW r \in req
    PROVE  /\ Written(r) \in Command
           /\ Written(r).status \in Ended \cup {cmd[r.c].status}
           /\ \A f \in {"src", "old", "depth", "hop"} : Written(r)[f] = cmd[r.c][f]
<1>1. cmd[r.c] \in Command /\ r \in Request
  BY DEF CmdTypeOK, IsTable
<1>2. r.op \in {"approve", "reject", "cancel", "complete", "fail"}
  BY <1>1 DEF Request, UserOps
<1> QED BY <1>1, <1>2 DEF Written, Command, Status, Ended, Approval, Sanctioned

\* Handing a command out.
LEMMA TakenType ==
    ASSUME CmdTypeOK, NEW c \in Cmds, NEW a, Taken(c, a)
    PROVE  /\ c \in DOMAIN cmd /\ cmd' = [cmd EXCEPT ![c].status = "claimed"]
           /\ DOMAIN cmd' = DOMAIN cmd /\ IsTable(cmd', Cmds, Command)
BY DEF CmdTypeOK, Taken, IsTable, Command, Status

\* A command growing old.
LEMMA ExpireType ==
    ASSUME CmdTypeOK, NEW c \in Cmds, Expire(c)
    PROVE  /\ c \in DOMAIN cmd /\ cmd' = [cmd EXCEPT ![c].old = TRUE]
           /\ DOMAIN cmd' = DOMAIN cmd /\ IsTable(cmd', Cmds, Command)
<1>1. c \in DOMAIN cmd /\ cmd' = [cmd EXCEPT ![c].old = TRUE]
  BY DEF Expire
<1>2. cmd[c] \in Command
  BY <1>1 DEF CmdTypeOK, IsTable
<1>3. [cmd[c] EXCEPT !.old = TRUE] \in Command
  BY <1>2 DEF Command
<1>4. cmd' = [cmd EXCEPT ![c] = [cmd[c] EXCEPT !.old = TRUE]]
  BY <1>1, Zenon
<1> QED BY <1>1, <1>3, <1>4 DEF CmdTypeOK, IsTable

\* A step that rewrites rows in place.
LEMMA RowTypeOK ==
    ASSUME CmdTypeOK, DOMAIN cmd' = DOMAIN cmd, IsTable(cmd', Cmds, Command),
           req' \subseteq req, work' \in [Bots -> DOMAIN cmd \cup {None}],
           faults' \in Nat, UNCHANGED <<rules, issued, tx>>
    PROVE  CmdTypeOK'
BY DEF CmdTypeOK, IsTable

\* The initial types.
LEMMA InitTypeOK == Init => CmdTypeOK
BY DEF Init, CmdTypeOK, IsTable

\* Users' steps keep the types.
LEMMA UserTypeOK ==
    ASSUME CmdTypeOK, UserNext PROVE CmdTypeOK'
<1>1. ASSUME NEW k \in RuleKeys, SetRule(k) \/ DeleteRule(k) PROVE CmdTypeOK'
  BY <1>1 DEF CmdTypeOK, SetRule, DeleteRule, Inserted, Removed, IsTable
<1>2. ASSUME NEW d \in Cmds, NEW tgt \in Agents,
             UserEnqueue(d, tgt) \/ TriggerEnqueue(d, tgt)
      PROVE  CmdTypeOK'
  <2>1. \A ch \in {d, SharedChain}, appr \in {"auto_approved", "pending"} :
            NewCommand(User, tgt, ch, 0, appr) \in Command
    BY NewCommandType
  <2> QED BY <1>2, <2>1, ResolveType, InsertTypeOK DEF UserEnqueue, TriggerEnqueue
<1>3. ASSUME NEW c \in Cmds, ApproveRead(c) \/ RejectRead(c) \/ CancelRead(c)
      PROVE  CmdTypeOK'
  <2>1. PICK op \in UserOps : c \in DOMAIN cmd /\ Check(op, c) /\ UNCHANGED work
    BY <1>3 DEF ApproveRead, RejectRead, CancelRead, UserCheck, UserOps
  <2>2. work' \in [Bots -> DOMAIN cmd \cup {None}]
    BY <2>1 DEF CmdTypeOK
  <2> QED BY <2>1, <2>2, CheckTypeOK
<1> QED BY <1>1, <1>2, <1>3 DEF UserNext

\* The backend's steps keep the types.
LEMMA ServerTypeOK ==
    ASSUME CmdTypeOK, ServerNext PROVE CmdTypeOK'
<1>1. ASSUME NEW d \in Cmds, DispatchCommit(d) \/ DispatchAbort(d)
      PROVE  CmdTypeOK'
  BY <1>1, CommitTypeOK
<1>2. ASSUME NEW r \in req, Write(r) PROVE CmdTypeOK'
  <2>1. r.c \in DOMAIN cmd /\ Written(r) \in Command
    BY WrittenType DEF CmdTypeOK
  <2>2. DOMAIN cmd' = DOMAIN cmd /\ IsTable(cmd', Cmds, Command)
    BY <1>2, <2>1 DEF Write, CmdTypeOK, IsTable
  <2> QED BY <1>2, <2>2, RowTypeOK DEF Write, CmdTypeOK
<1>3. ASSUME NEW r \in req, Drop(r) PROVE CmdTypeOK'
  BY <1>3, RowTypeOK DEF Drop, CmdTypeOK, IsTable
<1>4. ASSUME NEW c \in Cmds, Expire(c) PROVE CmdTypeOK'
  <2>1. DOMAIN cmd' = DOMAIN cmd /\ IsTable(cmd', Cmds, Command)
    BY <1>4, ExpireType
  <2> QED BY <1>4, <2>1, RowTypeOK DEF Expire, CmdTypeOK
<1> QED BY <1>1, <1>2, <1>3, <1>4 DEF ServerNext

\* A bot's steps keep the types.
LEMMA BotTypeOK ==
    ASSUME CmdTypeOK, NEW b \in Bots, BotNext(b) PROVE CmdTypeOK'
<1>1. ASSUME NEW c \in Cmds, Claim(b, c) \/ ClaimLost(b, c) PROVE CmdTypeOK'
  <2>1. DOMAIN cmd' = DOMAIN cmd /\ IsTable(cmd', Cmds, Command) /\ c \in DOMAIN cmd
    BY <1>1, TakenType DEF Claim, ClaimLost
  <2>2. work' \in [Bots -> DOMAIN cmd \cup {None}] /\ faults' \in Nat
    BY <1>1, <2>1 DEF Claim, ClaimLost, CmdTypeOK
  <2> QED BY <1>1, <2>1, <2>2, RowTypeOK DEF Claim, ClaimLost
<1>2. ASSUME NEW d \in Cmds, NEW tgt \in Agents, DispatchRead(b, d, tgt)
      PROVE  CmdTypeOK'
  BY <1>2, DispatchTypeOK
<1>3. ASSUME Finish(b) PROVE CmdTypeOK'
  <2>1. work' \in [Bots -> DOMAIN cmd \cup {None}] /\ work[b] \in DOMAIN cmd
    BY <1>3 DEF Finish, CmdTypeOK
  <2>2. CASE \E op \in {"complete", "fail"} : Check(op, work[b])
    BY <2>1, <2>2, CheckTypeOK
  <2>3. CASE UNCHANGED <<cmd, rules, issued, tx, req, faults>>
    BY <2>1, <2>3 DEF CmdTypeOK, IsTable
  <2> QED BY <1>3, <2>2, <2>3 DEF Finish
<1>4. ASSUME Vanish(b) PROVE CmdTypeOK'
  <2>1. work' \in [Bots -> DOMAIN cmd \cup {None}] /\ faults' \in Nat
    BY <1>4 DEF Vanish, CmdTypeOK
  <2> QED BY <1>4, <2>1 DEF Vanish, CmdTypeOK, IsTable
<1> QED BY <1>1, <1>2, <1>3, <1>4 DEF BotNext

\* Every step keeps the types.
LEMMA NextTypeOK == CmdTypeOK /\ [Next]_vars => CmdTypeOK'
<1> SUFFICES ASSUME CmdTypeOK, [Next]_vars PROVE CmdTypeOK'
  OBVIOUS
<1>1. CASE UNCHANGED vars
  BY <1>1 DEF vars, CmdTypeOK, IsTable
<1> QED BY <1>1, UserTypeOK, ServerTypeOK, BotTypeOK DEF Next

\* Columns, requests and bots keep their types in every run.
THEOREM CmdTypeCorrect == Spec => []CmdTypeOK
BY InitTypeOK, NextTypeOK, PTL DEF Spec

-----------------------------------------------------------------------------
(* The approval gate and the single run of each command. *)

\* The parts of the gate's invariant that are not about types.
LEMMA GateParts ==
    ASSUME GateInv, CmdTypeOK',
           DOMAIN cmd \subseteq DOMAIN cmd',
           \A c \in DOMAIN cmd : cmd'[c] = cmd[c],
           \A c \in DOMAIN cmd' \ DOMAIN cmd : cmd'[c].status = "pending",
           req' \subseteq req, UNCHANGED work,
           \A d \in DOMAIN tx' : tx'[d].status = "pending"
    PROVE  GateInv'
<1>1. \A r \in req : r.c \in DOMAIN cmd
  BY DEF GateInv, CmdTypeOK
<1>2. \A b \in Bots : work[b] \in DOMAIN cmd \cup {None}
  BY DEF GateInv, CmdTypeOK
<1>3. ClaimedIsApproved'
  BY DEF GateInv, ClaimedIsApproved
<1>4. OneHandler'
  BY <1>2 DEF GateInv, OneHandler, None
<1>5. \A r \in req' : r.seen \in Ended => cmd'[r.c].status \in Ended
  BY <1>1 DEF GateInv
<1> QED BY <1>3, <1>4, <1>5 DEF GateInv

\* A new check sees the status that is there; a bot may have let go of its
\* command in the same step.
LEMMA GateCheck ==
    ASSUME GateInv, CmdTypeOK', NEW c, NEW op, Check(op, c),
           UNCHANGED work \/ \E b \in Bots : work' = [work EXCEPT ![b] = None]
    PROVE  GateInv'
<1>1. \A e \in Bots : work'[e] \in {work[e], None}
  BY DEF GateInv, CmdTypeOK
<1>2. OneHandler'
  BY <1>1 DEF Check, GateInv, OneHandler
<1>3. ClaimedIsApproved'
  BY DEF Check, GateInv, ClaimedIsApproved
<1>4. \A r \in req' : r.seen \in Ended => cmd'[r.c].status \in Ended
  BY DEF Check, GateInv
<1> QED BY <1>2, <1>3, <1>4 DEF Check, GateInv

\* A bot lets go of its command.
LEMMA GateLeave ==
    ASSUME GateInv, CmdTypeOK', UNCHANGED <<cmd, rules, issued, tx, req>>,
           NEW b \in Bots, work' = [work EXCEPT ![b] = None]
    PROVE  GateInv'
<1>1. \A e \in Bots : work'[e] \in {work[e], None}
  BY DEF GateInv, CmdTypeOK
<1>2. OneHandler'
  BY <1>1 DEF GateInv, OneHandler
<1> QED BY <1>2 DEF GateInv, ClaimedIsApproved

\* What a late write leaves of the gate: it never makes a command pending or
\* claimed, and a rejection leaves none claimed.
LEMMA WrittenGate ==
    ASSUME GateInv, NEW r \in req
    PROVE  /\ Written(r).status \in Ended \cup {cmd[r.c].status}
           /\ Written(r).status = "pending" => cmd[r.c].status = "pending"
           /\ Written(r).status = "claimed" => Written(r).appr \in Sanctioned
           /\ cmd[r.c].status \in Ended => Written(r).status \in Ended
<1>1. cmd[r.c] \in Command /\ r \in Request /\ r.c \in DOMAIN cmd
  BY DEF GateInv, CmdTypeOK, IsTable
<1>2. r.op \in {"approve", "reject", "cancel", "complete", "fail"}
  BY <1>1 DEF Request, UserOps
<1>3. Written(r).status \in Ended \cup {cmd[r.c].status}
  BY WrittenType DEF GateInv
<1>4. Written(r).status = "claimed" => Written(r).appr \in Sanctioned
  <2> SUFFICES ASSUME Written(r).status = "claimed" PROVE Written(r).appr \in Sanctioned
    OBVIOUS
  <2>1. cmd[r.c].status = "claimed"
    BY <1>3 DEF Ended
  <2>2. r.op # "reject"
    <3> SUFFICES ASSUME r.op = "reject" PROVE FALSE
      OBVIOUS
    <3>1. r.seen = "cancelled"
      BY <1>1 DEF Written, Command
    <3> QED BY <2>1, <3>1 DEF GateInv, Ended
  <2>3. cmd[r.c].appr \in Sanctioned
    BY <1>1, <2>1 DEF GateInv, ClaimedIsApproved
  <2> QED BY <1>1, <1>2, <2>2, <2>3 DEF Written, Command, Sanctioned
<1> QED BY <1>3, <1>4 DEF Ended

\* Growing old changes nothing else.
LEMMA ExpireKeeps ==
    ASSUME CmdTypeOK, NEW c \in Cmds, Expire(c)
    PROVE  /\ DOMAIN cmd' = DOMAIN cmd
           /\ \A x \in DOMAIN cmd : cmd'[x].status = cmd[x].status
                                    /\ cmd'[x].appr = cmd[x].appr
                                    /\ cmd'[x].src = cmd[x].src
                                    /\ cmd'[x].depth = cmd[x].depth
                                    /\ cmd'[x].hop = cmd[x].hop
                                    /\ (cmd[x].old => cmd'[x].old)
<1>1. c \in DOMAIN cmd /\ cmd' = [cmd EXCEPT ![c].old = TRUE] /\ cmd[c] \in Command
  BY ExpireType DEF CmdTypeOK, IsTable
<1>2. cmd'[c] = [cmd[c] EXCEPT !.old = TRUE] /\ DOMAIN cmd' = DOMAIN cmd
      /\ \A x \in DOMAIN cmd : x # c => cmd'[x] = cmd[x]
  BY <1>1
<1> QED BY <1>1, <1>2 DEF Command

\* What a claim does to the row it takes.
LEMMA TakenRow ==
    ASSUME CmdTypeOK, NEW c \in Cmds, NEW a, Taken(c, a)
    PROVE  /\ c \in DOMAIN cmd /\ DOMAIN cmd' = DOMAIN cmd
           /\ cmd[c].status = "pending" /\ cmd[c].appr \in Sanctioned
           /\ cmd'[c] = [cmd[c] EXCEPT !.status = "claimed"]
           /\ cmd'[c].status = "claimed" /\ cmd'[c].appr = cmd[c].appr
           /\ \A x \in DOMAIN cmd : x # c => cmd'[x] = cmd[x]
<1>1. c \in DOMAIN cmd /\ cmd' = [cmd EXCEPT ![c].status = "claimed"]
      /\ cmd[c].status = "pending" /\ cmd[c].appr \in Sanctioned
  BY DEF Taken, Claimable
<1>2. cmd[c] \in Command
  BY <1>1 DEF CmdTypeOK, IsTable
<1>3. cmd'[c] = [cmd[c] EXCEPT !.status = "claimed"] /\ DOMAIN cmd' = DOMAIN cmd
      /\ \A x \in DOMAIN cmd : x # c => cmd'[x] = cmd[x]
  BY <1>1
<1> QED BY <1>1, <1>2, <1>3 DEF Command

\* Users' steps keep the gate.
LEMMA GateUser ==
    ASSUME GateInv, CmdTypeOK', UserNext PROVE GateInv'
<1>1. ASSUME NEW k \in RuleKeys, SetRule(k) \/ DeleteRule(k) PROVE GateInv'
  BY <1>1, GateParts DEF SetRule, DeleteRule, GateInv
<1>2. ASSUME NEW d \in Cmds, NEW tgt \in Agents,
             UserEnqueue(d, tgt) \/ TriggerEnqueue(d, tgt)
      PROVE  GateInv'
  <2>1. PICK c : Insert(d, c) /\ c.status = "pending"
    BY <1>2 DEF UserEnqueue, TriggerEnqueue, NewCommand
  <2>2. d \notin DOMAIN cmd
    BY <2>1 DEF GateInv, CmdTypeOK, Insert, Fresh
  <2> QED BY <2>1, <2>2, GateParts DEF Insert, Inserted, GateInv
<1>3. ASSUME NEW c \in Cmds, ApproveRead(c) \/ RejectRead(c) \/ CancelRead(c)
      PROVE  GateInv'
  <2>1. PICK op : Check(op, c) /\ UNCHANGED work
    BY <1>3 DEF ApproveRead, RejectRead, CancelRead, UserCheck
  <2> QED BY <2>1, GateCheck
<1> QED BY <1>1, <1>2, <1>3 DEF UserNext

\* The backend's steps keep the gate.
LEMMA GateServer ==
    ASSUME GateInv, CmdTypeOK', ServerNext PROVE GateInv'
<1>1. ASSUME NEW d \in Cmds, DispatchCommit(d) PROVE GateInv'
  <2>1. d \notin DOMAIN cmd /\ tx[d].status = "pending"
    BY <1>1 DEF DispatchCommit, GateInv, CmdTypeOK
  <2> QED BY <1>1, <2>1, GateParts DEF DispatchCommit, Inserted, Removed, GateInv
<1>2. ASSUME NEW d \in Cmds, DispatchAbort(d) PROVE GateInv'
  BY <1>2, GateParts DEF DispatchAbort, Removed, GateInv
<1>3. ASSUME NEW r \in req, Write(r) PROVE GateInv'
  <2>1. r.c \in DOMAIN cmd /\ DOMAIN cmd' = DOMAIN cmd /\ cmd'[r.c] = Written(r)
        /\ \A c \in DOMAIN cmd : c # r.c => cmd'[c] = cmd[c]
    BY <1>3 DEF Write, GateInv, CmdTypeOK
  <2>2. ClaimedIsApproved'
    BY <2>1, WrittenGate DEF GateInv, ClaimedIsApproved
  <2>3. OneHandler'
    BY <1>3, <2>1, WrittenGate DEF Write, GateInv, CmdTypeOK, OneHandler
  <2>4. \A q \in req : q.c \in DOMAIN cmd
    BY DEF GateInv, CmdTypeOK
  <2>5. \A q \in req' : q.seen \in Ended => cmd'[q.c].status \in Ended
    BY <1>3, <2>1, <2>4, WrittenGate DEF Write, GateInv
  <2> QED BY <1>3, <2>2, <2>3, <2>5 DEF Write, GateInv
<1>4. ASSUME NEW r \in req, Drop(r) PROVE GateInv'
  BY <1>4, GateParts DEF Drop, GateInv
<1>5. ASSUME NEW c \in Cmds, Expire(c) PROVE GateInv'
  <2>1. DOMAIN cmd' = DOMAIN cmd
        /\ \A x \in DOMAIN cmd : cmd'[x].status = cmd[x].status
                                 /\ cmd'[x].appr = cmd[x].appr
    BY <1>5, ExpireKeeps DEF GateInv
  <2>2. ClaimedIsApproved'
    BY <2>1 DEF GateInv, ClaimedIsApproved
  <2>3. OneHandler'
    BY <1>5, <2>1 DEF Expire, GateInv, CmdTypeOK, OneHandler
  <2>4. \A q \in req' : q.seen \in Ended => cmd'[q.c].status \in Ended
    BY <1>5, <2>1 DEF Expire, GateInv, CmdTypeOK
  <2> QED BY <1>5, <2>2, <2>3, <2>4 DEF Expire, GateInv
<1> QED BY <1>1, <1>2, <1>3, <1>4, <1>5 DEF ServerNext

\* A bot's steps keep the gate.
LEMMA GateBot ==
    ASSUME GateInv, CmdTypeOK', NEW b \in Bots, BotNext(b) PROVE GateInv'
<1>1. ASSUME NEW c \in Cmds, Claim(b, c) \/ ClaimLost(b, c) PROVE GateInv'
  <2>1. /\ c \in DOMAIN cmd /\ DOMAIN cmd' = DOMAIN cmd
        /\ cmd[c].status = "pending" /\ cmd[c].appr \in Sanctioned
        /\ cmd'[c].status = "claimed" /\ cmd'[c].appr = cmd[c].appr
        /\ \A x \in DOMAIN cmd : x # c => cmd'[x] = cmd[x]
    BY <1>1, TakenRow DEF Claim, ClaimLost, GateInv
  <2>2. ClaimedIsApproved'
    BY <2>1 DEF GateInv, ClaimedIsApproved
  <2>3. \A e \in Bots : work[e] # c
    <3>1. c # None
      BY <2>1, CmdsAssumption DEF GateInv, CmdTypeOK, IsTable, None
    <3> QED BY <2>1, <3>1 DEF GateInv, OneHandler
  <2>4. OneHandler'
    <3>1. \A e \in Bots : work'[e] = work[e] \/ (e = b /\ work'[e] = c)
      <4>1. work' = work \/ work' = [work EXCEPT ![b] = c]
        BY <1>1 DEF Claim, ClaimLost
      <4>2. work \in [Bots -> DOMAIN cmd \cup {None}]
        BY DEF GateInv, CmdTypeOK
      <4> QED BY <4>1, <4>2
    <3>2. \A e \in Bots : work[e] # None => work[e] \in DOMAIN cmd
      BY DEF GateInv, CmdTypeOK
    <3> QED BY <2>1, <2>3, <3>1, <3>2 DEF GateInv, OneHandler
  <2>5. \A q \in req : q.c \in DOMAIN cmd
    BY DEF GateInv, CmdTypeOK
  <2>6. \A q \in req : q.seen \in Ended => q.c # c
    BY <2>1 DEF GateInv, Ended
  <2>7. \A q \in req' : q.seen \in Ended => cmd'[q.c].status \in Ended
    BY <1>1, <2>1, <2>5, <2>6 DEF Claim, ClaimLost, GateInv
  <2> QED BY <1>1, <2>2, <2>4, <2>7 DEF Claim, ClaimLost, GateInv
<1>2. ASSUME NEW d \in Cmds, NEW tgt \in Agents, DispatchRead(b, d, tgt)
      PROVE  GateInv'
  <2> DEFINE chain == IF work[b] = None THEN d ELSE cmd[work[b]].chain
             base(n) == NewCommand(AgentOf[b], tgt, chain, n, Resolve(AgentOf[b], tgt))
             row(n) == [base(n) EXCEPT
                          !.parent = work[b],
                          !.hop = IF work[b] = None THEN 0 ELSE cmd[work[b]].hop + 1]
  <2>0. PICK n \in 0 .. MaxDepth : tx' = Inserted(tx, d, row(n))
    BY <1>2 DEF DispatchRead
  <2>1. row(n).status = "pending"
    BY DEF NewCommand
  <2> HIDE DEF row
  <2>2. \A e \in DOMAIN tx' : tx'[e].status = "pending"
    BY <2>0, <2>1 DEF Inserted, GateInv
  <2> QED BY <1>2, <2>2, GateParts DEF DispatchRead
<1>3. ASSUME Finish(b) PROVE GateInv'
  <2>1. work' = [work EXCEPT ![b] = None] /\ work[b] \in DOMAIN cmd
    BY <1>3 DEF Finish, GateInv, CmdTypeOK
  <2>2. CASE \E op \in {"complete", "fail"} : Check(op, work[b])
    BY <2>1, <2>2, GateCheck
  <2>3. CASE UNCHANGED <<cmd, rules, issued, tx, req, faults>>
    BY <2>1, <2>3, GateLeave
  <2> QED BY <1>3, <2>2, <2>3 DEF Finish
<1>4. ASSUME Vanish(b) PROVE GateInv'
  BY <1>4, GateLeave DEF Vanish
<1> QED BY <1>1, <1>2, <1>3, <1>4 DEF BotNext

\* The gate's invariant holds in every run.
LEMMA GateCorrect == Spec => []GateInv
<1>1. Init => GateInv
  BY InitTypeOK DEF Init, GateInv, ClaimedIsApproved, OneHandler, None
<1>2. GateInv /\ [Next]_vars => GateInv'
  <2> SUFFICES ASSUME GateInv, [Next]_vars PROVE GateInv'
    OBVIOUS
  <2>1. CmdTypeOK'
    BY NextTypeOK DEF GateInv
  <2>2. CASE UNCHANGED vars
    BY <2>1, <2>2, GateParts DEF vars, GateInv
  <2> QED BY <2>1, <2>2, GateUser, GateServer, GateBot DEF Next
<1> QED BY <1>1, <1>2, PTL DEF Spec

\* No order of approvals, rejections, cancellations, claims and late results
\* shows a claimed command that was not approved.
THEOREM ClaimedIsApprovedCorrect == Spec => []ClaimedIsApproved
<1>1. GateInv => ClaimedIsApproved
  BY DEF GateInv
<1> QED BY <1>1, GateCorrect, PTL

\* Nor is a command ever run by two bots, or back in the queue while one
\* runs it, whatever crashes and lost answers come in between.
THEOREM OneHandlerCorrect == Spec => []OneHandler
<1>1. GateInv => OneHandler
  BY DEF GateInv
<1> QED BY <1>1, GateCorrect, PTL

-----------------------------------------------------------------------------
(* What the rows keep, for the two caps. *)

\* Apart from inserting rows, a step leaves their source and depths alone and
\* makes none younger; open dispatches it may only end.
Kept ==
    /\ DOMAIN cmd' = DOMAIN cmd
    /\ \A x \in DOMAIN cmd : /\ cmd'[x].src = cmd[x].src
                             /\ cmd'[x].depth = cmd[x].depth
                             /\ cmd'[x].hop = cmd[x].hop
                             /\ (cmd[x].old => cmd'[x].old)
    /\ DOMAIN tx' \subseteq DOMAIN tx
    /\ \A d \in DOMAIN tx' : tx'[d] = tx[d]
    /\ issued' = issued

\* A late write keeps what the caps count.
LEMMA KeptWrite ==
    ASSUME CmdTypeOK, NEW r \in req, Write(r) PROVE Kept
<1>1. cmd' = [cmd EXCEPT ![r.c] = Written(r)] /\ r.c \in DOMAIN cmd
      /\ UNCHANGED <<tx, issued>>
  BY DEF Write, CmdTypeOK
<1>2. /\ Written(r).src = cmd[r.c].src /\ Written(r).old = cmd[r.c].old
      /\ Written(r).depth = cmd[r.c].depth /\ Written(r).hop = cmd[r.c].hop
  BY WrittenType
<1> QED BY <1>1, <1>2 DEF Kept

\* A claim keeps what the caps count.
LEMMA KeptTaken ==
    ASSUME CmdTypeOK, NEW c \in Cmds, NEW a, Taken(c, a), UNCHANGED <<tx, issued>>
    PROVE  Kept
<1>1. cmd[c] \in Command
  BY TakenRow DEF CmdTypeOK, IsTable
<1>2. cmd'[c].src = cmd[c].src /\ cmd'[c].old = cmd[c].old
      /\ cmd'[c].depth = cmd[c].depth /\ cmd'[c].hop = cmd[c].hop
  BY <1>1, TakenRow DEF Command
<1> QED BY <1>2, TakenRow DEF Kept

\* Every step inserts a user's command, opens or commits a dispatch, or keeps.
LEMMA StepKinds ==
    ASSUME CmdTypeOK, [Next]_vars
    PROVE  \/ Kept
           \/ \E d \in Cmds : \E c :
                 Insert(d, c) /\ c.src = User /\ c.hop = 0 /\ c.depth = 0
           \/ \E b \in Bots, d \in Cmds, tgt \in Agents : DispatchRead(b, d, tgt)
           \/ \E d \in Cmds : DispatchCommit(d)
<1>1. CASE UNCHANGED vars
  BY <1>1 DEF vars, Kept
<1>2. CASE UserNext
  <2>1. ASSUME NEW k \in RuleKeys, SetRule(k) \/ DeleteRule(k) PROVE Kept
    BY <2>1 DEF SetRule, DeleteRule, Kept
  <2>2. ASSUME NEW d \in Cmds, NEW tgt \in Agents,
               UserEnqueue(d, tgt) \/ TriggerEnqueue(d, tgt)
        PROVE  \E c : Insert(d, c) /\ c.src = User /\ c.hop = 0 /\ c.depth = 0
    BY <2>2 DEF UserEnqueue, TriggerEnqueue, NewCommand
  <2>3. ASSUME NEW c \in Cmds, ApproveRead(c) \/ RejectRead(c) \/ CancelRead(c)
        PROVE  Kept
    BY <2>3 DEF ApproveRead, RejectRead, CancelRead, UserCheck, Check, Kept
  <2> QED BY <1>2, <2>1, <2>2, <2>3 DEF UserNext
<1>3. CASE ServerNext
  <2>1. ASSUME NEW d \in Cmds, DispatchAbort(d) PROVE Kept
    BY <2>1 DEF DispatchAbort, Removed, Kept
  <2>2. ASSUME NEW r \in req, Drop(r) PROVE Kept
    BY <2>2 DEF Drop, Kept
  <2>3. ASSUME NEW c \in Cmds, Expire(c) PROVE Kept
    BY <2>3, ExpireKeeps DEF Expire, Kept
  <2> QED BY <1>3, <2>1, <2>2, <2>3, KeptWrite DEF ServerNext
<1>4. ASSUME NEW b \in Bots, BotNext(b)
      PROVE  Kept \/ \E d \in Cmds, tgt \in Agents : DispatchRead(b, d, tgt)
  <2>1. ASSUME NEW c \in Cmds, Claim(b, c) \/ ClaimLost(b, c) PROVE Kept
    BY <2>1, KeptTaken DEF Claim, ClaimLost
  <2>2. ASSUME Finish(b) PROVE Kept
    BY <2>2 DEF Finish, Check, Kept
  <2>3. ASSUME Vanish(b) PROVE Kept
    BY <2>3 DEF Vanish, Kept
  <2> QED BY <1>4, <2>1, <2>2, <2>3 DEF BotNext
<1> QED BY <1>1, <1>2, <1>3, <1>4 DEF Next

\* The row a dispatch will insert, and what it read to get there.
LEMMA DispatchRow ==
    ASSUME CmdTypeOK, NEW b \in Bots, NEW d \in Cmds, NEW tgt \in Agents,
           DispatchRead(b, d, tgt)
    PROVE  \E row : /\ tx' = Inserted(tx, d, row) /\ row.src = AgentOf[b]
                    /\ row.depth \in Nat /\ row.depth < MaxDepth
                    /\ \/ row.hop = 0
                       \/ \E p \in DOMAIN cmd : row.hop = cmd[p].hop + 1
                                               /\ cmd[p].depth < row.depth
<1> DEFINE p == work[b]
           chain == IF p = None THEN d ELSE cmd[p].chain
           base(n) == NewCommand(AgentOf[b], tgt, chain, n, Resolve(AgentOf[b], tgt))
           row(n) == [base(n) EXCEPT
                        !.parent = p,
                        !.hop = IF p = None THEN 0 ELSE cmd[p].hop + 1]
<1>1. PICK n \in 0 .. MaxDepth : IsNextDepth(n, chain) /\ n < MaxDepth
                                 /\ tx' = Inserted(tx, d, row(n))
  BY DEF DispatchRead
<1>2. row(n).src = AgentOf[b] /\ row(n).depth = n
      /\ row(n).hop = IF p = None THEN 0 ELSE cmd[p].hop + 1
  BY DEF NewCommand
<1> HIDE DEF row
<1>3. p # None => p \in DOMAIN cmd /\ cmd[p].depth < n
  <2> SUFFICES ASSUME p # None PROVE p \in DOMAIN cmd /\ cmd[p].depth < n
    OBVIOUS
  <2>1. p \in InChain(chain)
    BY DEF CmdTypeOK, InChain
  <2> QED BY <1>1, <2>1 DEF IsNextDepth, InChain
<1>4. n \in Nat
  BY <1>1, CapsAssumption
<1> QED BY <1>1, <1>2, <1>3, <1>4

-----------------------------------------------------------------------------
(* The depth cap. *)

\* However requests overlap, a command's depth counts at least the dispatches
\* that led to it: no runaway chain outgrows the cap.
THEOREM HopsBoundedCorrect == Spec => []HopsBounded
<1>1. Init => HopsInv
  BY InitTypeOK DEF Init, HopsInv, HopsBounded
<1>2. HopsInv /\ [Next]_vars => HopsInv'
  <2> SUFFICES ASSUME HopsInv, [Next]_vars PROVE HopsInv'
    OBVIOUS
  <2>1. CmdTypeOK /\ CmdTypeOK'
    BY NextTypeOK DEF HopsInv
  <2>2. CASE Kept
    BY <2>1, <2>2 DEF Kept, HopsInv, HopsBounded
  <2>3. ASSUME NEW d \in Cmds, NEW c,
               Insert(d, c), c.src = User, c.hop = 0, c.depth = 0
        PROVE  HopsInv'
    BY <2>1, <2>3 DEF Insert, Inserted, HopsInv, HopsBounded
  <2>4. ASSUME NEW b \in Bots, NEW d \in Cmds, NEW tgt \in Agents,
               DispatchRead(b, d, tgt)
        PROVE  HopsInv'
    <3>1. PICK row : /\ tx' = Inserted(tx, d, row)
                     /\ row.depth \in Nat /\ row.depth < MaxDepth
                     /\ \/ row.hop = 0
                        \/ \E p \in DOMAIN cmd : row.hop = cmd[p].hop + 1
                                                /\ cmd[p].depth < row.depth
      BY <2>1, <2>4, DispatchRow
    <3>2. \A p \in DOMAIN cmd : cmd[p].hop \in Nat /\ cmd[p].depth \in Nat
                               /\ cmd[p].hop <= cmd[p].depth
      BY <2>1 DEF CmdTypeOK, IsTable, Command, HopsInv, HopsBounded
    <3>3. row.hop <= row.depth /\ row.hop < MaxDepth
      BY <3>1, <3>2, CapsAssumption
    <3>4. \A e \in DOMAIN tx' : tx'[e].hop <= tx'[e].depth /\ tx'[e].hop < MaxDepth
      BY <3>1, <3>3 DEF Inserted, HopsInv
    <3>5. cmd' = cmd
      BY <2>4 DEF DispatchRead
    <3> QED BY <2>1, <3>4, <3>5 DEF HopsInv, HopsBounded
  <2>5. ASSUME NEW d \in Cmds, DispatchCommit(d) PROVE HopsInv'
    BY <2>1, <2>5 DEF DispatchCommit, Inserted, Removed, HopsInv, HopsBounded
  <2> QED BY <2>1, <2>2, <2>3, <2>4, <2>5, StepKinds
<1>3. HopsInv => HopsBounded
  BY DEF HopsInv
<1> QED BY <1>1, <1>2, <1>3, PTL DEF Spec

-----------------------------------------------------------------------------
(* The daily cap. *)

\* A set with one more element.
LEMMA OneMore ==
    ASSUME NEW S, IsFiniteSet(S), NEW x
    PROVE  /\ IsFiniteSet(S \cup {x})
           /\ Cardinality(S \cup {x}) <= Cardinality(S) + 1
           /\ Cardinality(S \cup {x}) \in Nat
<1>1. IsFiniteSet(S \cup {x}) /\ Cardinality(S) \in Nat
      /\ Cardinality(S \cup {x}) = IF x \in S THEN Cardinality(S)
                                              ELSE Cardinality(S) + 1
  BY FS_AddElement, FS_CardinalityType
<1> QED BY <1>1

\* The two counts of an agent are numbers.
LEMMA CountsType ==
    ASSUME CapInv, NEW a
    PROVE  /\ IsFiniteSet(Recent(a)) /\ Cardinality(Recent(a)) \in Nat
           /\ IsFiniteSet(DispatchesOf(a)) /\ Cardinality(DispatchesOf(a)) \in Nat
           /\ IsFiniteSet(DOMAIN tx) /\ Cardinality(DOMAIN tx) \in Nat
<1>1. Recent(a) \subseteq issued /\ DispatchesOf(a) \subseteq issued
      /\ DOMAIN tx \subseteq issued
  BY DEF CapInv, CmdTypeOK, Recent, DispatchesOf
<1> QED BY <1>1, FS_Subset, FS_CardinalityType DEF CapInv

\* Counts that do not grow stay under the cap.
LEMMA FewerCounts ==
    ASSUME CapInv, NEW a \in Agents,
           Recent(a)' \subseteq Recent(a), DispatchesOf(a)' \subseteq DispatchesOf(a)
    PROVE  Cardinality(Recent(a)') + Cardinality(DispatchesOf(a)') < MaxPerDay + MaxOpen
<1>1. Cardinality(Recent(a)') <= Cardinality(Recent(a))
      /\ Cardinality(Recent(a)') \in Nat
  BY CountsType, FS_Subset, FS_CardinalityType
<1>2. Cardinality(DispatchesOf(a)') <= Cardinality(DispatchesOf(a))
      /\ Cardinality(DispatchesOf(a)') \in Nat
  BY CountsType, FS_Subset, FS_CardinalityType
<1>3. Cardinality(Recent(a)) + Cardinality(DispatchesOf(a)) < MaxPerDay + MaxOpen
  BY DEF CapInv
<1> QED BY <1>1, <1>2, <1>3, CountsType, CapsAssumption

\* An agent's recent commands outnumber its daily cap by less than the
\* requests the backend handles at once.
THEOREM CapOverrunCorrect == Spec => []CapOverrun
<1>1. Init => CapInv
  <2> SUFFICES ASSUME Init, NEW a \in Agents
      PROVE  /\ CmdTypeOK /\ IsFiniteSet(issued)
             /\ Cardinality(Recent(a)) + Cardinality(DispatchesOf(a))
                   < MaxPerDay + MaxOpen
    BY InitTypeOK, FS_EmptySet DEF CapInv, Init
  <2>1. Recent(a) = {} /\ DispatchesOf(a) = {}
    BY DEF Init, Recent, DispatchesOf
  <2>2. Cardinality({}) = 0 /\ IsFiniteSet(issued)
    BY FS_EmptySet DEF Init
  <2> QED BY <2>1, <2>2, InitTypeOK, CapsAssumption
<1>2. CapInv /\ [Next]_vars => CapInv'
  <2> SUFFICES ASSUME CapInv, [Next]_vars PROVE CapInv'
    OBVIOUS
  <2>1. CmdTypeOK /\ CmdTypeOK'
    BY NextTypeOK DEF CapInv
  <2>2. CASE Kept
    <3>1. \A a \in Agents : Recent(a)' \subseteq Recent(a)
                           /\ DispatchesOf(a)' \subseteq DispatchesOf(a)
      <4>1. cmd \in [DOMAIN cmd -> Command] /\ cmd' \in [DOMAIN cmd' -> Command]
        BY <2>1 DEF CmdTypeOK, IsTable
      <4> QED BY <2>2, <4>1 DEF Kept, Recent, DispatchesOf, Command
    <3> QED BY <2>1, <2>2, <3>1, FewerCounts DEF Kept, CapInv
  <2>3. ASSUME NEW d \in Cmds, NEW c, Insert(d, c), c.src = User
        PROVE  CapInv'
    <3>1. \A a \in Agents : Recent(a)' \subseteq Recent(a)
                           /\ DispatchesOf(a)' \subseteq DispatchesOf(a)
      BY <2>3, AgentsAssumption DEF Insert, Inserted, Recent, DispatchesOf
    <3>2. IsFiniteSet(issued')
      BY <2>3, FS_AddElement DEF Insert, CapInv
    <3> QED BY <2>1, <3>1, <3>2, FewerCounts DEF CapInv
  <2>4. ASSUME NEW b \in Bots, NEW d \in Cmds, NEW tgt \in Agents,
               DispatchRead(b, d, tgt)
        PROVE  CapInv'
    <3>1. PICK row : tx' = Inserted(tx, d, row) /\ row.src = AgentOf[b]
      BY <2>1, <2>4, DispatchRow
    <3>2. cmd' = cmd /\ issued' = issued \cup {d}
          /\ UnderDailyCap(AgentOf[b]) /\ Cardinality(DOMAIN tx) < MaxOpen
      BY <2>4 DEF DispatchRead
    <3>3. IsFiniteSet(issued')
      BY <3>2, FS_AddElement DEF CapInv
    <3>4. ASSUME NEW a \in Agents
          PROVE  Cardinality(Recent(a)') + Cardinality(DispatchesOf(a)')
                     < MaxPerDay + MaxOpen
      <4>1. Recent(a)' = Recent(a)
        BY <3>2 DEF Recent
      <4>2. CASE a = AgentOf[b]
        <5>1. DispatchesOf(a)' \subseteq DOMAIN tx \cup {d}
          BY <3>1 DEF DispatchesOf, Inserted
        <5>2. IsFiniteSet(DOMAIN tx \cup {d})
              /\ Cardinality(DOMAIN tx \cup {d}) <= Cardinality(DOMAIN tx) + 1
              /\ Cardinality(DOMAIN tx \cup {d}) \in Nat
          BY CountsType, OneMore
        <5>3. Cardinality(DispatchesOf(a)') <= Cardinality(DOMAIN tx \cup {d})
              /\ Cardinality(DispatchesOf(a)') \in Nat
          BY <5>1, <5>2, FS_Subset, FS_CardinalityType
        <5>4. Cardinality(Recent(a)) < MaxPerDay
          BY <3>2, <4>2 DEF UnderDailyCap
        <5> QED BY <3>2, <4>1, <5>2, <5>3, <5>4, CountsType, CapsAssumption
      <4>3. CASE a # AgentOf[b]
        <5>1. DispatchesOf(a)' \subseteq DispatchesOf(a)
          BY <3>1, <4>3 DEF DispatchesOf, Inserted
        <5> QED BY <4>1, <5>1, FewerCounts
      <4> QED BY <4>2, <4>3
    <3> QED BY <2>1, <3>3, <3>4 DEF CapInv
  <2>5. ASSUME NEW d \in Cmds, DispatchCommit(d) PROVE CapInv'
    <3>1. /\ d \in DOMAIN tx /\ cmd' = Inserted(cmd, d, tx[d])
          /\ tx' = Removed(tx, {d}) /\ issued' = issued
      BY <2>5 DEF DispatchCommit
    <3>2. ASSUME NEW a \in Agents
          PROVE  Cardinality(Recent(a)') + Cardinality(DispatchesOf(a)')
                     < MaxPerDay + MaxOpen
      <4>1. CASE tx[d].src = a
        <5>1. Recent(a)' \subseteq Recent(a) \cup {d}
          BY <3>1 DEF Recent, Inserted
        <5>2. DispatchesOf(a)' = DispatchesOf(a) \ {d} /\ d \in DispatchesOf(a)
          BY <3>1, <4>1 DEF DispatchesOf, Removed
        <5>3. IsFiniteSet(Recent(a) \cup {d})
              /\ Cardinality(Recent(a) \cup {d}) <= Cardinality(Recent(a)) + 1
              /\ Cardinality(Recent(a) \cup {d}) \in Nat
          BY CountsType, OneMore
        <5>4. Cardinality(Recent(a)') <= Cardinality(Recent(a)) + 1
              /\ Cardinality(Recent(a)') \in Nat
          BY <5>1, <5>3, CountsType, FS_Subset, FS_CardinalityType
        <5>5. Cardinality(DispatchesOf(a)') = Cardinality(DispatchesOf(a)) - 1
          BY <5>2, CountsType, FS_RemoveElement
        <5>6. Cardinality(Recent(a)) + Cardinality(DispatchesOf(a)) < MaxPerDay + MaxOpen
          BY DEF CapInv
        <5> QED BY <5>4, <5>5, <5>6, CountsType, CapsAssumption
      <4>2. CASE tx[d].src # a
        <5>1. Recent(a)' \subseteq Recent(a)
              /\ DispatchesOf(a)' \subseteq DispatchesOf(a)
          BY <3>1, <4>2 DEF Recent, DispatchesOf, Inserted, Removed
        <5> QED BY <5>1, FewerCounts
      <4> QED BY <4>1, <4>2
    <3> QED BY <2>1, <3>1, <3>2 DEF CapInv
  <2> QED BY <2>1, <2>2, <2>3, <2>4, <2>5, StepKinds
<1>3. CapInv => CapOverrun
  <2> SUFFICES ASSUME CapInv, NEW a \in Agents
      PROVE  Cardinality(Recent(a)) < MaxPerDay + MaxOpen
    BY DEF CapOverrun
  <2> QED BY CountsType, CapsAssumption DEF CapInv
<1> QED BY <1>1, <1>2, <1>3, PTL DEF Spec
=============================================================================
