----------------------------- MODULE ChatTurns -----------------------------
(***************************************************************************)
(* Conversations with agents: the per-agent threads and the team           *)
(* conversations (backend/main.py), whose questions become turns that an   *)
(* agent's bots claim, stream and complete (sdk/lightsei/_chat.py).        *)
(*                                                                         *)
(* Claiming locks the turn's row.  A chunk and a completion do not: they   *)
(* read the row, and write by key the columns that change.  A bot waits    *)
(* for each of its calls up to a timeout; a call it gave up on may still   *)
(* be carried out, late, or never arrive.                                  *)
(*                                                                         *)
(* Abstractions.  A turn's text is the numbers of the chunks in it; a      *)
(* reply that is not streamed is a stream of one.  Ids are places in       *)
(* created_at order.  Titles, prompts and the history handed to the bot    *)
(* are left out, and so is which of its two surfaces a poller tries first. *)
(* stream is history: what the bot of a turn has posted, and whether it    *)
(* gave up on a call.                                                      *)
(*                                                                         *)
(* A definition marked "broken" is no part of the model: it is the one     *)
(* below it with a plausible bug, there to show that a property notices.   *)
(***************************************************************************)
EXTENDS Naturals, FiniteSets, Sequences, Tables

CONSTANTS
    Convs,          \* conversations
    TeamConvs,      \* those addressed to the team, others to one agent
    Questions,      \* ids of the messages users may post
    Turns,          \* ids of the turns that may come of them
    Agents,
    Bots,           \* bot processes
    Nobody,         \* whose a call is once its bot gave up
    AgentOf,        \* the agent a bot runs, or a thread belongs to
    MaxChunks,      \* bound on the chunks of a reply
    MaxChatFaults   \* bound on timeouts, deaths and lost answers

ASSUME ChatAssumption ==
    /\ TeamConvs \subseteq Convs
    /\ Turns \subseteq Nat \ {0} /\ {MaxChunks, MaxChatFaults} \subseteq Nat
    /\ AgentOf \in [Bots \cup (Convs \ TeamConvs) -> Agents]

VARIABLES
    conv,           \* conversations that have not been deleted
    question,       \* the users' messages: a function on their ids
    turn,           \* the assistants' messages: a function on their ids
    poller,         \* the chat poller of each bot
    call,           \* chunks and completions on their way or in the server
    stream,         \* what was posted for each turn
    chatFaults      \* timeouts, deaths and lost answers so far

chatVars == <<conv, question, turn, poller, call, stream, chatFaults>>

NoTurn == 0

Question == [conv : Convs, state : {"routing", "routed", "error", "silent"}]

Open == {"pending", "in_progress"}
Done == {"completed", "failed"}     \* a team message's failure reads "error"

Turn == [conv : Convs, question : Questions, agent : Agents,
         status : Open \cup Done, text : Seq(1 .. MaxChunks)]

\* idle      between two claims
\* replying  the handler runs, or its stream is read
\* waiting   for the answer to a chunk
\* ending    for the answer to the completion
Poller == [pc : {"idle", "replying", "waiting", "ending"},
           turn : Turns \cup {NoTurn}]

IdlePoller == [pc |-> "idle", turn |-> NoTurn]

ASSUME NobodyAssumption == Nobody \notin Bots

NotRead == [status |-> "none", text |-> <<>>]

Call == [by : Bots \cup {Nobody}, turn : Turns,
         kind : {"chunk", "keep", "content", "error"}, delta : 0 .. MaxChunks,
         seen : [status : Open \cup {"none"}, text : Seq(1 .. MaxChunks)]]

ChatFault == chatFaults < MaxChatFaults /\ chatFaults' = chatFaults + 1

-----------------------------------------------------------------------------
(* Users. *)

NewTurn(q, c, a) == [conv |-> c, question |-> q, agent |-> a,
                     status |-> "pending", text |-> <<>>]

FreshTurns(T) == /\ T \subseteq Turns \ DOMAIN stream
                 /\ \A t \in T, k \in Turns \ (DOMAIN stream \cup T) : t < k

\* Turns for the agents that `new`, a function on their ids, names.
Posted(q, c, new) ==
    /\ FreshTurns(DOMAIN new)
    /\ turn' = [t \in DOMAIN turn \cup DOMAIN new |->
                   IF t \in DOMAIN new THEN NewTurn(q, c, new[t]) ELSE turn[t]]
    /\ stream' = [t \in DOMAIN stream \cup DOMAIN new |->
                   IF t \in DOMAIN new THEN [sent |-> 0, whole |-> TRUE]
                   ELSE stream[t]]

\* A message to one agent and its turn are one transaction.
PostToThread(c, q, t) ==
    /\ c \in conv \ TeamConvs
    /\ q \in Questions \ DOMAIN question
    /\ question' = Inserted(question, q, [conv |-> c, state |-> "routed"])
    /\ Posted(q, c, [k \in {t} |-> AgentOf[c]])
    /\ UNCHANGED <<conv, poller, call, chatFaults>>

\* A message to the team is committed before the router is asked.
PostToTeam(c, q) ==
    /\ c \in conv \cap TeamConvs
    /\ q \in Questions \ DOMAIN question
    /\ question' = Inserted(question, q, [conv |-> c, state |-> "routing"])
    /\ UNCHANGED <<conv, turn, poller, call, stream, chatFaults>>

Routing(q) == q \in DOMAIN question /\ question[q].state = "routing"

\* The router's row and a turn for each agent it picked, each agent once.
Route(q) ==
    /\ Routing(q)
    /\ \E T \in SUBSET Turns : \E new \in [T -> Agents] :
          /\ \A s, t \in T : new[s] = new[t] => s = t
          /\ Posted(q, question[q].conv, new)
    /\ question' = [question EXCEPT ![q].state = "routed"]
    /\ UNCHANGED <<conv, poller, call, chatFaults>>

RouteError(q) ==
    /\ Routing(q)
    /\ question' = [question EXCEPT ![q].state = "error"]
    /\ UNCHANGED <<conv, turn, poller, call, stream, chatFaults>>

\* The request dies while the router is asked.
RouteDies(q) ==
    /\ Routing(q)
    /\ ChatFault
    /\ question' = [question EXCEPT ![q].state = "silent"]
    /\ UNCHANGED <<conv, turn, poller, call, stream>>

\* A conversation goes with its messages.  A request that routes one of them
\* fails for want of the conversation.
DeleteConv(c) ==
    /\ c \in conv
    /\ conv' = conv \ {c}
    /\ question' = Removed(question, {q \in DOMAIN question : question[q].conv = c})
    /\ turn' = Removed(turn, {t \in DOMAIN turn : turn[t].conv = c})
    /\ UNCHANGED <<poller, call, stream, chatFaults>>

-----------------------------------------------------------------------------
(* The bots' pollers. *)

\* broken: a turn whose bot went away is handed out again.
Claimable_Resumed(t) == turn[t].status \in Open

ClaimableTurn(t) == turn[t].status = "pending"

\* The oldest pending turn of the agent on one surface, FOR UPDATE SKIP LOCKED.
ClaimedTurn(a, t) ==
    LET mine == {k \in DOMAIN turn : /\ turn[k].agent = a /\ ClaimableTurn(k)
                                     /\ (turn[k].conv \in TeamConvs)
                                           = (turn[t].conv \in TeamConvs)}
    IN  /\ t \in DOMAIN turn /\ t \in mine
        /\ \A k \in mine : t <= k
        /\ turn' = [turn EXCEPT ![t].status = "in_progress"]

ClaimTurn(b, t) ==
    /\ poller[b].pc = "idle"
    /\ ClaimedTurn(AgentOf[b], t)
    /\ poller' = [poller EXCEPT ![b] = [pc |-> "replying", turn |-> t]]
    /\ UNCHANGED <<conv, question, call, stream, chatFaults>>

\* The claim is committed and its answer is lost.
ClaimTurnLost(b, t) ==
    /\ poller[b].pc = "idle"
    /\ ChatFault
    /\ ClaimedTurn(AgentOf[b], t)
    /\ UNCHANGED <<conv, question, poller, call, stream>>

NewCall(b, kind, delta) ==
    [by |-> b, turn |-> poller[b].turn, kind |-> kind, delta |-> delta,
     seen |-> NotRead]

\* The stream yields another chunk, which is posted.
Yield(b) ==
    LET t == poller[b].turn
        n == stream[t].sent + 1
    IN  /\ poller[b].pc = "replying" /\ n <= MaxChunks
        /\ call' = call \cup {NewCall(b, "chunk", n)}
        /\ poller' = [poller EXCEPT ![b].pc = "waiting"]
        /\ stream' = [stream EXCEPT ![t].sent = n]
        /\ UNCHANGED <<conv, question, turn, chatFaults>>

\* The handler returns, its stream ends, or either raises.
Reply(b) ==
    LET t == poller[b].turn
    IN  /\ poller[b].pc = "replying"
        /\ \/ /\ stream[t].sent = 0 /\ MaxChunks > 0
              /\ call' = call \cup {NewCall(b, "content", 1)}
              /\ stream' = [stream EXCEPT ![t].sent = 1]
           \/ /\ \E kind \in {"keep", "error"} :
                    call' = call \cup {NewCall(b, kind, 0)}
              /\ UNCHANGED stream
        /\ poller' = [poller EXCEPT ![b].pc = "ending"]
        /\ UNCHANGED <<conv, question, turn, chatFaults>>

\* broken: a poller drops its turn with the first call that fails.
GoesOn_Drops(b) == IdlePoller

\* What a poller does once its call is answered, or given up: failures of a
\* chunk or a completion are logged and nothing is posted twice.
GoesOn(b) == IF poller[b].pc = "waiting" THEN [poller[b] EXCEPT !.pc = "replying"]
             ELSE IdlePoller

\* A call times out, delayed or lost on its way.
GiveUp(b, c) ==
    /\ c \in call /\ c.by = b
    /\ ChatFault
    /\ \/ call' = (call \ {c}) \cup {[c EXCEPT !.by = Nobody]}
       \/ call' = call \ {c}
    /\ poller' = [poller EXCEPT ![b] = GoesOn(b)]
    /\ stream' = [stream EXCEPT ![c.turn].whole = FALSE]
    /\ UNCHANGED <<conv, question, turn>>

\* A bot dies or is stopped, and comes back without its turn.
BotDies(b) ==
    /\ poller[b].pc # "idle"
    /\ ChatFault
    /\ poller' = [poller EXCEPT ![b] = IdlePoller]
    /\ call' = {IF c.by = b THEN [c EXCEPT !.by = Nobody] ELSE c : c \in call}
    /\ stream' = [stream EXCEPT ![poller[b].turn].whole = FALSE]
    /\ UNCHANGED <<conv, question, turn>>

-----------------------------------------------------------------------------
(* Chunks and completions in the server. *)

Answered(c) ==
    /\ call' = call \ {c}
    /\ poller' = [b \in Bots |-> IF c.by = b THEN GoesOn(b) ELSE poller[b]]

Refused(c) == c.turn \in DOMAIN turn => turn[c.turn].status \notin Open

\* 404, or 400 "message already ...".
Refuse(c) ==
    /\ c \in call /\ c.seen = NotRead /\ Refused(c)
    /\ Answered(c)
    /\ UNCHANGED <<conv, question, turn, stream, chatFaults>>

ReadTurn(c) ==
    /\ c \in call /\ c.seen = NotRead /\ ~Refused(c)
    /\ call' = (call \ {c}) \cup
                  {[c EXCEPT !.seen = [status |-> turn[c.turn].status,
                                       text |-> turn[c.turn].text]]}
    /\ UNCHANGED <<conv, question, turn, poller, stream, chatFaults>>

\* broken: a chunk writes the status it read together with the content.
Appended_Row(c) ==
    [turn EXCEPT ![c.turn].text = Append(c.seen.text, c.delta),
                 ![c.turn].status = "in_progress"]

Appended(c) ==
    [turn EXCEPT ![c.turn].text = Append(c.seen.text, c.delta),
                 ![c.turn].status = IF c.seen.status = "pending"
                                    THEN "in_progress" ELSE @]

\* A given content is final; without one the chunks stay.
Completed(c) ==
    [turn EXCEPT ![c.turn].status = IF c.kind = "error" THEN "failed"
                                    ELSE "completed",
                 ![c.turn].text = IF c.kind = "content" THEN <<c.delta>> ELSE @]

\* A row that was deleted since it was read is not written.
WriteTurn(c) ==
    /\ c \in call /\ c.seen # NotRead
    /\ IF c.turn \notin DOMAIN turn THEN UNCHANGED turn
       ELSE turn' = IF c.kind = "chunk" THEN Appended(c) ELSE Completed(c)
    /\ Answered(c)
    /\ UNCHANGED <<conv, question, stream, chatFaults>>

-----------------------------------------------------------------------------
ChatInit ==
    /\ conv = Convs
    /\ question = EmptyTable
    /\ turn = EmptyTable
    /\ poller = [b \in Bots |-> IdlePoller]
    /\ call = {}
    /\ stream = EmptyTable
    /\ chatFaults = 0

ChatUserNext ==
    \/ \E c \in Convs : DeleteConv(c)
    \/ \E c \in Convs, q \in Questions :
          PostToTeam(c, q) \/ \E t \in Turns : PostToThread(c, q, t)
    \/ \E q \in Questions : Route(q) \/ RouteError(q) \/ RouteDies(q)

PollerNext(b) ==
    \/ \E t \in Turns : ClaimTurn(b, t) \/ ClaimTurnLost(b, t)
    \/ Yield(b) \/ Reply(b) \/ BotDies(b)
    \/ \E c \in call : GiveUp(b, c)

ServerNext == \E c \in call : Refuse(c) \/ ReadTurn(c) \/ WriteTurn(c)

ChatNext == ChatUserNext \/ ServerNext \/ \E b \in Bots : PollerNext(b)

ChatSpec == ChatInit /\ [][ChatNext]_chatVars

-----------------------------------------------------------------------------
\* A turn is worked on by one bot, while it is in progress and only then:
\* overlapping bots of an agent never answer the same turn.
OneBotPerTurn ==
    \A b \in Bots : poller[b].pc \in {"replying", "waiting"} =>
        LET t == poller[b].turn
        IN  /\ t \in DOMAIN turn => turn[t].status = "in_progress"
            /\ \A o \in Bots \ {b} : poller[o].turn # t

\* Messages and calls keep their types; a bot that is not idle has a turn, and
\* exactly one call while it waits for one; no two bots have the same turn.
ChatTypeOK ==
    /\ conv \subseteq Convs
    /\ IsTable(question, Questions, Question)
    /\ IsTable(turn, Turns, Turn)
    /\ poller \in [Bots -> Poller]
    /\ call \subseteq Call
    /\ IsTable(stream, Turns, [sent : 0 .. MaxChunks, whole : BOOLEAN])
    /\ DOMAIN turn \subseteq DOMAIN stream
    /\ chatFaults \in 0 .. MaxChatFaults
    /\ \A b \in Bots :
          /\ poller[b].pc = "idle" <=> poller[b].turn = NoTurn
          /\ poller[b].turn \in DOMAIN stream \cup {NoTurn}
          /\ LET mine == {c \in call : c.by = b}
             IN  IF poller[b].pc \in {"waiting", "ending"}
                 THEN Cardinality(mine) = 1 ELSE mine = {}
    /\ OneBotPerTurn

\* A completed reply is its stream, whole and in order, unless the bot gave
\* up on one of its calls; and even then no chunk is in it twice.
StreamIntact ==
    \A t \in DOMAIN turn :
        /\ turn[t].status = "completed" /\ stream[t].whole =>
              turn[t].text = [i \in 1 .. stream[t].sent |-> i]
        /\ \A i, j \in DOMAIN turn[t].text :
              turn[t].text[i] = turn[t].text[j] => i = j

\* A completed or failed turn keeps its status, and its text too unless a bot
\* gave up on a call of it: a late chunk never reopens a conversation.
FinalStays ==
    [][\A t \in DOMAIN turn \cap DOMAIN turn' :
          turn[t].status \in Done =>
              /\ turn'[t].status = turn[t].status
              /\ stream[t].whole => turn'[t].text = turn[t].text]_chatVars

\* Turns that stay in progress for ever and questions nobody answers: nobody
\* works on them, and no call is left that could end them.
Stuck ==
    {t \in DOMAIN turn :
        /\ turn[t].status = "in_progress"
        /\ \A b \in Bots : poller[b].turn # t
        /\ \A c \in call : c.turn = t => c.kind = "chunk"}
Silent == {q \in DOMAIN question : question[q].state = "silent"}

\* Each of them took a fault of its own.
StuckPerFault == Cardinality(Stuck) + Cardinality(Silent) <= chatFaults

=============================================================================
