---------------------------- MODULE WidgetInbox ----------------------------
(***************************************************************************)
(* The chat widget and the operators' inbox: a visitor's message           *)
(* (backend/main.py) becomes a job (backend/widget_orchestrator.py), the   *)
(* job a command, and the command a reply or an escalation by the bot      *)
(* (sdk/lightsei/_chat.py), while operators take over and resolve.         *)
(*                                                                         *)
(* No handler locks the conversation.  Each reads its status, refuses or   *)
(* goes on, and commits later; the commit writes the status whatever it    *)
(* has become since.                                                       *)
(*                                                                         *)
(* Abstractions.  hop is where a message has got to: its request, its job, *)
(* its command, the bot's call, or how it ended.  Both queues hand out a   *)
(* row once, which JobsRunner and CommandQueue are about.  A conversation  *)
(* and its escalations are known by the message they come from.  Operators'*)
(* own replies, the thread's texts and push notifications are left out.    *)
(*                                                                         *)
(* A definition marked "broken" is no part of the model: it is the one     *)
(* below it with a plausible bug, there to show that a property notices.   *)
(***************************************************************************)
EXTENDS Naturals, FiniteSets, Tables

CONSTANTS
    WConvs,         \* conversations that visitors may start
    Messages,       \* messages that visitors may post
    Operators,
    MaxInboxFaults  \* bound on losses, deaths and withdrawn capabilities

ASSUME InboxAssumption == MaxInboxFaults \in Nat

VARIABLES
    wstatus,        \* status of each conversation, "none" before its first post
    message,        \* the visitors' messages: a function on their ids
    escalation,     \* escalations, by the message whose handling opened them
    desk,           \* the inbox request of each operator
    granted,        \* the bot's capabilities; none if its row is gone
    inboxFaults

widgetVars == <<wstatus, message, escalation, desk, granted, inboxFaults>>

Capabilities == {"widget:respond", "widget:escalate"}

Status == {"none", "open", "escalated", "operator_owned", "resolved"}

Unread == "unread"

\* answered  the bot replied
\* told      another message said that no bot can
\* declined  the handler chose to say nothing
\* left      for people to deal with
\* lost
Endings == {"answered", "told", "declined", "left", "lost"}

Hops == {"posting", "job", "routing", "command", "handler", "responding",
         "escalating"} \cup Endings

Message == [conv : WConvs, hop : Hops, seen : Status \cup {Unread}, replies : 0 .. 1]

DeskIdle == [kind |-> "idle", conv |-> {}, open |-> {}]

InboxFault == inboxFaults < MaxInboxFaults /\ inboxFaults' = inboxFaults + 1

At(m, hop) == m \in DOMAIN message /\ message[m].hop = hop

Seen(m) == message[m].seen

\* The message moves on.
Goes(m, hop) == message' = [message EXCEPT ![m].hop = hop, ![m].seen = Unread]

ReadsStatus(m) == message' = [message EXCEPT ![m].seen = wstatus[message[m].conv]]

-----------------------------------------------------------------------------
(* The visitor. *)

\* A post without a conversation starts one, of which nobody else knows yet.
MessageRead(m, c) ==
    /\ m \in Messages \ DOMAIN message
    /\ wstatus[c] = "none" => \A o \in DOMAIN message : message[o].conv # c
    /\ message' = Inserted(message, m,
          [conv |-> c, hop |-> "posting", seen |-> wstatus[c], replies |-> 0])
    /\ UNCHANGED <<wstatus, escalation, desk, granted, inboxFaults>>

\* The message, its job and a new conversation are one transaction.  Only a
\* conversation that an operator owns gets no job.
MessageCommit(m) ==
    /\ At(m, "posting")
    /\ Goes(m, IF Seen(m) = "operator_owned" THEN "left" ELSE "job")
    /\ wstatus' = IF Seen(m) = "none"
                  THEN [wstatus EXCEPT ![message[m].conv] = "open"] ELSE wstatus
    /\ UNCHANGED <<escalation, desk, granted, inboxFaults>>

-----------------------------------------------------------------------------
(* run_widget_chat_job, and the command it enqueues. *)

JobStart(m) ==
    /\ At(m, "job")
    /\ message' = [message EXCEPT ![m].hop = "routing",
                                  ![m].seen = wstatus[message[m].conv]]
    /\ UNCHANGED <<wstatus, escalation, desk, granted, inboxFaults>>

JobCommit(m) ==
    /\ At(m, "routing")
    /\ \/ Seen(m) \in {"resolved", "operator_owned"} /\ Goes(m, "left")
       \/ /\ Seen(m) \notin {"resolved", "operator_owned"}
          /\ Goes(m, IF "widget:respond" \in granted THEN "command" ELSE "told")
    /\ UNCHANGED <<wstatus, escalation, desk, granted, inboxFaults>>

CommandClaim(m) ==
    /\ At(m, "command")
    /\ Goes(m, "handler")
    /\ UNCHANGED <<wstatus, escalation, desk, granted, inboxFaults>>

\* A process dies with the message, its command expires, a handler returns
\* what is no text, or a call is lost on its way: nobody tries again.
MessageLost(m) ==
    /\ m \in DOMAIN message
    /\ message[m].hop \in {"routing", "command", "handler", "responding",
                           "escalating"}
    /\ InboxFault
    /\ Goes(m, "lost")
    /\ UNCHANGED <<wstatus, escalation, desk, granted>>

-----------------------------------------------------------------------------
(* The bridge in the bot: what the handler returns is posted, what it      *)
(* raises, and having none, escalates.                                     *)

\* broken: an exception of the handler is only logged.
HandlerRaises_Logged(m) ==
    /\ At(m, "handler")
    /\ Goes(m, "lost")
    /\ UNCHANGED <<wstatus, escalation, desk, granted, inboxFaults>>

HandlerRaises(m) ==
    /\ At(m, "handler")
    /\ Goes(m, "escalating")
    /\ UNCHANGED <<wstatus, escalation, desk, granted, inboxFaults>>

HandlerReturns(m) ==
    /\ At(m, "handler")
    /\ Goes(m, "responding") \/ Goes(m, "declined")
    /\ UNCHANGED <<wstatus, escalation, desk, granted, inboxFaults>>

\* 403 without the capability, 409 once resolved: either is logged.
RespondRead(m) ==
    /\ At(m, "responding") /\ Seen(m) = Unread
    /\ IF "widget:respond" \notin granted THEN Goes(m, "lost")
       ELSE IF wstatus[message[m].conv] = "resolved" THEN Goes(m, "left")
       ELSE ReadsStatus(m)
    /\ UNCHANGED <<wstatus, escalation, desk, granted, inboxFaults>>

RespondCommit(m) ==
    /\ At(m, "responding") /\ Seen(m) # Unread
    /\ message' = [message EXCEPT ![m].hop = "answered", ![m].replies = @ + 1,
                                  ![m].seen = Unread]
    /\ UNCHANGED <<wstatus, escalation, desk, granted, inboxFaults>>

\* A conversation that is with people already stays as it is.
EscalateRead(m) ==
    /\ At(m, "escalating") /\ Seen(m) = Unread
    /\ IF "widget:escalate" \notin granted THEN Goes(m, "lost")
       ELSE IF wstatus[message[m].conv] # "open" THEN Goes(m, "left")
       ELSE ReadsStatus(m)
    /\ UNCHANGED <<wstatus, escalation, desk, granted, inboxFaults>>

EscalateCommit(m) ==
    /\ At(m, "escalating") /\ Seen(m) # Unread
    /\ escalation' = Inserted(escalation, m, "open")
    /\ wstatus' = [wstatus EXCEPT ![message[m].conv] = "escalated"]
    /\ Goes(m, "left")
    /\ UNCHANGED <<desk, granted, inboxFaults>>

-----------------------------------------------------------------------------
(* The operators. *)

DeskRefused(kind, s) ==
    \/ s \in {"none", "resolved"}
    \/ kind = "take_over" /\ s = "operator_owned"

\* Already done, or 409: nothing happens.
DeskRead(o, kind, c) ==
    /\ desk[o] = DeskIdle
    /\ ~DeskRefused(kind, wstatus[c])
    /\ desk' = [desk EXCEPT ![o] = [kind |-> kind, conv |-> {c}, open |-> {}]]
    /\ UNCHANGED <<wstatus, message, escalation, granted, inboxFaults>>

OpenOf(C) == {e \in DOMAIN escalation :
                 escalation[e] = "open" /\ message[e].conv \in C}

\* Resolving selects the open escalations before it writes anything.
ResolveSelect(o) ==
    /\ desk[o].kind = "resolve"
    /\ desk' = [desk EXCEPT ![o].kind = "resolving", ![o].open = OpenOf(desk[o].conv)]
    /\ UNCHANGED <<wstatus, message, escalation, granted, inboxFaults>>

DeskCommit(o) ==
    /\ desk[o].kind \in {"take_over", "resolving"}
    /\ wstatus' = [c \in WConvs |->
                     IF c \notin desk[o].conv THEN wstatus[c]
                     ELSE IF desk[o].kind = "take_over" THEN "operator_owned"
                     ELSE "resolved"]
    /\ escalation' = [e \in DOMAIN escalation |->
                     IF e \in desk[o].open THEN "closed" ELSE escalation[e]]
    /\ desk' = [desk EXCEPT ![o] = DeskIdle]
    /\ UNCHANGED <<message, granted, inboxFaults>>

\* Designating the bot grants both capabilities.
Grant ==
    /\ granted' = Capabilities
    /\ UNCHANGED <<wstatus, message, escalation, desk, inboxFaults>>

\* A capability is taken away, or the bot is deleted.
Withdraw ==
    /\ InboxFault
    /\ granted' \in SUBSET granted \ {granted}
    /\ UNCHANGED <<wstatus, message, escalation, desk>>

-----------------------------------------------------------------------------
WidgetInit ==
    /\ wstatus = [c \in WConvs |-> "none"]
    /\ message = EmptyTable
    /\ escalation = EmptyTable
    /\ desk = [o \in Operators |-> DeskIdle]
    /\ granted = Capabilities
    /\ inboxFaults = 0

MessageNext(m) ==
    \/ \E c \in WConvs : MessageRead(m, c)
    \/ MessageCommit(m) \/ JobStart(m) \/ JobCommit(m) \/ CommandClaim(m)
    \/ HandlerRaises(m) \/ HandlerReturns(m) \/ MessageLost(m)
    \/ RespondRead(m) \/ RespondCommit(m)
    \/ EscalateRead(m) \/ EscalateCommit(m)

DeskNext(o) ==
    \/ \E kind \in {"take_over", "resolve"}, c \in WConvs : DeskRead(o, kind, c)
    \/ ResolveSelect(o) \/ DeskCommit(o)

WidgetNext ==
    \/ \E m \in Messages : MessageNext(m)
    \/ \E o \in Operators : DeskNext(o)
    \/ Grant \/ Withdraw

WidgetSpec == WidgetInit /\ [][WidgetNext]_widgetVars

-----------------------------------------------------------------------------
\* Rows and requests keep their types, an escalation has its message, and no
\* message is answered twice.
WidgetTypeOK ==
    /\ wstatus \in [WConvs -> Status]
    /\ IsTable(message, Messages, Message)
    /\ IsTable(escalation, DOMAIN message, {"open", "closed"})
    /\ desk \in [Operators ->
          [kind : {"idle", "take_over", "resolve", "resolving"},
           conv : SUBSET WConvs, open : SUBSET DOMAIN escalation]]
    /\ granted \subseteq Capabilities
    /\ inboxFaults \in 0 .. MaxInboxFaults

\* Nobody is forgotten.  What the inbox shows as escalated has an escalation to
\* resolve, although escalating, taking over and resolving overwrite each other's
\* status.  And a message that went through and got no answer was declined, or
\* explained, or its conversation is not open any more, so that an operator has
\* it or had it; unless something was lost or withdrawn.
NobodyForgotten ==
    /\ \A c \in WConvs : wstatus[c] = "escalated" => OpenOf({c}) # {}
    /\ inboxFaults = 0 =>
          \A m \in DOMAIN message :
              message[m].hop \in {"left", "lost"} =>
                  wstatus[message[m].conv] # "open"

=============================================================================
