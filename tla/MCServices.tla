----------------------------- MODULE MCServices -----------------------------
(***************************************************************************)
(* The services around bots, commands and triggers on small instances.     *)
(* They share no state, so a behaviour is of one of them: the others stay  *)
(* as they are initially.                                                  *)
(***************************************************************************)
EXTENDS ChatTurns, WidgetInbox, EventPipeline, SlackEvents, Feeders, Admission,
        Invites, Accounts, Billing, Spending, Connectors

VARIABLE part       \* the service that moves

Parts == {"chat", "widget", "pipe", "slack", "feeders", "hosts", "rates",
          "invites", "accounts", "billing", "spending", "judging",
          "connectors"}

serviceVars == <<chatVars, widgetVars, pipeVars, slackVars, feederVars,
                 admissionVars, inviteVars, accountVars, billingVars,
                 spendVars, connectorVars>>

Init ==
    /\ part \in Parts
    /\ ChatInit /\ WidgetInit /\ PipeInit /\ SlackInit /\ FeedersInit
    /\ AdmissionInit /\ InvitesInit /\ AccountsInit /\ BillingInit
    /\ SpendingInit /\ ConnectorsInit
    /\ part # "invites" => person = {}
    /\ part # "judging" => echo = JudgeModel

\* Generations, posts and evaluations of one run; or evaluations of every run.
OneRun ==
    \A j \in EvalJobs :
        work[j].left \cup work[j].verdicts \subseteq {CHOOSE r \in EndedRuns : TRUE}
NoGeneration == \A j \in GenJobs : work[j].stage = "new"

Next ==
    \/ /\ part = "chat" /\ ChatNext
       /\ UNCHANGED <<part, widgetVars, pipeVars, slackVars, feederVars,
                      admissionVars, inviteVars, accountVars, billingVars,
                      spendVars, connectorVars>>
    \/ /\ part = "widget" /\ WidgetNext
       /\ UNCHANGED <<part, chatVars, pipeVars, slackVars, feederVars,
                      admissionVars, inviteVars, accountVars, billingVars,
                      spendVars, connectorVars>>
    \/ /\ part = "pipe" /\ PipeNext
       /\ UNCHANGED <<part, chatVars, widgetVars, slackVars, feederVars,
                      admissionVars, inviteVars, accountVars, billingVars,
                      spendVars, connectorVars>>
    \/ /\ part = "slack" /\ SlackNext
       /\ UNCHANGED <<part, chatVars, widgetVars, pipeVars, feederVars,
                      admissionVars, inviteVars, accountVars, billingVars,
                      spendVars, connectorVars>>
    \/ /\ part = "feeders" /\ FeedersNext
       /\ UNCHANGED <<part, chatVars, widgetVars, pipeVars, slackVars,
                      admissionVars, inviteVars, accountVars, billingVars,
                      spendVars, connectorVars>>
    \/ /\ \/ part = "hosts" /\ (Tick \/ HostNext)
          \/ part = "rates" /\ (Tick \/ RateNext)
       /\ UNCHANGED <<part, chatVars, widgetVars, pipeVars, slackVars,
                      feederVars, inviteVars, accountVars, billingVars,
                      spendVars, connectorVars>>
    \/ /\ part = "invites" /\ InvitesNext
       /\ UNCHANGED <<part, chatVars, widgetVars, pipeVars, slackVars,
                      feederVars, admissionVars, accountVars, billingVars,
                      spendVars, connectorVars>>
    \/ /\ part = "accounts" /\ AccountsNext
       /\ UNCHANGED <<part, chatVars, widgetVars, pipeVars, slackVars,
                      feederVars, admissionVars, inviteVars, billingVars,
                      spendVars, connectorVars>>
    \/ /\ part = "billing" /\ BillingNext
       /\ UNCHANGED <<part, chatVars, widgetVars, pipeVars, slackVars,
                      feederVars, admissionVars, inviteVars, accountVars,
                      spendVars, connectorVars>>
    \/ /\ SpendingNext
       /\ \/ part = "spending" /\ OneRun'
          \/ part = "judging" /\ NoGeneration'
       /\ UNCHANGED <<part, chatVars, widgetVars, pipeVars, slackVars,
                      feederVars, admissionVars, inviteVars, accountVars,
                      billingVars, connectorVars>>
    \/ /\ part = "connectors" /\ ConnectorsNext
       /\ UNCHANGED <<part, chatVars, widgetVars, pipeVars, slackVars,
                      feederVars, admissionVars, inviteVars, accountVars,
                      billingVars, spendVars>>

Spec == Init /\ [][Next]_<<part, serviceVars>>

\* Every service keeps its types and its keys.
ServicesTypeOK ==
    /\ ChatTypeOK /\ WidgetTypeOK /\ PipeTypeOK /\ SlackTypeOK /\ FeedersTypeOK
    /\ AdmissionTypeOK /\ InvitesTypeOK /\ AccountsTypeOK /\ BillingTypeOK
    /\ SpendingTypeOK /\ ConnectorsTypeOK

MCAgentOf == [x \in {"b1", "b2", "c1"} |-> "a1"]
=============================================================================
