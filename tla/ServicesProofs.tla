--------------------------- MODULE ServicesProofs ---------------------------
(***************************************************************************)
(* The services of MCServices together: a step of the composition is a     *)
(* step of one service, or leaves it alone, so that every behaviour of the *)
(* composition is one of each service, and what is proved of a service     *)
(* holds next to all others.                                               *)
(***************************************************************************)
EXTENDS MCServices, ConversationProofs, EventProofs, WorkspaceProofs

\* It starts as each service does, and is a behaviour of each.
LEMMA SpecOfEach ==
    Spec => /\ ChatSpec /\ WidgetSpec /\ PipeSpec /\ SlackSpec /\ FeedersSpec
            /\ AdmissionSpec /\ InvitesSpec /\ AccountsSpec /\ BillingSpec
            /\ SpendingSpec /\ ConnectorsSpec
<1>1. Init => /\ ChatInit /\ WidgetInit /\ PipeInit /\ SlackInit /\ FeedersInit
              /\ AdmissionInit /\ InvitesInit /\ AccountsInit /\ BillingInit
              /\ SpendingInit /\ ConnectorsInit
  BY DEF Init
<1>2. [Next]_<<part, serviceVars>> =>
         /\ [ChatNext]_chatVars /\ [WidgetNext]_widgetVars /\ [PipeNext]_pipeVars
         /\ [SlackNext]_slackVars /\ [FeedersNext]_feederVars
         /\ [InvitesNext]_inviteVars /\ [AccountsNext]_accountVars
         /\ [BillingNext]_billingVars /\ [SpendingNext]_spendVars
         /\ [ConnectorsNext]_connectorVars
  BY DEF Next, serviceVars
<1>3. [Next]_<<part, serviceVars>> => [AdmissionNext]_admissionVars
  BY DEF Next, serviceVars, AdmissionNext
<1> QED
  BY <1>1, <1>2, <1>3, PTL
     DEF Spec, ChatSpec, WidgetSpec, PipeSpec, SlackSpec, FeedersSpec, AdmissionSpec,
         InvitesSpec, AccountsSpec, BillingSpec, SpendingSpec, ConnectorsSpec

\* Every service keeps its types and its keys, whichever moves: the tables of
\* main.py, what the bots' clients hold, and what requests have read of either.
THEOREM ServicesTypesOK == Spec => []ServicesTypeOK
<1>1. ChatTypeOK /\ WidgetTypeOK /\ PipeTypeOK /\ SlackTypeOK /\ FeedersTypeOK
      /\ AdmissionTypeOK /\ InvitesTypeOK /\ AccountsTypeOK /\ BillingTypeOK
      /\ SpendingTypeOK /\ ConnectorsTypeOK
      => ServicesTypeOK
  BY DEF ServicesTypeOK
<1> QED
  BY <1>1, SpecOfEach, ChatTypesOK, WidgetTypesOK, PipeTypesOK, SlackTypesOK,
     FeedersTypesOK, AdmissionTypesOK, InvitesTypesOK, AccountsTypesOK,
     BillingTypesOK, SpendingTypeCorrect, ConnectorsTypesOK, PTL

=============================================================================
