------------------------------ MODULE Connectors ------------------------------
(***************************************************************************)
(* A connector of a workspace to a Google account (backend/main.py,        *)
(* connectors/google_oauth.py): its installation by way of Google's        *)
(* consent page, its revocation, and the calls of bots and of the feeder,  *)
(* which refresh the access token when Google refuses it.                  *)
(*                                                                         *)
(* All three read the active row and write it by key, each its own columns *)
(* and only those whose value it changes; a write waits for an open one.   *)
(* A revocation and a refresh hold the row while they wait for Google.     *)
(*                                                                         *)
(* Abstractions.  One workspace and one type of connector; tokens are the  *)
(* account they give access to.  The agent's capability and zone, checked  *)
(* before a call, the scopes and what a call does are left out; Google     *)
(* names the account whenever it gives tokens ("openid", "email").         *)
(*                                                                         *)
(* A definition marked "broken" is no part of the model: it is the one     *)
(* below it with a plausible bug, there to show that a property notices.   *)
(***************************************************************************)
EXTENDS Naturals, FiniteSets, Tables

CONSTANTS
    GoogleAccounts,
    Consents,         \* installations that may be started: values of state
    Callbacks,      \* requests to the callback that may come
    Revokes,        \* requests that revoke
    Calls           \* calls of a tool

\* Requests are finitely many, each of one endpoint.
ASSUME ConnectorsAssumption ==
    /\ IsFiniteSet(Callbacks)
    /\ Callbacks \cap Revokes = {} /\ Callbacks \cap Calls = {} /\ Revokes \cap Calls = {}

VARIABLES
    install,        \* connector_installations, by order of insertion
    start,          \* connector_oauth_pending_states
    codes,          \* installations whose code Google has taken
    flow            \* the requests

connectorVars == <<install, start, codes, flow>>

Flows == Callbacks \cup Revokes \cup Calls
Ids == 1 .. Cardinality(Callbacks)

\* account is external_account_email, tokens what encrypted_tokens give access to.
Install == [account : GoogleAccounts, tokens : GoogleAccounts, active : BOOLEAN]

\* gone is deleted, or expired.
StartStates == {"new", "pending", "gone"}

\* arrived   the pending row is read
\* deleting  it is deleted, Google is asked for tokens
\* trading   Google gave tokens
\* reading   the active row, if any, was read
\* calling   the tool is called
\* holding   the row is written, Google is asked, and nothing is committed
\* over      answered with success;  failed  with an error
\* after is history: the requests that were over when this one read the active row.
Flow == [stage : {"new", "arrived", "deleting", "trading", "reading", "calling", "holding",
                  "over", "failed"},
         state : SUBSET Consents, account : SUBSET GoogleAccounts, row : SUBSET Ids,
         seen : SUBSET Install, after : SUBSET Flows]

NewFlow == [stage |-> "new", state |-> {}, account |-> {}, row |-> {}, seen |-> {},
            after |-> {}]

ConnectorsInit ==
    /\ install = EmptyTable
    /\ start = [s \in Consents |-> "new"]
    /\ codes = {}
    /\ flow = [r \in Flows |-> NewFlow]

-----------------------------------------------------------------------------
(* Reading and locking.                                                    *)

\* WHERE revoked_at IS NULL, as it is committed.
ActiveRows == {k \in DOMAIN install : install[k].active}

RowLocked(K) == \E r \in Flows : flow[r].stage = "holding" /\ flow[r].row \cap K # {}

\* A request reads the active row.
ReadsInstall(r, stage) ==
    flow' = [flow EXCEPT ![r].stage = stage, ![r].row = ActiveRows,
                         ![r].seen = {install[k] : k \in ActiveRows},
                         ![r].after = {s \in Flows : flow[s].stage \in {"over", "failed"}}]

Steps(r, stage) == flow' = [flow EXCEPT ![r].stage = stage]

-----------------------------------------------------------------------------
(* Installing.                                                             *)

\* connector_google_oauth_start.
Start(s) ==
    /\ start[s] = "new"
    /\ start' = [start EXCEPT ![s] = "pending"]
    /\ UNCHANGED <<install, codes, flow>>

\* The ten minutes pass (CONNECTOR_OAUTH_STATE_TTL).
StartExpires(s) ==
    /\ start[s] = "pending"
    /\ start' = [start EXCEPT ![s] = "gone"]
    /\ UNCHANGED <<install, codes, flow>>

\* connector_google_oauth_callback reads the pending row.
Callback(r, s) ==
    /\ r \in Callbacks /\ flow[r].stage = "new"
    /\ start[s] = "pending"
    /\ flow' = [flow EXCEPT ![r].stage = "arrived", ![r].state = {s}]
    /\ UNCHANGED <<install, start, codes>>

\* It deletes it, which waits for a callback that has; a row that is gone by then
\* is no error.
CallbackDeletes(r) ==
    /\ flow[r].stage = "arrived"
    /\ ~ \E q \in Callbacks : /\ flow[q].state = flow[r].state
                              /\ flow[q].stage \in {"deleting", "trading", "reading"}
    /\ Steps(r, "deleting")
    /\ UNCHANGED <<install, start, codes>>

\* exchange_code_for_tokens, for the account that the user consented with; a code
\* is good for one exchange (external).
Traded(r) ==
    /\ flow[r].stage = "deleting"
    /\ flow[r].state \cap codes = {}
    /\ codes' = codes \cup flow[r].state
    /\ \E a \in GoogleAccounts :
          flow' = [flow EXCEPT ![r].stage = "trading", ![r].account = {a}]
    /\ UNCHANGED <<install, start>>

\* Google refuses, or the call fails: an HTML page and no exception, so that the
\* deletion of the pending row is committed.
TradeRefused(r) ==
    /\ flow[r].stage = "deleting"
    /\ start' = [s \in Consents |-> IF s \in flow[r].state THEN "gone" ELSE start[s]]
    /\ Steps(r, "failed")
    /\ UNCHANGED <<install, codes>>

CallbackReads(r) ==
    /\ r \in Callbacks /\ flow[r].stage = "trading"
    /\ ReadsInstall(r, "reading")
    /\ UNCHANGED <<install, start, codes>>

\* broken: the account is the one that was connected first
ReinstalledUnnamed(old, seen, a) == [old EXCEPT !.tokens = a]

\* The row that was read gets the tokens, and the account if it is not the one
\* that was read.
Reinstalled(old, seen, a) ==
    [old EXCEPT !.tokens = a, !.account = IF a = seen.account THEN @ ELSE a]

\* The write and the commit. A row that was read is written by key, whatever has
\* become of it; else a row is inserted, which fails if there is an active one by
\* now (the unique index): the transaction is rolled back, and the pending row
\* is there again.
CallbackCommit(r) ==
    /\ r \in Callbacks /\ flow[r].stage = "reading" /\ ~RowLocked(flow[r].row)
    /\ LET new == CHOOSE k \in Ids : k = Cardinality(DOMAIN install) + 1 IN
       \E a \in flow[r].account :
          \/ \E k \in flow[r].row, seen \in flow[r].seen :
                /\ install' = [install EXCEPT ![k] = Reinstalled(@, seen, a)]
                /\ Steps(r, "over")
          \/ /\ flow[r].row = {} /\ ActiveRows = {}
             /\ install' = Inserted(install, new, [account |-> a, tokens |-> a, active |-> TRUE])
             /\ flow' = [flow EXCEPT ![r].stage = "over", ![r].row = {new}]
          \/ /\ flow[r].row = {} /\ ActiveRows # {}
             /\ Steps(r, "failed") /\ UNCHANGED install
    /\ start' = [s \in Consents |->
                    IF s \in flow[r].state /\ flow'[r].stage = "over" THEN "gone" ELSE start[s]]
    /\ UNCHANGED codes

-----------------------------------------------------------------------------
(* revoke_workspace_connector.                                             *)

RevokeReads(r) ==
    /\ r \in Revokes /\ flow[r].stage = "new" /\ ActiveRows # {}
    /\ ReadsInstall(r, "reading")
    /\ UNCHANGED <<install, start, codes>>

\* revoked_at is written; Google's /revoke is called before the commit.
RevokeWrites(r) ==
    /\ r \in Revokes /\ flow[r].stage = "reading" /\ ~RowLocked(flow[r].row)
    /\ Steps(r, "holding")
    /\ UNCHANGED <<install, start, codes>>

RevokeCommit(r) ==
    /\ r \in Revokes /\ flow[r].stage = "holding"
    /\ install' = [k \in DOMAIN install |->
                      IF k \in flow[r].row THEN [install[k] EXCEPT !.active = FALSE]
                                           ELSE install[k]]
    /\ Steps(r, "over")
    /\ UNCHANGED <<start, codes>>

-----------------------------------------------------------------------------
(* invoke_connector_tool, for a bot or for the feeder.                     *)

CallReads(r) ==
    /\ r \in Calls /\ flow[r].stage = "new" /\ ActiveRows # {}
    /\ ReadsInstall(r, "calling")
    /\ UNCHANGED <<install, start, codes>>

\* The tool answers, or fails for a reason of its own.
CallEnds(r) ==
    /\ flow[r].stage = "calling"
    /\ \E f \in {"over", "failed"} : Steps(r, f)
    /\ UNCHANGED <<install, start, codes>>

\* Google refuses the access token and refreshes it: the new tokens are written,
\* for the account of those that were read, and the tool is called again.
Refreshed(r) ==
    /\ flow[r].stage = "calling" /\ ~RowLocked(flow[r].row)
    /\ Steps(r, "holding")
    /\ UNCHANGED <<install, start, codes>>

\* The second call succeeds, or fails for a reason of its own: committed.  Or
\* Google refuses the new token too, and the caller is a feeder, which goes on
\* (backend/feeder.py): the new tokens are committed with its pass.
RetryCommit(r) ==
    /\ r \in Calls /\ flow[r].stage = "holding"
    /\ install' = [k \in DOMAIN install |->
                      IF k \in flow[r].row
                        THEN [install[k] EXCEPT !.tokens = (CHOOSE s \in flow[r].seen : TRUE).tokens]
                        ELSE install[k]]
    /\ \E f \in {"over", "failed"} : Steps(r, f)
    /\ UNCHANGED <<start, codes>>

\* Google refuses the new token too, and the endpoint, or the pass it is part
\* of, is rolled back.
RetryRefused(r) ==
    /\ r \in Calls /\ flow[r].stage = "holding"
    /\ Steps(r, "failed")
    /\ UNCHANGED <<install, start, codes>>

-----------------------------------------------------------------------------

ConnectorsNext ==
    \/ \E s \in Consents : \/ Start(s) \/ StartExpires(s)
                         \/ \E r \in Callbacks : Callback(r, s)
    \/ \E r \in Flows : \/ CallbackDeletes(r) \/ Traded(r) \/ TradeRefused(r) \/ CallbackReads(r)
                        \/ CallbackCommit(r)
                        \/ RevokeReads(r) \/ RevokeWrites(r) \/ RevokeCommit(r)
                        \/ CallReads(r) \/ CallEnds(r) \/ Refreshed(r)
                        \/ RetryCommit(r) \/ RetryRefused(r)

ConnectorsSpec == ConnectorsInit /\ [][ConnectorsNext]_connectorVars

ConnectorsTypeOK ==
    /\ IsTable(install, Ids, Install)
    /\ Cardinality(ActiveRows) <= 1
    /\ start \in [Consents -> StartStates] /\ codes \subseteq Consents
    /\ flow \in [Flows -> Flow]

\* Neither had ended when the other read.
AtOnce(x, y) == x # y /\ x \notin flow[y].after /\ y \notin flow[x].after

\* What the dashboard shows ("Connected as") is whose mail the bots read, and who
\* installs is connected.  An active row has the tokens of the account it shows,
\* unless an installation read it at once with a call that refreshed, or with
\* another; and an installation that was answered with success is not on a row
\* that a revocation had taken away before.
ConnectedAs ==
    \A c \in Callbacks : \A k \in flow[c].row :
        flow[c].stage = "over" =>
            /\ install[k].active /\ install[k].tokens # install[k].account =>
                  \E x \in Callbacks, y \in Callbacks \cup Calls :
                      AtOnce(x, y) /\ k \in flow[x].row \cap flow[y].row
            /\ \A v \in flow[c].after \cap Revokes : k \notin flow[v].row
=============================================================================
