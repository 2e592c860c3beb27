------------------------------ MODULE Accounts ------------------------------
(***************************************************************************)
(* Operators and their workspaces (backend/main.py, auth.py): signing in   *)
(* and up by password, magic link or Google, creating, switching and       *)
(* deleting a workspace, and deleting the account.                         *)
(*                                                                         *)
(* A request reads what it decides on and commits later.  The database     *)
(* keeps the keys (models.py): a user needs the workspace it signed up     *)
(* with and is deleted with it, memberships and sessions go with their     *)
(* user, and a session whose workspace is gone points nowhere.             *)
(*                                                                         *)
(* Abstractions.  Users, workspaces and sessions are numbered as they are  *)
(* made, and a user's oldest other workspace is the one with the least     *)
(* number.  Every member is an owner: nothing makes others.  Credentials,  *)
(* expiry, logging out, renaming and API keys are left out.                *)
(*                                                                         *)
(* A definition marked "broken" is no part of the model: it is the one     *)
(* below it with a plausible bug, there to show that a property notices.   *)
(***************************************************************************)
EXTENDS Naturals, FiniteSets, Tables

CONSTANTS
    Emails,
    UserIds,        \* numbers of the users that may sign up
    WsIds,          \* numbers of the workspaces that may be made
    SessIds,        \* numbers of the sessions that may be opened
    Tabs            \* requests that may be open at once

NoWs == 0
NoUser == 0

ASSUME AccountsAssumption ==
    UserIds \cup WsIds \cup SessIds \subseteq Nat \ {0}

VARIABLES
    user,           \* the users: their address and the workspace of their own
    workspace,      \* the workspaces there are
    member,         \* pairs of a user and a workspace
    session,        \* the sessions: whose, and the active workspace
    tab,            \* the requests under way
    made,           \* numbers given out so far
    stranded        \* history: workspaces whose users went without them

accountVars == <<user, workspace, member, session, tab, made, stranded>>

User == [email : Emails, home : WsIds]

SessionRow == [user : UserIds, active : WsIds \cup {NoWs}]

\* what is being done, by which session, for which address or workspace, and
\* what was read: the user found, the workspaces owned, the one to turn to;
\* last is history, the workspaces that had been made by then
Tab == [kind : {"idle", "signin", "create", "switch", "drop", "leave"},
        email : SUBSET Emails, session : SUBSET SessIds, ws : SUBSET WsIds,
        found : UserIds \cup {NoUser}, seen : SUBSET WsIds,
        last : WsIds \cup {0}]

TabIdle == [kind |-> "idle", email |-> {}, session |-> {}, ws |-> {},
            found |-> NoUser, seen |-> {}, last |-> 0]

Made == [users : UserIds \cup {0}, workspaces : WsIds \cup {0},
         sessions : SessIds \cup {0}]

OwnedBy(u) == {w \in workspace : <<u, w>> \in member}

Oldest(W) == CHOOSE w \in W : \A x \in W : w <= x

\* Whose session it is; only a session with an active workspace is let in.
LetIn(s) == s \in DOMAIN session /\ session[s].active # NoWs

Starts(t, x) == tab[t] = TabIdle /\ tab' = [tab EXCEPT ![t] = x]

Reads == UNCHANGED <<user, workspace, member, session, made, stranded>>

\* The request is answered, or rolled back with an error.
Ends(t) == tab' = [tab EXCEPT ![t] = TabIdle]

-----------------------------------------------------------------------------
(* Signing in. *)

WithEmail(e) == {u \in DOMAIN user : user[u].email = e}

SigninRead(t, e) ==
    /\ Starts(t, [TabIdle EXCEPT !.kind = "signin", !.email = {e},
          !.found = IF WithEmail(e) = {} THEN NoUser ELSE CHOOSE u \in WithEmail(e) : TRUE])
    /\ Reads

\* A new user gets a workspace, a membership and a session in one transaction,
\* which fails if the address has been taken.
SignupCommit(t, e) ==
    LET u == made.users + 1
        w == made.workspaces + 1
        s == made.sessions + 1
    IN  /\ tab[t].kind = "signin" /\ tab[t].email = {e} /\ tab[t].found = NoUser
        /\ WithEmail(e) = {}
        /\ u \in UserIds /\ w \in WsIds /\ s \in SessIds
        /\ user' = Inserted(user, u, [email |-> e, home |-> w])
        /\ workspace' = workspace \cup {w}
        /\ member' = member \cup {<<u, w>>}
        /\ session' = Inserted(session, s, [user |-> u, active |-> w])
        /\ made' = [users |-> u, workspaces |-> w, sessions |-> s]
        /\ Ends(t)
        /\ UNCHANGED stranded

SigninCommit(t) ==
    LET u == tab[t].found
        s == made.sessions + 1
    IN  /\ tab[t].kind = "signin" /\ u \in DOMAIN user
        /\ s \in SessIds
        /\ session' = Inserted(session, s, [user |-> u, active |-> user[u].home])
        /\ made' = [made EXCEPT !.sessions = s]
        /\ Ends(t)
        /\ UNCHANGED <<user, workspace, member, stranded>>

\* The commit fails: a key is taken or gone; or the connection is lost.
RequestFails(t) ==
    /\ tab[t].kind # "idle"
    /\ Ends(t) /\ Reads

-----------------------------------------------------------------------------
(* Workspaces. *)

CreateRead(t, s) ==
    /\ LetIn(s)
    /\ Starts(t, [TabIdle EXCEPT !.kind = "create", !.session = {s}])
    /\ Reads

CreateCommit(t) ==
    LET w == made.workspaces + 1
    IN  \E s \in tab[t].session :
        /\ tab[t].kind = "create" /\ s \in DOMAIN session /\ w \in WsIds
        /\ workspace' = workspace \cup {w}
        /\ member' = member \cup {<<session[s].user, w>>}
        /\ session' = [session EXCEPT ![s].active = w]
        /\ made' = [made EXCEPT !.workspaces = w]
        /\ Ends(t)
        /\ UNCHANGED <<user, stranded>>

\* 404 unless the user is a member.
SwitchRead(t, s, w) ==
    /\ LetIn(s) /\ <<session[s].user, w>> \in member
    /\ Starts(t, [TabIdle EXCEPT !.kind = "switch", !.session = {s}, !.ws = {w},
                                 !.seen = {session[s].active}])
    /\ Reads

\* broken: the column has no foreign key.
SwitchCommit_Unchecked(t) ==
    \E s \in tab[t].session, w \in tab[t].ws :
        /\ tab[t].kind = "switch" /\ s \in DOMAIN session
        /\ session' = [session EXCEPT ![s].active = w]
        /\ Ends(t)
        /\ UNCHANGED <<user, workspace, member, made, stranded>>

\* Nothing is written if the session had it active.
SwitchCommit(t) ==
    \E s \in tab[t].session, w \in tab[t].ws :
        /\ tab[t].kind = "switch"
        /\ \/ w \in tab[t].seen /\ UNCHANGED session
           \/ /\ w \notin tab[t].seen
              /\ s \in DOMAIN session /\ w \in workspace
              /\ session' = [session EXCEPT ![s].active = w]
        /\ Ends(t)
        /\ UNCHANGED <<user, workspace, member, made, stranded>>

-----------------------------------------------------------------------------
(* Deleting. *)

\* What is left without some users and workspaces, and what the keys take
\* with them; s is the sessions as they are once the request has written them.
Cascaded(U, W, s) ==
    LET gone == U \cup {u \in DOMAIN user : user[u].home \in W}
    IN  /\ user' = Removed(user, gone)
        /\ workspace' = workspace \ W
        /\ member' = {m \in member : m[1] \notin gone /\ m[2] \notin W}
        /\ session' = [x \in {y \in DOMAIN s : s[y].user \notin gone} |->
                         IF s[x].active \in W THEN [s[x] EXCEPT !.active = NoWs]
                         ELSE s[x]]

\* 422 for the user's last workspace.  The session turns to the oldest other
\* one if it is on the one that goes.
DropRead(t, s, w) ==
    LET u == session[s].user
        others == OwnedBy(u) \ {w}
    IN  /\ LetIn(s) /\ w \in OwnedBy(u) /\ others # {}
        /\ Starts(t, [TabIdle EXCEPT !.kind = "drop", !.session = {s}, !.ws = {w},
              !.seen = IF session[s].active = w THEN {Oldest(others)} ELSE {}])
        /\ Reads

DropCommit(t) ==
    \E s \in tab[t].session, w \in tab[t].ws :
        LET x == tab[t].seen
        IN  /\ tab[t].kind = "drop"
            /\ x # {} => s \in DOMAIN session /\ x \subseteq workspace
            /\ Cascaded({}, {w}, IF x = {} THEN session
                    ELSE [session EXCEPT ![s].active = CHOOSE o \in x : TRUE])
            /\ stranded' = stranded \cup
                  UNION {OwnedBy(u) : u \in {v \in DOMAIN user : user[v].home = w}}
            /\ Ends(t)
            /\ UNCHANGED made

\* broken: what the user owns is read when the user is gone.
LeaveRead_Late(t, s) ==
    /\ LetIn(s)
    /\ Starts(t, [TabIdle EXCEPT !.kind = "leave", !.session = {s},
                     !.found = session[s].user, !.last = made.workspaces])
    /\ Reads

\* The workspaces are read before the user is deleted.
LeaveRead(t, s) ==
    /\ LetIn(s)
    /\ Starts(t, [TabIdle EXCEPT !.kind = "leave", !.session = {s},
                     !.found = session[s].user, !.seen = OwnedBy(session[s].user),
                     !.last = made.workspaces])
    /\ Reads

\* A workspace made since stays, and is nobody's.
LeaveCommit(t) ==
    LET u == tab[t].found
    IN  /\ tab[t].kind = "leave"
        /\ Cascaded({u}, tab[t].seen, session)
        /\ stranded' = stranded \cup {w \in OwnedBy(u) : w > tab[t].last}
        /\ Ends(t)
        /\ UNCHANGED made

-----------------------------------------------------------------------------
AccountsInit ==
    /\ user = EmptyTable
    /\ workspace = {}
    /\ member = {}
    /\ session = EmptyTable
    /\ tab = [t \in Tabs |-> TabIdle]
    /\ made = [users |-> 0, workspaces |-> 0, sessions |-> 0]
    /\ stranded = {}

AccountsNext ==
    \E t \in Tabs :
        \/ \E e \in Emails : SigninRead(t, e) \/ SignupCommit(t, e)
        \/ \E s \in SessIds :
              \/ CreateRead(t, s) \/ LeaveRead(t, s)
              \/ \E w \in WsIds : SwitchRead(t, s, w) \/ DropRead(t, s, w)
        \/ SigninCommit(t) \/ CreateCommit(t) \/ SwitchCommit(t)
        \/ DropCommit(t) \/ LeaveCommit(t) \/ RequestFails(t)

AccountsSpec == AccountsInit /\ [][AccountsNext]_accountVars

-----------------------------------------------------------------------------
\* Rows and requests keep their types, and the keys hold: a user has one of
\* the workspaces for its own and is a member of it, and a session never
\* shows a workspace that its user is not a member of.
AccountsTypeOK ==
    /\ IsTable(user, UserIds, User)
    /\ workspace \subseteq WsIds /\ stranded \subseteq WsIds
    /\ member \subseteq UserIds \X WsIds
    /\ IsTable(session, SessIds, SessionRow)
    /\ tab \in [Tabs -> Tab]
    /\ made \in Made
    /\ \A u, v \in DOMAIN user : user[u].email = user[v].email => u = v
    /\ \A u \in DOMAIN user : <<u, user[u].home>> \in member
    /\ \A m \in member : m[1] \in DOMAIN user /\ m[2] \in workspace
    /\ \A s \in DOMAIN session :
          /\ session[s].user \in DOMAIN user
          /\ session[s].active # NoWs =>
                <<session[s].user, session[s].active>> \in member

\* Every workspace has an owner, who alone can stop what runs in it, except
\* those of a user who deleted the workspace of the sign-up and went with it,
\* and those made while the account was being deleted.
NoOrphans ==
    \A w \in workspace \ stranded : \E u \in DOMAIN user : <<u, w>> \in member

=============================================================================
