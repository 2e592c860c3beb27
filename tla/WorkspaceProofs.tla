--------------------------- MODULE WorkspaceProofs ---------------------------
(***************************************************************************)
(* Proofs about what a workspace owns, for any number of users, requests,  *)
(* jobs, subscriptions and callbacks: every workspace has an owner         *)
(* (Accounts), its plan follows Stripe (Billing), what it spends is in the *)
(* books (Spending), and its connectors read the mail of the account they  *)
(* show (Connectors).                                                      *)
(***************************************************************************)
EXTENDS Accounts, Billing, Spending, Connectors, SumLemmas

-----------------------------------------------------------------------------
(* Accounts. *)

\* The workspace that a user falls back to is one of those left.
LEMMA OldestIsOne ==
    ASSUME NEW W, W \subseteq Nat, W # {}
    PROVE  Oldest(W) \in W
BY LeastOne DEF Oldest

\* What a request has read is old, and what it read of a user's workspaces still
\* holds of those that are left.
Sound(x) ==
    /\ \A w \in x.ws \cup x.seen : w <= made.workspaces
    /\ \A s \in x.session : s <= made.sessions
    /\ x.kind \in {"switch", "drop"} =>
          \A s \in x.session \cap DOMAIN session :
             \A w \in (x.ws \cup x.seen) \cap workspace : <<session[s].user, w>> \in member
    /\ x.kind = "leave" =>
          /\ x.last <= made.workspaces
          /\ \A w \in OwnedBy(x.found) : w \in x.seen \/ w > x.last
          /\ \A v, w : <<v, w>> \in member /\ w \in x.seen => v = x.found

\* Numbers are given out once, and a workspace has one member, who made it.
Numbers ==
    /\ \A u \in DOMAIN user : u <= made.users
    /\ \A w \in workspace : w <= made.workspaces
    /\ \A s \in DOMAIN session : s <= made.sessions
    /\ \A u, v, w : <<u, w>> \in member /\ <<v, w>> \in member => u = v

\* Rows keep their types.
AccountsRows ==
    /\ IsTable(user, UserIds, User)
    /\ workspace \subseteq WsIds /\ stranded \subseteq WsIds
    /\ member \subseteq UserIds \X WsIds
    /\ IsTable(session, SessIds, SessionRow)
    /\ made \in Made

\* Emails are unique, a home is a membership, and rows refer to rows.
AccountsKeys ==
    /\ \A u, v \in DOMAIN user : user[u].email = user[v].email => u = v
    /\ \A u \in DOMAIN user : <<u, user[u].home>> \in member
    /\ \A u, w : <<u, w>> \in member => u \in DOMAIN user /\ w \in workspace
    /\ \A s \in DOMAIN session :
          /\ session[s].user \in DOMAIN user
          /\ session[s].active # NoWs =>
                <<session[s].user, session[s].active>> \in member

\* What every step of the accounts keeps.
AccountsInv ==
    /\ AccountsRows /\ AccountsKeys /\ Numbers /\ NoOrphans
    /\ tab \in [Tabs -> Tab]
    /\ \A t \in Tabs : Sound(tab[t])

\* Its parts, member by member.
LEMMA AccountsMembers ==
    ASSUME AccountsInv
    PROVE  /\ made.users \in Nat /\ made.workspaces \in Nat /\ made.sessions \in Nat
           /\ \A u, w : <<u, w>> \in member => u \in UserIds /\ w \in WsIds
           /\ \A u \in UserIds \cup WsIds \cup SessIds : u \in Nat \ {0}
           /\ \A u \in DOMAIN user : u \in UserIds /\ user[u] \in User
           /\ \A s \in DOMAIN session : s \in SessIds /\ session[s] \in SessionRow
           /\ \A t \in Tabs : tab[t] \in Tab
           /\ DOMAIN user \subseteq UserIds /\ DOMAIN session \subseteq SessIds
<1>1. AccountsRows
  BY DEF AccountsInv
<1>2. made.users \in Nat /\ made.workspaces \in Nat /\ made.sessions \in Nat
  BY <1>1, AccountsAssumption DEF AccountsRows, Made
<1>3. \A u, w : <<u, w>> \in member => u \in UserIds /\ w \in WsIds
  BY <1>1 DEF AccountsRows
<1> QED BY <1>1, <1>2, <1>3, AccountsAssumption DEF AccountsRows, IsTable, AccountsInv

\* What a step may do to what the requests have read.
Onward ==
    /\ made'.workspaces \in Nat /\ made.workspaces <= made'.workspaces
    /\ made'.sessions \in Nat /\ made.sessions <= made'.sessions
    /\ \A u, w : <<u, w>> \in member' => <<u, w>> \in member \/ w = made.workspaces + 1
    /\ \A w \in workspace' : w \in workspace \/ w = made.workspaces + 1
    /\ \A s \in DOMAIN session' :
          \/ s = made.sessions + 1
          \/ /\ s \in DOMAIN session /\ session'[s].user = session[s].user
             /\ \A w \in workspace' : <<session[s].user, w>> \in member =>
                                         <<session[s].user, w>> \in member'

\* What a request has read stays sound while rows are only added.
LEMMA SoundStays ==
    ASSUME AccountsInv, Onward, NEW x \in Tab, Sound(x)
    PROVE  Sound(x)'
<1>0. /\ x.ws \cup x.seen \subseteq WsIds /\ x.session \subseteq SessIds
      /\ x.last \in Nat /\ WsIds \cup SessIds \subseteq Nat
      /\ made.users \in Nat /\ made.workspaces \in Nat /\ made.sessions \in Nat
      /\ \A u, w : <<u, w>> \in member => u \in UserIds /\ w \in WsIds
  BY AccountsMembers, AccountsAssumption DEF Tab
<1>1. \A w \in x.ws \cup x.seen : w <= made.workspaces /\ w <= made'.workspaces
                                  /\ w # made.workspaces + 1
  BY <1>0 DEF Sound, Onward
<1>2. \A s \in x.session : s <= made.sessions /\ s <= made'.sessions /\ s # made.sessions + 1
  BY <1>0 DEF Sound, Onward
<1>3. ASSUME x.kind \in {"switch", "drop"}, NEW s \in x.session \cap DOMAIN session',
             NEW w \in (x.ws \cup x.seen) \cap workspace'
      PROVE  <<session'[s].user, w>> \in member'
  BY <1>1, <1>2, <1>3 DEF Onward, Sound
<1>4. ASSUME x.kind = "leave"
      PROVE  /\ x.last <= made'.workspaces
             /\ \A w \in OwnedBy(x.found)' : w \in x.seen \/ w > x.last
             /\ \A v, w : <<v, w>> \in member' /\ w \in x.seen => v = x.found
  <2>1. x.last <= made.workspaces
    BY <1>4 DEF Sound
  <2>2. ASSUME NEW w \in OwnedBy(x.found)' PROVE w \in x.seen \/ w > x.last
    <3>1. w \in workspace' /\ <<x.found, w>> \in member'
      BY <2>2 DEF OwnedBy
    <3>2. w = made.workspaces + 1 \/ w \in OwnedBy(x.found)
      BY <3>1 DEF Onward, OwnedBy, AccountsInv, AccountsKeys
    <3> QED BY <1>0, <1>4, <2>1, <3>2 DEF Sound
  <2>3. \A v, w : <<v, w>> \in member' /\ w \in x.seen => v = x.found
    BY <1>1, <1>4 DEF Onward, Sound
  <2>4. x.last <= made'.workspaces
    BY <1>0, <2>1 DEF Onward
  <2> QED BY <2>2, <2>3, <2>4
<1> QED BY <1>1, <1>2, <1>3, <1>4 DEF Sound

\* A tab that does nothing has read nothing.
LEMMA IdleIsSound == TabIdle \in Tab /\ Sound(TabIdle) /\ Sound(TabIdle)'
  BY DEF TabIdle, Tab, Sound, NoUser

\* A request that reads or ends keeps what all requests have read sound.
LEMMA TabsSound ==
    ASSUME AccountsInv, Onward, NEW t \in Tabs, NEW x \in Tab, Sound(x),
           tab' = [tab EXCEPT ![t] = x]
    PROVE  (tab \in [Tabs -> Tab])' /\ (\A k \in Tabs : Sound(tab[k]))'
<1>1. tab' \in [Tabs -> Tab]
  BY DEF AccountsInv
<1>2. ASSUME NEW k \in Tabs PROVE Sound(tab[k])'
  <2>1. PICK y \in Tab : y = tab'[k] /\ (y = x \/ y = tab[k])
    BY DEF AccountsInv
  <2>2. Sound(y)
    BY <2>1 DEF AccountsInv
  <2>3. Sound(y)'
    BY <2>2, SoundStays
  <2> QED BY <2>1, <2>3 DEF Sound
<1> QED BY <1>1, <1>2

\* Who only reads keeps it, if what it read is sound.
LEMMA TabReadStep ==
    ASSUME AccountsInv, Reads, NEW t \in Tabs, NEW x \in Tab, Sound(x),
           tab' = [tab EXCEPT ![t] = x]
    PROVE  AccountsInv'
<1>1. UNCHANGED <<user, workspace, member, session, made, stranded>>
  BY DEF Reads
<1>2. Onward
  BY <1>1, AccountsMembers DEF Onward
<1>3. (tab \in [Tabs -> Tab])' /\ (\A k \in Tabs : Sound(tab[k]))'
  BY <1>2, TabsSound
<1>4. AccountsRows' /\ AccountsKeys' /\ Numbers' /\ NoOrphans'
  BY <1>1 DEF AccountsInv, AccountsRows, AccountsKeys, Numbers, NoOrphans
<1> QED BY <1>3, <1>4 DEF AccountsInv

\* What is left when users and workspaces go.
LEMMA CascadeStep ==
    ASSUME AccountsInv, NEW t \in Tabs, Ends(t), UNCHANGED made,
           NEW U, NEW W, NEW s, Cascaded(U, W, s),
           IsTable(s, SessIds, SessionRow), DOMAIN s = DOMAIN session,
           \A y \in DOMAIN s :
              /\ s[y].user = session[y].user
              /\ s[y].active # NoWs => <<s[y].user, s[y].active>> \in member,
           stranded' \subseteq WsIds, stranded \subseteq stranded',
           \A u \in DOMAIN user : u \in U \/ user[u].home \in W =>
              OwnedBy(u) \subseteq W \cup stranded'
    PROVE  AccountsInv'
<1> DEFINE gone == U \cup {u \in DOMAIN user : user[u].home \in W}
<1>0. /\ AccountsRows /\ AccountsKeys /\ Numbers /\ NoOrphans
      /\ \A u, w : <<u, w>> \in member => u \in UserIds /\ w \in WsIds
      /\ \A u \in DOMAIN user : u \in UserIds /\ user[u] \in User
      /\ \A y \in DOMAIN s : s[y] \in SessionRow
  BY AccountsMembers DEF AccountsInv, IsTable
<1>1. /\ DOMAIN user' = DOMAIN user \ gone /\ \A u \in DOMAIN user' : user'[u] = user[u]
      /\ workspace' = workspace \ W
      /\ \A u, w : <<u, w>> \in member' <=> <<u, w>> \in member /\ u \notin gone /\ w \notin W
      /\ DOMAIN session' = {y \in DOMAIN s : s[y].user \notin gone}
      /\ \A y \in DOMAIN session' : session'[y] = IF s[y].active \in W
                            THEN [s[y] EXCEPT !.active = NoWs] ELSE s[y]
      /\ member' \subseteq member
  <2>1. \A u, w : <<u, w>> \in member' <=> <<u, w>> \in member /\ u \notin gone /\ w \notin W
    <3>1. member' = {m \in member : m[1] \notin gone /\ m[2] \notin W}
      BY DEF Cascaded
    <3> HIDE DEF gone
    <3>2. \A u, w : <<u, w>>[1] = u /\ <<u, w>>[2] = w
      OBVIOUS
    <3> QED BY <3>1, <3>2
  <2> QED BY <2>1 DEF Cascaded, Removed
<1>2. ASSUME NEW y \in DOMAIN session'
      PROVE  /\ y \in DOMAIN session /\ session'[y].user = session[y].user
             /\ session'[y] \in SessionRow /\ session'[y].user \notin gone
             /\ \/ session'[y].active = NoWs
                \/ session'[y].active = s[y].active /\ s[y].active \notin W
             /\ s[y].active # NoWs => <<s[y].user, s[y].active>> \in member
             /\ s[y].user = session[y].user
  <2>1. y \in DOMAIN s /\ s[y] \in SessionRow /\ s[y].user \notin gone
    BY <1>0, <1>1
  <2>2. CASE s[y].active \in W
    <3>1. session'[y] = [s[y] EXCEPT !.active = NoWs]
      BY <1>1, <2>2
    <3> QED BY <1>1, <2>1, <2>2, <3>1 DEF SessionRow
  <2>3. CASE s[y].active \notin W
    BY <1>1, <2>1, <2>3
  <2> QED BY <2>1, <2>2, <2>3
<1>3. AccountsRows'
  <2>1. IsTable(user', UserIds, User)
    <3>1. user' = [u \in DOMAIN user \ gone |-> user[u]]
      BY DEF Cascaded, Removed
    <3> HIDE DEF gone
    <3> QED BY <1>0, <3>1 DEF AccountsRows, IsTable
  <2>2. IsTable(session', SessIds, SessionRow)
    <3>1. DOMAIN session' \subseteq SessIds
      BY <1>0, <1>2 DEF AccountsRows, IsTable
    <3>2. session' = [y \in DOMAIN session' |-> session'[y]]
      BY <1>1 DEF Cascaded
    <3> HIDE DEF gone
    <3> QED BY <1>2, <3>1, <3>2 DEF IsTable
  <2> QED BY <1>0, <1>1, <2>1, <2>2 DEF AccountsRows
<1>4. AccountsKeys'
  <2>1. ASSUME NEW u \in DOMAIN user' PROVE <<u, user'[u].home>> \in member'
    BY <1>0, <1>1, <2>1 DEF AccountsKeys
  <2>2. \A u, v \in DOMAIN user' : user'[u].email = user'[v].email => u = v
    BY <1>0, <1>1 DEF AccountsKeys
  <2>3. \A u, w : <<u, w>> \in member' => u \in DOMAIN user' /\ w \in workspace'
    BY <1>0, <1>1 DEF AccountsKeys
  <2>4. ASSUME NEW y \in DOMAIN session'
        PROVE  /\ session'[y].user \in DOMAIN user'
               /\ session'[y].active # NoWs => <<session'[y].user, session'[y].active>> \in member'
    <3>1. /\ session'[y].user = session[y].user /\ session'[y].user \notin gone
          /\ y \in DOMAIN session
      BY <1>2
    <3>2. session'[y].user \in DOMAIN user'
      BY <1>0, <1>1, <3>1 DEF AccountsKeys
    <3> HIDE DEF gone
    <3>3. session'[y].active # NoWs => <<session'[y].user, session'[y].active>> \in member'
      BY <1>1, <1>2
    <3> QED BY <3>2, <3>3
  <2> QED BY <2>1, <2>2, <2>3, <2>4 DEF AccountsKeys
<1>5. Numbers'
  <2> HIDE DEF gone
  <2>1. \A y \in DOMAIN session' : y \in DOMAIN session
    BY <1>2
  <2> QED BY <1>0, <1>1, <2>1 DEF Numbers
<1>6. NoOrphans'
  <2>1. ASSUME NEW w \in workspace' \ stranded' PROVE \E u \in DOMAIN user' : <<u, w>> \in member'
    <3>1. w \in workspace \ stranded /\ w \notin W
      BY <1>1, <2>1
    <3>2. PICK u \in DOMAIN user : <<u, w>> \in member
      BY <1>0, <3>1 DEF NoOrphans
    <3>3. w \in OwnedBy(u)
      BY <3>1, <3>2 DEF OwnedBy
    <3>4. u \notin gone
      BY <2>1, <3>1, <3>3
    <3> QED BY <1>1, <3>1, <3>2, <3>4
  <2> QED BY <2>1 DEF NoOrphans
<1>7. Onward
  <2> HIDE DEF gone
  <2>1. ASSUME NEW y \in DOMAIN session', NEW w \in workspace', <<session[y].user, w>> \in member
        PROVE  <<session[y].user, w>> \in member'
    BY <1>1, <1>2, <2>1
  <2>2. /\ \A u, w : <<u, w>> \in member' => <<u, w>> \in member
        /\ \A w \in workspace' : w \in workspace
        /\ made' = made /\ made.workspaces \in Nat /\ made.sessions \in Nat
    BY <1>1, AccountsMembers
  <2>3. \A y \in DOMAIN session' : y \in DOMAIN session /\ session'[y].user = session[y].user
    BY <1>2
  <2> QED BY <2>1, <2>2, <2>3 DEF Onward
<1>8. (tab \in [Tabs -> Tab])' /\ (\A k \in Tabs : Sound(tab[k]))'
  BY <1>7, IdleIsSound, TabsSound DEF Ends
<1> QED BY <1>3, <1>4, <1>5, <1>6, <1>8 DEF AccountsInv

\* Every request keeps it.
LEMMA AccountsStep ==
    ASSUME AccountsInv, NEW t \in Tabs,
        \/ \E e \in Emails : SigninRead(t, e) \/ SignupCommit(t, e)
        \/ \E s \in SessIds :
              \/ CreateRead(t, s) \/ LeaveRead(t, s)
              \/ \E w \in WsIds : SwitchRead(t, s, w) \/ DropRead(t, s, w)
        \/ SigninCommit(t) \/ CreateCommit(t) \/ SwitchCommit(t)
        \/ DropCommit(t) \/ LeaveCommit(t) \/ RequestFails(t)
    PROVE  AccountsInv'
<1>0. /\ AccountsRows /\ AccountsKeys /\ Numbers /\ NoOrphans
      /\ made.users \in Nat /\ made.workspaces \in Nat /\ made.sessions \in Nat
      /\ \A u, w : <<u, w>> \in member => u \in UserIds /\ w \in WsIds
      /\ \A u \in UserIds \cup WsIds \cup SessIds : u \in Nat \ {0}
      /\ \A u \in DOMAIN user : u \in UserIds /\ user[u] \in User
      /\ \A s \in DOMAIN session : s \in SessIds /\ session[s] \in SessionRow
      /\ tab[t] \in Tab /\ Sound(tab[t])
      /\ made \in Made
  BY AccountsMembers DEF AccountsInv, AccountsRows
<1>1. ASSUME RequestFails(t) PROVE AccountsInv'
  BY <1>1, IdleIsSound, TabReadStep DEF RequestFails, Ends
<1>2. ASSUME NEW e \in Emails, SigninRead(t, e) PROVE AccountsInv'
  <2>1. PICK f : f = IF WithEmail(e) = {} THEN NoUser ELSE CHOOSE u \in WithEmail(e) : TRUE
    OBVIOUS
  <2>2. f \in UserIds \cup {NoUser}
    BY <1>0, <2>1 DEF WithEmail
  <2>3. PICK x : x = [TabIdle EXCEPT !.kind = "signin", !.email = {e}, !.found = f]
    OBVIOUS
  <2>4. x \in Tab /\ Sound(x)
    BY <2>2, <2>3 DEF TabIdle, Tab, Sound
  <2>5. tab' = [tab EXCEPT ![t] = x]
    BY <1>2, <2>1, <2>3 DEF SigninRead, Starts
  <2> QED BY <1>2, <2>4, <2>5, TabReadStep DEF SigninRead
<1>3. ASSUME NEW s \in SessIds, CreateRead(t, s) PROVE AccountsInv'
  <2>1. PICK x : x = [TabIdle EXCEPT !.kind = "create", !.session = {s}]
    OBVIOUS
  <2>2. x \in Tab /\ Sound(x)
    BY <1>0, <1>3, <2>1 DEF TabIdle, Tab, Sound, CreateRead, LetIn, Numbers
  <2>3. tab' = [tab EXCEPT ![t] = x]
    BY <1>3, <2>1 DEF CreateRead, Starts
  <2> QED BY <1>3, <2>2, <2>3, TabReadStep DEF CreateRead
<1>4. ASSUME NEW s \in SessIds, LeaveRead(t, s) PROVE AccountsInv'
  <2>1. PICK u : u = session[s].user
    OBVIOUS
  <2>2. PICK W : W = OwnedBy(u)
    OBVIOUS
  <2>3. u \in UserIds /\ W \subseteq WsIds /\ s \in DOMAIN session
    BY <1>0, <1>4, <2>1, <2>2 DEF LeaveRead, LetIn, SessionRow, OwnedBy
  <2>4. PICK x : x = [TabIdle EXCEPT !.kind = "leave", !.session = {s}, !.found = u,
                                     !.seen = W, !.last = made.workspaces]
    OBVIOUS
  <2>5. x \in Tab
    BY <1>0, <2>3, <2>4 DEF TabIdle, Tab, Made
  <2>6. Sound(x)
    <3>1. x.ws = {} /\ x.seen = W /\ x.session = {s} /\ x.kind = "leave" /\ x.found = u
          /\ x.last = made.workspaces
      BY <2>4 DEF TabIdle
    <3>2. /\ \A w \in W : w <= made.workspaces /\ w \in workspace /\ <<u, w>> \in member
          /\ s <= made.sessions
      BY <1>0, <2>2, <2>3 DEF OwnedBy, Numbers
    <3>3. \A v, w : <<v, w>> \in member /\ w \in W => v = u
      BY <1>0, <3>2 DEF Numbers
    <3>4. OwnedBy(x.found) = W
      BY <2>2, <3>1
    <3>5. \A k \in x.ws \cup x.seen : k <= made.workspaces
      BY <3>1, <3>2
    <3>6. \A k \in x.session : k <= made.sessions
      BY <3>1, <3>2
    <3>7. /\ x.last <= made.workspaces
          /\ \A k \in OwnedBy(x.found) : k \in x.seen \/ k > x.last
          /\ \A v, k : <<v, k>> \in member /\ k \in x.seen => v = x.found
      BY <1>0, <3>1, <3>3, <3>4
    <3>8. x.kind \notin {"switch", "drop"}
      BY <3>1
    <3> QED BY <3>5, <3>6, <3>7, <3>8 DEF Sound
  <2>7. tab' = [tab EXCEPT ![t] = x]
    BY <1>4, <2>1, <2>2, <2>4 DEF LeaveRead, Starts
  <2> QED BY <1>4, <2>5, <2>6, <2>7, TabReadStep DEF LeaveRead
<1>5. ASSUME NEW s \in SessIds, NEW w \in WsIds, SwitchRead(t, s, w) PROVE AccountsInv'
  <2>1. PICK a : a = session[s].active
    OBVIOUS
  <2>2. /\ s \in DOMAIN session /\ a \in WsIds /\ a # NoWs /\ <<session[s].user, w>> \in member
        /\ <<session[s].user, a>> \in member
    BY <1>0, <1>5, <2>1 DEF SwitchRead, LetIn, SessionRow, AccountsKeys
  <2>3. PICK x : x = [TabIdle EXCEPT !.kind = "switch", !.session = {s}, !.ws = {w}, !.seen = {a}]
    OBVIOUS
  <2>4. x \in Tab
    BY <2>2, <2>3 DEF TabIdle, Tab
  <2>5. Sound(x)
    <3>1. x.ws = {w} /\ x.seen = {a} /\ x.session = {s} /\ x.kind = "switch"
      BY <2>3 DEF TabIdle
    <3>2. w <= made.workspaces /\ a <= made.workspaces /\ s <= made.sessions
      BY <1>0, <2>2 DEF Numbers, AccountsKeys
    <3> QED BY <2>2, <3>1, <3>2 DEF Sound
  <2>6. tab' = [tab EXCEPT ![t] = x]
    BY <1>5, <2>1, <2>3 DEF SwitchRead, Starts
  <2> QED BY <1>5, <2>4, <2>5, <2>6, TabReadStep DEF SwitchRead
<1>6. ASSUME NEW s \in SessIds, NEW w \in WsIds, DropRead(t, s, w) PROVE AccountsInv'
  <2>1. PICK u : u = session[s].user
    OBVIOUS
  <2>2. PICK O : O = OwnedBy(u) \ {w}
    OBVIOUS
  <2>3. PICK S : S = IF session[s].active = w THEN {Oldest(O)} ELSE {}
    OBVIOUS
  <2>4. /\ s \in DOMAIN session /\ O # {} /\ O \subseteq WsIds /\ w \in OwnedBy(u)
        /\ Starts(t, [TabIdle EXCEPT !.kind = "drop", !.session = {s}, !.ws = {w}, !.seen = S])
    BY <1>0, <1>6, <2>1, <2>2, <2>3 DEF DropRead, LetIn, OwnedBy
  <2>5. S \subseteq O
    BY <2>3, <2>4, AccountsAssumption, OldestIsOne
  <2>6. PICK x : x = [TabIdle EXCEPT !.kind = "drop", !.session = {s}, !.ws = {w}, !.seen = S]
    OBVIOUS
  <2>7. x \in Tab
    BY <2>4, <2>5, <2>6 DEF TabIdle, Tab
  <2>8. Sound(x)
    <3>1. x.ws = {w} /\ x.seen = S /\ x.session = {s} /\ x.kind = "drop"
      BY <2>6 DEF TabIdle
    <3>2. \A k \in {w} \cup S : k \in workspace /\ <<u, k>> \in member
      BY <2>2, <2>4, <2>5 DEF OwnedBy
    <3>3. (\A k \in {w} \cup S : k <= made.workspaces) /\ s <= made.sessions
      BY <1>0, <2>4, <3>2 DEF Numbers
    <3> QED BY <2>1, <3>1, <3>2, <3>3 DEF Sound
  <2>9. tab' = [tab EXCEPT ![t] = x]
    BY <2>4, <2>6 DEF Starts
  <2> QED BY <1>6, <2>7, <2>8, <2>9, TabReadStep DEF DropRead
<1>7. ASSUME SigninCommit(t) PROVE AccountsInv'
  <2>1. PICK k : k = made.sessions + 1
    OBVIOUS
  <2>2. PICK u \in DOMAIN user : u = tab[t].found
    BY <1>7 DEF SigninCommit
  <2>3. PICK r : r = [user |-> u, active |-> user[u].home]
    OBVIOUS
  <2>4. /\ k \in SessIds /\ session' = Inserted(session, k, r)
        /\ made' = [made EXCEPT !.sessions = k] /\ Ends(t)
        /\ UNCHANGED <<user, workspace, member, stranded>>
    BY <1>7, <2>1, <2>2, <2>3 DEF SigninCommit
  <2>5. r \in SessionRow /\ r.user = u /\ r.active = user[u].home
        /\ user[u].home \in WsIds
    BY <1>0, <2>3 DEF SessionRow, User
  <2>6. /\ DOMAIN session' = DOMAIN session \cup {k} /\ session'[k] = r
        /\ \A s \in DOMAIN session \ {k} : session'[s] = session[s]
        /\ k \notin DOMAIN session
    BY <1>0, <2>1, <2>4 DEF Inserted, Numbers
  <2>7. /\ made'.users = made.users /\ made'.workspaces = made.workspaces
        /\ made'.sessions = k /\ made' \in Made
    BY <1>0, <2>4 DEF Made
  <2>8. AccountsRows'
    <3>1. IsTable(session', SessIds, SessionRow)
      BY <1>0, <2>4, <2>5 DEF AccountsRows, IsTable, Inserted
    <3> QED BY <1>0, <2>4, <2>7, <3>1 DEF AccountsRows
  <2>9. AccountsKeys'
    BY <1>0, <2>4, <2>5, <2>6 DEF AccountsKeys
  <2>10. Numbers'
    BY <1>0, <2>1, <2>4, <2>6, <2>7 DEF Numbers
  <2>11. NoOrphans'
    BY <1>0, <2>4 DEF NoOrphans
  <2>12. Onward
    BY <1>0, <2>1, <2>4, <2>6, <2>7 DEF Onward
  <2>13. (tab \in [Tabs -> Tab])' /\ (\A o \in Tabs : Sound(tab[o]))'
    BY <2>4, <2>12, IdleIsSound, TabsSound DEF Ends
  <2> QED BY <2>8, <2>9, <2>10, <2>11, <2>13 DEF AccountsInv
<1>8. ASSUME NEW e \in Emails, SignupCommit(t, e) PROVE AccountsInv'
  <2>1. PICK u : u = made.users + 1
    OBVIOUS
  <2>2. PICK w : w = made.workspaces + 1
    OBVIOUS
  <2>3. PICK k : k = made.sessions + 1
    OBVIOUS
  <2>4. PICK r : r = [email |-> e, home |-> w]
    OBVIOUS
  <2>5. PICK q : q = [user |-> u, active |-> w]
    OBVIOUS
  <2>6. /\ u \in UserIds /\ w \in WsIds /\ k \in SessIds /\ WithEmail(e) = {}
        /\ user' = Inserted(user, u, r) /\ workspace' = workspace \cup {w}
        /\ member' = member \cup {<<u, w>>} /\ session' = Inserted(session, k, q)
        /\ made' = [users |-> u, workspaces |-> w, sessions |-> k]
        /\ Ends(t) /\ UNCHANGED stranded
    BY <1>8, <2>1, <2>2, <2>3, <2>4, <2>5 DEF SignupCommit
  <2>7. /\ r \in User /\ r.email = e /\ r.home = w
        /\ q \in SessionRow /\ q.user = u /\ q.active = w
    BY <2>4, <2>5, <2>6 DEF User, SessionRow
  <2>8. /\ DOMAIN session' = DOMAIN session \cup {k} /\ session'[k] = q
        /\ \A s \in DOMAIN session : session'[s] = session[s] /\ s # k
    BY <1>0, <2>3, <2>6 DEF Inserted, Numbers
  <2>9. /\ DOMAIN user' = DOMAIN user \cup {u} /\ user'[u] = r
        /\ \A v \in DOMAIN user : user'[v] = user[v] /\ v # u /\ user[v].email # e
    BY <1>0, <2>1, <2>6 DEF Inserted, Numbers, WithEmail
  <2>10. /\ made'.users = u /\ made'.workspaces = w /\ made'.sessions = k /\ made' \in Made
    BY <2>6 DEF Made
  <2>11. \A v, x : <<v, x>> \in member' <=> <<v, x>> \in member \/ (v = u /\ x = w)
    BY <2>6
  <2>12. \A v, x : <<v, x>> \in member => v \in DOMAIN user /\ x \in workspace /\ x # w
    BY <1>0, <2>2 DEF AccountsKeys, Numbers
  <2>13. AccountsRows'
    <3>1. IsTable(session', SessIds, SessionRow)
      BY <1>0, <2>6, <2>7 DEF AccountsRows, IsTable, Inserted
    <3>2. IsTable(user', UserIds, User)
      BY <1>0, <2>6, <2>7 DEF AccountsRows, IsTable, Inserted
    <3>3. member' \subseteq UserIds \X WsIds
      BY <1>0, <2>6 DEF AccountsRows
    <3> QED BY <1>0, <2>6, <2>10, <3>1, <3>2, <3>3 DEF AccountsRows
  <2>14. AccountsKeys'
    <3>1. \A v, x \in DOMAIN user' : user'[v].email = user'[x].email => v = x
      BY <1>0, <2>7, <2>9 DEF AccountsKeys
    <3>2. \A v \in DOMAIN user' : <<v, user'[v].home>> \in member'
      BY <1>0, <2>7, <2>9, <2>11 DEF AccountsKeys
    <3>3. \A v, x : <<v, x>> \in member' => v \in DOMAIN user' /\ x \in workspace'
      BY <2>6, <2>9, <2>11, <2>12
    <3>4. \A s \in DOMAIN session' :
             /\ session'[s].user \in DOMAIN user'
             /\ session'[s].active # NoWs =>
                   <<session'[s].user, session'[s].active>> \in member'
      BY <1>0, <2>7, <2>8, <2>9, <2>11 DEF AccountsKeys
    <3> QED BY <3>1, <3>2, <3>3, <3>4 DEF AccountsKeys
  <2>15. Numbers'
    <3>1. \A v, x, y : <<v, y>> \in member' /\ <<x, y>> \in member' => v = x
      BY <1>0, <2>11, <2>12 DEF Numbers
    <3>2. \A v \in DOMAIN user' : v <= made'.users
      BY <1>0, <2>1, <2>9, <2>10 DEF Numbers
    <3>3. \A x \in workspace' : x <= made'.workspaces
      BY <1>0, <2>2, <2>6, <2>10 DEF Numbers, AccountsRows
    <3>4. \A s \in DOMAIN session' : s <= made'.sessions
      BY <1>0, <2>3, <2>8, <2>10 DEF Numbers
    <3> QED BY <3>1, <3>2, <3>3, <3>4 DEF Numbers
  <2>16. NoOrphans'
    BY <1>0, <2>6, <2>9, <2>11 DEF NoOrphans
  <2>17. Onward
    BY <1>0, <2>2, <2>3, <2>6, <2>8, <2>10, <2>11 DEF Onward
  <2>18. (tab \in [Tabs -> Tab])' /\ (\A o \in Tabs : Sound(tab[o]))'
    BY <2>6, <2>17, IdleIsSound, TabsSound DEF Ends
  <2> QED BY <2>13, <2>14, <2>15, <2>16, <2>18 DEF AccountsInv
\* A session that is there turns to a workspace of its user.
<1>9. ASSUME NEW s \in DOMAIN session, NEW w \in WsIds
      PROVE  LET q == [session[s] EXCEPT !.active = w]
             IN  /\ q \in SessionRow /\ q.user = session[s].user /\ q.active = w
                 /\ [session EXCEPT ![s].active = w] = [session EXCEPT ![s] = q]
  BY <1>0, <1>9 DEF SessionRow
<1>10. ASSUME CreateCommit(t) PROVE AccountsInv'
  <2>1. PICK w : w = made.workspaces + 1
    OBVIOUS
  <2>2. PICK s \in tab[t].session :
        /\ s \in DOMAIN session /\ w \in WsIds
        /\ workspace' = workspace \cup {w}
        /\ member' = member \cup {<<session[s].user, w>>}
        /\ session' = [session EXCEPT ![s].active = w]
        /\ made' = [made EXCEPT !.workspaces = w]
        /\ Ends(t)
        /\ UNCHANGED <<user, stranded>>
    BY <1>10, <2>1 DEF CreateCommit
  <2>3. PICK q : q = [session[s] EXCEPT !.active = w]
    OBVIOUS
  <2>4. PICK u \in DOMAIN user : u = session[s].user
    BY <1>0, <2>2 DEF AccountsKeys
  <2>5. /\ q \in SessionRow /\ q.user = u /\ q.active = w
        /\ DOMAIN session' = DOMAIN session /\ session'[s] = q
        /\ \A y \in DOMAIN session \ {s} : session'[y] = session[y]
        /\ session' = [session EXCEPT ![s] = q]
    BY <1>9, <2>2, <2>3, <2>4
  <2>6. /\ made'.users = made.users /\ made'.workspaces = w /\ made'.sessions = made.sessions
        /\ made' \in Made
    BY <1>0, <2>2 DEF Made
  <2>7. \A v, x : <<v, x>> \in member' <=> <<v, x>> \in member \/ (v = u /\ x = w)
    BY <2>2, <2>4
  <2>8. \A v, x : <<v, x>> \in member => v \in DOMAIN user /\ x \in workspace /\ x # w
    BY <1>0, <2>1 DEF AccountsKeys, Numbers
  <2>9. AccountsRows'
    <3>1. IsTable(session', SessIds, SessionRow)
      BY <1>0, <2>5 DEF AccountsRows, IsTable
    <3>2. member' \subseteq UserIds \X WsIds
      BY <1>0, <2>2, <2>4 DEF AccountsRows
    <3> QED BY <1>0, <2>2, <2>6, <3>1, <3>2 DEF AccountsRows
  <2>10. AccountsKeys'
    <3>1. \A y \in DOMAIN session' :
             /\ session'[y].user \in DOMAIN user
             /\ session'[y].active # NoWs =>
                   <<session'[y].user, session'[y].active>> \in member'
      BY <1>0, <2>4, <2>5, <2>7 DEF AccountsKeys
    <3>2. \A v, x : <<v, x>> \in member' => v \in DOMAIN user /\ x \in workspace'
      BY <2>2, <2>7, <2>8
    <3> QED BY <1>0, <2>2, <2>7, <3>1, <3>2 DEF AccountsKeys
  <2>11. Numbers'
    <3>1. \A v, x, y : <<v, y>> \in member' /\ <<x, y>> \in member' => v = x
      BY <1>0, <2>7, <2>8 DEF Numbers
    <3>2. \A x \in workspace' : x <= made'.workspaces
      BY <1>0, <2>1, <2>2, <2>6 DEF Numbers, AccountsRows
    <3> QED BY <1>0, <2>2, <2>5, <2>6, <3>1, <3>2 DEF Numbers
  <2>12. NoOrphans'
    BY <1>0, <2>2, <2>4, <2>7 DEF NoOrphans
  <2>13. Onward
    <3>1. \A y \in DOMAIN session' : y \in DOMAIN session /\ session'[y].user = session[y].user
      BY <2>4, <2>5
    <3> QED BY <1>0, <2>1, <2>2, <2>6, <2>7, <3>1 DEF Onward
  <2>14. (tab \in [Tabs -> Tab])' /\ (\A o \in Tabs : Sound(tab[o]))'
    BY <2>2, <2>13, IdleIsSound, TabsSound DEF Ends
  <2> QED BY <2>9, <2>10, <2>11, <2>12, <2>14 DEF AccountsInv
<1>11. ASSUME SwitchCommit(t) PROVE AccountsInv'
  <2>1. PICK s \in tab[t].session, w \in tab[t].ws :
        /\ tab[t].kind = "switch"
        /\ \/ w \in tab[t].seen /\ UNCHANGED session
           \/ /\ w \notin tab[t].seen
              /\ s \in DOMAIN session /\ w \in workspace
              /\ session' = [session EXCEPT ![s].active = w]
        /\ Ends(t)
        /\ UNCHANGED <<user, workspace, member, made, stranded>>
    BY <1>11 DEF SwitchCommit
  <2>2. CASE UNCHANGED session
    BY <2>1, <2>2, IdleIsSound, TabReadStep DEF Ends, Reads
  <2>3. CASE /\ s \in DOMAIN session /\ w \in workspace
             /\ session' = [session EXCEPT ![s].active = w]
    <3>1. PICK q : q = [session[s] EXCEPT !.active = w]
      OBVIOUS
    <3>2. PICK u \in DOMAIN user : u = session[s].user
      BY <1>0, <2>3 DEF AccountsKeys
    <3>3. w \in WsIds /\ <<u, w>> \in member
      BY <1>0, <2>1, <2>3, <3>2 DEF Sound, AccountsRows
    <3>4. /\ q \in SessionRow /\ q.user = u /\ q.active = w
          /\ DOMAIN session' = DOMAIN session /\ session'[s] = q
          /\ \A y \in DOMAIN session \ {s} : session'[y] = session[y]
          /\ session' = [session EXCEPT ![s] = q]
      BY <1>9, <2>3, <3>1, <3>2, <3>3
    <3>5. AccountsRows'
      <4>1. IsTable(session', SessIds, SessionRow)
        BY <1>0, <3>4 DEF AccountsRows, IsTable
      <4> QED BY <1>0, <2>1, <4>1 DEF AccountsRows
    <3>6. AccountsKeys'
      <4>1. \A y \in DOMAIN session' :
             /\ session'[y].user \in DOMAIN user
             /\ session'[y].active # NoWs =>
                   <<session'[y].user, session'[y].active>> \in member
        BY <1>0, <3>2, <3>3, <3>4 DEF AccountsKeys
      <4> QED BY <1>0, <2>1, <4>1 DEF AccountsKeys
    <3>7. Numbers'
      BY <1>0, <2>1, <3>4 DEF Numbers
    <3>8. NoOrphans'
      BY <1>0, <2>1 DEF NoOrphans
    <3>9. Onward
      <4>1. \A y \in DOMAIN session' : y \in DOMAIN session /\ session'[y].user = session[y].user
        BY <3>2, <3>4
      <4> QED BY <1>0, <2>1, <4>1 DEF Onward
    <3>10. (tab \in [Tabs -> Tab])' /\ (\A o \in Tabs : Sound(tab[o]))'
      BY <2>1, <3>9, IdleIsSound, TabsSound DEF Ends
    <3> QED BY <3>5, <3>6, <3>7, <3>8, <3>10 DEF AccountsInv
  <2> QED BY <2>1, <2>2, <2>3
<1>12. \A u : OwnedBy(u) \subseteq WsIds
  BY <1>0 DEF OwnedBy, AccountsRows
<1>13. ASSUME DropCommit(t) PROVE AccountsInv'
  <2>1. PICK s \in tab[t].session, w \in tab[t].ws :
        LET x == tab[t].seen
        IN  /\ tab[t].kind = "drop"
            /\ x # {} => s \in DOMAIN session /\ x \subseteq workspace
            /\ Cascaded({}, {w}, IF x = {} THEN session
                    ELSE [session EXCEPT ![s].active = CHOOSE o \in x : TRUE])
            /\ stranded' = stranded \cup
                  UNION {OwnedBy(u) : u \in {v \in DOMAIN user : user[v].home = w}}
            /\ Ends(t)
            /\ UNCHANGED made
    BY <1>13 DEF DropCommit
  <2>2. PICK z : z = IF tab[t].seen = {} THEN session
                     ELSE [session EXCEPT ![s].active = CHOOSE o \in tab[t].seen : TRUE]
    OBVIOUS
  <2>3. /\ IsTable(z, SessIds, SessionRow) /\ DOMAIN z = DOMAIN session
        /\ \A y \in DOMAIN z :
              /\ z[y].user = session[y].user
              /\ z[y].active # NoWs => <<z[y].user, z[y].active>> \in member
    <3>1. CASE tab[t].seen = {}
      BY <1>0, <2>2, <3>1 DEF AccountsRows, AccountsKeys
    <3>2. CASE tab[t].seen # {}
      <4>1. PICK o \in tab[t].seen : o = CHOOSE k \in tab[t].seen : TRUE
        BY <3>2
      <4>2. s \in DOMAIN session /\ o \in workspace /\ o \in WsIds
        BY <1>0, <2>1, <3>2 DEF AccountsRows
      <4>3. <<session[s].user, o>> \in member
        BY <1>0, <2>1, <4>2 DEF Sound
      <4>4. PICK q : q = [session[s] EXCEPT !.active = o]
        OBVIOUS
      <4>5. /\ q \in SessionRow /\ q.user = session[s].user /\ q.active = o
            /\ z = [session EXCEPT ![s] = q]
        BY <1>9, <2>2, <3>2, <4>1, <4>2, <4>4
      <4> QED BY <1>0, <4>2, <4>3, <4>5 DEF AccountsRows, AccountsKeys, IsTable
    <3> QED BY <3>1, <3>2
  <2>4. Cascaded({}, {w}, z) /\ Ends(t) /\ UNCHANGED made
    BY <2>1, <2>2
  <2>5. stranded' = stranded \cup
                  UNION {OwnedBy(u) : u \in {v \in DOMAIN user : user[v].home = w}}
    BY <2>1
  <2>6. stranded \subseteq stranded' /\ stranded' \subseteq WsIds
    BY <1>0, <1>12, <2>5 DEF AccountsRows
  <2>7. \A u \in DOMAIN user : u \in {} \/ user[u].home \in {w} =>
              OwnedBy(u) \subseteq {w} \cup stranded'
    BY <2>5
  <2> QED BY <2>3, <2>4, <2>6, <2>7, CascadeStep
<1>14. ASSUME LeaveCommit(t) PROVE AccountsInv'
  <2>1. PICK u : u = tab[t].found
    OBVIOUS
  <2>2. PICK W : W = tab[t].seen
    OBVIOUS
  <2>3. /\ tab[t].kind = "leave" /\ Cascaded({u}, W, session) /\ Ends(t) /\ UNCHANGED made
        /\ stranded' = stranded \cup {w \in OwnedBy(u) : w > tab[t].last}
    BY <1>14, <2>1, <2>2 DEF LeaveCommit
  <2>4. stranded \subseteq stranded' /\ stranded' \subseteq WsIds
    BY <1>0, <1>12, <2>3 DEF AccountsRows
  <2>5. ASSUME NEW v \in DOMAIN user, v \in {u} \/ user[v].home \in W
        PROVE  OwnedBy(v) \subseteq W \cup stranded'
    <3>1. v = u
      BY <1>0, <2>1, <2>2, <2>3, <2>5 DEF Sound, AccountsKeys
    <3> QED BY <1>0, <2>1, <2>2, <2>3, <3>1 DEF Sound
  <2>6. /\ IsTable(session, SessIds, SessionRow)
        /\ \A y \in DOMAIN session :
              session[y].active # NoWs => <<session[y].user, session[y].active>> \in member
    BY <1>0 DEF AccountsRows, AccountsKeys
  <2> QED BY <2>3, <2>4, <2>5, <2>6, CascadeStep
<1> QED BY <1>1, <1>2, <1>3, <1>4, <1>5, <1>6, <1>7, <1>8, <1>10, <1>11, <1>13, <1>14

\* So it holds throughout.
LEMMA AccountsHold == AccountsSpec => []AccountsInv
<1>1. AccountsInit => AccountsInv
  <2> SUFFICES ASSUME AccountsInit PROVE AccountsInv
    OBVIOUS
  <2>1. /\ DOMAIN user = {} /\ workspace = {} /\ member = {} /\ DOMAIN session = {}
        /\ tab = [t \in Tabs |-> TabIdle] /\ stranded = {}
        /\ made = [users |-> 0, workspaces |-> 0, sessions |-> 0]
    BY DEF AccountsInit, EmptyTable
  <2>2. AccountsRows
    BY <2>1 DEF AccountsInit, AccountsRows, IsTable, EmptyTable, Made
  <2>3. AccountsKeys /\ Numbers /\ NoOrphans
    BY <2>1 DEF AccountsKeys, Numbers, NoOrphans
  <2> QED BY <2>1, <2>2, <2>3, IdleIsSound DEF AccountsInv
<1>2. ASSUME AccountsInv, [AccountsNext]_accountVars PROVE AccountsInv'
  <2>1. CASE UNCHANGED accountVars
    BY <1>2, <2>1 DEF accountVars, AccountsInv, AccountsRows, AccountsKeys, Numbers, NoOrphans,
                      Sound, OwnedBy
  <2>2. CASE AccountsNext
    BY <1>2, <2>2, AccountsStep DEF AccountsNext
  <2> QED BY <1>2, <2>1, <2>2
<1> QED BY <1>1, <1>2, PTL DEF AccountsSpec

\* Every workspace has an owner, but those whose makers are known to have gone.
THEOREM WorkspacesOwned == AccountsSpec => []NoOrphans
BY AccountsHold, PTL DEF AccountsInv

\* Users, workspaces, memberships and sessions keep their types and their keys
\* (main.py, auth.py).
THEOREM AccountsTypesOK == AccountsSpec => []AccountsTypeOK
<1>1. AccountsInv => AccountsTypeOK
  <2> SUFFICES ASSUME AccountsInv PROVE AccountsTypeOK
    OBVIOUS
  <2>1. \A m \in member : m[1] \in DOMAIN user /\ m[2] \in workspace
    <3>1. \A m \in member : m = <<m[1], m[2]>>
      BY DEF AccountsInv, AccountsRows
    <3> QED BY <3>1 DEF AccountsInv, AccountsKeys
  <2> QED BY <2>1 DEF AccountsInv, AccountsRows, AccountsKeys, AccountsTypeOK
<1> QED BY <1>1, AccountsHold, PTL

-----------------------------------------------------------------------------
(* Billing. *)

\* What an event says, given the one before it.  Without rivals an event is
\* about the only subscription that is not canceled.
EventTrue(n) ==
    LET e == events[n]
    IN  /\ e.kind = "completed" => e.live
        /\ e.kind = "changed" => (e.live <=> e.status = "active")
        /\ e.kind = "deleted" => ~e.live
        /\ e.kind = "payment_failed" => e.live /\ n > 1 /\ events[n - 1].live

\* One subscription of the workspace at most is not canceled.
OneSub == \A x, y \in DOMAIN stripe :
             stripe[x] # "canceled" /\ stripe[y] # "canceled" => x = y

\* The last event tells how Stripe's subscriptions stand, and without rivals
\* every event does.
StripeInv ==
    /\ events = <<>> => \A x \in DOMAIN stripe : stripe[x] # "active"
    /\ events # <<>> => (events[Len(events)].live
                            <=> \E x \in DOMAIN stripe : stripe[x] = "active")
    /\ ~rivals => OneSub /\ \A n \in DOMAIN events : EventTrue(n)

\* A webhook request is under way.
Busy(h) == hook[h] # HookIdle

\* Without disorder the events were heard up to some place, and the delivery
\* that is under way, if any, is of that one or the next and has read the plan
\* as it is.
InOrder(m) ==
    /\ heard = 1 .. m
    /\ \A h \in Hooks : Busy(h) =>
          /\ hook[h].at \in {m, m + 1} /\ hook[h].seen = plan
          /\ \A k \in Hooks : Busy(k) => k = h

\* What every step of billing keeps.
BillingInv ==
    /\ BillingTypeOK
    /\ \A h \in Hooks : Busy(h) => hook[h].at \in DOMAIN events
    /\ StripeInv
    /\ ~disorder => \E m \in Nat : InOrder(m)
    /\ PlanFollows

\* The greatest of the first m.
LEMMA MaxOfFirst ==
    ASSUME NEW m \in Nat
    PROVE  Max0(1 .. m) = m
<1>1. CASE m = 0
  BY <1>1 DEF Max0
<1>2. CASE m > 0
  <2>1. m \in 1 .. m /\ \A n \in 1 .. m : n <= m
    BY <1>2
  <2>2. \A n \in 1 .. m : (\A k \in 1 .. m : k <= n) => n = m
    BY <2>1
  <2>3. (CHOOSE n \in 1 .. m : \A k \in 1 .. m : k <= n) = m
    BY <2>1, <2>2
  <2>4. 1 .. m # {}
    BY <2>1
  <2> QED BY <2>3, <2>4 DEF Max0
<1> QED BY <1>1, <1>2

\* Stripe's announcements keep what is known of its side.
LEMMA AnnouncesKeeps ==
    ASSUME BillingInv, NEW c \in checkout, NEW status \in SubStatus, NEW kind,
           kind \in {"completed", "changed", "deleted", "payment_failed"},
           Announces(c, status, kind),
           kind = "completed" => status = "active",
           kind = "changed" => status # "canceled",
           kind = "deleted" => status = "canceled" /\ StatusOf(c) # "canceled",
           kind = "payment_failed" => status = "active" /\ StatusOf(c) = "active"
    PROVE  BillingInv'
<1> DEFINE now == Inserted(stripe, c, status)
           e == [kind |-> kind, sub |-> c, status |-> status,
                 live |-> \E x \in DOMAIN now : now[x] = "active"]
<1> USE DEF BillingInv
<1>1. /\ IsTable(stripe, checkout, SubStatus) /\ checkout \subseteq Checkouts
      /\ events \in Seq(Event) /\ plan \in Plan /\ heard \subseteq DOMAIN events
      /\ hook \in [Hooks -> [at : {0} \cup DOMAIN events, seen : Plan]]
      /\ disorder \in BOOLEAN /\ rivals \in BOOLEAN
  BY DEF BillingTypeOK
<1>2. /\ stripe' = now /\ events' = Append(events, e)
      /\ UNCHANGED <<plan, checkout, hook, heard, disorder>>
      /\ rivals' = (rivals \/ \E x, y \in DOMAIN now :
                                   x # y /\ {now[x], now[y]} \cap {"canceled"} = {})
  BY DEF Announces
<1>3. /\ DOMAIN now = DOMAIN stripe \cup {c} /\ now[c] = status
      /\ \A x \in DOMAIN stripe \ {c} : now[x] = stripe[x]
  BY DEF Inserted
<1>4. e \in Event
  BY <1>1 DEF Event
<1>5. /\ events' \in Seq(Event) /\ Len(events') = Len(events) + 1
      /\ DOMAIN events' = DOMAIN events \cup {Len(events) + 1}
      /\ events'[Len(events) + 1] = e
      /\ \A n \in DOMAIN events : events'[n] = events[n]
      /\ DOMAIN events = 1 .. Len(events) /\ Len(events) \in Nat
  BY <1>1, <1>2, <1>4
<1>6. BillingTypeOK'
  <2>1. IsTable(now, checkout, SubStatus)
    BY <1>1 DEF IsTable, Inserted
  <2>2. hook' \in [Hooks -> [at : {0} \cup DOMAIN events', seen : Plan]]
    BY <1>1, <1>2, <1>5
  <2>3. rivals' \in BOOLEAN
    BY <1>2
  <2> QED BY <1>1, <1>2, <1>5, <2>1, <2>2, <2>3 DEF BillingTypeOK
<1>7. ~rivals' => ~rivals /\ OneSub'
  <2>1. ASSUME NEW x, NEW y, now[x] # "canceled", now[y] # "canceled"
        PROVE  {now[x], now[y]} \cap {"canceled"} = {}
    BY <2>1
  <2>2. ~rivals' => ~rivals /\ \A x, y \in DOMAIN now :
             ~(x # y /\ {now[x], now[y]} \cap {"canceled"} = {})
    BY <1>2, Zenon
  <2> QED BY <1>2, <2>1, <2>2 DEF OneSub
<1>8. ASSUME ~rivals' PROVE e.live <=> status = "active"
  <2>1. \A x \in DOMAIN now \ {c} : now[x] = "active" => status = "canceled"
    BY <1>2, <1>3, <1>7, <1>8 DEF OneSub
  <2>2. kind = "deleted" => \A x \in DOMAIN stripe \ {c} : stripe[x] = "canceled"
    BY <1>7, <1>8 DEF StripeInv, OneSub, StatusOf
  <2>3. CASE status = "active"
    BY <1>3, <2>3
  <2>4. CASE status # "active"
    BY <1>3, <2>1, <2>2, <2>4
  <2> QED BY <2>3, <2>4
<1>9. StripeInv'
  <2>1. events' # <<>> /\ events'[Len(events')].live = e.live
    BY <1>5
  <2>2. e.live <=> \E x \in DOMAIN stripe' : stripe'[x] = "active"
    BY <1>2
  <2>3. ASSUME ~rivals', NEW n \in DOMAIN events' PROVE EventTrue(n)'
    <3>1. CASE n \in DOMAIN events
      <4>1. EventTrue(n)
        BY <1>7, <2>3, <3>1 DEF StripeInv
      <4>2. events'[n] = events[n] /\ (n > 1 => events'[n - 1] = events[n - 1])
        BY <1>5, <3>1
      <4> QED BY <4>1, <4>2 DEF EventTrue
    <3>2. CASE n = Len(events) + 1
      <4>1. kind = "payment_failed" => n > 1 /\ events'[n - 1].live
        <5>1. kind = "payment_failed" => c \in DOMAIN stripe /\ stripe[c] = "active"
          BY DEF StatusOf
        <5>2. kind = "payment_failed" => events # <<>> /\ events[Len(events)].live
          BY <5>1 DEF StripeInv
        <5>3. events # <<>> => Len(events) \in DOMAIN events /\ Len(events) >= 1
          BY <1>1, <1>5
        <5> QED BY <1>5, <3>2, <5>2, <5>3
      <4>2. /\ events'[n] = e /\ e.kind = kind /\ e.status = status
            /\ e.live <=> status = "active"
        BY <1>5, <1>8, <2>3, <3>2
      <4> QED BY <4>1, <4>2 DEF EventTrue
    <3> QED BY <1>5, <3>1, <3>2
  <2> QED BY <1>7, <2>1, <2>2, <2>3 DEF StripeInv
<1>10. PlanFollows'
  <2>1. ASSUME ~disorder, heard # {} PROVE Max0(heard) \in DOMAIN events
    <3>1. PICK m \in Nat : heard = 1 .. m
      BY <2>1 DEF InOrder
    <3> QED BY <1>1, <2>1, <3>1, MaxOfFirst
  <2>2. ~rivals' => ~rivals
    BY <1>2
  <2> QED BY <1>2, <1>5, <2>1, <2>2 DEF PlanFollows
<1>11. ~disorder' => \E m \in Nat : InOrder(m)'
  BY <1>2 DEF InOrder, Busy
<1>12. \A h \in Hooks : Busy(h)' => hook'[h].at \in DOMAIN events'
  BY <1>2, <1>5 DEF Busy
<1> QED BY <1>6, <1>9, <1>10, <1>11, <1>12

\* Every step of Stripe keeps it.
LEMMA StripeStep ==
    ASSUME BillingInv, NEW c \in Checkouts,
           \/ CheckoutOpens(c) \/ Subscribes(c) \/ Pays(c)
           \/ CheckoutCompletes(c) \/ PaymentFails(c) \/ Cancels(c)
    PROVE  BillingInv'
<1>0. DOMAIN stripe \subseteq checkout
  BY DEF BillingInv, BillingTypeOK, IsTable
<1>1. CASE CheckoutOpens(c)
  <2>1. BillingTypeOK'
    BY <1>1 DEF CheckoutOpens, BillingInv, BillingTypeOK, IsTable
  <2> QED BY <1>1, <2>1 DEF CheckoutOpens, BillingInv, StripeInv, OneSub, EventTrue,
                            InOrder, Busy, PlanFollows
<1>2. CASE Subscribes(c)
  BY <1>2, AnnouncesKeeps DEF Subscribes, SubStatus
<1>3. StatusOf(c) # "canceled" => c \in checkout
  BY <1>0 DEF StatusOf
<1>4. CASE Pays(c)
  BY <1>3, <1>4, AnnouncesKeeps DEF Pays, SubStatus
<1>5. CASE CheckoutCompletes(c)
  BY <1>3, <1>5, AnnouncesKeeps DEF CheckoutCompletes, SubStatus
<1>6. CASE PaymentFails(c)
  BY <1>3, <1>6, AnnouncesKeeps DEF PaymentFails, SubStatus
<1>7. CASE Cancels(c)
  BY <1>3, <1>7, AnnouncesKeeps DEF Cancels, Ended, SubStatus
<1> QED BY <1>1, <1>2, <1>4, <1>5, <1>6, <1>7

\* What an event makes of the plan, by its kind.
LEMMA ToldCases ==
    ASSUME NEW e, NEW seen
    PROVE  /\ e.kind = "completed" => Told(e, seen) = [tier |-> "paid", sub |-> e.sub]
           /\ e.kind = "changed" =>
                 Told(e, seen) = [tier |-> IF e.status = "active" THEN "paid" ELSE "free",
                                  sub |-> e.sub]
           /\ e.kind = "deleted" => Told(e, seen) = [tier |-> "free", sub |-> NoSub]
           /\ e.kind = "payment_failed" => Told(e, seen) = seen
<1>1. CASE e.kind = "completed"
  BY <1>1, Zenon DEF Told
<1>2. CASE e.kind = "changed"
  BY <1>2, Zenon DEF Told
<1>3. CASE e.kind = "deleted"
  BY <1>3, Zenon DEF Told
<1>4. CASE e.kind = "payment_failed"
  BY <1>4, Zenon DEF Told
<1> QED BY <1>1, <1>2, <1>3, <1>4

\* What a delivery that read the plan as it is makes of it.
LEMMA ToldTrue ==
    ASSUME BillingInv, ~rivals, NEW m \in Nat, heard = 1 .. m, ~disorder,
           NEW n \in DOMAIN events, n \in {m, m + 1}
    PROVE  Told(events[n], plan).tier = "paid" <=> events[n].live
<1>1. EventTrue(n) /\ events[n].kind \in {"completed", "changed", "deleted", "payment_failed"}
  <2>1. EventTrue(n)
    BY DEF BillingInv, StripeInv
  <2>2. events \in Seq(Event)
    BY DEF BillingInv, BillingTypeOK
  <2>3. events[n] \in Event
    BY <2>2
  <2> QED BY <2>1, <2>3 DEF Event
<1>2. n \in Nat /\ n >= 1
  BY DEF BillingInv, BillingTypeOK
<1>3. m > 0 => (plan.tier = "paid" <=> events[m].live)
  BY MaxOfFirst DEF BillingInv, PlanFollows
<1>4. CASE events[n].kind = "payment_failed"
  BY <1>1, <1>2, <1>3, <1>4, ToldCases DEF EventTrue
<1>5. CASE events[n].kind # "payment_failed"
  BY <1>1, <1>5, ToldCases DEF EventTrue
<1> QED BY <1>4, <1>5

\* Every step of a delivery keeps it.
LEMMA HookStep ==
    ASSUME BillingInv, NEW h \in Hooks,
           \/ \E n \in DOMAIN events : DeliveryRead(h, n)
           \/ DeliveryCommit(h) \/ DeliveryFails(h)
    PROVE  BillingInv'
<1> USE DEF BillingInv
<1>0. /\ plan \in Plan /\ events \in Seq(Event) /\ heard \subseteq DOMAIN events
      /\ hook \in [Hooks -> [at : {0} \cup DOMAIN events, seen : Plan]]
      /\ disorder \in BOOLEAN /\ rivals \in BOOLEAN
      /\ DOMAIN events \subseteq Nat \ {0}
  BY DEF BillingTypeOK
<1>1. ASSUME NEW n \in DOMAIN events, DeliveryRead(h, n) PROVE BillingInv'
  <2>1. /\ hook' = [hook EXCEPT ![h] = [at |-> n, seen |-> plan]]
        /\ UNCHANGED <<plan, checkout, stripe, events, heard, rivals>>
        /\ disorder' = (disorder \/ n < Max0(heard) \/ n > Max0(heard) + 1
                             \/ \E k \in Hooks : Busy(k))
    BY <1>1 DEF DeliveryRead, Busy
  <2>2. BillingTypeOK' /\ StripeInv'
    BY <1>0, <2>1 DEF BillingTypeOK, StripeInv, OneSub, EventTrue
  <2>3. ~disorder' => \E m \in Nat : InOrder(m)'
    <3>1. SUFFICES ASSUME ~disorder' PROVE \E m \in Nat : InOrder(m)'
      OBVIOUS
    <3>2. PICK m \in Nat : InOrder(m)
      BY <1>0, <2>1, <3>1
    <3>3. n \in {m, m + 1}
      <4>1. Max0(heard) = m
        BY <3>2, MaxOfFirst DEF InOrder
      <4>2. ~(n < m) /\ ~(n > m + 1)
        BY <2>1, <3>1, <4>1
      <4> QED BY <1>0, <4>2
    <3>4. InOrder(m)'
      BY <1>0, <2>1, <3>1, <3>2, <3>3 DEF InOrder, Busy
    <3> QED BY <3>4
  <2>4. PlanFollows'
    BY <1>0, <2>1 DEF PlanFollows
  <2>5. \A k \in Hooks : Busy(k)' => hook'[k].at \in DOMAIN events'
    BY <1>0, <2>1 DEF Busy
  <2> QED BY <2>2, <2>3, <2>4, <2>5
<1>2. CASE DeliveryCommit(h)
  <2> DEFINE n == hook[h].at
             seen == hook[h].seen
             now == Told(events[n], seen)
  <2>1. /\ Busy(h) /\ n \in DOMAIN events /\ seen \in Plan
        /\ plan' = [tier |-> IF now.tier = seen.tier THEN plan.tier ELSE now.tier,
                    sub |-> IF now.sub = seen.sub THEN plan.sub ELSE now.sub]
        /\ heard' = heard \cup {n}
        /\ hook' = [hook EXCEPT ![h] = HookIdle]
        /\ UNCHANGED <<checkout, stripe, events, disorder, rivals>>
    BY <1>0, <1>2 DEF DeliveryCommit, Busy
  <2>2. now \in Plan
    <3>1. events[n] \in Event
      BY <1>0, <2>1
    <3>2. events[n].kind \in {"completed", "changed", "deleted", "payment_failed"}
          /\ events[n].sub \in Checkouts
      BY <3>1 DEF Event
    <3> QED BY <2>1, <3>2, ToldCases DEF Plan
  <2>3. BillingTypeOK'
    <3>1. plan' \in Plan
      BY <1>0, <2>1, <2>2 DEF Plan
    <3>2. hook' \in [Hooks -> [at : {0} \cup DOMAIN events, seen : Plan]]
      BY <1>0, <2>1 DEF HookIdle, Plan
    <3> QED BY <1>0, <2>1, <3>1, <3>2 DEF BillingTypeOK
  <2>4. StripeInv'
    BY <2>1 DEF StripeInv, OneSub, EventTrue
  <2>5. \A k \in Hooks : Busy(k)' => k # h /\ Busy(k) /\ hook'[k] = hook[k]
    BY <1>0, <2>1 DEF Busy
  <2>6. ASSUME ~disorder'
        PROVE  /\ \E m \in Nat : InOrder(m)'
               /\ ~rivals' => (plan'.tier = "paid" <=> events'[Max0(heard')].live)
    <3>1. PICK m \in Nat : InOrder(m)
      BY <2>1, <2>6
    <3>2. /\ n \in {m, m + 1} /\ seen = plan /\ heard = 1 .. m
          /\ \A k \in Hooks : ~Busy(k)'
      BY <2>1, <2>5, <3>1 DEF InOrder
    <3> PICK i \in Nat : i = n
      BY <1>0, <2>1
    <3>3. heard' = 1 .. i
      BY <1>0, <2>1, <3>2
    <3>4. InOrder(i)'
      BY <3>2, <3>3 DEF InOrder
    <3>5. plan'.tier = now.tier
      BY <2>1, <3>2
    <3>6. ~rivals => (now.tier = "paid" <=> events[i].live)
      BY <2>1, <2>6, <3>2, ToldTrue
    <3>7. Max0(heard') = i
      BY <3>3, MaxOfFirst
    <3>8. ~rivals' => (plan'.tier = "paid" <=> events'[Max0(heard')].live)
      BY <2>1, <3>5, <3>6, <3>7
    <3> QED BY <3>4, <3>8
  <2>7. PlanFollows'
    BY <2>6 DEF PlanFollows
  <2> QED BY <2>1, <2>3, <2>4, <2>5, <2>6, <2>7
<1>3. CASE DeliveryFails(h)
  <2>1. /\ hook' = [hook EXCEPT ![h] = HookIdle]
        /\ UNCHANGED <<plan, checkout, stripe, events, heard, disorder, rivals>>
    BY <1>3 DEF DeliveryFails
  <2>2. \A k \in Hooks : Busy(k)' => Busy(k) /\ hook'[k] = hook[k]
    BY <1>0, <2>1 DEF Busy
  <2>3. hook' \in [Hooks -> [at : {0} \cup DOMAIN events, seen : Plan]]
    BY <1>0, <2>1 DEF HookIdle, Plan
  <2>4. BillingTypeOK' /\ StripeInv'
    BY <1>0, <2>1, <2>3 DEF BillingTypeOK, StripeInv, OneSub, EventTrue
  <2>5. PlanFollows'
    BY <2>1 DEF PlanFollows
  <2>6. ASSUME NEW m \in Nat, InOrder(m) PROVE InOrder(m)'
    BY <2>1, <2>2, <2>6 DEF InOrder
  <2> QED BY <2>1, <2>2, <2>4, <2>5, <2>6
<1> QED BY <1>1, <1>2, <1>3

\* Every step keeps it.
LEMMA BillingStep ==
    ASSUME BillingInv, [BillingNext]_billingVars
    PROVE  BillingInv'
<1>1. CASE UNCHANGED billingVars
  BY <1>1 DEF billingVars, BillingInv, BillingTypeOK, IsTable, StripeInv, OneSub,
              EventTrue, InOrder, Busy, PlanFollows
<1> QED BY <1>1, StripeStep, HookStep DEF BillingNext

\* It holds when nothing was sold.
LEMMA BillingStart == BillingInit => BillingInv
<1> SUFFICES ASSUME BillingInit PROVE BillingInv
  OBVIOUS
<1>1. BillingTypeOK
  <2>1. IsTable(stripe, checkout, SubStatus) /\ events \in Seq(Event)
    BY DEF BillingInit, IsTable, EmptyTable
  <2> QED BY <2>1 DEF BillingInit, BillingTypeOK, Plan, HookIdle
<1>2. StripeInv
  BY DEF BillingInit, StripeInv, OneSub, EmptyTable
<1>3. InOrder(0)
  BY DEF BillingInit, InOrder, Busy
<1>4. PlanFollows /\ \A h \in Hooks : ~Busy(h)
  BY DEF BillingInit, PlanFollows, Busy
<1> QED BY <1>1, <1>2, <1>3, <1>4 DEF BillingInv

\* The plan is paid exactly if the workspace had an active subscription when the
\* latest event that was heard was sent, however often events are repeated and
\* whatever fails, while events come in order and there are no two
\* subscriptions at once (main.py, the Stripe webhook; billing.py).
THEOREM PlanFollowsStripe == BillingSpec => []PlanFollows
<1>1. BillingInv => PlanFollows
  BY DEF BillingInv
<1> QED BY <1>1, BillingStart, BillingStep, PTL DEF BillingSpec

\* The plan, Stripe's subscriptions and events and the webhook's requests keep
\* their types; a request is about an event that Stripe has sent.
THEOREM BillingTypesOK == BillingSpec => []BillingTypeOK
<1>1. BillingInv => BillingTypeOK
  BY DEF BillingInv
<1> QED BY <1>1, BillingStart, BillingStep, PTL DEF BillingSpec

-----------------------------------------------------------------------------
(* Spending. *)

\* Sums and numbers of the books.
BooksOK ==
    /\ purse \in Purse /\ echo \in {JudgeModel, "dated"}
    /\ judged \subseteq EndedRuns \X {JudgeModel, "dated"}
    /\ ledger \in Nat /\ billed \in Nat /\ lost \in Nat /\ owed \in Nat

WorkOK == work \in [Spenders -> Work]

\* The types, by what a step may disturb together.
LEMMA TypesInParts ==
    SpendingTypeOK <=> /\ BooksOK /\ WorkOK /\ key \in BOOLEAN /\ stale \in BOOLEAN
                       /\ settings \in 0..MaxSettings /\ spendFaults \in 0..MaxSpendFaults
BY DEF SpendingTypeOK, BooksOK, WorkOK

-----------------------------------------------------------------------------
(* The types. *)

\* Stages that steps lead to.
LEMMA StagesThere ==
    {"pending", "judging", "answered", "writing", "success", "failed", "died"} \subseteq WorkStages
BY DEF WorkStages

\* A row of work is written whole.
LEMMA RowWritten ==
    ASSUME WorkOK, NEW j \in Spenders, NEW w \in Work, work' = [work EXCEPT ![j] = w]
    PROVE  WorkOK'
BY DEF WorkOK

\* The workspace's row, as a session keeps it.
LEMMA PoolIsARow == ASSUME purse \in Purse PROVE Pool \in PoolRow
BY DEF Purse, PoolRow, Pool

\* And the row of a session that keeps none.
LEMMA NothingHeld == NoRow \in PoolRow
BY SpendingAssumption DEF NoRow, PoolRow

\* A job moves on.
LEMMA SetStageTyped ==
    ASSUME WorkOK, NEW j \in Spenders, NEW s \in WorkStages, SetStage(j, s)
    PROVE  WorkOK'
BY DEF WorkOK, Work, SetStage

\* Its session is closed.
LEMMA ClosesTyped ==
    ASSUME WorkOK, NEW j \in Spenders, NEW s \in WorkStages, Closes(j, s)
    PROVE  WorkOK'
<1> DEFINE w == [work[j] EXCEPT !.stage = s, !.calls = 0, !.held = NoRow, !.left = {}]
<1>1. w \in Work
  BY NothingHeld DEF WorkOK, Work
<1>2. work' = [work EXCEPT ![j] = w]
  BY DEF WorkOK, Work, Closes
<1> QED BY <1>1, <1>2, RowWritten

\* The pool that is left is one of the pools there can be.
LEMMA RecordTyped ==
    ASSUME BooksOK, stale \in BOOLEAN, NEW w \in Work, Record(w),
           UNCHANGED <<echo, billed, lost>>, judged' \subseteq EndedRuns \X {JudgeModel, "dated"}
    PROVE  BooksOK' /\ stale' \in BOOLEAN
<1>1. w.calls \in Nat /\ w.held \in PoolRow
  BY DEF Work
<1>2. Left(w) \in 0..FreeCredits
  BY <1>1, SpendingAssumption DEF Left, PoolRow
<1>3. purse' \in Purse /\ stale' \in BOOLEAN
  BY <1>2 DEF Record, BooksOK, Purse
<1>4. ledger' \in Nat /\ owed' \in Nat
  BY <1>1 DEF Record, BooksOK
<1> QED BY <1>3, <1>4 DEF BooksOK

\* The rows of its verdicts.
LEMMA RowsTyped ==
    ASSUME BooksOK, WorkOK, NEW j \in Spenders
    PROVE  Rows(j) \subseteq EndedRuns \X {JudgeModel, "dated"}
BY DEF Rows, BooksOK, WorkOK, Work

\* At first.
LEMMA InitTyped ==
    ASSUME SpendingInit
    PROVE  SpendingTypeOK
<1>1. NewWork \in Work
  BY NothingHeld DEF NewWork, Work, WorkStages
<1>2. WorkOK
  BY <1>1 DEF SpendingInit, WorkOK
<1>3. purse \in Purse
  BY SpendingAssumption DEF SpendingInit, Purse
<1>4. BooksOK
  BY <1>3 DEF SpendingInit, BooksOK
<1>5. settings \in 0..MaxSettings /\ spendFaults \in 0..MaxSpendFaults
  BY SpendingAssumption DEF SpendingInit
<1>6. key \in BOOLEAN /\ stale \in BOOLEAN
  BY DEF SpendingInit
<1> QED BY <1>2, <1>4, <1>5, <1>6, TypesInParts

\* And after every step.
LEMMA TypeStep ==
    ASSUME SpendingTypeOK, [SpendingNext]_spendVars
    PROVE  SpendingTypeOK'
<1> USE TypesInParts DEF BooksOK
<1>0. \A j \in Spenders : work[j] \in Work
  BY DEF WorkOK
<1>1. ASSUME NEW b \in Budgets, SetBudget(b) PROVE SpendingTypeOK'
  BY <1>1, SpendingAssumption DEF SetBudget, Setting, SpendingTypeOK, Purse
<1>2. CASE ChangePlan
  BY <1>2, SpendingAssumption DEF ChangePlan, Setting, SpendingTypeOK, Purse
<1>3. CASE RemoveKey \/ UNCHANGED spendVars
  <2>1. settings' \in 0..MaxSettings
    BY <1>3, SpendingAssumption DEF RemoveKey, Setting, SpendingTypeOK, spendVars
  <2> QED BY <1>3, <2>1 DEF RemoveKey, SpendingTypeOK, WorkOK, spendVars
<1>4. ASSUME NEW j \in Spenders, Ask(j) \/ Cron(j) PROVE SpendingTypeOK'
  <2>1. SetStage(j, "pending") /\ "pending" \in WorkStages
    BY <1>4 DEF Ask, Cron, WorkStages
  <2>2. WorkOK'
    BY <2>1, SetStageTyped
  <2> QED BY <1>4, <2>2 DEF Ask, Cron, SpendingTypeOK, WorkOK
<1>5. ASSUME NEW j \in Spenders, StartGeneration(j) PROVE SpendingTypeOK'
  <2>1. \E s \in WorkStages : SetStage(j, s)
    BY <1>5 DEF StartGeneration, WorkStages
  <2>2. WorkOK'
    BY <2>1, SetStageTyped
  <2> QED BY <1>5, <2>2 DEF StartGeneration, SpendingTypeOK, WorkOK
<1>6. ASSUME NEW j \in Spenders, CallAnswered(j) \/ CallFails(j) PROVE SpendingTypeOK'
  <2>1. WorkOK'
    <3>1. CASE \E f \in {"success", "failed"} :
                  work' = [work EXCEPT ![j].calls = @ + 1, ![j].stage = "answered", ![j].fate = f]
      <4>1. PICK f \in {"success", "failed"} :
               work' = [work EXCEPT ![j].calls = @ + 1, ![j].stage = "answered", ![j].fate = f]
        BY <3>1
      <4> DEFINE w == [work[j] EXCEPT !.calls = @ + 1, !.stage = "answered", !.fate = f]
      <4>2. w \in Work
        <5>1. work[j] \in Work /\ work[j].calls + 1 \in Nat /\ "answered" \in WorkStages
          BY <1>0, StagesThere DEF Work
        <5> QED BY <4>1, <5>1 DEF Work
      <4>3. work' = [work EXCEPT ![j] = w]
        BY <1>0, <4>1 DEF WorkOK, Work
      <4> QED BY <4>2, <4>3, RowWritten
    <3>2. CASE work' = [work EXCEPT ![j].calls = @ + 1]
      BY <1>0, <3>2 DEF WorkOK, Work
    <3>3. CASE CallFails(j)
      <4>1. PICK s \in WorkStages :
               work' = [work EXCEPT ![j].stage = s, ![j].fate = "failed"]
        BY <3>3, StagesThere DEF CallFails
      <4> DEFINE w == [work[j] EXCEPT !.stage = s, !.fate = "failed"]
      <4>2. w \in Work
        BY <1>0 DEF Work
      <4>3. work' = [work EXCEPT ![j] = w]
        BY <1>0, <4>1 DEF WorkOK, Work
      <4> QED BY <4>2, <4>3, RowWritten
    <3> QED BY <1>6, <3>1, <3>2, <3>3 DEF CallAnswered
  <2> QED BY <1>6, <2>1 DEF CallAnswered, CallFails, SpendingTypeOK, WorkOK
<1>7. ASSUME NEW j \in Spenders, ReadPool(j) \/ Report(j) PROVE SpendingTypeOK'
  <2>1. WorkOK'
    BY <1>0, <1>7, PoolIsARow DEF WorkOK, Work, WorkStages, ReadPool, Report
  <2> QED BY <1>7, <2>1 DEF ReadPool, Report, SpendingTypeOK, WorkOK
<1>8. ASSUME NEW j \in Spenders, Commit(j) PROVE SpendingTypeOK'
  <2>1. WorkOK'
    <3>1. work[j].fate \in WorkStages
      BY <1>0 DEF Work, WorkStages
    <3> QED BY <1>8, <3>1, ClosesTyped DEF Commit
  <2>2. BooksOK' /\ stale' \in BOOLEAN
    BY <1>0, <1>8, RecordTyped DEF Commit
  <2> QED BY <1>8, <2>1, <2>2 DEF Commit, SpendingTypeOK, WorkOK
<1>9. ASSUME NEW j \in Spenders, StartEval(j) PROVE SpendingTypeOK'
  <2>1. WorkOK'
    <3>1. ASSUME NEW S \in SUBSET Unjudged,
                 work' = [work EXCEPT ![j].stage = "judging", ![j].left = S,
                                      ![j].held = Pool,
                                      ![j].earlier = {k \in EvalJobs : work[k].stage = "success"}]
          PROVE  WorkOK'
      <4> DEFINE E == {k \in EvalJobs : work[k].stage = "success"}
                 w == [work[j] EXCEPT !.stage = "judging", !.left = S, !.held = Pool,
                                      !.earlier = E]
      <4>1. S \subseteq EndedRuns /\ E \subseteq EvalJobs /\ Pool \in PoolRow
        BY PoolIsARow DEF Unjudged
      <4> HIDE DEF E
      <4>2. w \in Work
        BY <1>0, <4>1, StagesThere DEF Work
      <4>3. work' = [work EXCEPT ![j] = w]
        BY <1>0, <3>1 DEF WorkOK, Work, E
      <4> QED BY <4>2, <4>3, RowWritten
    <3>2. CASE SetStage(j, "success")
      BY <3>2, SetStageTyped DEF WorkStages
    <3> QED BY <1>9, <3>1, <3>2 DEF StartEval
  <2> QED BY <1>9, <2>1 DEF StartEval, SpendingTypeOK, WorkOK
<1>10. ASSUME NEW j \in Spenders, NEW r \in EndedRuns, Judge(j, r) PROVE SpendingTypeOK'
  <2>1. WorkOK'
    <3>1. CASE work' = [work EXCEPT ![j].left = @ \ {r}]
      BY <1>0, <3>1 DEF WorkOK, Work
    <3>2. CASE work' = [work EXCEPT ![j].left = @ \ {r}, ![j].verdicts = @ \cup {r},
                                    ![j].calls = @ + 1]
      BY <1>0, <3>2 DEF WorkOK, Work
    <3> QED BY <1>10, <3>1, <3>2 DEF Judge
  <2> QED BY <1>10, <2>1 DEF Judge, SpendingTypeOK, WorkOK
<1>11. ASSUME NEW j \in Spenders, EndEval(j) PROVE SpendingTypeOK'
  <2>1. WorkOK'
    BY <1>11, ClosesTyped DEF EndEval, WorkStages
  <2>2. BooksOK' /\ stale' \in BOOLEAN
    BY <1>0, <1>11, RecordTyped, RowsTyped DEF EndEval
  <2> QED BY <1>11, <2>1, <2>2 DEF EndEval, SpendingTypeOK, WorkOK
<1>12. ASSUME NEW j \in Spenders, EvalRefused(j) \/ Die(j) PROVE SpendingTypeOK'
  <2>1. WorkOK'
    BY <1>12, ClosesTyped DEF EvalRefused, Die, WorkStages
  <2>2. work[j].calls \in Nat
    BY <1>0 DEF Work
  <2> QED BY <1>12, <2>1, <2>2, SpendingAssumption DEF EvalRefused, Die, SpendingTypeOK, WorkOK
<1> QED BY <1>1, <1>2, <1>3, <1>4, <1>5, <1>6, <1>7, <1>8, <1>9, <1>10, <1>11, <1>12
       DEF SpendingNext

\* The rows of a workspace's jobs, verdicts and books keep their types: a pool is
\* never written below 0 or above what it was at first (billing_gate.py).
THEOREM SpendingTypeCorrect == SpendingSpec => []SpendingTypeOK
<1>1. SpendingInit => SpendingTypeOK
  BY InitTyped
<1> QED BY <1>1, TypeStep, PTL DEF SpendingSpec

-----------------------------------------------------------------------------
(* Verdicts. *)

\* Stages of an evaluation that has or may have verdicts.
Judges == {"judging", "success", "failed", "died"}

\* An evaluation that succeeded has its rows in the table, and those that took
\* their samples after it have none of its runs left to judge.
JudgedInv ==
    /\ \A j \in Spenders : work[j].stage \notin Judges => work[j].verdicts = {}
    /\ \A k \in Spenders : work[k].stage = "success" => Rows(k) \subseteq judged
    /\ \A j \in Spenders : \A k \in work[j].earlier :
          /\ work[k].stage = "success"
          /\ echo = JudgeModel =>
                (work[j].left \cup work[j].verdicts) \cap work[k].verdicts = {}

\* The job moves on: it judges nothing, and if it succeeds its rows are there.
JobMoves(j) ==
    /\ work[j].stage # "success"
    /\ \A k \in Spenders \ {j} : work'[k] = work[k]
    /\ work'[j].verdicts = work[j].verdicts /\ work'[j].earlier = work[j].earlier
    /\ work'[j].left \subseteq work[j].left
    /\ work'[j].stage \notin Judges => work[j].stage \notin Judges
    /\ work'[j].stage = "success" => Rows(j) \subseteq judged'
    /\ judged \subseteq judged' /\ echo' = echo

\* That disturbs no verdict.
LEMMA MovesKeeps ==
    ASSUME JudgedInv, WorkOK, NEW j \in Spenders, JobMoves(j)
    PROVE  JudgedInv'
<1> USE DEF JudgedInv
<1>0. \A k \in Spenders : work[k].earlier \subseteq Spenders
  BY DEF WorkOK, Work, Spenders
<1>1. \A k \in Spenders : work'[k].verdicts = work[k].verdicts
                          /\ work'[k].earlier = work[k].earlier
                          /\ work'[k].left \subseteq work[k].left
  BY DEF JobMoves
<1>2. \A k \in Spenders : Rows(k)' = Rows(k)
  BY <1>1 DEF JobMoves, Rows
<1>3. \A k \in Spenders : work'[k].stage = "success" => Rows(k)' \subseteq judged'
  BY <1>2 DEF JobMoves
<1>4. \A k \in Spenders : work'[k].stage \notin Judges => work'[k].verdicts = {}
  BY <1>1 DEF JobMoves
<1>5. ASSUME NEW i \in Spenders, NEW k \in work'[i].earlier
      PROVE  /\ work'[k].stage = "success"
             /\ echo' = JudgeModel =>
                   (work'[i].left \cup work'[i].verdicts) \cap work'[k].verdicts = {}
  <2>1. k \in Spenders /\ k \in work[i].earlier /\ work[k].stage = "success"
    BY <1>0, <1>1, <1>5
  <2>2. k # j
    BY <2>1 DEF JobMoves
  <2> QED BY <1>1, <2>1, <2>2 DEF JobMoves
<1> QED BY <1>3, <1>4, <1>5

\* Every step keeps them apart.
LEMMA JudgedStep ==
    ASSUME JudgedInv, SpendingTypeOK, [SpendingNext]_spendVars
    PROVE  JudgedInv'
<1>0. WorkOK /\ \A j \in Spenders : work[j] \in Work
  BY DEF WorkOK, SpendingTypeOK
<1>1. CASE UNCHANGED <<work, judged, echo>>
  BY <1>1 DEF JudgedInv, Rows
<1>2. ASSUME NEW j \in Spenders,
             \/ Ask(j) \/ Cron(j) \/ StartGeneration(j) \/ CallAnswered(j) \/ CallFails(j)
             \/ ReadPool(j) \/ Report(j)
      PROVE  JudgedInv'
  <2>1. JobMoves(j)
    BY <1>0, <1>2
       DEF JobMoves, Work, WorkOK, Judges, SetStage, Ask, Cron, StartGeneration, CallAnswered, CallFails,
           ReadPool, Report
  <2> QED BY <1>0, <2>1, MovesKeeps
<1>3. ASSUME NEW j \in Spenders, Commit(j) PROVE JudgedInv'
  <2>1. Rows(j) = {}
    BY <1>3 DEF Commit, JudgedInv, Judges, Rows
  <2>2. JobMoves(j)
    BY <1>0, <1>3, <2>1 DEF JobMoves, Work, WorkOK, Judges, Commit, Closes
  <2> QED BY <1>0, <2>2, MovesKeeps
<1>4. ASSUME NEW j \in Spenders, EndEval(j) \/ EvalRefused(j) \/ Die(j) PROVE JudgedInv'
  <2>1. JobMoves(j)
    BY <1>0, <1>4 DEF JobMoves, Work, WorkOK, Judges, AtWork, EndEval, EvalRefused, Die, Closes
  <2> QED BY <1>0, <2>1, MovesKeeps
<1>5. ASSUME NEW j \in Spenders, StartEval(j) PROVE JudgedInv'
  <2>1. work[j].stage = "pending" /\ work[j].verdicts = {} /\ UNCHANGED <<judged, echo>>
    BY <1>5 DEF StartEval, JudgedInv, Judges
  <2>2. CASE SetStage(j, "success")
    <3>1. JobMoves(j)
      BY <1>0, <2>1, <2>2 DEF JobMoves, Work, WorkOK, Judges, SetStage, Rows
    <3> QED BY <1>0, <3>1, MovesKeeps
  <2>3. ASSUME NEW S \in SUBSET Unjudged,
               work' = [work EXCEPT ![j].stage = "judging", ![j].left = S,
                                    ![j].held = Pool,
                                    ![j].earlier = {k \in EvalJobs : work[k].stage = "success"}]
        PROVE  JudgedInv'
    <3>1. /\ \A k \in Spenders \ {j} : work'[k] = work[k]
          /\ work'[j].verdicts = {} /\ work'[j].left = S /\ work'[j].stage = "judging"
          /\ work'[j].earlier = {k \in EvalJobs : work[k].stage = "success"}
      BY <1>0, <2>1, <2>3 DEF Work, WorkOK
    <3>2. \A k \in Spenders : Rows(k)' = Rows(k)
      BY <2>1, <3>1 DEF Rows
    <3>3. ASSUME NEW k \in EvalJobs, work[k].stage = "success", echo = JudgeModel
          PROVE  S \cap work[k].verdicts = {}
      <4>1. \A r \in work[k].verdicts : <<r, JudgeModel>> \in judged
        BY <3>3 DEF JudgedInv, Rows, Spenders
      <4> QED BY <4>1 DEF Unjudged
    <3>4. ASSUME NEW i \in Spenders, NEW k \in work'[i].earlier
          PROVE  /\ work'[k].stage = "success"
                 /\ echo' = JudgeModel =>
                       (work'[i].left \cup work'[i].verdicts) \cap work'[k].verdicts = {}
      <4>1. CASE i = j
        BY <2>1, <3>1, <3>3, <3>4, <4>1 DEF Spenders
      <4>2. CASE i # j
        <5>1. k \in work[i].earlier /\ k \in Spenders /\ k # j
          BY <1>0, <2>1, <3>1, <3>4, <4>2 DEF JudgedInv, Work, Spenders
        <5> QED BY <2>1, <3>1, <4>2, <5>1 DEF JudgedInv
      <4> QED BY <4>1, <4>2
    <3> QED BY <2>1, <3>1, <3>2, <3>4 DEF JudgedInv, Judges
  <2> QED BY <1>5, <2>2, <2>3 DEF StartEval
<1>6. ASSUME NEW j \in Spenders, NEW r \in EndedRuns, Judge(j, r) PROVE JudgedInv'
  <2>1. CASE work' = [work EXCEPT ![j].left = @ \ {r}]
    <3>1. JobMoves(j)
      BY <1>0, <1>6, <2>1 DEF JobMoves, Work, WorkOK, Judges, Judge
    <3> QED BY <1>0, <3>1, MovesKeeps
  <2>2. CASE work' = [work EXCEPT ![j].left = @ \ {r}, ![j].verdicts = @ \cup {r},
                                  ![j].calls = @ + 1]
    <3>1. /\ \A k \in Spenders \ {j} : work'[k] = work[k]
          /\ work'[j].left \cup work'[j].verdicts \subseteq work[j].left \cup work[j].verdicts
          /\ work'[j].earlier = work[j].earlier
          /\ work[j].stage = "judging" /\ work'[j].stage = "judging"
          /\ UNCHANGED <<judged, echo>>
      BY <1>0, <1>6, <2>2 DEF Work, WorkOK, Judge
    <3>2. \A k \in Spenders \ {j} : Rows(k)' = Rows(k)
      BY <3>1 DEF Rows
    <3>3. ASSUME NEW i \in Spenders, NEW k \in work'[i].earlier
          PROVE  /\ work'[k].stage = "success"
                 /\ echo' = JudgeModel =>
                       (work'[i].left \cup work'[i].verdicts) \cap work'[k].verdicts = {}
      <4>1. k \in work[i].earlier /\ k \in Spenders /\ k # j
        BY <1>0, <3>1, <3>3 DEF JudgedInv, Work, Spenders
      <4>2. work[k].stage = "success"
            /\ (echo = JudgeModel =>
                   (work[i].left \cup work[i].verdicts) \cap work[k].verdicts = {})
        BY <4>1 DEF JudgedInv
      <4>3. work'[i].left \cup work'[i].verdicts \subseteq work[i].left \cup work[i].verdicts
        BY <3>1
      <4> QED BY <3>1, <4>1, <4>2, <4>3
    <3> QED BY <3>1, <3>2, <3>3 DEF JudgedInv, Judges
  <2> QED BY <1>6, <2>1, <2>2 DEF Judge
<1> QED BY <1>1, <1>2, <1>3, <1>4, <1>5, <1>6
       DEF SpendingNext, SetBudget, ChangePlan, RemoveKey, spendVars

\* However many crons ask and runners answer, no evaluation gets a verdict that one
\* before its sample got, if the judge answers under the name it is called by
\* (eval_sampler.py, pick_sample; eval_runner.py, run_eval_job).
THEOREM JudgesOnce == SpendingSpec => []JudgedOnce
<1>1. SpendingInit => SpendingTypeOK /\ JudgedInv
  <2> SUFFICES ASSUME SpendingInit
               PROVE  SpendingTypeOK /\ JudgedInv
    OBVIOUS
  <2>1. \A j \in Spenders : /\ work[j].stage = "new"
                            /\ work[j].verdicts = {} /\ work[j].earlier = {}
    BY DEF SpendingInit, NewWork
  <2> QED BY <2>1, InitTyped DEF JudgedInv, Judges
<1>2. JudgedInv => JudgedOnce
  BY DEF JudgedInv, JudgedOnce, Spenders
<1> QED BY <1>1, <1>2, TypeStep, JudgedStep, PTL DEF SpendingSpec
-----------------------------------------------------------------------------
(* The pool. *)

\* Sessions that keep the workspace's row.
Keeps(w) == w.stage \in {"writing", "judging"}

\* A row that a session keeps is no poorer than the pool ought to be, and while no
\* pool was written from an old row, no poorer than the pool is.
PoolInv ==
    /\ PoolAgrees
    /\ \A j \in Spenders : Keeps(work[j]) =>
          work[j].held.credits >= Due
          /\ (~stale => work[j].held.credits >= purse.credits)

\* The numbers compared.
LEMMA PoolNumbers ==
    ASSUME SpendingTypeOK
    PROVE  /\ purse.credits \in 0..FreeCredits /\ owed \in Nat /\ Due \in Nat
           /\ \A j \in Spenders : /\ work[j].held.credits \in Nat /\ work[j].calls \in Nat
                                  /\ work[j].held.plan \in {"free", "paid"}
<1>1. \A j \in Spenders : work[j] \in Work
  BY DEF SpendingTypeOK
<1>2. \A j \in Spenders : work[j].held \in PoolRow /\ work[j].calls \in Nat
  BY <1>1 DEF Work
<1> QED BY <1>2, SpendingAssumption DEF SpendingTypeOK, Purse, PoolRow, Due

\* A step that records nothing, and keeps no row but the workspace's as it is.
Quiet ==
    /\ purse'.credits = purse.credits /\ owed' = owed /\ stale' = stale
    /\ \A j \in Spenders : Keeps(work'[j]) =>
          work'[j].held.credits \in {work[j].held.credits, purse.credits}
          /\ (work'[j].held.credits # purse.credits => Keeps(work[j]))

\* Such a step leaves the pool as it was.
LEMMA QuietKeeps ==
    ASSUME PoolInv, SpendingTypeOK, Quiet
    PROVE  PoolInv'
<1>1. Due' = Due
  BY DEF Due, Quiet
<1>2. PoolAgrees'
  BY <1>1 DEF PoolInv, PoolAgrees, Quiet
<1>3. ASSUME NEW j \in Spenders, Keeps(work'[j])
      PROVE  work'[j].held.credits >= Due
             /\ (~stale => work'[j].held.credits >= purse.credits)
  <2>1. CASE work'[j].held.credits = purse.credits
    BY <2>1, PoolNumbers DEF PoolInv, PoolAgrees
  <2>2. CASE work'[j].held.credits # purse.credits
    BY <1>3, <2>2 DEF PoolInv, Quiet
  <2> QED BY <2>1, <2>2
<1> QED BY <1>1, <1>2, <1>3 DEF PoolInv, Quiet, Keeps

\* What is recorded by the session of a job is due, and comes out of the pool.
LEMMA RecordKeeps ==
    ASSUME PoolInv, SpendingTypeOK, NEW j \in Spenders, Keeps(work[j]), Record(work[j]),
           ~Keeps(work'[j]), \A i \in Spenders \ {j} : work'[i] = work[i]
    PROVE  PoolInv'
<1> DEFINE w == work[j]
<1>0. /\ purse.credits \in 0..FreeCredits /\ owed \in Nat /\ Due \in Nat
      /\ w.held.credits \in Nat /\ w.calls \in Nat /\ FreeCredits \in Nat
  BY PoolNumbers, SpendingAssumption
<1>1. /\ w.held.credits >= Due /\ (~stale => w.held.credits >= purse.credits)
      /\ purse.credits >= Due /\ (~stale => purse.credits = Due)
  BY DEF PoolInv, PoolAgrees
<1>2. CASE w.held.plan = "free" /\ w.calls > 0 /\ Left(w) # w.held.credits
  <2>1. /\ purse'.credits = Left(w) /\ owed' = owed + w.calls
        /\ stale' = (stale \/ w.held.credits # purse.credits)
    BY <1>2 DEF Record, PoolPays, SpendingTypeOK, Purse
  <2>2. Left(w) = IF w.held.credits > w.calls THEN w.held.credits - w.calls ELSE 0
    BY DEF Left
  <2> HIDE DEF w
  <2>3. Due' <= Due /\ Left(w) >= Due' /\ (w.held.credits = Due => Left(w) = Due')
    BY <1>0, <1>1, <2>1, <2>2 DEF Due
  <2>4. Due' \in Nat /\ Left(w) \in Nat /\ Left(w) <= w.held.credits
    BY <1>0, <2>1, <2>2 DEF Due
  <2>5. PoolAgrees'
    BY <1>1, <2>1, <2>3 DEF PoolAgrees
  <2>6. ASSUME NEW i \in Spenders, Keeps(work'[i])
        PROVE  work'[i].held.credits >= Due' /\ (~stale' => work'[i].held.credits >= Left(w))
    <3>1. /\ work'[i] = work[i] /\ work[i].held.credits \in Nat
          /\ work[i].held.credits >= Due
          /\ (~stale => work[i].held.credits >= purse.credits)
      BY <2>6, PoolNumbers DEF PoolInv
    <3>2. work'[i].held.credits >= Due'
      BY <1>0, <2>3, <2>4, <3>1
    <3>3. ~stale' => ~stale /\ w.held.credits = purse.credits
      BY <2>1
    <3>4. ASSUME ~stale' PROVE work'[i].held.credits >= Left(w)
      BY <1>0, <2>4, <3>1, <3>3, <3>4
    <3> QED BY <3>2, <3>4
  <2> QED BY <2>1, <2>5, <2>6 DEF PoolInv, Keeps
<1>3. CASE ~(w.held.plan = "free" /\ w.calls > 0 /\ Left(w) # w.held.credits)
  <2>1. /\ purse' = purse /\ stale' = stale
        /\ owed' = owed \/ (owed' = owed + w.calls /\ w.held.credits = 0)
    <3>1. purse' = purse /\ stale' = stale
      BY <1>3 DEF Record, PoolPays
    <3>2. CASE w.held.plan # "free" \/ w.calls = 0
      BY <1>0, <3>1, <3>2 DEF Record
    <3>3. CASE w.held.plan = "free" /\ w.calls > 0 /\ Left(w) = w.held.credits
      BY <1>0, <3>1, <3>3 DEF Record, Left
    <3> QED BY <1>0, <1>3, <3>2, <3>3
  <2> HIDE DEF w
  <2>2. Due' <= Due /\ Due' \in Nat /\ (w.held.credits = 0 \/ owed' = owed => Due' = Due)
    BY <1>0, <1>1, <2>1 DEF Due
  <2>3. Due' = Due
    BY <2>1, <2>2
  <2>4. PoolAgrees'
    BY <1>1, <2>1, <2>3 DEF PoolAgrees
  <2>5. \A i \in Spenders : Keeps(work'[i]) => work'[i] = work[i]
    OBVIOUS
  <2> QED BY <2>1, <2>3, <2>4, <2>5 DEF PoolInv, Keeps
<1> QED BY <1>2, <1>3

\* Every step keeps the pool in agreement.
LEMMA PoolStep ==
    ASSUME PoolInv, SpendingTypeOK, [SpendingNext]_spendVars
    PROVE  PoolInv'
<1>0. WorkOK /\ purse \in Purse /\ \A j \in Spenders : work[j] \in Work
  BY DEF WorkOK, SpendingTypeOK
<1>1. CASE purse'.credits = purse.credits /\ UNCHANGED <<work, owed, stale>>
  BY <1>1, QuietKeeps DEF Quiet
<1>2. CASE (\E b \in Budgets : SetBudget(b)) \/ ChangePlan
  <2>1. purse'.credits = purse.credits
    BY <1>0, <1>2 DEF SetBudget, ChangePlan, Purse
  <2> QED BY <1>1, <1>2, <2>1 DEF SetBudget, ChangePlan
<1>3. ASSUME NEW j \in Spenders,
             \/ Ask(j) \/ Cron(j) \/ StartGeneration(j) \/ CallAnswered(j) \/ CallFails(j)
             \/ ReadPool(j) \/ Report(j) \/ StartEval(j) \/ EvalRefused(j) \/ Die(j)
      PROVE  PoolInv'
  <2>1. UNCHANGED <<purse, owed, stale>>
    BY <1>3 DEF Ask, Cron, StartGeneration, CallAnswered, CallFails, ReadPool, Report, StartEval,
                EvalRefused, Die
  <2>2. \A i \in Spenders \ {j} : work'[i] = work[i]
    BY <1>0, <1>3 DEF WorkOK, Ask, Cron, StartGeneration, CallAnswered, CallFails, ReadPool,
                      Report, StartEval, EvalRefused, Die, SetStage, Closes
  <2>3. ~Keeps(work'[j]) \/ work'[j].held = Pool
    <3>1. CASE Ask(j) \/ Cron(j) \/ StartGeneration(j) \/ EvalRefused(j) \/ Die(j)
      BY <1>0, <3>1 DEF Work, WorkOK, Keeps, Ask, Cron, StartGeneration, EvalRefused, Die,
                        SetStage, Closes
    <3>2. CASE CallAnswered(j) \/ CallFails(j)
      BY <1>0, <3>2 DEF Work, WorkOK, Keeps, CallAnswered, CallFails
    <3>3. CASE ReadPool(j) \/ Report(j) \/ StartEval(j)
      <4>1. CASE ReadPool(j) \/ Report(j)
        BY <1>0, <4>1 DEF Work, WorkOK, ReadPool, Report
      <4>2. CASE SetStage(j, "success")
        BY <1>0, <4>2 DEF Work, WorkOK, Keeps, SetStage
      <4>3. ASSUME NEW S, NEW E,
                   work' = [work EXCEPT ![j].stage = "judging", ![j].left = S,
                                        ![j].held = Pool, ![j].earlier = E]
            PROVE  work'[j].held = Pool
        BY <1>0, <4>3 DEF Work, WorkOK
      <4> QED BY <3>3, <4>1, <4>2, <4>3 DEF StartEval
    <3> QED BY <1>3, <3>1, <3>2, <3>3
  <2> QED BY <2>1, <2>2, <2>3, QuietKeeps DEF Quiet, Pool
<1>4. ASSUME NEW j \in Spenders, NEW r \in EndedRuns, Judge(j, r) PROVE PoolInv'
  <2>1. UNCHANGED <<purse, owed, stale>> /\ Keeps(work[j])
    BY <1>4 DEF Judge, Keeps
  <2>2. \A i \in Spenders : work'[i].held = work[i].held
    BY <1>0, <1>4 DEF WorkOK, Work, Judge
  <2>3. \A i \in Spenders \ {j} : work'[i] = work[i]
    BY <1>0, <1>4 DEF WorkOK, Judge
  <2> QED BY <2>1, <2>2, <2>3, QuietKeeps DEF Quiet
<1>5. ASSUME NEW j \in Spenders, Commit(j) \/ EndEval(j) PROVE PoolInv'
  <2>1. /\ Keeps(work[j]) /\ Record(work[j])
        /\ \E s \in {"success", "failed"} : Closes(j, s)
    BY <1>0, <1>5 DEF Commit, EndEval, Keeps, Work
  <2>2. ~Keeps(work'[j]) /\ \A i \in Spenders \ {j} : work'[i] = work[i]
    BY <1>0, <2>1 DEF Closes, WorkOK, Work, Keeps
  <2> QED BY <2>1, <2>2, RecordKeeps
<1> QED BY <1>1, <1>2, <1>3, <1>4, <1>5 DEF SpendingNext, RemoveKey, spendVars

\* Whatever sessions keep an old row, the pool never pays more than was recorded
\* while the plan was free, and it pays exactly that until a pool is written from
\* a row that was out of date (billing_gate.py, decrement_free_credits).
THEOREM PoolPaysWhatIsDue == SpendingSpec => []PoolAgrees
<1>1. SpendingInit => SpendingTypeOK /\ PoolInv
  <2> SUFFICES ASSUME SpendingInit
               PROVE  PoolInv
    BY InitTyped
  <2>1. purse.credits = FreeCredits /\ Due = FreeCredits
    BY SpendingAssumption DEF SpendingInit, Due
  <2>2. \A j \in Spenders : ~Keeps(work[j])
    BY DEF SpendingInit, NewWork, Keeps
  <2> QED BY <2>1, <2>2, SpendingAssumption DEF PoolInv, PoolAgrees
<1>2. PoolInv => PoolAgrees
  BY DEF PoolInv
<1> QED BY <1>1, <1>2, TypeStep, PoolStep, PTL DEF SpendingSpec

-----------------------------------------------------------------------------
(* The books. *)

\* What each job and request has spent and not recorded, and all of it.
Opens == [j \in Spenders |-> Unrecorded(work[j])]

\* What all of them have spent and not recorded.
Unbooked == Total(Opens, Spenders)

\* The books balance, and who is not at work has nothing to record.
BooksInv ==
    /\ billed = ledger + lost + Unbooked
    /\ \A j \in Spenders : work[j].stage \notin AtWork => work[j].calls = 0

\* Who may spend is finitely many.
LEMMA SpendersFinite == IsFiniteSet(Spenders)
<1>1. IsFiniteSet(AgentJobs) /\ IsFiniteSet(PlanJobs) /\ IsFiniteSet(EvalJobs) /\ IsFiniteSet(Posts)
  BY SpendingAssumption
<1>2. IsFiniteSet(AgentJobs \cup PlanJobs)
  BY <1>1, FS_Union
<1>3. IsFiniteSet((AgentJobs \cup PlanJobs) \cup EvalJobs)
  BY <1>1, <1>2, FS_Union
<1>4. IsFiniteSet(((AgentJobs \cup PlanJobs) \cup EvalJobs) \cup Posts)
  BY <1>1, <1>3, FS_Union
<1> QED BY <1>4 DEF Spenders, GenJobs

\* What is not recorded is a number, and so is all of it.
LEMMA UnbookedIsNat ==
    ASSUME WorkOK
    PROVE  /\ \A j \in Spenders : Opens[j] = Unrecorded(work[j]) /\ Opens[j] \in Nat
           /\ Unbooked \in Nat
<1>1. ASSUME NEW j \in Spenders PROVE Opens[j] = Unrecorded(work[j]) /\ Opens[j] \in Nat
  <2>1. work[j].calls \in Nat
    BY DEF WorkOK, Work
  <2> QED BY <2>1 DEF Opens, Unrecorded
<1> QED BY <1>1, SpendersFinite, TotalIsNat DEF Unbooked

\* The same, to be had in the next state.
UnbookedOK ==
    /\ \A j \in Spenders : Opens[j] = Unrecorded(work[j]) /\ Opens[j] \in Nat
    /\ Unbooked \in Nat

\* The same.
LEMMA UnbookedTyped == WorkOK => UnbookedOK
BY UnbookedIsNat DEF UnbookedOK

\* One job or request changes: what it leaves open is paid, recorded or lost.
LEMMA OneBook ==
    ASSUME BooksInv, SpendingTypeOK, WorkOK', NEW j \in Spenders,
           \A k \in Spenders : k # j => work'[k] = work[k],
           work'[j].stage \notin AtWork => work'[j].calls = 0,
           NEW a \in Nat, NEW b \in Nat, NEW c \in Nat,
           billed' = billed + a, ledger' = ledger + b, lost' = lost + c,
           work'[j].calls + b + c = work[j].calls + a
    PROVE  BooksInv'
<1>0. /\ billed \in Nat /\ ledger \in Nat /\ lost \in Nat /\ WorkOK
      /\ work[j].calls \in Nat /\ work'[j].calls \in Nat
  BY DEF SpendingTypeOK, WorkOK, Work
<1>1. PICK v : v = Opens
  OBVIOUS
<1>2. PICK w : w = Opens'
  OBVIOUS
<1>3. \A k \in Spenders : v[k] = Unrecorded(work[k]) /\ v[k] \in Nat
  BY <1>0, <1>1, UnbookedIsNat
<1>a. WorkOK'
  OBVIOUS
<1>b. UnbookedOK'
  BY <1>a, UnbookedTyped, PTL
<1>4. \A k \in Spenders : w[k] = Unrecorded(work'[k]) /\ w[k] \in Nat
  BY <1>2, <1>b DEF UnbookedOK, Unrecorded
<1>5. \A k \in Spenders : k # j => w[k] = v[k]
  BY <1>3, <1>4
<1>6. v[j] = work[j].calls
  BY <1>3 DEF BooksInv, Unrecorded
<1>7. w[j] = work'[j].calls
  BY <1>4 DEF Unrecorded
<1>8. Total(w, Spenders) + v[j] = Total(v, Spenders) + w[j]
  <2>1. \A k \in Spenders : v[k] \in Nat /\ w[k] \in Nat
    BY <1>3, <1>4
  <2> QED BY <1>5, <2>1, SpendersFinite, TotalChanges
<1>9. Unbooked = Total(v, Spenders) /\ Unbooked' = Total(w, Spenders)
  BY <1>1, <1>2 DEF Unbooked
<1>10. Unbooked \in Nat /\ Unbooked' \in Nat
  BY <1>0, <1>b, UnbookedIsNat DEF UnbookedOK
<1>11. Unbooked' + work[j].calls = Unbooked + work'[j].calls
  BY <1>6, <1>7, <1>8, <1>9
<1>12. billed' = ledger' + lost' + Unbooked'
  <2>1. PICK m \in Nat : m = Unbooked
    BY <1>10
  <2>2. PICK n \in Nat : n = Unbooked'
    BY <1>10
  <2>3. PICK x \in Nat : x = work[j].calls
    BY <1>0
  <2>4. PICK y \in Nat : y = work'[j].calls
    BY <1>0
  <2>5. n + x = m + y /\ y + b + c = x + a /\ billed = ledger + lost + m
    BY <1>11, <2>1, <2>2, <2>3, <2>4 DEF BooksInv
  <2>6. billed + a = (ledger + b) + (lost + c) + n
    BY <1>0, <2>5
  <2> QED BY <2>2, <2>6
<1>13. \A k \in Spenders : work'[k].stage \notin AtWork => work'[k].calls = 0
  BY DEF BooksInv
<1> QED BY <1>12, <1>13 DEF BooksInv

\* Who leaves the books alone keeps them.
LEMMA BooksStay ==
    ASSUME BooksInv, UNCHANGED <<work, billed, ledger, lost>>
    PROVE  BooksInv'
<1>1. Unbooked' = Unbooked
  BY DEF Unbooked, Opens
<1> QED BY <1>1 DEF BooksInv

\* Every step keeps the books.
LEMMA BooksStep ==
    ASSUME BooksInv, SpendingTypeOK, [SpendingNext]_spendVars
    PROVE  BooksInv'
<1>0. SpendingTypeOK'
  BY TypeStep
<1>1. /\ WorkOK /\ WorkOK' /\ billed \in Nat /\ ledger \in Nat /\ lost \in Nat
      /\ \A j \in Spenders : work[j] \in Work /\ work[j].calls \in Nat
  BY <1>0 DEF SpendingTypeOK, WorkOK, Work
<1>2. CASE UNCHANGED <<work, billed, ledger, lost>>
  BY <1>2, BooksStay
<1>3. ASSUME NEW j \in Spenders,
             Ask(j) \/ Cron(j) \/ StartGeneration(j) \/ CallFails(j) \/ ReadPool(j) \/ StartEval(j)
      PROVE  BooksInv'
  <2>1. UNCHANGED <<billed, ledger, lost>>
    BY <1>3 DEF Ask, Cron, StartGeneration, CallFails, ReadPool, StartEval
  <2>2. /\ \A k \in Spenders : k # j => work'[k] = work[k]
        /\ work'[j].calls = work[j].calls
        /\ work'[j].stage \notin AtWork => work[j].calls = 0
    <3>1. ASSUME NEW stage, SetStage(j, stage), work[j].stage \notin AtWork
          PROVE  /\ \A k \in Spenders : k # j => work'[k] = work[k]
                 /\ work'[j].calls = work[j].calls
                 /\ work'[j].stage \notin AtWork => work[j].calls = 0
      BY <1>1, <3>1 DEF WorkOK, Work, SetStage, BooksInv
    <3>2. CASE Ask(j) \/ Cron(j) \/ StartGeneration(j)
      <4>1. work[j].stage \notin AtWork /\ \E stage : SetStage(j, stage)
        BY <3>2 DEF Ask, Cron, StartGeneration, AtWork
      <4> QED BY <3>1, <4>1
    <3>3. CASE CallFails(j)
      BY <1>1, <3>3 DEF WorkOK, Work, CallFails, AtWork
    <3>4. CASE ReadPool(j)
      BY <1>1, <3>4 DEF WorkOK, Work, ReadPool, AtWork
    <3>5. CASE StartEval(j)
      <4>1. work[j].stage \notin AtWork
        BY <3>5 DEF StartEval, AtWork
      <4>2. ASSUME NEW S, NEW E,
                   work' = [work EXCEPT ![j].stage = "judging", ![j].left = S,
                                        ![j].held = Pool, ![j].earlier = E]
            PROVE  /\ \A k \in Spenders : k # j => work'[k] = work[k]
                   /\ work'[j].calls = work[j].calls
                   /\ work'[j].stage \notin AtWork => work[j].calls = 0
        BY <1>1, <4>2 DEF WorkOK, Work, AtWork
      <4> QED BY <3>1, <3>5, <4>1, <4>2 DEF StartEval
    <3> QED BY <1>3, <3>2, <3>3, <3>4, <3>5
  <2>3. /\ billed' = billed + 0 /\ ledger' = ledger + 0 /\ lost' = lost + 0
        /\ work'[j].calls + 0 + 0 = work[j].calls + 0
    BY <1>1, <2>1, <2>2
  <2> QED BY <1>1, <2>2, <2>3, OneBook
<1>4. ASSUME NEW j \in Spenders, CallAnswered(j) PROVE BooksInv'
  <2>1. /\ \A k \in Spenders : k # j => work'[k] = work[k]
        /\ work'[j].calls = work[j].calls + 1 /\ work'[j].stage \in AtWork
        /\ billed' = billed + 1 /\ UNCHANGED <<ledger, lost>>
    BY <1>1, <1>4 DEF WorkOK, Work, CallAnswered, AtWork
  <2>2. /\ ledger' = ledger + 0 /\ lost' = lost + 0
        /\ work'[j].calls + 0 + 0 = work[j].calls + 1
    BY <1>1, <2>1
  <2> QED BY <1>1, <2>1, <2>2, OneBook
<1>5. ASSUME NEW j \in Spenders, Report(j) PROVE BooksInv'
  <2>1. /\ \A k \in Spenders : k # j => work'[k] = work[k]
        /\ work'[j].calls = 1 /\ work[j].calls = 0 /\ work'[j].stage \in AtWork
        /\ billed' = billed + 1 /\ UNCHANGED <<ledger, lost>>
    BY <1>1, <1>5 DEF WorkOK, Work, Report, AtWork, BooksInv
  <2>2. /\ ledger' = ledger + 0 /\ lost' = lost + 0
        /\ work'[j].calls + 0 + 0 = work[j].calls + 1
    BY <1>1, <2>1
  <2> QED BY <1>1, <2>1, <2>2, OneBook
<1>6. ASSUME NEW j \in Spenders, Commit(j) \/ EndEval(j) PROVE BooksInv'
  <2>1. /\ \A k \in Spenders : k # j => work'[k] = work[k]
        /\ work'[j].calls = 0
        /\ ledger' = ledger + work[j].calls /\ UNCHANGED <<billed, lost>>
    BY <1>1, <1>6 DEF WorkOK, Work, Commit, EndEval, Closes, Record
  <2>2. /\ billed' = billed + 0 /\ lost' = lost + 0
        /\ work'[j].calls + work[j].calls + 0 = work[j].calls + 0
    BY <1>1, <2>1
  <2> QED BY <1>1, <2>1, <2>2, OneBook
<1>7. ASSUME NEW j \in Spenders, EvalRefused(j) \/ Die(j) PROVE BooksInv'
  <2>1. /\ \A k \in Spenders : k # j => work'[k] = work[k]
        /\ work'[j].calls = 0
        /\ lost' = lost + work[j].calls /\ UNCHANGED <<billed, ledger>>
    BY <1>1, <1>7 DEF WorkOK, Work, EvalRefused, Die, Closes
  <2>2. /\ billed' = billed + 0 /\ ledger' = ledger + 0
        /\ work'[j].calls + 0 + work[j].calls = work[j].calls + 0
    BY <1>1, <2>1
  <2> QED BY <1>1, <2>1, <2>2, OneBook
<1>8. ASSUME NEW j \in Spenders, NEW r \in EndedRuns, Judge(j, r) PROVE BooksInv'
  <2>1. /\ \A k \in Spenders : k # j => work'[k] = work[k]
        /\ work'[j].stage = "judging" /\ ledger' = ledger
        /\ \/ work'[j].calls = work[j].calls /\ billed' = billed /\ lost' = lost
           \/ work'[j].calls = work[j].calls /\ billed' = billed + 1 /\ lost' = lost + 1
           \/ work'[j].calls = work[j].calls + 1 /\ billed' = billed + 1 /\ lost' = lost
    BY <1>1, <1>8 DEF WorkOK, Work, Judge
  <2>2. PICK a \in {0, 1}, c \in {0, 1} :
           /\ billed' = billed + a /\ lost' = lost + c
           /\ work'[j].calls + 0 + c = work[j].calls + a
    BY <1>1, <2>1
  <2>3. ledger' = ledger + 0 /\ work'[j].stage \in AtWork /\ a \in Nat /\ c \in Nat
    BY <1>1, <2>1 DEF AtWork
  <2> QED BY <1>1, <2>1, <2>2, <2>3, OneBook
<1> QED BY <1>2, <1>3, <1>4, <1>5, <1>6, <1>7, <1>8
       DEF SpendingNext, SetBudget, ChangePlan, RemoveKey, spendVars

\* They are empty at first.
LEMMA BooksStart == SpendingInit => BooksInv
<1> SUFFICES ASSUME SpendingInit PROVE BooksInv
  OBVIOUS
<1>1. \A j \in Spenders : work[j] = NewWork
  BY DEF SpendingInit
<1>2. \A j \in Spenders : work[j].calls = 0 /\ Opens[j] = 0
  BY <1>1 DEF NewWork, Opens, Unrecorded
<1>3. Unbooked = 0
  BY <1>2, SpendersFinite, TotalOfZeros DEF Unbooked
<1> QED BY <1>2, <1>3 DEF BooksInv, SpendingInit

\* The sum of the property is the sum of the invariant.
LEMMA UnbookedIs == MapThenSumSet(LAMBDA j : Unrecorded(work[j]), Spenders) = Unbooked
<1> DEFINE Sums(h) == h = [s \in SUBSET Spenders |->
             IF s = {} THEN 0
             ELSE Unrecorded(work[CHOOSE x \in s : TRUE]) + h[s \ {CHOOSE x \in s : TRUE}]]
<1>1. \A s \in SUBSET Spenders : s # {} =>
        Opens[CHOOSE x \in s : TRUE] = Unrecorded(work[CHOOSE x \in s : TRUE])
  BY DEF Opens
<1>2. \A h : Sums(h) <=> SumsOf(h, Opens, Spenders)
  BY <1>1 DEF SumsOf
<1>3. PICK g : SumsOf(g, Opens, Spenders)
  BY SumsExist, SpendersFinite
<1>4. \A h : Sums(h) => h = g
  BY <1>2, <1>3, SumsAreUnique, SpendersFinite
<1>5. Sums(g)
  BY <1>2, <1>3
<1>6. MapThenSumSet(LAMBDA j : Unrecorded(work[j]), Spenders) = g[Spenders]
  BY <1>4, <1>5, Zenon DEF MapThenSumSet, MapThenFoldSet
<1>7. Unbooked = g[Spenders]
  BY <1>3, TotalIs, SpendersFinite DEF Unbooked
<1> QED BY <1>6, <1>7, Zenon

\* Books that are kept balance.
LEMMA BalanceSo == BooksInv /\ PoolAgrees => BooksBalance
<1> SUFFICES ASSUME BooksInv, PoolAgrees PROVE BooksBalance
  OBVIOUS
<1>1. billed = ledger + lost + Unbooked
  BY DEF BooksInv
<1>2. billed = ledger + lost + MapThenSumSet(LAMBDA j : Unrecorded(work[j]), Spenders)
  BY <1>1, UnbookedIs, Zenon
<1> QED BY <1>2, Zenon DEF BooksBalance

\* What the model's vendor bills is in the ledger, lost, or about to be
\* recorded, and the pool of free credits agrees with the ledger (main.py,
\* agent_generator.py, the evaluations' runner).
THEOREM BooksDoBalance == SpendingSpec => []BooksBalance
<1>1. SpendingInit => SpendingTypeOK
  BY InitTyped
<1> QED BY <1>1, BooksStart, BooksStep, TypeStep, BalanceSo, PoolPaysWhatIsDue, PTL DEF SpendingSpec

-----------------------------------------------------------------------------
(* Connectors. *)

\* Before it reads the active row, and between that and its answer.
Before == {"new", "arrived", "deleting", "trading"}

\* Stages of a request that has read the active row.
Between == {"reading", "calling", "holding"}
Concluded == {"over", "failed"}

\* Installations keep their types.
InstallOK == IsTable(install, Ids, Install)

\* Requests keep theirs.
FlowsOK == flow \in [Flows -> Flow]

\* So do the consents and their codes.
StartOK == start \in [Consents -> StartStates] /\ codes \subseteq Consents

\* Rows are numbered in the order of insertion, by callbacks that were answered.
RowsNumbered ==
    /\ DOMAIN install = 1 .. Cardinality(DOMAIN install)
    /\ Cardinality(DOMAIN install) <= Cardinality({c \in Callbacks : flow[c].stage = "over"})

\* One row at most is active.
OneActive == \A j, k \in ActiveRows : j = k

\* An installation and another request that had the row at once.
Crossed(r, k) == \E x \in Callbacks : AtOnce(x, r) /\ k \in flow[x].row

\* A callback or a call has crossed another over this row, and says so.
Excused(k) == \E y \in Callbacks \cup Calls : k \in flow[y].row /\ Crossed(y, k)

\* The stages of each endpoint.
StagesOK(r) ==
    /\ r \in Callbacks => flow[r].stage \notin {"calling", "holding"}
    /\ r \in Revokes => flow[r].stage \in {"new", "reading", "holding", "over"}
    /\ r \in Calls => flow[r].stage \in {"new", "calling", "holding", "over", "failed"}

\* What a request read: nothing, or one row, that may have been renamed since.
ReadOK(r) ==
    /\ flow[r].stage \in Before =>
          flow[r].row = {} /\ flow[r].after = {}
    /\ flow[r].row \subseteq DOMAIN install
    /\ flow[r].stage \in Between =>
          \/ flow[r].row = {} /\ flow[r].seen = {}
          \/ \E k \in Ids, s \in Install : flow[r].row = {k} /\ flow[r].seen = {s}
    /\ \A v \in flow[r].after : flow[v].stage \in Concluded

\* What it read holds of the row, or who changed it shows.
SeenOK(r) ==
    flow[r].stage \in Between =>
        \A k \in flow[r].row, s \in flow[r].seen :
            /\ s.account # install[k].account => Crossed(r, k)
            /\ s.tokens # s.account => Excused(k)

\* A revoked row stays so.
RevokedOK(r) ==
    /\ r \in Revokes /\ flow[r].stage = "over" => \A k \in flow[r].row : ~install[k].active
    /\ \A v \in flow[r].after \cap Revokes : flow[v].row \cap flow[r].row = {}

\* What a request has read is what the rows bear out.
FlowOK(r) == StagesOK(r) /\ ReadOK(r) /\ SeenOK(r) /\ RevokedOK(r)

\* A row names the account whose tokens it has, or is excused.
NamesOK == \A k \in DOMAIN install : install[k].tokens # install[k].account => Excused(k)

\* What every step of the connectors keeps.
ConnInv ==
    /\ InstallOK /\ FlowsOK /\ StartOK /\ RowsNumbered /\ OneActive /\ NamesOK
    /\ \A r \in Flows : FlowOK(r)

-----------------------------------------------------------------------------
(* Steps of one request.                                                   *)

\* Request r, not answered, moves; only a callback changes an account, of the row
\* it has, and no row becomes active.
StepOf(r) ==
    /\ r \in Flows /\ flow[r].stage \notin Concluded
    /\ \A q \in Flows : q # r => flow'[q] = flow[q]
    /\ flow[r].row # {} => flow'[r].row = flow[r].row /\ flow'[r].after = flow[r].after
    /\ DOMAIN install \subseteq DOMAIN install'
    /\ \A k \in DOMAIN install :
          /\ install'[k].active => install[k].active
          /\ install'[k].account # install[k].account => r \in Callbacks /\ k \in flow[r].row

\* What a request has crossed it has crossed.
LEMMA MarksStay ==
    ASSUME NEW r, StepOf(r), NEW q \in Flows, NEW k, Crossed(q, k), k \in flow[q].row
    PROVE  Crossed(q, k)' /\ k \in flow'[q].row
<1>1. PICK x \in Callbacks : AtOnce(x, q) /\ k \in flow[x].row
  BY DEF Crossed
<1>2. x \in Flows
  BY DEF Flows
<1>3. flow'[x].row = flow[x].row /\ flow'[x].after = flow[x].after
  BY <1>1, <1>2 DEF StepOf
<1>4. flow'[q].row = flow[q].row /\ flow'[q].after = flow[q].after
  BY DEF StepOf
<1> QED BY <1>1, <1>3, <1>4 DEF Crossed, AtOnce

\* So an excuse stays one.
LEMMA ExcusesStay ==
    ASSUME NEW r, StepOf(r), NEW k, Excused(k)
    PROVE  Excused(k)'
<1>1. PICK y \in Callbacks \cup Calls : k \in flow[y].row /\ Crossed(y, k)
  BY DEF Excused
<1>2. y \in Flows
  BY DEF Flows
<1>3. Crossed(y, k)' /\ k \in flow'[y].row
  BY <1>1, <1>2, MarksStay
<1> QED BY <1>1, <1>3 DEF Excused

\* What the invariant says of the others.
LEMMA OthersStay ==
    ASSUME ConnInv, NEW r, StepOf(r), NEW q \in Flows, q # r,
           flow'[r].stage \in Concluded \/ flow[r].stage \notin Concluded
    PROVE  FlowOK(q)'
<1>0. FlowOK(q) /\ FlowOK(r) /\ r \in Flows
  BY DEF ConnInv, StepOf
<1>1. flow'[q] = flow[q]
  BY DEF StepOf
<1>2. StagesOK(q)'
  BY <1>0, <1>1 DEF FlowOK, StagesOK
<1>3. \A v \in flow[q].after : v # r /\ v \in Flows /\ flow'[v] = flow[v]
  <2>1. flow[q] \in Flow
    BY DEF ConnInv, FlowsOK
  <2>2. flow[q].after \subseteq Flows
    BY <2>1 DEF Flow
  <2> QED BY <1>0, <2>2 DEF FlowOK, ReadOK, StepOf
<1>4. ReadOK(q)'
  <2>1. ReadOK(q)
    BY <1>0 DEF FlowOK
  <2>2. (flow[q].row \subseteq DOMAIN install)'
    BY <2>1, <1>1 DEF ReadOK, StepOf
  <2> QED BY <2>1, <2>2, <1>1, <1>3 DEF ReadOK
<1>5. SeenOK(q)'
  <2>1. SUFFICES ASSUME flow[q].stage \in Between, NEW k \in flow[q].row, NEW s \in flow[q].seen
                 PROVE  /\ s.account # install'[k].account => Crossed(q, k)'
                        /\ s.tokens # s.account => Excused(k)'
    BY <1>1 DEF SeenOK
  <2>2. /\ s.account # install[k].account => Crossed(q, k)
        /\ s.tokens # s.account => Excused(k)
    BY <2>1, <1>0 DEF FlowOK, SeenOK
  <2>3. Excused(k) => Excused(k)'
    BY ExcusesStay
  <2>4. k \in DOMAIN install
    BY <1>0 DEF FlowOK, ReadOK
  <2>5. CASE install'[k].account = install[k].account
    BY <2>2, <2>3, <2>5, MarksStay
  <2>6. CASE install'[k].account # install[k].account
    <3>1. r \in Callbacks /\ k \in flow[r].row
      BY <2>4, <2>6 DEF StepOf
    <3>2. k \in flow'[r].row /\ flow'[r].after = flow[r].after
      BY <3>1 DEF StepOf
    <3>3. r \notin flow[q].after
      BY <1>3
    <3>4. q \notin flow[r].after
      BY <1>0, <2>1 DEF FlowOK, ReadOK, Between, Concluded
    <3>5. Crossed(q, k)'
      BY <3>1, <3>2, <3>3, <3>4, <1>1 DEF Crossed, AtOnce
    <3> QED BY <3>5, <2>2, <2>3
  <2> QED BY <2>5, <2>6
<1>6. RevokedOK(q)'
  <2>1. RevokedOK(q)
    BY <1>0 DEF FlowOK
  <2>2. \A k \in flow[q].row : k \in DOMAIN install /\ (install'[k].active => install[k].active)
    BY <1>0 DEF FlowOK, ReadOK, StepOf
  <2> QED BY <2>1, <2>2, <1>1, <1>3 DEF RevokedOK
<1> QED BY <1>2, <1>4, <1>5, <1>6 DEF FlowOK

\* A callback that was answered with success stays so.
LEMMA NumberedStays ==
    ASSUME ConnInv, NEW r, StepOf(r), DOMAIN install' = DOMAIN install
    PROVE  RowsNumbered'
<1> DEFINE Over == {c \in Callbacks : flow[c].stage = "over"}
           OverNext == {c \in Callbacks : flow'[c].stage = "over"}
<1>1. Over \subseteq OverNext /\ OverNext \subseteq Callbacks
  BY DEF StepOf, Flows, Concluded
<1>2. IsFiniteSet(OverNext) /\ IsFiniteSet(Over)
  BY <1>1, ConnectorsAssumption, FS_Subset
<1>3. Cardinality(Over) <= Cardinality(OverNext)
  BY <1>1, <1>2, FS_Subset
<1>4. Cardinality(Over) \in Nat /\ Cardinality(OverNext) \in Nat
  BY <1>2, FS_CardinalityType
<1>5. IsFiniteSet(DOMAIN install)
  <2>1. Cardinality(Callbacks) \in Nat
    BY ConnectorsAssumption, FS_CardinalityType
  <2>2. IsFiniteSet(Ids)
    BY <2>1, FS_Interval DEF Ids
  <2> QED BY <2>2, FS_Subset DEF ConnInv, InstallOK, IsTable
<1>6. Cardinality(DOMAIN install) \in Nat
  BY <1>5, FS_CardinalityType
<1>7. RowsNumbered
  BY DEF ConnInv
<1> QED BY <1>3, <1>4, <1>6, <1>7 DEF RowsNumbered

-----------------------------------------------------------------------------
(* The steps.                                                              *)

\* A request moves on and writes nothing.
LEMMA QuietStep ==
    ASSUME ConnInv, NEW r \in Flows, flow[r].stage \notin Concluded,
           \A q \in Flows : q # r => flow'[q] = flow[q],
           flow' \in [Flows -> Flow], install' = install, StartOK',
           flow'[r].row = flow[r].row, flow'[r].after = flow[r].after,
           flow'[r].seen = flow[r].seen,
           flow'[r].stage \in Before => flow[r].stage \in Before,
           flow'[r].stage \in Between => flow[r].stage \in Between,
           r \in Revokes => flow'[r].stage # "over",
           StagesOK(r)'
    PROVE  ConnInv'
<1>1. StepOf(r)
  BY DEF StepOf
<1>2. FlowOK(r)
  BY DEF ConnInv
<1>3. \A v \in flow[r].after : v # r /\ v \in Flows /\ flow'[v] = flow[v]
  <2>1. flow[r] \in Flow
    BY DEF ConnInv, FlowsOK
  <2>2. flow[r].after \subseteq Flows
    BY <2>1 DEF Flow
  <2> QED BY <1>2, <2>2 DEF FlowOK, ReadOK
<1>4. ReadOK(r)'
  BY <1>2, <1>3 DEF FlowOK, ReadOK
<1>5. SeenOK(r)'
  <2>1. SUFFICES ASSUME flow[r].stage \in Between, NEW k \in flow[r].row, NEW s \in flow[r].seen
                 PROVE  /\ s.account # install[k].account => Crossed(r, k)'
                        /\ s.tokens # s.account => Excused(k)'
    BY DEF SeenOK
  <2>2. /\ s.account # install[k].account => Crossed(r, k)
        /\ s.tokens # s.account => Excused(k)
    BY <2>1, <1>2 DEF FlowOK, SeenOK
  <2> QED BY <2>2, <1>1, MarksStay, ExcusesStay
<1>6. RevokedOK(r)'
  BY <1>2, <1>3 DEF FlowOK, RevokedOK
<1>7. FlowOK(r)'
  BY <1>4, <1>5, <1>6 DEF FlowOK
<1>8. ASSUME NEW q \in Flows PROVE FlowOK(q)'
  BY <1>1, <1>7, OthersStay
<1>9. NamesOK'
  <2>1. \A k \in DOMAIN install : Excused(k) => Excused(k)'
    BY <1>1, ExcusesStay
  <2> QED BY <2>1 DEF ConnInv, NamesOK
<1>10. RowsNumbered'
  BY <1>1, NumberedStays
<1>11. InstallOK' /\ OneActive' /\ FlowsOK'
  BY DEF ConnInv, InstallOK, OneActive, ActiveRows, FlowsOK
<1> QED BY <1>8, <1>9, <1>10, <1>11 DEF ConnInv

\* Nothing happens to requests and rows.
LEMMA NothingMoves ==
    ASSUME ConnInv, install' = install, flow' = flow, StartOK'
    PROVE  ConnInv'
BY DEF ConnInv, InstallOK, FlowsOK, RowsNumbered, OneActive, ActiveRows, NamesOK, Excused, Crossed,
       AtOnce, FlowOK, StagesOK, ReadOK, SeenOK, RevokedOK

\* A request reads the active row.
LEMMA InstallReadStep ==
    ASSUME ConnInv, NEW r \in Flows, flow[r].stage \in Before, NEW s \in Between,
           ReadsInstall(r, s), install' = install, StartOK', StagesOK(r)'
    PROVE  ConnInv'
<1> DEFINE R == [stage |-> s, state |-> flow[r].state, account |-> flow[r].account,
                 row |-> ActiveRows, seen |-> {install[k] : k \in ActiveRows},
                 after |-> {q \in Flows : flow[q].stage \in {"over", "failed"}}]
<1>0. FlowsOK /\ flow[r] \in Flow /\ FlowOK(r) /\ InstallOK /\ OneActive
  BY DEF ConnInv, FlowsOK
<1>1. /\ \A q \in Flows : q # r => flow'[q] = flow[q]
      /\ flow'[r].stage = s /\ flow'[r].row = ActiveRows
      /\ flow'[r].seen = {install[k] : k \in ActiveRows}
      /\ flow'[r].after = {q \in Flows : flow[q].stage \in Concluded}
  BY <1>0 DEF ReadsInstall, Concluded, FlowsOK, Flow
<1>2. ActiveRows \subseteq Ids /\ ActiveRows \subseteq DOMAIN install
  BY <1>0 DEF ActiveRows, InstallOK, IsTable
<1>3. {install[k] : k \in ActiveRows} \subseteq Install
  BY <1>0, <1>2 DEF InstallOK, IsTable
<1>4. flow' \in [Flows -> Flow]
  <2>1. s \in {"new", "arrived", "deleting", "trading", "reading", "calling", "holding",
                  "over", "failed"}
    BY DEF Between
  <2>2. [flow[r] EXCEPT !.stage = s, !.row = ActiveRows, !.seen = {install[k] : k \in ActiveRows},
              !.after = {q \in Flows : flow[q].stage \in {"over", "failed"}}] \in Flow
    BY <1>0, <1>2, <1>3, <2>1 DEF Flow
  <2> QED BY <1>0, <2>2 DEF ReadsInstall, FlowsOK
<1>5. flow[r].row = {} /\ flow[r].after = {} /\ flow[r].stage \notin Concluded
  BY <1>0 DEF FlowOK, ReadOK, Before, Concluded
<1>6. StepOf(r)
  BY <1>1, <1>5 DEF StepOf
<1>7. \A v \in flow'[r].after : v # r /\ v \in Flows /\ flow'[v] = flow[v]
  BY <1>1, <1>5
<1>8. ReadOK(r)'
  <2>1. \/ ActiveRows = {} /\ {install[k] : k \in ActiveRows} = {}
        \/ \E k \in Ids, x \in Install : ActiveRows = {k} /\ {install[j] : j \in ActiveRows} = {x}
    <3>1. CASE ActiveRows # {}
      <4>1. PICK k \in ActiveRows : TRUE
        BY <3>1
      <4>2. ActiveRows = {k}
        BY <4>1, <1>0 DEF OneActive
      <4>3. install[k] \in Install /\ k \in Ids
        BY <1>2, <1>3
      <4>4. {install[j] : j \in ActiveRows} = {install[k]}
        BY <4>2
      <4> QED BY <4>2, <4>3, <4>4
    <3> QED BY <3>1
  <2>2. s \notin Before
    BY DEF Before, Between
  <2>3. \A v \in flow'[r].after : flow'[v].stage \in Concluded
    BY <1>1, <1>7
  <2> QED BY <2>1, <2>2, <2>3, <1>1, <1>2 DEF ReadOK
<1>9. SeenOK(r)'
  <2>1. SUFFICES ASSUME NEW k \in ActiveRows, NEW x \in {install[j] : j \in ActiveRows}
                 PROVE  /\ x.account # install[k].account => Crossed(r, k)'
                        /\ x.tokens # x.account => Excused(k)'
    BY <1>1 DEF SeenOK
  <2>2. x = install[k]
    BY <1>0 DEF OneActive
  <2>3. x.tokens # x.account => Excused(k)
    BY <2>2, <1>2 DEF ConnInv, NamesOK
  <2> QED BY <2>2, <2>3, <1>6, ExcusesStay
<1>10. RevokedOK(r)'
  <2>1. s # "over"
    BY DEF Between
  <2>2. ASSUME NEW v \in flow'[r].after \cap Revokes
        PROVE  flow[v].row \cap ActiveRows = {}
    <3>1. v \in Flows /\ v \in Revokes /\ flow[v].stage \in Concluded
      BY <1>1
    <3>2. FlowOK(v)
      BY <3>1 DEF ConnInv
    <3>3. flow[v].stage = "over"
      BY <3>1, <3>2 DEF FlowOK, StagesOK, Concluded
    <3> QED BY <3>1, <3>2, <3>3 DEF FlowOK, RevokedOK, ActiveRows
  <2> QED BY <2>1, <2>2, <1>1, <1>7 DEF RevokedOK
<1>11. FlowOK(r)'
  BY <1>8, <1>9, <1>10 DEF FlowOK
<1>12. ASSUME NEW q \in Flows PROVE FlowOK(q)'
  BY <1>5, <1>6, <1>11, OthersStay
<1>13. NamesOK'
  <2>1. \A k \in DOMAIN install : Excused(k) => Excused(k)'
    BY <1>6, ExcusesStay
  <2> QED BY <2>1 DEF ConnInv, NamesOK
<1>14. RowsNumbered'
  BY <1>6, NumberedStays
<1>15. InstallOK' /\ OneActive' /\ FlowsOK'
  BY <1>4 DEF ConnInv, InstallOK, OneActive, ActiveRows, FlowsOK
<1> QED BY <1>12, <1>13, <1>14, <1>15 DEF ConnInv

\* A request writes the row that it read, and is answered.
LEMMA WriteStep ==
    ASSUME ConnInv, NEW r \in Flows, flow[r].stage \in Between,
           \A q \in Flows : q # r => flow'[q] = flow[q],
           FlowsOK', InstallOK', StartOK', DOMAIN install' = DOMAIN install,
           flow'[r].row = flow[r].row, flow'[r].after = flow[r].after,
           flow'[r].stage \in Concluded, StagesOK(r)',
           \A k \in DOMAIN install : install'[k].active => install[k].active,
           \A k \in DOMAIN install : install'[k].account # install[k].account =>
                                        r \in Callbacks /\ k \in flow[r].row,
           \A k \in DOMAIN install : install'[k].tokens # install'[k].account => Excused(k),
           r \in Revokes => \A k \in flow[r].row : ~install'[k].active
    PROVE  ConnInv'
<1>1. StepOf(r)
  BY DEF StepOf, Between, Concluded
<1>2. FlowOK(r)
  BY DEF ConnInv
<1>3. \A v \in flow[r].after : v # r /\ v \in Flows /\ flow'[v] = flow[v]
  <2>1. flow[r] \in Flow
    BY DEF ConnInv, FlowsOK
  <2>2. flow[r].after \subseteq Flows
    BY <2>1 DEF Flow
  <2> QED BY <1>2, <2>2 DEF FlowOK, ReadOK, Between, Concluded
<1>4. ReadOK(r)'
  BY <1>2, <1>3 DEF FlowOK, ReadOK, Between, Concluded, Before
<1>5. SeenOK(r)'
  BY DEF SeenOK, Between, Concluded
<1>6. RevokedOK(r)'
  BY <1>2, <1>3 DEF FlowOK, RevokedOK
<1>7. FlowOK(r)'
  BY <1>4, <1>5, <1>6 DEF FlowOK
<1>8. ASSUME NEW q \in Flows PROVE FlowOK(q)'
  BY <1>1, <1>7, OthersStay
<1>9. NamesOK'
  <2>1. \A k \in DOMAIN install : Excused(k) => Excused(k)'
    BY <1>1, ExcusesStay
  <2> QED BY <2>1 DEF NamesOK
<1>10. RowsNumbered'
  BY <1>1, NumberedStays
<1>11. OneActive'
  BY DEF ConnInv, OneActive, ActiveRows
<1> QED BY <1>8, <1>9, <1>10, <1>11 DEF ConnInv

\* A callback finds no active row, at both times, and inserts one.
LEMMA InsertStep ==
    ASSUME ConnInv, NEW r \in Callbacks, flow[r].stage = "reading", flow[r].row = {},
           ActiveRows = {}, NEW a \in GoogleAccounts, NEW new, new = Cardinality(DOMAIN install) + 1,
           install' = Inserted(install, new, [account |-> a, tokens |-> a, active |-> TRUE]),
           \A q \in Flows : q # r => flow'[q] = flow[q], flow' \in [Flows -> Flow] \/ new \notin Ids,
           flow'[r].stage = "over", flow'[r].row = {new}, flow'[r].after = flow[r].after, StartOK'
    PROVE  ConnInv' /\ new \in Ids
<1> DEFINE Over == {c \in Callbacks : flow[c].stage = "over"}
           OverNext == {c \in Callbacks : flow'[c].stage = "over"}
           n == Cardinality(DOMAIN install)
<1>0. r \in Flows /\ FlowOK(r) /\ RowsNumbered /\ InstallOK
  BY DEF ConnInv, Flows
<1>1. IsFiniteSet(Over) /\ Cardinality(Over) \in Nat
  BY ConnectorsAssumption, FS_Subset, FS_CardinalityType
<1>2. n \in Nat /\ n <= Cardinality(Over) /\ IsFiniteSet(DOMAIN install)
  <2>1. Cardinality(Callbacks) \in Nat
    BY ConnectorsAssumption, FS_CardinalityType
  <2>2. IsFiniteSet(Ids)
    BY <2>1, FS_Interval DEF Ids
  <2>3. IsFiniteSet(DOMAIN install)
    BY <1>0, <2>2, FS_Subset DEF InstallOK, IsTable
  <2> QED BY <1>0, <2>3, FS_CardinalityType DEF RowsNumbered
<1>3. OverNext = Over \cup {r} /\ r \notin Over
  BY <1>0 DEF Flows
<1>4. IsFiniteSet(OverNext) /\ Cardinality(OverNext) = Cardinality(Over) + 1
  <2>1. IsFiniteSet(Over \cup {r}) /\ Cardinality(Over \cup {r}) = Cardinality(Over) + 1
    <3> HIDE DEF Over, OverNext
    <3> QED BY <1>1, <1>3, FS_AddElement
  <2> QED BY <2>1, <1>3
<1>5. Cardinality(OverNext) <= Cardinality(Callbacks) /\ Cardinality(Callbacks) \in Nat
  BY ConnectorsAssumption, FS_Subset, FS_CardinalityType
<1>6. new \in Ids /\ new \notin DOMAIN install
  <2>1. new \in Nat /\ new >= 1 /\ new <= Cardinality(Callbacks)
    BY <1>1, <1>2, <1>4, <1>5
  <2>2. DOMAIN install = 1 .. n
    BY <1>0 DEF RowsNumbered
  <2> HIDE DEF n
  <2>3. new = n + 1
    BY DEF n
  <2> QED BY <2>1, <2>2, <2>3, <1>2, <1>5 DEF Ids
<1>7. /\ DOMAIN install' = DOMAIN install \cup {new}
      /\ install'[new] = [account |-> a, tokens |-> a, active |-> TRUE]
      /\ \A k \in DOMAIN install : install'[k] = install[k]
  BY <1>6 DEF Inserted
<1>8. InstallOK'
  <2>1. [account |-> a, tokens |-> a, active |-> TRUE] \in Install
    BY DEF Install
  <2>2. \A k \in DOMAIN install' : install'[k] \in Install
    BY <1>0, <1>7, <2>1 DEF InstallOK, IsTable
  <2>3. install' \in [DOMAIN install' -> Install]
    BY <2>2 DEF Inserted
  <2> QED BY <1>0, <1>6, <1>7, <2>3 DEF InstallOK, IsTable
<1>9. RowsNumbered'
  <2>1. Cardinality(DOMAIN install \cup {new}) = n + 1
    BY <1>2, <1>6, FS_AddElement
  <2>2. 1 .. (n + 1) = (1 .. n) \cup {n + 1}
    <3> HIDE DEF n
    <3> QED BY <1>2
  <2>3. DOMAIN install = 1 .. n
    BY <1>0 DEF RowsNumbered
  <2>4. DOMAIN install' = 1 .. Cardinality(DOMAIN install')
    BY <1>7, <2>1, <2>2, <2>3
  <2>5. Cardinality(DOMAIN install') <= Cardinality(OverNext)
    BY <1>1, <1>2, <1>4, <1>7, <2>1
  <2> QED BY <2>4, <2>5 DEF RowsNumbered
<1>10. StepOf(r)
  BY <1>0, <1>7 DEF StepOf, Concluded
<1>11. \A q \in Flows : new \notin flow[q].row
  BY <1>6 DEF ConnInv, FlowOK, ReadOK
<1>12. \A v \in flow[r].after : v # r /\ v \in Flows /\ flow'[v] = flow[v] /\ flow[v].stage \in Concluded
  <2>1. flow[r] \in Flow
    BY <1>0 DEF ConnInv, FlowsOK
  <2>2. flow[r].after \subseteq Flows
    BY <2>1 DEF Flow
  <2> QED BY <1>0, <2>2 DEF FlowOK, ReadOK, Concluded
<1>13. FlowOK(r)'
  <2>1. StagesOK(r)'
    BY ConnectorsAssumption DEF StagesOK
  <2>2. ReadOK(r)'
    BY <1>7, <1>12 DEF ReadOK, Before, Between
  <2>3. SeenOK(r)'
    BY DEF SeenOK, Between
  <2>4. RevokedOK(r)'
    BY <1>11, <1>12, ConnectorsAssumption DEF RevokedOK
  <2> QED BY <2>1, <2>2, <2>3, <2>4 DEF FlowOK
<1>14. ASSUME NEW q \in Flows PROVE FlowOK(q)'
  BY <1>10, <1>13, OthersStay DEF Concluded
<1>15. NamesOK'
  <2>1. \A k \in DOMAIN install : Excused(k) => Excused(k)'
    BY <1>10, ExcusesStay
  <2>2. ASSUME NEW k \in DOMAIN install PROVE (install[k].tokens # install[k].account => Excused(k))'
    BY <2>1, <1>7 DEF ConnInv, NamesOK
  <2>3. install'[new].tokens = install'[new].account
    BY <1>7
  <2> QED BY <2>2, <2>3, <1>7 DEF NamesOK
<1>16. OneActive'
  BY <1>7 DEF OneActive, ActiveRows
<1>17. FlowsOK'
  BY <1>6 DEF FlowsOK
<1> QED BY <1>6, <1>8, <1>9, <1>14, <1>15, <1>16, <1>17 DEF ConnInv

\* A request moves on: its row has another stage.
LEMMA StepsOn ==
    ASSUME FlowsOK, NEW r \in Flows, NEW s, Steps(r, s)
    PROVE  /\ \A q \in Flows : q # r => flow'[q] = flow[q]
           /\ flow'[r].stage = s /\ flow'[r].row = flow[r].row
           /\ flow'[r].after = flow[r].after /\ flow'[r].seen = flow[r].seen
           /\ s \in {"new", "arrived", "deleting", "trading", "reading", "calling", "holding",
                     "over", "failed"} => flow' \in [Flows -> Flow]
<1>1. flow[r] \in Flow
  BY DEF FlowsOK
<1>2. ASSUME s \in {"new", "arrived", "deleting", "trading", "reading", "calling", "holding",
                     "over", "failed"}
      PROVE  [flow[r] EXCEPT !.stage = s] \in Flow
  BY <1>1, <1>2 DEF Flow
<1> QED BY <1>1, <1>2 DEF Steps, FlowsOK, Flow

\* There is a number for one more row.
LEMMA RoomLeft ==
    ASSUME ConnInv, NEW r \in Callbacks, flow[r].stage # "over"
    PROVE  /\ Cardinality(DOMAIN install) + 1 \in Ids
           /\ (CHOOSE k \in Ids : k = Cardinality(DOMAIN install) + 1)
                 = Cardinality(DOMAIN install) + 1
<1> DEFINE Over == {c \in Callbacks : flow[c].stage = "over"}
<1>1. IsFiniteSet(Over) /\ Cardinality(Over) \in Nat
  BY ConnectorsAssumption, FS_Subset, FS_CardinalityType
<1>2. IsFiniteSet(Over \cup {r}) /\ Cardinality(Over \cup {r}) = Cardinality(Over) + 1
  <2>1. r \notin Over
    OBVIOUS
  <2> HIDE DEF Over
  <2> QED BY <1>1, <2>1, FS_AddElement
<1>3. Cardinality(Over \cup {r}) <= Cardinality(Callbacks) /\ Cardinality(Callbacks) \in Nat
  <2>1. Over \cup {r} \subseteq Callbacks
    OBVIOUS
  <2> HIDE DEF Over
  <2> QED BY <2>1, ConnectorsAssumption, FS_Subset, FS_CardinalityType
<1>4. IsFiniteSet(Ids)
  BY <1>3, FS_Interval DEF Ids
<1>5. IsFiniteSet(DOMAIN install)
  BY <1>4, FS_Subset DEF ConnInv, InstallOK, IsTable
<1>6. Cardinality(DOMAIN install) \in Nat
  BY <1>5, FS_CardinalityType
<1>7. Cardinality(DOMAIN install) <= Cardinality(Over)
  BY DEF ConnInv, RowsNumbered
<1>8. Cardinality(DOMAIN install) + 1 \in Ids
  <2> HIDE DEF Over
  <2> QED BY <1>1, <1>2, <1>3, <1>6, <1>7 DEF Ids
<1> QED BY <1>8

\* Every step keeps it.
LEMMA ConnectorsStep == ConnInv /\ [ConnectorsNext]_connectorVars => ConnInv'
<1> SUFFICES ASSUME ConnInv, [ConnectorsNext]_connectorVars PROVE ConnInv'
  OBVIOUS
<1>0. /\ FlowsOK /\ StartOK /\ InstallOK /\ OneActive
      /\ \A r \in Flows : flow[r] \in Flow /\ StagesOK(r) /\ ReadOK(r) /\ SeenOK(r)
  BY DEF ConnInv, FlowOK, FlowsOK
<1> USE ConnectorsAssumption
<1>1. ASSUME NEW s \in Consents, Start(s) \/ StartExpires(s) PROVE ConnInv'
  <2>1. install' = install /\ flow' = flow
    BY <1>1 DEF Start, StartExpires
  <2>2. StartOK'
    BY <1>0, <1>1 DEF Start, StartExpires, StartOK, StartStates
  <2> QED BY <2>1, <2>2, NothingMoves
<1>2. ASSUME NEW s \in Consents, NEW r \in Callbacks, Callback(r, s) PROVE ConnInv'
  <2>0. r \in Flows /\ flow[r].stage = "new" /\ flow[r] \in Flow
    BY <1>0, <1>2 DEF Callback, Flows
  <2>1. [flow[r] EXCEPT !.stage = "arrived", !.state = {s}] \in Flow
    BY <2>0 DEF Flow
  <2>2. flow' \in [Flows -> Flow]
    BY <1>0, <1>2, <2>0, <2>1 DEF Callback, FlowsOK
  <2>3. /\ \A q \in Flows : q # r => flow'[q] = flow[q]
        /\ flow'[r].stage = "arrived" /\ flow'[r].row = flow[r].row
        /\ flow'[r].after = flow[r].after /\ flow'[r].seen = flow[r].seen
    BY <1>0, <1>2, <2>0 DEF Callback, FlowsOK, Flow
  <2>4. StagesOK(r)' /\ StartOK' /\ install' = install
    BY <1>0, <1>2, <2>3 DEF Callback, StagesOK, StartOK
  <2>5. /\ flow[r].stage \in Before /\ flow[r].stage \notin Concluded
        /\ flow'[r].stage \notin Between /\ flow'[r].stage # "over"
    BY <2>0, <2>3 DEF Before, Concluded, Between
  <2> QED BY <2>0, <2>2, <2>3, <2>4, <2>5, QuietStep
<1>3. ASSUME NEW r \in Flows, CallbackDeletes(r) PROVE ConnInv'
  <2>1. Steps(r, "deleting") /\ StartOK' /\ install' = install /\ flow[r].stage = "arrived"
    BY <1>0, <1>3 DEF CallbackDeletes, StartOK
  <2>2. /\ flow[r].stage \in Before /\ flow[r].stage \notin Concluded
    BY <2>1 DEF Before, Concluded
  <2>3. /\ \A q \in Flows : q # r => flow'[q] = flow[q]
        /\ flow'[r].stage = "deleting" /\ flow'[r].row = flow[r].row
        /\ flow'[r].after = flow[r].after /\ flow'[r].seen = flow[r].seen
        /\ flow' \in [Flows -> Flow]
    BY <1>0, <2>1, StepsOn
  <2>4. StagesOK(r)' /\ flow'[r].stage \notin Between /\ flow'[r].stage # "over"
    BY <1>0, <2>1, <2>3 DEF StagesOK, Between
  <2> QED BY <2>1, <2>2, <2>3, <2>4, QuietStep
<1>4. ASSUME NEW r \in Flows, Traded(r) PROVE ConnInv'
  <2>0. flow[r].stage = "deleting" /\ flow[r] \in Flow /\ r \in Callbacks
    BY <1>0, <1>4 DEF Traded, StagesOK, Flows
  <2>1. PICK a \in GoogleAccounts :
            flow' = [flow EXCEPT ![r] = [flow[r] EXCEPT !.stage = "trading", !.account = {a}]]
    BY <1>4 DEF Traded
  <2>2. [flow[r] EXCEPT !.stage = "trading", !.account = {a}] \in Flow
    BY <2>0 DEF Flow
  <2>3. flow' \in [Flows -> Flow]
    BY <1>0, <2>1, <2>2 DEF FlowsOK
  <2>4. /\ \A q \in Flows : q # r => flow'[q] = flow[q]
        /\ flow'[r].stage = "trading" /\ flow'[r].row = flow[r].row
        /\ flow'[r].after = flow[r].after /\ flow'[r].seen = flow[r].seen
    BY <1>0, <2>0, <2>1 DEF FlowsOK, Flow
  <2>5. flow[r].state \subseteq Consents
    BY <2>0 DEF Flow
  <2>6. StagesOK(r)' /\ StartOK' /\ install' = install
    BY <1>0, <1>4, <2>0, <2>4, <2>5 DEF Traded, StagesOK, StartOK
  <2>7. /\ flow[r].stage \in Before /\ flow[r].stage \notin Concluded
        /\ flow'[r].stage \notin Between /\ flow'[r].stage # "over"
    BY <2>0, <2>4 DEF Before, Concluded, Between
  <2> QED BY <2>3, <2>4, <2>6, <2>7, QuietStep
<1>5. ASSUME NEW r \in Flows, TradeRefused(r) PROVE ConnInv'
  <2>1. Steps(r, "failed") /\ install' = install /\ flow[r].stage = "deleting"
    BY <1>0, <1>5 DEF TradeRefused
  <2>2. StartOK'
    BY <1>0, <1>5 DEF TradeRefused, StartOK, StartStates
  <2>3. /\ \A q \in Flows : q # r => flow'[q] = flow[q]
        /\ flow'[r].stage = "failed" /\ flow'[r].row = flow[r].row
        /\ flow'[r].after = flow[r].after /\ flow'[r].seen = flow[r].seen
        /\ flow' \in [Flows -> Flow]
    BY <1>0, <2>1, StepsOn
  <2>4. StagesOK(r)'
    BY <1>0, <2>1, <2>3 DEF StagesOK
  <2>5. /\ flow[r].stage \notin Concluded /\ flow'[r].stage \notin Before
        /\ flow'[r].stage \notin Between /\ flow'[r].stage # "over"
    BY <2>1, <2>3 DEF Before, Concluded, Between
  <2> QED BY <2>1, <2>2, <2>3, <2>4, <2>5, QuietStep
<1>6. ASSUME NEW r \in Flows, CallbackReads(r) PROVE ConnInv'
  <2>1. /\ flow[r].stage \in Before /\ "reading" \in Between /\ ReadsInstall(r, "reading")
        /\ install' = install /\ StartOK'
    BY <1>0, <1>6 DEF CallbackReads, Before, Between, StartOK
  <2>2. flow'[r].stage = "reading"
    <3>1. flow[r] \in Flow /\ FlowsOK
      BY <1>0
    <3> QED BY <2>1, <3>1 DEF ReadsInstall, FlowsOK, Flow
  <2>3. StagesOK(r)'
    BY <2>2, <1>6 DEF StagesOK, CallbackReads
  <2> QED BY <2>1, <2>3, InstallReadStep
<1>7. ASSUME NEW r \in Flows, CallbackCommit(r) PROVE ConnInv'
  <2> DEFINE new == CHOOSE k \in Ids : k = Cardinality(DOMAIN install) + 1
  <2>0. /\ r \in Callbacks /\ flow[r].stage = "reading" /\ flow[r] \in Flow
        /\ start' = [s \in Consents |->
                    IF s \in flow[r].state /\ flow'[r].stage = "over" THEN "gone" ELSE start[s]]
        /\ codes' = codes
    BY <1>0, <1>7 DEF CallbackCommit
  <2>1. StartOK'
    BY <1>0, <2>0 DEF StartOK, StartStates
  <2>2. PICK a \in flow[r].account :
          \/ \E k \in flow[r].row, seen \in flow[r].seen :
                /\ install' = [install EXCEPT ![k] = Reinstalled(@, seen, a)]
                /\ Steps(r, "over")
          \/ /\ flow[r].row = {} /\ ActiveRows = {}
             /\ install' = Inserted(install, new, [account |-> a, tokens |-> a, active |-> TRUE])
             /\ flow' = [flow EXCEPT ![r].stage = "over", ![r].row = {new}]
          \/ /\ flow[r].row = {} /\ ActiveRows # {}
             /\ Steps(r, "failed") /\ UNCHANGED install
    BY <1>7 DEF CallbackCommit
  <2>3. a \in GoogleAccounts
    BY <2>0 DEF Flow
  <2>4. ASSUME NEW k \in flow[r].row, NEW seen \in flow[r].seen,
               install' = [install EXCEPT ![k] = Reinstalled(@, seen, a)], Steps(r, "over")
        PROVE  ConnInv'
    <3>1. /\ \A q \in Flows : q # r => flow'[q] = flow[q]
          /\ flow'[r].stage = "over" /\ flow'[r].row = flow[r].row
          /\ flow'[r].after = flow[r].after /\ flow' \in [Flows -> Flow]
      BY <1>0, <2>4, StepsOn
    <3>2. k \in DOMAIN install /\ flow[r].stage \in Between
      BY <1>0, <2>0 DEF ReadOK, Between
    <3>3. PICK old \in Install : old = install[k]
      BY <1>0, <3>2 DEF InstallOK, IsTable
    <3>4. install' = [install EXCEPT ![k] = Reinstalled(old, seen, a)]
      BY <2>4, <3>3
    <3>5. PICK row : row = Reinstalled(old, seen, a)
      OBVIOUS
    <3>6. /\ row \in Install /\ row.active = old.active /\ row.tokens = a
          /\ row.account = IF a = seen.account THEN old.account ELSE a
      BY <2>3, <3>5 DEF Reinstalled, Install
    <3>7. /\ DOMAIN install' = DOMAIN install /\ install'[k] = row
          /\ \A j \in DOMAIN install : j # k => install'[j] = install[j]
      BY <3>2, <3>4, <3>5
    <3>8. InstallOK'
      BY <1>0, <3>2, <3>4, <3>5, <3>6 DEF InstallOK, IsTable
    <3>9. \A j \in DOMAIN install : install'[j].active => install[j].active
      BY <3>3, <3>6, <3>7
    <3>10. \A j \in DOMAIN install : install'[j].account # install[j].account =>
                                        r \in Callbacks /\ j \in flow[r].row
      BY <3>7, <2>0
    <3>11. row.tokens # row.account => Excused(k)
      <4>1. row.tokens # row.account => seen.account # install[k].account
        BY <3>3, <3>6
      <4>2. seen.account # install[k].account => Crossed(r, k)
        BY <1>0, <3>2 DEF SeenOK
      <4> QED BY <4>1, <4>2, <2>0 DEF Excused
    <3>12. \A j \in DOMAIN install : install'[j].tokens # install'[j].account => Excused(j)
      BY <3>7, <3>11 DEF ConnInv, NamesOK
    <3>13. StagesOK(r)' /\ flow'[r].stage \in Concluded /\ r \notin Revokes /\ FlowsOK'
      BY <2>0, <3>1 DEF StagesOK, Concluded, FlowsOK
    <3> QED BY <2>1, <3>1, <3>2, <3>7, <3>8, <3>9, <3>10, <3>12, <3>13, WriteStep
  <2>5. ASSUME flow[r].row = {}, ActiveRows = {},
               install' = Inserted(install, new, [account |-> a, tokens |-> a, active |-> TRUE]),
               flow' = [flow EXCEPT ![r].stage = "over", ![r].row = {new}]
        PROVE  ConnInv'
    <3>1. flow' = [flow EXCEPT ![r] = [flow[r] EXCEPT !.stage = "over", !.row = {new}]]
      BY <2>5
    <3>2. /\ \A q \in Flows : q # r => flow'[q] = flow[q]
          /\ flow'[r].stage = "over" /\ flow'[r].row = {new}
          /\ flow'[r].after = flow[r].after
      BY <1>0, <2>0, <3>1 DEF FlowsOK, Flow
    <3>3. new \in Ids => [flow[r] EXCEPT !.stage = "over", !.row = {new}] \in Flow
      BY <2>0 DEF Flow
    <3>4. flow' \in [Flows -> Flow] \/ new \notin Ids
      BY <1>0, <3>1, <3>3 DEF FlowsOK
    <3>5. new = Cardinality(DOMAIN install) + 1
      BY <2>0, <2>5, RoomLeft
    <3> HIDE DEF new
    <3> QED BY <2>0, <2>1, <2>3, <2>5, <3>2, <3>4, <3>5, InsertStep
  <2>6. ASSUME Steps(r, "failed"), UNCHANGED install PROVE ConnInv'
    <3>1. /\ \A q \in Flows : q # r => flow'[q] = flow[q]
          /\ flow'[r].stage = "failed" /\ flow'[r].row = flow[r].row
          /\ flow'[r].after = flow[r].after /\ flow'[r].seen = flow[r].seen
          /\ flow' \in [Flows -> Flow]
      BY <1>0, <2>6, StepsOn
    <3>2. StagesOK(r)'
      BY <2>0, <3>1 DEF StagesOK
    <3>3. /\ flow[r].stage \notin Concluded /\ flow'[r].stage \notin Before
          /\ flow'[r].stage \notin Between /\ flow'[r].stage # "over"
      BY <2>0, <3>1 DEF Before, Concluded, Between
    <3> QED BY <2>1, <2>6, <3>1, <3>2, <3>3, QuietStep
  <2> QED BY <2>2, <2>4, <2>5, <2>6
<1>8. ASSUME NEW r \in Flows, RevokeReads(r) PROVE ConnInv'
  <2>1. /\ flow[r].stage \in Before /\ "reading" \in Between /\ ReadsInstall(r, "reading")
        /\ install' = install /\ StartOK'
    BY <1>0, <1>8 DEF RevokeReads, Before, Between, StartOK
  <2>2. flow'[r].stage = "reading"
    <3>1. flow[r] \in Flow /\ FlowsOK
      BY <1>0
    <3> QED BY <2>1, <3>1 DEF ReadsInstall, FlowsOK, Flow
  <2>3. StagesOK(r)'
    BY <2>2, <1>8 DEF StagesOK, RevokeReads
  <2> QED BY <2>1, <2>3, InstallReadStep
<1>9. ASSUME NEW r \in Flows, RevokeWrites(r) \/ Refreshed(r) PROVE ConnInv'
  <2>1. Steps(r, "holding") /\ StartOK' /\ install' = install /\ flow[r].stage \in Between
    BY <1>0, <1>9 DEF RevokeWrites, Refreshed, StartOK, Between
  <2>2. flow[r].stage \notin Concluded
    BY <2>1 DEF Between, Concluded
  <2>3. /\ \A q \in Flows : q # r => flow'[q] = flow[q]
        /\ flow'[r].stage = "holding" /\ flow'[r].row = flow[r].row
        /\ flow'[r].after = flow[r].after /\ flow'[r].seen = flow[r].seen
        /\ flow' \in [Flows -> Flow]
    BY <1>0, <2>1, StepsOn
  <2>4. StagesOK(r)' /\ flow'[r].stage \notin Before /\ flow'[r].stage # "over"
    BY <1>0, <1>9, <2>3 DEF StagesOK, Before, RevokeWrites, Refreshed
  <2> QED BY <2>1, <2>2, <2>3, <2>4, QuietStep
<1>10. ASSUME NEW r \in Flows, RevokeCommit(r) PROVE ConnInv'
  <2>1. /\ Steps(r, "over") /\ r \in Revokes /\ flow[r].stage = "holding"
        /\ install' = [k \in DOMAIN install |->
                      IF k \in flow[r].row THEN [install[k] EXCEPT !.active = FALSE]
                                           ELSE install[k]]
    BY <1>10 DEF RevokeCommit
  <2>2. StartOK'
    BY <1>0, <1>10 DEF RevokeCommit, StartOK
  <2>3. /\ \A q \in Flows : q # r => flow'[q] = flow[q]
        /\ flow'[r].stage = "over" /\ flow'[r].row = flow[r].row
        /\ flow'[r].after = flow[r].after /\ flow' \in [Flows -> Flow]
    BY <1>0, <2>1, StepsOn
  <2>4. \A k \in DOMAIN install : install[k] \in Install
    BY <1>0 DEF InstallOK, IsTable
  <2>5. DOMAIN install' = DOMAIN install
    BY <2>1
  <2>6. \A k \in DOMAIN install :
           /\ install'[k] \in Install
           /\ install'[k].tokens = install[k].tokens /\ install'[k].account = install[k].account
           /\ install'[k].active => install[k].active
           /\ k \in flow[r].row => ~install'[k].active
    <3>1. ASSUME NEW k \in DOMAIN install
          PROVE  /\ install'[k] \in Install
                 /\ install'[k].tokens = install[k].tokens
                 /\ install'[k].account = install[k].account
                 /\ install'[k].active => install[k].active
                 /\ k \in flow[r].row => ~install'[k].active
      <4>1. PICK old \in Install : old = install[k]
        BY <2>4
      <4>2. PICK row : row = [old EXCEPT !.active = FALSE]
        OBVIOUS
      <4>3. row \in Install /\ row.tokens = old.tokens /\ row.account = old.account /\ row.active = FALSE
        BY <4>2 DEF Install
      <4>4. CASE k \in flow[r].row
        <5>1. install'[k] = row
          BY <2>1, <4>1, <4>2, <4>4
        <5> QED BY <4>1, <4>3, <5>1
      <4>5. CASE k \notin flow[r].row
        BY <2>1, <2>4, <4>5
      <4> QED BY <4>4, <4>5
    <3> QED BY <3>1
  <2>7. InstallOK'
    <3>1. install' \in [DOMAIN install -> Install]
      BY <2>1, <2>6
    <3> QED BY <1>0, <2>5, <3>1 DEF InstallOK, IsTable
  <2>8. \A k \in DOMAIN install : install'[k].tokens # install'[k].account => Excused(k)
    BY <2>6 DEF ConnInv, NamesOK
  <2>9. \A k \in flow[r].row : ~install'[k].active
    BY <1>0, <2>6 DEF ReadOK
  <2>10. StagesOK(r)' /\ flow'[r].stage \in Concluded /\ flow[r].stage \in Between /\ FlowsOK'
    BY <2>1, <2>3 DEF StagesOK, Concluded, Between, FlowsOK
  <2>11. \A k \in DOMAIN install : install'[k].active => install[k].active
    BY <2>6
  <2>12. \A k \in DOMAIN install : install'[k].account # install[k].account =>
                                        r \in Callbacks /\ k \in flow[r].row
    BY <2>6
  <2> QED BY <2>2, <2>3, <2>5, <2>7, <2>8, <2>9, <2>10, <2>11, <2>12, WriteStep
<1>11. ASSUME NEW r \in Flows, CallReads(r) PROVE ConnInv'
  <2>1. /\ flow[r].stage \in Before /\ "calling" \in Between /\ ReadsInstall(r, "calling")
        /\ install' = install /\ StartOK'
    BY <1>0, <1>11 DEF CallReads, Before, Between, StartOK
  <2>2. flow'[r].stage = "calling"
    <3>1. flow[r] \in Flow /\ FlowsOK
      BY <1>0
    <3> QED BY <2>1, <3>1 DEF ReadsInstall, FlowsOK, Flow
  <2>3. StagesOK(r)'
    BY <2>2, <1>11 DEF StagesOK, CallReads
  <2> QED BY <2>1, <2>3, InstallReadStep
<1>12. ASSUME NEW r \in Flows, CallEnds(r) \/ RetryRefused(r) PROVE ConnInv'
  <2>1. PICK f \in Concluded : Steps(r, f)
    BY <1>12 DEF CallEnds, RetryRefused, Concluded
  <2>2. StartOK' /\ install' = install /\ flow[r].stage \in Between /\ r \in Calls
    BY <1>0, <1>12 DEF CallEnds, RetryRefused, StartOK, Between, StagesOK, Flows
  <2>3. flow[r].stage \notin Concluded /\ r \notin Revokes /\ r \notin Callbacks
    BY <2>2 DEF Between, Concluded
  <2>4. /\ \A q \in Flows : q # r => flow'[q] = flow[q]
        /\ flow'[r].stage = f /\ flow'[r].row = flow[r].row
        /\ flow'[r].after = flow[r].after /\ flow'[r].seen = flow[r].seen
        /\ flow' \in [Flows -> Flow]
    BY <1>0, <2>1, StepsOn DEF Concluded
  <2>5. StagesOK(r)' /\ flow'[r].stage \notin Before /\ flow'[r].stage \notin Between
    BY <2>2, <2>3, <2>4 DEF StagesOK, Before, Between, Concluded
  <2> QED BY <2>2, <2>3, <2>4, <2>5, QuietStep
<1>13. ASSUME NEW r \in Flows, RetryCommit(r) PROVE ConnInv'
  <2>1. /\ r \in Calls /\ flow[r].stage = "holding" /\ flow[r].stage \in Between
        /\ install' = [k \in DOMAIN install |->
                      IF k \in flow[r].row
                        THEN [install[k] EXCEPT !.tokens = (CHOOSE s \in flow[r].seen : TRUE).tokens]
                        ELSE install[k]]
    BY <1>13 DEF RetryCommit, Between
  <2>2. StartOK'
    BY <1>0, <1>13 DEF RetryCommit, StartOK
  <2>3. PICK f \in Concluded : Steps(r, f)
    BY <1>13 DEF RetryCommit, Concluded
  <2>4. /\ \A q \in Flows : q # r => flow'[q] = flow[q]
        /\ flow'[r].stage = f /\ flow'[r].row = flow[r].row
        /\ flow'[r].after = flow[r].after /\ flow' \in [Flows -> Flow]
    BY <1>0, <2>3, StepsOn DEF Concluded
  <2>5. \A k \in DOMAIN install : install[k] \in Install
    BY <1>0 DEF InstallOK, IsTable
  <2>6. DOMAIN install' = DOMAIN install
    BY <2>1
  <2>7. ASSUME NEW k \in DOMAIN install
        PROVE  /\ install'[k] \in Install
               /\ install'[k].account = install[k].account
               /\ install'[k].active = install[k].active
               /\ install'[k].tokens # install'[k].account => Excused(k)
    <3>1. CASE k \notin flow[r].row
      BY <2>1, <2>5, <3>1 DEF ConnInv, NamesOK
    <3>2. CASE k \in flow[r].row
      <4>1. PICK s \in Install : flow[r].seen = {s}
        BY <1>0, <2>1, <3>2 DEF ReadOK
      <4>2. (CHOOSE x \in flow[r].seen : TRUE) = s
        BY <4>1
      <4>3. PICK old \in Install : old = install[k]
        BY <2>5
      <4>4. PICK row : row = [old EXCEPT !.tokens = s.tokens]
        OBVIOUS
      <4>5. row \in Install /\ row.tokens = s.tokens /\ row.account = old.account /\ row.active = old.active
        BY <4>4 DEF Install
      <4>6. install'[k] = row
        BY <2>1, <3>2, <4>2, <4>3, <4>4
      <4>7. /\ s.account # install[k].account => Crossed(r, k)
            /\ s.tokens # s.account => Excused(k)
        BY <1>0, <2>1, <3>2, <4>1 DEF SeenOK
      <4>8. Crossed(r, k) => Excused(k)
        BY <2>1, <3>2 DEF Excused
      <4> QED BY <4>3, <4>5, <4>6, <4>7, <4>8
    <3> QED BY <3>1, <3>2
  <2>8. InstallOK'
    <3>1. install' \in [DOMAIN install -> Install]
      BY <2>1, <2>7
    <3> QED BY <1>0, <2>6, <3>1 DEF InstallOK, IsTable
  <2>9. \A k \in DOMAIN install : install'[k].tokens # install'[k].account => Excused(k)
    BY <2>7
  <2>10. StagesOK(r)' /\ flow'[r].stage \in Concluded /\ r \notin Revokes /\ FlowsOK'
    BY <2>1, <2>4 DEF StagesOK, Concluded, FlowsOK
  <2>11. \A k \in DOMAIN install : install'[k].active => install[k].active
    BY <2>7
  <2>12. \A k \in DOMAIN install : install'[k].account # install[k].account =>
                                        r \in Callbacks /\ k \in flow[r].row
    BY <2>7
  <2> QED BY <2>1, <2>2, <2>4, <2>6, <2>8, <2>9, <2>10, <2>11, <2>12, WriteStep
<1>14. CASE UNCHANGED connectorVars
  BY <1>0, <1>14, NothingMoves DEF connectorVars, StartOK
<1> QED BY <1>1, <1>2, <1>3, <1>4, <1>5, <1>6, <1>7, <1>8, <1>9, <1>10, <1>11, <1>12, <1>13, <1>14
        DEF ConnectorsNext

\* It holds when nothing is installed.
LEMMA ConnectorsStart == ConnectorsInit => ConnInv
<1> SUFFICES ASSUME ConnectorsInit PROVE ConnInv
  OBVIOUS
<1>1. DOMAIN install = {} /\ InstallOK /\ ActiveRows = {}
  BY DEF ConnectorsInit, EmptyTable, InstallOK, IsTable, ActiveRows
<1>2. NewFlow \in Flow
  BY DEF NewFlow, Flow
<1>3. FlowsOK /\ \A r \in Flows : flow[r] = NewFlow
  BY <1>2 DEF ConnectorsInit, FlowsOK
<1>4. StartOK
  BY DEF ConnectorsInit, StartOK, StartStates
<1>5. RowsNumbered
  <2>1. {c \in Callbacks : flow[c].stage = "over"} = {}
    BY <1>3 DEF Flows, NewFlow
  <2>2. Cardinality({}) = 0
    BY FS_EmptySet
  <2>3. {} = 1 .. 0
    OBVIOUS
  <2>4. Cardinality(DOMAIN install) = 0
    BY <1>1, <2>2
  <2>5. Cardinality({c \in Callbacks : flow[c].stage = "over"}) = 0
    BY <2>1, <2>2
  <2>6. DOMAIN install = 1 .. Cardinality(DOMAIN install)
    BY <1>1, <2>3, <2>4
  <2>7. Cardinality(DOMAIN install) <= Cardinality({c \in Callbacks : flow[c].stage = "over"})
    BY <2>4, <2>5
  <2> QED BY <2>6, <2>7 DEF RowsNumbered
<1>6. \A r \in Flows : FlowOK(r)
  BY <1>3 DEF NewFlow, FlowOK, StagesOK, ReadOK, SeenOK, RevokedOK, Before, Between
<1> QED BY <1>1, <1>3, <1>4, <1>5, <1>6 DEF ConnInv, OneActive, NamesOK

\* So it holds throughout.
LEMMA ConnectorsHold == ConnectorsSpec => []ConnInv
BY ConnectorsStart, ConnectorsStep, PTL DEF ConnectorsSpec

\* Installations and requests keep their types, and one row at most is active
\* (main.py, the connectors' routes).
THEOREM ConnectorsTypesOK == ConnectorsSpec => []ConnectorsTypeOK
<1>1. ASSUME ConnInv PROVE ConnectorsTypeOK
  <2>1. Cardinality(ActiveRows) <= 1
    <3>1. CASE ActiveRows = {}
      BY <3>1, FS_EmptySet
    <3>2. CASE ActiveRows # {}
      <4>1. PICK k : ActiveRows = {k}
        BY <1>1, <3>2 DEF ConnInv, OneActive
      <4>2. Cardinality({k}) = 1
        BY FS_Singleton
      <4> QED BY <4>1, <4>2
    <3> QED BY <3>1, <3>2
  <2> QED BY <1>1, <2>1 DEF ConnInv, InstallOK, FlowsOK, StartOK, ConnectorsTypeOK
<1> QED BY <1>1, ConnectorsHold, PTL

\* The tokens of an active row are those of the account the dashboard shows,
\* unless an installation read the row at once with another or with a call that
\* refreshed; and an installation that succeeded is not on a row that was
\* revoked before it began (main.py, the connectors' OAuth callback).
THEOREM MailOfItsOwner == ConnectorsSpec => []ConnectedAs
<1>1. ASSUME ConnInv PROVE ConnectedAs
  <2>1. SUFFICES ASSUME NEW c \in Callbacks, NEW k \in flow[c].row
        PROVE /\ install[k].tokens # install[k].account =>
                  \E x \in Callbacks, y \in Callbacks \cup Calls :
                      AtOnce(x, y) /\ k \in flow[x].row \cap flow[y].row
              /\ \A v \in flow[c].after \cap Revokes : k \notin flow[v].row
    BY DEF ConnectedAs
  <2>2. c \in Flows
    BY DEF Flows
  <2>3. FlowOK(c)
    BY <1>1, <2>2 DEF ConnInv
  <2>4. k \in DOMAIN install
    BY <2>3 DEF FlowOK, ReadOK
  <2>5. install[k].tokens # install[k].account => Excused(k)
    BY <1>1, <2>4 DEF ConnInv, NamesOK
  <2> QED BY <2>3, <2>5 DEF FlowOK, RevokedOK, Excused, Crossed
<1> QED BY <1>1, ConnectorsHold, PTL

=============================================================================
