------------------------------- MODULE Invites -------------------------------
(***************************************************************************)
(* End users and the codes that are good for one use (backend/main.py):    *)
(* magic links, which sign an end user in and up, and invite codes, which  *)
(* link an end user to a vendor.                                           *)
(*                                                                         *)
(* A request reads the code's row, which says whether the code was spent.  *)
(* Then it writes that it is, which waits for a request that has written   *)
(* the row and not committed; what was read is not read again.  Last it    *)
(* looks for the row that the code is for, and inserts it if there is none.*)
(*                                                                         *)
(* Abstractions.  An end user is an address; a code is for one address or  *)
(* from one vendor.  The limit on links per hour, the sessions and their   *)
(* tokens, push subscriptions and the settings of a link are left out, and *)
(* so is the deletion of a vendor.                                         *)
(*                                                                         *)
(* A definition marked "broken" is no part of the model: it is the one     *)
(* below it with a plausible bug, there to show that a property notices.   *)
(***************************************************************************)
EXTENDS Naturals, FiniteSets, Tables

CONSTANTS
    People,         \* addresses of end users
    Vendors,
    Links,          \* magic links that may be sent
    Codes,          \* invite codes that may be minted
    Requests        \* numbers of the requests that spend a code

ASSUME InvitesAssumption ==
    Links \cap Codes = {} /\ Requests \subseteq Nat \ {0}

VARIABLES
    person,         \* the addresses that have an end user
    token,          \* magic links and invite codes: whose, and their state
    bond,           \* links between end users and vendors
    spending,       \* the requests that spend a code, by their number
    used,           \* history: the requests that were answered with success
    lapped          \* history: pairs of requests that were open at once

inviteVars == <<person, token, bond, spending, used, lapped>>

Token == [owner : People \cup Vendors, state : {"good", "spent", "expired", "deleted"}]

\* read    the code was good
\* locked  the code is written, not committed
\* looked  the row that the code is for was looked for
Spending == [code : Links \cup Codes, by : People,
             stage : {"read", "locked", "looked", "over"},
             seen : {"none", "there", "removed", "unread"}]

IsLink(c) == c \in Links

OpenRequests == {r \in DOMAIN spending : spending[r].stage # "over"}

Locked(c) == \E r \in DOMAIN spending :
                spending[r].code = c /\ spending[r].stage \in {"locked", "looked"}

Moves(r, stage) == spending' = [spending EXCEPT ![r].stage = stage]

-----------------------------------------------------------------------------
Good(c) == c \in DOMAIN token /\ token[c].state = "good"

\* A link is mailed to an address, a code is minted by a vendor.
Issue(c, owner) ==
    /\ c \notin DOMAIN token
    /\ owner \in IF IsLink(c) THEN People ELSE Vendors
    /\ token' = Inserted(token, c, [owner |-> owner, state |-> "good"])
    /\ UNCHANGED <<person, bond, spending, used, lapped>>

Expire(c) ==
    /\ Good(c)
    /\ token' = [token EXCEPT ![c].state = "expired"]
    /\ UNCHANGED <<person, bond, spending, used, lapped>>

\* 422 unless the code is good; a redeemer is signed in.
SpendRead(r, c, p) ==
    /\ r \in Requests \ DOMAIN spending
    /\ \A q \in Requests \ DOMAIN spending : r <= q
    /\ Good(c)
    /\ IF IsLink(c) THEN p = token[c].owner ELSE p \in person
    /\ spending' = Inserted(spending, r,
          [code |-> c, by |-> p, stage |-> "read", seen |-> "unread"])
    /\ lapped' = lapped \cup {{r, q} : q \in OpenRequests}
    /\ UNCHANGED <<person, token, bond, used>>

\* The code is written, and who redeems it, unless either was deleted: 500.
SpendLock(r) ==
    LET c == spending[r].code
    IN  /\ r \in OpenRequests /\ spending[r].stage = "read" /\ ~Locked(c)
        /\ Moves(r, IF token[c].state # "deleted" THEN "locked" ELSE "over")
        /\ UNCHANGED <<person, token, bond, used, lapped>>

BondOf(p, v) == IF <<p, v>> \in DOMAIN bond THEN bond[<<p, v>>] ELSE "none"

SpendLook(r) ==
    LET x == spending[r]
    IN  /\ r \in OpenRequests /\ x.stage = "locked"
        /\ spending' = [spending EXCEPT
              ![r].stage = "looked",
              ![r].seen = IF ~IsLink(x.code) THEN BondOf(x.by, token[x.code].owner)
                          ELSE IF x.by \in person THEN "there" ELSE "none"]
        /\ UNCHANGED <<person, token, bond, used, lapped>>

\* A row that was missing has been inserted by somebody else: 500, and
\* nothing is written.
Conflicts(x) ==
    /\ x.seen = "none"
    /\ IF IsLink(x.code) THEN x.by \in person
       ELSE BondOf(x.by, token[x.code].owner) # "none"

\* broken: the code is committed before the row that it is for.
SpendFails_Spent(r) ==
    /\ r \in OpenRequests /\ spending[r].stage = "looked" /\ Conflicts(spending[r])
    /\ token' = [token EXCEPT ![spending[r].code].state = "spent"]
    /\ Moves(r, "over")
    /\ UNCHANGED <<person, bond, used, lapped>>

SpendFails(r) ==
    /\ r \in OpenRequests /\ spending[r].stage = "looked" /\ Conflicts(spending[r])
    /\ Moves(r, "over")
    /\ UNCHANGED <<person, token, bond, used, lapped>>

\* Code and row are committed.  A link that was removed is taken up again.
SpendCommit(r) ==
    LET x == spending[r]
    IN  /\ r \in OpenRequests /\ x.stage = "looked" /\ ~Conflicts(x)
        /\ token' = [token EXCEPT ![x.code].state = "spent"]
        /\ person' = person \cup {x.by}
        /\ bond' = IF IsLink(x.code) \/ x.seen = "there" THEN bond
                   ELSE Inserted(bond, <<x.by, token[x.code].owner>>, "there")
        /\ used' = used \cup {r}
        /\ Moves(r, "over")
        /\ UNCHANGED lapped

\* The process dies, or the database loses the connection.
SpendAborts(r) ==
    /\ r \in OpenRequests
    /\ Moves(r, "over")
    /\ UNCHANGED <<person, token, bond, used, lapped>>

\* The vendor revokes a code that it saw unspent; by now it may be spent.
Revoke(c) ==
    /\ c \in DOMAIN token \cap Codes /\ ~Locked(c)
    /\ token' = [token EXCEPT ![c].state = "deleted"]
    /\ UNCHANGED <<person, bond, spending, used, lapped>>

Unlink(p, v) ==
    /\ BondOf(p, v) = "there"
    /\ bond' = [bond EXCEPT ![<<p, v>>] = "removed"]
    /\ UNCHANGED <<person, token, spending, used, lapped>>

\* Requests that hold the row of the end user, and would fail without it.
Needs(p) == {r \in OpenRequests : spending[r].by = p /\
                (IsLink(spending[r].code) => spending[r].seen = "there")}

\* An end user deletes the account, and its links with it: after a redeemer
\* that has written the code, and to the cost of every other request.
Leave(p) ==
    /\ p \in person
    /\ \A r \in Needs(p) : spending[r].stage \in {"locked", "looked"} =>
                              IsLink(spending[r].code)
    /\ person' = person \ {p}
    /\ bond' = Removed(bond, {b \in DOMAIN bond : b[1] = p})
    /\ spending' = [r \in DOMAIN spending |->
                      IF r \in Needs(p) THEN [spending[r] EXCEPT !.stage = "over"]
                      ELSE spending[r]]
    /\ UNCHANGED <<token, used, lapped>>

-----------------------------------------------------------------------------
InvitesInit ==
    /\ person \in SUBSET People
    /\ token = EmptyTable
    /\ bond = EmptyTable
    /\ spending = EmptyTable
    /\ used = {}
    /\ lapped = {}

InvitesNext ==
    \/ \E c \in Links \cup Codes :
          \/ Expire(c) \/ Revoke(c)
          \/ \E owner \in People \cup Vendors : Issue(c, owner)
          \/ \E r \in Requests, p \in People : SpendRead(r, c, p)
    \/ \E r \in Requests : \/ SpendLock(r) \/ SpendLook(r) \/ SpendFails(r)
                           \/ SpendCommit(r) \/ SpendAborts(r)
    \/ \E p \in People : Leave(p) \/ \E v \in Vendors : Unlink(p, v)

InvitesSpec == InvitesInit /\ [][InvitesNext]_inviteVars

-----------------------------------------------------------------------------
\* Rows and requests keep their types; an end user is linked only while there
\* is one, and one transaction at a time has written a code.
InvitesTypeOK ==
    /\ person \subseteq People
    /\ IsTable(token, Links \cup Codes, Token)
    /\ IsTable(bond, person \X Vendors, {"there", "removed"})
    /\ IsTable(spending, Requests, Spending)
    /\ used \subseteq DOMAIN spending
    /\ lapped \subseteq SUBSET Requests
    /\ \A r, q \in OpenRequests :
          /\ {spending[r].stage, spending[q].stage} \subseteq {"locked", "looked"}
          /\ spending[r].code = spending[q].code
          => r = q

\* A code is used twice only by requests that were open at once, and it is
\* spent only by a request that succeeded: one that failed on the row it
\* wanted to insert, or half way through, leaves the code good.
CodesSpentOnce ==
    /\ \A r, q \in used : spending[r].code = spending[q].code /\ r # q
                             => {r, q} \in lapped
    /\ \A c \in DOMAIN token : token[c].state = "spent" =>
          \E r \in used : spending[r].code = c

=============================================================================
