---------------------------- MODULE Deployments ----------------------------
(***************************************************************************)
(* The deployments table of the Lightsei backend and every handler that    *)
(* writes it (backend/main.py): the user's handlers (upload, team deploy,  *)
(* stop, redeploy, delete) and the three endpoints a worker calls (claim,  *)
(* status, heartbeat).                                                     *)
(*                                                                         *)
(* A handler runs in one Postgres READ COMMITTED transaction that commits  *)
(* when the request ends (db.py, get_session).  A handler that only        *)
(* updates one row by its key is one action.  A handler that decides from  *)
(* rows it has read and not locked is split where another transaction can  *)
(* commit in between: creating a deployment (open, read the active rows,   *)
(* commit) and deleting one (delete the row and look for other uses of its *)
(* bundle, commit).                                                        *)
(*                                                                         *)
(* Abstractions.  A deployment's id is its place in created_at order.  Its *)
(* bundle (deployment_blobs) is named by the deployment that stored it.    *)
(* heartbeat_at is kept as its age, cut off just past the claim TTL: only  *)
(* "older than the TTL" is ever asked.  claimed_by is only ever tested for *)
(* NULL.  Workspaces never meet, so there is one.                          *)
(*                                                                         *)
(* A definition marked "broken" is no part of the model: it is the one     *)
(* below it with a plausible bug, there to show that a property notices.   *)
(***************************************************************************)
EXTENDS Naturals

CONSTANTS
    Deps,       \* ids of the deployments that may be created
    Agents,     \* agent names
    Personas,   \* the agents whose bundle the server can build itself
    TTL,        \* WORKER_CLAIM_TTL, in ticks
    Reports     \* the statuses that reach the status endpoint

ASSUME DepsAssumption == Deps \subseteq Nat \ {0}
ASSUME PersonasAssumption == Personas \subseteq Agents
ASSUME TTLAssumption == TTL \in Nat

VARIABLES
    row,        \* the committed rows of the table: a function on their ids
    blobs,      \* the bundles stored, each named by the deployment it came with
    issued,     \* ids handed out so far, in created_at order
    tx,         \* open transactions that will insert a deployment, by its id
    dels        \* open transactions that have deleted a row: purge its bundle?

depVars == <<row, blobs, issued, tx, dels>>

NoBlob == 0

ActiveStatus == {"queued", "building", "running"}
TerminalStatus == {"stopped", "failed"}
Status == ActiveStatus \cup TerminalStatus

ASSUME ReportsAssumption == Reports \subseteq Status

Row == [agent : Agents, builtin : BOOLEAN, status : Status,
        desired : {"running", "stopped"}, claimed : BOOLEAN,
        age : 0 .. TTL + 1, blob : Deps \cup {NoBlob}]

Tx == [agent : Agents, builtin : BOOLEAN, phase : {"opened", "read"},
       retire : SUBSET Deps]

\* A table: a function on the ids that exist.
IsTable(f, S, T) == DOMAIN f \subseteq S /\ f \in [DOMAIN f -> T]

Inserted(f, k, v) == [x \in DOMAIN f \cup {k} |-> IF x = k THEN v ELSE f[x]]
Removed(f, K) == [x \in DOMAIN f \ K |-> f[x]]

-----------------------------------------------------------------------------
(* Reading the table. *)

\* A row the user wants up and that has not ended.
Wanted(d) == row[d].desired = "running" /\ row[d].status \in ActiveStatus

WantedOf(a) == {d \in DOMAIN row : row[d].agent = a /\ Wanted(d)}

\* The row is locked by a DELETE that has not committed.
Locked(d) == d \in DOMAIN dels

Writable(d) == d \in DOMAIN row /\ ~Locked(d)

\* The id of the next deployment.
Fresh(d) == d \in Deps \ issued /\ \A e \in Deps \ issued : d <= e

NewRow(a, builtin, b) ==
    [agent |-> a, builtin |-> builtin, status |-> "queued",
     desired |-> "running", claimed |-> FALSE, age |-> 0, blob |-> b]

-----------------------------------------------------------------------------
(* Creating a deployment.  Upload, GitHub push and team deploy all store a *)
(* bundle, retire the agent's active rows and insert a queued row.         *)

Open(d, a, builtin) ==
    /\ Fresh(d)
    /\ issued' = issued \cup {d}
    /\ tx' = Inserted(tx, d, [agent |-> a, builtin |-> builtin,
                              phase |-> "opened", retire |-> {}])
    /\ UNCHANGED <<row, blobs, dels>>

\* An upload, or a push to a registered path of the repository.
UploadOpen(d, a) == Open(d, a, FALSE)

\* "Build my team" passes over a persona that already has an active row.
TeamOpen(d, a) == a \in Personas /\ WantedOf(a) = {} /\ Open(d, a, TRUE)

\* _retire_active_deployments_for_agent selects the rows to retire.
ReadActive(d) ==
    /\ d \in DOMAIN tx /\ tx[d].phase = "opened"
    /\ tx' = [tx EXCEPT ![d].phase = "read",
                        ![d].retire = WantedOf(tx[d].agent)]
    /\ UNCHANGED <<row, blobs, issued, dels>>

\* The rows read are updated by key.  If one has been deleted since, the
\* UPDATE matches no row and the request fails.
DeployCommit(d) ==
    /\ d \in DOMAIN tx /\ tx[d].phase = "read"
    /\ \A e \in tx[d].retire : Writable(e)
    /\ row' = [e \in DOMAIN row \cup {d} |->
                  IF e = d THEN NewRow(tx[d].agent, tx[d].builtin, d)
                  ELSE IF e \in tx[d].retire
                       THEN [row[e] EXCEPT !.desired = "stopped"]
                       ELSE row[e]]
    /\ blobs' = blobs \cup {d}
    /\ tx' = Removed(tx, {d})
    /\ UNCHANGED <<issued, dels>>

\* The transaction rolls back: an error, or the client went away.
DeployAbort(d) ==
    /\ d \in DOMAIN tx
    /\ tx' = Removed(tx, {d})
    /\ UNCHANGED <<row, blobs, issued, dels>>

-----------------------------------------------------------------------------
(* Stop, redeploy, delete. *)

Stop(d) ==
    /\ Writable(d)
    /\ row' = [row EXCEPT ![d].desired = "stopped"]
    /\ UNCHANGED <<blobs, issued, tx, dels>>

\* Only the row named is retired.  A persona's bundle is rebuilt (unless the
\* rebuild fails), any other is shared with the old row.  Adding the Anthropic
\* key redeploys each assistant's active row the same way.
Redeploy(old, d) ==
    /\ Writable(old) /\ row[old].blob # NoBlob
    /\ Fresh(d)
    /\ \E rebuilt \in {FALSE, row[old].builtin} :
          /\ blobs' = blobs \cup (IF rebuilt THEN {d} ELSE {})
          /\ row' = Inserted([row EXCEPT ![old].desired = "stopped"], d,
                             NewRow(row[old].agent, row[old].builtin,
                                    IF rebuilt THEN d ELSE row[old].blob))
    /\ issued' = issued \cup {d}
    /\ UNCHANGED <<tx, dels>>

\* Broken: a bundle that only retired deployments use counts as unused.
BlobUnused_IgnoresRetired(d) ==
    row[d].blob # NoBlob
        /\ \A e \in DOMAIN row \ {d} : Wanted(e) => row[e].blob # row[d].blob

BlobUnused(d) ==
    row[d].blob # NoBlob
        /\ \A e \in DOMAIN row \ {d} : row[e].blob # row[d].blob

DeleteOpen(d) ==
    /\ Writable(d)
    /\ dels' = Inserted(dels, d, BlobUnused(d))
    /\ UNCHANGED <<row, blobs, issued, tx>>

\* The foreign key of a row whose bundle goes is set to NULL.
DeleteCommit(d) ==
    /\ d \in DOMAIN dels
    /\ LET gone == IF dels[d] THEN {row[d].blob} ELSE {}
       IN  /\ blobs' = blobs \ gone
           /\ row' = [e \in DOMAIN row \ {d} |->
                         IF row[e].blob \in gone
                         THEN [row[e] EXCEPT !.blob = NoBlob] ELSE row[e]]
    /\ dels' = Removed(dels, {d})
    /\ UNCHANGED <<issued, tx>>

-----------------------------------------------------------------------------
(* The worker's endpoints. *)

\* Broken: a claim is stale one tick early.
Claimable_Early(d) ==
    /\ Writable(d) /\ Wanted(d)
    /\ row[d].claimed => row[d].age >= TTL

\* Broken: claimed or not, the row is up for grabs.
Claimable_Held(d) == Writable(d) /\ Wanted(d)

\* Broken: a deployment that has ended is claimed too.
Claimable_Ended(d) ==
    /\ Writable(d) /\ row[d].desired = "running"
    /\ row[d].claimed => row[d].age > TTL

\* Broken: a claim is for ever.
Claimable_Once(d) == Writable(d) /\ Wanted(d) /\ ~row[d].claimed

Claimable(d) ==
    /\ Writable(d) /\ Wanted(d)
    /\ row[d].claimed => row[d].age > TTL

\* Broken: a status outside the enumeration.
Claim_Typo(d) ==
    /\ d \in DOMAIN row /\ Claimable(d)
    /\ \A e \in DOMAIN row : Claimable(e) => d <= e
    /\ row' = [row EXCEPT
                 ![d].claimed = TRUE, ![d].age = 0,
                 ![d].status = IF @ = "queued" THEN "claimed" ELSE @]
    /\ UNCHANGED <<blobs, issued, tx, dels>>

\* Broken: heartbeat_at is not set.
Claim_KeepsAge(d) ==
    /\ d \in DOMAIN row /\ Claimable(d)
    /\ \A e \in DOMAIN row : Claimable(e) => d <= e
    /\ row' = [row EXCEPT
                 ![d].claimed = TRUE,
                 ![d].status = IF @ = "queued" THEN "building" ELSE @]
    /\ UNCHANGED <<blobs, issued, tx, dels>>

\* SELECT ... ORDER BY created_at LIMIT 1 FOR UPDATE SKIP LOCKED.
Claim(d) ==
    /\ d \in DOMAIN row /\ Claimable(d)
    /\ \A e \in DOMAIN row : Claimable(e) => d <= e
    /\ row' = [row EXCEPT
                 ![d].claimed = TRUE, ![d].age = 0,
                 ![d].status = IF @ = "queued" THEN "building" ELSE @]
    /\ UNCHANGED <<blobs, issued, tx, dels>>

\* Broken: the first report of a running bot also asks for it to run.
UpdateStatus_Revives(d, st) ==
    /\ Writable(d)
    /\ row' = [row EXCEPT ![d].status = st, ![d].age = 0,
                          ![d].desired = IF st = "running" THEN st ELSE @]
    /\ UNCHANGED <<blobs, issued, tx, dels>>

\* Any status is accepted from any worker, whatever the row says.
UpdateStatus(d, st) ==
    /\ Writable(d)
    /\ row' = [row EXCEPT ![d].status = st, ![d].age = 0]
    /\ UNCHANGED <<blobs, issued, tx, dels>>

\* Refused (409) on a terminal row.
Heartbeat(d) ==
    /\ Writable(d) /\ row[d].status \notin TerminalStatus
    /\ row' = [row EXCEPT ![d].age = 0]
    /\ UNCHANGED <<blobs, issued, tx, dels>>

Aged(r) == IF r.claimed /\ r.age <= TTL THEN [r EXCEPT !.age = @ + 1] ELSE r

Tick ==
    /\ row' = [d \in DOMAIN row |-> Aged(row[d])]
    /\ UNCHANGED <<blobs, issued, tx, dels>>

-----------------------------------------------------------------------------
DepInit ==
    /\ row = [d \in {} |-> 0]
    /\ blobs = {}
    /\ issued = {}
    /\ tx = [d \in {} |-> 0]
    /\ dels = [d \in {} |-> FALSE]

\* What users do, through the dashboard, the CLI and the GitHub webhook.
UserNext ==
    \/ \E d \in Deps, a \in Agents : UploadOpen(d, a) \/ TeamOpen(d, a)
    \/ \E d \in Deps :
          \/ ReadActive(d) \/ DeployCommit(d) \/ DeployAbort(d)
          \/ Stop(d) \/ DeleteOpen(d) \/ DeleteCommit(d)
    \/ \E old, d \in Deps : Redeploy(old, d)

\* The backend alone: it trusts nothing it is told, so any worker call may
\* come at any time.
DepNext ==
    \/ UserNext
    \/ \E d \in Deps :
          \/ Claim(d) \/ Heartbeat(d)
          \/ \E st \in Reports : UpdateStatus(d, st)
    \/ Tick

DepSpec == DepInit /\ [][DepNext]_depVars

-----------------------------------------------------------------------------
\* Every column keeps its type and every open transaction stands on an id
\* that was handed out and, if it deletes, on a row that is still there.
DepTypeOK ==
    /\ IsTable(row, Deps, Row)
    /\ blobs \subseteq Deps
    /\ issued \subseteq Deps
    /\ IsTable(tx, Deps, Tx)
    /\ IsTable(dels, Deps, BOOLEAN)
    /\ DOMAIN row \cup DOMAIN tx \cup blobs \subseteq issued
    /\ DOMAIN row \cap DOMAIN tx = {}
    /\ DOMAIN dels \subseteq DOMAIN row

\* The bundle of every row is stored, however redeploys share bundles and
\* deletes purge them: a deployment can always be built, and redeployed.
BundlePresent == \A d \in DOMAIN row : row[d].blob \in blobs

\* A deployment the user or a newer upload has retired is never wanted again:
\* no handler turns desired_state back to running.
StaysRetired(d) ==
    row[d].desired = "stopped" =>
        d \notin DOMAIN row' \/ row'[d].desired = "stopped"

\* Every row, in every step of every handler.
RetiredForGood == [][\A d \in DOMAIN row : StaysRetired(d)]_depVars

\* What _retire_active_deployments_for_agent is for: one deployment of an
\* agent at a time, so that no redeploy leaves an orphan bot behind.
OneWantedPerAgent ==
    \A d, e \in DOMAIN row :
        Wanted(d) /\ Wanted(e) /\ row[d].agent = row[e].agent => d = e

-----------------------------------------------------------------------------
(* The inductive invariant behind BundlePresent. *)

\* A bundle about to be purged has no other user, and gains none: the one row
\* that could hand it on is locked.
PurgeSafe == \A d \in DOMAIN dels : dels[d] => BlobUnused(d)

\* The bundle of an open transaction is not visible yet.
TxFresh == blobs \cap DOMAIN tx = {}

BundleInv == DepTypeOK /\ BundlePresent /\ PurgeSafe /\ TxFresh

=============================================================================
