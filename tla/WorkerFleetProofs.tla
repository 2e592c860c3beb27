-------------------------- MODULE WorkerFleetProofs --------------------------
(***************************************************************************)
(* Proofs about the deployments table, the workers and both together: a    *)
(* row keeps its bundle, a deployment is never held by two supervisors,    *)
(* its bot is never alive twice, an ended row stays ended, a worker keeps  *)
(* within its limit and tells only retired bots to stop; and the whole     *)
(* implements DeploymentLease: every step is, seen through Phase and       *)
(* Holders, one step of the lease or none. They hold for any number of     *)
(* workers, threads and deployments, provided no thread goes unanswered    *)
(* for longer than the claim TTL (Timely).                                 *)
(***************************************************************************)
EXTENDS WorkerFleet, FiniteSetTheorems, TLAPS

-----------------------------------------------------------------------------
(* The table. *)

\* Creating a deployment keeps the types, from opening the transaction to its
\* commit or rollback.
LEMMA CreateTypeOK ==
    ASSUME DepTypeOK, NEW d \in Deps,
           \/ \E a \in Agents : UploadOpen(d, a) \/ TeamOpen(d, a)
           \/ ReadActive(d) \/ DeployCommit(d) \/ DeployAbort(d)
    PROVE  DepTypeOK'
<1> USE DEF DepTypeOK, IsTable
<1>1. CASE \E a \in Agents, b \in BOOLEAN : Open(d, a, b)
  BY <1>1 DEF Open, Fresh, Inserted, Tx
<1>2. CASE ReadActive(d)
  <2>1. WantedOf(tx[d].agent) \subseteq Deps
    BY DEF WantedOf
  <2> QED BY <1>2, <2>1 DEF ReadActive, Tx
<1>3. CASE DeployCommit(d)
  <2>1. tx[d] \in Tx /\ d \in issued
    BY <1>3 DEF DeployCommit
  <2>2. NewRow(tx[d].agent, tx[d].builtin, d) \in Row
    BY <2>1, TTLAssumption DEF NewRow, Row, Tx, Status, ActiveStatus
  <2>3. \A e \in DOMAIN row : [row[e] EXCEPT !.desired = "stopped"] \in Row
    BY DEF Row
  <2>4. IsTable(row', Deps, Row)
    BY <1>3, <2>2, <2>3 DEF DeployCommit
  <2>5. IsTable(tx', Deps, Tx) /\ DOMAIN tx' = DOMAIN tx \ {d}
    BY <1>3 DEF DeployCommit, Removed
  <2> QED BY <1>3, <2>1, <2>4, <2>5 DEF DeployCommit
<1>4. CASE DeployAbort(d)
  BY <1>4 DEF DeployAbort, Removed
<1> QED BY <1>1, <1>2, <1>3, <1>4 DEF UploadOpen, TeamOpen

\* So do stop, redeploy and the two halves of a delete.
LEMMA ChangeTypeOK ==
    ASSUME DepTypeOK, NEW d \in Deps,
           \/ Stop(d) \/ DeleteOpen(d) \/ DeleteCommit(d)
           \/ \E old \in Deps : Redeploy(old, d)
    PROVE  DepTypeOK'
<1> USE DEF DepTypeOK, IsTable
<1>1. CASE Stop(d)
  <2>1. [row[d] EXCEPT !.desired = "stopped"] \in Row
    BY <1>1 DEF Stop, Writable, Row
  <2>2. row' = [row EXCEPT ![d] = [row[d] EXCEPT !.desired = "stopped"]]
    BY <1>1 DEF Stop
  <2>3. IsTable(row', Deps, Row) /\ DOMAIN row' = DOMAIN row
    BY <1>1, <2>1, <2>2 DEF Stop, Writable
  <2> QED BY <1>1, <2>3 DEF Stop
<1>2. ASSUME NEW old \in Deps, Redeploy(old, d)
      PROVE  DepTypeOK'
  <2> DEFINE stopped == [row EXCEPT ![old].desired = "stopped"]
  <2>1. PICK rebuilt \in {FALSE, row[old].builtin} :
            /\ blobs' = blobs \cup (IF rebuilt THEN {d} ELSE {})
            /\ row' = Inserted(stopped, d,
                               NewRow(row[old].agent, row[old].builtin,
                                      IF rebuilt THEN d ELSE row[old].blob))
    BY <1>2 DEF Redeploy
  <2> DEFINE new == NewRow(row[old].agent, row[old].builtin,
                           IF rebuilt THEN d ELSE row[old].blob)
  <2>2. old \in DOMAIN row /\ row[old] \in Row
    BY <1>2 DEF Redeploy, Writable
  <2>3. new \in Row
    BY <2>2, TTLAssumption DEF NewRow, Row, Status, ActiveStatus
  <2>4. stopped \in [DOMAIN row -> Row]
    BY <2>2 DEF Row
  <2>5. row' = [x \in DOMAIN row \cup {d} |-> IF x = d THEN new ELSE stopped[x]]
    BY <2>1 DEF Inserted
  <2> HIDE DEF new, stopped
  <2>6. IsTable(row', Deps, Row) /\ DOMAIN row' = DOMAIN row \cup {d}
    BY <2>3, <2>4, <2>5
  <2>7. /\ issued' = issued \cup {d} /\ d \notin issued
        /\ UNCHANGED <<tx, dels>>
    BY <1>2 DEF Redeploy, Fresh
  <2> QED BY <2>1, <2>6, <2>7
<1>3. CASE DeleteOpen(d)
  <2>1. BlobUnused(d) \in BOOLEAN
    BY DEF BlobUnused
  <2> QED BY <1>3, <2>1 DEF DeleteOpen, Inserted, Writable
<1>4. CASE DeleteCommit(d)
  <2>1. \A e \in DOMAIN row : [row[e] EXCEPT !.blob = NoBlob] \in Row
    BY DEF Row
  <2> QED BY <1>4, <2>1 DEF DeleteCommit, Removed
<1> QED BY <1>1, <1>2, <1>3, <1>4

\* So do the worker's calls, none of which adds or removes a row.
LEMMA WorkerTypeOK ==
    ASSUME DepTypeOK, NEW d \in Deps,
           \/ Claim(d) \/ Heartbeat(d)
           \/ \E st \in Status : UpdateStatus(d, st)
    PROVE  DepTypeOK' /\ DOMAIN row' = DOMAIN row
<1> USE DEF DepTypeOK, IsTable
<1>1. ASSUME NEW r \in Row, d \in DOMAIN row, row' = [row EXCEPT ![d] = r],
             UNCHANGED <<blobs, issued, tx, dels>>
      PROVE  DepTypeOK' /\ DOMAIN row' = DOMAIN row
  BY <1>1
<1>3. 0 \in 0 .. TTL + 1
  BY TTLAssumption
<1>4. CASE Claim(d)
  <2> DEFINE r == [row[d] EXCEPT !.claimed = TRUE, !.age = 0,
                     !.status = IF @ = "queued" THEN "building" ELSE @]
  <2>1. d \in DOMAIN row /\ row[d] \in Row
    BY <1>4 DEF Claim
  <2>2. r \in Row
    BY <2>1, <1>3 DEF Row, Status, ActiveStatus
  <2>3. row' = [row EXCEPT ![d] = r] /\ UNCHANGED <<blobs, issued, tx, dels>>
    BY <1>4, <2>1 DEF Claim
  <2> QED BY <1>1, <2>1, <2>2, <2>3
<1>5. ASSUME NEW st \in Status, UpdateStatus(d, st)
      PROVE  DepTypeOK' /\ DOMAIN row' = DOMAIN row
  <2> DEFINE r == [row[d] EXCEPT !.status = st, !.age = 0]
  <2>1. d \in DOMAIN row /\ row[d] \in Row
    BY <1>5 DEF UpdateStatus, Writable
  <2>2. r \in Row
    BY <2>1, <1>3 DEF Row
  <2>3. row' = [row EXCEPT ![d] = r] /\ UNCHANGED <<blobs, issued, tx, dels>>
    BY <1>5, <2>1 DEF UpdateStatus
  <2> QED BY <1>1, <2>1, <2>2, <2>3
<1>6. CASE Heartbeat(d)
  <2> DEFINE r == [row[d] EXCEPT !.age = 0]
  <2>1. d \in DOMAIN row /\ row[d] \in Row
    BY <1>6 DEF Heartbeat, Writable
  <2>2. r \in Row
    BY <2>1, <1>3 DEF Row
  <2>3. row' = [row EXCEPT ![d] = r] /\ UNCHANGED <<blobs, issued, tx, dels>>
    BY <1>6, <2>1 DEF Heartbeat
  <2> QED BY <1>1, <2>1, <2>2, <2>3
<1> QED BY <1>4, <1>5, <1>6

\* So does the passing of time.
LEMMA TickTypeOK ==
    ASSUME DepTypeOK, Tick
    PROVE  DepTypeOK' /\ DOMAIN row' = DOMAIN row
<1> USE DEF DepTypeOK, IsTable
<1>1. \A x \in 0 .. TTL + 1 : x <= TTL => x + 1 \in 0 .. TTL + 1
  BY TTLAssumption
<1>2. ASSUME NEW r \in Row PROVE Aged(r) \in Row
  BY <1>1 DEF Aged, Row
<1>3. row' \in [DOMAIN row -> Row]
  BY <1>2 DEF Tick
<1> QED BY <1>3 DEF Tick

\* What users do keeps the types.
LEMMA UserTypeOK == DepTypeOK /\ UserNext => DepTypeOK'
  BY CreateTypeOK, ChangeTypeOK DEF UserNext

\* An empty table has its types.
LEMMA DepInitTypeOK == DepInit => DepTypeOK
  BY DEF DepInit, DepTypeOK, IsTable

\* The table's type invariant holds whatever the workers send.
THEOREM DepTypeCorrect == DepSpec => []DepTypeOK
<1>1. DepTypeOK /\ [DepNext]_depVars => DepTypeOK'
  <2> SUFFICES ASSUME DepTypeOK, [DepNext]_depVars PROVE DepTypeOK'
    OBVIOUS
  <2>1. CASE UserNext
    BY <2>1, UserTypeOK
  <2>2. CASE Tick
    BY <2>2, TickTypeOK
  <2>3. ASSUME NEW d \in Deps,
               \/ Claim(d) \/ Heartbeat(d)
               \/ \E st \in Reports : UpdateStatus(d, st)
        PROVE  DepTypeOK'
    BY <2>3, WorkerTypeOK, ReportsAssumption
  <2>4. CASE UNCHANGED depVars
    BY <2>4 DEF depVars, DepTypeOK, IsTable
  <2> QED BY <2>1, <2>2, <2>3, <2>4 DEF DepNext
<1> QED BY <1>1, DepInitTypeOK, PTL DEF DepSpec

-----------------------------------------------------------------------------
\* Calls that change neither the bundles nor who uses them.
LEMMA SameBundles ==
    ASSUME BundleInv, DepTypeOK', DOMAIN row' = DOMAIN row,
           \A e \in DOMAIN row : row'[e].blob = row[e].blob,
           UNCHANGED <<blobs, tx, dels>>
    PROVE  BundleInv'
  BY DEF BundleInv, BundlePresent, PurgeSafe, TxFresh, BlobUnused, DepTypeOK

\* The worker's calls and a stop are such.
LEMMA WorkerKeepsBundles ==
    ASSUME BundleInv, NEW d \in Deps,
           \/ Claim(d) \/ Heartbeat(d) \/ Stop(d)
           \/ \E st \in Status : UpdateStatus(d, st)
    PROVE  BundleInv'
<1>1. DepTypeOK' /\ DOMAIN row' = DOMAIN row
  BY WorkerTypeOK, ChangeTypeOK DEF BundleInv, Stop
<1>2. \A e \in DOMAIN row : row[e] \in Row
  BY DEF BundleInv, DepTypeOK, IsTable
<1>3. \A e \in DOMAIN row : row'[e].blob = row[e].blob
  <2>1. CASE Claim(d)
    BY <1>2, <2>1 DEF Claim, Row
  <2>2. CASE Heartbeat(d)
    BY <1>2, <2>2 DEF Heartbeat, Row
  <2>3. CASE Stop(d)
    BY <1>2, <2>3 DEF Stop, Row
  <2>4. CASE \E st \in Status : UpdateStatus(d, st)
    BY <1>2, <2>4 DEF UpdateStatus, Row
  <2> QED BY <2>1, <2>2, <2>3, <2>4
<1>4. UNCHANGED <<blobs, tx, dels>>
  BY DEF Claim, Heartbeat, UpdateStatus, Stop
<1> QED BY <1>1, <1>3, <1>4, SameBundles

\* Opening, reading and rolling back store nothing.
LEMMA OpenKeepsBundles ==
    ASSUME BundleInv, NEW d \in Deps,
           \/ \E a \in Agents : UploadOpen(d, a) \/ TeamOpen(d, a)
           \/ ReadActive(d) \/ DeployAbort(d)
    PROVE  BundleInv'
<1>1. DepTypeOK'
  BY CreateTypeOK DEF BundleInv
<1>2. UNCHANGED <<row, blobs, dels>>
  BY DEF UploadOpen, TeamOpen, Open, ReadActive, DeployAbort
<1>3. TxFresh'
  <2>1. d \notin issued => d \notin blobs
    BY DEF BundleInv, DepTypeOK
  <2> QED BY <1>2, <2>1 DEF BundleInv, TxFresh, UploadOpen, TeamOpen, Open,
             Fresh, Inserted, ReadActive, DeployAbort, Removed
<1> QED BY <1>1, <1>2, <1>3 DEF BundleInv, BundlePresent, PurgeSafe, BlobUnused

\* A new row brings its bundle, and no bundle being purged is that one.
LEMMA DeployKeepsBundles ==
    ASSUME BundleInv, NEW d \in Deps, DeployCommit(d)
    PROVE  BundleInv'
<1>1. DepTypeOK'
  BY CreateTypeOK DEF BundleInv
<1>2. /\ DOMAIN row' = DOMAIN row \cup {d} /\ d \notin DOMAIN row
      /\ d \in DOMAIN tx /\ blobs' = blobs \cup {d}
      /\ UNCHANGED dels
  BY DEF DeployCommit, BundleInv, DepTypeOK
<1>3. \A e \in DOMAIN row : row[e] \in Row /\ row[e].blob # d
  BY <1>2 DEF BundleInv, DepTypeOK, IsTable, BundlePresent, TxFresh
<1>4. row'[d].blob = d /\ \A e \in DOMAIN row : row'[e].blob = row[e].blob
  BY <1>2, <1>3 DEF DeployCommit, NewRow, Row
<1>5. BundlePresent'
  BY <1>2, <1>4 DEF BundleInv, BundlePresent
<1>6. PurgeSafe'
  BY <1>2, <1>3, <1>4 DEF BundleInv, PurgeSafe, BlobUnused, DepTypeOK
<1>7. TxFresh'
  BY <1>2 DEF DeployCommit, BundleInv, TxFresh, Removed
<1> QED BY <1>1, <1>5, <1>6, <1>7 DEF BundleInv

\* A redeploy shares a bundle only with a row that is not being deleted.
LEMMA RedeployKeepsBundles ==
    ASSUME BundleInv, NEW old \in Deps, NEW d \in Deps, Redeploy(old, d)
    PROVE  BundleInv'
<1>1. DepTypeOK'
  BY ChangeTypeOK DEF BundleInv
<1>2. PICK rebuilt \in {FALSE, row[old].builtin} :
          /\ blobs' = blobs \cup (IF rebuilt THEN {d} ELSE {})
          /\ row' = Inserted([row EXCEPT ![old].desired = "stopped"], d,
                             NewRow(row[old].agent, row[old].builtin,
                                    IF rebuilt THEN d ELSE row[old].blob))
  BY DEF Redeploy
<1> DEFINE b == IF rebuilt THEN d ELSE row[old].blob
<1>3. /\ old \in DOMAIN row /\ old \notin DOMAIN dels
      /\ d \notin issued /\ d \notin DOMAIN row /\ d \notin blobs
      /\ UNCHANGED <<tx, dels>>
  BY DEF Redeploy, Writable, Locked, Fresh, BundleInv, DepTypeOK
<1>4. \A e \in DOMAIN row : row[e] \in Row
  BY DEF BundleInv, DepTypeOK, IsTable
<1>5. /\ DOMAIN row' = DOMAIN row \cup {d}
      /\ row'[d].blob = b
      /\ \A e \in DOMAIN row : row'[e].blob = row[e].blob
  BY <1>2, <1>3, <1>4 DEF Inserted, NewRow, Row
<1>6. BundlePresent'
  BY <1>2, <1>3, <1>5 DEF BundleInv, BundlePresent
<1>7. PurgeSafe'
  <2>1. ASSUME NEW e \in DOMAIN dels, dels[e]
        PROVE  row[e].blob # b
    BY <1>3, <2>1 DEF BundleInv, PurgeSafe, BlobUnused, BundlePresent, DepTypeOK
  <2> QED BY <1>3, <1>5, <2>1 DEF BundleInv, PurgeSafe, BlobUnused, DepTypeOK
<1>8. TxFresh'
  BY <1>2, <1>3 DEF BundleInv, TxFresh, DepTypeOK
<1> QED BY <1>1, <1>6, <1>7, <1>8 DEF BundleInv

\* A delete purges nothing another row uses.
LEMMA DeleteKeepsBundles ==
    ASSUME BundleInv, NEW d \in Deps, DeleteOpen(d) \/ DeleteCommit(d)
    PROVE  BundleInv'
<1>1. DepTypeOK'
  BY ChangeTypeOK DEF BundleInv
<1>2. CASE DeleteOpen(d)
  <2>1. UNCHANGED <<row, blobs, tx>> /\ dels' = Inserted(dels, d, BlobUnused(d))
    BY <1>2 DEF DeleteOpen
  <2>2. \A e : BlobUnused(e)' = BlobUnused(e)
    BY <2>1 DEF BlobUnused
  <2>3. /\ DOMAIN dels' = DOMAIN dels \cup {d}
        /\ dels'[d] = BlobUnused(d)
        /\ \A e \in DOMAIN dels \ {d} : dels'[e] = dels[e]
    BY <2>1 DEF Inserted
  <2>4. PurgeSafe'
    BY <2>2, <2>3, Zenon DEF BundleInv, PurgeSafe
  <2> QED BY <1>1, <2>1, <2>4 DEF BundleInv, BundlePresent, TxFresh
<1>3. CASE DeleteCommit(d)
  <2> DEFINE gone == IF dels[d] THEN {row[d].blob} ELSE {}
  <2>1. /\ blobs' = blobs \ gone /\ UNCHANGED tx
        /\ row' = [e \in DOMAIN row \ {d} |->
                      IF row[e].blob \in gone
                      THEN [row[e] EXCEPT !.blob = NoBlob] ELSE row[e]]
        /\ dels' = [e \in DOMAIN dels \ {d} |-> dels[e]]
    BY <1>3 DEF DeleteCommit, Removed
  <2>2. d \in DOMAIN dels /\ DOMAIN dels \subseteq DOMAIN row
    BY <1>3 DEF DeleteCommit, BundleInv, DepTypeOK
  <2>3. \A e \in DOMAIN row \ {d} : row[e].blob \notin gone
    BY <2>2 DEF BundleInv, PurgeSafe, BlobUnused
  <2>4. row' = [e \in DOMAIN row \ {d} |-> row[e]]
    BY <2>1, <2>3
  <2>5. BundlePresent'
    BY <2>1, <2>3, <2>4 DEF BundleInv, BundlePresent
  <2>6. PurgeSafe'
    BY <2>1, <2>2, <2>4 DEF BundleInv, PurgeSafe, BlobUnused
  <2>7. TxFresh'
    BY <2>1 DEF BundleInv, TxFresh
  <2> QED BY <1>1, <2>5, <2>6, <2>7 DEF BundleInv
<1> QED BY <1>2, <1>3

\* Every row has its bundle, in every interleaving of uploads, redeploys and
\* deletes.
THEOREM BundlePresentCorrect == DepSpec => []BundlePresent
<1>1. DepInit => BundleInv
  BY DepInitTypeOK
     DEF DepInit, BundleInv, BundlePresent, PurgeSafe, TxFresh
<1>2. BundleInv /\ [DepNext]_depVars => BundleInv'
  <2> SUFFICES ASSUME BundleInv, [DepNext]_depVars PROVE BundleInv'
    OBVIOUS
  <2>1. CASE UserNext
    BY <2>1, WorkerKeepsBundles, OpenKeepsBundles, DeployKeepsBundles,
       RedeployKeepsBundles, DeleteKeepsBundles DEF UserNext
  <2>2. CASE \E d \in Deps : \/ Claim(d) \/ Heartbeat(d)
                             \/ \E st \in Reports : UpdateStatus(d, st)
    BY <2>2, WorkerKeepsBundles, ReportsAssumption
  <2>3. CASE Tick
    <3>1. DepTypeOK' /\ DOMAIN row' = DOMAIN row
      BY <2>3, TickTypeOK DEF BundleInv
    <3>2. \A e \in DOMAIN row : row[e] \in Row
      BY DEF BundleInv, DepTypeOK, IsTable
    <3>3. \A e \in DOMAIN row : row'[e].blob = row[e].blob
      BY <2>3, <3>2 DEF Tick, Aged, Row
    <3> QED BY <2>3, <3>1, <3>3, SameBundles DEF Tick
  <2>4. CASE UNCHANGED depVars
    BY <2>4 DEF depVars, BundleInv, BundlePresent, PurgeSafe, TxFresh,
       BlobUnused, DepTypeOK, IsTable
  <2> QED BY <2>1, <2>2, <2>3, <2>4 DEF DepNext
<1>3. BundleInv => BundlePresent
  BY DEF BundleInv
<1> QED BY <1>1, <1>2, <1>3, PTL DEF DepSpec

-----------------------------------------------------------------------------
\* No handler makes a retired deployment wanted again.
LEMMA RetiredStep ==
    ASSUME DepTypeOK, DepNext, NEW e \in DOMAIN row
    PROVE  StaysRetired(e)
<1> SUFFICES ASSUME row[e].desired = "stopped", e \in DOMAIN row'
             PROVE  row'[e].desired = "stopped"
  BY DEF StaysRetired
<1>1. \A f \in DOMAIN row : row[f] \in Row
  BY DEF DepTypeOK, IsTable
<1>2. ASSUME UNCHANGED row PROVE row'[e].desired = "stopped"
  BY <1>2
<1>3. ASSUME NEW d \in Deps,
             \/ Claim(d) \/ Heartbeat(d) \/ Stop(d)
             \/ \E st \in Reports : UpdateStatus(d, st)
      PROVE  row'[e].desired = "stopped"
  <2>1. CASE Claim(d)
    BY <1>1, <2>1 DEF Claim, Row
  <2>2. CASE Heartbeat(d)
    BY <1>1, <2>2 DEF Heartbeat, Row
  <2>3. CASE Stop(d)
    BY <1>1, <2>3 DEF Stop, Row
  <2>4. CASE \E st \in Reports : UpdateStatus(d, st)
    BY <1>1, <2>4 DEF UpdateStatus, Row
  <2> QED BY <1>3, <2>1, <2>2, <2>3, <2>4
<1>4. ASSUME NEW d \in Deps, DeployCommit(d)
      PROVE  row'[e].desired = "stopped"
  <2>1. d \notin DOMAIN row
    BY <1>4 DEF DeployCommit, DepTypeOK
  <2> QED BY <1>1, <1>4, <2>1 DEF DeployCommit, Row
<1>5. ASSUME NEW old \in Deps, NEW d \in Deps, Redeploy(old, d)
      PROVE  row'[e].desired = "stopped"
  <2>1. d \notin DOMAIN row
    BY <1>5 DEF Redeploy, Fresh, DepTypeOK
  <2>2. row'[e] = [row EXCEPT ![old].desired = "stopped"][e]
    BY <1>5, <2>1 DEF Redeploy, Inserted
  <2> QED BY <1>1, <2>2 DEF Row
<1>6. ASSUME NEW d \in Deps, DeleteCommit(d)
      PROVE  row'[e].desired = "stopped"
  BY <1>1, <1>6 DEF DeleteCommit, Row
<1>7. CASE Tick
  BY <1>1, <1>7 DEF Tick, Aged, Row
<1> QED BY <1>2, <1>3, <1>4, <1>5, <1>6, <1>7
        DEF DepNext, UserNext, UploadOpen, TeamOpen, Open, ReadActive,
            DeployAbort, DeleteOpen

\* desired_state never goes back from stopped to running, whatever users and
\* workers do.
THEOREM RetiredForGoodCorrect == DepSpec => RetiredForGood
<1>1. DepTypeOK /\ [DepNext]_depVars
          => [\A d \in DOMAIN row : StaysRetired(d)]_depVars
  BY RetiredStep
<1> QED BY <1>1, DepTypeCorrect, PTL DEF DepSpec, RetiredForGood

-----------------------------------------------------------------------------
(* The workers. *)

-----------------------------------------------------------------------------
(* What users and time do to the rows that threads stand for. *)

\* A deployment inserted earlier is not inserted again, and users change
\* neither its claim, its status nor its heartbeat.
LEMMA UserLeavesClaims ==
    ASSUME DepTypeOK, UserNext, NEW e \in issued \ DOMAIN tx
    PROVE  /\ e \in issued' \ DOMAIN tx'
           /\ e \in DOMAIN row' =>
                 /\ e \in DOMAIN row
                 /\ row'[e].claimed = row[e].claimed
                 /\ row'[e].status = row[e].status
                 /\ row'[e].age = row[e].age
<1> DEFINE Same == /\ e \in issued' \ DOMAIN tx'
                   /\ e \in DOMAIN row' =>
                         /\ e \in DOMAIN row
                         /\ row'[e].claimed = row[e].claimed
                         /\ row'[e].status = row[e].status
                         /\ row'[e].age = row[e].age
<1>1. \A f \in DOMAIN row : row[f] \in Row
  BY DEF DepTypeOK, IsTable
<1>2. ASSUME NEW d \in Deps,
             \/ \E a \in Agents : UploadOpen(d, a) \/ TeamOpen(d, a)
             \/ ReadActive(d) \/ DeployAbort(d) \/ DeleteOpen(d)
      PROVE  Same
  BY <1>2 DEF UploadOpen, TeamOpen, Open, Fresh, Inserted, ReadActive,
     DeployAbort, Removed, DeleteOpen
<1>3. ASSUME NEW d \in Deps, DeployCommit(d)
      PROVE  Same
  BY <1>1, <1>3 DEF DeployCommit, Removed, Row
<1>4. ASSUME NEW d \in Deps, Stop(d)
      PROVE  Same
  BY <1>1, <1>4 DEF Stop, Writable, Row
<1>5. ASSUME NEW old \in Deps, NEW d \in Deps, Redeploy(old, d)
      PROVE  Same
  <2>1. e # d /\ issued' = issued \cup {d} /\ tx' = tx
    BY <1>5 DEF Redeploy, Fresh
  <2>2. e \in DOMAIN row' =>
            /\ e \in DOMAIN row
            /\ row'[e] = [row EXCEPT ![old].desired = "stopped"][e]
    BY <1>5, <2>1 DEF Redeploy, Inserted
  <2> QED BY <1>1, <2>1, <2>2 DEF Row
<1>6. ASSUME NEW d \in Deps, DeleteCommit(d)
      PROVE  Same
  BY <1>1, <1>6 DEF DeleteCommit, Row
<1> HIDE DEF Same
<1>7. Same
  BY <1>2, <1>3, <1>4, <1>5, <1>6 DEF UserNext
<1> QED BY <1>7 DEF Same

-----------------------------------------------------------------------------
(* The invariant's parts, thread by thread. *)

ThreadOK(s) ==
    /\ sup[s].d \in issued \ DOMAIN tx
    /\ sup[s].pc = "dead" => sup[s].bot = "none"
    /\ Running(s) =>
          /\ sup[s].t <= TTL
          /\ sup[s].d \in DOMAIN row =>
                /\ row[sup[s].d].claimed
                /\ row[sup[s].d].status \in TerminalStatus
                       => sup[s].pc = "cleanup"
                /\ row[sup[s].d].status = "stopped" => sup[s].bot # "alive"
                /\ row[sup[s].d].status \in ActiveStatus
                       => row[sup[s].d].age <= sup[s].t

\* The invariant, thread by thread.
LEMMA IInvByThread ==
    IInv <=> FleetTypeOK /\ OneHolder /\ \A s \in DOMAIN sup : ThreadOK(s)
  BY DEF IInv, HolderKeepsClaim, HolderWasInserted, ThreadOK

\* A step that starts no thread and brings none back to life leaves each
\* deployment with one holder.
LEMMA NoNewHolder ==
    ASSUME OneHolder, DOMAIN sup' \subseteq DOMAIN sup,
           \A r \in DOMAIN sup' : /\ sup'[r].d = sup[r].d
                                  /\ sup'[r].pc # "dead" => sup[r].pc # "dead"
    PROVE  OneHolder'
  BY DEF OneHolder, Running

\* What users do leaves every thread as it was.
LEMMA UserKeepsIInv ==
    ASSUME IInv, UserNext, UNCHANGED fleetVars
    PROVE  IInv'
<1>1. FleetTypeOK'
  BY UserTypeOK DEF IInv, FleetTypeOK, fleetVars, IsTable
<1>2. OneHolder'
  BY DEF IInv, OneHolder, Running, fleetVars
<1>3. ASSUME NEW s \in DOMAIN sup PROVE ThreadOK(s)'
  <2>1. ThreadOK(s) /\ DepTypeOK
    BY IInvByThread DEF IInv, FleetTypeOK
  <2>2. sup[s].d \in issued \ DOMAIN tx
    BY <2>1 DEF ThreadOK
  <2> QED BY <2>1, <2>2, UserLeavesClaims DEF ThreadOK, Running, fleetVars
<1>4. DOMAIN sup' = DOMAIN sup
  BY DEF fleetVars
<1> QED BY <1>1, <1>2, <1>3, <1>4, IInvByThread DEF IInv, HolderKeepsClaim,
        HolderWasInserted, ThreadOK

-----------------------------------------------------------------------------
(* Steps of threads and workers that leave the table alone. *)

\* A step that leaves the table alone keeps its types.
LEMMA SameTable == DepTypeOK /\ UNCHANGED depVars => DepTypeOK'
  BY DEF depVars, DepTypeOK, IsTable

\* A thread may change its bot and its program counter, or end.
LEMMA LocalKeepsIInv ==
    ASSUME IInv, UNCHANGED depVars, wk' \in [Workers -> WorkerState],
           faults' \in Nat, IsTable(sup', Threads, Thread),
           DOMAIN sup' \subseteq DOMAIN sup,
           \A r \in DOMAIN sup' :
              /\ sup'[r].d = sup[r].d
              /\ sup'[r].pc = "dead" => sup'[r].bot = "none"
              /\ sup'[r].pc # "dead" =>
                    /\ sup[r].pc # "dead"
                    /\ sup[r].pc = "cleanup" =>
                          /\ sup'[r].pc = "cleanup"
                          /\ sup'[r].bot = "alive" => sup[r].bot = "alive"
                    /\ sup'[r].t = sup[r].t
    PROVE  IInv'
<1>1. FleetTypeOK'
  BY SameTable DEF IInv, FleetTypeOK
<1>2. OneHolder'
  BY NoNewHolder DEF IInv
<1>3. ASSUME NEW s \in DOMAIN sup' PROVE ThreadOK(s)'
  <2>1. ThreadOK(s) /\ s \in DOMAIN sup
    BY IInvByThread
  <2> QED BY <2>1 DEF ThreadOK, Running, depVars, TerminalStatus
<1> QED BY <1>1, <1>2, <1>3 DEF IInv, HolderKeepsClaim, HolderWasInserted,
        ThreadOK

\* Build, spawn, failures, the bot's end, the clean-up.
LEMMA ThreadLocalKeepsIInv ==
    ASSUME IInv, NEW s \in Threads,
           \/ Build(s) \/ SetupFails(s) \/ Spawn(s) \/ SpawnBreaks(s)
           \/ BotExits(s) \/ Terminate(s) \/ Cleanup(s)
    PROVE  IInv'
<1>1. UNCHANGED <<depVars, wk, faults>>
  BY DEF Build, SetupFails, Spawn, SpawnBreaks, BotExits, Terminate, Cleanup
<1>2. /\ wk \in [Workers -> WorkerState] /\ faults \in Nat
      /\ IsTable(sup, Threads, Thread)
      /\ \A r \in DOMAIN sup : sup[r] \in Thread /\ ThreadOK(r)
  BY IInvByThread DEF FleetTypeOK, IsTable
<1>3. ASSUME NEW r \in Thread, s \in DOMAIN sup, sup' = [sup EXCEPT ![s] = r],
             r.d = sup[s].d, r.pc = "dead" => r.bot = "none",
             r.pc # "dead" => /\ sup[s].pc # "dead"
                              /\ sup[s].pc = "cleanup" =>
                                    /\ r.pc = "cleanup"
                                    /\ r.bot = "alive" => sup[s].bot = "alive"
                              /\ r.t = sup[s].t
      PROVE  IInv'
  <2>1. IsTable(sup', Threads, Thread) /\ DOMAIN sup' = DOMAIN sup
    BY <1>2, <1>3 DEF IsTable
  <2>2. \A x \in DOMAIN sup' : sup'[x] = IF x = s THEN r ELSE sup[x]
    BY <1>3
  <2> QED BY <1>1, <1>2, <1>3, <2>1, <2>2, LocalKeepsIInv DEF ThreadOK
<1>4. CASE Build(s) \/ SetupFails(s)
  <2>1. PICK pc \in {"spawn", "failing"} : sup' = [sup EXCEPT ![s].pc = pc]
    BY <1>4 DEF Build, SetupFails, Goto
  <2> DEFINE r == [sup[s] EXCEPT !.pc = pc]
  <2>2. s \in DOMAIN sup /\ sup[s].pc \in {"build", "spawn"}
    BY <1>4 DEF Build, SetupFails, At
  <2>3. r \in Thread /\ r.d = sup[s].d /\ r.pc = pc /\ r.t = sup[s].t
    BY <1>2, <2>2 DEF Thread, Pc
  <2>4. sup' = [sup EXCEPT ![s] = r]
    BY <2>1, <2>2
  <2> QED BY <1>3, <2>2, <2>3, <2>4
<1>5. CASE Spawn(s) \/ SpawnBreaks(s)
  <2>1. PICK pc \in {"spawned", "failing"} :
            sup' = [sup EXCEPT ![s].pc = pc, ![s].bot = "alive"]
    BY <1>5 DEF Spawn, SpawnBreaks
  <2> DEFINE r == [sup[s] EXCEPT !.pc = pc, !.bot = "alive"]
  <2>2. s \in DOMAIN sup /\ sup[s].pc = "spawn"
    BY <1>5 DEF Spawn, SpawnBreaks, At
  <2>3. r \in Thread /\ r.d = sup[s].d /\ r.pc = pc /\ r.t = sup[s].t
    BY <1>2, <2>2 DEF Thread, Pc
  <2>4. sup' = [sup EXCEPT ![s] = r]
    BY <2>1, <2>2
  <2> QED BY <1>3, <2>2, <2>3, <2>4
<1>6. CASE BotExits(s) \/ Terminate(s)
  <2>1. PICK rc \in {"clean", "crash"} : sup' = [sup EXCEPT ![s].bot = rc]
    BY <1>6 DEF BotExits, Terminate
  <2> DEFINE r == [sup[s] EXCEPT !.bot = rc]
  <2>2. s \in DOMAIN sup /\ sup[s].bot = "alive"
    BY <1>6 DEF BotExits, Terminate, BotAlive
  <2>3. /\ r \in Thread /\ r.d = sup[s].d /\ r.pc = sup[s].pc
        /\ r.t = sup[s].t /\ sup[s].pc # "dead"
    BY <1>2, <2>2 DEF Thread, Pc, ThreadOK
  <2>4. sup' = [sup EXCEPT ![s] = r]
    BY <2>1, <2>2
  <2> QED BY <1>3, <2>2, <2>3, <2>4
<1>7. CASE Cleanup(s)
  <2>1. CASE sup[s].tracked
    <3> DEFINE r == [sup[s] EXCEPT !.pc = "dead", !.bot = "none",
                       !.stop = FALSE, !.blob = NoBlob, !.t = 0]
    <3>1. s \in DOMAIN sup
      BY <1>7 DEF Cleanup, At
    <3>2. r \in Thread /\ r.d = sup[s].d /\ r.pc = "dead" /\ r.bot = "none"
      BY <1>2, <3>1 DEF Thread, Pc
    <3>3. sup' = [sup EXCEPT ![s] = r]
      BY <1>7, <2>1, <3>1 DEF Cleanup
    <3> QED BY <1>3, <3>1, <3>2, <3>3
  <2>2. CASE ~sup[s].tracked
    <3>1. sup' = [x \in DOMAIN sup \ {s} |-> sup[x]]
      BY <1>7, <2>2 DEF Cleanup, Removed
    <3>2. IsTable(sup', Threads, Thread)
      BY <1>2, <3>1 DEF IsTable
    <3> QED BY <1>1, <1>2, <3>1, <3>2, LocalKeepsIInv DEF ThreadOK
  <2> QED BY <2>1, <2>2
<1> QED BY <1>4, <1>5, <1>6, <1>7

\* Reaping, and everything that happens to a whole worker.
LEMMA WorkerLocalKeepsIInv ==
    ASSUME IInv, NEW w \in Workers,
           \/ LoopIdle(w) \/ Shutdown(w) \/ CloseClient(w)
           \/ Exit(w) \/ Kill(w) \/ Restart(w)
    PROVE  IInv'
<1>1. UNCHANGED depVars
  BY DEF LoopIdle, Shutdown, CloseClient, Exit, Kill, Restart, Gone
<1>2. /\ wk \in [Workers -> WorkerState] /\ faults \in Nat
      /\ IsTable(sup, Threads, Thread)
      /\ \A r \in DOMAIN sup : ThreadOK(r)
  BY IInvByThread DEF FleetTypeOK
<1>3. PICK K \in SUBSET DOMAIN sup : sup' = Removed(sup, K)
  <2>1. Reaped(w) \subseteq DOMAIN sup
    BY DEF Reaped, Active
  <2>2. CASE LoopIdle(w)
    BY <2>1, <2>2 DEF LoopIdle
  <2>3. CASE Exit(w) \/ Kill(w)
    BY <2>3 DEF Exit, Kill, Gone
  <2>4. CASE Shutdown(w) \/ CloseClient(w) \/ Restart(w)
    <3>1. sup' = Removed(sup, {})
      BY <1>2, <2>4 DEF Shutdown, CloseClient, Restart, Removed, IsTable
    <3> QED BY <3>1
  <2> QED BY <2>2, <2>3, <2>4
<1>4. wk' \in [Workers -> WorkerState] /\ faults' \in Nat
  BY <1>2 DEF LoopIdle, Shutdown, CloseClient, Exit, Kill, Restart, Gone,
     WorkerState
<1>5. IsTable(sup', Threads, Thread)
  BY <1>2, <1>3 DEF Removed, IsTable
<1>6. /\ DOMAIN sup' \subseteq DOMAIN sup
      /\ \A r \in DOMAIN sup' : sup'[r] = sup[r]
  BY <1>3 DEF Removed
<1> QED BY <1>1, <1>2, <1>4, <1>5, <1>6, LocalKeepsIInv DEF ThreadOK

-----------------------------------------------------------------------------
(* Steps of a thread that write its row. *)

\* Writing the row of a deployment that only thread s stands for, and thread
\* s itself, leaves every other thread as it was.
LEMMA WriteKeepsIInv ==
    ASSUME IInv, NEW s \in DOMAIN sup, Running(s),
           NEW c \in Row, NEW r \in Thread,
           sup[s].d \in DOMAIN row, DepTypeOK',
           row' = [row EXCEPT ![sup[s].d] = c],
           sup' = [sup EXCEPT ![s] = r],
           UNCHANGED <<issued, tx, wk, faults>>,
           r.d = sup[s].d, r.pc # "dead", r.t <= TTL, c.claimed,
           c.status \in TerminalStatus => r.pc = "cleanup",
           c.status = "stopped" => r.bot # "alive",
           c.status \in ActiveStatus => c.age <= r.t
    PROVE  IInv'
<1>1. FleetTypeOK'
  BY DEF IInv, FleetTypeOK, IsTable
<1>2. DOMAIN sup' = DOMAIN sup /\ DOMAIN row' = DOMAIN row
      /\ \A x \in DOMAIN sup : sup'[x] = IF x = s THEN r ELSE sup[x]
  OBVIOUS
<1>3. OneHolder'
  BY <1>2, NoNewHolder DEF IInv, Running
<1>4. ASSUME NEW x \in DOMAIN sup PROVE ThreadOK(x)'
  <2>1. CASE x = s
    <3>1. row'[sup[s].d] = c /\ sup'[s] = r
      OBVIOUS
    <3>2. sup[s].d \in issued \ DOMAIN tx
      BY IInvByThread DEF ThreadOK
    <3> QED BY <2>1, <3>1, <3>2 DEF ThreadOK, Running
  <2>2. CASE x # s
    <3>1. ThreadOK(x) /\ sup'[x] = sup[x]
      BY <1>2, <2>2, IInvByThread
    <3>2. Running(x) => sup[x].d # sup[s].d
      BY <2>2 DEF IInv, OneHolder
    <3>3. Running(x) /\ sup[x].d \in DOMAIN row' =>
              sup[x].d \in DOMAIN row /\ row'[sup[x].d] = row[sup[x].d]
      BY <3>2
    <3> QED BY <1>2, <3>1, <3>3 DEF ThreadOK, Running
  <2> QED BY <2>1, <2>2
<1> QED BY <1>1, <1>2, <1>3, <1>4 DEF IInv, HolderKeepsClaim,
        HolderWasInserted, ThreadOK

\* A report that ends nothing but the thread: a terminal status is only ever
\* sent on the way to the clean-up.
LEMMA ReportKeepsIInv ==
    ASSUME IInv, NEW s \in DOMAIN sup, NEW st \in Status, NEW pc \in Pc,
           sup[s].pc \notin {"dead", "cleanup"}, pc # "dead",
           st \in TerminalStatus => pc = "cleanup",
           st = "stopped" => sup[s].bot # "alive",
           Report(s, st, pc)
    PROVE  IInv'
<1>1. /\ sup[s] \in Thread /\ ThreadOK(s) /\ Running(s) /\ sup[s].d \in Deps
      /\ wk \in [Workers -> WorkerState] /\ faults \in Nat
      /\ IsTable(sup, Threads, Thread) /\ DepTypeOK
  BY IInvByThread DEF FleetTypeOK, IsTable, Running, Thread
<1>2. CASE UpdateStatus(sup[s].d, st)
           /\ sup' = [sup EXCEPT ![s].pc = pc, ![s].t = 0]
           /\ UNCHANGED <<wk, faults>>
  <2> DEFINE c == [row[sup[s].d] EXCEPT !.status = st, !.age = 0]
             r == [sup[s] EXCEPT !.pc = pc, !.t = 0]
  <2>1. DepTypeOK' /\ sup[s].d \in DOMAIN row /\ row[sup[s].d] \in Row
    BY <1>1, <1>2, WorkerTypeOK DEF UpdateStatus, Writable, DepTypeOK, IsTable
  <2>2. /\ c \in Row /\ c.status = st /\ c.age = 0
        /\ c.claimed = row[sup[s].d].claimed
    <3>1. 0 \in 0 .. TTL + 1
      BY TTLAssumption
    <3> QED BY <2>1, <3>1 DEF Row
  <2>3. /\ r \in Thread /\ r.d = sup[s].d /\ r.pc = pc /\ r.bot = sup[s].bot
        /\ r.t = 0 /\ r.t <= TTL
    <3>1. /\ r \in Thread /\ r.d = sup[s].d /\ r.pc = pc
          /\ r.bot = sup[s].bot /\ r.t = 0
      BY <1>1 DEF Thread
    <3> HIDE DEF r
    <3> QED BY <3>1, TTLAssumption
  <2>4. row' = [row EXCEPT ![sup[s].d] = c] /\ sup' = [sup EXCEPT ![s] = r]
        /\ UNCHANGED <<issued, tx, wk, faults>>
    BY <1>2, <2>1 DEF UpdateStatus
  <2>5. c.claimed /\ c.age <= r.t
    BY <1>1, <2>1, <2>2, <2>3 DEF ThreadOK
  <2> HIDE DEF c, r
  <2> QED BY <1>1, <2>1, <2>2, <2>3, <2>4, <2>5, WriteKeepsIInv
<1>3. CASE Goto(s, pc) /\ UNCHANGED <<depVars, wk, faults>>
  <2> DEFINE r == [sup[s] EXCEPT !.pc = pc]
  <2>1. /\ r \in Thread /\ r.d = sup[s].d /\ r.pc = pc
        /\ r.bot = sup[s].bot /\ r.t = sup[s].t
    BY <1>1 DEF Thread
  <2>2. sup' = [sup EXCEPT ![s] = r]
    BY <1>3 DEF Goto
  <2>3. /\ IsTable(sup', Threads, Thread) /\ DOMAIN sup' = DOMAIN sup
        /\ \A x \in DOMAIN sup : sup'[x] = IF x = s THEN r ELSE sup[x]
    BY <1>1, <2>1, <2>2 DEF IsTable
  <2>4. \A x \in DOMAIN sup : ThreadOK(x)
    BY IInvByThread
  <2> HIDE DEF r
  <2> QED BY <1>1, <1>3, <2>1, <2>3, <2>4, LocalKeepsIInv DEF ThreadOK
<1> QED BY <1>2, <1>3 DEF Report

\* A thread's reports keep it.
LEMMA ReportsKeepIInv ==
    ASSUME IInv, NEW s \in Threads,
           \/ ReportBuilding(s) \/ ReportRunning(s)
           \/ ReportSetupFailure(s) \/ ReportExit(s)
    PROVE  IInv'
<1> USE DEF At, Status, ActiveStatus, TerminalStatus, Pc, BotAlive
<1>1. CASE ReportBuilding(s)
  BY <1>1, ReportKeepsIInv DEF ReportBuilding
<1>2. CASE ReportRunning(s)
  BY <1>2, ReportKeepsIInv DEF ReportRunning
<1>3. CASE ReportSetupFailure(s)
  BY <1>3, ReportKeepsIInv DEF ReportSetupFailure
<1>4. CASE ReportExit(s)
  BY <1>4, ReportKeepsIInv DEF ReportExit
<1> QED BY <1>1, <1>2, <1>3, <1>4

\* Heartbeats, answered, half lost or refused.
LEMMA HeartbeatKeepsIInv ==
    ASSUME IInv, NEW s \in Threads,
           HeartbeatOk(s) \/ HeartbeatAnswerLost(s) \/ HeartbeatRefused(s)
    PROVE  IInv'
<1>1. /\ s \in DOMAIN sup /\ sup[s].pc # "dead"
      /\ sup[s] \in Thread /\ sup[s].d \in Deps /\ sup[s].t \in Nat
  BY DEF HeartbeatOk, HeartbeatAnswerLost, HeartbeatRefused, Heartbeating,
     IInv, FleetTypeOK, IsTable, Thread
<1>2. /\ ThreadOK(s) /\ Running(s)
      /\ wk \in [Workers -> WorkerState] /\ faults \in Nat
      /\ IsTable(sup, Threads, Thread) /\ DepTypeOK
  BY <1>1, IInvByThread DEF FleetTypeOK, Running
<1>3. CASE HeartbeatRefused(s)
  <2> DEFINE r == [sup[s] EXCEPT !.t = 0]
  <2>1. r \in Thread /\ r.d = sup[s].d /\ r.pc = sup[s].pc /\ r.t = 0
        /\ r.bot = sup[s].bot
    BY <1>1 DEF Thread
  <2>2. sup' = [sup EXCEPT ![s] = r] /\ UNCHANGED <<depVars, wk, faults>>
    BY <1>1, <1>3 DEF HeartbeatRefused
  <2>3. \/ sup[s].d \notin DOMAIN row
        \/ sup[s].d \in DOMAIN row /\ row[sup[s].d].status \in TerminalStatus
    BY <1>3 DEF HeartbeatRefused, Writable
  <2>4. FleetTypeOK'
    BY <1>2, <2>1, <2>2, SameTable DEF FleetTypeOK, IsTable
  <2>5. DOMAIN sup' = DOMAIN sup
        /\ \A x \in DOMAIN sup : sup'[x] = IF x = s THEN r ELSE sup[x]
    BY <2>2
  <2>6. OneHolder'
    BY <2>1, <2>5, NoNewHolder DEF IInv
  <2>7. ASSUME NEW x \in DOMAIN sup PROVE ThreadOK(x)'
    <3>1. ThreadOK(x)
      BY IInvByThread
    <3> QED BY <2>1, <2>2, <2>3, <2>5, <3>1, TTLAssumption
            DEF ThreadOK, Running, depVars, TerminalStatus, ActiveStatus
  <2> QED BY <2>4, <2>5, <2>6, <2>7 DEF IInv, HolderKeepsClaim,
          HolderWasInserted, ThreadOK
<1>4. CASE HeartbeatOk(s) \/ HeartbeatAnswerLost(s)
  <2> DEFINE c == [row[sup[s].d] EXCEPT !.age = 0]
             r == IF HeartbeatOk(s)
                  THEN [sup[s] EXCEPT !.t = 0,
                          !.stop = @ \/ row[sup[s].d].desired = "stopped"]
                  ELSE sup[s]
  <2>1. Heartbeat(sup[s].d) /\ UNCHANGED <<wk, faults>>
    BY <1>4 DEF HeartbeatOk, HeartbeatAnswerLost
  <2>2. DepTypeOK' /\ sup[s].d \in DOMAIN row /\ row[sup[s].d] \in Row
        /\ row[sup[s].d].status \notin TerminalStatus
    BY <1>1, <1>2, <2>1, WorkerTypeOK DEF Heartbeat, Writable, DepTypeOK, IsTable
  <2>3. /\ c \in Row /\ c.status = row[sup[s].d].status /\ c.age = 0
        /\ c.claimed = row[sup[s].d].claimed
    <3>1. 0 \in 0 .. TTL + 1
      BY TTLAssumption
    <3> QED BY <2>2, <3>1 DEF Row
  <2>4. /\ r \in Thread /\ r.d = sup[s].d /\ r.pc = sup[s].pc
        /\ r.bot = sup[s].bot /\ r.t \in {0, sup[s].t}
    BY <1>1 DEF Thread
  <2>5. sup' = [sup EXCEPT ![s] = r]
    <3>1. CASE HeartbeatOk(s)
      BY <1>1, <3>1 DEF HeartbeatOk
    <3>2. CASE ~HeartbeatOk(s)
      BY <1>1, <1>2, <1>4, <3>2 DEF HeartbeatAnswerLost, IsTable
    <3> QED BY <3>1, <3>2
  <2>6. row' = [row EXCEPT ![sup[s].d] = c] /\ UNCHANGED <<issued, tx>>
    BY <2>1, <2>2 DEF Heartbeat
  <2>7. c.claimed /\ r.t <= TTL /\ c.age <= r.t
    BY <1>1, <1>2, <2>2, <2>3, <2>4, TTLAssumption DEF ThreadOK
  <2>8. c.status \notin TerminalStatus /\ c.status # "stopped"
    BY <2>2, <2>3 DEF TerminalStatus
  <2> HIDE DEF c, r
  <2> QED BY <1>1, <1>2, <2>1, <2>2, <2>3, <2>4, <2>5, <2>6, <2>7,
          <2>8, WriteKeepsIInv
<1> QED BY <1>3, <1>4

-----------------------------------------------------------------------------
(* Claims. *)

\* No thread stands for a deployment that can be claimed: its row would be
\* younger than the TTL.
LEMMA ClaimFindsNoHolder ==
    ASSUME IInv, NEW d \in Deps, Claim(d),
           NEW s \in DOMAIN sup, Running(s)
    PROVE  sup[s].d # d
<1> SUFFICES ASSUME sup[s].d = d PROVE FALSE
  OBVIOUS
<1>1. /\ d \in DOMAIN row /\ row[d].status \in ActiveStatus
      /\ row[d].claimed => row[d].age > TTL
  BY DEF Claim, Claimable, Wanted
<1>2. ThreadOK(s) /\ sup[s].t \in Nat /\ row[d].age \in 0 .. TTL + 1
  BY <1>1, IInvByThread
     DEF IInv, FleetTypeOK, DepTypeOK, IsTable, Thread, Row
<1>3. row[d].age <= sup[s].t /\ sup[s].t <= TTL /\ row[d].claimed
  BY <1>1, <1>2 DEF ThreadOK
<1> QED BY <1>1, <1>2, <1>3, TTLAssumption

\* A claim touches one row, and leaves it active, claimed and fresh.
LEMMA ClaimedRow ==
    ASSUME DepTypeOK, NEW d \in Deps, Claim(d)
    PROVE  /\ DepTypeOK' /\ d \in DOMAIN row /\ DOMAIN row' = DOMAIN row
           /\ UNCHANGED <<issued, tx>>
           /\ row'[d].claimed /\ row'[d].age = 0
           /\ row'[d].status \in ActiveStatus
           /\ \A e \in DOMAIN row \ {d} : row'[e] = row[e]
<1>1. d \in DOMAIN row /\ row[d] \in Row /\ row[d].status \in ActiveStatus
  BY DEF Claim, Claimable, Wanted, DepTypeOK, IsTable
<1>2. DepTypeOK' /\ DOMAIN row' = DOMAIN row /\ UNCHANGED <<issued, tx>>
  BY WorkerTypeOK DEF Claim
<1>3. row'[d] = [row[d] EXCEPT !.claimed = TRUE, !.age = 0,
                   !.status = IF @ = "queued" THEN "building" ELSE @]
  BY <1>1 DEF Claim
<1>4. row'[d].claimed /\ row'[d].age = 0 /\ row'[d].status \in ActiveStatus
  BY <1>1, <1>3 DEF Row, ActiveStatus
<1> QED BY <1>1, <1>2, <1>4 DEF Claim

\* Threads of other deployments do not notice a claim.
LEMMA ClaimKeepsThread ==
    ASSUME IInv, NEW d \in Deps, Claim(d), NEW s \in DOMAIN sup,
           s \in DOMAIN sup', sup'[s].d = sup[s].d, sup'[s].pc = sup[s].pc,
           sup'[s].bot = sup[s].bot, sup'[s].t = sup[s].t
    PROVE  ThreadOK(s)'
<1>1. ThreadOK(s) /\ (Running(s) => sup[s].d # d)
  BY IInvByThread, ClaimFindsNoHolder
<1>2. DepTypeOK
  BY DEF IInv, FleetTypeOK
<1> QED BY <1>1, <1>2, ClaimedRow DEF ThreadOK, Running

\* A claim, answered or not, gives a deployment its first holder or none.
LEMMA ClaimKeepsIInv ==
    ASSUME IInv, NEW w \in Workers, NEW d \in Deps,
           ClaimLost(w, d) \/ \E s \in Threads : ClaimStart(w, d, s)
    PROVE  IInv'
<1>1. /\ DepTypeOK /\ wk \in [Workers -> WorkerState] /\ faults \in Nat
      /\ IsTable(sup, Threads, Thread)
  BY DEF IInv, FleetTypeOK
<1>2. Claim(d)
  BY DEF ClaimLost, ClaimStart
<1>3. /\ DepTypeOK' /\ d \in DOMAIN row /\ row[d] \in Row
      /\ d \in issued' \ DOMAIN tx'
  BY <1>1, <1>2, ClaimedRow DEF DepTypeOK, IsTable
<1>4. CASE ClaimLost(w, d)
  <2>1. sup' = Removed(sup, Reaped(w)) /\ wk' = wk /\ faults' = faults + 1
    BY <1>4 DEF ClaimLost
  <2>2. /\ IsTable(sup', Threads, Thread) /\ DOMAIN sup' \subseteq DOMAIN sup
        /\ \A x \in DOMAIN sup' : sup'[x] = sup[x]
    BY <1>1, <2>1 DEF Removed, IsTable
  <2>3. FleetTypeOK'
    BY <1>1, <1>3, <2>1, <2>2 DEF FleetTypeOK
  <2>4. OneHolder'
    BY <2>2, NoNewHolder DEF IInv
  <2>5. \A x \in DOMAIN sup' : ThreadOK(x)'
    BY <1>2, <2>2, ClaimKeepsThread
  <2> QED BY <2>3, <2>4, <2>5 DEF IInv, HolderKeepsClaim,
          HolderWasInserted, ThreadOK
<1>5. ASSUME NEW s \in Threads, ClaimStart(w, d, s)
      PROVE  IInv'
  <2> DEFINE new == [w |-> w, d |-> d, pc |-> "start", blob |-> row[d].blob,
                     bot |-> "none", stop |-> FALSE, tracked |-> TRUE,
                     t |-> 0]
             old(x) == IF sup[x].w = w /\ sup[x].d = d
                       THEN [sup[x] EXCEPT !.tracked = FALSE] ELSE sup[x]
  <2>1. /\ s \notin DOMAIN sup /\ UNCHANGED <<wk, faults>>
        /\ sup' = [x \in (DOMAIN sup \ Reaped(w)) \cup {s} |->
                      IF x = s THEN new ELSE old(x)]
    BY <1>5 DEF ClaimStart
  <2>2. new \in Thread
    BY <1>3 DEF Thread, Pc, Row
  <2>3. \A x \in DOMAIN sup :
            /\ old(x) \in Thread /\ old(x).d = sup[x].d
            /\ old(x).pc = sup[x].pc /\ old(x).t = sup[x].t
            /\ old(x).bot = sup[x].bot
    BY <1>1 DEF IsTable, Thread
  <2>4. new.d = d /\ new.pc = "start" /\ new.t = 0
    OBVIOUS
  <2> HIDE DEF new, old
  <2>5. FleetTypeOK'
    BY <1>1, <1>3, <2>1, <2>2, <2>3 DEF FleetTypeOK, IsTable
  <2>6. ASSUME NEW x \in DOMAIN sup', x # s
        PROVE  x \in DOMAIN sup /\ sup'[x] = old(x)
    BY <2>1, <2>6
  <2>7. sup'[s] = new
    BY <2>1
  <2>8. OneHolder'
    <3>1. ASSUME NEW x \in DOMAIN sup', x # s, sup'[x].pc # "dead"
          PROVE  sup'[x].d # d
      BY <1>2, <2>3, <2>6, <3>1, ClaimFindsNoHolder DEF Running
    <3>2. ASSUME NEW x \in DOMAIN sup', NEW y \in DOMAIN sup', x # s, y # s,
                 sup'[x].pc # "dead", sup'[y].pc # "dead",
                 sup'[x].d = sup'[y].d
          PROVE  x = y
      BY <2>3, <2>6, <3>2 DEF IInv, OneHolder, Running
    <3> QED BY <2>4, <2>7, <3>1, <3>2 DEF OneHolder, Running
  <2>9. ASSUME NEW x \in DOMAIN sup' PROVE ThreadOK(x)'
    <3>1. CASE x = s
      <4>1. row'[d].claimed /\ row'[d].status \in ActiveStatus
            /\ row'[d].age = 0
        BY <1>1, <1>2, ClaimedRow
      <4> QED BY <1>3, <2>4, <2>7, <3>1, <4>1, TTLAssumption
              DEF ThreadOK, ActiveStatus, TerminalStatus
    <3>2. CASE x # s
      BY <1>2, <2>3, <2>6, <3>2, ClaimKeepsThread
    <3> QED BY <3>1, <3>2
  <2> QED BY <2>5, <2>8, <2>9 DEF IInv, HolderKeepsClaim,
          HolderWasInserted, ThreadOK
<1> QED BY <1>4, <1>5

-----------------------------------------------------------------------------
\* Time waits for a thread whose call is due, so a row never gets older than
\* its thread's last call.
LEMMA TimeKeepsIInv ==
    ASSUME IInv, Timely, TimePasses
    PROVE  IInv'
<1>1. /\ DepTypeOK /\ wk \in [Workers -> WorkerState] /\ faults \in Nat
      /\ IsTable(sup, Threads, Thread) /\ Tick
  BY DEF IInv, FleetTypeOK, TimePasses
<1> DEFINE new(x) == IF Running(x) THEN [sup[x] EXCEPT !.t = @ + 1] ELSE sup[x]
<1>2. sup' = [x \in DOMAIN sup |-> new(x)] /\ UNCHANGED <<wk, faults>>
  BY DEF TimePasses
<1>3. ASSUME NEW x \in DOMAIN sup
      PROVE  /\ new(x) \in Thread /\ new(x).d = sup[x].d
             /\ new(x).pc = sup[x].pc /\ new(x).bot = sup[x].bot
             /\ Running(x) => new(x).t = sup[x].t + 1
  BY <1>1 DEF IsTable, Thread
<1> HIDE DEF new
<1>4. /\ DOMAIN sup' = DOMAIN sup
      /\ \A x \in DOMAIN sup : sup'[x] = new(x)
  BY <1>2
<1>5. DepTypeOK' /\ DOMAIN row' = DOMAIN row
  BY <1>1, TickTypeOK
<1>6. FleetTypeOK'
  BY <1>1, <1>2, <1>3, <1>5 DEF FleetTypeOK, IsTable
<1>7. OneHolder'
  BY <1>3, <1>4, NoNewHolder DEF IInv
<1>8. ASSUME NEW x \in DOMAIN sup PROVE ThreadOK(x)'
  <2>1. ThreadOK(x) /\ sup[x].t \in Nat
    BY <1>1, IInvByThread DEF IsTable, Thread
  <2>2. Running(x) => sup[x].t + 1 <= TTL
    BY <2>1, TTLAssumption, LimitsAssumption DEF TimePasses, Limit, Timely
  <2>3. ASSUME NEW e \in DOMAIN row
        PROVE  /\ row[e].age \in Nat
               /\ row'[e].claimed = row[e].claimed
               /\ row'[e].status = row[e].status
               /\ row'[e].age \in {row[e].age, row[e].age + 1}
    <3>1. row[e] \in Row /\ row'[e] = Aged(row[e])
      BY <1>1 DEF Tick, DepTypeOK, IsTable
    <3>2. row[e].age \in Nat
      BY <3>1 DEF Row
    <3> QED BY <3>1, <3>2 DEF Aged, Row
  <2>4. UNCHANGED <<issued, tx>>
    BY <1>1 DEF Tick
  <2>5. ASSUME Running(x), sup[x].d \in DOMAIN row,
               row[sup[x].d].age <= sup[x].t
        PROVE  row'[sup[x].d].age <= sup[x].t + 1
    BY <2>1, <2>3, <2>5
  <2> QED BY <1>3, <1>4, <1>5, <2>1, <2>2, <2>3, <2>4, <2>5
          DEF ThreadOK, Running
<1> QED BY <1>4, <1>6, <1>7, <1>8 DEF IInv, HolderKeepsClaim,
        HolderWasInserted, ThreadOK

-----------------------------------------------------------------------------
(* The theorems. *)

\* It holds when no worker runs.
LEMMA InitIInv == Init => IInv
<1> SUFFICES ASSUME Init PROVE IInv
  OBVIOUS
<1>1. DepTypeOK
  BY DepInitTypeOK DEF Init
<1>2. DOMAIN sup = {} /\ IsTable(sup, Threads, Thread)
  BY DEF Init, IsTable
<1>3. wk \in [Workers -> WorkerState] /\ faults \in Nat
  BY DEF Init, WorkerState
<1> QED BY <1>1, <1>2, <1>3 DEF IInv, FleetTypeOK, OneHolder,
        HolderKeepsClaim, HolderWasInserted

\* Every step keeps it.
LEMMA NextIInv == ASSUME IInv, [Next]_vars, Timely PROVE IInv'
<1>1. CASE UserNext /\ UNCHANGED fleetVars
  BY <1>1, UserKeepsIInv
<1>2. ASSUME NEW s \in Threads, ThreadNext(s) PROVE IInv'
  BY <1>2, ThreadLocalKeepsIInv, ReportsKeepIInv, HeartbeatKeepsIInv
     DEF ThreadNext
<1>3. ASSUME NEW w \in Workers, WorkerNext(w) PROVE IInv'
  BY <1>3, ClaimKeepsIInv, WorkerLocalKeepsIInv DEF WorkerNext
<1>4. CASE TimePasses
  BY <1>4, TimeKeepsIInv
<1>5. CASE UNCHANGED vars
  <2>1. UNCHANGED depVars /\ UNCHANGED <<wk, sup, faults>>
    BY <1>5 DEF vars, depVars
  <2>2. /\ wk \in [Workers -> WorkerState] /\ faults \in Nat
        /\ IsTable(sup, Threads, Thread)
        /\ \A r \in DOMAIN sup : ThreadOK(r)
    BY IInvByThread DEF FleetTypeOK
  <2>3. IsTable(sup', Threads, Thread)
    BY <2>1, <2>2 DEF IsTable
  <2> QED BY <2>1, <2>2, <2>3, LocalKeepsIInv DEF ThreadOK
<1> QED BY <1>1, <1>2, <1>3, <1>4, <1>5 DEF Next

\* The inductive invariant, and with it the type invariant of the whole.
THEOREM FleetInvariant == ASSUME Timely PROVE Spec => []IInv
<1>1. IInv /\ [Next]_vars => IInv'
  BY NextIInv
<1> QED BY <1>1, InitIInv, PTL DEF Spec

\* A deployment's bot is alive at most once, provided builds, heartbeats and
\* shutdowns are answered or over within the claim TTL.
THEOREM AtMostOneBotCorrect == ASSUME Timely PROVE Spec => []AtMostOneBot
<1>1. IInv => AtMostOneBot
  BY DEF IInv, OneHolder, HolderWasInserted, AtMostOneBot, BotAlive, Running
<1> QED BY <1>1, FleetInvariant, PTL

\* A row that says the bot has ended is right, provided as before that no
\* supervisor is unanswered for longer than the TTL: one that was could write
\* "stopped" over the row of the next one's living bot.
THEOREM EndedMeansDeadCorrect == ASSUME Timely PROVE Spec => []EndedMeansDead
<1>1. IInv => EndedMeansDead
  BY DEF IInv, HolderKeepsClaim, HolderWasInserted, EndedMeansDead, BotAlive,
     Running, TerminalStatus
<1> QED BY <1>1, FleetInvariant, PTL

\* Whoever takes a step, the rows that have ended keep their status.
LEMMA EndedStep ==
    ASSUME IInv, [Next]_vars, NEW d \in DOMAIN row
    PROVE  StaysEnded(d)
<1>1. /\ DepTypeOK /\ d \in issued \ DOMAIN tx /\ row[d] \in Row
      /\ \A s \in DOMAIN sup : sup[s] \in Thread /\ ThreadOK(s)
  BY IInvByThread DEF IInv, FleetTypeOK, DepTypeOK, IsTable
<1>2. CASE UserNext
  BY <1>1, <1>2, UserLeavesClaims DEF StaysEnded
<1>3. CASE row' = row
  BY <1>3 DEF StaysEnded
<1>4. ASSUME NEW s \in DOMAIN sup, NEW st \in Status,
             sup[s].pc \notin {"dead", "cleanup"}, UpdateStatus(sup[s].d, st)
      PROVE  StaysEnded(d)
  BY <1>1, <1>4 DEF UpdateStatus, Writable, ThreadOK, Running, StaysEnded
<1>5. ASSUME NEW s \in DOMAIN sup, NEW st \in Status, NEW pc \in Pc,
             sup[s].pc \notin {"dead", "cleanup"}, Report(s, st, pc)
      PROVE  StaysEnded(d)
  BY <1>3, <1>4, <1>5 DEF Report, depVars
<1>6. ASSUME NEW e \in Deps, Heartbeat(e) PROVE StaysEnded(d)
  BY <1>1, <1>6 DEF Heartbeat, Writable, StaysEnded, Row
<1>7. ASSUME NEW e \in Deps, Claim(e) PROVE StaysEnded(d)
  <2>1. CASE d = e
    BY <1>7, <2>1 DEF Claim, Claimable, Wanted, ActiveStatus, TerminalStatus,
       StaysEnded
  <2>2. CASE d # e
    BY <1>1, <1>7, <2>2, ClaimedRow DEF StaysEnded
  <2> QED BY <2>1, <2>2
<1>8. ASSUME NEW s \in Threads, ThreadNext(s) PROVE StaysEnded(d)
  <2>1. CASE \/ Build(s) \/ SetupFails(s) \/ Spawn(s) \/ SpawnBreaks(s)
             \/ BotExits(s) \/ Terminate(s) \/ Cleanup(s)
             \/ HeartbeatRefused(s)
    BY <1>3, <2>1 DEF Build, SetupFails, Spawn, SpawnBreaks, BotExits,
       Terminate, Cleanup, HeartbeatRefused, depVars
  <2>2. CASE \/ ReportBuilding(s) \/ ReportRunning(s)
             \/ ReportSetupFailure(s) \/ ReportExit(s)
    BY <1>5, <2>2 DEF ReportBuilding, ReportRunning, ReportSetupFailure,
       ReportExit, At, Status, ActiveStatus, TerminalStatus, Pc
  <2>3. CASE HeartbeatOk(s) \/ HeartbeatAnswerLost(s)
    BY <1>1, <1>6, <2>3 DEF HeartbeatOk, HeartbeatAnswerLost, Thread
  <2> QED BY <1>8, <2>1, <2>2, <2>3 DEF ThreadNext
<1>9. ASSUME NEW w \in Workers, WorkerNext(w) PROVE StaysEnded(d)
  BY <1>3, <1>7, <1>9 DEF WorkerNext, ClaimStart, ClaimLost, LoopIdle,
     Shutdown, CloseClient, Exit, Kill, Restart, Gone, depVars
<1>10. CASE TimePasses
  BY <1>1, <1>10 DEF TimePasses, Tick, Aged, StaysEnded, Row
<1> QED BY <1>2, <1>3, <1>8, <1>9, <1>10 DEF Next, vars

\* Rows leave stopped or failed only by deletion, if every supervisor is
\* answered within the TTL; the property says nothing of the other case, in
\* which the status endpoint lets them.
THEOREM EndedForGoodCorrect == Spec => EndedForGood
<1>1. CASE Timely
  <2>1. IInv /\ [Next]_vars =>
            [Timely => \A d \in DOMAIN row : StaysEnded(d)]_vars
    BY <1>1, EndedStep
  <2> QED BY <1>1, <2>1, FleetInvariant, PTL DEF Spec, EndedForGood
<1>2. CASE ~Timely
  <2>1. [Next]_vars => [Timely => \A d \in DOMAIN row : StaysEnded(d)]_vars
    BY <1>2
  <2> QED BY <2>1, PTL DEF Spec, EndedForGood
<1> QED BY <1>1, <1>2

-----------------------------------------------------------------------------
(* The threads a worker counts, and those it tells to stop. *)

\* Threads stay what they are, or end; a bot is told to stop only by its row.
SupKept ==
    /\ DOMAIN sup' \subseteq DOMAIN sup
    /\ \A r \in DOMAIN sup' :
          /\ sup'[r].w = sup[r].w /\ sup'[r].d = sup[r].d
          /\ sup'[r].tracked = sup[r].tracked
          /\ sup'[r].pc # "dead" => sup[r].pc # "dead"
          /\ sup'[r].stop => \/ sup[r].stop
                             \/ /\ sup[r].d \in DOMAIN row
                                /\ row[sup[r].d].desired = "stopped"

\* Only a claim that is answered starts a thread.
LEMMA StepKeepsSup ==
    ASSUME IInv, [Next]_vars,
           \A w \in Workers, d \in Deps, s \in Threads : ~ClaimStart(w, d, s)
    PROVE  SupKept
<1>0. IsTable(sup, Threads, Thread) /\ \A r \in DOMAIN sup : sup[r] \in Thread
  BY DEF IInv, FleetTypeOK, IsTable
<1>1. CASE sup' = sup
  BY <1>1 DEF SupKept
<1>2. ASSUME NEW K, sup' = Removed(sup, K) PROVE SupKept
  BY <1>2 DEF Removed, SupKept
<1>3. ASSUME NEW s \in DOMAIN sup, NEW r \in Thread, sup' = [sup EXCEPT ![s] = r],
             r.w = sup[s].w, r.d = sup[s].d, r.tracked = sup[s].tracked,
             r.pc # "dead" => sup[s].pc # "dead",
             r.stop => \/ sup[s].stop
                       \/ sup[s].d \in DOMAIN row /\ row[sup[s].d].desired = "stopped"
      PROVE  SupKept
  BY <1>3 DEF SupKept
<1>4. ASSUME NEW s \in DOMAIN sup, sup[s].pc # "dead", NEW pc \in Pc,
             NEW b \in {"none", "alive", "clean", "crash"},
             sup' = [sup EXCEPT ![s].pc = pc, ![s].bot = b]
      PROVE  SupKept
  <2> DEFINE r == [sup[s] EXCEPT !.pc = pc, !.bot = b]
  <2>1. /\ r \in Thread /\ r.w = sup[s].w /\ r.d = sup[s].d
        /\ r.tracked = sup[s].tracked /\ r.stop = sup[s].stop
    BY <1>0 DEF Thread
  <2>2. sup' = [sup EXCEPT ![s] = r]
    BY <1>4
  <2>3. sup[s].pc # "dead"
    BY <1>4
  <2> HIDE DEF r
  <2> QED BY <1>3, <2>1, <2>2, <2>3
<1>5. ASSUME NEW s \in DOMAIN sup, sup[s].pc # "dead", NEW pc \in Pc,
             sup' = [sup EXCEPT ![s].pc = pc]
      PROVE  SupKept
  <2> DEFINE r == [sup[s] EXCEPT !.pc = pc]
  <2>1. /\ r \in Thread /\ r.w = sup[s].w /\ r.d = sup[s].d
        /\ r.tracked = sup[s].tracked /\ r.stop = sup[s].stop
    BY <1>0 DEF Thread
  <2>2. sup' = [sup EXCEPT ![s] = r]
    BY <1>5
  <2>3. sup[s].pc # "dead"
    BY <1>5
  <2> HIDE DEF r
  <2> QED BY <1>3, <2>1, <2>2, <2>3
<1>6. ASSUME NEW s \in DOMAIN sup, sup[s].pc # "dead", NEW pc \in Pc, NEW st, Report(s, st, pc)
      PROVE  SupKept
  <2>1. CASE Goto(s, pc)
    BY <1>5, <1>6, <2>1 DEF Goto
  <2>2. CASE sup' = [sup EXCEPT ![s].pc = pc, ![s].t = 0]
    <3> DEFINE r == [sup[s] EXCEPT !.pc = pc, !.t = 0]
    <3>1. /\ r \in Thread /\ r.w = sup[s].w /\ r.d = sup[s].d
          /\ r.tracked = sup[s].tracked /\ r.stop = sup[s].stop
      BY <1>0 DEF Thread
    <3>2. sup' = [sup EXCEPT ![s] = r]
      BY <2>2
    <3> HIDE DEF r
    <3> QED BY <1>3, <1>6, <3>1, <3>2
  <2> QED BY <1>6, <2>1, <2>2 DEF Report
<1>7. ASSUME NEW s \in Threads, ThreadNext(s) PROVE SupKept
  <2>1. CASE \/ ReportBuilding(s) \/ ReportRunning(s)
             \/ ReportSetupFailure(s) \/ ReportExit(s)
    BY <1>6, <2>1 DEF ReportBuilding, ReportRunning, ReportSetupFailure, ReportExit, At, Pc
  <2>2. CASE Build(s) \/ SetupFails(s)
    BY <1>5, <2>2 DEF Build, SetupFails, At, Goto, Pc
  <2>3. CASE Spawn(s) \/ SpawnBreaks(s)
    BY <1>4, <2>3 DEF Spawn, SpawnBreaks, At, Pc
  <2>4. CASE BotExits(s) \/ Terminate(s)
    <3>1. PICK rc \in {"clean", "crash"} : sup' = [sup EXCEPT ![s].bot = rc]
      BY <2>4 DEF BotExits, Terminate
    <3>2. s \in DOMAIN sup
      BY <2>4 DEF BotExits, Terminate, BotAlive
    <3> DEFINE r == [sup[s] EXCEPT !.bot = rc]
    <3>3. /\ r \in Thread /\ r.w = sup[s].w /\ r.d = sup[s].d /\ r.pc = sup[s].pc
          /\ r.tracked = sup[s].tracked /\ r.stop = sup[s].stop
      BY <1>0, <3>2 DEF Thread
    <3>4. sup' = [sup EXCEPT ![s] = r]
      BY <3>1
    <3> HIDE DEF r
    <3> QED BY <1>3, <3>2, <3>3, <3>4
  <2>5. CASE Cleanup(s)
    <3> DEFINE r == [sup[s] EXCEPT !.pc = "dead", !.bot = "none",
                       !.stop = FALSE, !.blob = NoBlob, !.t = 0]
    <3>1. s \in DOMAIN sup
      BY <2>5 DEF Cleanup, At
    <3>2. /\ r \in Thread /\ r.w = sup[s].w /\ r.d = sup[s].d /\ r.pc = "dead"
          /\ r.tracked = sup[s].tracked /\ ~r.stop
      BY <1>0, <3>1 DEF Thread, Pc
    <3>3. CASE sup[s].tracked
      <4>1. sup' = [sup EXCEPT ![s] = r]
        BY <2>5, <3>3 DEF Cleanup
      <4> HIDE DEF r
      <4> QED BY <1>3, <3>1, <3>2, <4>1
    <3>4. CASE ~sup[s].tracked
      BY <1>2, <2>5, <3>4 DEF Cleanup
    <3> QED BY <3>3, <3>4
  <2>6. CASE HeartbeatOk(s)
    <3> DEFINE r == [sup[s] EXCEPT !.t = 0,
                       !.stop = @ \/ row[sup[s].d].desired = "stopped"]
    <3>1. s \in DOMAIN sup /\ sup[s].pc # "dead" /\ sup[s].d \in DOMAIN row
      BY <2>6 DEF HeartbeatOk, Heartbeating, Heartbeat, Writable
    <3>2. /\ r \in Thread /\ r.w = sup[s].w /\ r.d = sup[s].d
          /\ r.tracked = sup[s].tracked
          /\ r.stop = (sup[s].stop \/ row[sup[s].d].desired = "stopped")
      BY <1>0, <3>1 DEF Thread
    <3>3. sup' = [sup EXCEPT ![s] = r]
      BY <2>6, <3>1 DEF HeartbeatOk
    <3> HIDE DEF r
    <3> QED BY <1>3, <3>1, <3>2, <3>3
  <2>7. CASE HeartbeatAnswerLost(s)
    BY <1>1, <2>7 DEF HeartbeatAnswerLost
  <2>8. CASE HeartbeatRefused(s)
    <3> DEFINE r == [sup[s] EXCEPT !.t = 0]
    <3>1. s \in DOMAIN sup
      BY <2>8 DEF HeartbeatRefused
    <3>2. /\ r \in Thread /\ r.w = sup[s].w /\ r.d = sup[s].d /\ r.pc = sup[s].pc
          /\ r.tracked = sup[s].tracked /\ r.stop = sup[s].stop
      BY <1>0, <3>1 DEF Thread
    <3>3. sup' = [sup EXCEPT ![s] = r]
      BY <2>8, <3>1 DEF HeartbeatRefused
    <3> HIDE DEF r
    <3> QED BY <1>3, <3>1, <3>2, <3>3
  <2> QED BY <1>7, <2>1, <2>2, <2>3, <2>4, <2>5, <2>6, <2>7, <2>8 DEF ThreadNext
<1>8. ASSUME NEW w \in Workers, WorkerNext(w) PROVE SupKept
  BY <1>1, <1>2, <1>8 DEF WorkerNext, ClaimLost, LoopIdle, Shutdown, CloseClient, Exit, Kill,
     Restart, Gone
<1>9. CASE TimePasses
  <2>1. ASSUME NEW x \in DOMAIN sup
        PROVE  /\ sup'[x].w = sup[x].w /\ sup'[x].d = sup[x].d /\ sup'[x].pc = sup[x].pc
               /\ sup'[x].tracked = sup[x].tracked /\ sup'[x].stop = sup[x].stop
    BY <1>0, <1>9 DEF TimePasses, Thread
  <2>2. DOMAIN sup' = DOMAIN sup
    BY <1>9 DEF TimePasses
  <2> QED BY <2>1, <2>2 DEF SupKept
<1> QED BY <1>1, <1>7, <1>8, <1>9 DEF Next, vars, fleetVars

\* The threads that a worker counts.
Counted(w) == Active(w) \ Reaped(w)

\* Every thread that runs is counted, and the count is within the limit.
CapacityInv ==
    /\ \A s \in DOMAIN sup : Running(s) => sup[s].tracked
    /\ \A w \in Workers : /\ IsFiniteSet(Counted(w))
                          /\ Cardinality(Counted(w)) <= MaxConcurrent

\* A worker that counts no more threads than before stays within it.
LEMMA FewerCounted ==
    ASSUME CapacityInv, NEW w \in Workers, Counted(w)' \subseteq Counted(w)
    PROVE  IsFiniteSet(Counted(w)') /\ Cardinality(Counted(w)') <= MaxConcurrent
<1>1. /\ IsFiniteSet(Counted(w)) /\ Cardinality(Counted(w)) <= MaxConcurrent
      /\ MaxConcurrent \in Nat
  BY LimitsAssumption DEF CapacityInv
<1>2. /\ IsFiniteSet(Counted(w)') /\ Cardinality(Counted(w)') <= Cardinality(Counted(w))
  BY <1>1, FS_Subset
<1>3. Cardinality(Counted(w)) \in Nat /\ Cardinality(Counted(w)') \in Nat
  BY <1>1, <1>2, FS_CardinalityType
<1> QED BY <1>1, <1>2, <1>3

\* A claim finds no running thread of its deployment, so none drops out of the
\* count while it runs, and the new one is counted where there was room.
LEMMA ClaimKeepsCapacity ==
    ASSUME IInv, CapacityInv, NEW w \in Workers, NEW d \in Deps, NEW s \in Threads,
           ClaimStart(w, d, s)
    PROVE  CapacityInv'
<1> DEFINE new == [w |-> w, d |-> d, pc |-> "start", blob |-> row[d].blob,
                   bot |-> "none", stop |-> FALSE, tracked |-> TRUE, t |-> 0]
           old(x) == IF sup[x].w = w /\ sup[x].d = d
                     THEN [sup[x] EXCEPT !.tracked = FALSE] ELSE sup[x]
<1>1. /\ s \notin DOMAIN sup /\ Claim(d)
      /\ sup' = [x \in (DOMAIN sup \ Reaped(w)) \cup {s} |-> IF x = s THEN new ELSE old(x)]
      /\ Cardinality(Counted(w)) < MaxConcurrent
  BY DEF ClaimStart, CanClaim, Counted
<1>2. \A x \in DOMAIN sup : sup[x] \in Thread
  BY DEF IInv, FleetTypeOK, IsTable
<1>3. \A x \in DOMAIN sup : /\ old(x).w = sup[x].w /\ old(x).pc = sup[x].pc
                            /\ old(x).tracked => sup[x].tracked
                            /\ sup[x].d # d => old(x).tracked = sup[x].tracked
  BY <1>2 DEF Thread
<1>4. new.w = w /\ new.tracked
  OBVIOUS
<1> HIDE DEF new, old
<1>5. /\ DOMAIN sup' = (DOMAIN sup \ Reaped(w)) \cup {s} /\ sup'[s] = new
      /\ \A x \in DOMAIN sup' \ {s} : x \in DOMAIN sup /\ sup'[x] = old(x)
  BY <1>1
<1>6. ASSUME NEW x \in DOMAIN sup', sup'[x].pc # "dead" PROVE sup'[x].tracked
  <2>1. CASE x = s
    BY <1>4, <1>5, <2>1
  <2>2. CASE x # s
    <3>1. x \in DOMAIN sup /\ sup[x].pc # "dead" /\ Running(x)
      BY <1>3, <1>5, <1>6, <2>2 DEF Running
    <3>2. sup[x].d # d /\ sup[x].tracked
      BY <1>1, <3>1, ClaimFindsNoHolder DEF CapacityInv
    <3> QED BY <1>3, <1>5, <2>2, <3>1, <3>2
  <2> QED BY <2>1, <2>2
<1>7. ASSUME NEW v \in Workers, v # w
      PROVE  IsFiniteSet(Counted(v)') /\ Cardinality(Counted(v)') <= MaxConcurrent
  <2>1. Counted(v)' \subseteq Counted(v)
    BY <1>3, <1>4, <1>5, <1>7 DEF Counted, Active, Reaped
  <2> QED BY <2>1, FewerCounted
<1>8. IsFiniteSet(Counted(w)') /\ Cardinality(Counted(w)') <= MaxConcurrent
  <2>1. Counted(w)' \subseteq Counted(w) \cup {s}
    BY <1>3, <1>5 DEF Counted, Active, Reaped
  <2>2. s \notin Counted(w)
    BY <1>1 DEF Counted, Active
  <2>3. IsFiniteSet(Counted(w)) /\ MaxConcurrent \in Nat
    BY LimitsAssumption DEF CapacityInv
  <2>4. /\ IsFiniteSet(Counted(w) \cup {s})
        /\ Cardinality(Counted(w) \cup {s}) = Cardinality(Counted(w)) + 1
    BY <2>2, <2>3, FS_AddElement
  <2>5. /\ IsFiniteSet(Counted(w)')
        /\ Cardinality(Counted(w)') <= Cardinality(Counted(w) \cup {s})
    BY <2>1, <2>4, FS_Subset
  <2>6. Cardinality(Counted(w)) \in Nat /\ Cardinality(Counted(w)') \in Nat
    BY <2>3, <2>5, FS_CardinalityType
  <2> QED BY <1>1, <2>3, <2>4, <2>5, <2>6
<1> QED BY <1>6, <1>7, <1>8 DEF CapacityInv, Running

\* The bots of a worker are at most MAX_CONCURRENT, provided as before that no
\* deployment is claimed while it is held (runner.py, _run_loop).
THEOREM CapacityCorrect == ASSUME Timely PROVE Spec => []Capacity
<1>1. Init => CapacityInv
  <2> SUFFICES ASSUME Init PROVE CapacityInv
    OBVIOUS
  <2>1. DOMAIN sup = {} /\ \A w \in Workers : Counted(w) = {}
    BY DEF Init, Counted, Active
  <2>2. IsFiniteSet({}) /\ Cardinality({}) <= MaxConcurrent
    BY FS_EmptySet, LimitsAssumption
  <2>3. ASSUME NEW w \in Workers
        PROVE  IsFiniteSet(Counted(w)) /\ Cardinality(Counted(w)) <= MaxConcurrent
    <3>1. Counted(w) = {}
      BY <2>1
    <3> QED BY <2>2, <3>1
  <2> QED BY <2>1, <2>3 DEF CapacityInv
<1>2. IInv /\ CapacityInv /\ [Next]_vars => CapacityInv'
  <2> SUFFICES ASSUME IInv, CapacityInv, [Next]_vars PROVE CapacityInv'
    OBVIOUS
  <2>1. CASE \E w \in Workers, d \in Deps, s \in Threads : ClaimStart(w, d, s)
    BY <2>1, ClaimKeepsCapacity
  <2>2. CASE SupKept
    <3>1. \A w \in Workers : Counted(w)' \subseteq Counted(w)
      BY <2>2 DEF SupKept, Counted, Active, Reaped
    <3>2. \A s \in DOMAIN sup' : Running(s)' => sup'[s].tracked
      BY <2>2 DEF SupKept, CapacityInv, Running
    <3> QED BY <3>1, <3>2, FewerCounted DEF CapacityInv
  <2> QED BY <2>1, <2>2, StepKeepsSup
<1>3. IInv /\ CapacityInv => Capacity
  <2> SUFFICES ASSUME IInv, CapacityInv, NEW w \in Workers
               PROVE  Cardinality({s \in DOMAIN sup : BotAlive(s) /\ sup[s].w = w})
                          <= MaxConcurrent
    BY DEF Capacity
  <2> DEFINE A == {s \in DOMAIN sup : BotAlive(s) /\ sup[s].w = w}
  <2>1. A \subseteq Counted(w)
    BY DEF IInv, HolderWasInserted, CapacityInv, Counted, Active, Reaped, BotAlive, Running
  <2>2. /\ IsFiniteSet(Counted(w)) /\ Cardinality(Counted(w)) <= MaxConcurrent
        /\ MaxConcurrent \in Nat
    BY LimitsAssumption DEF CapacityInv
  <2>3. IsFiniteSet(A) /\ Cardinality(A) <= Cardinality(Counted(w))
    BY <2>1, <2>2, FS_Subset
  <2>4. Cardinality(Counted(w)) \in Nat /\ Cardinality(A) \in Nat
    BY <2>2, <2>3, FS_CardinalityType
  <2> HIDE DEF A
  <2>5. Cardinality(A) <= MaxConcurrent
    BY <2>2, <2>3, <2>4
  <2> QED BY <2>5 DEF A
<1> QED BY <1>1, <1>2, <1>3, FleetInvariant, PTL DEF Spec

-----------------------------------------------------------------------------
\* A row that a thread stands for does not come back, and is not wanted again.
LEMMA HeldRowStep ==
    ASSUME IInv, [Next]_vars, NEW e \in issued \ DOMAIN tx, e \in DOMAIN row'
    PROVE  e \in DOMAIN row /\ StaysRetired(e)
<1>1. DepTypeOK /\ \A s \in DOMAIN sup : sup[s] \in Thread /\ sup[s].d \in Deps
  BY DEF IInv, FleetTypeOK, IsTable, Thread
<1>2. CASE row' = row
  BY <1>2 DEF StaysRetired
<1>3. CASE UserNext
  BY <1>1, <1>3, UserLeavesClaims, RetiredStep DEF DepNext
<1>4. ASSUME NEW d \in Deps,
             Claim(d) \/ Heartbeat(d) \/ \E st \in Status : UpdateStatus(d, st)
      PROVE  e \in DOMAIN row /\ StaysRetired(e)
  <2>1. e \in DOMAIN row /\ row[e] \in Row
    BY <1>1, <1>4, WorkerTypeOK DEF DepTypeOK, IsTable
  <2>2. CASE Claim(d) \/ Heartbeat(d)
    BY <1>1, <2>1, <2>2, RetiredStep DEF DepNext
  <2>3. CASE \E st \in Status : UpdateStatus(d, st)
    BY <2>1, <2>3 DEF UpdateStatus, StaysRetired, Row
  <2> QED BY <1>4, <2>1, <2>2, <2>3
<1>5. ASSUME NEW s \in Threads, ThreadNext(s)
      PROVE  e \in DOMAIN row /\ StaysRetired(e)
  <2>1. CASE \/ ReportBuilding(s) \/ ReportRunning(s)
             \/ ReportSetupFailure(s) \/ ReportExit(s)
    BY <1>1, <1>2, <1>4, <2>1 DEF ReportBuilding, ReportRunning, ReportSetupFailure, ReportExit,
       Report, At, Status, ActiveStatus, TerminalStatus, depVars
  <2>2. CASE HeartbeatOk(s) \/ HeartbeatAnswerLost(s)
    BY <1>1, <1>4, <2>2 DEF HeartbeatOk, HeartbeatAnswerLost
  <2>3. CASE \/ Build(s) \/ SetupFails(s) \/ Spawn(s) \/ SpawnBreaks(s)
             \/ BotExits(s) \/ Terminate(s) \/ Cleanup(s) \/ HeartbeatRefused(s)
    BY <1>2, <2>3 DEF Build, SetupFails, Spawn, SpawnBreaks, BotExits, Terminate, Cleanup,
       HeartbeatRefused, depVars
  <2> QED BY <1>5, <2>1, <2>2, <2>3 DEF ThreadNext
<1>6. ASSUME NEW w \in Workers, WorkerNext(w)
      PROVE  e \in DOMAIN row /\ StaysRetired(e)
  BY <1>2, <1>4, <1>6 DEF WorkerNext, ClaimStart, ClaimLost, LoopIdle, Shutdown, CloseClient,
     Exit, Kill, Restart, Gone, depVars
<1>7. CASE TimePasses
  BY <1>1, <1>7, TickTypeOK, RetiredStep DEF TimePasses, DepNext
<1> QED BY <1>2, <1>3, <1>5, <1>6, <1>7 DEF Next, vars

\* A stop that has reached a thread was asked for and still is: the row that said
\* so stays retired until it is deleted, and its id is not handed out again
\* (runner.py, _heartbeat_loop).  Proved from the same condition.
THEOREM StopWasAskedCorrect == ASSUME Timely PROVE Spec => []StopWasAsked
<1>1. Init => StopWasAsked
  BY DEF Init, StopWasAsked
<1>2. IInv /\ StopWasAsked /\ [Next]_vars => StopWasAsked'
  <2> SUFFICES ASSUME IInv, StopWasAsked, [Next]_vars,
                      NEW s \in DOMAIN sup', sup'[s].stop, sup'[s].d \in DOMAIN row'
               PROVE  row'[sup'[s].d].desired = "stopped"
    BY DEF StopWasAsked
  <2>1. /\ s \in DOMAIN sup /\ sup'[s].d = sup[s].d
        /\ \/ sup[s].stop
           \/ sup[s].d \in DOMAIN row /\ row[sup[s].d].desired = "stopped"
    <3>1. CASE SupKept
      BY <3>1 DEF SupKept
    <3>2. ASSUME NEW w \in Workers, NEW d \in Deps, NEW r \in Threads, ClaimStart(w, d, r)
          PROVE  s \in DOMAIN sup /\ sup'[s].d = sup[s].d /\ sup[s].stop
      <4>1. s # r
        BY <3>2 DEF ClaimStart
      <4>2. s \in DOMAIN sup
            /\ sup'[s] \in {sup[s], [sup[s] EXCEPT !.tracked = FALSE]}
        BY <3>2, <4>1 DEF ClaimStart
      <4>3. sup[s] \in Thread
        BY <4>2 DEF IInv, FleetTypeOK, IsTable
      <4> QED BY <4>2, <4>3 DEF Thread
    <3> QED BY <3>1, <3>2, StepKeepsSup
  <2>2. sup[s].d \in issued \ DOMAIN tx
    BY <2>1 DEF IInv, HolderWasInserted
  <2>3. sup[s].d \in DOMAIN row /\ StaysRetired(sup[s].d)
    BY <2>1, <2>2, HeldRowStep
  <2> QED BY <2>1, <2>3 DEF StopWasAsked, StaysRetired
<1> QED BY <1>1, <1>2, FleetInvariant, PTL DEF Spec

-----------------------------------------------------------------------------
(* The lease. *)

SamePhases == \A e \in Deps : Phase(e)' = Phase(e)
SameHolders == \A e \in Deps : Holders(e)' = Holders(e)

-----------------------------------------------------------------------------
(* The steps of the lease, in terms of Phase and Holders. *)

\* A step that changes no phase and no holder is none of the lease.
LEMMA Stutters ==
    ASSUME SamePhases, SameHolders
    PROVE  UNCHANGED Lease!leaseVars
  BY DEF SamePhases, SameHolders, Lease!leaseVars

\* A new deployment is wanted, and those it replaces are withdrawn.
LEMMA Submits ==
    ASSUME NEW d \in Deps, NEW R \in SUBSET Deps, Phase(d) = "new", d \notin R,
           Phase(d)' = "wanted", \A e \in R : Phase(e)' = "withdrawn",
           \A e \in Deps \ (R \cup {d}) : Phase(e)' = Phase(e), SameHolders
    PROVE  Lease!LeaseNext
<1>1. Lease!Submit(d, R)
  BY DEF Lease!Submit, SameHolders
<1> QED BY <1>1 DEF Lease!LeaseNext

\* A deployment is withdrawn.
LEMMA Withdraws ==
    ASSUME NEW d \in Deps, Phase(d)' = "withdrawn",
           \A e \in Deps \ {d} : Phase(e)' = Phase(e), SameHolders
    PROVE  Lease!LeaseNext
<1>1. Lease!Withdraw(d)
  BY DEF Lease!Withdraw, SameHolders
<1> QED BY <1>1 DEF Lease!LeaseNext

\* A thread becomes the holder of a wanted one.
LEMMA Acquires ==
    ASSUME NEW d \in Deps, NEW s \in Threads, Phase(d) = "wanted",
           Holders(d) = {}, Holders(d)' = {s}, SamePhases,
           \A e \in Deps \ {d} : Holders(e)' = Holders(e)
    PROVE  Lease!LeaseNext
<1>1. Lease!Acquire(d, s)
  BY DEF Lease!Acquire, SamePhases
<1> QED BY <1>1 DEF Lease!LeaseNext

\* Deployments lose their holders.
LEMMA Releases ==
    ASSUME NEW D \in SUBSET Deps, SamePhases,
           \A e \in D : Holders(e)' = {},
           \A e \in Deps \ D : Holders(e)' = Holders(e)
    PROVE  Lease!LeaseNext
<1>1. Lease!Release(D)
  BY DEF Lease!Release, SamePhases
<1> QED BY <1>1 DEF Lease!LeaseNext

-----------------------------------------------------------------------------
(* What leaves phases, or holders, as they are. *)

\* The phase of a deployment depends on three things.
LEMMA PhaseOf ==
    ASSUME NEW d \in Deps,
           d \in DOMAIN row' /\ Wanted(d)' <=> d \in DOMAIN row /\ Wanted(d),
           d \in issued' \ DOMAIN tx' <=> d \in issued \ DOMAIN tx
    PROVE  Phase(d)' = Phase(d)
  BY DEF Phase

\* A step that leaves the table alone changes no phase.
LEMMA TableKeepsPhases == UNCHANGED depVars => SamePhases
  BY DEF depVars, SamePhases, Phase, Wanted

\* The threads that run, and what they run, stay the same.
LEMMA ThreadsKeepHolders ==
    ASSUME \A s : s \in DOMAIN sup /\ sup[s].pc # "dead"
                    <=> s \in DOMAIN sup' /\ sup'[s].pc # "dead",
           \A s \in DOMAIN sup \cap DOMAIN sup' : sup'[s].d = sup[s].d
    PROVE  SameHolders
<1>1. ASSUME NEW e \in Deps, NEW s
      PROVE  s \in Holders(e)' <=> s \in Holders(e)
  BY DEF Holders, Running
<1> QED BY <1>1 DEF SameHolders

-----------------------------------------------------------------------------
(* The steps of users. *)

\* A step of the users is one of the lease, or none.
LEMMA UserLeases ==
    ASSUME DepTypeOK, UserNext, UNCHANGED fleetVars
    PROVE  [Lease!LeaseNext]_Lease!leaseVars
<1>1. /\ DOMAIN row \subseteq Deps /\ DOMAIN tx \subseteq Deps
      /\ DOMAIN row \subseteq issued \ DOMAIN tx
      /\ DOMAIN tx \subseteq issued /\ DOMAIN dels \subseteq DOMAIN row
      /\ \A f \in DOMAIN row : row[f] \in Row
  BY DEF DepTypeOK, IsTable
<1>2. SameHolders
  BY DEF fleetVars, SameHolders, Holders, Running
<1>3. ASSUME NEW d \in Deps,
             \/ \E a \in Agents : UploadOpen(d, a) \/ TeamOpen(d, a)
             \/ ReadActive(d) \/ DeleteOpen(d)
      PROVE  SamePhases
  <2>1. row' = row
    BY <1>3 DEF UploadOpen, TeamOpen, Open, ReadActive, DeleteOpen
  <2>2. issued' \ DOMAIN tx' = issued \ DOMAIN tx
    BY <1>3 DEF UploadOpen, TeamOpen, Open, Fresh, Inserted, ReadActive,
       DeleteOpen
  <2> QED BY <2>1, <2>2 DEF SamePhases, Phase, Wanted
<1>4. ASSUME NEW d \in Deps, DeployCommit(d)
      PROVE  Lease!LeaseNext
  <2> DEFINE R == tx[d].retire
  <2>1. /\ d \in DOMAIN tx /\ R \subseteq DOMAIN row /\ d \notin DOMAIN row
        /\ DOMAIN row' = DOMAIN row \cup {d}
        /\ issued' \ DOMAIN tx' = (issued \ DOMAIN tx) \cup {d}
    BY <1>1, <1>4 DEF DeployCommit, Writable, Removed
  <2>2. Phase(d) = "new"
    BY <2>1 DEF Phase
  <2>3. row'[d] = NewRow(tx[d].agent, tx[d].builtin, d)
    BY <1>4 DEF DeployCommit
  <2>4. Phase(d)' = "wanted"
    BY <2>1, <2>3 DEF Phase, Wanted, NewRow, ActiveStatus
  <2>5. ASSUME NEW e \in R PROVE Phase(e)' = "withdrawn"
    <3>1. /\ e \in DOMAIN row /\ e # d /\ row[e] \in Row
          /\ row'[e] = [row[e] EXCEPT !.desired = "stopped"]
      BY <1>1, <1>4, <2>1 DEF DeployCommit
    <3>2. row'[e].desired = "stopped"
      BY <3>1 DEF Row
    <3> QED BY <1>1, <2>1, <3>1, <3>2 DEF Phase, Wanted
  <2>6. ASSUME NEW e \in Deps \ (R \cup {d}) PROVE Phase(e)' = Phase(e)
    <3>1. e \in DOMAIN row => row'[e] = row[e]
      BY <1>4 DEF DeployCommit
    <3> QED BY <2>1, <2>6, <3>1 DEF Phase, Wanted
  <2> HIDE DEF R
  <2>7. R \in SUBSET Deps /\ d \notin R
    BY <1>1, <2>1
  <2> QED BY <1>2, <2>2, <2>4, <2>5, <2>6, <2>7, Submits
<1>5. ASSUME NEW d \in Deps, DeployAbort(d)
      PROVE  Lease!LeaseNext
  <2>1. /\ d \in DOMAIN tx /\ d \notin DOMAIN row /\ row' = row
        /\ issued' = issued /\ DOMAIN tx' = DOMAIN tx \ {d}
    BY <1>1, <1>5 DEF DeployAbort, Removed
  <2>2. Phase(d)' = "withdrawn"
    BY <1>1, <2>1 DEF Phase
  <2>3. \A e \in Deps \ {d} : Phase(e)' = Phase(e)
    BY <2>1 DEF Phase, Wanted
  <2> QED BY <1>2, <2>2, <2>3, Withdraws
<1>6. ASSUME NEW d \in Deps, Stop(d)
      PROVE  Lease!LeaseNext
  <2>1. /\ d \in DOMAIN row /\ DOMAIN row' = DOMAIN row
        /\ UNCHANGED <<issued, tx>>
        /\ row' = [row EXCEPT ![d].desired = "stopped"]
    BY <1>6 DEF Stop, Writable
  <2>2. row'[d].desired = "stopped"
    BY <1>1, <2>1 DEF Row
  <2>3. Phase(d)' = "withdrawn"
    BY <1>1, <2>1, <2>2 DEF Phase, Wanted
  <2>4. \A e \in Deps \ {d} : Phase(e)' = Phase(e)
    BY <2>1 DEF Phase, Wanted
  <2> QED BY <1>2, <2>3, <2>4, Withdraws
<1>7. ASSUME NEW d \in Deps, DeleteCommit(d)
      PROVE  Lease!LeaseNext
  <2>1. /\ d \in DOMAIN row /\ DOMAIN row' = DOMAIN row \ {d}
        /\ UNCHANGED <<issued, tx>>
    BY <1>1, <1>7 DEF DeleteCommit
  <2>2. Phase(d)' = "withdrawn"
    BY <1>1, <2>1 DEF Phase
  <2>3. ASSUME NEW e \in DOMAIN row \ {d}
        PROVE  row'[e].desired = row[e].desired /\ row'[e].status = row[e].status
    BY <1>1, <1>7 DEF DeleteCommit, Row
  <2>4. \A e \in Deps \ {d} : Phase(e)' = Phase(e)
    BY <2>1, <2>3 DEF Phase, Wanted
  <2> QED BY <1>2, <2>2, <2>4, Withdraws
<1>8. ASSUME NEW old \in Deps, NEW d \in Deps, Redeploy(old, d)
      PROVE  Lease!LeaseNext
  <2>1. /\ old \in DOMAIN row /\ d \notin issued /\ d \notin DOMAIN row
        /\ d # old /\ DOMAIN row' = DOMAIN row \cup {d}
        /\ issued' = issued \cup {d} /\ tx' = tx
    BY <1>1, <1>8 DEF Redeploy, Fresh, Writable, Inserted
  <2>2. \E b \in Deps \cup {NoBlob} :
            row'[d] = NewRow(row[old].agent, row[old].builtin, b)
    BY <1>1, <1>8, <2>1 DEF Redeploy, Inserted, Row
  <2>3. \A e \in DOMAIN row :
            row'[e] = [row EXCEPT ![old].desired = "stopped"][e]
    BY <1>8, <2>1 DEF Redeploy, Inserted
  <2>4. row'[old].desired = "stopped"
    BY <1>1, <2>1, <2>3 DEF Row
  <2>5. Phase(d) = "new"
    BY <2>1 DEF Phase
  <2>6. Phase(d)' = "wanted"
    BY <2>1, <2>2 DEF Phase, Wanted, NewRow, ActiveStatus
  <2>7. Phase(old)' = "withdrawn"
    BY <1>1, <2>1, <2>4 DEF Phase, Wanted
  <2>8. \A e \in Deps \ {old, d} : Phase(e)' = Phase(e)
    BY <2>1, <2>3 DEF Phase, Wanted
  <2>9. {old} \in SUBSET Deps
    OBVIOUS
  <2> QED BY <1>2, <2>1, <2>5, <2>6, <2>7, <2>8, <2>9, Submits
<1> QED BY <1>2, <1>3, <1>4, <1>5, <1>6, <1>7, <1>8, Stutters DEF UserNext

-----------------------------------------------------------------------------
(* The steps of threads and workers. *)

\* A report keeps the phase, or ends a deployment for good.
LEMMA ReportLeases ==
    ASSUME IInv, NEW s \in DOMAIN sup, NEW st \in Status, NEW pc \in Pc,
           sup[s].pc \notin {"dead", "cleanup"}, pc # "dead",
           Report(s, st, pc)
    PROVE  [Lease!LeaseNext]_Lease!leaseVars
<1>0. PICK d \in Deps : d = sup[s].d
  BY DEF IInv, FleetTypeOK, IsTable, Thread
<1>1. /\ sup[s] \in Thread /\ d \in issued \ DOMAIN tx
      /\ ThreadOK(s) /\ Running(s)
      /\ \A e \in DOMAIN row : row[e] \in Row
  BY <1>0, IInvByThread DEF FleetTypeOK, DepTypeOK, IsTable, ThreadOK, Running
<1>2. SameHolders
  <2>1. DOMAIN sup' = DOMAIN sup
        /\ \A x \in DOMAIN sup : /\ sup'[x].d = sup[x].d
                                 /\ sup'[x].pc = IF x = s THEN pc ELSE sup[x].pc
    <3>1. \A x \in DOMAIN sup : sup[x] \in Thread
      BY DEF IInv, FleetTypeOK, IsTable
    <3> QED BY <3>1 DEF Report, Goto, Thread
  <2> QED BY <2>1, ThreadsKeepHolders
<1>3. CASE UNCHANGED depVars
  BY <1>2, <1>3, TableKeepsPhases, Stutters
<1>4. CASE UpdateStatus(d, st)
  <2>1. /\ d \in DOMAIN row /\ DOMAIN row' = DOMAIN row
        /\ UNCHANGED <<issued, tx>>
        /\ row' = [row EXCEPT ![d].status = st, ![d].age = 0]
    BY <1>4 DEF UpdateStatus, Writable
  <2>2. row'[d].status = st /\ row'[d].desired = row[d].desired
    BY <1>1, <2>1 DEF Row
  <2>3. \A e \in Deps \ {d} : Phase(e)' = Phase(e)
    BY <2>1 DEF Phase, Wanted
  <2>4. CASE st \in ActiveStatus
    <3>1. row[d].status \in ActiveStatus
      BY <1>0, <1>1, <2>1 DEF ThreadOK, Row, Status
    <3>2. Phase(d)' = Phase(d)
      BY <2>1, <2>2, <2>4, <3>1 DEF Phase, Wanted
    <3>3. SamePhases
      BY <2>3, <3>2 DEF SamePhases
    <3> QED BY <1>2, <3>3, Stutters
  <2>5. CASE st \notin ActiveStatus
    <3>1. Phase(d)' = "withdrawn"
      BY <1>1, <2>1, <2>2, <2>5 DEF Phase, Wanted
    <3> QED BY <1>1, <1>2, <2>3, <3>1, Withdraws
  <2> QED BY <2>4, <2>5
<1> QED BY <1>0, <1>3, <1>4 DEF Report

\* The end of a thread, or of all threads of a worker, gives up what they held.
LEMMA EndsLease ==
    ASSUME IInv, NEW K \in SUBSET DOMAIN sup, UNCHANGED depVars,
           \A x : x \in DOMAIN sup' /\ sup'[x].pc # "dead"
                  <=> x \in DOMAIN sup \ K /\ sup[x].pc # "dead",
           \A x \in DOMAIN sup \cap DOMAIN sup' : sup'[x].d = sup[x].d
    PROVE  Lease!LeaseNext
<1> DEFINE D == {e \in Deps : \E x \in K : sup[x].pc # "dead" /\ sup[x].d = e}
<1>1. ASSUME NEW e \in D PROVE Holders(e)' = {}
  <2>1. PICK x \in K : sup[x].pc # "dead" /\ sup[x].d = e
    OBVIOUS
  <2>2. ASSUME NEW y \in Holders(e)' PROVE FALSE
    <3>1. y \in DOMAIN sup' /\ sup'[y].pc # "dead" /\ sup'[y].d = e
      BY <2>2 DEF Holders, Running
    <3>2. y \in DOMAIN sup \ K /\ sup[y].pc # "dead" /\ sup[y].d = e
      BY <3>1
    <3> QED BY <2>1, <3>2 DEF IInv, OneHolder, Running
  <2> QED BY <2>2
<1>2. ASSUME NEW e \in Deps \ D PROVE Holders(e)' = Holders(e)
  <2>1. ASSUME NEW x PROVE x \in Holders(e)' <=> x \in Holders(e)
    <3>1. x \in Holders(e)' <=>
              x \in DOMAIN sup' /\ sup'[x].pc # "dead" /\ sup'[x].d = e
      BY DEF Holders, Running
    <3>2. x \in Holders(e) <=>
              x \in DOMAIN sup /\ sup[x].pc # "dead" /\ sup[x].d = e
      BY DEF Holders, Running
    <3> QED BY <1>2, <3>1, <3>2
  <2> QED BY <2>1
<1> HIDE DEF D
<1>3. D \in SUBSET Deps
  BY DEF D
<1> QED BY <1>1, <1>2, <1>3, TableKeepsPhases, Releases

\* So is a step of a thread,
LEMMA ThreadLeases ==
    ASSUME IInv, NEW s \in Threads, ThreadNext(s)
    PROVE  [Lease!LeaseNext]_Lease!leaseVars
<1>1. \A x \in DOMAIN sup : sup[x] \in Thread
  BY DEF IInv, FleetTypeOK, IsTable
<1>2. CASE \/ Build(s) \/ SetupFails(s) \/ Spawn(s) \/ SpawnBreaks(s)
           \/ BotExits(s) \/ Terminate(s) \/ HeartbeatRefused(s)
  <2>1. UNCHANGED depVars
    BY <1>2 DEF Build, SetupFails, Spawn, SpawnBreaks, BotExits, Terminate,
       HeartbeatRefused
  <2>2. DOMAIN sup' = DOMAIN sup
        /\ \A x \in DOMAIN sup : /\ sup'[x].d = sup[x].d
                                 /\ sup'[x].pc = "dead" <=> sup[x].pc = "dead"
    BY <1>1, <1>2 DEF Build, SetupFails, Spawn, SpawnBreaks, BotExits,
       Terminate, HeartbeatRefused, At, Goto, Thread
  <2> QED BY <2>1, <2>2, TableKeepsPhases, ThreadsKeepHolders, Stutters
<1>3. CASE \/ ReportBuilding(s) \/ ReportRunning(s)
           \/ ReportSetupFailure(s) \/ ReportExit(s)
  BY <1>3, ReportLeases DEF ReportBuilding, ReportRunning,
     ReportSetupFailure, ReportExit, At, Status, ActiveStatus,
     TerminalStatus, Pc
<1>4. CASE Cleanup(s)
  <2>1. s \in DOMAIN sup /\ UNCHANGED depVars
    BY <1>4 DEF Cleanup, At
  <2>2. CASE sup[s].tracked
    <3>1. DOMAIN sup' = DOMAIN sup
          /\ \A x \in DOMAIN sup :
                /\ sup'[x].d = sup[x].d
                /\ sup'[x].pc = IF x = s THEN "dead" ELSE sup[x].pc
      BY <1>1, <1>4, <2>2 DEF Cleanup, Thread
    <3> DEFINE K == {s}
    <3>2. K \in SUBSET DOMAIN sup
      BY <2>1
    <3>3. \A x : x \in DOMAIN sup' /\ sup'[x].pc # "dead"
                 <=> x \in DOMAIN sup \ K /\ sup[x].pc # "dead"
      BY <3>1
    <3> HIDE DEF K
    <3> QED BY <2>1, <3>1, <3>2, <3>3, EndsLease
  <2>3. CASE ~sup[s].tracked
    BY <1>4, <2>1, <2>3, EndsLease DEF Cleanup, Removed
  <2> QED BY <2>2, <2>3
<1>5. CASE HeartbeatOk(s) \/ HeartbeatAnswerLost(s)
  <2>1. Heartbeat(sup[s].d)
    BY <1>5 DEF HeartbeatOk, HeartbeatAnswerLost
  <2>2. SamePhases
    <3>1. \A e \in DOMAIN row : row[e] \in Row
      BY DEF IInv, FleetTypeOK, DepTypeOK, IsTable
    <3>2. /\ DOMAIN row' = DOMAIN row /\ UNCHANGED <<issued, tx>>
          /\ \A e \in DOMAIN row : /\ row'[e].desired = row[e].desired
                                   /\ row'[e].status = row[e].status
      BY <2>1, <3>1 DEF Heartbeat, Row
    <3> QED BY <3>2 DEF SamePhases, Phase, Wanted
  <2>3. DOMAIN sup' = DOMAIN sup
        /\ \A x \in DOMAIN sup : /\ sup'[x].d = sup[x].d
                                 /\ sup'[x].pc = sup[x].pc
    BY <1>1, <1>5 DEF HeartbeatOk, HeartbeatAnswerLost, Thread
  <2> QED BY <2>2, <2>3, ThreadsKeepHolders, Stutters
<1> QED BY <1>2, <1>3, <1>4, <1>5 DEF ThreadNext

\* A claim keeps every phase: what it touches was wanted and still is.
LEMMA ClaimKeepsPhases ==
    ASSUME DepTypeOK, NEW d \in Deps, Claim(d)
    PROVE  SamePhases /\ Phase(d) = "wanted"
<1>1. d \in DOMAIN row /\ Wanted(d) /\ row[d] \in Row
  BY DEF Claim, Claimable, DepTypeOK, IsTable
<1>2. row'[d].desired = row[d].desired
  BY <1>1 DEF Claim, Row
<1> QED BY <1>1, <1>2, ClaimedRow DEF SamePhases, Phase, Wanted

\* a claim that starts a thread acquires,
LEMMA ClaimStartLeases ==
    ASSUME IInv, NEW w \in Workers, NEW d \in Deps, NEW s \in Threads,
           ClaimStart(w, d, s)
    PROVE  Lease!LeaseNext
<1>1. /\ Claim(d) /\ DepTypeOK /\ s \notin DOMAIN sup
      /\ \A x \in DOMAIN sup : sup[x] \in Thread
  BY DEF ClaimStart, IInv, FleetTypeOK, IsTable
<1>2. SamePhases /\ Phase(d) = "wanted"
  BY <1>1, ClaimKeepsPhases
<1>3. Holders(d) = {}
  BY <1>1, ClaimFindsNoHolder DEF Holders, Running
<1>4. /\ \A x \in DOMAIN sup' \ {s} :
            /\ x \in DOMAIN sup
            /\ sup'[x].d = sup[x].d /\ sup'[x].pc = sup[x].pc
      /\ \A x \in DOMAIN sup : sup[x].pc # "dead" => x \in DOMAIN sup' \ {s}
      /\ s \in DOMAIN sup' /\ sup'[s].d = d /\ sup'[s].pc = "start"
  BY <1>1 DEF ClaimStart, Reaped, Thread
<1>5. Holders(d)' = {s}
  <2>1. ASSUME NEW x PROVE x \in Holders(d)' <=> x = s
    BY <1>1, <1>3, <1>4 DEF Holders, Running
  <2> QED BY <2>1
<1>6. ASSUME NEW e \in Deps \ {d} PROVE Holders(e)' = Holders(e)
  <2>1. ASSUME NEW x PROVE x \in Holders(e)' <=> x \in Holders(e)
    BY <1>1, <1>4 DEF Holders, Running
  <2> QED BY <2>1
<1> QED BY <1>2, <1>3, <1>5, <1>6, Acquires

\* and so is any step of a worker.
LEMMA WorkerLeases ==
    ASSUME IInv, NEW w \in Workers, WorkerNext(w)
    PROVE  [Lease!LeaseNext]_Lease!leaseVars
<1>1. CASE \E d \in Deps, s \in Threads : ClaimStart(w, d, s)
  BY <1>1, ClaimStartLeases
<1>2. CASE \E d \in Deps : ClaimLost(w, d)
  <2>1. SamePhases
    BY <1>2, ClaimKeepsPhases DEF ClaimLost, IInv, FleetTypeOK
  <2>2. SameHolders
    BY <1>2, ThreadsKeepHolders DEF ClaimLost, Removed, Reaped
  <2> QED BY <2>1, <2>2, Stutters
<1>3. CASE LoopIdle(w)
  <2>1. SameHolders
    BY <1>3, ThreadsKeepHolders DEF LoopIdle, Removed, Reaped
  <2> QED BY <1>3, <2>1, TableKeepsPhases, Stutters DEF LoopIdle
<1>4. CASE Shutdown(w) \/ CloseClient(w) \/ Restart(w)
  <2>1. UNCHANGED depVars /\ SameHolders
    BY <1>4, ThreadsKeepHolders DEF Shutdown, CloseClient, Restart
  <2> QED BY <2>1, TableKeepsPhases, Stutters
<1>5. CASE Exit(w) \/ Kill(w)
  <2> DEFINE K == {s \in DOMAIN sup : sup[s].w = w}
  <2>1. UNCHANGED depVars /\ sup' = Removed(sup, K)
    BY <1>5 DEF Exit, Kill, Gone
  <2>2. K \in SUBSET DOMAIN sup
    OBVIOUS
  <2> HIDE DEF K
  <2> QED BY <2>1, <2>2, EndsLease DEF Removed
<1> QED BY <1>1, <1>2, <1>3, <1>4, <1>5 DEF WorkerNext

\* Time is no step of the lease.
LEMMA TimeLeases ==
    ASSUME IInv, TimePasses
    PROVE  UNCHANGED Lease!leaseVars
<1>1. /\ \A x \in DOMAIN sup : sup[x] \in Thread
      /\ \A e \in DOMAIN row : row[e] \in Row
  BY DEF IInv, FleetTypeOK, DepTypeOK, IsTable
<1>2. /\ DOMAIN row' = DOMAIN row /\ UNCHANGED <<issued, tx>>
      /\ \A e \in DOMAIN row : /\ row'[e].desired = row[e].desired
                               /\ row'[e].status = row[e].status
  BY <1>1 DEF TimePasses, Tick, Aged, Row
<1>3. SamePhases
  BY <1>2 DEF SamePhases, Phase, Wanted
<1>4. DOMAIN sup' = DOMAIN sup
      /\ \A x \in DOMAIN sup : /\ sup'[x].d = sup[x].d
                               /\ sup'[x].pc = sup[x].pc
  BY <1>1 DEF TimePasses, Thread
<1>5. SameHolders
  BY <1>4, ThreadsKeepHolders
<1> QED BY <1>3, <1>5, Stutters

-----------------------------------------------------------------------------
(* The refinement. *)

\* Both start free.
LEMMA InitLeases == Init => Lease!LeaseInit
<1> SUFFICES ASSUME Init PROVE Lease!LeaseInit
  OBVIOUS
<1>1. \A d \in Deps : Phase(d) = "new" /\ Holders(d) = {}
  BY DEF Init, DepInit, Phase, Holders
<1> QED BY <1>1 DEF Lease!LeaseInit

\* Whatever is lost or dead, the table and the workers together behave as a
\* lease: one holder at a time, taken only while the deployment is wanted, and
\* never wanted again once withdrawn.  Provided as before that every holder is
\* answered within the TTL: a longer build is held by two.
THEOREM KeepsLeaseCorrect == ASSUME Timely PROVE Spec => KeepsLease
<1>1. IInv /\ [Next]_vars => [Lease!LeaseNext]_Lease!leaseVars
  <2> SUFFICES ASSUME IInv, [Next]_vars
               PROVE  [Lease!LeaseNext]_Lease!leaseVars
    OBVIOUS
  <2>1. CASE UserNext /\ UNCHANGED fleetVars
    BY <2>1, UserLeases DEF IInv, FleetTypeOK
  <2>2. CASE UNCHANGED vars
    <3>1. UNCHANGED depVars /\ SameHolders
      BY <2>2, ThreadsKeepHolders DEF vars, depVars
    <3> QED BY <3>1, TableKeepsPhases, Stutters
  <2> QED BY <2>1, <2>2, ThreadLeases, WorkerLeases, TimeLeases DEF Next
<1> QED BY <1>1, InitLeases, FleetInvariant, PTL
        DEF Spec, KeepsLease, Lease!LeaseSpec

=============================================================================
