--------------------------- MODULE MCWorkerFleet ---------------------------
(***************************************************************************)
(* The workers and the table on small instances: one deployment, which may *)
(* change hands, or two, which compete for one worker.  Workers and        *)
(* threads are interchangeable, deployments are not: the oldest one is     *)
(* claimed first.                                                          *)
(***************************************************************************)
EXTENDS WorkerFleet, TLC

MCDeps == {1}
MCTwoDeps == {1, 2}
MCSymmetry == Permutations(Workers) \cup Permutations(Threads)

\* A second deployment comes only if both are uploads, one worker has all the
\* threads, two at most, and no fault has occurred.
MCTwoShareOneWorker ==
    Cardinality(issued) <= 1 \/
        /\ faults = 0 /\ Cardinality(DOMAIN sup) <= 2
        /\ \A d \in DOMAIN row : ~row[d].builtin
        /\ \A d \in DOMAIN tx : ~tx[d].builtin
        /\ \E w \in Workers :
              /\ \A v \in Workers \ {w} : wk[v] = "up"
              /\ \A s \in DOMAIN sup : sup[s].w = w
=============================================================================
