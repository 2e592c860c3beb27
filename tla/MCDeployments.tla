--------------------------- MODULE MCDeployments ---------------------------
(***************************************************************************)
(* The table alone on a small instance: three deployments of one agent,    *)
(* enough for two transactions to meet over a row and the bundle it may    *)
(* share.                                                                  *)
(***************************************************************************)
EXTENDS Deployments

MCDeps == 1 .. 3
=============================================================================
