--------------------------- MODULE MCCommandQueue ---------------------------
(***************************************************************************)
(* The command queue on small instances: one agent that commands itself,   *)
(* served by one bot or two.                                               *)
(***************************************************************************)
EXTENDS CommandQueue, TLC

MCTwoCmds == 1 .. 2
MCCmds == 1 .. 3
MCAgentOf == [b \in Bots |-> CHOOSE a \in Agents : TRUE]
MCMayDispatch == Agents \X Agents
MCRuleKeys == {<<a, a, "kind">> : a \in Agents}
MCSymmetry == Permutations(Bots)
=============================================================================
