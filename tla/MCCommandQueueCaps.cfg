CONSTANTS
    Cmds <- MCCmds
    Agents = {polaris}
    Bots = {b1, b2}
    AgentOf <- MCAgentOf
    RuleKeys = {}
    MayDispatch <- MCMayDispatch
    MaxDepth = 2
    MaxPerDay = 1
    MaxOpen = 2
    MaxRequests = 1
    Fanout = 2
    MaxFaults = 0
SPECIFICATION Spec
SYMMETRY MCSymmetry
INVARIANTS HopsBounded CapOverrun
CHECK_DEADLOCK FALSE
