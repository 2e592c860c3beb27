CONSTANTS
    Cmds <- MCCmds
    Agents = {polaris}
    Bots = {b1}
    AgentOf <- MCAgentOf
    RuleKeys = {}
    MayDispatch <- MCMayDispatch
    MaxDepth = 2
    MaxPerDay = 3
    MaxOpen = 2
    MaxRequests = 1
    Fanout = 2
    MaxFaults = 0
SPECIFICATION Spec
INVARIANTS RefusedOnlyIfDeep
CHECK_DEADLOCK FALSE
