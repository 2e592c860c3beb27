CONSTANTS
    Cmds <- MCTwoCmds
    Agents = {polaris}
    Bots = {b1, b2}
    AgentOf <- MCAgentOf
    RuleKeys <- MCRuleKeys
    MayDispatch <- MCMayDispatch
    MaxDepth = 2
    MaxPerDay = 1
    MaxOpen = 2
    MaxRequests = 2
    Fanout = 2
    MaxFaults = 0
SPECIFICATION Spec
INVARIANTS RejectedIsNotRun
