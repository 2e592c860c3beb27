CONSTANTS
    Deps <- MCDeps
    Agents = {polaris}
    Personas = {}
    TTL = 2
    Reports = {"building", "running", "stopped", "failed"}
    Workers = {w1, w2}
    Threads = {s1, s2}
    MaxConcurrent = 1
    BuildMax = 5
    HeartbeatMax = 1
    GraceMax = 1
    MaxFaults = 0
SPECIFICATION Spec
INVARIANT AtMostOneBot
