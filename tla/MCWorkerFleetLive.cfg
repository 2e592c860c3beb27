CONSTANTS
    Deps <- MCDeps
    Agents = {polaris}
    Personas = {}
    TTL = 1
    Reports = {"building", "running", "stopped", "failed"}
    Workers = {w1, w2}
    Threads = {s1, s2}
    MaxConcurrent = 1
    BuildMax = 1
    HeartbeatMax = 1
    GraceMax = 1
    MaxFaults = 2
SPECIFICATION FairSpec
PROPERTIES StopObeyed WantedIsPickedUp
