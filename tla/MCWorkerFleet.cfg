CONSTANTS
    Deps <- MCTwoDeps
    Agents = {polaris}
    Personas = {polaris}
    TTL = 3
    Reports = {"building", "running", "stopped", "failed"}
    Workers = {w1, w2}
    Threads = {s1, s2, s3}
    MaxConcurrent = 1
    BuildMax = 3
    HeartbeatMax = 1
    GraceMax = 2
    MaxFaults = 2
SYMMETRY MCSymmetry
SPECIFICATION Spec
CONSTRAINT MCTwoShareOneWorker
INVARIANTS Capacity StopWasAsked IInv AtMostOneBot EndedMeansDead
PROPERTIES EndedForGood KeepsLease
