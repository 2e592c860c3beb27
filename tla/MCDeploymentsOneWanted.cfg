CONSTANTS
    Deps <- MCDeps
    Agents = {polaris}
    Personas = {polaris}
    TTL = 0
    Reports = {"running"}
SPECIFICATION DepSpec
INVARIANT OneWantedPerAgent
