CONSTANTS
    Deps <- MCDeps
    Agents = {polaris}
    Personas = {polaris}
    TTL = 0
    Reports = {"running", "failed"}
SPECIFICATION DepSpec
INVARIANTS DepTypeOK BundlePresent
PROPERTIES RetiredForGood
