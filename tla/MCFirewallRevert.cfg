SPECIFICATION FirewallSpec
CONSTANTS
    Hosts = {h1, h2}
    MaxRuns = 2
INVARIANTS
    RevertUndoes
CHECK_DEADLOCK FALSE
