SPECIFICATION FirewallSpec
CONSTANTS
    Hosts = {h1, h2}
    MaxRuns = 3
INVARIANTS
    ProvidedReachable
PROPERTIES
    NeverHalfApplied
CHECK_DEADLOCK FALSE
