SPECIFICATION FairSpec
CONSTANTS
    Inner = {a, b}
    Bucket = {x, y}
    PortMin = 1
    PortMax = 3
    Timeout = 0
    Rules = {}
    None = None
INVARIANTS
    PortsAreExclusive
PROPERTIES
    RepliesReachTheUser
    KeptWhileUsed
    AbandonedGoes
    ImplementsPortPool
