\* One node between two others, with a datalink to each.  The addresses of two
\* differ only in the order of their bytes.
CONSTANTS
    Nodes = {1, 256, 257}
    Datalinks = {{1, 256}, {1, 257}}
    ClientHeaders <- MCClientHeaders
    Payloads <- MCPayloads
    MaxInFlight = 1
    TimeoutInterval = 1
    SendInterval = 0
    Period = 1
SPECIFICATION Spec
INVARIANTS TypeOK ReachabilityIsCurrent EntriesTellSilence CalledAsAddressed
