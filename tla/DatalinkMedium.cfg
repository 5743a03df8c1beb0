\* Two nodes, a frame that fits the buffers and one over the maximum length.  An
\* inbox holds DATA and a header: more arrives if the reader is slow.
CONSTANTS
    Nodes = {n1, n2}
    Payloads = {p1}
    Stale = p1
    Lengths = {1, 2}
    MaxFrameLength = 1
    BufferFrames = 1
    ReceiveBytes = 4
    ReleaseTime = 0
    InitAge = 1
SPECIFICATION FairSpec
INVARIANTS TypeOK ConflictEnds SilentWhileBlocked StuckReceiverIsBlocked
PROPERTIES MediumReleased BufferDrains
