\* Refutes SendsAnnouncedFrame.
CONSTANTS
    Nodes = {n1, n2}
    Payloads = {p1, p2}
    Stale = Stale
    Lengths = {1}
    MaxFrameLength = 3
    BufferFrames = 2
    ReceiveBytes = 8
    ReleaseTime = 1
    InitAge = 2
SPECIFICATION Spec
INVARIANTS SendsAnnouncedFrame
