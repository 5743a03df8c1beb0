\* Refutes NoBadPacket when clients may shut the gate again.
CONSTANTS
    NoFrame = NoFrame
    Frames = {f1, f2}
    Oversized = {}
    Channels = {c1}
    Delays = {2}
    PacketMode = "Dynamic"
    RxActiveTimeout = 0
    TxActiveTimeout = 0
    TxPrepareLeadTime = 2
    RxDeadTime = 1
    Toggles = TRUE
    MidRun = FALSE
    Fading = FALSE
SPECIFICATION Spec
INVARIANTS NoBadPacket
