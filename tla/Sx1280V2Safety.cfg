\* Every client call and handler, chip events inside task runs included.
CONSTANTS
    NoFrame = NoFrame
    Frames = {f1, f2}
    Oversized = {}
    Channels = {c1}
    Delays = {1}
    PacketMode = "Limited"
    RxActiveTimeout = 0
    TxActiveTimeout = 0
    TxPrepareLeadTime = 1
    RxDeadTime = 1
    Toggles = TRUE
    MidRun = TRUE
    Fading = FALSE
SYMMETRY MCSymmetry
VIEW MCQueueView
SPECIFICATION Spec
INVARIANTS TypeOK NoFrameStranded ChipFollowsState RequestsSettled ReceivingIsPolled
PROPERTIES QueueSpec
