\* Progress under the fairness of the cooperative scheduler.
CONSTANTS
    NoFrame = NoFrame
    Frames = {f1, f2}
    Oversized = {}
    Channels = {c1}
    Delays = {2}
    PacketMode = "Limited"
    RxActiveTimeout = 0
    TxActiveTimeout = 0
    TxPrepareLeadTime = 2
    RxDeadTime = 1
    Toggles = FALSE
    MidRun = FALSE
    Fading = FALSE
SPECIFICATION FairSpec
PROPERTIES EveryFrameLeaves ReceivingEnds RxDoneNoticed
