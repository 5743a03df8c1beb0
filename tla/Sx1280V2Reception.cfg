\* Clients that open the gate first and never stop RX; explicit headers;
\* chip events inside task runs included; f3 is longer than a packet may be.
CONSTANTS
    NoFrame = NoFrame
    Frames = {f1, f3}
    Oversized = {f3}
    Channels = {c1, c2}
    Delays = {1}
    PacketMode = "Dynamic"
    RxActiveTimeout = 0
    TxActiveTimeout = 0
    TxPrepareLeadTime = 2
    RxDeadTime = 1
    Toggles = FALSE
    MidRun = TRUE
    Fading = TRUE
SYMMETRY MCSymmetry
SPECIFICATION Spec
INVARIANTS DeliveredIntact DeliveredOnce ChannelTracked
PROPERTIES TransmissionNotAborted TxOnSelectedChannel
