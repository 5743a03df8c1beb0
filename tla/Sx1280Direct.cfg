\* Two frames of different lengths, three framings, single and continuous RX.
CONSTANTS
    f1 = f1
    f2 = f2
    NoFrame = NoFrame
    Frames <- MCFrames
    Size <- MCSize
    Channels = {c1, c2}
    Modulations = {m1, m2}
    Timeouts <- MCTimeouts
    MaxFrameLength = 2
    FullLength = 4
    RadioTimeoutMax = 2
    MaxStrays = 1
SYMMETRY MCSymmetry
VIEW MCView
SPECIFICATION Spec
INVARIANTS TypeOK StagedOrApplied LoadedIsInChip TransmissionTracked OneOutcome
PROPERTIES CountedOnce
