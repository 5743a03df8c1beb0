\* Refutes CompleteIsPublished.
CONSTANTS
    Senders = {s1, s2}
    Ports = {1, 2}
    Port = 1
    Lengths = {1, 3, 4}
    Checksums = {0, 1}
    EmptyChecksum = 0
    SegmentSize = 2
    IdSpan = 3
    WordSpan = 4
    MaxSent = 2
SPECIFICATION Spec
PROPERTIES CompleteIsPublished
