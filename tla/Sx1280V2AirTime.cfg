\* Refutes AcceptedIsSent.
CONSTANTS
    Sizes = {8, 9, 10, 11, 128}
    SFs = {7, 8, 9}
    BWs = {4, 8}
    CRs = {1, 7}
SPECIFICATION Spec
INVARIANTS AcceptedIsSent
