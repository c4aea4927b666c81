\* Every outcome and every failure, all interleavings. A panicked encoder leaves a
\* gap, and the threads may then wait for one another: no deadlock check.
SPECIFICATION Spec
CONSTANTS
    NumIds = 5
    Outcomes = {"tile", "missing", "unreadable", "unencodable", "panics"}
    Encoders = {w1, w2, w3}
    Cap = 3
    OutCap = 1
    Faults = {"runtime", "write", "finalize"}
SYMMETRY EncoderSymmetry
INVARIANTS TypeOK PermitsConserved InFlightBounded TileInOnePlace OutputInOrder
CHECK_DEADLOCK FALSE
