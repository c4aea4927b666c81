\* A tile whose bytes cannot be read.
SPECIFICATION Spec
CONSTANTS
    o1 = o1  o2 = o2  h1 = h1  h2 = h2
    NumRanges = 2
    Offsets = {o1}
    Tracked = {o1}
    NoHash = NoHash
    Hashes = {h1}
    Encodings <- OneEncoding
    Outcomes = {"ok", "unreadable"}
    Workers = {w1, w2}
    QueueCap = 1
    Faults = {}
INVARIANTS SuccessIsComplete
CHECK_DEADLOCK FALSE
