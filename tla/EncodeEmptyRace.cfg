\* Two ranges of one tile, three pool threads, nothing fails.
SPECIFICATION Spec
CONSTANTS
    o1 = o1  o2 = o2  h1 = h1  h2 = h2
    NumRanges = 2
    Offsets = {o1}
    Tracked = {o1}
    NoHash = NoHash
    Hashes = {h1}
    Encodings <- OneEncoding
    Outcomes = {"ok"}
    Workers = {w1, w2, w3}
    QueueCap = 1
    Faults = {}
INVARIANTS NoEmptyTile
