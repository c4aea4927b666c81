\* Two pool threads under fair scheduling, a queue of one, every failure.
SPECIFICATION FairSpec
CONSTANTS
    o1 = o1  o2 = o2  h1 = h1  h2 = h2
    NumRanges = 3
    Offsets = {o1, o2}
    Tracked = {o1}
    NoHash = NoHash
    Hashes = {h1, h2}
    Encodings <- MCEncodings
    Outcomes = {"ok", "empty", "invalid", "unreadable"}
    Workers = {w1, w2}
    QueueCap = 1
    Faults = {"directory", "write", "finish"}
INVARIANTS TypeOK TasksRunOnce EntriesAgree OneDataWriter FinishedIsQuiet OnlyUncaughtLost
PROPERTY ShutdownEnds
CHECK_DEADLOCK FALSE
