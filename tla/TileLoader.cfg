\* Two ends of zoom 2 and a view that shows no tile, channels of one, a budget
\* that two loaded tiles exceed, a loader that may not start and queries that fail.
SPECIFICATION FairSpec
CONSTANTS
    Views <- MCViews
    Content <- MCContent
    NoTile = NoTile
    RequestCap = 1
    ResultCap = 1
    CacheBytes = 5
    LoadedBytes = 4
    EntryBytes = 1
    Faults = {"open", "query"}
INVARIANTS TypeOK LoadingIsUnderWay HoveredIsCached
PROPERTIES StaysDrawn VisibleSettles StopIsReported
