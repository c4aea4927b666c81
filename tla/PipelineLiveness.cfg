\* No panic: the conversion returns, implements OrderedConversion, leaves nothing.
SPECIFICATION FairSpec
CONSTANTS
    NumIds = 4
    Outcomes = {"tile", "missing", "unreadable", "unencodable"}
    Encoders = {w1, w2}
    Cap = 2
    OutCap = 1
    Faults = {"runtime", "write", "finalize"}
INVARIANT DoneIsComplete
PROPERTIES ConversionSpec ConversionReturns TornDownIfEncodable
