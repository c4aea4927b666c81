\* A tile that does not encode leaves a gap in the sequence: threads park for good.
SPECIFICATION FairSpec
CONSTANTS
    NumIds = 4
    Outcomes = {"tile", "unencodable"}
    Encoders = {w1, w2}
    Cap = 2
    OutCap = 1
    Faults = {}
PROPERTY TornDown
