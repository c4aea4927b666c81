\* Two columns, values of every kind, features of every shape and malformed ones.
SPECIFICATION BufferSpec
CONSTANTS
    yes = yes  one = one  half = half
    name1 = name1  name2 = name2
    Names = {name1, name2}
    Inputs <- MCInputs
    Raws <- MCRaws
    Ids = {}
    NoId = NoId
    NoValue = NoValue
    NoDraft = NoDraft
    Default = Default
    Far = 7
    Kinds <- PropKinds
    ValuesOf <- MCValuesOf
    CoordLists <- MCCoordLists
    MaxVertices = 1000
    MaxParts = 1000
    MaxFeatures = 2
    MaxSets = 3
    MaxText = 2
SYMMETRY Renaming
\* Deadlock is checked: a call of the replay that the writer refuses is one.
INVARIANTS BufferTypeOK PartsFit EncodesWhatWasGiven
