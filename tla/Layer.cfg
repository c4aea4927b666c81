\* One string column, two features of two vertices in two parts, resets.
SPECIFICATION Spec
CONSTANTS
    c1 = c1  c2 = c2  text = text  yes = yes
    Names = {"a"}
    Kinds = {"Str"}
    ValuesOf <- MCStrings
    NoValue = NoValue
    Default = Default
    Ids = {7}
    NoId = NoId
    NoDraft = NoDraft
    CoordLists <- MCCoordLists
    MaxVertices = 2
    MaxParts = 2
    MaxFeatures = 2
INVARIANTS TypeOK EndsTile ColumnsAligned
PROPERTY LayerSpec
