SPECIFICATION Spec
CONSTANTS
  ByteBits = 3
  WordBits = 6
  Layers <- MCLayers
  Columns <- MCColumns
  TypeOf <- MCTypeOf
  Options <- MCOptions
  MaxShared = 1
INVARIANTS
  TypeOK
  GeometriesReadBack
  VertexRangesTile
  TrianglesReadBack
  ColumnsReadBack
  CodingsAgree
CHECK_DEADLOCK FALSE
