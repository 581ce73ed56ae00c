SPECIFICATION MCSpec
CONSTANTS
  Rate = 2
  Inputs = {0, 1, 2}
  Lengths = {0, 1, 2, 3, 1000000}
  MaxAbsorbs = 3
  MaxSqueezes = 4
  Block256 = 4
  LengthBytes = 1
  Elements = {0, 1}
  MaxVector = 8
  Keys = {k1, k2}
  MapValues = {d, v}
  Default = d
  Height = 2
  Placements <- MCPlacements
  AlphabetSize = 2
  Bytes <- MCBytes
  Outputs = {0, 1}
  MaxWord = 3
  MaxCalls = 2
  Prime = 31
  AutomatonParallelism = 2
  SubstringParallelism = 2
  LenBits = 2
  MaxRequests = 3
  A = 3
  B = 3
  NativeModulus = 263
  EmulatedModulus = 5
  LOG2_BASE = 2
  NB_LIMBS = 2
  AuxiliaryModuli <- MCModuli
  MaxLimbBound = 16
  LimbMargin = 3
  FactorMargin = 2
  RangeColumns = 3
  RangeBits = 2
  NativeCapacity = 8
  BitsPerByte = 2
  Encodings = {0, 2, 4, 5, 7}
  Constants = {0, 1, 2, 4}
  Combinations <- MCCombinations
  MaxFieldCalls = 4
  Modulus = 13
  NbArithCols = 5
  ByteBits = 3
  NrPow2RangeCols = 2
  MaxBitLen = 2
  Scalars = {0, 1, 6}
  RangeBounds = {2, 3, 8, 11}
  Divisions <- MCDivisions
  MaxGadgetCalls = 3
INVARIANTS SpongeBindsHistory VectorIsItsPayload AutomataAreExact ParsesAreExact SubstringChecksAreExact
  FieldIsExact GatesAreExact GadgetIsExact BoundsAreEnforced
PROPERTIES RootImplementsMap GadgetProvesMap
CHECK_DEADLOCK FALSE
