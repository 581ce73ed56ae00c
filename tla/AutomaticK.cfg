SPECIFICATION MCSpec
CONSTANTS
  Subjects = {"sizing"}
  Regions <- PlainRegions
  TableLengths = {8, 9}
  InstanceRows = {0}
  BlindingFactors = 6
  MaxRotation = 1
  MaxCalls = 3
  TableColumns = {t1}
  Values = {0}
  Zero = 0
  None = None
  UsableRows = 3
  a1 = a1
  a2 = a2
  fx = fx
  MaxRegions = 0
  MaxRows = 2
  MaxConstants = 2
  AdviceColumns <- MCAdvice
  OtherColumns <- MCOther
  ConstantColumns <- MCConstantColumns
  ColumnOrder <- MCColumnOrder
  Circuits <- MCCircuits
INVARIANT AutomaticKSuffices
CHECK_DEADLOCK FALSE
