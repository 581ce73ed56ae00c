SPECIFICATION MCSpec
CONSTANTS
  Subjects = {"sizing", "tables", "regions"}
  Regions <- MCRegions
  TableLengths = {1, 8, 9, 10}
  InstanceRows = {0, 8, 9}
  BlindingFactors = 6
  MaxRotation = 1
  MaxCalls = 3
  TableColumns = {t1, t2, t3}
  Values = {0, 1}
  Zero = 0
  None = None
  UsableRows = 3
  a1 = a1
  a2 = a2
  fx = fx
  MaxRegions = 5
  MaxRows = 2
  MaxConstants = 2
  AdviceColumns <- MCAdvice
  OtherColumns <- MCOther
  ConstantColumns <- MCConstantColumns
  ColumnOrder <- MCColumnOrder
  Circuits <- MCCircuits
INVARIANTS SizesAreLeast TableFilled PlanIsSound
PROPERTIES FinishedTablesFrozen SlotsAtEarliestRow
CHECK_DEADLOCK FALSE
