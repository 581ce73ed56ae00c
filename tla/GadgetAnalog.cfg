SPECIFICATION ProvedSpec
CONSTANTS
  N = 16
  NumAdvice = 2
  NumInstance = 2
  NumFixed = 1
  Circuits <- ProvedCircuits
  MaxCalls = 0
  Statements <- MCStatements
  FeatureSets = {{}, {"fewer-point-sets", "single-h-commitment"}}
  adv1 = adv1
  adv2 = adv2
  fx = fx
  sel = sel
  inst = inst
  MaxRegions = 1
  UsableRows = 5
  Advice <- MCAdvice
  Fixed <- MCFixed
  Selectors <- MCSelectors
  EqualityColumns <- MCEquality
  ConcreteCircuits <- MCConcreteCircuits
INVARIANTS GadgetIsAnalog
CHECK_DEADLOCK FALSE
