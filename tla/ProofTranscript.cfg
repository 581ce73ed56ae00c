SPECIFICATION MCSpec
CONSTANTS
  N = 16
  NumAdvice = 2
  NumInstance = 2
  NumFixed = 1
  MaxCalls = 3
  Circuits <- MCCircuits
  Statements <- MCStatements
  FeatureSets = {{}, {"fewer-point-sets", "single-h-commitment"}}
  adv1 = adv1
  adv2 = adv2
  fx = fx
  sel = sel
  inst = inst
  MaxRegions = 4
  UsableRows = 5
  Advice <- MCAdvice
  Fixed <- MCFixed
  Selectors <- MCSelectors
  EqualityColumns <- MCEquality
  ConcreteCircuits <- MCConcreteCircuits
INVARIANTS QueriesAreTracked EveryEvaluationBlinded ConversionKeepsSizes DegreeCovers
  TranscriptsAgree FaithfulProofsPass ChallengesBindInstances
  QueriesAreDistinct GadgetMirrorsVerifier
  NothingLost RegionsPacked ProofFitsKeys
CHECK_DEADLOCK FALSE
