SPECIFICATION FairMCSpec
CONSTANTS
  Keys = {A, B}
  A = A
  B = B
  Arch <- MCArch
  SetupArch = arch
  Statements = {s}
  Provable <- MCProvable
  NoKey = NoKey
  Panic = Panic
  Self = Self
  Foreign = Foreign
  MayMix = TRUE
  MaxProofs = 2
  ToyMaxProofs = 3
  Circuits = {A, B}
  NbPublicInputs <- MCNbPublicInputs
  Errors <- MCErrors
  MaxBatch = 2
  Chains = {"toy", "aggregation", "batch", "copies"}
  Columns = {a, b}
  OtherColumns = {z}
  N = 2
INVARIANTS ChainSound HonestStepsVerify ClaimsProved BatchSound
  TypeOK CyclesAreClasses SizesCountClasses RelabelsLogarithmic
PROPERTIES CopyReturns ImplementsEqualityClasses
CHECK_DEADLOCK FALSE
