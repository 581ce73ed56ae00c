SPECIFICATION MCSpec
CONSTANTS
  Keys = {A, B}
  A = A
  B = B
  Arch <- MCArch
  SetupArch = arch
  Statements = {s}
  Provable <- MCProvable
  NoKey = NoKey
  Panic = Panic
  Self = Self
  Foreign = Foreign
  MayMix = FALSE
  MaxProofs = 2
  ToyMaxProofs = 4
  Circuits = {A, B}
  NbPublicInputs <- MCNbPublicInputs
  Errors <- MCErrors
  MaxBatch = 2
  Chains = {"toy"}
  Columns = {a, b}
  OtherColumns = {z}
  N = 2
INVARIANT GenesisAccumulatorIsTrivial
CHECK_DEADLOCK FALSE
