CONSTANTS
 BaseModulus = 103
 A = 0
 B = 4
 Order = 37
 COFACTOR = 3
 Generator <- MCGenerator
 BaseZeta = 56
 ScalarZeta = 10
 WS = 2
 ShortBits = 4
 FreeCoordinates = {0,1,8}
 Randomness <- MCRandomness
 MaxPoints = 4
SPECIFICATION ConstantsSpec
INVARIANT CallsAreExact
CHECK_DEADLOCK FALSE
