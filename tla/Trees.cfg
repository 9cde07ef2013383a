SPECIFICATION Spec
CONSTANTS
    MaxInt = 15
    EnumerationCases <- MCEnumerationCases
    Canonical <- MCCanonical
    DerivationCases <- MCDerivationCases
    Received <- MCReceived
    Octet = 2
    WordSize = 2
    HashSize = 1
    Second = 2
    Magic <- MCMagic
INVARIANTS
    TreesTypesOK
    EnumerationIsTheLogs
    SetsAreCommitted
    CheckpointIsOne
