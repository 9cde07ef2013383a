SPECIFICATION Spec
CONSTANTS
    Versions = {"v1", "v2"}
    Never = 9
    Receipts <- MCReceipts
    Verifiers <- MCVerifiers
    Tokens <- MCTokens
    Lower <- MCLower
    Rank <- MCRank
    Declarations <- MCDeclarations
    Octets = {1, 31}
    Separator = 31
    DigestSize = 2
    Strings <- MCStrings
    MaxParameters = 2
    MaxBlanks = 1
    Chains <- MCChains
    DigestOf <- MCDigestOf
    Numerals <- MCNumerals
    ValueOf <- MCValueOf
    WidthOf <- MCWidthOf
    SecondsIn <- MCSecondsIn
    FractionDigits = 2
    MaxComponent = 99
    MaxTotal = 2147483647
    Texts <- MCTexts
INVARIANTS
    ClaimsTypesOK
    RecordResultIsEarned
    DescriptorIsTheMeaning
    ManifestIsAsDeclared
    DurationIsExact
