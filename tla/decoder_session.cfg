CONSTANTS
    Sessions = {s1, s2}
    Vocab <- Tokens
    HostBytes <- OneByOne
    MaxText = 9
    MaxBuilt = 2
SYMMETRY SessionSymmetry
SPECIFICATION Spec
INVARIANTS
    TypeOK
    CacheServesEveryStack
PROPERTY RefinesDecoding
