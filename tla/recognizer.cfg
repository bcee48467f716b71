CONSTANT MaxDepth = 3
SPECIFICATION Spec
INVARIANTS
    TypeOK
    ScopeOK
    NoBareSource
    Completable
PROPERTY RefinesDelimiters
