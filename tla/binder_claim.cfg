CONSTANTS
    Schema <- TestSchema
    SOURCE_METHOD <- All
    ESTABLISHING_METHODS <- EstablishingMethods
    REF_METHODS <- RefMethods
    Vocab <- TestVocab
    Queries <- BinderClaimQueries
    Strays <- TestStrays
    StrayBytes <- TestStrayBytes
    MaxStray = 0
SPECIFICATION Spec
INVARIANT GoldAdmitted
