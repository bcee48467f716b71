CONSTANTS
    Schema <- TestSchema
    SOURCE_METHOD <- All
    ESTABLISHING_METHODS <- EstablishingMethods
    REF_METHODS <- RefMethods
    Vocab <- TestVocab
    Queries <- TestQueries
    Strays <- TestStrays
    StrayBytes <- TestStrayBytes
    MaxStray = 2
SPECIFICATION Spec
INVARIANTS
    TypeOK
    GoldAdmitted
    PhantomsMasked
    MaskIsOfTheText
    MemoIsInvisible
    FragmentsDriveAlike
    NarrowsOnly
    NotStranded
    MemoFresh
    BindingsUnwind
