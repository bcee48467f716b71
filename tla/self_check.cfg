CONSTANTS
    Vocabs <- AllVocabs
    SampleLists <- AllSampleLists
SPECIFICATION Spec
INVARIANTS
    TypeOK
    VerdictIsAboutTheVocabulary
PROPERTY Terminates
CHECK_DEADLOCK FALSE
