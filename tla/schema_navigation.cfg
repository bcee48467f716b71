CONSTANTS
    Schemas <- AllSchemas
    Idents <- AllIdents
SPECIFICATION NavSpec
INVARIANTS
    MembersAreWhatResolves
    MembersAreInherited
    OwnThenInherited
    EarliestWins
    AssociationsBothWays
