SPECIFICATION FairSpec
CONSTANTS
    Emitters = {e1, e2}
    Ids = {a, b}
    Docs <- Every
    FoundRows <- Old
    FoundBundles <- OldBundles
    Found = Found
    Nobody = Nobody
    a = a
    b = b
INVARIANTS TypeOK Inductive AnswersAreTrue UniqueIds DuplicateIsReal TempsAreCleared
PROPERTIES ImplementsBundle EmittersEnd
CHECK_DEADLOCK FALSE
