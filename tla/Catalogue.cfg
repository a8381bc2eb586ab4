SPECIFICATION Spec
CONSTANTS
    NaN = NaN
    Early = Early
    Middle = Middle
    Late = Late
    Coming = Coming
    Accented = Accented
    Blank = Blank
    Docs <- MCDocs
    Title <- MCTitle
    Year <- MCYear
    Seeds <- MCSeeds
    Filters <- MCFilters
    Paths = {2, 7, 13, NaN}
    MaxId = 4
    Limits = {2, 3}
    Half = 6
    MaxLimit = 2
    Batch = 2
    MaxTitle = 2
    MinYear = 1
    FirstYear = 3
    MaxNow = 4
INVARIANTS
    CatalogueInv
    StoredIsReadable
    ShortPageEnds
    WalkFollowsChanges
