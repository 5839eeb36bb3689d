SPECIFICATION FairSpec
CONSTANTS
    MaxSteps = 3
    Canonical <- MCCanonical
    FirstNumber <- MCFirstNumber
    Rank <- MCRank
    OtherWords = {"N/A", "MAYBE"}
    Dates <- MCDates
    Terms <- MCTerms
    Guides <- MCGuides
    Sheet <- MCSheet
    Alias <- MCAlias
    Traits <- MCTraits
    Jobs <- MCAllJobs
    LlmValues <- MCLlmValues
INVARIANTS
    TypeOK
    SchemaIsCovered
    BuiltinIsCovered
    VotesAreMajorities
    RefutedIsShown
    DependentsFollow
    DateChecksAgree
    DerivedFromBaseLease
PROPERTIES
    EveryRunEnds
CHECK_DEADLOCK FALSE
