SPECIFICATION Spec
CONSTANTS
    Terms <- MCTerms
    StartsWith <- MCStartsWith
    Letters <- MCLetters
    StopWords = {"from"}
    Corrections <- MCCorrections
    Related <- MCRelated
    MaxExtra = 2
    Text <- MCText
    Workloads <- MCWorkloads
    StoreNames = {"a", "b"}
    MaxSources = 2
    AdaptEvery = 2
    Window = 4
    MinData = 2
INVARIANTS
  OnlyCutReranksLeaveTheirQuery
  SourcesAreTheStoresOwn
  FusionIsSound
  TitledNoteLeads
PROPERTIES
  AlphaFollowsEvidence
CHECK_DEADLOCK FALSE
