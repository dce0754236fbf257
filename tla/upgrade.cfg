SPECIFICATION Spec
CONSTANTS
    Templates <- SmallTemplates
    Platforms <- AllPlatforms
    Means <- MeantBy
INVARIANTS LinksLeadUp
PROPERTIES LinksMissNothing UpgradesEnd
CHECK_DEADLOCK FALSE
