CONSTANTS
    Sheets <- MCSheets
    StandIns <- MCStandIns
    Bodies <- MCBodies
    Actions <- MCActions
    Idle <- MCIdle
    HeroFile <- MCHeroFile
    Cycles <- MCCycles
    Heights = {5, 6}
    NoFile = NoFile
    Torn = Torn
    MaxMishaps = 2
SPECIFICATION MCSpec
INVARIANTS
    ManifestDescribes
    NeverMixed
    StripsFitIdle
