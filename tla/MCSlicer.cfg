CONSTANTS
    Inputs <- MCInputs
    MinArea = 3
    MinPart = 2
    Pad = 1
    Space = 2
    MinOpaque = 4
SPECIFICATION Spec
CHECK_DEADLOCK FALSE
INVARIANTS
    BackgroundGone
    InteriorStays
    PiecesExact
    PiecesStayWhole
    RoundTrip
PROPERTY
    KnockOutEnds
