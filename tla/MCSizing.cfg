SPECIFICATION Spec
CONSTANTS
    One = 2
    Cap = 8
    MaxResidual = 2
    tolerance = 1
    max_iterations <- Iterations
    Rounding <- Roundings
    Outcomes = 3
    Unit = 9
    kelly_fraction = 5
    max_exposure = 2
INVARIANTS
    RootStaysBracketed
    GivesUpOnlyInVain
    KellyOptimal
\* a market is sized once
CHECK_DEADLOCK FALSE
