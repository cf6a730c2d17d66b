SPECIFICATION Spec
CONSTANTS
    N = 2
    BoxesInZ = 1
    MaxStep = 2
    SkipEmpty = FALSE
    UseMPI = TRUE
    EagerSmall = TRUE
    ParticleId = {p1}
    MaxSlip = 0
INVARIANTS PlasmaTimeOfStep
