SPECIFICATION Spec
CONSTANTS
    N = 3
    BoxesInZ = 1
    MaxStep = 2
    SkipEmpty = TRUE
    UseMPI = TRUE
    EagerSmall = TRUE
    ParticleId = {p1}
    MaxSlip = 0
PROPERTIES AllStepsDone
CHECK_DEADLOCK FALSE
