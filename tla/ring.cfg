SPECIFICATION Spec
CONSTANTS
    N = 3
    BoxesInZ = 1
    MaxStep = 3
    SkipEmpty = FALSE
    UseMPI = TRUE
    EagerSmall = FALSE
    ParticleId = {p1}
    MaxSlip = 2
INVARIANTS SomeRankGoes BufferIntact GhostSliceExact
PROPERTIES ImplementsWavefront AllStepsDone
