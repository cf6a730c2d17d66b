SPECIFICATION Spec
CONSTANTS
    N = 2
    BoxesInZ = 1
    MaxStep = 3
    SkipEmpty = FALSE
    UseMPI = TRUE
    EagerSmall = TRUE
    ParticleId = {p1, p2}
    MaxSlip = 1
INVARIANTS TypeOK PushedOncePerStep NoParticleTwice TimeOfStep ChannelsExact
PROPERTIES NoParticleLost
