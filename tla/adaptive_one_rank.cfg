SPECIFICATION Spec
CONSTANTS
    N = 1
    BoxesInZ = 1
    MaxStep = 2
    UseMPI = TRUE
    ParticleId = {p1}
    MaxSlip = 1
INVARIANTS BeamAtTime
