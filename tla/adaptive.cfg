SPECIFICATION Spec
CONSTANTS
    N = 3
    BoxesInZ = 1
    MaxStep = 4
    UseMPI = TRUE
    ParticleId = {p1, p2}
    MaxSlip = 1
INVARIANTS BeamAtTime DtFromWholeBeam SameFirstDt
PROPERTIES AllStepsDone
