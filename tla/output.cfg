SPECIFICATION Spec
CONSTANTS
    NCells <- WriterCells
    MaxStep = 3
    Simulations <- WriterSimulations
INVARIANTS SlotsWrittenOnce UniqueIds InjectsTheSame EachParticleOnce DumpOfOneTime FieldsInterpolated RestartKeepsBeam
