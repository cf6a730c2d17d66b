SPECIFICATION Spec
CONSTANTS
    NSlices = 6
    MaxStep = 1
    MaxIter = 2
    Configs <- SolverConfigs
INVARIANTS PsiSource EzBzSource BxBySource ExplicitSource GuessFromSlicesBefore CoarseBoundary SliceSolved ForcesOfLastSlices BinsReady
