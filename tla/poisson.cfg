SPECIFICATION Spec
CONSTANTS
    P = 241
    Generator = 7
    TileDim = 2
    BlockRows = 1
    MaxSolves = 2
    Solvers <- AllSolvers
INVARIANTS KernelsInBounds SineTransformed PoissonSolved PeriodicSolved
