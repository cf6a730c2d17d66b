SPECIFICATION Spec
CONSTANTS
    NCells <- WriterCells
    MaxStep = 1
    Simulations <- TwoRanks
INVARIANT IdsOfRows
