CONSTANTS
    Archs <- MCArchs
    TokSizes = {0, 13}
    QBlock = 4
    Weights <- MCWeights
    MaxBlocks = 2
    MaxRows = 3
    MaxBatch = 3
    Floats <- MCFloats
    Halves <- MCHalves
SPECIFICATION Spec
INVARIANTS CutFileIsNotRun ReadsFindTheirTensor 
