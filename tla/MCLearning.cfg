SPECIFICATION Spec
CONSTANTS
    NNodes = 5
    Tensors <- MCTensors
    Models <- MCModels
    BytesPerChunk = 11
    QuantizationBits = 8
    FractionsPct = {33, 60}
    Attacks = {"none", "sign_flip"}
    NByzantine = 1
    Noise <- MCNoise
    ClassSizes = {2, 5}
    Denominator = 3
    MaxMissing = 3
CONSTRAINT InOrder
CHECK_DEADLOCK FALSE
INVARIANTS PartitionsCover MeanOfContributions KrumHonest
