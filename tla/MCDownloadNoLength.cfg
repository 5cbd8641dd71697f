CONSTANTS
    ChunkSize = 2
    TagSize = 1
    Sizes = {3, 4}
    MaxNet = 2
    NonceBase = 1
    NonceModulus = 2
SPECIFICATION Spec
INVARIANT ErrorsOnlyOnFault
