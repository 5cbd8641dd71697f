CONSTANTS
    ChunkSize = 2
    TagSize = 1
    NonceBase = 1
    NonceModulus = 2
    UploadSizes = {3, 4, 5}
    MaxItem = 3
SPECIFICATION Spec
INVARIANT SendsCiphertext
INVARIANT UploadErrorsOnlyOnFault
