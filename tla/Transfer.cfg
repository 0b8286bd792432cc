SPECIFICATION Spec
CONSTANTS
    DATA_BUFFER_SIZE = 4
    Lengths = {0, 2, 5}
    Pieces = {1, 2, 5}
    MaxRedirs = 2
    MaxBody = 9
    AllocMayFail = TRUE
INVARIANTS
    TypeOK
    BufferFits
    ResponseHasBody
PROPERTY CallbackReturns
