\* Two chunks and the end arrive with one callback: the second chunk stays in the
\* buffer for good.
CONSTANTS
    Lens = {1}
    ReadLens = {2}
    MaxChunk = 3
    RawBuf = 20
    WriteFails = FALSE
    MetaFails = FALSE
    ReadFails = FALSE
    LoneEnd = FALSE
    MaxBytes = 2
    MaxMetas = 0
    MaxEnds = 1
SPECIFICATION FairSpec
PROPERTIES EventuallyDelivered
