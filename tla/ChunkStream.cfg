\* Data and the end of the stream through a transport that cuts everything up.
CONSTANTS
    Lens = {1, 2, 4}
    ReadLens = {1, 3}
    MaxChunk = 3
    RawBuf = 6
    WriteFails = TRUE
    MetaFails = FALSE
    ReadFails = FALSE
    LoneEnd = FALSE
    MaxBytes = 4
    MaxMetas = 2
    MaxEnds = 2
SPECIFICATION Spec
INVARIANTS DeliveredInOrder EofMeansAll EofNoticed NeverLost MetaBeforeData
PROPERTIES ImplementsPipe
