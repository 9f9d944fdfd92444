\* Three threads and the C library gives every thread a handle of its own.
SPECIFICATION Spec
CONSTANTS
    Threads = {main, t1, t2}
    Main = main
    Handles = {h0, h1, h2}
    NoThread = NoThread
    NoHandle = NoHandle
    HandleReuse = FALSE
    MaxInits = 2
    MaxCalls = 2
SYMMETRY Symmetry
INVARIANTS
    TypeOK
    NoFault
    SelfIsOwn
    UniqueIds
    NoLeak
    OwnedIsLive
PROPERTIES
    StableIds
