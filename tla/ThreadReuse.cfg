\* The C library may reuse the handle of a thread that is gone.
SPECIFICATION Spec
CONSTANTS
    Threads = {main, t1, t2, t3}
    Main = main
    Handles = {h0, h1, h2}
    NoThread = NoThread
    NoHandle = NoHandle
    HandleReuse = TRUE
    MaxInits = 1
    MaxCalls = 1
SYMMETRY Symmetry
INVARIANTS
    RenamesCurrentThread
