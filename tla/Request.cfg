\* Every kind of bio whose path puts the closure references it takes, two
\* at a time, with failing I/O and a detach.  No symmetry: the run checks
\* liveness.
CONSTANTS
    r1 = r1
    r2 = r2
    Reqs <- TwoReqs
    Bios <- CompletingBios
    NoBio = NoBio
    MaxExt = 2
    Verify = TRUE
    DiscardOk = TRUE
    FailIO = {FALSE, TRUE}
SPECIFICATION Spec
\* Each bio is submitted once, so the model stops when all are done.
CHECK_DEADLOCK FALSE
INVARIANT TypeOK
INVARIANT NoUseAfterFree
INVARIANT CompletedOnce
INVARIANT DetachQuiesced
PROPERTY AllRequestsComplete
 
