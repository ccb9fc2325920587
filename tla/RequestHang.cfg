\* The three paths that take a closure reference nothing puts: a promoted
\* read miss, a bypassed write and a writethrough write.
CONSTANTS
    r1 = r1
    r2 = r2
    Reqs <- OneReq
    Bios <- LeakingBios
    NoBio = NoBio
    MaxExt = 2
    Verify = FALSE
    DiscardOk = TRUE
    FailIO = {FALSE}
SPECIFICATION Spec
\* Each bio is submitted once, so the model stops when all are done.
CHECK_DEADLOCK FALSE
PROPERTY AllRequestsComplete
