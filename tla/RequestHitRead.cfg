\* One read of one extent that hits the cache.
CONSTANTS
    r1 = r1
    r2 = r2
    Reqs <- OneReq
    Bios <- HitRead
    NoBio = NoBio
    MaxExt = 1
    Verify = FALSE
    DiscardOk = TRUE
    FailIO = {FALSE}
SPECIFICATION Spec
\* The bio is submitted once, so the model stops when it is done.
CHECK_DEADLOCK FALSE
INVARIANT NoUseAfterFree
