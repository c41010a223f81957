CONSTANTS
    ip = ip  kp = kp  p1 = p1  p2 = p2  p3 = p3
    im = im  it = it  km = km  t1 = t1  t2 = t2
    Procs <- MCProcsSmall
    Tids <- MCTidsSmall
    IdleProc = ip
    KernelProc = kp
    IdleMain = im
    IdleThread = it
    KernelMain = km
    PidSpace = 4
    ThreadsLimit = 2
    StackAllocCanFail = FALSE
    RemoveBeforeDestroy = TRUE
    NoProc = NoProc
    NoThread = NoThread
    Policies = {"RoundRobin", "RealTime"}
SPECIFICATION FairSpec
PROPERTY QueuedThreadDispatched
