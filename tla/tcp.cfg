CONSTANTS
    a1 = a1  a2 = a2  n1 = n1  n2 = n2
    AppSockets <- MCAppSockets
    NewSockets <- MCNewSockets
    LocalPorts = {1, 2}
    RemotePorts = {2}
    Seqs = {0, 1, 2}
    DataLens = {1, 2}
    Window = 3
    Capacity = 2
    IpSendCanFail = TRUE
    MaxBuffers = 3
    None = None
SPECIFICATION Spec
INVARIANT TypeOK
INVARIANT QueueInOrder
INVARIANT RneWithinReceived
INVARIANT RegisteredAreListening
