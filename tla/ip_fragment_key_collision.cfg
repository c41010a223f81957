CONSTANTS
    dA = dA
    dB = dB
    dC = dC
    u1 = u1
    u2 = u2
    Datagrams <- MCDatagrams
    Dgram <- MCCollide
    AppSockets <- MCSockets
    Peers <- MCPeers
    LocalAddr = 10
    BindAddrs = {0, 10}
    BindPorts = {53, 54}
    SortedFragments = TRUE
    Timeout = 1
    MaxQueue = 2
    None = None
SPECIFICATION Spec
INVARIANT QueuedAreSent
