\* Four sockets on two shards of two slots: the ring wraps and overflows.
SPECIFICATION ClientsSpec
CONSTANTS
    host = host
    server1 = server1
    server2 = server2
    target = target
    NoAddr = NoAddr
    Addrs <- MCAddrs
    Ports <- MCPorts
    Outbound <- MCOutbound
    Inbound <- MCInbound
    Target4 = target
    Target6 = target
    NumShards = 2
    MaxPerShard = 2
    MaxWaiting = 1
INVARIANTS
    TypeOK
    PendingBounded
PROPERTIES
    ImplementsTable
    SequentialClientsServed
    FIFOWhenExact
VIEW WithoutIO
