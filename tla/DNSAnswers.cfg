\* The comment on RewriteResponse, against the code.
SPECIFICATION ClientsSpec
CONSTANTS
    host = host
    server1 = server1
    server2 = server2
    target = target
    NoAddr = NoAddr
    Addrs <- MCAddrs
    Ports <- MCPorts
    Outbound <- Queries
    Inbound <- Answers
    Target4 = target
    Target6 = target
    NumShards = 2
    MaxPerShard = 4
    MaxWaiting = 1
PROPERTIES
    AnsweredByServerAsked
