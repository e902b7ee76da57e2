--------------------------------- MODULE MCDNS ---------------------------------
(***************************************************************************)
(* Packets and sockets for small instances of DNSClients.                  *)
(***************************************************************************)
EXTENDS DNSClients

CONSTANTS host, server1, server2, target

MCAddrs == {host, server1, server2, target}
MCPorts == {2, 4, 6, 3, DNSPort}

Packet(v4, src, sport, dst, dport) ==
    [v4 |-> v4, udp |-> TRUE, frag |-> FALSE,
     src |-> src, dst |-> dst, sport |-> sport, dport |-> dport]

\* Four sockets of one shard, one of them of IPv6 with the port number of
\* another.
Sockets == {<<TRUE, 2>>, <<FALSE, 2>>, <<TRUE, 4>>, <<TRUE, 6>>}

SocketQuery(sock, server) == Packet(sock[1], host, sock[2], server, DNSPort)
SocketAnswer(sock, from)  == Packet(sock[1], from, DNSPort, host, sock[2])

\* One socket asks two servers.
Queries == {SocketQuery(sock, server1) : sock \in Sockets}
               \cup {SocketQuery(<<TRUE, 2>>, server2)}
Answers == {SocketAnswer(sock, target) : sock \in Sockets}

\* A later fragment that looks like a query, a packet to another port, a packet
\* of another protocol; a reply that comes from a server itself, a packet of the
\* target from another port.
MCOutbound ==
    Queries \cup {[SocketQuery(<<TRUE, 4>>, server1) EXCEPT !.frag = TRUE],
                  [SocketQuery(<<TRUE, 4>>, server2) EXCEPT !.udp = FALSE],
                  Packet(TRUE, host, 4, target, 3)}
MCInbound ==
    Answers \cup {SocketAnswer(<<TRUE, 2>>, server1), Packet(TRUE, target, 4, host, 2)}

\* No action reads io, and what is said of io is said of a step's new io; a
\* socket that waits for nothing loses its marks when it asks next.
WithoutIO ==
    LET Waiting == {k \in Keys : \E d \in Addrs : waiting[<<k, d>>] > 0}
    IN  <<shardVars, waiting, overlapped \cap Waiting, lost \cap Waiting, older>>

\* IPv4 and IPv6 packets of another protocol.
OtherOutbound ==
    {[SocketQuery(sock, server1) EXCEPT !.udp = FALSE] : sock \in Sockets} \cup Queries
===============================================================================
