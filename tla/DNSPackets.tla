------------------------------ MODULE DNSPackets ------------------------------
(***************************************************************************)
(* What internal/dns_hijack.go reads of an IP packet: the address family,  *)
(* the transport, whether it is a later fragment, the addresses, and the   *)
(* two 16-bit words found where a UDP header would have its ports.  Of a   *)
(* packet that is not UDP, or of a later fragment, those words are         *)
(* whatever the packet carries there.                                      *)
(***************************************************************************)
EXTENDS Naturals

CONSTANTS
    Addrs,              \* IP addresses
    NoAddr,             \* no address: an unset target, no mapping
    Ports,              \* 16-bit words in the place of a port
    Target4, Target6,   \* DNSHijackTarget4, DNSHijackTarget6; NoAddr if nil
    Outbound, Inbound   \* packets the device, the network may hand over

DNSPort == 53

Packets == [v4 : BOOLEAN, udp : BOOLEAN, frag : BOOLEAN,
            src : Addrs, dst : Addrs, sport : Ports, dport : Ports]

ASSUME PacketsAssumption ==
    /\ NoAddr \notin Addrs
    /\ Ports \subseteq Nat
    /\ Target4 \in Addrs \cup {NoAddr}
    /\ Target6 \in Addrs \cup {NoAddr}
    /\ Outbound \subseteq Packets
    /\ Inbound \subseteq Packets

Target(v4) == IF v4 THEN Target4 ELSE Target6

\* dnsQueryKey of an outbound query and of the reply that answers it.
QueryKey(p) == [v4 |-> p.v4, ip |-> p.src, port |-> p.sport]
ReplyKey(p) == [v4 |-> p.v4, ip |-> p.dst, port |-> p.dport]

\* The keys that can occur.
Keys == {QueryKey(p) : p \in Outbound} \cup {ReplyKey(p) : p \in Inbound}

\* udpOffset is not negative: IPv4 whatever its protocol field, IPv6 with UDP
\* at the end of its extension headers.
HasPorts(p) == p.v4 \/ p.udp

\* The tests of RewriteQuery: a later fragment is recognised in IPv4 only.
IsQuery(p) ==
    /\ HasPorts(p) /\ p.dport = DNSPort
    /\ Target(p.v4) # NoAddr
    /\ ~(p.v4 /\ p.frag)

\* The tests of RewriteResponse before it looks for the query.
IsReply(p) ==
    /\ HasPorts(p) /\ p.sport = DNSPort
    /\ Target(p.v4) # NoAddr
    /\ p.src = Target(p.v4)
===============================================================================
