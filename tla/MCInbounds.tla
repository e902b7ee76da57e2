------------------------------ MODULE MCInbounds ------------------------------
(***************************************************************************)
(* The inbounds of "usque run" for TLC: a behaviour is the UDP side of the *)
(* SOCKS5 server, or one TCP connection of any of the three proxies, or    *)
(* the tun inbound with the host it reconfigures.                          *)
(***************************************************************************)
EXTENDS SocksUdp, Relay, RouteManager

VARIABLE serves

vars == <<udpVars, relayVars, routeVars, serves>>

NoRelay ==
    /\ inbound = "socks" /\ phase = "idle"
    /\ sock = [near |-> "none", far |-> "none"]
    /\ copier = [g \in Copiers |-> [at |-> "none", close |-> <<>>]]

Init ==
    /\ UdpInit
    /\ \/ serves = "tcp" /\ RelayInit /\ RouteInit /\ platform = "windows"
       \/ serves = "udp" /\ NoRelay /\ RouteInit /\ platform = "windows"
       \/ serves = "tun" /\ NoRelay /\ RouteInit

Next ==
    \/ serves = "udp" /\ UdpNext /\ UNCHANGED <<relayVars, routeVars, serves>>
    \/ serves = "tcp" /\ RelayNext /\ UNCHANGED <<udpVars, routeVars, serves>>
    \/ serves = "tun" /\ RouteNext /\ UNCHANGED <<udpVars, relayVars, serves>>

Spec == Init /\ [][Next]_vars /\ UdpFairness /\ RelayFairness
===============================================================================
