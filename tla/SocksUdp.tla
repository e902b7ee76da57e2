------------------------------- MODULE SocksUdp -------------------------------
(***************************************************************************)
(* The UDP side of the SOCKS5 server, internal/socks5.go.  One goroutine   *)
(* reads the clients' datagrams and hands each to a handler; a handler     *)
(* looks its flow (client and destination) up among the UDP exchanges,     *)
(* dials a new one if there is none, and starts a relay for the answers.   *)
(* Handlers and relays are capped by two semaphores, and a handler keeps   *)
(* its slot while it waits for a relay's.                                  *)
(*                                                                         *)
(* Handlers, relays and sockets are slots; a free slot stands for a        *)
(* goroutine that does not exist.  LimitUDP is off in the program, so the  *)
(* association channel ch is nil and never ends anything.                  *)
(***************************************************************************)
EXTENDS Naturals, FiniteSets

CONSTANTS
    Flows,          \* client and destination pairs, the keys of UDPExchanges
    ClientHandlers, \* slots of udpClientHandleSem
    RelayHandlers,  \* slots of udpRelaySem
    UDPTimeout,     \* cfg.UDPTimeout, in milliseconds
    NoConn, NoFlow  \* nothing

ASSUME UdpAssumption ==
    /\ UDPTimeout \in Nat /\ Flows # {} /\ ClientHandlers # {} /\ RelayHandlers # {}
    /\ NoFlow \notin Flows

VARIABLES
    handler,    \* where each client handler is, its flow and the socket it dialled
    exchanges,  \* srv.UDPExchanges
    relay,      \* where each relay is, its flow and its socket
    open        \* the sockets towards the tunnel that are open

udpVars == <<handler, exchanges, relay, open>>

\* As many sockets as the two semaphores can let there be, and one to show a leak.
Conns == 1 .. Cardinality(ClientHandlers) + Cardinality(RelayHandlers) + 1

ASSUME ConnAssumption == NoConn \notin Conns

Idle == [at |-> "free", flow |-> NoFlow, conn |-> NoConn]
Busy(at, flow, conn) == [at |-> at, flow |-> flow, conn |-> conn]

UdpInit ==
    /\ handler = [h \in ClientHandlers |-> Idle] /\ relay = [r \in RelayHandlers |-> Idle]
    /\ exchanges = [f \in Flows |-> NoConn] /\ open = {}

UdpTypeOK ==
    /\ handler \in [ClientHandlers -> [at : {"free", "lookup", "dial", "first", "set", "acquire"},
                                      flow : Flows \cup {NoFlow}, conn : Conns \cup {NoConn}]]
    /\ relay \in [RelayHandlers -> [at : {"free", "read", "delete", "release"},
                                    flow : Flows \cup {NoFlow}, conn : Conns \cup {NoConn}]]
    /\ exchanges \in [Flows -> Conns \cup {NoConn}] /\ open \subseteq Conns

-------------------------------------------------------------------------------
(* The listener and the handlers.                                          *)

\* A datagram arrives and a slot is free; a malformed or fragmented one is dropped
\* by its handler and changes nothing.
Listen(h) ==
    /\ handler[h].at = "free"
    /\ \E f \in Flows : handler' = [handler EXCEPT ![h] = Busy("lookup", f, NoConn)]
    /\ UNCHANGED <<exchanges, relay, open>>

\* UDPExchanges.Get: to the socket found the datagram is only written, whatever became
\* of it; then the handler ends.
Lookup(h) ==
    /\ handler[h].at = "lookup"
    /\ handler' = [handler EXCEPT ![h] =
           IF exchanges[@.flow] # NoConn THEN Idle ELSE Busy("dial", @.flow, NoConn)]
    /\ UNCHANGED <<exchanges, relay, open>>

Fresh == Conns \ (open \cup {relay[r].conn : r \in RelayHandlers} \cup {exchanges[f] : f \in Flows})

Dial(h) ==
    /\ handler[h].at = "dial"
    /\ \/ handler' = [handler EXCEPT ![h] = Idle] /\ UNCHANGED open
       \/ /\ Fresh # {}
          /\ LET c == CHOOSE c \in Fresh : TRUE IN
             /\ handler' = [handler EXCEPT ![h] = Busy("first", @.flow, c)]
             /\ open' = open \cup {c}
    /\ UNCHANGED <<exchanges, relay>>

\* Variant: the socket stays open when the first datagram cannot be sent.
SendFirstKeeps(h) ==
    /\ handler[h].at = "first"
    /\ handler' \in {[handler EXCEPT ![h] = Idle], [handler EXCEPT ![h].at = "set"]}
    /\ UNCHANGED <<exchanges, relay, open>>

SendFirst(h) ==
    /\ handler[h].at = "first"
    /\ \/ handler' = [handler EXCEPT ![h].at = "set"] /\ UNCHANGED open
       \/ handler' = [handler EXCEPT ![h] = Idle] /\ open' = open \ {handler[h].conn}
    /\ UNCHANGED <<exchanges, relay>>

\* UDPExchanges.Set, over the exchange another handler entered meanwhile, if any.
SetExchange(h) ==
    /\ handler[h].at = "set"
    /\ exchanges' = [exchanges EXCEPT ![handler[h].flow] = handler[h].conn]
    /\ handler' = [handler EXCEPT ![h].at = "acquire"]
    /\ UNCHANGED <<relay, open>>

\* udpRelaySem: the handler waits, with its slot, until a relay may start.
Acquire(h) ==
    /\ handler[h].at = "acquire"
    /\ \E r \in RelayHandlers :
          /\ relay[r].at = "free"
          /\ relay' = [relay EXCEPT ![r] = Busy("read", handler[h].flow, handler[h].conn)]
    /\ handler' = [handler EXCEPT ![h] = Idle]
    /\ UNCHANGED <<exchanges, open>>

-------------------------------------------------------------------------------
(* The relays.  An answer passed on to the client changes nothing here.    *)

\* Variant: the timeout as the library has it, in whole seconds.
ReadDeadlineInSeconds == (UDPTimeout \div 1000) * 1000

\* 0 is no deadline.
ReadDeadline == UDPTimeout

\* The read fails at its deadline, or the write to the client fails; RemoteConn is
\* closed by the first of the deferred calls.
ReadEnds(r) ==
    /\ relay[r].at = "read" /\ ReadDeadline > 0
    /\ relay' = [relay EXCEPT ![r].at = "delete"] /\ open' = open \ {relay[r].conn}
    /\ UNCHANGED <<handler, exchanges>>

\* UDPExchanges.Delete: whichever exchange the flow has now.
DeleteExchange(r) ==
    /\ relay[r].at = "delete"
    /\ exchanges' = [exchanges EXCEPT ![relay[r].flow] = NoConn]
    /\ relay' = [relay EXCEPT ![r].at = "release"]
    /\ UNCHANGED <<handler, open>>

ReleaseSlot(r) ==
    /\ relay[r].at = "release"
    /\ relay' = [relay EXCEPT ![r] = Idle]
    /\ UNCHANGED <<handler, exchanges, open>>

HandlerStep(h) == Lookup(h) \/ Dial(h) \/ SendFirst(h) \/ SetExchange(h)
RelayStep(r)   == ReadEnds(r) \/ DeleteExchange(r) \/ ReleaseSlot(r)

UdpNext ==
    \/ \E h \in ClientHandlers : Listen(h) \/ HandlerStep(h) \/ Acquire(h)
    \/ \E r \in RelayHandlers : RelayStep(r)

\* The goroutines run; a remote host falls silent in the end, so that the deadline of
\* its relay expires; and the runtime serves the senders blocked on a channel in turn.
UdpFairness ==
    /\ \A h \in ClientHandlers : WF_udpVars(HandlerStep(h)) /\ SF_udpVars(Acquire(h))
    /\ \A r \in RelayHandlers : WF_udpVars(RelayStep(r))

UdpSpec == UdpInit /\ [][UdpNext]_udpVars /\ UdpFairness

-------------------------------------------------------------------------------
(* Properties.                                                             *)

Owners(c) == {h \in ClientHandlers : handler[h].conn = c}
Relays(c) == {r \in RelayHandlers : relay[r].at = "read" /\ relay[r].conn = c}

\* Every open socket belongs to exactly one handler or relay, which will close it, so
\* that the two semaphores bound the sockets too, also when two handlers dial for the
\* same flow at once; and the table of exchanges never keeps a socket whose relay is
\* gone, to which the flow's datagrams would be written for ever.
ExchangesSound ==
    /\ \A c \in open : Cardinality(Owners(c)) + Cardinality(Relays(c)) = 1
    /\ \A f \in Flows : exchanges[f] \in open \cup {NoConn}
           \/ \E r \in RelayHandlers : relay[r].at = "delete" /\ relay[r].conn = exchanges[f]

\* A handler that took a slot gives it back: the listener is not blocked for ever by
\* handlers that wait for relays.
HandlersEnd == \A h \in ClientHandlers : handler[h].at # "free" ~> handler[h].at = "free"
===============================================================================
