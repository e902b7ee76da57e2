----------------------------- MODULE InboundProofs -----------------------------
(***************************************************************************)
(* Safety of the SOCKS5 server's UDP side for any number of flows,         *)
(* handlers and relays.                                                    *)
(***************************************************************************)
EXTENDS SocksUdp, FiniteSetTheorems, TLAPS

\* A handler past its dial has an open socket of its own.
HandlersOwn ==
    \A h \in ClientHandlers :
        /\ handler[h].at \in {"first", "set", "acquire"} => handler[h].conn \in open
        /\ handler[h].at \in {"free", "lookup", "dial"} => handler[h].conn = NoConn
        /\ handler[h].at # "free" => handler[h].flow \in Flows
        /\ \A g \in ClientHandlers : handler[g].conn = handler[h].conn => g = h \/ handler[h].conn = NoConn
        /\ \A r \in RelayHandlers : relay[r].conn = handler[h].conn => handler[h].conn = NoConn

\* A relay that reads has an open socket of its own; one that does not has closed it.
RelaysOwn ==
    \A r \in RelayHandlers :
        /\ relay[r].at = "read" <=> relay[r].conn \in open
        /\ relay[r].at = "free" <=> relay[r].conn = NoConn
        /\ relay[r].at # "free" => relay[r].flow \in Flows
        /\ \A q \in RelayHandlers : relay[q].conn = relay[r].conn => q = r \/ relay[r].conn = NoConn

\* An open socket has an owner.
Owned ==
    \A c \in open : \/ \E h \in ClientHandlers : handler[h].conn = c
                    \/ \E r \in RelayHandlers : relay[r].conn = c

\* The exchange of a flow is a socket dialled for it, entered after its first datagram,
\* and taken out between the relay's close and the end of the relay.
Entered ==
    /\ \A f \in Flows, h \in ClientHandlers :
          exchanges[f] = handler[h].conn /\ exchanges[f] # NoConn
              => handler[h].flow = f /\ handler[h].at = "acquire"
    /\ \A f \in Flows, r \in RelayHandlers :
          exchanges[f] = relay[r].conn /\ exchanges[f] # NoConn
              => relay[r].flow = f /\ relay[r].at \in {"read", "delete"}
    /\ \A f \in Flows : exchanges[f] \in open \cup {NoConn}
          \/ \E r \in RelayHandlers : relay[r].at = "delete" /\ relay[r].conn = exchanges[f]

IInv == UdpTypeOK /\ HandlersOwn /\ RelaysOwn /\ Owned /\ Entered

LEMMA InitIInv == UdpInit => IInv
<1> SUFFICES ASSUME UdpInit PROVE IInv
  OBVIOUS
<1> USE UdpAssumption DEF UdpInit, Idle
<1>1. UdpTypeOK
  BY DEF UdpTypeOK
<1>2. HandlersOwn /\ RelaysOwn /\ Owned /\ Entered
  BY DEF HandlersOwn, RelaysOwn, Owned, Entered
<1> QED BY <1>1, <1>2 DEF IInv

\* A datagram takes a slot.
LEMMA ListenStep == ASSUME IInv, NEW h \in ClientHandlers, Listen(h) PROVE IInv'
<1> USE UdpAssumption, ConnAssumption DEF IInv, UdpTypeOK, Listen, Idle, Busy
<1>1. UdpTypeOK'
  OBVIOUS
<1>2. HandlersOwn'
  BY DEF HandlersOwn, RelaysOwn
<1>3. RelaysOwn'
  BY DEF RelaysOwn, HandlersOwn
<1>4. Owned'
  BY DEF Owned, HandlersOwn, RelaysOwn
<1>5. Entered'
  BY DEF Entered, HandlersOwn, RelaysOwn
<1> QED BY <1>1, <1>2, <1>3, <1>4, <1>5

\* A flow that has an exchange ends its handler.
LEMMA LookupStep == ASSUME IInv, NEW h \in ClientHandlers, Lookup(h) PROVE IInv'
<1> USE UdpAssumption, ConnAssumption DEF IInv, UdpTypeOK, Lookup, Idle, Busy
<1>1. UdpTypeOK'
  OBVIOUS
<1>2. HandlersOwn'
  BY DEF HandlersOwn, RelaysOwn
<1>3. RelaysOwn'
  BY DEF RelaysOwn, HandlersOwn
<1>4. Owned'
  BY DEF Owned, HandlersOwn, RelaysOwn
<1>5. Entered'
  BY DEF Entered, HandlersOwn, RelaysOwn
<1> QED BY <1>1, <1>2, <1>3, <1>4, <1>5

\* The new socket is in nobody's hands.
LEMMA DialStep == ASSUME IInv, NEW h \in ClientHandlers, Dial(h) PROVE IInv'
<1> USE UdpAssumption, ConnAssumption DEF IInv, UdpTypeOK, Idle, Busy
<1>1. handler[h].at = "dial" /\ handler[h].conn = NoConn /\ handler[h].flow \in Flows
  BY DEF Dial, HandlersOwn
<1>2. CASE handler' = [handler EXCEPT ![h] = Idle] /\ UNCHANGED <<open, exchanges, relay>>
  <2>1. handler'[h].conn = NoConn /\ \A g \in ClientHandlers : g # h => handler'[g] = handler[g]
    BY <1>2
  <2>2. UdpTypeOK'
    BY <1>2
  <2>3. HandlersOwn'
    BY <1>2 DEF HandlersOwn
  <2>4. RelaysOwn'
    BY <1>2 DEF RelaysOwn
  <2>5. Owned'
    BY <1>1, <1>2, <2>1 DEF Owned
  <2>6. Entered'
    BY <1>2, <2>1 DEF Entered
  <2> QED BY <2>2, <2>3, <2>4, <2>5, <2>6
<1>3. CASE \E c \in Fresh : /\ handler' = [handler EXCEPT ![h] = Busy("first", @.flow, c)]
                            /\ open' = open \cup {c} /\ UNCHANGED <<exchanges, relay>>
  <2>1. PICK c \in Fresh : /\ handler' = [handler EXCEPT ![h] = Busy("first", @.flow, c)]
                           /\ open' = open \cup {c} /\ UNCHANGED <<exchanges, relay>>
    BY <1>3
  <2>2. /\ c \in Conns /\ c \notin open /\ c # NoConn
        /\ \A r \in RelayHandlers : relay[r].conn # c
        /\ \A f \in Flows : exchanges[f] # c
    BY DEF Fresh
  <2>3. \A g \in ClientHandlers : handler[g].conn # c
    BY <2>2 DEF HandlersOwn
  <2>4. /\ handler'[h].conn = c /\ handler'[h].at = "first" /\ handler'[h].flow = handler[h].flow
        /\ \A g \in ClientHandlers : g # h => handler'[g] = handler[g]
    BY <2>1
  <2>5. UdpTypeOK'
    BY <1>1, <2>1, <2>2
  <2>6. HandlersOwn'
    BY <1>1, <2>1, <2>2, <2>3, <2>4 DEF HandlersOwn
  <2>7. RelaysOwn'
    BY <2>1, <2>2 DEF RelaysOwn
  <2>8. Owned'
    BY <1>1, <2>1, <2>4 DEF Owned
  <2>9. \A f \in Flows, g \in ClientHandlers :
           exchanges[f] = handler'[g].conn /\ exchanges[f] # NoConn
               => handler'[g].flow = f /\ handler'[g].at = "acquire"
    BY <2>2, <2>4 DEF Entered
  <2>10. Entered'
    BY <2>1, <2>2, <2>9 DEF Entered
  <2> QED BY <2>5, <2>6, <2>7, <2>8, <2>10
<1> QED BY <1>2, <1>3 DEF Dial

\* The socket of a first datagram that fails is in no exchange.
LEMMA SendFirstStep == ASSUME IInv, NEW h \in ClientHandlers, SendFirst(h) PROVE IInv'
<1> USE UdpAssumption, ConnAssumption DEF IInv, UdpTypeOK, SendFirst, Idle, Busy
<1>1. UdpTypeOK'
  OBVIOUS
<1>2. HandlersOwn'
  BY DEF HandlersOwn, RelaysOwn
<1>3. RelaysOwn'
  BY DEF RelaysOwn, HandlersOwn
<1>4. Owned'
  BY DEF Owned, HandlersOwn, RelaysOwn
<1>5. /\ handler[h].at = "first" /\ open \ {handler[h].conn} \subseteq open' /\ open' \subseteq open
      /\ handler'[h].conn \in {handler[h].conn, NoConn}
      /\ \A g \in ClientHandlers : g # h => handler'[g] = handler[g]
      /\ UNCHANGED <<exchanges, relay>>
  OBVIOUS
<1>6. \A f \in Flows : exchanges[f] # handler[h].conn
  BY <1>5, handler[h].conn \in open, handler[h].conn # NoConn DEF Entered, HandlersOwn
<1>7. \A f \in Flows, g \in ClientHandlers :
         exchanges[f] = handler'[g].conn /\ exchanges[f] # NoConn
             => handler'[g].flow = f /\ handler'[g].at = "acquire"
  BY <1>5, <1>6 DEF Entered
<1>8. \A f \in Flows : exchanges[f] \in open' \cup {NoConn}
         \/ \E q \in RelayHandlers : relay[q].at = "delete" /\ relay[q].conn = exchanges[f]
  BY <1>5, <1>6 DEF Entered
<1>9. Entered'
  BY <1>5, <1>7, <1>8 DEF Entered
<1> QED BY <1>1, <1>2, <1>3, <1>4, <1>9

\* The exchange that is overwritten keeps its relay.
LEMMA SetExchangeStep == ASSUME IInv, NEW h \in ClientHandlers, SetExchange(h) PROVE IInv'
<1> USE UdpAssumption, ConnAssumption DEF IInv, UdpTypeOK, SetExchange, Idle, Busy
<1>1. UdpTypeOK'
  BY ZenonT(60)
<1>2. HandlersOwn'
  BY DEF HandlersOwn, RelaysOwn
<1>3. RelaysOwn'
  BY DEF RelaysOwn, HandlersOwn
<1>4. Owned'
  BY DEF Owned, HandlersOwn, RelaysOwn
<1>5. Entered'
  BY DEF Entered, HandlersOwn, RelaysOwn
<1> QED BY <1>1, <1>2, <1>3, <1>4, <1>5

\* The socket changes hands from the handler to the relay.
LEMMA AcquireStep == ASSUME IInv, NEW h \in ClientHandlers, Acquire(h) PROVE IInv'
<1> USE UdpAssumption, ConnAssumption DEF IInv, UdpTypeOK, Acquire, Idle, Busy
<1>1. UdpTypeOK'
  OBVIOUS
<1>2. HandlersOwn'
  BY DEF HandlersOwn, RelaysOwn
<1>3. RelaysOwn'
  BY DEF RelaysOwn, HandlersOwn
<1>4. PICK r \in RelayHandlers :
         /\ relay[r].at = "free"
         /\ relay' = [relay EXCEPT ![r] = Busy("read", handler[h].flow, handler[h].conn)]
  OBVIOUS
<1>5. /\ relay[r].conn = NoConn /\ handler[h].conn # NoConn
      /\ relay'[r].at = "read" /\ relay'[r].conn = handler[h].conn /\ relay'[r].flow = handler[h].flow
      /\ \A q \in RelayHandlers : q # r => relay'[q] = relay[q]
      /\ \A g \in ClientHandlers : g # h => handler'[g] = handler[g]
      /\ handler'[h].conn = NoConn
  BY <1>4 DEF HandlersOwn, RelaysOwn
<1>6. Owned'
  <2> SUFFICES ASSUME NEW c \in open
               PROVE  \/ \E g \in ClientHandlers : handler'[g].conn = c
                      \/ \E q \in RelayHandlers : relay'[q].conn = c
    BY DEF Owned
  <2>1. c # NoConn
    OBVIOUS
  <2> QED BY <1>5, <2>1 DEF Owned
<1>7. \A f \in Flows, g \in ClientHandlers :
         exchanges[f] = handler'[g].conn /\ exchanges[f] # NoConn
             => handler'[g].flow = f /\ handler'[g].at = "acquire"
  BY <1>5 DEF Entered
<1>8. \A f \in Flows, q \in RelayHandlers :
         exchanges[f] = relay'[q].conn /\ exchanges[f] # NoConn
             => relay'[q].flow = f /\ relay'[q].at \in {"read", "delete"}
  BY <1>5 DEF Entered
<1>9. \A f \in Flows : exchanges[f] \in open \cup {NoConn}
         \/ \E q \in RelayHandlers : relay'[q].at = "delete" /\ relay'[q].conn = exchanges[f]
  BY <1>4, <1>5 DEF Entered
<1>10. Entered'
  BY <1>7, <1>8, <1>9 DEF Entered
<1> QED BY <1>1, <1>2, <1>3, <1>6, <1>10

\* The relay's own exchange, if it is still the flow's, waits for its Delete.
LEMMA ReadEndsStep == ASSUME IInv, NEW r \in RelayHandlers, ReadEnds(r) PROVE IInv'
<1> USE UdpAssumption, ConnAssumption DEF IInv, UdpTypeOK, ReadEnds, Idle, Busy
<1>1. UdpTypeOK'
  OBVIOUS
<1>2. HandlersOwn'
  BY DEF HandlersOwn, RelaysOwn
<1>3. RelaysOwn'
  BY DEF RelaysOwn, HandlersOwn
<1>4. Owned'
  BY DEF Owned, HandlersOwn, RelaysOwn
<1>5. Entered'
  BY DEF Entered, HandlersOwn, RelaysOwn
<1> QED BY <1>1, <1>2, <1>3, <1>4, <1>5

\* Whichever exchange the flow has goes.
LEMMA DeleteExchangeStep == ASSUME IInv, NEW r \in RelayHandlers, DeleteExchange(r) PROVE IInv'
<1> USE UdpAssumption, ConnAssumption DEF IInv, UdpTypeOK, DeleteExchange, Idle, Busy
<1>1. UdpTypeOK'
  OBVIOUS
<1>2. HandlersOwn'
  BY DEF HandlersOwn, RelaysOwn
<1>3. RelaysOwn'
  BY DEF RelaysOwn, HandlersOwn
<1>4. Owned'
  BY DEF Owned, HandlersOwn, RelaysOwn
<1>5. Entered'
  BY DEF Entered, HandlersOwn, RelaysOwn
<1> QED BY <1>1, <1>2, <1>3, <1>4, <1>5

\* By now no exchange has the relay's socket.
LEMMA ReleaseSlotStep == ASSUME IInv, NEW r \in RelayHandlers, ReleaseSlot(r) PROVE IInv'
<1> USE UdpAssumption, ConnAssumption DEF IInv, UdpTypeOK, ReleaseSlot, Idle, Busy
<1>1. UdpTypeOK'
  OBVIOUS
<1>2. HandlersOwn'
  BY DEF HandlersOwn, RelaysOwn
<1>3. RelaysOwn'
  BY DEF RelaysOwn, HandlersOwn
<1>4. Owned'
  BY DEF Owned, HandlersOwn, RelaysOwn
<1>5. Entered'
  BY DEF Entered, HandlersOwn, RelaysOwn
<1> QED BY <1>1, <1>2, <1>3, <1>4, <1>5

\* The inductive invariant: who owns each socket, and when it may be in the table.
THEOREM IInvHolds == UdpSpec => []IInv
<1>1. IInv /\ UNCHANGED udpVars => IInv'
  BY DEF IInv, udpVars, UdpTypeOK, HandlersOwn, RelaysOwn, Owned, Entered
<1>2. IInv /\ [UdpNext]_udpVars => IInv'
  BY <1>1, ListenStep, LookupStep, DialStep, SendFirstStep, SetExchangeStep, AcquireStep,
     ReadEndsStep, DeleteExchangeStep, ReleaseSlotStep DEF UdpNext, HandlerStep, RelayStep
<1> QED BY InitIInv, <1>2, PTL DEF UdpSpec

\* One owner for every open socket and a live relay behind every exchange, for any
\* number of flows and of slots of the two semaphores.
THEOREM ExchangesAreSound == UdpSpec => []ExchangesSound
<1>1. IInv => ExchangesSound
  <2> SUFFICES ASSUME IInv PROVE ExchangesSound
    OBVIOUS
  <2>1. ASSUME NEW c \in open PROVE Cardinality(Owners(c)) + Cardinality(Relays(c)) = 1
    <3>1. c # NoConn
      BY ConnAssumption DEF IInv, UdpTypeOK
    <3>2. CASE \E h \in ClientHandlers : handler[h].conn = c
      <4>1. PICK h \in ClientHandlers : handler[h].conn = c
        BY <3>2
      <4>2. Owners(c) = {h}
        BY <3>1, <4>1 DEF IInv, HandlersOwn, Owners
      <4>3. Relays(c) = {}
        BY <3>1, <4>1 DEF IInv, HandlersOwn, Relays
      <4>4. Cardinality({h}) = 1 /\ Cardinality({}) = 0
        BY FS_EmptySet, FS_Singleton
      <4> QED BY <4>2, <4>3, <4>4
    <3>3. CASE \A h \in ClientHandlers : handler[h].conn # c
      <4>1. PICK r \in RelayHandlers : relay[r].conn = c
        BY <3>3 DEF IInv, Owned
      <4>2. Relays(c) = {r}
        BY <3>1, <4>1 DEF IInv, RelaysOwn, Relays
      <4>3. Owners(c) = {}
        BY <3>3 DEF Owners
      <4>4. Cardinality({r}) = 1 /\ Cardinality({}) = 0
        BY FS_EmptySet, FS_Singleton
      <4> QED BY <4>2, <4>3, <4>4
    <3> QED BY <3>2, <3>3
  <2> QED BY <2>1 DEF IInv, Entered, ExchangesSound
<1> QED BY IInvHolds, <1>1, PTL
===============================================================================
