-------------------------------- MODULE Relay --------------------------------
(***************************************************************************)
(* One TCP connection through a proxy inbound, from its acceptance to its  *)
(* end: SOCKS5 CONNECT (internal/socks5.go), HTTP CONNECT                  *)
(* (cmd/run_inbound_httpproxy.go) and a forwarded port                     *)
(* (cmd/run_inbound_portfw.go).  Each dials the other side and copies with *)
(* two goroutines, the accepted one ("main") and one it starts ("side");   *)
(* the three differ in who copies which way and in who closes what.        *)
(*                                                                         *)
(* "near" is the accepted socket and "far" the dialled one.  A peer may    *)
(* end its side at any moment.  No inbound sets a deadline here.           *)
(***************************************************************************)
EXTENDS Naturals, Sequences

VARIABLES
    inbound,  \* which inbound accepted the connection
    phase,    \* of the accepting goroutine, until it copies
    sock,     \* state of both sockets
    copier    \* where both copying goroutines are, with what they have still to close

relayVars == <<inbound, phase, sock, copier>>

Inbounds == {"socks", "http", "portfw"}
Copiers == {"main", "side"}
Other(e) == IF e = "near" THEN "far" ELSE "near"

\* The sockets a copier of each inbound closes when it ends, in order.
\* TCPHandle: the deferred close of rc, then the one of c in the accept loop.
SocksCloses(g) == IF g = "main" THEN <<"far", "near">> ELSE <<>>

\* Variant: the goroutine closes the client only.
HttpClosesClient(g) == IF g = "side" THEN <<"near">> ELSE <<>>

\* handleHTTPSConnect: the goroutine it starts closes both.
HttpCloses(g) == IF g = "side" THEN <<"near", "far">> ELSE <<>>

\* handleFwdConnection: its own deferred calls.
FwdCloses(g) == IF g = "main" THEN <<"far", "near">> ELSE <<>>

Closes(g) == CASE inbound = "socks"  -> SocksCloses(g) [] inbound = "http" -> HttpCloses(g)
               [] inbound = "portfw" -> FwdCloses(g)

\* The socket a copier reads.
Source(g) == IF (g = "main") = (inbound = "socks") THEN "near" ELSE "far"

RelayInit ==
    /\ inbound \in Inbounds /\ phase = "accepted"
    /\ sock = [near |-> "open", far |-> "none"]
    /\ copier = [g \in Copiers |-> [at |-> "none", close |-> <<>>]]

-------------------------------------------------------------------------------
\* The connection is given up: its goroutine closes it, but for the HTTP server, which
\* answers with an error and keeps it for the next request.
Refuse(far) ==
    /\ phase' = "refused"
    /\ sock' = [near |-> IF inbound = "http" THEN "server" ELSE "closed", far |-> far]

\* SOCKS negotiation and request, the HTTP request with its credentials and its host,
\* the address of the mapping.
Request ==
    /\ phase = "accepted"
    /\ (phase' = "dial" /\ UNCHANGED sock) \/ Refuse("none")
    /\ UNCHANGED <<inbound, copier>>

DialFar ==
    /\ phase = "dial"
    /\ \/ Refuse("none")
       \/ /\ phase' = IF inbound = "http" THEN "hijack" ELSE "copy"
          /\ sock' = [sock EXCEPT !.far = "open"]
    /\ UNCHANGED <<inbound, copier>>

\* The HTTP server hands its socket over.
Hijack ==
    /\ phase = "hijack"
    /\ (phase' = "copy" /\ UNCHANGED sock) \/ Refuse("closed")
    /\ UNCHANGED <<inbound, copier>>

StartCopiers ==
    /\ phase = "copy" /\ copier["main"].at = "none"
    /\ copier' = [g \in Copiers |-> [at |-> "copy", close |-> <<>>]]
    /\ UNCHANGED <<inbound, phase, sock>>

\* The peer of a socket closes its end.
PeerEnds(e) ==
    /\ sock[e] = "open"
    /\ sock' = [sock EXCEPT ![e] = "ended"]
    /\ UNCHANGED <<inbound, phase, copier>>

EndCopy(g) ==
    /\ copier[g].at = "copy"
    /\ copier' = [copier EXCEPT ![g] = [at |-> "closing", close |-> Closes(g)]]
    /\ UNCHANGED <<inbound, phase, sock>>

\* The read returns the end of the stream or an error.
SourceEnds(g) == sock[Source(g)] # "open" /\ EndCopy(g)

\* The write of what was read fails: the socket is closed, or its peer has reset it.
WriteFails(g) == sock[Source(g)] = "open" /\ sock[Other(Source(g))] # "open" /\ EndCopy(g)

CloseNext(g) ==
    /\ copier[g].at = "closing"
    /\ IF copier[g].close = <<>>
       THEN copier' = [copier EXCEPT ![g].at = "done"] /\ UNCHANGED sock
       ELSE /\ sock' = [sock EXCEPT ![Head(copier[g].close)] = "closed"]
            /\ copier' = [copier EXCEPT ![g].close = Tail(@)]
    /\ UNCHANGED <<inbound, phase>>

RelayNext ==
    \/ Request \/ DialFar \/ Hijack \/ StartCopiers
    \/ \E e \in {"near", "far"} : PeerEnds(e)
    \/ \E g \in Copiers : SourceEnds(g) \/ WriteFails(g) \/ CloseNext(g)

\* The goroutines run; a read whose peer has ended returns.  No datum need ever come,
\* so that a write need not fail.
RelayFairness ==
    /\ WF_relayVars(Request) /\ WF_relayVars(DialFar) /\ WF_relayVars(Hijack) /\ WF_relayVars(StartCopiers)
    /\ \A g \in Copiers : WF_relayVars(SourceEnds(g)) /\ WF_relayVars(CloseNext(g))

RelaySpec == RelayInit /\ [][RelayNext]_relayVars /\ RelayFairness

-------------------------------------------------------------------------------
(* Property.                                                               *)

\* The peer whose end takes the connection down: the client, but for a forwarded port
\* the destination.  The end of the other peer alone is not passed on.
Decisive == IF inbound = "portfw" THEN "far" ELSE "near"

\* Once that peer has ended, and also when the connection was refused or both copiers
\* have stopped for whatever reason, no socket stays open (but one the HTTP server has
\* back) and no goroutine stays behind.
TornDown ==
    \/ sock[Decisive] = "ended" \/ phase = "refused"
    \/ \A g \in Copiers : copier[g].at = "done"
    ~>
        /\ sock["near"] \in {"closed", "server"} /\ sock["far"] \in {"none", "closed"}
        /\ \A g \in Copiers : copier[g].at \in {"none", "done"}
===============================================================================
