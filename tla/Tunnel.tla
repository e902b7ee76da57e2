-------------------------------- MODULE Tunnel --------------------------------
(***************************************************************************)
(* The tunnel supervisor, api/tunnel.go MaintainTunnel, with the three     *)
(* goroutines it starts for every connection: the context watcher, the     *)
(* device pump (TUN device -> connection) and the network pump             *)
(* (connection -> TUN device).                                             *)
(*                                                                         *)
(* Every dial that yields a connection gets an index in Dials; what the    *)
(* code declares inside its loop (errChan, pumpCtx, ctxShutdownDone,       *)
(* readMu, ipConn) is a function on Dials, so a goroutine that outlives    *)
(* its connection keeps its own channels beside those of the next one.     *)
(*                                                                         *)
(* A step is what a goroutine does between two points where another one    *)
(* can see or block it.  Packets carry no content.  OnTraffic and its      *)
(* totals, the noise goroutine and the packet rewriters are left out.      *)
(***************************************************************************)
EXTENDS Naturals, FiniteSets

CONSTANTS
    AlwaysReconnect,   \* cfg.AlwaysReconnect: dial at once, do not wait for traffic
    UseHTTP2,          \* cfg.UseHTTP2: no UDP socket, no http3.Transport
    ExternalUDP,       \* cfg.UDPConn # nil: the caller owns the UDP socket
    MaxDials           \* bound: dials that yield a connection

ASSUME TunnelAssumption ==
    /\ AlwaysReconnect \in BOOLEAN
    /\ UseHTTP2 \in BOOLEAN
    /\ ExternalUDP \in BOOLEAN
    /\ MaxDials \in Nat \ {0}

VARIABLES
    ctxDone,        \* the context of MaintainTunnel is cancelled
    devOpen,        \* the owner of the TUN device has not closed it
    sup,            \* program counter of the supervisor
    cycle,          \* index of the latest dialled connection, 0 at first
    open,           \* sockets and transports that exist and are not closed
    held,           \* which of udpConn, tr are non-nil in this iteration
    reported,       \* last state given to OnStateChange
    hooks,          \* hooks launched so far
    conn,           \* ipConn of each dial
    quic,           \* dials whose QUIC connection is not closed and has an open socket
    errChan,        \* number of errors buffered in errChan
    cancelled,      \* cancelPumps has been called
    shutdownCloses, \* number of close(ctxShutdownDone) calls
    readMu,         \* readMu is locked
    watcher, dev, net  \* program counters of the three goroutines

resources == <<open, held>>
outputs   == <<reported, hooks>>
supVars   == <<sup, cycle, resources, outputs>>
cycleVars == <<conn, quic, errChan, cancelled, shutdownCloses>>
pumpVars  == <<readMu, dev, net>>
vars      == <<ctxDone, devOpen, supVars, cycleVars, pumpVars, watcher>>

Dials == 1 .. MaxDials

\* Variant: room for one error only.
ErrChanCapOne == 1

\* errChan := make(chan error, 2)
ErrChanCap == 2

SupStates ==
    {"top", "idle", "connect", "request", "failed", "rejected", "setup", "wait",
     "teardown", "closeConn", "stopWatcher", "grace", "release", "sleep", "returned"}
ConnStates    == {"none", "open", "broken", "half", "closed"}
WatcherStates == {"off", "wait", "close", "signal", "park", "done"}
DevStates     == {"off", "check", "read", "write", "send", "done"}
NetStates     == {"off", "read", "deliver", "send", "done"}
Resources     == {"udp", "tr"}
Reports       == {"none", "connecting", "connected", "reconnecting", "error"}

TypeOK ==
    /\ ctxDone \in BOOLEAN /\ devOpen \in BOOLEAN
    /\ sup \in SupStates
    /\ cycle \in 0 .. MaxDials
    /\ open \in [Resources -> Nat]
    /\ held \in SUBSET Resources
    /\ reported \in Reports
    /\ hooks \in SUBSET (Dials \X {"connect", "disconnect"})
    /\ conn \in [Dials -> ConnStates]
    /\ quic \in SUBSET Dials
    /\ errChan \in [Dials -> 0 .. ErrChanCap]
    /\ cancelled \in [Dials -> BOOLEAN]
    /\ shutdownCloses \in [Dials -> Nat]
    /\ readMu \in [Dials -> BOOLEAN]
    /\ watcher \in [Dials -> WatcherStates]
    /\ dev \in [Dials -> DevStates]
    /\ net \in [Dials -> NetStates]

\* The caller's socket is already open when ExternalUDP.
Init ==
    /\ ctxDone = FALSE /\ devOpen = TRUE
    /\ sup = "top" /\ cycle = 0
    /\ open = [r \in Resources |-> IF r = "udp" /\ ExternalUDP THEN 1 ELSE 0]
    /\ held = {} /\ reported = "none" /\ hooks = {}
    /\ conn = [c \in Dials |-> "none"] /\ quic = {}
    /\ errChan = [c \in Dials |-> 0]
    /\ cancelled = [c \in Dials |-> FALSE]
    /\ shutdownCloses = [c \in Dials |-> 0]
    /\ readMu = [c \in Dials |-> FALSE]
    /\ watcher = [c \in Dials |-> "off"]
    /\ dev = [c \in Dials |-> "off"]
    /\ net = [c \in Dials |-> "off"]

-------------------------------------------------------------------------------
\* pumpCtx is a child of ctx: it is done when either was cancelled.
PumpsCancelled(c) == ctxDone \/ cancelled[c]

\* ipConn.Close: later calls find closeErr set and change nothing.  It closes the
\* stream; the QUIC connection under it stays.
CloseIpConn(c) == conn' = [conn EXCEPT ![c] = "closed"]

\* Variant: a send that does not wait for room.
SendErrUnbounded(c) == errChan' = [errChan EXCEPT ![c] = @ + 1]

\* A pump's blocking send to errChan.
SendErr(c) ==
    /\ errChan[c] < ErrChanCap
    /\ errChan' = [errChan EXCEPT ![c] = @ + 1]

\* Variant: the clean-up does not ask who owns udpConn.
ToCloseAll == held

\* What the clean-up closes: tr if non-nil, udpConn unless the caller owns it.
ToClose == held \ (IF ExternalUDP THEN {"udp"} ELSE {})

\* tr.Close does not close a QUIC connection that tr did not dial; it ends with
\* its socket, which carries no other when it is the dial's own.
ReleaseHeld ==
    /\ open' = [r \in Resources |-> IF r \in ToClose THEN open[r] - 1 ELSE open[r]]
    /\ held' = {}
    /\ quic' = IF "udp" \in ToClose THEN quic \ {cycle} ELSE quic

\* ConnectTunnel has these resources from here on; the caller's socket was open
\* before, the others are new.
Acquire(rs) ==
    /\ held' = rs
    /\ open' = [r \in Resources |->
                  IF r \in rs \ held /\ ~(r = "udp" /\ ExternalUDP)
                  THEN open[r] + 1 ELSE open[r]]

-------------------------------------------------------------------------------
(* The environment: the owner of the tunnel, the network and connect-ip.   *)

CancelCtx ==
    /\ ~ctxDone
    /\ ctxDone' = TRUE
    /\ UNCHANGED <<devOpen, supVars, cycleVars, pumpVars, watcher>>

CloseDevice ==
    /\ devOpen
    /\ devOpen' = FALSE
    /\ UNCHANGED <<ctxDone, supVars, cycleVars, pumpVars, watcher>>

SetConn(c, to) ==
    /\ conn' = [conn EXCEPT ![c] = to]
    /\ UNCHANGED <<ctxDone, devOpen, supVars, errChan, cancelled, shutdownCloses,
                   pumpVars, watcher>>

\* The QUIC or TCP session is lost; connect-ip has not noticed yet.
SessionLost(c) == conn[c] = "open" /\ SetConn(c, "broken") /\ quic' = quic \ {c}

\* The stream reader or writer of connect-ip sees the loss and closes closeChan.
\* Over HTTP/2 there is no such goroutine.
CloseChanClosed(c) ==
    conn[c] = "broken" /\ ~UseHTTP2 /\ SetConn(c, "closed") /\ UNCHANGED quic

\* The control stream fails alone (a capsule that is not understood): closeChan
\* and the sending side are closed, datagrams can still be received.
ControlStreamFails(c) ==
    conn[c] = "open" /\ ~UseHTTP2 /\ SetConn(c, "half") /\ UNCHANGED quic

\* Then the peer ends the stream.
HalfClosedEnds(c) == conn[c] = "half" /\ SetConn(c, "closed") /\ UNCHANGED quic

\* A QUIC connection that outlived its stream ends: the peer closes it or no longer
\* answers the keep-alives.
SessionEnds(c) ==
    /\ c \in quic /\ conn[c] = "closed"
    /\ quic' = quic \ {c}
    /\ UNCHANGED <<ctxDone, devOpen, supVars, conn, errChan, cancelled, shutdownCloses,
                   pumpVars, watcher>>

-------------------------------------------------------------------------------
(* The supervisor.                                                         *)

unchangedBySup == <<ctxDone, devOpen, pumpVars, watcher>>

Top ==
    /\ sup = "top"
    /\ \/ ctxDone /\ sup' = "returned" /\ UNCHANGED reported
       \/ ~ctxDone /\ ~AlwaysReconnect /\ sup' = "idle" /\ UNCHANGED reported
       \/ ~ctxDone /\ AlwaysReconnect /\ sup' = "connect" /\ reported' = "connecting"
    /\ UNCHANGED <<unchangedBySup, cycle, resources, hooks, cycleVars>>

\* The idle read takes no lock; its packet is only a trigger and is dropped.
IdleRead ==
    /\ sup = "idle" /\ devOpen
    /\ sup' = "connect" /\ reported' = "connecting"
    /\ UNCHANGED <<unchangedBySup, cycle, resources, hooks, cycleVars>>

IdleReadFails ==
    /\ sup = "idle"
    /\ sup' = "sleep"
    /\ UNCHANGED <<unchangedBySup, cycle, resources, outputs, cycleVars>>

\* ConnectTunnel returns an error before there is a QUIC connection, with nothing
\* or with the socket it made or was given.  Over HTTP/2 that is every error.
DialFails ==
    /\ sup = "connect"
    /\ \E rs \in SUBSET {"udp"} :
          /\ UseHTTP2 => rs = {}
          /\ ~UseHTTP2 /\ ExternalUDP => rs = {"udp"}
          /\ Acquire(rs)
    /\ sup' = "failed"
    /\ UNCHANGED <<unchangedBySup, cycle, outputs, cycleVars>>

\* quic.Dial returns a connection of the next dial.
QuicDial ==
    /\ sup = "connect" /\ ~UseHTTP2 /\ cycle < MaxDials
    /\ Acquire({"udp"})
    /\ quic' = quic \cup {cycle + 1}
    /\ sup' = "request"
    /\ UNCHANGED <<unchangedBySup, cycle, outputs, conn, errChan, cancelled, shutdownCloses>>

\* Variant: the QUIC connection of the failed request is forgotten.
RequestFailsOpen ==
    /\ sup = "request"
    /\ sup' = "failed"
    /\ UNCHANGED <<unchangedBySup, cycle, resources, outputs, cycleVars>>

\* connectip.Dial fails: its transport and its QUIC connection are closed, the
\* socket is returned.
RequestFails ==
    /\ sup = "request"
    /\ quic' = quic \ {cycle + 1}
    /\ sup' = "failed"
    /\ UNCHANGED <<unchangedBySup, cycle, resources, outputs, conn, errChan, cancelled,
                   shutdownCloses>>

\* status is rsp.StatusCode = 200; connect-ip lets every 2xx through.
DialSucceeds(status) ==
    /\ sup = (IF UseHTTP2 THEN "connect" ELSE "request") /\ cycle < MaxDials
    /\ cycle' = cycle + 1
    /\ conn' = [conn EXCEPT ![cycle + 1] = "open"]
    /\ Acquire(IF UseHTTP2 THEN {} ELSE Resources)
    /\ sup' = IF status THEN "setup" ELSE "rejected"
    /\ UNCHANGED <<unchangedBySup, outputs, quic, errChan, cancelled, shutdownCloses>>

\* Reports "error", closes what it holds, reports "reconnecting".
CleanupFailed ==
    /\ sup = "failed"
    /\ ReleaseHeld
    /\ sup' = "sleep" /\ reported' = "reconnecting"
    /\ UNCHANGED <<unchangedBySup, cycle, hooks, conn, errChan, cancelled, shutdownCloses>>

\* Variant: the transport and the socket are forgotten.
CleanupRejectedLeaking ==
    /\ sup = "rejected"
    /\ CloseIpConn(cycle)
    /\ held' = {} /\ UNCHANGED <<open, quic>>
    /\ sup' = "sleep" /\ reported' = "reconnecting"
    /\ UNCHANGED <<unchangedBySup, cycle, hooks, errChan, cancelled, shutdownCloses>>

CleanupRejected ==
    /\ sup = "rejected"
    /\ CloseIpConn(cycle)
    /\ ReleaseHeld
    /\ sup' = "sleep" /\ reported' = "reconnecting"
    /\ UNCHANGED <<unchangedBySup, cycle, hooks, errChan, cancelled, shutdownCloses>>

\* Report, run the connect hook, make the channels and start the goroutines.
Establish ==
    /\ sup = "setup"
    /\ reported' = "connected"
    /\ hooks' = hooks \cup {<<cycle, "connect">>}
    /\ watcher' = [watcher EXCEPT ![cycle] = "wait"]
    /\ dev' = [dev EXCEPT ![cycle] = "check"]
    /\ net' = [net EXCEPT ![cycle] = "read"]
    /\ sup' = "wait"
    /\ UNCHANGED <<ctxDone, devOpen, cycle, resources, cycleVars, readMu>>

\* err = <-errChan, then report and run the disconnect hook.
ReceiveErr ==
    /\ sup = "wait" /\ errChan[cycle] > 0
    /\ errChan' = [errChan EXCEPT ![cycle] = @ - 1]
    /\ reported' = "reconnecting"
    /\ hooks' = hooks \cup {<<cycle, "disconnect">>}
    /\ sup' = "teardown"
    /\ UNCHANGED <<unchangedBySup, cycle, resources, conn, quic, cancelled, shutdownCloses>>

CancelPumps ==
    /\ sup = "teardown"
    /\ cancelled' = [cancelled EXCEPT ![cycle] = TRUE]
    /\ sup' = "closeConn"
    /\ UNCHANGED <<unchangedBySup, cycle, resources, outputs, conn, quic, errChan,
                   shutdownCloses>>

CloseConn ==
    /\ sup = "closeConn"
    /\ CloseIpConn(cycle)
    /\ sup' = "stopWatcher"
    /\ UNCHANGED <<unchangedBySup, cycle, resources, outputs, quic, errChan, cancelled,
                   shutdownCloses>>

\* Variant: ctxShutdownDone is never closed.
StopWatcherSkipped ==
    /\ sup = "stopWatcher"
    /\ sup' = "grace"
    /\ UNCHANGED <<unchangedBySup, cycle, resources, outputs, cycleVars>>

StopWatcher ==
    /\ sup = "stopWatcher"
    /\ shutdownCloses' = [shutdownCloses EXCEPT ![cycle] = @ + 1]
    /\ sup' = "grace"
    /\ UNCHANGED <<unchangedBySup, cycle, resources, outputs, conn, quic, errChan,
                   cancelled>>

\* wg.Wait returned, or the grace of pumpShutdownGrace is over.
PumpsJoined ==
    /\ sup = "grace" /\ dev[cycle] = "done" /\ net[cycle] = "done"
    /\ sup' = "release"
    /\ UNCHANGED <<unchangedBySup, cycle, resources, outputs, cycleVars>>

GraceExpires ==
    /\ sup = "grace"
    /\ sup' = "release"
    /\ UNCHANGED <<unchangedBySup, cycle, resources, outputs, cycleVars>>

Release ==
    /\ sup = "release"
    /\ ReleaseHeld
    /\ sup' = "sleep"
    /\ UNCHANGED <<unchangedBySup, cycle, outputs, conn, errChan, cancelled, shutdownCloses>>

\* Variant: the result of sleepCtx is taken the wrong way round.
SleepOverGivesUp ==
    /\ sup = "sleep"
    /\ sup' \in {"top", "returned"}
    /\ UNCHANGED <<unchangedBySup, cycle, resources, outputs, cycleVars>>

\* sleepCtx: the timer, or the context when it is done (either may win).
SleepOver ==
    /\ sup = "sleep"
    /\ \/ sup' = "top"
       \/ ctxDone /\ sup' = "returned"
    /\ UNCHANGED <<unchangedBySup, cycle, resources, outputs, cycleVars>>

-------------------------------------------------------------------------------
(* The context watcher of dial c.                                          *)

WatchCancel(c) ==
    /\ watcher[c] = "wait" /\ ctxDone
    /\ cancelled' = [cancelled EXCEPT ![c] = TRUE]
    /\ watcher' = [watcher EXCEPT ![c] = "close"]
    /\ UNCHANGED <<ctxDone, devOpen, supVars, conn, quic, errChan, shutdownCloses, pumpVars>>

WatchClose(c) ==
    /\ watcher[c] = "close"
    /\ CloseIpConn(c)
    /\ watcher' = [watcher EXCEPT ![c] = "signal"]
    /\ UNCHANGED <<ctxDone, devOpen, supVars, quic, errChan, cancelled, shutdownCloses,
                   pumpVars>>

\* Variant: the watcher only stops the pumps and closes the connection.
WatchSignalSilent(c) ==
    /\ watcher[c] = "signal"
    /\ watcher' = [watcher EXCEPT ![c] = "park"]
    /\ UNCHANGED <<ctxDone, devOpen, supVars, cycleVars, pumpVars>>

\* Variant: the watcher closes ctxShutdownDone itself.
WatchSignalClosing(c) ==
    /\ watcher[c] = "signal"
    /\ SendErr(c) \/ (errChan[c] = ErrChanCap /\ UNCHANGED errChan)
    /\ shutdownCloses' = [shutdownCloses EXCEPT ![c] = @ + 1]
    /\ watcher' = [watcher EXCEPT ![c] = "park"]
    /\ UNCHANGED <<ctxDone, devOpen, supVars, conn, quic, cancelled, pumpVars>>

\* A non-blocking send: dropped when the buffer is full.
WatchSignal(c) ==
    /\ watcher[c] = "signal"
    /\ SendErr(c) \/ (errChan[c] = ErrChanCap /\ UNCHANGED errChan)
    /\ watcher' = [watcher EXCEPT ![c] = "park"]
    /\ UNCHANGED <<ctxDone, devOpen, supVars, conn, quic, cancelled, shutdownCloses,
                   pumpVars>>

\* Received from the closed ctxShutdownDone, in the select or after the signal.
WatchExit(c) ==
    /\ watcher[c] \in {"wait", "park"} /\ shutdownCloses[c] > 0
    /\ watcher' = [watcher EXCEPT ![c] = "done"]
    /\ UNCHANGED <<ctxDone, devOpen, supVars, cycleVars, pumpVars>>

-------------------------------------------------------------------------------
(* The device pump of dial c.                                              *)

unchangedByPump ==
    <<ctxDone, devOpen, supVars, conn, quic, cancelled, shutdownCloses, watcher>>

DevTo(c, pc) == dev' = [dev EXCEPT ![c] = pc]

\* Loop head: leave when cancelled, else lock readMu and enter ReadPacket.
DevCheck(c) ==
    /\ dev[c] = "check"
    /\ \/ PumpsCancelled(c) /\ DevTo(c, "done") /\ UNCHANGED readMu
       \/ /\ ~PumpsCancelled(c) /\ ~readMu[c]
          /\ readMu' = [readMu EXCEPT ![c] = TRUE]
          /\ DevTo(c, "read")
    /\ UNCHANGED <<unchangedByPump, errChan, net>>

\* A packet: dropped on cancellation, black-holed if its family is blocked, else written.
DevRead(c) ==
    /\ dev[c] = "read" /\ devOpen
    /\ readMu' = [readMu EXCEPT ![c] = FALSE]
    /\ \/ PumpsCancelled(c) /\ DevTo(c, "done")
       \/ ~PumpsCancelled(c) /\ \E pc \in {"check", "write"} : DevTo(c, pc)
    /\ UNCHANGED <<unchangedByPump, errChan, net>>

DevReadFails(c) ==
    /\ dev[c] = "read"
    /\ readMu' = [readMu EXCEPT ![c] = FALSE]
    /\ DevTo(c, IF PumpsCancelled(c) THEN "done" ELSE "send")
    /\ UNCHANGED <<unchangedByPump, errChan, net>>

\* Sent, or too large (an ICMP packet goes back to the device), or another error
\* that is only logged, or dropped because it cannot be proxied (no TTL left),
\* which is no error even on a closed connection.
DevWrite(c) ==
    /\ dev[c] = "write"
    /\ \/ DevTo(c, "check")
       \/ PumpsCancelled(c) /\ DevTo(c, "done")
    /\ UNCHANGED <<unchangedByPump, errChan, readMu, net>>

\* WritePacket returns a CloseError.
DevWriteClosed(c) ==
    /\ dev[c] = "write" /\ conn[c] \in {"half", "closed"}
    /\ DevTo(c, IF PumpsCancelled(c) THEN "done" ELSE "send")
    /\ UNCHANGED <<unchangedByPump, errChan, readMu, net>>

DevSend(c) ==
    /\ dev[c] = "send"
    /\ SendErr(c)
    /\ DevTo(c, "done")
    /\ UNCHANGED <<unchangedByPump, readMu, net>>

-------------------------------------------------------------------------------
(* The network pump of dial c.                                             *)

NetTo(c, pc) == net' = [net EXCEPT ![c] = pc]

NetRead(c) ==
    /\ net[c] = "read" /\ conn[c] \in {"open", "half"}
    /\ NetTo(c, "deliver")
    /\ UNCHANGED <<unchangedByPump, errChan, readMu, dev>>

\* Variant: every read error is retried unless the pump is cancelled or over HTTP/2.
NetReadFailsRetrying(c) ==
    /\ net[c] = "read" /\ conn[c] \in {"broken", "closed"}
    /\ \/ PumpsCancelled(c) /\ NetTo(c, "done")
       \/ ~PumpsCancelled(c) /\ UseHTTP2 /\ NetTo(c, "send")
    /\ UNCHANGED <<unchangedByPump, errChan, readMu, dev>>

\* Variant: only a CloseError ends the pump, over HTTP/2 too.
NetReadFailsOnClose(c) ==
    /\ net[c] = "read" /\ conn[c] \in {"broken", "closed"}
    /\ \/ PumpsCancelled(c) /\ NetTo(c, "done")
       \/ ~PumpsCancelled(c) /\ conn[c] = "closed" /\ NetTo(c, "send")
    /\ UNCHANGED <<unchangedByPump, errChan, readMu, dev>>

\* Over HTTP/3 an error that is no CloseError is logged and the read is retried,
\* which changes nothing.
NetReadFails(c) ==
    /\ net[c] = "read" /\ conn[c] \in {"broken", "closed"}
    /\ \/ PumpsCancelled(c) /\ NetTo(c, "done")
       \/ ~PumpsCancelled(c) /\ (UseHTTP2 \/ conn[c] = "closed") /\ NetTo(c, "send")
    /\ UNCHANGED <<unchangedByPump, errChan, readMu, dev>>

NetDeliver(c) ==
    /\ net[c] = "deliver" /\ devOpen
    /\ NetTo(c, "read")
    /\ UNCHANGED <<unchangedByPump, errChan, readMu, dev>>

NetDeliverFails(c) ==
    /\ net[c] = "deliver"
    /\ NetTo(c, IF PumpsCancelled(c) THEN "done" ELSE "send")
    /\ UNCHANGED <<unchangedByPump, errChan, readMu, dev>>

NetSend(c) ==
    /\ net[c] = "send"
    /\ SendErr(c)
    /\ NetTo(c, "done")
    /\ UNCHANGED <<unchangedByPump, readMu, dev>>

-------------------------------------------------------------------------------
Supervisor ==
    \/ Top \/ IdleRead \/ IdleReadFails
    \/ DialFails \/ QuicDial \/ RequestFails \/ (\E status \in BOOLEAN : DialSucceeds(status))
    \/ CleanupFailed \/ CleanupRejected \/ Establish
    \/ ReceiveErr \/ CancelPumps \/ CloseConn \/ StopWatcher
    \/ PumpsJoined \/ GraceExpires \/ Release \/ SleepOver

Watcher(c) == WatchCancel(c) \/ WatchClose(c) \/ WatchSignal(c) \/ WatchExit(c)

DevPump(c) ==
    DevCheck(c) \/ DevRead(c) \/ DevReadFails(c) \/ DevWrite(c) \/ DevWriteClosed(c) \/ DevSend(c)

NetPump(c) ==
    NetRead(c) \/ NetReadFails(c) \/ NetDeliver(c) \/ NetDeliverFails(c) \/ NetSend(c)

Network(c) ==
    \/ SessionLost(c) \/ CloseChanClosed(c) \/ ControlStreamFails(c) \/ HalfClosedEnds(c)
    \/ SessionEnds(c)

Next ==
    \/ CancelCtx \/ CloseDevice
    \/ Supervisor
    \/ \E c \in Dials : Network(c) \/ Watcher(c) \/ DevPump(c) \/ NetPump(c)

Spec == Init /\ [][Next]_vars

\* Steps of the supervisor that its own scheduling brings about.  A dial ends
\* (handshake and idle timeouts); an idle read ends when the device is closed.
SupervisorRuns ==
    \/ Top \/ (~devOpen /\ IdleReadFails)
    \/ DialFails \/ QuicDial \/ RequestFails \/ (\E status \in BOOLEAN : DialSucceeds(status))
    \/ CleanupFailed \/ CleanupRejected \/ Establish
    \/ ReceiveErr \/ CancelPumps \/ CloseConn \/ StopWatcher
    \/ PumpsJoined \/ GraceExpires \/ Release \/ SleepOver

\* No pump is owed a packet or a successful write; what is owed is that blocked
\* calls fail once the device or the connection under them is closed.
DevPumpRuns(c) ==
    DevCheck(c) \/ (~devOpen /\ DevReadFails(c)) \/ DevWriteClosed(c) \/ DevSend(c)

NetPumpRuns(c) ==
    NetReadFails(c) \/ NetDeliver(c) \/ NetDeliverFails(c) \/ NetSend(c)

Fairness ==
    /\ WF_vars(SupervisorRuns)
    /\ \A c \in Dials :
          /\ WF_vars(Watcher(c))
          /\ WF_vars(DevPumpRuns(c))
          /\ WF_vars(NetPumpRuns(c))
          /\ WF_vars(CloseChanClosed(c))

FairSpec == Spec /\ Fairness

-------------------------------------------------------------------------------
(* Properties.                                                             *)

\* The supervisor has taken its error from errChan of dial c, or never will.
Left(c) == c < cycle \/ sup \notin {"setup", "wait"}

Count(b) == IF b THEN 1 ELSE 0

Sending(c) == Count(dev[c] = "send") + Count(net[c] = "send")

\* A pump that reports after the supervisor has stopped receiving still finds
\* room: with three senders, one receive and a buffer of two, no goroutine of a
\* finished connection stays blocked on errChan for ever.
ReportNeverBlocks ==
    \A c \in Dials : Left(c) => errChan[c] + Sending(c) =< ErrChanCap

\* close(ctxShutdownDone) happens at most once per connection (a second one
\* panics), and the watcher only stops on its own connection's close.
ShutdownClosedOnce ==
    \A c \in Dials :
        /\ shutdownCloses[c] =< 1
        /\ watcher[c] = "done" => Left(c)

\* While the supervisor waits, no pump has stopped silently: it left an error
\* behind, or the watcher that made it stop is about to.  The pumps' silent
\* returns on a cancelled pumpCtx rely on this.
PumpExitIsSignalled ==
    sup = "wait" /\ (dev[cycle] = "done" \/ net[cycle] = "done")
        => \/ errChan[cycle] > 0
           \/ watcher[cycle] \in {"close", "signal"}
           \/ watcher[cycle] = "wait" /\ ctxDone

\* Between dials no earlier one is half released: every ipConn is closed, so a
\* stale pump can send nowhere, every transport and every socket the supervisor
\* opened is closed once, and the caller's socket is still open.  With its own
\* sockets no QUIC connection is left either.  On the caller's socket those of
\* earlier dials may live on, but not that of a request that failed.
ReleasedBetweenDials ==
    sup \in {"top", "idle", "connect", "sleep", "returned"} =>
        /\ \A c \in 1 .. cycle : conn[c] = "closed"
        /\ open["tr"] = 0
        /\ open["udp"] = IF ExternalUDP THEN 1 ELSE 0
        /\ quic \subseteq 1 .. (IF ExternalUDP THEN cycle ELSE 0)

\* The goroutines that may be inside Device.ReadPacket at the same time.
DeviceReaders ==
    {c \in Dials : dev[c] = "read"} \cup (IF sup = "idle" THEN {0} ELSE {})

\* What the comments on pumpShutdownGrace and the log line at its expiry say:
\* readMu serialises a stale reader, parked on the open device, with the next
\* connection's device reader.
AtMostOneDeviceReader == devOpen => Cardinality(DeviceReaders) =< 1

\* Once the context is cancelled, and the device closed if the supervisor may be
\* idle on it, MaintainTunnel returns.
ReturnsAfterCancel == (ctxDone /\ (AlwaysReconnect \/ ~devOpen)) ~> (sup = "returned")

\* The loss of the connection in use gets the supervisor out of its wait, by
\* itself: no outbound traffic is needed.
LossIsNoticed ==
    \A c \in Dials :
        (sup = "wait" /\ cycle = c /\ conn[c] \in {"broken", "closed"})
            ~> ~(sup = "wait" /\ cycle = c)

\* After StopTunnel's cancel and Close, every goroutine of every connection
\* terminates, also those whose grace expired long before.
AllGoroutinesEnd ==
    (ctxDone /\ ~devOpen) ~>
        (\A c \in Dials : /\ dev[c] \in {"off", "done"} /\ net[c] \in {"off", "done"}
                          /\ watcher[c] \in {"off", "done"})

Life == INSTANCE TunnelLife WITH
    returned <- (sup = "returned"),
    pumps <- {c \in Dials : dev[c] \notin {"off", "done"} \/ net[c] \notin {"off", "done"}}

\* What the mobile binding relies on: states are reported and pumps are started
\* only before the call returns, which it does only after a cancel; a pump may
\* outlive it.
ImplementsTunnelLife == Life!Spec
===============================================================================
