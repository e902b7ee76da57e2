----------------------------- MODULE TunnelProofs -----------------------------
(***************************************************************************)
(* Safety of the tunnel supervisor for every configuration and every       *)
(* number of dials.                                                        *)
(***************************************************************************)
EXTENDS Tunnel, TLAPS

\* Nothing was started for a connection that is not dialled, not accepted, or
\* not yet set up.
NotStarted(c) ==
    /\ dev[c] = "off" /\ net[c] = "off" /\ watcher[c] = "off"
    /\ errChan[c] = 0 /\ shutdownCloses[c] = 0 /\ ~cancelled[c]

Fresh ==
    \A c \in Dials :
        /\ c > cycle => NotStarted(c) /\ conn[c] = "none"
        /\ c = cycle /\ sup \in {"setup", "rejected"} => NotStarted(c)

\* An iteration that has a connection has an index for it.
Dialled ==
    sup \in {"setup", "rejected", "wait", "teardown", "closeConn", "stopWatcher",
             "grace", "release"} => cycle > 0

\* Errors buffered and goroutines that may still add one.
Load(c) ==
    errChan[c] + Count(dev[c] \notin {"off", "done"}) + Count(net[c] \notin {"off", "done"})
               + Count(watcher[c] \in {"wait", "close", "signal"})

Loads == \A c \in Dials : Load(c) =< IF Left(c) THEN 2 ELSE 3

\* The close of ctxShutdownDone comes once, and after the wait.
Closes ==
    \A c \in Dials :
        /\ shutdownCloses[c] =< 1
        /\ c = cycle /\ sup \in {"wait", "teardown", "closeConn", "stopWatcher"}
              => shutdownCloses[c] = 0
        /\ watcher[c] = "done" => shutdownCloses[c] > 0

\* While the supervisor waits, a pump stops only after an error or a cancellation,
\* and a watcher that cancelled either still has to signal or left a full buffer.
Signals ==
    sup = "wait" =>
        /\ watcher[cycle] \in {"wait", "close", "signal", "park"}
        /\ cancelled[cycle] => watcher[cycle] # "wait"
        /\ watcher[cycle] # "wait" => ctxDone
        /\ watcher[cycle] = "park" => errChan[cycle] > 0
        /\ dev[cycle] = "done" \/ net[cycle] = "done"
              => errChan[cycle] > 0 \/ PumpsCancelled(cycle)

\* What is open is what the iteration holds, beside the caller's socket.
Holdings ==
    /\ open["tr"] = Count("tr" \in held)
    /\ open["udp"] = IF ExternalUDP THEN 1 ELSE Count("udp" \in held)
    /\ sup \in {"top", "idle", "connect", "sleep", "returned"} => held = {}
    /\ sup = "request" => held = {"udp"}

\* A QUIC connection belongs to a dial that came to be one, or to the request under
\* way; with a socket of its own it does not outlive the iteration.
Sessions ==
    /\ quic \subseteq 1 .. (cycle + Count(sup = "request"))
    /\ ~ExternalUDP =>
          quic \subseteq IF sup = "request" THEN {cycle + 1}
                         ELSE IF "udp" \in held THEN {cycle} ELSE {}

Closed ==
    \A c \in Dials :
        c < cycle \/ (c = cycle /\ sup \notin {"setup", "rejected", "wait", "teardown", "closeConn"})
            => conn[c] = "closed"

IInv == TypeOK /\ Fresh /\ Dialled /\ Loads /\ Closes /\ Signals /\ Holdings /\ Sessions /\ Closed


\* Every step keeps the types; the release of a resource needs Holdings, so that
\* no count falls below zero.
LEMMA StepTypeOK == IInv /\ [Next]_vars => TypeOK'
<1> SUFFICES ASSUME IInv, [Next]_vars PROVE TypeOK'
  OBVIOUS
<1> USE TunnelAssumption DEF IInv, TypeOK, supVars, resources, outputs, cycleVars, pumpVars
<1>1. CASE CancelCtx \/ CloseDevice \/ UNCHANGED vars
  BY <1>1 DEF CancelCtx, CloseDevice, vars
<1>2. ASSUME NEW c \in Dials, Network(c) PROVE TypeOK'
  <2>1. quic' \subseteq quic
    BY <1>2 DEF Network, SessionLost, CloseChanClosed, ControlStreamFails, HalfClosedEnds, SessionEnds
  <2>2. conn' \in [Dials -> ConnStates]
    BY <1>2 DEF Network, SessionLost, CloseChanClosed, ControlStreamFails, HalfClosedEnds, SessionEnds,
       SetConn, ConnStates
  <2>3. UNCHANGED <<ctxDone, devOpen, supVars, errChan, cancelled, shutdownCloses, pumpVars, watcher>>
    BY <1>2 DEF Network, SessionLost, CloseChanClosed, ControlStreamFails, HalfClosedEnds, SessionEnds,
       SetConn
  <2> QED BY <2>1, <2>2, <2>3
<1>3. ASSUME NEW c \in Dials, Watcher(c) PROVE TypeOK'
  <2> USE DEF WatcherStates
  <2>1. CASE WatchCancel(c)
    BY <2>1 DEF WatchCancel
  <2>2. CASE WatchClose(c)
    BY <2>2 DEF WatchClose, CloseIpConn, ConnStates
  <2>3. CASE WatchSignal(c)
    BY <2>3 DEF WatchSignal, SendErr, ErrChanCap
  <2>4. CASE WatchExit(c)
    BY <2>4 DEF WatchExit
  <2> QED BY <1>3, <2>1, <2>2, <2>3, <2>4 DEF Watcher
<1>4. ASSUME NEW c \in Dials, DevPump(c) PROVE TypeOK'
  <2> USE DEF DevStates, DevTo, unchangedByPump
  <2>1. CASE DevCheck(c)
    BY <2>1 DEF DevCheck
  <2>2. CASE DevRead(c)
    BY <2>2 DEF DevRead
  <2>3. CASE DevReadFails(c)
    BY <2>3 DEF DevReadFails
  <2>4. CASE DevWrite(c) \/ DevWriteClosed(c)
    BY <2>4 DEF DevWrite, DevWriteClosed
  <2>5. CASE DevSend(c)
    BY <2>5 DEF DevSend, SendErr, ErrChanCap
  <2> QED BY <1>4, <2>1, <2>2, <2>3, <2>4, <2>5 DEF DevPump
<1>5. ASSUME NEW c \in Dials, NetPump(c) PROVE TypeOK'
  <2> USE DEF NetStates, NetTo, unchangedByPump
  <2>1. CASE NetRead(c) \/ NetReadFails(c) \/ NetDeliver(c)
    BY <2>1 DEF NetRead, NetReadFails, NetDeliver
  <2>2. CASE NetDeliverFails(c)
    BY <2>2 DEF NetDeliverFails
  <2>3. CASE NetSend(c)
    BY <2>3 DEF NetSend, SendErr, ErrChanCap
  <2> QED BY <1>5, <2>1, <2>2, <2>3 DEF NetPump
<1>6. CASE Supervisor
  <2> USE DEF unchangedBySup, SupStates
  <2>1. CASE Top
    BY <2>1 DEF Top, Reports
  <2>2. CASE IdleRead \/ IdleReadFails \/ PumpsJoined \/ GraceExpires \/ SleepOver
    BY <2>2 DEF IdleRead, IdleReadFails, PumpsJoined, GraceExpires, SleepOver, Reports
  <2>3. CASE DialFails
    BY <2>3 DEF DialFails, Acquire, Resources
  <2>4. ASSUME NEW status \in BOOLEAN, DialSucceeds(status) PROVE TypeOK'
    BY <2>4, SMTT(60) DEF DialSucceeds, Acquire, Resources, Dials, ConnStates
  <2>5. CASE CleanupFailed \/ CleanupRejected \/ Release
    <3>1. ReleaseHeld
      BY <2>5 DEF CleanupFailed, CleanupRejected, Release
    <3>2. open' \in [Resources -> Nat] /\ held' = {} /\ quic' \in SUBSET Dials
      <4>1. \A r \in ToClose : r \in Resources /\ open[r] = 1
        BY DEF ToClose, Holdings, Count, Resources
      <4> QED BY <3>1, <4>1 DEF ReleaseHeld
    <3>3. CASE CleanupFailed
      BY <3>2, <3>3 DEF CleanupFailed, Reports
    <3>4. CASE CleanupRejected
      BY <3>2, <3>4 DEF CleanupRejected, CloseIpConn, Reports, ConnStates
    <3>5. CASE Release
      BY <3>2, <3>5 DEF Release
    <3> QED BY <2>5, <3>3, <3>4, <3>5
  <2>6. CASE Establish
    BY <2>6 DEF Establish, Dialled, Reports, Dials, WatcherStates, DevStates, NetStates
  <2>7. CASE ReceiveErr
    BY <2>7 DEF ReceiveErr, Dialled, Reports, Dials, ErrChanCap
  <2>8. CASE CancelPumps
    BY <2>8 DEF CancelPumps
  <2>9. CASE CloseConn
    BY <2>9 DEF CloseConn, CloseIpConn, ConnStates
  <2>10. CASE StopWatcher
    BY <2>10 DEF StopWatcher, Dialled, Dials
  <2>11. CASE QuicDial
    <3>1. quic' \in SUBSET Dials
      BY <2>11 DEF QuicDial, Dials
    <3>2. open' \in [Resources -> Nat] /\ held' \in SUBSET Resources
      BY <2>11 DEF QuicDial, Acquire, Resources
    <3> QED BY <2>11, <3>1, <3>2 DEF QuicDial
  <2>12. CASE RequestFails
    <3>1. quic' \in SUBSET Dials
      BY <2>12 DEF RequestFails
    <3> QED BY <2>12, <3>1 DEF RequestFails
  <2> QED BY <1>6, <2>1, <2>2, <2>3, <2>4, <2>5, <2>6, <2>7, <2>8, <2>9, <2>10, <2>11, <2>12 DEF Supervisor
<1> QED BY <1>1, <1>2, <1>3, <1>4, <1>5, <1>6 DEF Next

\* Every step keeps Dialled: these stages are entered with a new index only.
LEMMA StepDialled == IInv /\ [Next]_vars => Dialled'
<1> SUFFICES ASSUME IInv, [Next]_vars PROVE Dialled'
  OBVIOUS
<1> USE DEF IInv, TypeOK, Dialled, supVars, resources, outputs, cycleVars, pumpVars
<1>1. CASE CancelCtx \/ CloseDevice \/ UNCHANGED vars \/ \E c \in Dials : Network(c)
  BY <1>1 DEF CancelCtx, CloseDevice, vars, Network, SessionLost, CloseChanClosed,
         ControlStreamFails, HalfClosedEnds, SessionEnds, SetConn
<1>2. ASSUME NEW d \in Dials, Watcher(d) PROVE Dialled'
  BY <1>2 DEF Watcher, WatchCancel, WatchClose, WatchSignal, WatchExit,
     CloseIpConn, SendErr
<1>3. ASSUME NEW d \in Dials, DevPump(d) PROVE Dialled'
  BY <1>3 DEF DevPump, DevCheck, DevRead, DevReadFails, DevWrite, DevWriteClosed, DevSend,
     DevTo, SendErr, unchangedByPump
<1>4. ASSUME NEW d \in Dials, NetPump(d) PROVE Dialled'
  BY <1>4 DEF NetPump, NetRead, NetReadFails, NetDeliver, NetDeliverFails, NetSend,
     NetTo, SendErr, unchangedByPump
<1>5. CASE Supervisor
  BY <1>5 DEF Supervisor, unchangedBySup, Top, IdleRead, IdleReadFails, DialFails, QuicDial, RequestFails, DialSucceeds, CleanupFailed, CleanupRejected,
         Establish, ReceiveErr, CancelPumps, CloseConn, StopWatcher, PumpsJoined, GraceExpires,
         Release, SleepOver
<1> QED BY <1>1, <1>2, <1>3, <1>4, <1>5 DEF Next

\* Every step keeps Fresh: no goroutine of a later dial moves or is signalled.
LEMMA StepFresh == IInv /\ [Next]_vars => Fresh'
<1> SUFFICES ASSUME IInv, [Next]_vars PROVE Fresh'
  OBVIOUS
<1> USE DEF IInv, TypeOK, Fresh, supVars, resources, outputs, cycleVars, pumpVars, NotStarted
<1>1. CASE CancelCtx \/ CloseDevice \/ UNCHANGED vars \/ \E c \in Dials : Network(c)
  BY <1>1 DEF CancelCtx, CloseDevice, vars, Network, SessionLost, CloseChanClosed,
         ControlStreamFails, HalfClosedEnds, SessionEnds, SetConn
<1>2. ASSUME NEW d \in Dials, Watcher(d) PROVE Fresh'
  BY <1>2 DEF Watcher, WatchCancel, WatchClose, WatchSignal, WatchExit,
     CloseIpConn, SendErr
<1>3. ASSUME NEW d \in Dials, DevPump(d) PROVE Fresh'
  BY <1>3 DEF DevPump, DevCheck, DevRead, DevReadFails, DevWrite, DevWriteClosed, DevSend,
     DevTo, SendErr, unchangedByPump
<1>4. ASSUME NEW d \in Dials, NetPump(d) PROVE Fresh'
  BY <1>4 DEF NetPump, NetRead, NetReadFails, NetDeliver, NetDeliverFails, NetSend,
     NetTo, SendErr, unchangedByPump
<1>5. CASE Supervisor
  <2> USE DEF unchangedBySup
  <2>1. CASE Top
    BY <2>1 DEF Top
  <2>2. CASE IdleRead
    BY <2>2 DEF IdleRead
  <2>3. CASE IdleReadFails
    BY <2>3 DEF IdleReadFails
  <2>4. CASE DialFails
    BY <2>4 DEF DialFails, Acquire
  <2>5. ASSUME NEW status \in BOOLEAN, DialSucceeds(status) PROVE Fresh'
    BY <2>5 DEF DialSucceeds, Acquire, Dials
  <2>6. CASE CleanupFailed
    BY <2>6 DEF CleanupFailed, ReleaseHeld, ToClose
  <2>7. CASE CleanupRejected
    BY <2>7 DEF CleanupRejected, ReleaseHeld, ToClose, CloseIpConn
  <2>8. CASE Establish
    BY <2>8 DEF Establish
  <2>9. CASE ReceiveErr
    BY <2>9 DEF ReceiveErr
  <2>10. CASE CancelPumps
    BY <2>10 DEF CancelPumps
  <2>11. CASE CloseConn
    BY <2>11 DEF CloseConn, CloseIpConn
  <2>12. CASE StopWatcher
    BY <2>12 DEF StopWatcher
  <2>13. CASE PumpsJoined
    BY <2>13 DEF PumpsJoined
  <2>14. CASE GraceExpires
    BY <2>14 DEF GraceExpires
  <2>15. CASE Release
    BY <2>15 DEF Release, ReleaseHeld, ToClose
  <2>16. CASE SleepOver
    BY <2>16 DEF SleepOver
  <2>17. CASE QuicDial \/ RequestFails
    BY <2>17 DEF QuicDial, RequestFails, Acquire
  <2> QED BY <1>5, <2>1, <2>2, <2>3, <2>4, <2>5, <2>6, <2>7, <2>8,
             <2>9, <2>10, <2>11, <2>12, <2>13, <2>14, <2>15, <2>16, <2>17 DEF Supervisor
<1> QED BY <1>1, <1>2, <1>3, <1>4, <1>5 DEF Next

\* Every step keeps Holdings: what is acquired is released once.
LEMMA StepHoldings == IInv /\ [Next]_vars => Holdings'
<1> SUFFICES ASSUME IInv, [Next]_vars PROVE Holdings'
  OBVIOUS
<1> USE DEF IInv, TypeOK, Holdings, supVars, resources, outputs, cycleVars, pumpVars, Count
<1>1. CASE CancelCtx \/ CloseDevice \/ UNCHANGED vars \/ \E c \in Dials : Network(c)
  BY <1>1 DEF CancelCtx, CloseDevice, vars, Network, SessionLost, CloseChanClosed,
         ControlStreamFails, HalfClosedEnds, SessionEnds, SetConn
<1>2. ASSUME NEW d \in Dials, Watcher(d) PROVE Holdings'
  BY <1>2 DEF Watcher, WatchCancel, WatchClose, WatchSignal, WatchExit,
     CloseIpConn, SendErr
<1>3. ASSUME NEW d \in Dials, DevPump(d) PROVE Holdings'
  BY <1>3 DEF DevPump, DevCheck, DevRead, DevReadFails, DevWrite, DevWriteClosed, DevSend,
     DevTo, SendErr, unchangedByPump
<1>4. ASSUME NEW d \in Dials, NetPump(d) PROVE Holdings'
  BY <1>4 DEF NetPump, NetRead, NetReadFails, NetDeliver, NetDeliverFails, NetSend,
     NetTo, SendErr, unchangedByPump
<1>5. CASE Supervisor
  <2> USE DEF unchangedBySup
  <2>1. CASE Top
    BY <2>1 DEF Top, Resources
  <2>2. CASE IdleRead
    BY <2>2 DEF IdleRead, Resources
  <2>3. CASE IdleReadFails
    BY <2>3 DEF IdleReadFails, Resources
  <2>4. CASE DialFails
    BY <2>4 DEF DialFails, Acquire, Resources
  <2>5. ASSUME NEW status \in BOOLEAN, DialSucceeds(status) PROVE Holdings'
    BY <2>5 DEF DialSucceeds, Acquire, Resources
  <2>6. CASE CleanupFailed
    BY <2>6 DEF CleanupFailed, ReleaseHeld, ToClose, Resources
  <2>7. CASE CleanupRejected
    BY <2>7 DEF CleanupRejected, ReleaseHeld, ToClose, CloseIpConn, Resources
  <2>8. CASE Establish
    BY <2>8 DEF Establish, Resources
  <2>9. CASE ReceiveErr
    BY <2>9 DEF ReceiveErr, Resources
  <2>10. CASE CancelPumps
    BY <2>10 DEF CancelPumps, Resources
  <2>11. CASE CloseConn
    BY <2>11 DEF CloseConn, CloseIpConn, Resources
  <2>12. CASE StopWatcher
    BY <2>12 DEF StopWatcher, Resources
  <2>13. CASE PumpsJoined
    BY <2>13 DEF PumpsJoined, Resources
  <2>14. CASE GraceExpires
    BY <2>14 DEF GraceExpires, Resources
  <2>15. CASE Release
    BY <2>15 DEF Release, ReleaseHeld, ToClose, Resources
  <2>16. CASE SleepOver
    BY <2>16 DEF SleepOver, Resources
  <2>17. CASE QuicDial \/ RequestFails
    <3>1. CASE QuicDial
      <4>1. held = {} /\ held' = {"udp"} /\ sup' = "request"
        BY <3>1 DEF QuicDial, Acquire
      <4>2. open'["tr"] = open["tr"] /\ open'["udp"] = IF ExternalUDP THEN open["udp"] ELSE open["udp"] + 1
        BY <3>1, <4>1 DEF QuicDial, Acquire, Resources
      <4> QED BY <4>1, <4>2
    <3> QED BY <2>17, <3>1 DEF RequestFails
  <2> QED BY <1>5, <2>1, <2>2, <2>3, <2>4, <2>5, <2>6, <2>7, <2>8,
             <2>9, <2>10, <2>11, <2>12, <2>13, <2>14, <2>15, <2>16, <2>17 DEF Supervisor
<1> QED BY <1>1, <1>2, <1>3, <1>4, <1>5 DEF Next

\* Every step keeps Sessions: a failed request closes its connection, an own socket
\* takes it along.
LEMMA StepSessions == IInv /\ [Next]_vars => Sessions'
<1> SUFFICES ASSUME IInv, [Next]_vars PROVE Sessions'
  OBVIOUS
<1> USE DEF IInv, TypeOK, Holdings, Sessions, supVars, resources, outputs, cycleVars, pumpVars, Count
<1>1. CASE CancelCtx \/ CloseDevice \/ UNCHANGED vars \/ \E c \in Dials : Network(c)
  BY <1>1 DEF CancelCtx, CloseDevice, vars, Network, SessionLost, CloseChanClosed,
         ControlStreamFails, HalfClosedEnds, SessionEnds, SetConn
<1>2. ASSUME NEW d \in Dials, Watcher(d) PROVE Sessions'
  BY <1>2 DEF Watcher, WatchCancel, WatchClose, WatchSignal, WatchExit,
     CloseIpConn, SendErr
<1>3. ASSUME NEW d \in Dials, DevPump(d) PROVE Sessions'
  BY <1>3 DEF DevPump, DevCheck, DevRead, DevReadFails, DevWrite, DevWriteClosed, DevSend,
     DevTo, SendErr, unchangedByPump
<1>4. ASSUME NEW d \in Dials, NetPump(d) PROVE Sessions'
  BY <1>4 DEF NetPump, NetRead, NetReadFails, NetDeliver, NetDeliverFails, NetSend,
     NetTo, SendErr, unchangedByPump
<1>5. CASE Supervisor
  <2> USE DEF unchangedBySup
  <2>1. CASE Top
    BY <2>1 DEF Top, Resources
  <2>2. CASE IdleRead
    BY <2>2 DEF IdleRead, Resources
  <2>3. CASE IdleReadFails
    BY <2>3 DEF IdleReadFails, Resources
  <2>4. CASE DialFails
    BY <2>4 DEF DialFails, Acquire, Resources
  <2>5. ASSUME NEW status \in BOOLEAN, DialSucceeds(status) PROVE Sessions'
    BY <2>5 DEF DialSucceeds, Acquire, Resources
  <2>6. CASE CleanupFailed
    BY <2>6 DEF CleanupFailed, ReleaseHeld, ToClose, Resources
  <2>7. CASE CleanupRejected
    BY <2>7 DEF CleanupRejected, ReleaseHeld, ToClose, CloseIpConn, Resources
  <2>8. CASE Establish
    BY <2>8 DEF Establish, Resources
  <2>9. CASE ReceiveErr
    BY <2>9 DEF ReceiveErr, Resources
  <2>10. CASE CancelPumps
    BY <2>10 DEF CancelPumps, Resources
  <2>11. CASE CloseConn
    BY <2>11 DEF CloseConn, CloseIpConn, Resources
  <2>12. CASE StopWatcher
    BY <2>12 DEF StopWatcher, Resources
  <2>13. CASE PumpsJoined
    BY <2>13 DEF PumpsJoined, Resources
  <2>14. CASE GraceExpires
    BY <2>14 DEF GraceExpires, Resources
  <2>15. CASE Release
    BY <2>15 DEF Release, ReleaseHeld, ToClose, Resources
  <2>16. CASE SleepOver
    BY <2>16 DEF SleepOver, Resources
  <2>17. CASE QuicDial \/ RequestFails
    <3>1. CASE QuicDial
      <4>1. quic' = quic \cup {cycle + 1} /\ cycle' = cycle /\ sup = "connect" /\ sup' = "request"
        BY <3>1 DEF QuicDial
      <4>2. quic \subseteq 1 .. cycle /\ (~ExternalUDP => quic = {})
        BY <4>1
      <4> QED BY <4>1, <4>2
    <3>2. CASE RequestFails
      <4>1. quic' = quic \ {cycle + 1} /\ UNCHANGED <<cycle, held>> /\ sup = "request" /\ sup' = "failed"
        BY <3>2 DEF RequestFails
      <4> QED BY <4>1
    <3> QED BY <2>17, <3>1, <3>2
  <2> QED BY <1>5, <2>1, <2>2, <2>3, <2>4, <2>5, <2>6, <2>7, <2>8,
             <2>9, <2>10, <2>11, <2>12, <2>13, <2>14, <2>15, <2>16, <2>17 DEF Supervisor
<1> QED BY <1>1, <1>2, <1>3, <1>4, <1>5 DEF Next

\* Every step keeps Closed: a closed ipConn is never reopened.
LEMMA StepClosed == IInv /\ [Next]_vars => Closed'
<1> SUFFICES ASSUME IInv, [Next]_vars PROVE Closed'
  OBVIOUS
<1> USE DEF IInv, TypeOK, Closed, supVars, resources, outputs, cycleVars, pumpVars
<1>1. CASE CancelCtx \/ CloseDevice \/ UNCHANGED vars \/ \E c \in Dials : Network(c)
  BY <1>1 DEF CancelCtx, CloseDevice, vars, Network, SessionLost, CloseChanClosed,
         ControlStreamFails, HalfClosedEnds, SessionEnds, SetConn
<1>2. ASSUME NEW d \in Dials, Watcher(d) PROVE Closed'
  BY <1>2 DEF Watcher, WatchCancel, WatchClose, WatchSignal, WatchExit,
     CloseIpConn, SendErr
<1>3. ASSUME NEW d \in Dials, DevPump(d) PROVE Closed'
  BY <1>3 DEF DevPump, DevCheck, DevRead, DevReadFails, DevWrite, DevWriteClosed, DevSend,
     DevTo, SendErr, unchangedByPump
<1>4. ASSUME NEW d \in Dials, NetPump(d) PROVE Closed'
  BY <1>4 DEF NetPump, NetRead, NetReadFails, NetDeliver, NetDeliverFails, NetSend,
     NetTo, SendErr, unchangedByPump
<1>5. CASE Supervisor
  <2> USE DEF unchangedBySup
  <2>1. CASE Top
    BY <2>1 DEF Top, Dials
  <2>2. CASE IdleRead
    BY <2>2 DEF IdleRead, Dials
  <2>3. CASE IdleReadFails
    BY <2>3 DEF IdleReadFails, Dials
  <2>4. CASE DialFails
    BY <2>4 DEF DialFails, Acquire, Dials
  <2>5. ASSUME NEW status \in BOOLEAN, DialSucceeds(status) PROVE Closed'
    BY <2>5 DEF DialSucceeds, Acquire, Dials
  <2>6. CASE CleanupFailed
    BY <2>6 DEF CleanupFailed, ReleaseHeld, ToClose, Dials
  <2>7. CASE CleanupRejected
    BY <2>7 DEF CleanupRejected, ReleaseHeld, ToClose, CloseIpConn, Dials
  <2>8. CASE Establish
    BY <2>8 DEF Establish, Dials
  <2>9. CASE ReceiveErr
    BY <2>9 DEF ReceiveErr, Dials
  <2>10. CASE CancelPumps
    BY <2>10 DEF CancelPumps, Dials
  <2>11. CASE CloseConn
    BY <2>11 DEF CloseConn, CloseIpConn, Dials
  <2>12. CASE StopWatcher
    BY <2>12 DEF StopWatcher, Dials
  <2>13. CASE PumpsJoined
    BY <2>13 DEF PumpsJoined, Dials
  <2>14. CASE GraceExpires
    BY <2>14 DEF GraceExpires, Dials
  <2>15. CASE Release
    BY <2>15 DEF Release, ReleaseHeld, ToClose, Dials
  <2>16. CASE SleepOver
    BY <2>16 DEF SleepOver, Dials
  <2>17. CASE QuicDial \/ RequestFails
    BY <2>17 DEF QuicDial, RequestFails, Acquire, Dials
  <2> QED BY <1>5, <2>1, <2>2, <2>3, <2>4, <2>5, <2>6, <2>7, <2>8,
             <2>9, <2>10, <2>11, <2>12, <2>13, <2>14, <2>15, <2>16, <2>17 DEF Supervisor
<1> QED BY <1>1, <1>2, <1>3, <1>4, <1>5 DEF Next

\* Every step keeps Closes: only StopWatcher closes ctxShutdownDone.
LEMMA StepCloses == IInv /\ [Next]_vars => Closes'
<1> SUFFICES ASSUME IInv, [Next]_vars PROVE Closes'
  OBVIOUS
<1> USE DEF IInv, TypeOK, Closes, supVars, resources, outputs, cycleVars, pumpVars
<1>1. CASE CancelCtx \/ CloseDevice \/ UNCHANGED vars \/ \E c \in Dials : Network(c)
  BY <1>1 DEF CancelCtx, CloseDevice, vars, Network, SessionLost, CloseChanClosed,
         ControlStreamFails, HalfClosedEnds, SessionEnds, SetConn
<1>2. ASSUME NEW d \in Dials, Watcher(d) PROVE Closes'
  BY <1>2 DEF Watcher, WatchCancel, WatchClose, WatchSignal, WatchExit,
     CloseIpConn, SendErr
<1>3. ASSUME NEW d \in Dials, DevPump(d) PROVE Closes'
  BY <1>3 DEF DevPump, DevCheck, DevRead, DevReadFails, DevWrite, DevWriteClosed, DevSend,
     DevTo, SendErr, unchangedByPump
<1>4. ASSUME NEW d \in Dials, NetPump(d) PROVE Closes'
  BY <1>4 DEF NetPump, NetRead, NetReadFails, NetDeliver, NetDeliverFails, NetSend,
     NetTo, SendErr, unchangedByPump
<1>5. CASE Supervisor
  <2> USE DEF unchangedBySup
  <2>1. CASE Top
    BY <2>1 DEF Top, Dials
  <2>2. CASE IdleRead
    BY <2>2 DEF IdleRead, Dials
  <2>3. CASE IdleReadFails
    BY <2>3 DEF IdleReadFails, Dials
  <2>4. CASE DialFails
    BY <2>4 DEF DialFails, Acquire, Dials
  <2>5. ASSUME NEW status \in BOOLEAN, DialSucceeds(status) PROVE Closes'
    BY <2>5 DEF DialSucceeds, Acquire, Dials
  <2>6. CASE CleanupFailed
    BY <2>6 DEF CleanupFailed, ReleaseHeld, ToClose, Dials
  <2>7. CASE CleanupRejected
    BY <2>7 DEF CleanupRejected, ReleaseHeld, ToClose, CloseIpConn, Dials
  <2>8. CASE Establish
    BY <2>8 DEF Establish, Dials, Fresh, NotStarted
  <2>9. CASE ReceiveErr
    BY <2>9 DEF ReceiveErr, Dials
  <2>10. CASE CancelPumps
    BY <2>10 DEF CancelPumps, Dials
  <2>11. CASE CloseConn
    BY <2>11 DEF CloseConn, CloseIpConn, Dials
  <2>12. CASE StopWatcher
    BY <2>12 DEF StopWatcher, Dials
  <2>13. CASE PumpsJoined
    BY <2>13 DEF PumpsJoined, Dials
  <2>14. CASE GraceExpires
    BY <2>14 DEF GraceExpires, Dials
  <2>15. CASE Release
    BY <2>15 DEF Release, ReleaseHeld, ToClose, Dials
  <2>16. CASE SleepOver
    BY <2>16 DEF SleepOver, Dials
  <2>17. CASE QuicDial \/ RequestFails
    BY <2>17 DEF QuicDial, RequestFails, Acquire, Dials
  <2> QED BY <1>5, <2>1, <2>2, <2>3, <2>4, <2>5, <2>6, <2>7, <2>8,
             <2>9, <2>10, <2>11, <2>12, <2>13, <2>14, <2>15, <2>16, <2>17 DEF Supervisor
<1> QED BY <1>1, <1>2, <1>3, <1>4, <1>5 DEF Next

\* Every step keeps Loads: a send moves one unit from a goroutine to the buffer,
\* and the receive that ends the wait takes one out.
LEMMA StepLoads == IInv /\ [Next]_vars => Loads'
<1> SUFFICES ASSUME IInv, [Next]_vars PROVE Loads'
  OBVIOUS
<1> USE DEF IInv, TypeOK, Loads, supVars, resources, outputs, cycleVars, pumpVars, Load, Left, Count
<1>1. CASE CancelCtx \/ CloseDevice \/ UNCHANGED vars \/ \E c \in Dials : Network(c)
  BY <1>1 DEF CancelCtx, CloseDevice, vars, Network, SessionLost, CloseChanClosed,
         ControlStreamFails, HalfClosedEnds, SessionEnds, SetConn
<1>2. ASSUME NEW d \in Dials, Watcher(d) PROVE Loads'
  BY <1>2 DEF Watcher, WatchCancel, WatchClose, WatchSignal, WatchExit,
     CloseIpConn, SendErr
<1>3. ASSUME NEW d \in Dials, DevPump(d) PROVE Loads'
  BY <1>3 DEF DevPump, DevCheck, DevRead, DevReadFails, DevWrite, DevWriteClosed, DevSend,
     DevTo, SendErr, unchangedByPump
<1>4. ASSUME NEW d \in Dials, NetPump(d) PROVE Loads'
  BY <1>4 DEF NetPump, NetRead, NetReadFails, NetDeliver, NetDeliverFails, NetSend,
     NetTo, SendErr, unchangedByPump
<1>5. CASE Supervisor
  <2> USE DEF unchangedBySup
  <2>1. CASE Top
    BY <2>1 DEF Top, Dials
  <2>2. CASE IdleRead
    BY <2>2 DEF IdleRead, Dials
  <2>3. CASE IdleReadFails
    BY <2>3 DEF IdleReadFails, Dials
  <2>4. CASE DialFails
    BY <2>4 DEF DialFails, Acquire, Dials
  <2>5. ASSUME NEW status \in BOOLEAN, DialSucceeds(status) PROVE Loads'
    BY <2>5 DEF DialSucceeds, Acquire, Dials
  <2>6. CASE CleanupFailed
    BY <2>6 DEF CleanupFailed, ReleaseHeld, ToClose, Dials
  <2>7. CASE CleanupRejected
    BY <2>7 DEF CleanupRejected, ReleaseHeld, ToClose, CloseIpConn, Dials
  <2>8. CASE Establish
    BY <2>8 DEF Establish, Dials, Dialled, Fresh, NotStarted
  <2>9. CASE ReceiveErr
    BY <2>9 DEF ReceiveErr, Dials, Dialled, ErrChanCap, Fresh, NotStarted
  <2>10. CASE CancelPumps
    BY <2>10 DEF CancelPumps, Dials
  <2>11. CASE CloseConn
    BY <2>11 DEF CloseConn, CloseIpConn, Dials
  <2>12. CASE StopWatcher
    BY <2>12 DEF StopWatcher, Dials
  <2>13. CASE PumpsJoined
    BY <2>13 DEF PumpsJoined, Dials
  <2>14. CASE GraceExpires
    BY <2>14 DEF GraceExpires, Dials
  <2>15. CASE Release
    BY <2>15 DEF Release, ReleaseHeld, ToClose, Dials
  <2>16. CASE SleepOver
    BY <2>16 DEF SleepOver, Dials
  <2>17. CASE QuicDial \/ RequestFails
    BY <2>17 DEF QuicDial, RequestFails, Acquire, Dials
  <2> QED BY <1>5, <2>1, <2>2, <2>3, <2>4, <2>5, <2>6, <2>7, <2>8,
             <2>9, <2>10, <2>11, <2>12, <2>13, <2>14, <2>15, <2>16, <2>17 DEF Supervisor
<1> QED BY <1>1, <1>2, <1>3, <1>4, <1>5 DEF Next

\* The connection the supervisor waits for.
LEMMA Waiting ==
    ASSUME IInv, sup = "wait"
    PROVE  cycle \in Dials /\ errChan[cycle] \in 0 .. 2 /\ shutdownCloses[cycle] = 0
<1>1. cycle \in Dials
  BY TunnelAssumption DEF IInv, TypeOK, Dialled, Dials
<1>2. errChan[cycle] \in 0 .. 2
  BY <1>1 DEF IInv, TypeOK, ErrChanCap
<1>3. shutdownCloses[cycle] = 0
  BY <1>1 DEF IInv, Closes
<1> QED BY <1>1, <1>2, <1>3

\* Every step keeps Signals.
LEMMA StepSignals == IInv /\ [Next]_vars => Signals'
<1> SUFFICES ASSUME IInv, [Next]_vars PROVE Signals'
  OBVIOUS
<1> USE DEF IInv, TypeOK, Signals, supVars, resources, outputs, cycleVars, pumpVars, PumpsCancelled
<1>1. CASE CancelCtx \/ CloseDevice \/ UNCHANGED vars \/ \E c \in Dials : Network(c)
  BY <1>1 DEF CancelCtx, CloseDevice, vars, Network, SessionLost, CloseChanClosed,
         ControlStreamFails, HalfClosedEnds, SessionEnds, SetConn
<1>a. sup = "wait" => cycle \in Dials /\ errChan[cycle] \in 0 .. 2 /\ shutdownCloses[cycle] = 0
  BY ONLY IInv, Waiting
<1> USE <1>a DEF ErrChanCap
<1>2. ASSUME NEW d \in Dials, Watcher(d) PROVE Signals'
  <2> SUFFICES ASSUME sup = "wait" PROVE Signals'
    BY <1>2 DEF Watcher, WatchCancel, WatchClose, WatchSignal, WatchExit
  <2> USE DEF CloseIpConn, SendErr
  <2>1. CASE WatchCancel(d)
    BY <2>1 DEF WatchCancel
  <2>2. CASE WatchClose(d)
    BY <2>2 DEF WatchClose
  <2>3. CASE WatchSignal(d)
    BY <2>3 DEF WatchSignal
  <2>4. CASE WatchExit(d)
    BY <2>4 DEF WatchExit
  <2> QED BY <1>2, <2>1, <2>2, <2>3, <2>4 DEF Watcher
<1>3. ASSUME NEW d \in Dials, DevPump(d) PROVE Signals'
  <2> USE DEF DevTo, SendErr, unchangedByPump
  <2>1. CASE DevCheck(d)
    BY <2>1 DEF DevCheck
  <2>2. CASE DevRead(d) \/ DevReadFails(d)
    BY <2>2 DEF DevRead, DevReadFails
  <2>3. CASE DevWrite(d) \/ DevWriteClosed(d)
    BY <2>3 DEF DevWrite, DevWriteClosed
  <2>4. CASE DevSend(d)
    BY <2>4 DEF DevSend
  <2> QED BY <1>3, <2>1, <2>2, <2>3, <2>4 DEF DevPump
<1>4. ASSUME NEW d \in Dials, NetPump(d) PROVE Signals'
  <2> USE DEF NetTo, SendErr, unchangedByPump
  <2>1. CASE NetRead(d) \/ NetReadFails(d)
    BY <2>1 DEF NetRead, NetReadFails
  <2>2. CASE NetDeliver(d) \/ NetDeliverFails(d)
    BY <2>2 DEF NetDeliver, NetDeliverFails
  <2>3. CASE NetSend(d)
    BY <2>3 DEF NetSend
  <2> QED BY <1>4, <2>1, <2>2, <2>3 DEF NetPump
<1>5. CASE Supervisor
  <2> USE DEF unchangedBySup
  <2>1. CASE Top
    BY <2>1 DEF Top
  <2>2. CASE IdleRead
    BY <2>2 DEF IdleRead
  <2>3. CASE IdleReadFails
    BY <2>3 DEF IdleReadFails
  <2>4. CASE DialFails
    BY <2>4 DEF DialFails, Acquire
  <2>5. ASSUME NEW status \in BOOLEAN, DialSucceeds(status) PROVE Signals'
    BY <2>5 DEF DialSucceeds, Acquire
  <2>6. CASE CleanupFailed
    BY <2>6 DEF CleanupFailed, ReleaseHeld, ToClose
  <2>7. CASE CleanupRejected
    BY <2>7 DEF CleanupRejected, ReleaseHeld, ToClose, CloseIpConn
  <2>8. CASE Establish
    BY <2>8 DEF Establish, Dials, Dialled, Fresh, NotStarted
  <2>9. CASE ReceiveErr
    BY <2>9 DEF ReceiveErr
  <2>10. CASE CancelPumps
    BY <2>10 DEF CancelPumps
  <2>11. CASE CloseConn
    BY <2>11 DEF CloseConn, CloseIpConn
  <2>12. CASE StopWatcher
    BY <2>12 DEF StopWatcher
  <2>13. CASE PumpsJoined
    BY <2>13 DEF PumpsJoined
  <2>14. CASE GraceExpires
    BY <2>14 DEF GraceExpires
  <2>15. CASE Release
    BY <2>15 DEF Release, ReleaseHeld, ToClose
  <2>16. CASE SleepOver
    BY <2>16 DEF SleepOver
  <2>17. CASE QuicDial \/ RequestFails
    BY <2>17 DEF QuicDial, RequestFails, Acquire
  <2> QED BY <1>5, <2>1, <2>2, <2>3, <2>4, <2>5, <2>6, <2>7, <2>8,
             <2>9, <2>10, <2>11, <2>12, <2>13, <2>14, <2>15, <2>16, <2>17 DEF Supervisor
<1> QED BY <1>1, <1>2, <1>3, <1>4, <1>5 DEF Next

\* The inductive invariant holds initially.
LEMMA InitIInv == Init => IInv
<1> SUFFICES ASSUME Init PROVE IInv
  OBVIOUS
<1> USE TunnelAssumption DEF Init, Dials
<1>1. TypeOK
  <2>1. sup \in SupStates /\ reported \in Reports /\ cycle \in 0 .. MaxDials
    BY DEF SupStates, Reports
  <2>2. /\ held \in SUBSET Resources /\ open \in [Resources -> Nat]
        /\ hooks \in SUBSET (Dials \X {"connect", "disconnect"})
    OBVIOUS
  <2>3. /\ conn \in [Dials -> ConnStates] /\ watcher \in [Dials -> WatcherStates]
        /\ dev \in [Dials -> DevStates] /\ net \in [Dials -> NetStates]
    BY DEF ConnStates, WatcherStates, DevStates, NetStates
  <2>4. /\ errChan \in [Dials -> 0 .. ErrChanCap] /\ shutdownCloses \in [Dials -> Nat]
        /\ cancelled \in [Dials -> BOOLEAN] /\ readMu \in [Dials -> BOOLEAN]
    BY DEF ErrChanCap
  <2> QED BY <2>1, <2>2, <2>3, <2>4 DEF TypeOK
<1>2. Fresh /\ Dialled /\ Closes /\ Signals /\ Closed
  BY DEF Fresh, NotStarted, Dialled, Closes, Signals, Closed
<1>3. Loads
  BY DEF Loads, Load, Count, Left
<1>4. Holdings /\ Sessions
  BY DEF Holdings, Sessions, Count, Resources
<1> QED BY <1>1, <1>2, <1>3, <1>4 DEF IInv

\* The inductive invariant: what each stage of the supervisor implies for the
\* channels and goroutines of every connection.
THEOREM IInvHolds == Spec => []IInv
<1>1. IInv /\ [Next]_vars => IInv'
  BY StepTypeOK, StepDialled, StepFresh, StepHoldings, StepSessions, StepClosed, StepCloses,
     StepLoads, StepSignals DEF IInv
<1> QED BY InitIInv, <1>1, PTL DEF Spec

\* Every variable keeps its type; in particular errChan never holds more than two
\* errors and no resource is closed more often than it was opened.
THEOREM TypeCorrect == Spec => []TypeOK
<1>1. IInv => TypeOK
  BY DEF IInv
<1> QED BY IInvHolds, <1>1, PTL

\* A pump that outlives its connection never finds errChan full, for any number
\* of connections: the send at tunnel.go:438 and its like cannot leak a goroutine.
THEOREM ReportsNeverBlock == Spec => []ReportNeverBlocks
<1>1. IInv => ReportNeverBlocks
  BY DEF IInv, TypeOK, Loads, Load, Count, Sending, ReportNeverBlocks, ErrChanCap
<1> QED BY IInvHolds, <1>1, PTL

\* ctxShutdownDone of every connection is closed at most once.
THEOREM ShutdownIsClosedOnce == Spec => []ShutdownClosedOnce
<1>1. IInv => ShutdownClosedOnce
  BY DEF IInv, TypeOK, Closes, Fresh, NotStarted, Left, Dials, ShutdownClosedOnce
<1> QED BY IInvHolds, <1>1, PTL

\* A pump that returns silently never leaves the supervisor waiting without a signal.
THEOREM PumpExitsAreSignalled == Spec => []PumpExitIsSignalled
<1>1. IInv => PumpExitIsSignalled
  BY DEF IInv, Signals, PumpsCancelled, PumpExitIsSignalled
<1> QED BY IInvHolds, <1>1, PTL

\* On every path through the loop what the supervisor opened for a connection is
\* closed before the next dial, exactly once, and the caller's socket is left alone;
\* a QUIC connection is left over only on that socket, and only by a dial that came
\* to be a connection.
THEOREM DialsReleaseTheirResources == Spec => []ReleasedBetweenDials
<1>1. IInv => ReleasedBetweenDials
  <2> SUFFICES ASSUME IInv, sup \in {"top", "idle", "connect", "sleep", "returned"}
               PROVE  /\ \A c \in 1 .. cycle : conn[c] = "closed"
                      /\ open["tr"] = 0
                      /\ open["udp"] = IF ExternalUDP THEN 1 ELSE 0
                      /\ quic \subseteq 1 .. (IF ExternalUDP THEN cycle ELSE 0)
    BY DEF ReleasedBetweenDials
  <2>1. \A c \in 1 .. cycle : conn[c] = "closed"
    <3>1. cycle \in 0 .. MaxDials /\ MaxDials \in Nat
      BY TunnelAssumption DEF IInv, TypeOK
    <3>2. \A c \in Dials : c =< cycle => conn[c] = "closed"
      BY <3>1 DEF IInv, Closed, Dials
    <3> QED BY <3>1, <3>2 DEF Dials
  <2>2. held = {}
    BY DEF IInv, Holdings
  <2>3. quic \subseteq 1 .. (IF ExternalUDP THEN cycle ELSE 0)
    BY <2>2 DEF IInv, TypeOK, Sessions, Count
  <2> QED BY <2>1, <2>2, <2>3 DEF IInv, Holdings, Count
<1> QED BY IInvHolds, <1>1, PTL

\* A pump of a connection goes on or ends, and a call has returned or not, by its
\* own steps: for the caller every step of the tunnel is one of TunnelLife.
LEMMA LifeStep ==
    ASSUME AlwaysReconnect, TypeOK, [Next]_vars
    PROVE  [Life!Next]_(Life!lifeVars)
<1> DEFINE running == {c \in Dials : dev[c] \notin {"off", "done"} \/ net[c] \notin {"off", "done"}}
<1> USE DEF Life!lifeVars, Life!Next
<1>1. CASE CancelCtx \/ CloseDevice
  BY <1>1 DEF CancelCtx, CloseDevice, Life!Cancel, Life!CloseDevice, supVars, outputs, pumpVars
<1>2. ASSUME NEW c \in Dials, Network(c) \/ Watcher(c) PROVE UNCHANGED Life!lifeVars
  BY <1>2 DEF Network, SessionLost, CloseChanClosed, ControlStreamFails, HalfClosedEnds, SessionEnds, SetConn,
     Watcher, WatchCancel, WatchClose, WatchSignal, WatchExit, supVars, outputs, cycleVars, pumpVars
<1>3. ASSUME NEW c \in Dials, DevPump(c) \/ NetPump(c) PROVE [Life!Next]_(Life!lifeVars)
  <2>1. UNCHANGED <<ctxDone, devOpen, sup, reported>>
    BY <1>3 DEF DevPump, DevCheck, DevRead, DevReadFails, DevWrite, DevWriteClosed, DevSend,
       NetPump, NetRead, NetReadFails, NetDeliver, NetDeliverFails, NetSend,
       unchangedByPump, supVars, outputs
  <2>2. /\ dev[c] \notin {"off", "done"} \/ net[c] \notin {"off", "done"}
        /\ \A d \in Dials \ {c} : dev'[d] = dev[d] /\ net'[d] = net[d]
    BY <1>3 DEF TypeOK, DevPump, DevCheck, DevRead, DevReadFails, DevWrite, DevWriteClosed, DevSend,
       NetPump, NetRead, NetReadFails, NetDeliver, NetDeliverFails, NetSend, DevTo, NetTo
  <2>3. c \in running /\ running' \in {running, running \ {c}}
    BY <2>2
  <2> QED BY <2>1, <2>3 DEF Life!PumpsEnd
<1>4. CASE Supervisor
  <2> USE DEF unchangedBySup, pumpVars
  <2>1. CASE Top \/ SleepOver
    <3>1. UNCHANGED <<ctxDone, devOpen, dev, net>> /\ sup # "returned"
      BY <2>1 DEF Top, SleepOver
    <3>2. reported' \in Reports /\ (sup' = "returned" => ctxDone /\ reported' = reported)
      BY <2>1 DEF Top, SleepOver, TypeOK, Reports, outputs
    <3> QED BY <3>1, <3>2 DEF Life!Return, Life!Runs, Life!Reports, Reports
  <2>2. CASE Establish
    <3>1. UNCHANGED <<ctxDone, devOpen>> /\ sup # "returned" /\ sup' # "returned"
          /\ reported' = "connected"
      BY <2>2 DEF Establish
    <3>2. running \subseteq running'
      BY <2>2 DEF Establish, TypeOK
    <3> QED BY <3>1, <3>2 DEF Life!Runs, Life!Reports
  <2>3. CASE \/ IdleRead \/ IdleReadFails \/ DialFails \/ QuicDial \/ RequestFails
             \/ \E status \in BOOLEAN : DialSucceeds(status)
             \/ CleanupFailed \/ CleanupRejected \/ ReceiveErr \/ CancelPumps \/ CloseConn
             \/ StopWatcher \/ PumpsJoined \/ GraceExpires \/ Release
    <3>1. UNCHANGED <<ctxDone, devOpen, dev, net>> /\ sup # "returned" /\ sup' # "returned"
      BY <2>3 DEF IdleRead, IdleReadFails, DialFails, QuicDial, RequestFails, DialSucceeds, CleanupFailed, CleanupRejected,
         ReceiveErr, CancelPumps, CloseConn, StopWatcher, PumpsJoined, GraceExpires, Release
    <3>2. reported' \in Reports
      BY <2>3 DEF IdleRead, IdleReadFails, DialFails, QuicDial, RequestFails, DialSucceeds, CleanupFailed, CleanupRejected,
         ReceiveErr, CancelPumps, CloseConn, StopWatcher, PumpsJoined, GraceExpires, Release,
         TypeOK, Reports, outputs
    <3> QED BY <3>1, <3>2 DEF Life!Runs, Life!Reports, Reports
  <2> QED BY <1>4, <2>1, <2>2, <2>3 DEF Supervisor
<1>5. CASE UNCHANGED vars
  BY <1>5 DEF vars, supVars, outputs, cycleVars, pumpVars
<1> QED BY <1>1, <1>2, <1>3, <1>4, <1>5 DEF Next

\* Every tunnel that its owner starts with AlwaysReconnect, as the mobile binding
\* does, behaves as TunnelLife says, for any number of connections.
THEOREM ImplementsLife ==
    ASSUME AlwaysReconnect
    PROVE  Spec => ImplementsTunnelLife
<1>1. Init => Life!Init
  BY DEF Init, Life!Init
<1>2. IInv /\ [Next]_vars => [Life!Next]_(Life!lifeVars)
  BY LifeStep DEF IInv
<1> QED BY IInvHolds, <1>1, <1>2, PTL DEF Spec, ImplementsTunnelLife, Life!Spec
===============================================================================
