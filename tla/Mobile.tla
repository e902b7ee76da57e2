-------------------------------- MODULE Mobile --------------------------------
(***************************************************************************)
(* The Android binding, mobile/mobile.go with fd.go and status.go: calls   *)
(* of StartTunnel and StopTunnel that overlap in any way, around one       *)
(* global tunnelManager.                                                   *)
(*                                                                         *)
(* A tunnel is named by the StartTunnel call that made it, with the        *)
(* context, the channel done, the device wrapper and the socket duplicate  *)
(* that call created.  The fields ctx, cancel, done, device and udpConn of *)
(* the manager are set and cleared together, so "cur" stands for them all. *)
(* The tunnel's goroutine runs MaintainTunnel as TunnelLife describes it.  *)
(* A step under mgrMu is one action.  OnTraffic is left out.               *)
(*                                                                         *)
(* The TUN descriptor is a number the caller passes.  os.NewFile wraps it  *)
(* without a duplicate, so several calls may hold one number, and closing  *)
(* any of their files closes it for all of them; from then on the number   *)
(* may be given out again, for the caller to pass in a later call.         *)
(***************************************************************************)
EXTENDS Naturals

CONSTANTS
    Starts,   \* calls of StartTunnel
    Stops,    \* calls of StopTunnel
    Fds,      \* numbers of TUN descriptors
    Reported, \* states a tunnel may report
    None      \* no tunnel, no number

States == {"stopped", "connecting", "connected", "reconnecting", "error"}

ASSUME MobileAssumption == None \notin Starts \cup Fds /\ Reported \subseteq States \ {"stopped"}

VARIABLES
    cur,        \* the tunnel mgr.ctx and its companions belong to, or None
    stopping,   \* mgr.stopping
    state,      \* mgr.status.state
    told,       \* the last state given to the listener
    start,      \* program counter of each StartTunnel call
    stop,       \* program counter of each StopTunnel call
    grip,       \* the tunnel whose fields a StopTunnel call has copied
    ctxDone,    \* the context of each tunnel is cancelled
    doneClosed, \* the channel done of each tunnel is closed
    fd,         \* the number of the TUN descriptor each call was given
    stale,      \* calls whose number has been closed since they were called
    tun,        \* the FdAdapter (an os.File) each call made of that number
    udp,        \* the duplicate each call made of the caller's UDP socket
    engine,     \* the goroutine of each tunnel
    closes,     \* the tunnel whose channel that goroutine will close
    pumps,      \* connections of each tunnel whose goroutines still run
    reported    \* the last state each MaintainTunnel gave to OnStateChange

manager == <<cur, stopping>>
status  == <<state, told>>
calls   == <<start, stop, grip>>
fds     == <<fd, stale, tun, udp>>
engines == <<engine, closes, pumps, reported>>
vars    == <<manager, status, calls, ctxDone, doneClosed, fds, engines>>

FileStates == {"none", "open", "closed"}
Conn       == 1   \* a tunnel's connections need no names here

TypeOK ==
    /\ cur \in Starts \cup {None} /\ stopping \in BOOLEAN
    /\ state \in States /\ told \in States \cup {"none"}
    /\ start \in [Starts -> {"idle", "checked", "opened", "done"}]
    /\ stop \in [Stops -> {"idle", "cancel", "closeTun", "wait", "closeUdp", "clear", "notify", "done"}]
    /\ grip \in [Stops -> Starts \cup {None}]
    /\ ctxDone \in [Starts -> BOOLEAN] /\ doneClosed \in [Starts -> BOOLEAN]
    /\ fd \in [Starts -> Fds \cup {None}] /\ stale \in SUBSET Starts
    /\ tun \in [Starts -> FileStates] /\ udp \in [Starts -> FileStates]
    /\ engine \in [Starts -> {"none", "spawned", "running", "notify", "returned"}]
    /\ closes \in [Starts -> Starts \cup {None}]
    /\ pumps \in [Starts -> SUBSET {Conn}]
    /\ reported \in [Starts -> (States \ {"stopped"}) \cup {"none"}]

Init ==
    /\ cur = None /\ stopping = FALSE
    /\ state = "stopped" /\ told = "none"
    /\ start = [s \in Starts |-> "idle"]
    /\ stop = [t \in Stops |-> "idle"] /\ grip = [t \in Stops |-> None]
    /\ ctxDone = [s \in Starts |-> FALSE] /\ doneClosed = [s \in Starts |-> FALSE]
    /\ fd = [s \in Starts |-> None] /\ stale = {}
    /\ tun = [s \in Starts |-> "none"] /\ udp = [s \in Starts |-> "none"]
    /\ engine = [s \in Starts |-> "none"] /\ closes = [s \in Starts |-> None]
    /\ pumps = [s \in Starts |-> {}] /\ reported = [s \in Starts |-> "none"]

\* Closing the wrapper of s closes its number, whoever else was given it.
CloseFile(s) ==
    /\ tun' = [tun EXCEPT ![s] = "closed"]
    /\ stale' = stale \cup {x \in Starts : fd[x] = fd[s]}

-------------------------------------------------------------------------------
(* StartTunnel.                                                            *)

StartTo(s, pc) == start' = [start EXCEPT ![s] = pc]

\* Called with the number of a descriptor that is open.  The first look at mgr.ctx,
\* then the lock is let go.
Check(s) ==
    /\ start[s] = "idle"
    /\ \E n \in Fds : fd' = [fd EXCEPT ![s] = n]
    /\ StartTo(s, IF cur = None THEN "checked" ELSE "done")
    /\ UNCHANGED <<manager, status, stop, grip, ctxDone, doneClosed, stale, tun, udp, engines>>

\* The configuration is refused, or the number is wrapped and the socket
\* duplicated.  Without a duplicate only HTTP/2 goes on.
Open(s) ==
    /\ start[s] = "checked"
    /\ \/ StartTo(s, "done") /\ UNCHANGED fds
       \/ /\ tun' = [tun EXCEPT ![s] = "open"]
          /\ \/ udp' = [udp EXCEPT ![s] = "open"] /\ StartTo(s, "opened")
             \/ UNCHANGED udp /\ \E pc \in {"opened", "done"} : StartTo(s, pc)
          /\ UNCHANGED <<fd, stale>>
    /\ UNCHANGED <<manager, status, stop, grip, ctxDone, doneClosed, engines>>

\* The fields are set, the status is reset and the goroutine is started.
Install(s) ==
    /\ cur' = s
    /\ state' = "connecting"
    /\ engine' = [engine EXCEPT ![s] = "spawned"]
    /\ UNCHANGED ctxDone

\* Variant: the second look at mgr.ctx is missing.
CommitUnchecked(s) ==
    /\ start[s] = "opened"
    /\ Install(s)
    /\ StartTo(s, "done")
    /\ UNCHANGED <<stopping, told, stop, grip, doneClosed, fds, closes, pumps, reported>>

\* A call that lost the race cancels its context and forgets its descriptors.
Commit(s) ==
    /\ start[s] = "opened"
    /\ \/ cur = None /\ Install(s)
       \/ /\ cur # None
          /\ ctxDone' = [ctxDone EXCEPT ![s] = TRUE]
          /\ UNCHANGED <<cur, state, engine>>
    /\ StartTo(s, "done")
    /\ UNCHANGED <<stopping, told, stop, grip, doneClosed, fds, closes, pumps, reported>>

-------------------------------------------------------------------------------
(* StopTunnel.                                                             *)

StopTo(t, pc) == stop' = [stop EXCEPT ![t] = pc]

\* Nothing to stop, or another call is at it: return at once.
BeginStop(t) ==
    /\ stop[t] = "idle"
    /\ \/ /\ cur = None \/ stopping
          /\ StopTo(t, "done") /\ UNCHANGED <<stopping, grip>>
       \/ /\ cur # None /\ ~stopping
          /\ stopping' = TRUE
          /\ grip' = [grip EXCEPT ![t] = cur]
          /\ StopTo(t, "cancel")
    /\ UNCHANGED <<cur, status, start, ctxDone, doneClosed, fds, engines>>

Cancel(t) ==
    /\ stop[t] = "cancel"
    /\ ctxDone' = [ctxDone EXCEPT ![grip[t]] = TRUE]
    /\ StopTo(t, "closeTun")
    /\ UNCHANGED <<manager, status, start, grip, doneClosed, fds, engines>>

CloseTun(t) ==
    /\ stop[t] = "closeTun"
    /\ CloseFile(grip[t])
    /\ StopTo(t, "wait")
    /\ UNCHANGED <<manager, status, start, grip, ctxDone, doneClosed, fd, udp, engines>>

\* Variant: the call does not wait for MaintainTunnel.
WaitNot(t) ==
    /\ stop[t] = "wait"
    /\ StopTo(t, "closeUdp")
    /\ UNCHANGED <<manager, status, start, grip, ctxDone, doneClosed, fds, engines>>

\* <-done
Wait(t) ==
    /\ stop[t] = "wait" /\ doneClosed[grip[t]]
    /\ StopTo(t, "closeUdp")
    /\ UNCHANGED <<manager, status, start, grip, ctxDone, doneClosed, fds, engines>>

CloseUdp(t) ==
    /\ stop[t] = "closeUdp"
    /\ udp' = [udp EXCEPT ![grip[t]] = IF @ = "open" THEN "closed" ELSE @]
    /\ StopTo(t, "clear")
    /\ UNCHANGED <<manager, status, start, grip, ctxDone, doneClosed, fd, stale, tun,
                   engines>>

Clear(t) ==
    /\ stop[t] = "clear"
    /\ state' = "stopped" /\ cur' = None /\ stopping' = FALSE
    /\ StopTo(t, "notify")
    /\ UNCHANGED <<told, start, grip, ctxDone, doneClosed, fds, engines>>

\* After the lock is let go: another tunnel may have been started since.
NotifyStopped(t) ==
    /\ stop[t] = "notify"
    /\ told' = "stopped"
    /\ StopTo(t, "done")
    /\ UNCHANGED <<manager, state, start, grip, ctxDone, doneClosed, fds, engines>>

-------------------------------------------------------------------------------
(* The goroutine of each tunnel.                                           *)

EngineTo(s, pc) == engine' = [engine EXCEPT ![s] = pc]

\* The argument of the deferred close(mgr.done) is read here, without the lock.
EngineStarts(s) ==
    /\ engine[s] = "spawned"
    /\ closes' = [closes EXCEPT ![s] = cur]
    /\ EngineTo(s, "running")
    /\ UNCHANGED <<manager, status, calls, ctxDone, doneClosed, fds, pumps, reported>>

\* OnStateChange stores the state, then calls the listener.
EngineReports(s) ==
    /\ engine[s] = "running"
    /\ \E st \in Reported :
          state' = st /\ reported' = [reported EXCEPT ![s] = st]
    /\ EngineTo(s, "notify")
    /\ UNCHANGED <<manager, told, calls, ctxDone, doneClosed, fds, closes, pumps>>

EngineNotifies(s) ==
    /\ engine[s] = "notify"
    /\ told' = reported[s]
    /\ EngineTo(s, "running")
    /\ UNCHANGED <<manager, state, calls, ctxDone, doneClosed, fds, closes, pumps, reported>>

EngineConnects(s) ==
    /\ engine[s] = "running"
    /\ pumps' = [pumps EXCEPT ![s] = {Conn}]
    /\ UNCHANGED <<manager, status, calls, ctxDone, doneClosed, fds, engine, closes, reported>>

PumpsEnd(s) ==
    /\ pumps[s] # {}
    /\ pumps' = [pumps EXCEPT ![s] = {}]
    /\ UNCHANGED <<manager, status, calls, ctxDone, doneClosed, fds, engine, closes, reported>>

\* Variant: the binding does not set AlwaysReconnect, so that a failed read of
\* the device may end the tunnel.
EngineReturnsEarly(s) ==
    /\ engine[s] = "running"
    /\ doneClosed' = [doneClosed EXCEPT ![closes[s]] = TRUE]
    /\ EngineTo(s, "returned")
    /\ UNCHANGED <<manager, status, calls, ctxDone, fds, closes, pumps, reported>>

\* Variant: nothing closes done.
EngineReturnsSilently(s) ==
    /\ engine[s] = "running" /\ ctxDone[s]
    /\ EngineTo(s, "returned")
    /\ UNCHANGED <<manager, status, calls, ctxDone, doneClosed, fds, closes, pumps, reported>>

EngineReturns(s) ==
    /\ engine[s] = "running" /\ ctxDone[s]
    /\ doneClosed' = [doneClosed EXCEPT ![closes[s]] = TRUE]
    /\ EngineTo(s, "returned")
    /\ UNCHANGED <<manager, status, calls, ctxDone, fds, closes, pumps, reported>>

\* A wrapper nothing refers to any more is closed by its finalizer, at any time.
Finalize(s) ==
    /\ start[s] = "done" /\ engine[s] = "none"
    /\ \/ tun[s] = "open" /\ CloseFile(s) /\ UNCHANGED udp
       \/ udp[s] = "open" /\ udp' = [udp EXCEPT ![s] = "closed"] /\ UNCHANGED <<tun, stale>>
    /\ UNCHANGED <<manager, status, calls, ctxDone, doneClosed, fd, engines>>

-------------------------------------------------------------------------------
Start(s) == Check(s) \/ Open(s) \/ Commit(s)

StopRuns(t) ==
    Cancel(t) \/ CloseTun(t) \/ Wait(t) \/ CloseUdp(t) \/ Clear(t) \/ NotifyStopped(t)

Engine(s) ==
    EngineStarts(s) \/ EngineReports(s) \/ EngineNotifies(s) \/ EngineConnects(s)
        \/ EngineReturns(s) \/ PumpsEnd(s)

Next ==
    \/ \E s \in Starts : Start(s) \/ Engine(s) \/ Finalize(s)
    \/ \E t \in Stops : BeginStop(t) \/ StopRuns(t)

Spec == Init /\ [][Next]_vars

\* What is owed: a stop that has begun goes on, the goroutine gets to run, the
\* listener comes back, and MaintainTunnel returns after its context is
\* cancelled (ReturnsAfterCancel of Tunnel; strong, since it may be reporting).
Fairness ==
    /\ \A t \in Stops : WF_vars(StopRuns(t))
    /\ \A s \in Starts :
          /\ WF_vars(EngineStarts(s)) /\ WF_vars(EngineNotifies(s))
          /\ SF_vars(EngineReturns(s))

FairSpec == Spec /\ Fairness

-------------------------------------------------------------------------------
(* Properties.                                                             *)

Live(s) == engine[s] \in {"spawned", "running", "notify"}

\* StartTunnel checks, opens and checks again, StopTunnel works outside the
\* lock: still there is never a second MaintainTunnel beside the manager's own,
\* and that one will close the channel a StopTunnel waits on, though it reads
\* mgr.done without the lock.
OneEngine ==
    \A s \in Starts : Live(s) => cur = s /\ (engine[s] # "spawned" => closes[s] = s)

\* Another call was given the same number as s, and its wrapper has been closed.
ClosedByAnother(s) == \E x \in Starts \ {s} : fd[x] = fd[s] /\ tun[x] = "closed"

\* Descriptors are closed neither too early nor never.  No call that lost the
\* race, no StopTunnel of an earlier tunnel and no finalizer closes the socket or
\* the file of a running MaintainTunnel: its socket stays open until it has
\* returned, its file until its own context is done.  The number of its device
\* stays open as long, unless another call was given it too: the wrappers make no
\* duplicate, so each closes it for all.  The StopTunnel that stopped a tunnel
\* leaves socket, file and number closed, MaintainTunnel returned.
DescriptorsFollowEngine ==
    /\ \A s \in Starts : Live(s) =>
          /\ udp[s] # "closed"
          /\ tun[s] = "open" \/ ctxDone[s]
          /\ s \notin stale \/ ctxDone[s] \/ ClosedByAnother(s)
    /\ \A t \in Stops : stop[t] \in {"notify", "done"} /\ grip[t] # None =>
          /\ engine[grip[t]] = "returned"
          /\ tun[grip[t]] = "closed" /\ udp[grip[t]] # "open"
          /\ grip[t] \in stale

\* With no tunnel, the status says so, and so did the last call of the listener
\* once every StopTunnel has returned: no report of a tunnel comes after its
\* "stopped".
StoppedIsTheLastWord ==
    cur = None =>
        /\ state = "stopped"
        /\ (\A t \in Stops : stop[t] # "notify") => told \in {"none", "stopped"}

\* StopTunnel returns, whatever the tunnel is doing.
StopReturns == \A t \in Stops : (stop[t] # "idle") ~> (stop[t] = "done")

Life(s) == INSTANCE TunnelLife WITH
    ctxDone <- ctxDone[s], devOpen <- (engine[s] = "none" \/ tun[s] # "closed"),
    returned <- (engine[s] = "returned"), pumps <- pumps[s], reported <- reported[s]

\* The binding uses each MaintainTunnel as Tunnel implements it.  devOpen is the
\* file of that tunnel: that its number is closed by another call is one more way
\* for its reads and writes to fail.
UsesTunnelLife ==
    /\ \A s \in Starts : Life(s)!Init
    /\ [][\A s \in Starts : [Life(s)!Next]_(Life(s)!lifeVars)]_vars
===============================================================================
