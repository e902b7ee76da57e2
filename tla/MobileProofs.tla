----------------------------- MODULE MobileProofs -----------------------------
(***************************************************************************)
(* Safety of the mobile binding for any number of overlapping calls of     *)
(* StartTunnel and StopTunnel.                                             *)
(***************************************************************************)
EXTENDS Mobile, TLAPS

\* A StopTunnel call at work, and one that has found its tunnel returned.
AtWork(t)  == stop[t] \in {"cancel", "closeTun", "wait", "closeUdp", "clear"}
PastWait(t) == stop[t] \in {"closeUdp", "clear", "notify", "done"} /\ grip[t] # None

\* What a StartTunnel call has made of the caller's descriptors.
Opened ==
    \A s \in Starts :
        /\ start[s] \in {"idle", "checked"} => tun[s] = "none" /\ udp[s] = "none"
        /\ start[s] = "opened" => tun[s] = "open" /\ udp[s] # "closed"
        /\ start[s] # "done" => engine[s] = "none"
        /\ engine[s] # "none" => tun[s] # "none"

\* The number of a wrapper is what the call was given, and it is closed only by a
\* wrapper of that number.
Numbers ==
    \A s \in Starts :
        /\ tun[s] # "none" \/ start[s] # "idle" => fd[s] # None
        /\ start[s] = "idle" => fd[s] = None
        /\ s \in stale => /\ fd[s] # None
                         /\ \E x \in Starts : fd[x] = fd[s] /\ tun[x] = "closed"
        /\ tun[s] = "closed" => s \in stale

\* The manager's tunnel has a goroutine; it is the only one that may be running,
\* and each goroutine closes the channel of its own tunnel, and only when it ends.
Owned ==
    /\ cur # None => engine[cur] # "none"
    /\ \A s \in Starts :
          /\ Live(s) => cur = s /\ (engine[s] # "spawned" => closes[s] = s)
          /\ doneClosed[s] => engine[s] = "returned"

\* One StopTunnel call is at work, on the manager's tunnel.
Exclusive ==
    \A t \in Stops :
        /\ stop[t] = "idle" => grip[t] = None
        /\ AtWork(t) => stopping /\ cur # None /\ grip[t] = cur
        /\ AtWork(t) => \A u \in Stops : AtWork(u) => u = t

\* What that call, or an earlier one, has done to its tunnel.
Stages ==
    \A t \in Stops :
        /\ AtWork(t) /\ stop[t] # "cancel" => ctxDone[grip[t]]
        /\ AtWork(t) /\ stop[t] \notin {"cancel", "closeTun"} => tun[grip[t]] = "closed"
        /\ PastWait(t) => engine[grip[t]] = "returned" /\ tun[grip[t]] = "closed"
        /\ PastWait(t) /\ stop[t] # "closeUdp" => udp[grip[t]] # "open"

\* The descriptors of a running tunnel.
Held ==
    \A s \in Starts : Live(s) =>
        /\ udp[s] # "closed"
        /\ tun[s] = "open" \/ ctxDone[s]

Rest == TypeOK /\ Opened /\ Owned /\ Exclusive /\ Stages /\ Held /\ StoppedIsTheLastWord

IInv == Rest /\ Numbers

LEMMA InitIInv == Init => IInv
<1> SUFFICES ASSUME Init PROVE IInv
  OBVIOUS
<1> USE MobileAssumption DEF Init
<1>1. TypeOK
  BY DEF TypeOK, States, FileStates
<1>2. Opened /\ Numbers /\ Owned /\ Exclusive /\ Stages /\ Held /\ StoppedIsTheLastWord
  BY DEF Opened, Numbers, Owned, Exclusive, Stages, Held, StoppedIsTheLastWord, AtWork, PastWait, Live
<1> QED BY <1>1, <1>2 DEF IInv, Rest

\* StartTunnel keeps the invariant: its second look at the manager, under the lock,
\* is what lets it install a tunnel of its own.
LEMMA StartStep == ASSUME IInv, NEW s \in Starts, Start(s) PROVE Rest'
<1> USE MobileAssumption DEF IInv, Rest, manager, status, calls, fds, engines, StartTo
<1>1. TypeOK'
  <2> USE DEF TypeOK
  <2>1. CASE Check(s)
    BY <2>1 DEF Check
  <2>2. CASE Open(s)
    BY <2>2 DEF Open, FileStates
  <2>3. CASE Commit(s)
    BY <2>3 DEF Commit, Install, States
  <2> QED BY <2>1, <2>2, <2>3 DEF Start
<1> USE DEF AtWork, PastWait, Live
<1>2. CASE Check(s)
  <2>1. Opened' /\ Owned' /\ Exclusive'
    BY <1>2 DEF Check, Opened, Owned, Exclusive, TypeOK
  <2>2. Stages' /\ Held' /\ StoppedIsTheLastWord'
    BY <1>2 DEF Check, Stages, Held, StoppedIsTheLastWord
  <2> QED BY <1>1, <2>1, <2>2
<1>3. CASE Open(s)
  <2>1. Opened'
    BY <1>3 DEF Open, Opened, TypeOK
  <2>2. Owned' /\ Exclusive' /\ StoppedIsTheLastWord'
    BY <1>3 DEF Open, Owned, Exclusive, StoppedIsTheLastWord, TypeOK
  <2>3. Stages' /\ Held'
    BY <1>3 DEF Open, Stages, Held, Opened, Owned, Exclusive, TypeOK
  <2> QED BY <1>1, <2>1, <2>2, <2>3
<1>4. CASE Commit(s)
  <2>1. Opened' /\ Owned'
    BY <1>4 DEF Commit, Install, Opened, Owned, TypeOK
  <2>2. Exclusive'
    BY <1>4 DEF Commit, Install, Exclusive, TypeOK
  <2>3. Stages' /\ Held'
    BY <1>4 DEF Commit, Install, Stages, Held, Opened, Owned, Exclusive, TypeOK
  <2>4. StoppedIsTheLastWord'
    BY <1>4 DEF Commit, Install, StoppedIsTheLastWord
  <2> QED BY <1>1, <2>1, <2>2, <2>3, <2>4
<1> QED BY <1>2, <1>3, <1>4 DEF Start

\* StopTunnel keeps the invariant: it works outside the lock, but alone, on the
\* tunnel it found, and touches the socket only once that tunnel has returned.
LEMMA StopStep == ASSUME IInv, NEW t \in Stops, BeginStop(t) \/ StopRuns(t) PROVE Rest'
<1> USE MobileAssumption DEF IInv, Rest, manager, status, calls, fds, engines, StopTo
<1>1. TypeOK'
  <2> USE DEF TypeOK
  <2>1. CASE BeginStop(t)
    BY <2>1, ZenonT(60) DEF BeginStop
  <2>2. CASE Cancel(t) \/ Wait(t)
    BY <2>2, ZenonT(60) DEF Cancel, Wait
  <2>3. CASE CloseTun(t) \/ CloseUdp(t)
    BY <2>3 DEF CloseTun, CloseFile, CloseUdp, FileStates
  <2>4. CASE Clear(t) \/ NotifyStopped(t)
    BY <2>4 DEF Clear, NotifyStopped, States
  <2> QED BY <2>1, <2>2, <2>3, <2>4 DEF StopRuns
<1>2. Opened'
  BY DEF BeginStop, StopRuns, Cancel, CloseTun, CloseFile, Wait, CloseUdp, Clear, NotifyStopped, TypeOK, Opened,
     Exclusive, Stages, AtWork, PastWait, Owned
<1> USE DEF AtWork, PastWait, Live
<1>3. Owned' /\ Held'
  BY DEF BeginStop, StopRuns, Cancel, CloseTun, CloseFile, Wait, CloseUdp, Clear, NotifyStopped, TypeOK, Owned,
     Held, Exclusive, Stages
<1>4. Exclusive'
  BY DEF BeginStop, StopRuns, Cancel, CloseTun, CloseFile, Wait, CloseUdp, Clear, NotifyStopped, TypeOK, Exclusive
<1>5. Stages'
  <2> USE DEF TypeOK, Stages, Exclusive, Owned
  <2>1. CASE BeginStop(t)
    BY <2>1 DEF BeginStop
  <2>2. CASE Cancel(t)
    BY <2>2 DEF Cancel
  <2>3. CASE CloseTun(t)
    BY <2>3 DEF CloseTun, CloseFile
  <2>4. CASE Wait(t)
    BY <2>4 DEF Wait
  <2>5. CASE CloseUdp(t)
    BY <2>5 DEF CloseUdp
  <2>6. CASE Clear(t) \/ NotifyStopped(t)
    BY <2>6 DEF Clear, NotifyStopped
  <2> QED BY <2>1, <2>2, <2>3, <2>4, <2>5, <2>6 DEF StopRuns
<1>6. StoppedIsTheLastWord'
  BY DEF BeginStop, StopRuns, Cancel, CloseTun, CloseFile, Wait, CloseUdp, Clear, NotifyStopped, TypeOK,
     StoppedIsTheLastWord, Exclusive
<1> QED BY <1>1, <1>2, <1>3, <1>4, <1>5, <1>6

\* The goroutine of a tunnel and the finalizers keep the invariant.
LEMMA EngineStep == ASSUME IInv, NEW s \in Starts, Engine(s) \/ Finalize(s) PROVE Rest'
<1> USE MobileAssumption DEF IInv, Rest, manager, status, calls, fds, engines, EngineTo
<1>1. TypeOK'
  <2> USE DEF TypeOK
  <2>1. CASE EngineStarts(s) \/ EngineReports(s)
    BY <2>1 DEF EngineStarts, EngineReports, States
  <2>2. CASE EngineNotifies(s)
    BY <2>2 DEF EngineNotifies
  <2>3. CASE EngineConnects(s) \/ PumpsEnd(s)
    BY <2>3 DEF EngineConnects, PumpsEnd
  <2>4. CASE EngineReturns(s)
    BY <2>4 DEF EngineReturns
  <2>5. CASE Finalize(s)
    BY <2>5 DEF Finalize, CloseFile, FileStates
  <2> QED BY <2>1, <2>2, <2>3, <2>4, <2>5 DEF Engine
<1> USE DEF AtWork, PastWait, Live
<1>2. CASE Engine(s)
  <2> USE <1>2 DEF Engine, EngineStarts, EngineReports, EngineNotifies, EngineConnects, EngineReturns,
      PumpsEnd, TypeOK
  <2>1. Opened' /\ Owned'
    BY DEF Opened, Owned
  <2>2. Exclusive' /\ Held'
    BY DEF Exclusive, Held
  <2>3. Stages'
    BY DEF Stages
  <2>4. StoppedIsTheLastWord'
    BY DEF StoppedIsTheLastWord, Owned
  <2> QED BY <1>1, <2>1, <2>2, <2>3, <2>4
<1>3. CASE Finalize(s)
  <2> USE <1>3 DEF Finalize, CloseFile, TypeOK
  <2>1. Opened' /\ Owned' /\ Exclusive'
    BY DEF Opened, Owned, Exclusive
  <2>2. Held' /\ Stages'
    BY DEF Held, Stages, Owned, Exclusive
  <2>3. StoppedIsTheLastWord'
    BY DEF StoppedIsTheLastWord
  <2> QED BY <1>1, <2>1, <2>2, <2>3
<1> QED BY <1>2, <1>3

\* Every step keeps Numbers: a number is given once, before it is wrapped.
LEMMA NumbersStep == ASSUME IInv, [Next]_vars PROVE Numbers'
<1> USE MobileAssumption DEF IInv, Rest, TypeOK, manager, status, calls, fds, engines
<1>1. ASSUME NEW s \in Starts, Check(s) PROVE Numbers'
  <2>1. fd[s] \in Fds \cup {None} /\ s \notin stale /\ tun[s] = "none"
    <3>1. start[s] = "idle" /\ tun[s] = "none"
      BY <1>1 DEF Check, Opened
    <3> QED BY <3>1 DEF Numbers
  <2> QED BY <1>1, <2>1 DEF Check, StartTo, Numbers
<1>2. ASSUME NEW s \in Starts, Open(s) PROVE Numbers'
  <2>1. UNCHANGED <<fd, stale>> /\ fd[s] # None /\ tun[s] = "none"
    BY <1>2 DEF Open, Numbers, Opened
  <2>2. \A x \in Starts : x # s => tun'[x] = tun[x] /\ start'[x] = start[x]
    BY <1>2 DEF Open, StartTo
  <2>3. tun'[s] # "closed"
    BY <1>2, <2>1 DEF Open
  <2>4. \A x \in Starts : tun[x] = "closed" => tun'[x] = "closed"
    BY <2>1, <2>2
  <2>5. start'[s] # "idle"
    BY <1>2 DEF Open, StartTo
  <2> QED BY <2>1, <2>2, <2>3, <2>4, <2>5 DEF Numbers
<1>3. ASSUME NEW s \in Starts, Commit(s) PROVE Numbers'
  BY <1>3 DEF Commit, Install, StartTo, Numbers
<1>4. ASSUME NEW s \in Starts, CloseFile(s), tun[s] # "none", UNCHANGED <<fd, start>>
      PROVE  Numbers'
  BY <1>4 DEF CloseFile, Numbers
<1>5. ASSUME NEW t \in Stops, BeginStop(t) \/ StopRuns(t) PROVE Numbers'
  <2>1. CASE CloseTun(t)
    <3>1. grip[t] \in Starts /\ tun[grip[t]] # "none"
      BY <2>1 DEF CloseTun, Exclusive, AtWork, Owned, Opened
    <3> QED BY <1>4, <2>1, <3>1 DEF CloseTun
  <2>2. CASE ~CloseTun(t)
    <3>1. UNCHANGED <<fd, stale, tun, start>>
      BY <1>5, <2>2 DEF BeginStop, StopRuns, Cancel, Wait, CloseUdp, Clear, NotifyStopped
    <3> QED BY <3>1 DEF Numbers
  <2> QED BY <2>1, <2>2
<1>6. ASSUME NEW s \in Starts, Engine(s) PROVE Numbers'
  BY <1>6 DEF Engine, EngineStarts, EngineReports, EngineNotifies, EngineConnects, EngineReturns,
     PumpsEnd, Numbers
<1>7. ASSUME NEW s \in Starts, Finalize(s) PROVE Numbers'
  BY <1>4, <1>7 DEF Finalize, Numbers
<1>8. CASE UNCHANGED vars
  BY <1>8 DEF vars, Numbers
<1> QED BY <1>1, <1>2, <1>3, <1>5, <1>6, <1>7, <1>8 DEF Next, Start

\* The inductive invariant: which call and which goroutine may touch which tunnel.
THEOREM IInvHolds == Spec => []IInv
<1>1. IInv /\ UNCHANGED vars => IInv'
  BY DEF IInv, Rest, vars, manager, status, calls, fds, engines, TypeOK, Opened, Numbers, Owned, Exclusive,
     Stages, Held, StoppedIsTheLastWord, AtWork, PastWait, Live
<1>2. IInv /\ [Next]_vars => IInv'
  BY <1>1, StartStep, StopStep, EngineStep, NumbersStep DEF IInv, Next
<1> QED BY InitIInv, <1>2, PTL DEF Spec

\* There is never a second MaintainTunnel beside the manager's own, however many
\* calls overlap, and every one closes its own channel done.
THEOREM OneEngineAtMost == Spec => []OneEngine
<1>1. IInv => OneEngine
  BY DEF IInv, Rest, Owned, OneEngine
<1> QED BY IInvHolds, <1>1, PTL

\* However many calls overlap, on whatever numbers: no call closes the socket or the
\* file of a running MaintainTunnel, the number of its device is closed under it only
\* by a call that was given the same one, and a StopTunnel that stopped a tunnel
\* leaves all of them closed.
THEOREM DescriptorsDoFollow == Spec => []DescriptorsFollowEngine
<1>1. IInv => DescriptorsFollowEngine
  <2> SUFFICES ASSUME IInv PROVE DescriptorsFollowEngine
    OBVIOUS
  <2>1. ASSUME NEW s \in Starts, Live(s)
        PROVE  udp[s] # "closed" /\ (tun[s] = "open" \/ ctxDone[s])
    BY <2>1 DEF IInv, Rest, Held
  <2>2. ASSUME NEW s \in Starts, Live(s), s \in stale, ~ctxDone[s]
        PROVE  ClosedByAnother(s)
    BY <2>1, <2>2 DEF IInv, Rest, Numbers, ClosedByAnother
  <2>3. ASSUME NEW t \in Stops, stop[t] \in {"notify", "done"}, grip[t] # None
        PROVE  /\ engine[grip[t]] = "returned" /\ tun[grip[t]] = "closed"
               /\ udp[grip[t]] # "open" /\ grip[t] \in stale
    BY <2>3 DEF IInv, Rest, TypeOK, Stages, PastWait, Numbers
  <2> QED BY <2>1, <2>2, <2>3 DEF DescriptorsFollowEngine
<1> QED BY IInvHolds, <1>1, PTL

\* With no tunnel, "stopped" is the status and the last word to the listener.
THEOREM StoppedIsLast == Spec => []StoppedIsTheLastWord
<1>1. IInv => StoppedIsTheLastWord
  BY DEF IInv, Rest
<1> QED BY IInvHolds, <1>1, PTL

\* What a step does to one tunnel is a step of TunnelLife, or nothing.
LEMMA LifeStep ==
    ASSUME IInv, [Next]_vars, NEW x \in Starts
    PROVE  [Life(x)!Next]_(Life(x)!lifeVars)
<1> USE DEF IInv, Rest, TypeOK, manager, status, calls, fds, engines
<1> USE DEF Life!lifeVars, Life!Next
<1>1. ASSUME NEW s \in Starts, Start(s) PROVE [Life(x)!Next]_(Life(x)!lifeVars)
  <2> USE DEF StartTo, Opened
  <2>1. CASE Check(s)
    BY <2>1 DEF Check
  <2>2. CASE Open(s)
    <3>1. engine' = engine /\ engine[s] = "none" /\ (s # x => tun'[x] = tun[x])
      BY <2>2 DEF Open
    <3>2. (engine[x] = "none" \/ tun[x] # "closed")' <=> (engine[x] = "none" \/ tun[x] # "closed")
      BY <3>1
    <3> QED BY <2>2, <3>2 DEF Open
  <2>3. CASE Commit(s)
    <3>1. (engine[x] = "none" \/ tun[x] # "closed")' <=> (engine[x] = "none" \/ tun[x] # "closed")
      BY <2>3 DEF Commit, Install
    <3>2. (engine[x] = "returned")' <=> engine[x] = "returned"
      BY <2>3 DEF Commit, Install
    <3>3. pumps' = pumps /\ reported' = reported /\ (ctxDone'[x] = ctxDone[x] \/ (~ctxDone[x] /\ ctxDone'[x]))
      BY <2>3, ZenonT(60) DEF Commit, Install
    <3> QED BY <3>1, <3>2, <3>3 DEF Life!Cancel
  <2> QED BY <1>1, <2>1, <2>2, <2>3 DEF Start
<1>2. ASSUME NEW t \in Stops, BeginStop(t) \/ StopRuns(t) PROVE [Life(x)!Next]_(Life(x)!lifeVars)
  BY <1>2 DEF BeginStop, StopRuns, Cancel, CloseTun, CloseFile, Wait, CloseUdp, Clear, NotifyStopped, StopTo,
     Life!Cancel, Life!CloseDevice
<1>3. ASSUME NEW s \in Starts, Engine(s) PROVE [Life(x)!Next]_(Life(x)!lifeVars)
  <2> USE DEF EngineTo
  <2>1. CASE EngineReports(s)
    <3>1. Reported \subseteq Life(x)!Reports
      BY MobileAssumption DEF States, Life!Reports
    <3>2. reported'[x] \in Life(x)!Reports \/ reported'[x] = reported[x]
      BY <2>1, <3>1 DEF EngineReports
    <3> QED BY <2>1, <3>2 DEF EngineReports, Life!Runs
  <2>2. CASE EngineStarts(s) \/ EngineNotifies(s) \/ EngineConnects(s) \/ EngineReturns(s) \/ PumpsEnd(s)
    BY <2>2 DEF EngineStarts, EngineNotifies, EngineConnects, EngineReturns, PumpsEnd, States, Conn,
       Life!Runs, Life!Reports, Life!PumpsEnd, Life!Return
  <2> QED BY <1>3, <2>1, <2>2 DEF Engine
<1>4. ASSUME NEW s \in Starts, Finalize(s) PROVE [Life(x)!Next]_(Life(x)!lifeVars)
  BY <1>4 DEF Finalize, CloseFile
<1> QED BY <1>1, <1>2, <1>3, <1>4 DEF Next, vars

\* The binding asks of every MaintainTunnel no more than TunnelProofs!ImplementsLife
\* says of it.
THEOREM UsesLife == Spec => UsesTunnelLife
<1>1. Init => \A s \in Starts : Life(s)!Init
  <2> SUFFICES ASSUME Init, NEW s \in Starts PROVE Life(s)!Init
    OBVIOUS
  <2>1. ctxDone[s] = FALSE /\ pumps[s] = {} /\ reported[s] = "none" /\ engine[s] = "none"
    BY DEF Init
  <2> QED BY <2>1 DEF Life!Init
<1>2. IInv /\ [Next]_vars => \A s \in Starts : [Life(s)!Next]_(Life(s)!lifeVars)
  BY LifeStep
<1> QED BY IInvHolds, <1>1, <1>2, PTL DEF Spec, UsesTunnelLife
===============================================================================
