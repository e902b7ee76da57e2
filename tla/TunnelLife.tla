------------------------------- MODULE TunnelLife -------------------------------
(***************************************************************************)
(* One call of api.MaintainTunnel as its caller sees it: what Tunnel       *)
(* implements and what the mobile binding assumes of every tunnel it       *)
(* starts.  The point is what the return of MaintainTunnel does not mean:  *)
(* goroutines of its connections may still run.                            *)
(***************************************************************************)
VARIABLES
    ctxDone,    \* the caller has cancelled the context
    devOpen,    \* the caller has not closed the device
    returned,   \* MaintainTunnel has returned
    pumps,      \* connections with a goroutine that still runs
    reported    \* the last state given to OnStateChange

lifeVars == <<ctxDone, devOpen, returned, pumps, reported>>

Reports == {"none", "connecting", "connected", "reconnecting", "error"}

Init ==
    /\ ctxDone = FALSE /\ devOpen = TRUE /\ returned = FALSE
    /\ pumps = {} /\ reported = "none"

Cancel == ~ctxDone /\ ctxDone' = TRUE /\ UNCHANGED <<devOpen, returned, pumps, reported>>

CloseDevice == devOpen /\ devOpen' = FALSE /\ UNCHANGED <<ctxDone, returned, pumps, reported>>

\* States are reported, and pumps are started, by the call itself.
Runs ==
    /\ ~returned
    /\ reported' \in Reports /\ pumps \subseteq pumps'
    /\ UNCHANGED <<ctxDone, devOpen, returned>>

\* The pumps of a connection end, before or after the call returns.
PumpsEnd == \E c \in pumps : pumps' = pumps \ {c} /\ UNCHANGED <<ctxDone, devOpen, returned, reported>>

\* With AlwaysReconnect only a cancelled context ends the call.
Return ==
    /\ ~returned /\ ctxDone
    /\ returned' = TRUE
    /\ UNCHANGED <<ctxDone, devOpen, pumps, reported>>

Next == Cancel \/ CloseDevice \/ Runs \/ PumpsEnd \/ Return

Spec == Init /\ [][Next]_lifeVars
===============================================================================
