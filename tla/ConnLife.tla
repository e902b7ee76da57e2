-------------------------------- MODULE ConnLife --------------------------------
(***************************************************************************)
(* The life of a CONNECT-IP connection as its user sees it through the     *)
(* errors of ReadPacket and WritePacket: what Tunnel assumes of each conn, *)
(* and what ConnectIpConn implements.                                      *)
(***************************************************************************)
VARIABLES
    life,    \* "open"; "broken": the session is gone and nothing says so yet;
             \* "half": closed, but datagrams may still arrive; "closed"
    reason   \* who closed it, "none" before

lifeVars == <<life, reason>>

Init == life = "open" /\ reason = "none"

SessionLost == life = "open" /\ life' = "broken" /\ UNCHANGED reason

LossNoticed == life = "broken" /\ life' = "closed" /\ reason' \in {"local", "remote"}

HalfClose == life = "open" /\ life' = "half" /\ reason' \in {"local", "remote"}

Ended == life = "half" /\ life' = "closed" /\ UNCHANGED reason

Next == SessionLost \/ LossNoticed \/ HalfClose \/ Ended

Spec == Init /\ [][Next]_lifeVars
===============================================================================
