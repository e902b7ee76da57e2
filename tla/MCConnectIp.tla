------------------------------ MODULE MCConnectIp ------------------------------
(***************************************************************************)
(* The connection of connect-ip for TLC, and the ranges of addresses that  *)
(* the prefixes of its routes are made from: a behaviour is one of the     *)
(* connection, or the conversion of one range.                             *)
(***************************************************************************)
EXTENDS ConnectIpConn, IPRange

MCInit == Init /\ RangeInit

MCNext == range = <<>> /\ Next /\ UNCHANGED range

MCSpec == MCInit /\ [][MCNext]_<<vars, range>> /\ Fairness
===============================================================================
