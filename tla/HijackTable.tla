------------------------------ MODULE HijackTable ------------------------------
(***************************************************************************)
(* What the DNS rewriter promises, without shards, ring or eviction order: *)
(* one table from the sockets that asked to the server each asked last.  A *)
(* reply is restored from the table and uses its entry up.  Only a query   *)
(* may make the table forget, one entry, and only when it holds Capacity.  *)
(***************************************************************************)
EXTENDS DNSPackets, FiniteSets

CONSTANT Capacity

VARIABLES
    table,   \* Keys -> server asked last, or NoAddr
    io       \* the latest call: its direction, packet given, packet returned

vars == <<table, io>>

Init ==
    /\ table = [k \in Keys |-> NoAddr]
    /\ io = <<"none">>

Remembered == {k \in Keys : table[k] # NoAddr}

Full == \E held \in SUBSET Remembered : Cardinality(held) = Capacity

Query(p) ==
    /\ IsQuery(p)
    /\ io' = <<"query", p, [p EXCEPT !.dst = Target(p.v4)]>>
    /\ \E lost \in {{}} \cup (IF Full THEN {{k} : k \in Keys} ELSE {}) :
          table' = [k \in Keys |-> IF k = QueryKey(p) THEN p.dst
                                   ELSE IF k \in lost THEN NoAddr
                                   ELSE table[k]]

Reply(p) ==
    /\ IsReply(p) /\ table[ReplyKey(p)] # NoAddr
    /\ io' = <<"reply", p, [p EXCEPT !.src = table[ReplyKey(p)]]>>
    /\ table' = [table EXCEPT ![ReplyKey(p)] = NoAddr]

PassQuery(p) ==
    /\ ~IsQuery(p)
    /\ io' = <<"query", p, p>>
    /\ UNCHANGED table

PassReply(p) ==
    /\ ~(IsReply(p) /\ table[ReplyKey(p)] # NoAddr)
    /\ io' = <<"reply", p, p>>
    /\ UNCHANGED table

Next ==
    \/ \E p \in Outbound : Query(p) \/ PassQuery(p)
    \/ \E p \in Inbound : Reply(p) \/ PassReply(p)

Spec == Init /\ [][Next]_vars
===============================================================================
