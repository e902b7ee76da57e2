------------------------------ MODULE DNSRewriter ------------------------------
(***************************************************************************)
(* DNSRewriter of internal/dns_hijack.go: RewriteQuery, which the device   *)
(* pump calls, and RewriteResponse, which the network pump calls, over     *)
(* shards that each have a map, a ring of keys and a position.  What a     *)
(* call does to its shard it does under the shard's mutex, and the packet  *)
(* is its own, so a call is one step.                                      *)
(*                                                                         *)
(* Incremental checksums are left out: a packet is what it is addressed    *)
(* to.                                                                     *)
(***************************************************************************)
EXTENDS DNSPackets, FiniteSets

CONSTANTS NumShards, MaxPerShard

ASSUME ShardsAssumption ==
    /\ NumShards \in Nat \ {0}
    /\ MaxPerShard \in Nat \ {0}

VARIABLES
    pending,   \* shard -> key -> original destination, NoAddr when absent
    ring,      \* shard -> slot -> key written there last
    pos,       \* shard -> slot to write next
    io         \* the latest call: its direction, packet given, packet returned

shardVars == <<pending, ring, pos>>
vars == <<pending, ring, pos, io>>

Shards == 0 .. NumShards - 1
Slots  == 0 .. MaxPerShard - 1

\* The zero dnsQueryKey of a slot not written yet.
NoKey == [v4 |-> FALSE, ip |-> NoAddr, port |-> 0]

\* port & (numShards - 1), numShards being a power of two.
ShardFor(port) == port % NumShards

\* The keys of the map of shard s.
Occupied(s) == {k \in Keys : pending[s][k] # NoAddr}

\* Variant: the eviction lets a shard hold one entry more.
FullLate(s) == Cardinality(Occupied(s)) > MaxPerShard

\* len(s.pending) >= maxPerShard
Full(s) == Cardinality(Occupied(s)) >= MaxPerShard

\* Variant: the oldest question of a socket is kept.
RememberFirst(s, k, dst) ==
    LET evicted == IF Full(s) THEN {ring[s][pos[s]]} ELSE {}
    IN  [x \in Keys |-> IF x = k /\ pending[s][k] = NoAddr THEN dst
                        ELSE IF x \in evicted THEN NoAddr
                        ELSE pending[s][x]]

\* Variant: the position moves on before the eviction.
RememberEvictNext(s, k, dst) ==
    LET evicted == IF Full(s) THEN {ring[s][(pos[s] + 1) % MaxPerShard]} ELSE {}
    IN  [x \in Keys |-> IF x = k THEN dst
                        ELSE IF x \in evicted THEN NoAddr
                        ELSE pending[s][x]]

\* The map of shard s after a query of k: the key in the slot to be written is
\* forgotten if the shard is full, then k is set (which may be that same key).
Remember(s, k, dst) ==
    LET evicted == IF Full(s) THEN {ring[s][pos[s]]} ELSE {}
    IN  [x \in Keys |-> IF x = k THEN dst
                        ELSE IF x \in evicted THEN NoAddr
                        ELSE pending[s][x]]

\* Variant: the position does not wrap round.
AdvanceUnwrapped(s) == pos[s] + 1

Advance(s) == (pos[s] + 1) % MaxPerShard

TypeOK ==
    /\ pending \in [Shards -> [Keys -> Addrs \cup {NoAddr}]]
    /\ ring \in [Shards -> [Slots -> Keys \cup {NoKey}]]
    /\ pos \in [Shards -> Slots]
    /\ io \in {<<"none">>} \cup ({"query"} \X Outbound \X Packets)
                           \cup ({"reply"} \X Inbound \X Packets)

Init ==
    /\ pending = [s \in Shards |-> [k \in Keys |-> NoAddr]]
    /\ ring = [s \in Shards |-> [i \in Slots |-> NoKey]]
    /\ pos = [s \in Shards |-> 0]
    /\ io = <<"none">>

RewriteQuery(p) ==
    \/ /\ ~IsQuery(p)
       /\ io' = <<"query", p, p>>
       /\ UNCHANGED shardVars
    \/ LET k == QueryKey(p)
           s == ShardFor(p.sport)
       IN  /\ IsQuery(p)
           /\ pending' = [pending EXCEPT ![s] = Remember(s, k, p.dst)]
           /\ ring' = [ring EXCEPT ![s][pos[s]] = k]
           /\ pos' = [pos EXCEPT ![s] = Advance(s)]
           /\ io' = <<"query", p, [p EXCEPT !.dst = Target(p.v4)]>>

\* Variant: the reply may come from any server.
RewriteResponseUnchecked(p) ==
    LET k == ReplyKey(p)
        s == ShardFor(p.dport)
        found == HasPorts(p) /\ p.sport = DNSPort /\ pending[s][k] # NoAddr
    IN  \/ ~found /\ io' = <<"reply", p, p>> /\ UNCHANGED shardVars
        \/ /\ found
           /\ pending' = [pending EXCEPT ![s][k] = NoAddr]
           /\ io' = <<"reply", p, [p EXCEPT !.src = pending[s][k]]>>
           /\ UNCHANGED <<ring, pos>>

RewriteResponse(p) ==
    LET k == ReplyKey(p)
        s == ShardFor(p.dport)
        found == IsReply(p) /\ pending[s][k] # NoAddr
    IN  \/ ~found /\ io' = <<"reply", p, p>> /\ UNCHANGED shardVars
        \/ /\ found
           /\ pending' = [pending EXCEPT ![s][k] = NoAddr]
           /\ io' = <<"reply", p, [p EXCEPT !.src = pending[s][k]]>>
           /\ UNCHANGED <<ring, pos>>

Next ==
    \/ \E p \in Outbound : RewriteQuery(p)
    \/ \E p \in Inbound : RewriteResponse(p)

Spec == Init /\ [][Next]_vars

-------------------------------------------------------------------------------
(* Properties.                                                             *)

RingKeys(s) == {ring[s][i] : i \in Slots}

\* The map of a shard can grow beyond maxPerShard, since a query that finds room
\* writes over a slot whose key it does not forget; but never to twice that.
PendingBounded == \A s \in Shards : Cardinality(Occupied(s)) < 2 * MaxPerShard

\* A reply is given the address of the server its socket asked last, once, and
\* an entry is lost only to a reply or to a query that found its shard full.
Hijack == INSTANCE HijackTable WITH
    table <- [k \in Keys |-> pending[ShardFor(k.port)][k]],
    Capacity <- MaxPerShard

ImplementsTable == Hijack!Spec

\* What the comment on RewriteQuery says: "Non-DNS packets are returned
\* unchanged", and the configuration: "all IPv4 UDP port 53 packets".
NonUDPUnchanged ==
    io[1] \in {"query", "reply"} /\ ~io[2].udp => io[3] = io[2]
===============================================================================
