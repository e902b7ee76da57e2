--------------------------- MODULE DNSRewriterProofs ---------------------------
(***************************************************************************)
(* For any number of shards, any ring size and any packets: the maps stay  *)
(* below twice the ring size, and the rewriter implements the one table of *)
(* HijackTable.                                                            *)
(*                                                                         *)
(* A map holds the keys in its ring and some keys whose slot was written   *)
(* over while the shard had room.  There are fewer than MaxPerShard of the *)
(* latter, because a slot is only written over without forgetting its key  *)
(* when the map holds fewer than MaxPerShard keys in all.                  *)
(***************************************************************************)
EXTENDS DNSClients, FiniteSetTheorems, FunctionTheorems, TLAPS

\* Entries whose ring slot was written over.
Orphans(s) == Occupied(s) \ RingKeys(s)

FewOrphans ==
    \A s \in Shards : IsFiniteSet(Occupied(s)) /\ Cardinality(Orphans(s)) < MaxPerShard

InOwnShard ==
    \A s \in Shards, k \in Keys : pending[s][k] # NoAddr => s = ShardFor(k.port)

IInv == TypeOK /\ FewOrphans /\ InOwnShard

-------------------------------------------------------------------------------
\* shardFor stays within the array of shards.
LEMMA ShardForType ==
    ASSUME NEW port \in Nat
    PROVE  ShardFor(port) \in Shards
  BY ShardsAssumption DEF ShardFor, Shards

\* What a packet to RewriteQuery gives: its key, its shard, its destination.
LEMMA QueryFacts ==
    ASSUME NEW p \in Outbound
    PROVE  /\ p \in Packets
           /\ QueryKey(p) \in Keys
           /\ QueryKey(p).port = p.sport
           /\ p.dst \in Addrs /\ p.dst # NoAddr
           /\ ShardFor(p.sport) \in Shards
           /\ IsQuery(p) => Target(p.v4) \in Addrs
  <1>1. p \in Packets
    BY PacketsAssumption
  <1>2. p.sport \in Nat /\ p.dst \in Addrs
    BY <1>1, PacketsAssumption DEF Packets
  <1>3. QueryKey(p) \in Keys
    BY DEF Keys
  <1>4. IsQuery(p) => Target(p.v4) \in Addrs
    BY PacketsAssumption DEF IsQuery, Target
  <1> QED
    BY <1>1, <1>2, <1>3, <1>4, PacketsAssumption, ShardForType DEF QueryKey

\* The same for a packet to RewriteResponse.
LEMMA ReplyFacts ==
    ASSUME NEW p \in Inbound
    PROVE  /\ p \in Packets
           /\ ReplyKey(p) \in Keys
           /\ ReplyKey(p).port = p.dport
           /\ ShardFor(p.dport) \in Shards
  <1>1. p \in Packets
    BY PacketsAssumption
  <1>2. p.dport \in Nat
    BY <1>1, PacketsAssumption DEF Packets
  <1>3. ReplyKey(p) \in Keys
    BY DEF Keys
  <1> QED
    BY <1>1, <1>2, <1>3, ShardForType DEF ReplyKey

\* A key names a shard.
LEMMA KeyFacts ==
    ASSUME NEW k \in Keys
    PROVE  ShardFor(k.port) \in Shards
  <1>1. CASE \E p \in Outbound : k = QueryKey(p)
    BY <1>1, QueryFacts
  <1>2. CASE \E p \in Inbound : k = ReplyKey(p)
    BY <1>2, ReplyFacts
  <1> QED
    BY <1>1, <1>2 DEF Keys

\* A ring of n slots holds at most n keys.
LEMMA RingIsSmall ==
    ASSUME TypeOK, NEW s \in Shards
    PROVE  IsFiniteSet(RingKeys(s)) /\ Cardinality(RingKeys(s)) =< MaxPerShard
  <1>1. IsFiniteSet(Slots) /\ Cardinality(Slots) = MaxPerShard
    BY FS_Interval, ShardsAssumption DEF Slots
  <1>2. ring[s] \in Surjection(Slots, RingKeys(s))
    BY DEF TypeOK, RingKeys, Surjection
  <1> QED
    BY <1>1, <1>2, FS_Surjection, FS_CardinalityType, ShardsAssumption

-------------------------------------------------------------------------------
\* The bound follows from the strengthening.
LEMMA BoundFromOrphans ==
    ASSUME TypeOK, FewOrphans
    PROVE  PendingBounded
  <1> SUFFICES ASSUME NEW s \in Shards
               PROVE  Cardinality(Occupied(s)) < 2 * MaxPerShard
    BY DEF PendingBounded
  <1>1. IsFiniteSet(Occupied(s)) /\ Cardinality(Orphans(s)) < MaxPerShard
    BY DEF FewOrphans
  <1>2. IsFiniteSet(RingKeys(s)) /\ Cardinality(RingKeys(s)) =< MaxPerShard
    BY RingIsSmall
  <1>3. IsFiniteSet(Orphans(s))
    BY <1>1, FS_Subset DEF Orphans
  <1>4. Occupied(s) \subseteq Orphans(s) \cup RingKeys(s)
    BY DEF Orphans
  <1>5. /\ IsFiniteSet(Orphans(s) \cup RingKeys(s))
        /\ Cardinality(Orphans(s) \cup RingKeys(s))
             = Cardinality(Orphans(s)) + Cardinality(RingKeys(s))
                 - Cardinality(Orphans(s) \cap RingKeys(s))
    BY <1>2, <1>3, FS_Union
  <1>6. Orphans(s) \cap RingKeys(s) = {}
    BY DEF Orphans
  <1>7. Cardinality(Occupied(s)) =< Cardinality(Orphans(s) \cup RingKeys(s))
    BY <1>4, <1>5, FS_Subset
  <1>8. /\ Cardinality(Occupied(s)) \in Nat /\ Cardinality(Orphans(s)) \in Nat
        /\ Cardinality(RingKeys(s)) \in Nat
    BY <1>1, <1>2, <1>3, FS_CardinalityType
  <1> QED
    BY <1>1, <1>2, <1>5, <1>6, <1>7, <1>8, FS_EmptySet, ShardsAssumption

-------------------------------------------------------------------------------
\* Everything is empty at first.
LEMMA InitIInv == Init => IInv
  <1> SUFFICES ASSUME Init PROVE IInv
    OBVIOUS
  <1>1. 0 \in Slots
    BY ShardsAssumption DEF Slots
  <1>2. TypeOK
    BY <1>1 DEF Init, TypeOK
  <1>3. \A s \in Shards : Occupied(s) = {} /\ Orphans(s) = {}
    BY DEF Init, Occupied, Orphans
  <1>4. FewOrphans
    BY <1>3, FS_EmptySet, ShardsAssumption DEF FewOrphans
  <1>5. InOwnShard
    BY DEF Init, InOwnShard
  <1> QED
    BY <1>2, <1>4, <1>5 DEF IInv

\* What the strengthening says of the shards reads only their variables.
LEMMA UnchangedShards ==
    ASSUME FewOrphans, InOwnShard, UNCHANGED <<pending, ring, pos>>
    PROVE  FewOrphans' /\ InOwnShard'
  <1>1. pending' = pending /\ ring' = ring
    OBVIOUS
  <1>2. \A s : Occupied(s)' = Occupied(s) /\ Orphans(s)' = Orphans(s)
    BY <1>1 DEF Occupied, Orphans, RingKeys
  <1>3. FewOrphans'
    BY <1>2 DEF FewOrphans
  <1>4. InOwnShard'
    BY <1>1 DEF InOwnShard
  <1> QED
    BY <1>3, <1>4

\* What a query leaves in the map and the ring of its shard.
LEMMA QueryEffect ==
    ASSUME IInv, NEW p \in Outbound, IsQuery(p), RewriteQuery(p),
           NEW s, s = ShardFor(p.sport), NEW k, k = QueryKey(p),
           NEW old, old = ring[s][pos[s]]
    PROVE  /\ s \in Shards /\ k \in Keys /\ pos[s] \in Slots
           /\ pending' = [pending EXCEPT ![s] = Remember(s, k, p.dst)]
           /\ Remember(s, k, p.dst) \in [Keys -> Addrs \cup {NoAddr}]
           /\ Occupied(s)' = (IF Full(s) THEN Occupied(s) \ {old} ELSE Occupied(s)) \cup {k}
           /\ k \in RingKeys(s)'
           /\ RingKeys(s) \subseteq RingKeys(s)' \cup {old}
           /\ \A t \in Shards : t # s => /\ Occupied(t)' = Occupied(t)
                                       /\ RingKeys(t)' = RingKeys(t)
  <1>1. s \in Shards /\ k \in Keys /\ p.dst \in Addrs /\ p.dst # NoAddr
    BY QueryFacts
  <1>2. /\ pending \in [Shards -> [Keys -> Addrs \cup {NoAddr}]]
        /\ ring \in [Shards -> [Slots -> Keys \cup {NoKey}]]
        /\ pos[s] \in Slots
    BY <1>1 DEF IInv, TypeOK
  <1>3. /\ pending' = [pending EXCEPT ![s] = Remember(s, k, p.dst)]
        /\ ring' = [ring EXCEPT ![s][pos[s]] = k]
    BY DEF RewriteQuery
  <1>4. Remember(s, k, p.dst) \in [Keys -> Addrs \cup {NoAddr}]
    BY <1>1, <1>2 DEF Remember
  <1>5. pending'[s] = Remember(s, k, p.dst)
    BY <1>1, <1>2, <1>3
  <1>6. Occupied(s)' = (IF Full(s) THEN Occupied(s) \ {old} ELSE Occupied(s)) \cup {k}
    BY <1>1, <1>2, <1>5 DEF Occupied, Remember
  <1>7. /\ ring'[s][pos[s]] = k
        /\ \A i \in Slots : i # pos[s] => ring'[s][i] = ring[s][i]
    BY <1>1, <1>2, <1>3
  <1>8. k \in RingKeys(s)'
    BY <1>2, <1>7 DEF RingKeys
  <1>9. RingKeys(s) \subseteq RingKeys(s)' \cup {old}
    BY <1>7 DEF RingKeys
  <1>10. ASSUME NEW t \in Shards, t # s
         PROVE  Occupied(t)' = Occupied(t) /\ RingKeys(t)' = RingKeys(t)
    <2>1. pending'[t] = pending[t] /\ ring'[t] = ring[t]
      BY <1>2, <1>3, <1>10
    <2> QED
      BY <2>1 DEF Occupied, RingKeys
  <1> QED
    BY <1>1, <1>2, <1>3, <1>4, <1>6, <1>8, <1>9, <1>10

\* A query that overwrites a slot makes an orphan only while there is room.
LEMMA QueryKeepsIInv ==
    ASSUME IInv, NEW p \in Outbound, IsQuery(p), RewriteQuery(p)
    PROVE  IInv'
  <1> DEFINE s == ShardFor(p.sport)
             k == QueryKey(p)
             old == ring[s][pos[s]]
  <1>1. /\ s \in Shards /\ k \in Keys /\ pos[s] \in Slots
        /\ pending' = [pending EXCEPT ![s] = Remember(s, k, p.dst)]
        /\ Remember(s, k, p.dst) \in [Keys -> Addrs \cup {NoAddr}]
        /\ Occupied(s)' = (IF Full(s) THEN Occupied(s) \ {old} ELSE Occupied(s)) \cup {k}
        /\ k \in RingKeys(s)'
        /\ RingKeys(s) \subseteq RingKeys(s)' \cup {old}
        /\ \A t \in Shards : t # s => /\ Occupied(t)' = Occupied(t)
                                    /\ RingKeys(t)' = RingKeys(t)
    BY QueryEffect
  <1>2. TypeOK'
    <2>1. pending' \in [Shards -> [Keys -> Addrs \cup {NoAddr}]]
      BY <1>1 DEF IInv, TypeOK
    <2>2. ring' \in [Shards -> [Slots -> Keys \cup {NoKey}]]
      <3>1. ring' = [ring EXCEPT ![s][pos[s]] = k]
        BY DEF RewriteQuery
      <3>2. ring \in [Shards -> [Slots -> Keys \cup {NoKey}]]
        BY DEF IInv, TypeOK
      <3> QED
        BY <1>1, <3>1, <3>2
    <2>3. Advance(s) \in Slots
      BY <1>1, ShardsAssumption DEF Advance, Slots
    <2>4. pos' \in [Shards -> Slots]
      BY <1>1, <2>3 DEF IInv, TypeOK, RewriteQuery
    <2>5. [p EXCEPT !.dst = Target(p.v4)] \in Packets
      BY QueryFacts DEF Packets
    <2>6. io' \in {"query"} \X Outbound \X Packets
      BY <2>5 DEF RewriteQuery
    <2> QED
      BY <2>1, <2>2, <2>4, <2>6 DEF TypeOK
  <1>3. ASSUME NEW t \in Shards
        PROVE  IsFiniteSet(Occupied(t)') /\ Cardinality(Orphans(t)') < MaxPerShard
    <2>1. IsFiniteSet(Occupied(t)) /\ Cardinality(Orphans(t)) < MaxPerShard
      BY DEF IInv, FewOrphans
    <2>2. CASE t # s
      BY <1>1, <2>1, <2>2 DEF Orphans
    <2>3. CASE t = s
      <3>1. Occupied(s)' \subseteq Occupied(s) \cup {k}
        BY <1>1
      <3>2. IsFiniteSet(Occupied(s)')
        BY <2>1, <2>3, <3>1, FS_AddElement, FS_Subset
      <3>3. IsFiniteSet(Orphans(s)) /\ IsFiniteSet(Occupied(s))
        BY <2>1, <2>3, FS_Subset DEF Orphans
      <3>4. CASE Full(s)
        <4>1. Orphans(s)' \subseteq Orphans(s)
          BY <1>1, <3>4 DEF Orphans
        <4>2. /\ Cardinality(Orphans(s)') =< Cardinality(Orphans(s))
              /\ Cardinality(Orphans(s)) \in Nat /\ Cardinality(Orphans(s)') \in Nat
          BY <3>3, <4>1, FS_Subset, FS_CardinalityType
        <4> QED
          BY <2>1, <2>3, <3>2, <4>2, ShardsAssumption
      <3>5. CASE ~Full(s)
        <4>1. Orphans(s)' \subseteq Occupied(s)
          BY <1>1, <3>5 DEF Orphans
        <4>2. /\ Cardinality(Orphans(s)') =< Cardinality(Occupied(s))
              /\ Cardinality(Occupied(s)) \in Nat /\ Cardinality(Orphans(s)') \in Nat
          BY <3>3, <4>1, FS_Subset, FS_CardinalityType
        <4> QED
          BY <2>3, <3>2, <3>5, <4>2, ShardsAssumption DEF Full
      <3> QED
        BY <3>4, <3>5
    <2> QED
      BY <2>2, <2>3
  <1>4. ASSUME NEW t \in Shards, NEW x \in Keys, pending'[t][x] # NoAddr
        PROVE  t = ShardFor(x.port)
    <2>1. x \in Occupied(t)'
      BY <1>4 DEF Occupied
    <2>2. CASE x \in Occupied(t)
      BY <2>2 DEF Occupied, IInv, InOwnShard
    <2>3. CASE x \notin Occupied(t)
      <3>1. t = s /\ x = k
        BY <1>1, <2>1, <2>3
      <3> QED
        BY <3>1, QueryFacts
    <2> QED
      BY <2>2, <2>3
  <1> QED
    BY <1>2, <1>3, <1>4 DEF IInv, FewOrphans, InOwnShard

\* A reply only takes an entry out.
LEMMA ReplyKeepsIInv ==
    ASSUME IInv, NEW p \in Inbound, RewriteResponse(p)
    PROVE  IInv'
  <1> DEFINE s == ShardFor(p.dport)
             k == ReplyKey(p)
             found == IsReply(p) /\ pending[s][k] # NoAddr
  <1>1. s \in Shards /\ k \in Keys /\ p \in Packets
    BY ReplyFacts
  <1>2. TypeOK
    BY DEF IInv
  <1>3. CASE ~found
    <2>1. UNCHANGED shardVars /\ io' = <<"reply", p, p>>
      BY <1>3 DEF RewriteResponse
    <2>2. TypeOK'
      BY <1>1, <1>2, <2>1 DEF TypeOK, shardVars
    <2>3. FewOrphans' /\ InOwnShard'
      BY <2>1, UnchangedShards DEF IInv, shardVars
    <2> QED
      BY <2>2, <2>3 DEF IInv
  <1>4. CASE found
    <2>1. /\ pending' = [pending EXCEPT ![s][k] = NoAddr]
          /\ io' = <<"reply", p, [p EXCEPT !.src = pending[s][k]]>>
          /\ UNCHANGED <<ring, pos>>
      BY <1>4 DEF RewriteResponse
    <2>2. pending[s][k] \in Addrs
      BY <1>1, <1>2, <1>4 DEF TypeOK
    <2>3. [p EXCEPT !.src = pending[s][k]] \in Packets
      BY <1>1, <2>2 DEF Packets
    <2>4. TypeOK'
      <3>1. pending' \in [Shards -> [Keys -> Addrs \cup {NoAddr}]]
        BY <1>1, <1>2, <2>1 DEF TypeOK
      <3>2. io' \in {"reply"} \X Inbound \X Packets
        BY <2>1, <2>3
      <3> QED
        BY <1>2, <2>1, <3>1, <3>2 DEF TypeOK
    <2>5. \A t \in Shards, x \in Keys : pending'[t][x] # NoAddr => pending[t][x] # NoAddr
      BY <1>1, <1>2, <2>1 DEF TypeOK
    <2>6. ASSUME NEW t \in Shards
          PROVE  IsFiniteSet(Occupied(t)') /\ Cardinality(Orphans(t)') < MaxPerShard
      <3>1. IsFiniteSet(Occupied(t)) /\ Cardinality(Orphans(t)) < MaxPerShard
        BY DEF IInv, FewOrphans
      <3>2. Occupied(t)' \subseteq Occupied(t)
        BY <2>5 DEF Occupied
      <3>3. Orphans(t)' \subseteq Orphans(t)
        BY <3>2, <2>1 DEF Orphans, RingKeys
      <3>4. IsFiniteSet(Orphans(t))
        BY <3>1, FS_Subset DEF Orphans
      <3>5. /\ Cardinality(Orphans(t)') =< Cardinality(Orphans(t))
            /\ Cardinality(Orphans(t)) \in Nat /\ Cardinality(Orphans(t)') \in Nat
        BY <3>3, <3>4, FS_Subset, FS_CardinalityType
      <3>6. IsFiniteSet(Occupied(t)')
        BY <3>1, <3>2, FS_Subset
      <3> QED
        BY <3>1, <3>5, <3>6, ShardsAssumption
    <2>7. InOwnShard'
      BY <2>5 DEF IInv, InOwnShard
    <2> QED
      BY <2>4, <2>6, <2>7 DEF IInv, FewOrphans
  <1> QED
    BY <1>3, <1>4

\* A query that is passed on unchanged changes no shard.
LEMMA PassKeepsIInv ==
    ASSUME IInv, NEW p \in Outbound, ~IsQuery(p), RewriteQuery(p)
    PROVE  IInv'
  <1>1. UNCHANGED shardVars /\ io' = <<"query", p, p>> /\ p \in Packets
    BY QueryFacts DEF RewriteQuery
  <1>2. TypeOK'
    BY <1>1 DEF IInv, TypeOK, shardVars
  <1>3. FewOrphans' /\ InOwnShard'
    BY <1>1, UnchangedShards DEF IInv, shardVars
  <1> QED
    BY <1>2, <1>3 DEF IInv

\* Every step of the rewriter keeps the strengthening.
LEMMA NextKeepsIInv == IInv /\ [Next]_vars => IInv'
  <1> SUFFICES ASSUME IInv, [Next]_vars PROVE IInv'
    OBVIOUS
  <1>1. ASSUME NEW p \in Outbound, RewriteQuery(p) PROVE IInv'
    BY <1>1, QueryKeepsIInv, PassKeepsIInv
  <1>2. ASSUME NEW p \in Inbound, RewriteResponse(p) PROVE IInv'
    BY <1>2, ReplyKeepsIInv
  <1>3. CASE UNCHANGED vars
    <2>1. UNCHANGED <<pending, ring, pos>> /\ UNCHANGED io
      BY <1>3 DEF vars
    <2>2. TypeOK'
      BY <2>1 DEF IInv, TypeOK
    <2> QED
      BY <2>1, <2>2, UnchangedShards DEF IInv
  <1> QED
    BY <1>1, <1>2, <1>3 DEF Next

\* The strengthening holds throughout.
THEOREM IInvHolds == Spec => []IInv
  BY InitIInv, NextKeepsIInv, PTL DEF Spec

\* The rewriter's state and the packets it returns have their types.
THEOREM TypeCorrect == Spec => []TypeOK
  <1>1. IInv => TypeOK
    BY DEF IInv
  <1> QED
    BY <1>1, IInvHolds, PTL

\* No map of RewriteQuery's shards reaches twice maxPerShard, whatever the
\* queries and replies.
THEOREM PendingIsBounded == Spec => []PendingBounded
  <1>1. IInv => PendingBounded
    BY BoundFromOrphans DEF IInv
  <1> QED
    BY <1>1, IInvHolds, PTL

-------------------------------------------------------------------------------
\* The table of HijackTable, as the shards hold it.
Table == [k \in Keys |-> pending[ShardFor(k.port)][k]]

\* Both modules read packets alike.
LEMMA SamePackets ==
    /\ Hijack!Keys = Keys
    /\ \A p : /\ Hijack!IsQuery(p) = IsQuery(p)
             /\ Hijack!IsReply(p) = IsReply(p)
             /\ Hijack!QueryKey(p) = QueryKey(p)
             /\ Hijack!ReplyKey(p) = ReplyKey(p)
             /\ Hijack!Target(p.v4) = Target(p.v4)
  BY DEF Hijack!Keys, Keys, Hijack!IsQuery, IsQuery, Hijack!IsReply, IsReply,
         Hijack!QueryKey, QueryKey, Hijack!ReplyKey, ReplyKey, Hijack!Target, Target,
         Hijack!HasPorts, HasPorts, Hijack!DNSPort, DNSPort

\* And both count alike.
LEMMA SameCardinality == \A S : Hijack!Cardinality(S) = Cardinality(S)
  BY DEF Hijack!Cardinality, Cardinality, Hijack!IsFiniteSet, IsFiniteSet

\* An empty set of maps is an empty table.
LEMMA InitRefines == Init => Hijack!Init
  <1> SUFFICES ASSUME Init PROVE Hijack!Init
    OBVIOUS
  <1>1. \A k \in Keys : pending[ShardFor(k.port)][k] = NoAddr
    BY KeyFacts DEF Init
  <1> QED
    BY <1>1, SamePackets DEF Init, Hijack!Init

\* A set of at least n elements has a subset of n.
LEMMA SubsetOfSize ==
    ASSUME NEW S, IsFiniteSet(S), NEW n \in Nat, Cardinality(S) >= n
    PROVE  \E T \in SUBSET S : Cardinality(T) = n
  <1> DEFINE m == Cardinality(S)
  <1>1. PICK f : f \in Bijection(1 .. m, S)
    BY FS_CardinalityType DEF ExistsBijection
  <1>2. m \in Nat
    BY FS_CardinalityType
  <1> DEFINE T == {f[i] : i \in 1 .. n}
             g == [i \in 1 .. n |-> f[i]]
  <1>3. 1 .. n \subseteq 1 .. m
    BY <1>2
  <1>4. T \subseteq S
    BY <1>1, <1>3 DEF Bijection, Injection, IsInjective
  <1>5. g \in Bijection(1 .. n, T)
    <2>1. g \in [1 .. n -> T]
      OBVIOUS
    <2>2. \A i, j \in 1 .. n : g[i] = g[j] => i = j
      BY <1>1, <1>3 DEF Bijection, Injection, IsInjective
    <2>3. \A t \in T : \E i \in 1 .. n : g[i] = t
      OBVIOUS
    <2> HIDE DEF T, g
    <2> QED
      BY <2>1, <2>2, <2>3 DEF Bijection, Injection, Surjection, IsInjective
  <1>6. Cardinality(T) = n
    BY <1>5, FS_CountingElements DEF ExistsBijection
  <1> QED
    BY <1>4, <1>6

\* A query that is hijacked sets one entry and may lose another one.
LEMMA QueryRefines ==
    ASSUME IInv, NEW p \in Outbound, IsQuery(p), RewriteQuery(p)
    PROVE  Hijack!Query(p)
  <1> DEFINE s == ShardFor(p.sport)
             k == QueryKey(p)
             old == ring[s][pos[s]]
             dropped == IF Full(s) /\ old \in Keys /\ ShardFor(old.port) = s THEN {old} ELSE {}
  <1>1. /\ s \in Shards /\ k \in Keys /\ k.port = p.sport
        /\ pending' = [pending EXCEPT ![s] = Remember(s, k, p.dst)]
    BY QueryEffect, QueryFacts
  <1>2. pending \in [Shards -> [Keys -> Addrs \cup {NoAddr}]]
    BY DEF IInv, TypeOK
  <1>3. \A x \in Keys : ShardFor(x.port) \in Shards
    BY KeyFacts
  <1>4. ASSUME NEW x \in Keys
        PROVE  pending'[ShardFor(x.port)][x]
                 = IF x = k THEN p.dst
                   ELSE IF x \in dropped THEN NoAddr
                   ELSE pending[ShardFor(x.port)][x]
    <2>1. CASE ShardFor(x.port) = s
      <3>1. pending'[s] = Remember(s, k, p.dst)
        BY <1>1, <1>2
      <3> QED
        BY <2>1, <3>1 DEF Remember
    <2>2. CASE ShardFor(x.port) # s
      <3>1. pending'[ShardFor(x.port)] = pending[ShardFor(x.port)]
        BY <1>1, <1>2, <1>3, <2>2
      <3>2. x # k
        BY <1>1, <2>2
      <3> QED
        BY <2>2, <3>1, <3>2
    <2> QED
      BY <2>1, <2>2
  <1>5. Hijack!Full \/ dropped = {}
    <2> SUFFICES ASSUME dropped # {} PROVE Hijack!Full
      OBVIOUS
    <2>1. Full(s) /\ IsFiniteSet(Occupied(s))
      BY <1>1 DEF IInv, FewOrphans
    <2>2. PICK held \in SUBSET Occupied(s) : Cardinality(held) = MaxPerShard
      BY <2>1, SubsetOfSize, ShardsAssumption DEF Full
    <2>3. Occupied(s) \subseteq Hijack!Remembered
      BY <1>1, SamePackets DEF Occupied, Hijack!Remembered, IInv, InOwnShard
    <2> QED
      BY <2>2, <2>3, SameCardinality DEF Hijack!Full
  <1>6. dropped \in {{}} \cup (IF Hijack!Full THEN {{x} : x \in Keys} ELSE {})
    BY <1>5
  <1>7. Table' = [x \in Keys |-> IF x = k THEN p.dst
                                ELSE IF x \in dropped THEN NoAddr
                                ELSE Table[x]]
    BY <1>4 DEF Table
  <1>8. io' = <<"query", p, [p EXCEPT !.dst = Target(p.v4)]>>
    BY DEF RewriteQuery
  <1> HIDE DEF dropped, old
  <1> QED
    BY <1>6, <1>7, <1>8, SamePackets DEF Hijack!Query, Table

\* A reply that finds its entry uses it up; all others are passed on.
LEMMA ReplyRefines ==
    ASSUME IInv, NEW p \in Inbound, RewriteResponse(p)
    PROVE  Hijack!Reply(p) \/ Hijack!PassReply(p)
  <1> DEFINE s == ShardFor(p.dport)
             k == ReplyKey(p)
  <1>1. s \in Shards /\ k \in Keys /\ k.port = p.dport
    BY ReplyFacts
  <1>2. Table[k] = pending[s][k]
    BY <1>1 DEF Table
  <1>3. CASE ~(IsReply(p) /\ pending[s][k] # NoAddr)
    <2>1. io' = <<"reply", p, p>> /\ pending' = pending
      BY <1>3 DEF RewriteResponse, shardVars
    <2>2. Table' = Table
      BY <2>1 DEF Table
    <2> QED
      BY <1>2, <1>3, <2>1, <2>2, SamePackets DEF Hijack!PassReply, Table
  <1>4. CASE IsReply(p) /\ pending[s][k] # NoAddr
    <2>1. /\ pending' = [pending EXCEPT ![s][k] = NoAddr]
          /\ io' = <<"reply", p, [p EXCEPT !.src = pending[s][k]]>>
      BY <1>4 DEF RewriteResponse
    <2>2. pending \in [Shards -> [Keys -> Addrs \cup {NoAddr}]]
      BY DEF IInv, TypeOK
    <2>3. ASSUME NEW x \in Keys
          PROVE  pending'[ShardFor(x.port)][x]
                   = IF x = k THEN NoAddr ELSE pending[ShardFor(x.port)][x]
      BY <1>1, <2>1, <2>2, KeyFacts
    <2>4. Table' = [Table EXCEPT ![k] = NoAddr]
      BY <2>3 DEF Table
    <2> QED
      BY <1>2, <1>4, <2>1, <2>4, SamePackets DEF Hijack!Reply, Table
  <1> QED
    BY <1>3, <1>4

\* Every step of the rewriter is one of the table, or changes nothing it shows.
LEMMA NextRefines == IInv /\ [Next]_vars => [Hijack!Next]_(Hijack!vars)
  <1> SUFFICES ASSUME IInv, [Next]_vars PROVE [Hijack!Next]_(Hijack!vars)
    OBVIOUS
  <1>1. ASSUME NEW p \in Outbound, RewriteQuery(p) PROVE Hijack!Next
    <2>1. CASE IsQuery(p)
      BY <1>1, <2>1, QueryRefines DEF Hijack!Next
    <2>2. CASE ~IsQuery(p)
      <3>1. io' = <<"query", p, p>> /\ pending' = pending
        BY <1>1, <2>2 DEF RewriteQuery, shardVars
      <3>2. Hijack!PassQuery(p)
        BY <2>2, <3>1, SamePackets DEF Hijack!PassQuery
      <3> QED
        BY <3>2 DEF Hijack!Next
    <2> QED
      BY <2>1, <2>2
  <1>2. ASSUME NEW p \in Inbound, RewriteResponse(p) PROVE Hijack!Next
    BY <1>2, ReplyRefines DEF Hijack!Next
  <1>3. CASE UNCHANGED vars
    BY <1>3 DEF vars, Hijack!vars
  <1> QED
    BY <1>1, <1>2, <1>3 DEF Next

\* The sharded rewriter implements the one table: a reply comes back under the
\* address its socket asked last, an entry is used once, and only a query that
\* finds at least maxPerShard entries makes the rewriter forget one.
THEOREM Implements == Spec => ImplementsTable
  BY InitRefines, NextRefines, IInvHolds, PTL DEF Spec, ImplementsTable, Hijack!Spec

-------------------------------------------------------------------------------
(* The clients of the rewriter: what one of them may count on, and in      *)
(* which order entries are forgotten.                                      *)

\* How many queries ago slot i of shard s was written, counted from the oldest slot.
Rank(s, i) == IF i >= pos[s] THEN i - pos[s] ELSE i - pos[s] + MaxPerShard

\* The slot of a socket's query is older than the latest slot of each socket
\* that asked after it.
RingFollowsOrder ==
    /\ older \subseteq Keys \X Keys
    /\ \A s \in Shards, q \in older, i \in Slots :
          ShardFor(q[1].port) = s /\ ShardFor(q[2].port) = s /\ ring[s][i] = q[1] =>
              \E j \in Slots : ring[s][j] = q[2] /\ Rank(s, i) < Rank(s, j)

\* Where an answer is to come, the target is set; and a socket that does not
\* overlap its queries waits for one answer, which its entry restores unless
\* it was evicted.
OneAnswerAwaited ==
    /\ waiting \in [Keys \X Addrs -> Nat]
    /\ \A k \in Keys, d \in Addrs : waiting[<<k, d>>] > 0 =>
          /\ AnswerTo(k) \in Inbound /\ IsReply(AnswerTo(k))
          /\ k \notin overlapped =>
                /\ waiting[<<k, d>>] = 1
                /\ \A e \in Addrs : waiting[<<k, e>>] > 0 => e = d
          /\ k \notin overlapped \cup lost => pending[ShardFor(k.port)][k] = d

ClientsInv == IInv /\ RingFollowsOrder /\ OneAnswerAwaited

\* What an answer to a socket is addressed to.
LEMMA AnswerFacts ==
    ASSUME NEW k \in Keys
    PROVE  ReplyKey(AnswerTo(k)) = k /\ AnswerTo(k).dport = k.port
  <1>1. \/ \E p \in Outbound : k = [v4 |-> p.v4, ip |-> p.src, port |-> p.sport]
        \/ \E p \in Inbound : k = [v4 |-> p.v4, ip |-> p.dst, port |-> p.dport]
    BY DEF Keys, QueryKey, ReplyKey
  <1>2. k = [v4 |-> k.v4, ip |-> k.ip, port |-> k.port]
    BY <1>1
  <1> QED
    BY <1>2 DEF ReplyKey, AnswerTo

\* Every step of the clients is a call of the rewriter, or changes nothing of it.
LEMMA ClientsCall ==
    ASSUME ClientsInv, [ClientsNext]_allVars
    PROVE  [Next]_vars
  <1>1. ASSUME NEW p \in Outbound, Ask(p) \/ Mistake(p) \/ StrayQuery(p) PROVE Next
    BY <1>1 DEF Ask, Mistake, StrayQuery, Next
  <1>2. ASSUME NEW p \in Inbound, StrayReply(p) PROVE Next
    BY <1>2 DEF StrayReply, Next
  <1>3. ASSUME NEW k \in Keys, NEW d \in Addrs, Answer(k, d) PROVE Next
    BY <1>3 DEF Answer, Next, ClientsInv, OneAnswerAwaited
  <1>4. ASSUME NEW k \in Keys, NEW d \in Addrs, Lose(k, d) PROVE UNCHANGED vars
    BY <1>4 DEF Lose
  <1>5. CASE UNCHANGED allVars
    BY <1>5 DEF allVars
  <1> QED
    BY <1>1, <1>2, <1>3, <1>4, <1>5 DEF ClientsNext

\* Nothing is waited for at first.
LEMMA InitClientsInv == ClientsInit => ClientsInv
  <1> SUFFICES ASSUME ClientsInit PROVE ClientsInv
    OBVIOUS
  <1>1. IInv
    BY InitIInv DEF ClientsInit
  <1>2. RingFollowsOrder
    BY DEF ClientsInit, RingFollowsOrder
  <1>3. OneAnswerAwaited
    <2>1. waiting = [q \in Keys \X Addrs |-> 0]
      BY DEF ClientsInit
    <2>2. \A k \in Keys, d \in Addrs : waiting[<<k, d>>] = 0
      BY <2>1
    <2> QED
      BY <2>1, <2>2 DEF OneAnswerAwaited
  <1> QED
    BY <1>1, <1>2, <1>3 DEF ClientsInv

\* A step that asks nothing leaves the ring, and can only shorten the order.
LEMMA RingKept ==
    ASSUME RingFollowsOrder, ring' = ring, pos' = pos, older' \subseteq older
    PROVE  RingFollowsOrder'
  BY DEF RingFollowsOrder, Rank

\* A query writes the youngest slot, and its socket becomes the youngest.
LEMMA AskKeepsOrder ==
    ASSUME ClientsInv, NEW p \in Outbound, Ask(p) \/ Mistake(p)
    PROVE  RingFollowsOrder'
  <1> DEFINE k == QueryKey(p)
             s == ShardFor(p.sport)
             others == StillPending \ {k}
  <1>1. /\ s \in Shards /\ k \in Keys /\ k.port = p.sport
    BY QueryFacts
  <1>2. /\ ring \in [Shards -> [Slots -> Keys \cup {NoKey}]] /\ pos \in [Shards -> Slots]
    BY DEF ClientsInv, IInv, TypeOK
  <1>3. ring' = [ring EXCEPT ![s][pos[s]] = k] /\ pos' = [pos EXCEPT ![s] = Advance(s)]
    BY DEF Ask, Mistake, RewriteQuery
  <1>4. older' = (older \cap (others \X others)) \cup (others \X {k})
    BY DEF Ask, Mistake, BecomesYoungest
  <1>5. others \subseteq Keys /\ k \notin others
    BY DEF StillPending
  <1> HIDE DEF others
  <1>6. older' \subseteq Keys \X Keys
    BY <1>1, <1>4, <1>5
  <1>7. ASSUME NEW t \in Shards, NEW q \in older', NEW i \in Slots,
               ShardFor(q[1].port) = t, ShardFor(q[2].port) = t, ring'[t][i] = q[1]
        PROVE  \E j \in Slots : ring'[t][j] = q[2] /\ Rank(t, i)' < Rank(t, j)'
    <2>1. q[1] \in others
      BY <1>4
    <2>2. q[1] # k
      BY <1>5, <2>1
    <2>3. CASE t # s
      <3>1. ring'[t] = ring[t] /\ pos'[t] = pos[t]
        BY <1>2, <1>3, <2>3
      <3>2. q \in older
        BY <1>1, <1>4, <2>3, <1>7
      <3>3. PICK j \in Slots : ring[t][j] = q[2] /\ Rank(t, i) < Rank(t, j)
        BY <1>7, <3>1, <3>2 DEF ClientsInv, RingFollowsOrder
      <3> QED
        BY <3>1, <3>3 DEF Rank
    <2>4. CASE t = s
      <3>1. /\ ring'[s][pos[s]] = k
            /\ \A j \in Slots : j # pos[s] => ring'[s][j] = ring[s][j]
            /\ pos[s] \in Slots /\ pos'[s] = Advance(s)
        BY <1>1, <1>2, <1>3
      <3>2. i # pos[s]
        BY <1>7, <2>2, <2>4, <3>1
      <3>3. /\ Advance(s) = IF pos[s] + 1 = MaxPerShard THEN 0 ELSE pos[s] + 1
        BY <3>1, ShardsAssumption DEF Advance, Slots
      <3>4. \A j \in Slots : Rank(s, j)' = IF j = pos[s] THEN MaxPerShard - 1 ELSE Rank(s, j) - 1
        BY <3>1, <3>3, ShardsAssumption DEF Rank, Slots
      <3>5. \A j \in Slots : Rank(s, j) \in 0 .. MaxPerShard - 1 /\ (Rank(s, j) = 0 <=> j = pos[s])
        BY <3>1, ShardsAssumption DEF Rank, Slots
      <3>6. CASE q[2] = k
        BY <2>4, <3>1, <3>2, <3>4, <3>5, <3>6, ShardsAssumption
      <3>7. CASE q[2] # k
        <4>1. q \in older
          BY <1>4, <3>7
        <4>2. PICK j \in Slots : ring[s][j] = q[2] /\ Rank(s, i) < Rank(s, j)
          BY <1>7, <2>4, <3>1, <3>2, <4>1 DEF ClientsInv, RingFollowsOrder
        <4>3. j # pos[s]
          BY <3>5, <4>2
        <4> QED
          BY <2>4, <3>1, <3>2, <3>4, <3>5, <4>2, <4>3
      <3> QED
        BY <3>6, <3>7
    <2> QED
      BY <2>3, <2>4
  <1> QED
    BY <1>6, <1>7 DEF RingFollowsOrder

\* A query waits for its answer; what the others forget for it counts as lost.
LEMMA AskKeepsAwaited ==
    ASSUME ClientsInv, NEW p \in Outbound, Ask(p)
    PROVE  OneAnswerAwaited'
  <1> DEFINE k == QueryKey(p)
             s == ShardFor(p.sport)
  <1>1. /\ s \in Shards /\ k \in Keys /\ k.port = p.sport /\ k.v4 = p.v4
        /\ p.dst \in Addrs /\ p.dst # NoAddr
    BY QueryFacts DEF QueryKey
  <1>2. pending \in [Shards -> [Keys -> Addrs \cup {NoAddr}]]
    BY DEF ClientsInv, IInv, TypeOK
  <1>3. /\ IsQuery(p) /\ p.udp
        /\ pending' = [pending EXCEPT ![s] = Remember(s, k, p.dst)]
        /\ waiting' = [waiting EXCEPT ![<<k, p.dst>>] = @ + 1]
        /\ overlapped' = IF \E d \in Addrs : waiting[<<k, d>>] > 0
                         THEN overlapped \cup {k} ELSE overlapped \ {k}
        /\ lost' = (lost \cup Forgotten(s)) \ {k}
    BY DEF Ask, RewriteQuery
  <1>4. waiting \in [Keys \X Addrs -> Nat]
    BY DEF ClientsInv, OneAnswerAwaited
  <1>5. waiting' \in [Keys \X Addrs -> Nat]
    BY <1>1, <1>3, <1>4
  <1>6. \A x \in Keys, d \in Addrs :
           waiting'[<<x, d>>] = IF x = k /\ d = p.dst THEN waiting[<<x, d>>] + 1 ELSE waiting[<<x, d>>]
    BY <1>1, <1>3, <1>4
  <1>7. AnswerTo(k) \in Inbound /\ IsReply(AnswerTo(k))
    BY <1>1, <1>3, ClientsAssumption DEF IsReply, IsQuery, AnswerTo, HasPorts
  <1>8. pending'[s] = Remember(s, k, p.dst)
    BY <1>1, <1>2, <1>3
  <1>9. ASSUME NEW x \in Keys, NEW d \in Addrs, waiting'[<<x, d>>] > 0
        PROVE  /\ AnswerTo(x) \in Inbound /\ IsReply(AnswerTo(x))
               /\ x \notin overlapped' =>
                     /\ waiting'[<<x, d>>] = 1
                     /\ \A e \in Addrs : waiting'[<<x, e>>] > 0 => e = d
               /\ x \notin overlapped' \cup lost' => pending'[ShardFor(x.port)][x] = d
    <2>1. CASE x = k
      <3>1. ASSUME x \notin overlapped' PROVE \A e \in Addrs : waiting[<<x, e>>] = 0
        BY <1>3, <1>4, <2>1, <3>1
      <3>2. ASSUME x \notin overlapped'
            PROVE  d = p.dst /\ waiting'[<<x, d>>] = 1 /\ \A e \in Addrs : waiting'[<<x, e>>] > 0 => e = d
        BY <1>1, <1>6, <1>9, <2>1, <3>1, <3>2
      <3>3. pending'[s][k] = p.dst
        BY <1>1, <1>8 DEF Remember
      <3> QED
        BY <1>1, <1>7, <2>1, <3>2, <3>3
    <2>2. CASE x # k
      <3>1. \A e \in Addrs : waiting'[<<x, e>>] = waiting[<<x, e>>]
        BY <1>6, <2>2
      <3>2. x \in overlapped' <=> x \in overlapped
        BY <1>3, <2>2
      <3>3. ASSUME x \notin overlapped' \cup lost' PROVE pending'[ShardFor(x.port)][x] = d
        <4>1. x \notin overlapped \cup lost /\ x \notin Forgotten(s)
          BY <1>3, <2>2, <3>3
        <4>2. pending[ShardFor(x.port)][x] = d
          BY <1>9, <3>1, <4>1 DEF ClientsInv, OneAnswerAwaited
        <4>3. CASE ShardFor(x.port) = s
          <5>1. x \in Occupied(s) /\ pending'[s][x] # NoAddr
            BY <4>1, <4>2, <4>3, PacketsAssumption DEF Forgotten, Occupied
          <5> QED
            BY <1>8, <2>2, <4>2, <4>3, <5>1 DEF Remember
        <4>4. CASE ShardFor(x.port) # s
          BY <1>1, <1>2, <1>3, <4>2, <4>4, KeyFacts
        <4> QED
          BY <4>3, <4>4
      <3> QED
        BY <1>9, <3>1, <3>2, <3>3 DEF ClientsInv, OneAnswerAwaited
    <2> QED
      BY <2>1, <2>2
  <1> QED
    BY <1>5, <1>9 DEF OneAnswerAwaited

\* A packet of another protocol is no query, so its socket counts as overlapped.
LEMMA MistakeKeepsAwaited ==
    ASSUME ClientsInv, NEW p \in Outbound, Mistake(p)
    PROVE  OneAnswerAwaited'
  <1> DEFINE k == QueryKey(p)
             s == ShardFor(p.sport)
  <1>1. s \in Shards /\ k \in Keys /\ k.port = p.sport
    BY QueryFacts
  <1>2. pending \in [Shards -> [Keys -> Addrs \cup {NoAddr}]]
    BY DEF ClientsInv, IInv, TypeOK
  <1>3. /\ pending' = [pending EXCEPT ![s] = Remember(s, k, p.dst)]
        /\ overlapped' = overlapped \cup {k} /\ waiting' = waiting
        /\ lost' = lost \cup Forgotten(s)
    BY DEF Mistake, RewriteQuery
  <1>4. pending'[s] = Remember(s, k, p.dst)
    BY <1>1, <1>2, <1>3
  <1>5. ASSUME NEW x \in Keys, NEW d \in Addrs, waiting[<<x, d>>] > 0,
               x \notin overlapped' \cup lost'
        PROVE  pending'[ShardFor(x.port)][x] = d
    <2>1. x \notin overlapped \cup lost /\ x \notin Forgotten(s) /\ x # k
      BY <1>3, <1>5
    <2>2. pending[ShardFor(x.port)][x] = d
      BY <1>5, <2>1 DEF ClientsInv, OneAnswerAwaited
    <2>3. CASE ShardFor(x.port) = s
      <3>1. pending'[s][x] # NoAddr
        BY <2>1, <2>2, <2>3, PacketsAssumption DEF Forgotten, Occupied
      <3> QED
        BY <1>4, <2>1, <2>2, <2>3, <3>1 DEF Remember
    <2>4. CASE ShardFor(x.port) # s
      BY <1>1, <1>2, <1>3, <2>2, <2>4, KeyFacts
    <2> QED
      BY <2>3, <2>4
  <1> QED
    BY <1>3, <1>5 DEF ClientsInv, OneAnswerAwaited

\* An answer that comes or is lost is no longer waited for; it takes the entry
\* of its own socket only.
LEMMA AnswerKeepsAwaited ==
    ASSUME ClientsInv, NEW k \in Keys, NEW d \in Addrs, Answer(k, d) \/ Lose(k, d)
    PROVE  OneAnswerAwaited'
  <1>1. pending \in [Shards -> [Keys -> Addrs \cup {NoAddr}]]
    BY DEF ClientsInv, IInv, TypeOK
  <1>2. waiting \in [Keys \X Addrs -> Nat] /\ waiting[<<k, d>>] > 0
    BY DEF ClientsInv, OneAnswerAwaited, Answer, Lose
  <1>3. /\ waiting' = [waiting EXCEPT ![<<k, d>>] = @ - 1]
        /\ overlapped' = overlapped /\ lost' = lost
    BY DEF Answer, Lose
  <1>4. waiting[<<k, d>>] - 1 \in Nat
    <2>1. waiting[<<k, d>>] \in Nat
      BY <1>2
    <2> QED
      BY <1>2, <2>1
  <1>5. waiting' \in [Keys \X Addrs -> Nat]
    BY <1>2, <1>3, <1>4
  <1>6. \A x \in Keys, e \in Addrs :
           waiting'[<<x, e>>] = IF x = k /\ e = d THEN waiting[<<x, e>>] - 1 ELSE waiting[<<x, e>>]
    BY <1>2, <1>3
  <1>7. \A x \in Keys : x # k => pending'[ShardFor(x.port)][x] = pending[ShardFor(x.port)][x]
    <2>1. ASSUME Answer(k, d)
          PROVE  \/ pending' = pending
                 \/ pending' = [pending EXCEPT ![ShardFor(k.port)][k] = NoAddr]
      BY <2>1, AnswerFacts DEF Answer, RewriteResponse, shardVars
    <2>2. ASSUME Lose(k, d) PROVE pending' = pending
      BY <2>2 DEF Lose, vars
    <2> QED
      BY <1>1, <2>1, <2>2, KeyFacts
  <1>8. ASSUME NEW x \in Keys, NEW e \in Addrs, waiting'[<<x, e>>] > 0
        PROVE  /\ AnswerTo(x) \in Inbound /\ IsReply(AnswerTo(x))
               /\ x \notin overlapped' =>
                     /\ waiting'[<<x, e>>] = 1
                     /\ \A f \in Addrs : waiting'[<<x, f>>] > 0 => f = e
               /\ x \notin overlapped' \cup lost' => pending'[ShardFor(x.port)][x] = e
    <2>1. \A f \in Addrs : waiting[<<x, f>>] \in Nat
      BY <1>2
    <2>2. \A f \in Addrs : waiting'[<<x, f>>] > 0 => waiting[<<x, f>>] > 0
      BY <1>6, <2>1
    <2>3. /\ AnswerTo(x) \in Inbound /\ IsReply(AnswerTo(x))
          /\ x \notin overlapped =>
                /\ waiting[<<x, e>>] = 1
                /\ \A f \in Addrs : waiting[<<x, f>>] > 0 => f = e
          /\ x \notin overlapped \cup lost => pending[ShardFor(x.port)][x] = e
      BY <1>8, <2>2 DEF ClientsInv, OneAnswerAwaited
    <2>4. ASSUME x \notin overlapped PROVE x # k
      <3>1. ASSUME x = k PROVE FALSE
        <4>1. e = d
          BY <1>2, <2>3, <2>4, <3>1
        <4>2. waiting'[<<x, e>>] = 0
          BY <1>6, <2>3, <2>4, <3>1, <4>1
        <4> QED
          BY <1>8, <4>2
      <3> QED
        BY <3>1
    <2> QED
      BY <1>3, <1>6, <1>7, <2>2, <2>3, <2>4
  <1> QED
    BY <1>5, <1>8 DEF OneAnswerAwaited

\* Packets of others are passed on.
LEMMA StrayKeeps ==
    ASSUME ClientsInv,
           \/ \E p \in Outbound : StrayQuery(p)
           \/ \E p \in Inbound : StrayReply(p)
           \/ UNCHANGED allVars
    PROVE  OneAnswerAwaited' /\ RingFollowsOrder'
  <1>1. UNCHANGED <<clientVars, shardVars>>
    <2>1. ASSUME NEW p \in Outbound, StrayQuery(p) PROVE UNCHANGED <<clientVars, shardVars>>
      BY <2>1 DEF StrayQuery, RewriteQuery
    <2>2. ASSUME NEW p \in Inbound, StrayReply(p) PROVE UNCHANGED <<clientVars, shardVars>>
      BY <2>2 DEF StrayReply, RewriteResponse
    <2>3. CASE UNCHANGED allVars
      BY <2>3 DEF allVars, vars, shardVars
    <2> QED
      BY <2>1, <2>2, <2>3
  <1>2. OneAnswerAwaited'
    BY <1>1 DEF ClientsInv, OneAnswerAwaited, clientVars, shardVars
  <1>3. RingFollowsOrder'
    BY <1>1, RingKept DEF ClientsInv, clientVars, shardVars
  <1> QED
    BY <1>2, <1>3

\* Every step of the clients keeps the strengthening.
LEMMA NextKeepsClientsInv == ClientsInv /\ [ClientsNext]_allVars => ClientsInv'
  <1> SUFFICES ASSUME ClientsInv, [ClientsNext]_allVars PROVE ClientsInv'
    OBVIOUS
  <1>1. IInv'
    BY ClientsCall, NextKeepsIInv DEF ClientsInv
  <1>2. ASSUME NEW p \in Outbound, Ask(p) \/ Mistake(p)
        PROVE  OneAnswerAwaited' /\ RingFollowsOrder'
    BY <1>2, AskKeepsAwaited, MistakeKeepsAwaited, AskKeepsOrder
  <1>3. ASSUME NEW k \in Keys, NEW d \in Addrs, Answer(k, d) \/ Lose(k, d)
        PROVE  OneAnswerAwaited' /\ RingFollowsOrder'
    <2>1. ring' = ring /\ pos' = pos /\ older' \subseteq older
      BY <1>3 DEF Answer, Lose, RewriteResponse, shardVars, vars
    <2> QED
      BY <1>3, <2>1, AnswerKeepsAwaited, RingKept DEF ClientsInv
  <1>4. OneAnswerAwaited' /\ RingFollowsOrder'
    BY <1>2, <1>3, StrayKeeps DEF ClientsNext
  <1> QED
    BY <1>1, <1>4 DEF ClientsInv

\* The strengthening holds of the rewriter among its clients, however many.
THEOREM ClientsInvHolds == ClientsSpec => []ClientsInv
  BY InitClientsInv, NextKeepsClientsInv, PTL DEF ClientsSpec

\* Whatever the clients do, the rewriter is called as Spec says.
THEOREM ClientsCallTheRewriter == ClientsSpec => Spec
  <1>1. ClientsInit => Init
    BY DEF ClientsInit
  <1> QED
    BY <1>1, ClientsCall, ClientsInvHolds, PTL DEF ClientsSpec, Spec

\* A socket that asks again only when no answer is outstanding is answered from
\* the address it asked, unless its entry was evicted, in every shard of any size.
THEOREM SequentialClientsAreServed == ClientsSpec => SequentialClientsServed
  <1>1. ASSUME ClientsInv, [ClientsNext]_allVars, NEW k \in Keys, NEW d \in Addrs,
               Answer(k, d), k \notin overlapped \cup lost
        PROVE  io'[3].src = d
    <2> DEFINE s == ShardFor(k.port)
               a == AnswerTo(k)
    <2>1. waiting[<<k, d>>] > 0 /\ RewriteResponse(a)
      BY <1>1 DEF Answer
    <2>2. IsReply(a) /\ pending[s][k] = d
      BY <1>1, <2>1 DEF ClientsInv, OneAnswerAwaited
    <2>3. ReplyKey(a) = k /\ a.dport = k.port
      BY AnswerFacts
    <2>4. d # NoAddr
      BY PacketsAssumption
    <2>5. io' = <<"reply", a, [a EXCEPT !.src = d]>>
      BY <2>1, <2>2, <2>3, <2>4 DEF RewriteResponse
    <2>6. [a EXCEPT !.src = d].src = d
      BY DEF AnswerTo
    <2> QED
      BY <2>5, <2>6
  <1>2. ClientsInv /\ [ClientsNext]_allVars =>
           [\A k \in Keys, d \in Addrs :
              Answer(k, d) /\ k \notin overlapped \cup lost => io'[3].src = d]_allVars
    BY <1>1
  <1> QED
    BY <1>2, ClientsInvHolds, PTL DEF ClientsSpec, SequentialClientsServed

\* A ring as full of different keys as it can be holds each of them once.
LEMMA ExactRing ==
    ASSUME TypeOK, NEW s \in Shards, Cardinality(RingKeys(s)) >= MaxPerShard
    PROVE  \A i, j \in Slots : ring[s][i] = ring[s][j] => i = j
  <1>1. IsFiniteSet(Slots) /\ Cardinality(Slots) = MaxPerShard
    BY FS_Interval, ShardsAssumption DEF Slots
  <1>2. ring[s] \in Surjection(Slots, RingKeys(s))
    BY DEF TypeOK, RingKeys, Surjection
  <1>3. Cardinality(RingKeys(s)) = Cardinality(Slots)
    BY <1>1, RingIsSmall, FS_CardinalityType
  <1>4. ring[s] \in Injection(Slots, RingKeys(s))
    BY <1>1, <1>2, <1>3, FS_SurjSameCardinalityImpliesInj
  <1> QED
    BY <1>4, Fun_InjectionProperties

\* While the ring is exact, what a query evicts is the entry set the longest ago.
THEOREM EvictionIsFIFO == ClientsSpec => FIFOWhenExact
  <1>1. ASSUME ClientsInv, NEW p \in Outbound, NEW s \in Shards, Ask(p) \/ Mistake(p),
               RingKeys(s) = Occupied(s), Full(s),
               NEW j \in Forgotten(s), NEW m \in Occupied(s), <<m, j>> \in older
        PROVE  FALSE
    <2> DEFINE k == QueryKey(p)
    <2>1. /\ ShardFor(p.sport) \in Shards /\ k \in Keys /\ p.dst # NoAddr
      BY QueryFacts
    <2>2. /\ pending \in [Shards -> [Keys -> Addrs \cup {NoAddr}]] /\ pos[s] \in Slots
      BY <1>1 DEF ClientsInv, IInv, TypeOK
    <2>3. pending' = [pending EXCEPT ![ShardFor(p.sport)] = Remember(ShardFor(p.sport), k, p.dst)]
      BY <1>1 DEF Ask, Mistake, RewriteQuery
    <2>4. j \in Keys /\ m \in Keys /\ pending[s][j] # NoAddr /\ pending[s][m] # NoAddr
          /\ pending'[s][j] = NoAddr
      BY DEF Forgotten, Occupied
    <2>5. s = ShardFor(p.sport)
      BY <2>1, <2>2, <2>3, <2>4
    <2>6. j = ring[s][pos[s]]
      BY <2>1, <2>2, <2>3, <2>4, <2>5 DEF Remember
    <2>7. ShardFor(j.port) = s /\ ShardFor(m.port) = s
      BY <1>1, <2>4 DEF ClientsInv, IInv, InOwnShard
    <2>8. PICK i \in Slots : ring[s][i] = m
      BY <1>1 DEF RingKeys
    <2>9. PICK i2 \in Slots : ring[s][i2] = j /\ Rank(s, i) < Rank(s, i2)
      <3>1. <<m, j>>[1] = m /\ <<m, j>>[2] = j
        OBVIOUS
      <3> QED
        BY <1>1, <2>7, <2>8, <3>1 DEF ClientsInv, RingFollowsOrder
    <2>10. i2 = pos[s]
      BY <1>1, <2>2, <2>6, <2>9, ExactRing DEF Full, ClientsInv, IInv
    <2> QED
      BY <2>2, <2>9, <2>10, ShardsAssumption DEF Rank, Slots
  <1>2. ClientsInv /\ [ClientsNext]_allVars =>
           [\A p \in Outbound, s \in Shards :
              (Ask(p) \/ Mistake(p)) /\ RingKeys(s) = Occupied(s) /\ Full(s) => ForgetsOldest(s)]_allVars
    BY <1>1 DEF ForgetsOldest
  <1> QED
    BY <1>2, ClientsInvHolds, PTL DEF ClientsSpec, FIFOWhenExact
===============================================================================
