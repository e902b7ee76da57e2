------------------------------ MODULE DNSClients ------------------------------
(***************************************************************************)
(* DNSRewriter between the sockets that ask and the hijack target that     *)
(* answers: queries and answers can be lost and overtake one another, a    *)
(* socket can ask again, the same server or another one, at any time, and  *)
(* packets that are no query and no answer pass in between.                *)
(***************************************************************************)
EXTENDS DNSRewriter

CONSTANT MaxWaiting   \* bound: queries of one socket to one server on their way


VARIABLES
    waiting,     \* <<socket, server asked>> -> queries whose answer may still come
    overlapped,  \* sockets that asked again before an answer to come, or were
                 \* mistaken for asking since they asked last
    lost,        \* sockets whose entry was evicted since they asked last
    older        \* <<j, k>>: j asked last before k asked last, and both have an entry

clientVars == <<waiting, overlapped, lost, older>>
allVars == <<vars, clientVars>>

\* The answer of the target to a query of k that was sent to d.
AnswerTo(k) == [v4 |-> k.v4, udp |-> TRUE, frag |-> FALSE, src |-> Target(k.v4),
                dst |-> k.ip, sport |-> DNSPort, dport |-> k.port]

\* The network may hand over every such answer.
ASSUME ClientsAssumption ==
    /\ MaxWaiting \in Nat \ {0}
    /\ \A p \in Outbound : IsQuery(p) /\ p.udp => AnswerTo(QueryKey(p)) \in Inbound

ClientsInit ==
    /\ Init
    /\ waiting = [q \in Keys \X Addrs |-> 0]
    /\ overlapped = {} /\ lost = {} /\ older = {}

\* What this step makes shard s forget.
Forgotten(s) == {k \in Occupied(s) : pending'[s][k] = NoAddr}

\* The sockets that have an entry after this step.
StillPending == {k \in Keys : pending'[ShardFor(k.port)][k] # NoAddr}

\* The rewriter has set the entry of k.
BecomesYoungest(k) ==
    LET others == StillPending \ {k}
    IN  older' = (older \cap (others \X others)) \cup (others \X {k})

Ask(p) ==
    LET k == QueryKey(p)
    IN  /\ IsQuery(p) /\ p.udp /\ waiting[<<k, p.dst>>] < MaxWaiting
        /\ RewriteQuery(p)
        /\ waiting' = [waiting EXCEPT ![<<k, p.dst>>] = @ + 1]
        /\ overlapped' = IF \E d \in Addrs : waiting[<<k, d>>] > 0
                         THEN overlapped \cup {k} ELSE overlapped \ {k}
        /\ lost' = (lost \cup Forgotten(ShardFor(p.sport))) \ {k}
        /\ BecomesYoungest(k)

\* A packet of another protocol that the rewriter takes for a query of k.
Mistake(p) ==
    /\ IsQuery(p) /\ ~p.udp
    /\ RewriteQuery(p)
    /\ overlapped' = overlapped \cup {QueryKey(p)}
    /\ lost' = lost \cup Forgotten(ShardFor(p.sport))
    /\ BecomesYoungest(QueryKey(p))
    /\ UNCHANGED waiting

Answer(k, d) ==
    /\ waiting[<<k, d>>] > 0
    /\ waiting' = [waiting EXCEPT ![<<k, d>>] = @ - 1]
    /\ RewriteResponse(AnswerTo(k))
    /\ older' = older \cap (StillPending \X StillPending)
    /\ UNCHANGED <<overlapped, lost>>

\* The query or its answer is lost.
Lose(k, d) ==
    /\ waiting[<<k, d>>] > 0
    /\ waiting' = [waiting EXCEPT ![<<k, d>>] = @ - 1]
    /\ UNCHANGED <<vars, overlapped, lost, older>>

\* Packets of others.
StrayQuery(p) == ~IsQuery(p) /\ RewriteQuery(p) /\ UNCHANGED clientVars
StrayReply(p) == ~IsReply(p) /\ RewriteResponse(p) /\ UNCHANGED clientVars

ClientsNext ==
    \/ \E p \in Outbound : Ask(p) \/ Mistake(p) \/ StrayQuery(p)
    \/ \E p \in Inbound : StrayReply(p)
    \/ \E k \in Keys, d \in Addrs : Answer(k, d) \/ Lose(k, d)

ClientsSpec == ClientsInit /\ [][ClientsNext]_allVars

-------------------------------------------------------------------------------
(* Properties.                                                             *)

\* A socket that asks again only once its answer has come or cannot come any
\* more, and whose port number no other protocol uses, gets the answer from the
\* address it asked, whatever the others do, unless its shard overflowed in
\* between.
SequentialClientsServed ==
    [][\A k \in Keys, d \in Addrs :
          Answer(k, d) /\ k \notin overlapped \cup lost => io'[3].src = d]_allVars

\* What the comment on RewriteResponse says: "the application receives a reply
\* from the IP it originally queried", here of every socket whose entry was not
\* evicted.
AnsweredByServerAsked ==
    [][\A k \in Keys, d \in Addrs :
          Answer(k, d) /\ k \notin lost => io'[3].src = d]_allVars

ForgetsOldest(s) ==
    \A j \in Forgotten(s), k \in Occupied(s) : <<k, j>> \notin older

\* While every slot of a full ring holds the key of an entry of its own, and no
\* entry is without a slot, what a query evicts is the entry set the longest ago.
FIFOWhenExact ==
    [][\A p \in Outbound, s \in Shards :
          (Ask(p) \/ Mistake(p)) /\ RingKeys(s) = Occupied(s) /\ Full(s) => ForgetsOldest(s)]_allVars
===============================================================================
