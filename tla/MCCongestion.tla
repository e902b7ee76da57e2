----------------------------- MODULE MCCongestion -----------------------------
(***************************************************************************)
(* The BBR congestion control in three parts, of which a behaviour runs    *)
(* one: the windowed filter, the bandwidth sampler on its packet queue,    *)
(* and the sender that the two feed.                                       *)
(***************************************************************************)
EXTENDS BandwidthSampler, BbrSender

VARIABLE part

\* Before the sampler was told of a packet, and after the second one.
LimitedPackets == {InvalidPacket, 1}

\* The choices of a part that does not run do not matter.
Init ==
    /\ part \in {"filter", "sampler", "sender"}
    /\ FilterInit /\ SamplerInit /\ SenderInit
    /\ part = "sampler" \/ (~conservative /\ next = 0)
    /\ part = "sender" \/ profile = "conservative"

Next ==
    /\ UNCHANGED part
    /\ \/ part = "filter" /\ FilterNext /\ UNCHANGED <<samplerVars, senderVars>>
       \/ part = "sampler" /\ SamplerNext /\ UNCHANGED <<filterVars, senderVars>>
       \/ part = "sender" /\ SenderNext /\ UNCHANGED <<filterVars, samplerVars>>

Spec == Init /\ [][Next]_<<part, filterVars, samplerVars, senderVars>>
===============================================================================
