------------------------------- MODULE MSSClamp -------------------------------
(***************************************************************************)
(* internal/mss_clamp.go: the pumps of the tunnel lower the MSS that a SYN *)
(* advertises and correct its TCP checksum by the difference.              *)
(*                                                                         *)
(* A segment is its option bytes, its checksum and the sum of all its      *)
(* other 16-bit words, the pseudo-header's included.  Packets that are not *)
(* a SYN are left alone and left out.                                      *)
(***************************************************************************)
EXTENDS Naturals, SequencesExt

CONSTANTS
    Version,   \* of the IP header: 4 or 6
    MTU,       \* cfg.MTU
    Values,    \* the MSS values that hosts advertise
    MaxBefore  \* bound: options before the MSS

VARIABLES
    segment,
    sent       \* the segment as the host sent it

\* Kinds of options; Other stands for those that are skipped by their length.
EOL == 0
NOP == 1
MSS == 2
Other == 3

Bytes(word) == <<word \div 256, word % 256>>

\* What the loop leaves that adds the carries back until there is none.
Folded(sum) == IF sum = 0 THEN 0 ELSE ((sum - 1) % 65535) + 1

\* The options begin at an even offset and fill whole words.
SumOfWords(bytes) ==
    SumFunction([i \in 1..(Len(bytes) \div 2) |-> 256 * bytes[2 * i - 1] + bytes[2 * i]])

\* The checksum that the receiver, and computeTCPChecksum of the test, expect.
Checksum(rest, options) == 65535 - Folded(rest + SumOfWords(options))

OptionLists ==
    { LET list == FlattenSeq(before) \o <<MSS, 4>> \o Bytes(value)
      IN  list \o [i \in 1..((4 - (Len(list) % 4)) % 4) |-> EOL] :
        before \in UNION {[1..n -> {<<NOP>>, <<Other, 3, 7>>, <<Other, 2>>}] : n \in 0..MaxBefore},
        value \in Values }

Init ==
    /\ \E rest \in {20480, 47185}, options \in OptionLists :
           segment = [rest |-> rest, options |-> options, checksum |-> Checksum(rest, options)]
    /\ sent = segment

\* MSSForMTU, as the uint16 it is compared and stored as.
MaxMSS == (IF Version = 6 THEN MTU - 60 ELSE MTU - 40) % 65536

\* findMSSOption, from index i: the index of the value, 0 if there is none.
FindMSSOption(options) ==
    LET find[i \in 1..2 * Len(options) + 256] ==
            CASE i > Len(options)     -> 0
              [] options[i] = EOL     -> 0
              [] options[i] = NOP     -> find[i + 1]
              [] options[i] = MSS     -> IF i + 3 > Len(options) THEN 0 ELSE i + 2
              [] OTHER -> IF i = Len(options) \/ options[i + 1] < 2 THEN 0
                          ELSE find[i + options[i + 1]]
    IN  find[1]

OnesComplementSub(hc, old, new) == Folded(hc + (65535 - new) + old)

ClampMSS ==
    LET at  == FindMSSOption(segment.options)
        old == 256 * segment.options[at] + segment.options[at + 1]
    IN  /\ at # 0 /\ old > MaxMSS
        /\ segment' = [segment EXCEPT
               !.options  = ReplaceAt(ReplaceAt(@, at, Bytes(MaxMSS)[1]), at + 1, Bytes(MaxMSS)[2]),
               !.checksum = OnesComplementSub(@, old, MaxMSS)]
        /\ UNCHANGED sent

Spec == Init /\ [][ClampMSS]_<<segment, sent>>

\* "The TCP checksum is updated incrementally to account for the changed MSS bytes"
\* (mss_clamp.go:22-23): the clamped segment has the checksum its receiver computes.
ChecksumAccountsForMSS ==
    segment # sent => segment.checksum = Checksum(segment.rest, segment.options)
===============================================================================
