-------------------------------- MODULE IPRange --------------------------------
(***************************************************************************)
(* connect-ip/iprange.go: the prefixes that cover a range of addresses,    *)
(* for IPRoute.Prefixes.  Addresses are numbers of AddressBits bits, and a *)
(* prefix is an address, not masked, with a length.                        *)
(***************************************************************************)
EXTENDS Naturals, Sequences

CONSTANT AddressBits   \* 32 or 128 in the program

ASSUME AddressAssumption == AddressBits \in Nat

VARIABLE range         \* the route's first and last address, or <<>> before there is one

Addresses == 0 .. 2^AddressBits - 1

HostSize(len) == 2^(AddressBits - len)

IsAligned(addr, len) == addr % HostSize(len) = 0

\* All host bits set.
LastIPInPrefix(addr, len) == (addr \div HostSize(len)) * HostSize(len) + HostSize(len) - 1

\* Variant: alignment is not looked at.
FindLargestPrefixUnaligned(start, end) ==
    CHOOSE len \in 0 .. AddressBits :
        /\ \A l \in len .. AddressBits - 1 : LastIPInPrefix(start, l) <= end
        /\ len > 0 => LastIPInPrefix(start, len - 1) > end

\* The length, made smaller as long as the prefix fits.
FindLargestPrefix(start, end) ==
    LET fits(l) == LastIPInPrefix(start, l) <= end /\ IsAligned(start, l)
    IN  IF start = end THEN AddressBits
        ELSE CHOOSE len \in 0 .. AddressBits :
                 (\A l \in len .. AddressBits - 1 : fits(l)) /\ (len > 0 => ~fits(len - 1))

\* The loop, from each address that it may have come to.
RangeToPrefixes(start, end) ==
    LET from[current \in start .. end] ==
            LET len  == FindLargestPrefix(current, end)
                last == LastIPInPrefix(current, len)
            IN  <<[addr |-> current, len |-> len]>> \o (IF last >= end THEN <<>> ELSE from[last + 1])
    IN  from[start]

-------------------------------------------------------------------------------
Members(p) == {a \in Addresses : a \div HostSize(p.len) = p.addr \div HostSize(p.len)}

\* "CIDR prefixes that exactly cover the range" (iprange.go:5): every address of the range
\* is in one prefix, none is in two, and no other address is in any.
Cover(prefixes, start, end) ==
    /\ UNION {Members(prefixes[i]) : i \in DOMAIN prefixes} = start .. end
    /\ \A i, j \in DOMAIN prefixes :
           i # j => Members(prefixes[i]) \cap Members(prefixes[j]) = {}

\* The prefixes cover the range exactly, also where it ends at the last address, which
\* has no successor.
RangeCovered ==
    range # <<>> => Cover(RangeToPrefixes(range[1], range[2]), range[1], range[2])

RangeInit == range \in {<<>>} \cup {r \in Addresses \X Addresses : r[1] <= r[2]}

RangeSpec == RangeInit /\ [][UNCHANGED range]_range
===============================================================================
