--------------------------- MODULE MCZArithCalls ---------------------------
(***************************************************************************)
(* Operands for the runs of ZArithCalls: limbs of two bits, two limbs to a *)
(* packet.                                                                 *)
(***************************************************************************)
EXTENDS ZArithCalls

\* A magnitude as the limbs of n packets.
AsLimbs(v, n) == [i \in 0 .. n * PacketLimbs - 1 |-> (v \div Base ^ i) % Base]
Of(v, n) == [sign |-> 1, used |-> n, limbs |-> AsLimbs(v, n)]
Zero == [sign |-> 0, used |-> 0, limbs |-> AsLimbs(0, 0)]
Negated(v) == [v EXCEPT !.sign = -@]

\* Numbers of one and of two packets, next to the limits of limbs and packets or
\* with limbs that are all set or all clear.
OnePacket == {Of(v, 1) : v \in {1, 2, 3, 4, 8, 12, 15}}
TwoPackets ==
    {Of(v, 2) : v \in {16, 48, 63, 64, 128, 165, 192, 243, 255}}
Positive == OnePacket \union TwoPackets
Integer == {Zero} \union Positive \union {Negated(v) : v \in Positive}

\* Dividends with more turns of the division than divisors have limbs.
Dividends == {Of(v, 3) : v \in {256, 2049, 3840, 4095}}

\* Long numbers: chosen limbs for the n packets.
LongNumber(n, low, top) ==
    [sign |-> 1, used |-> n, limbs |-> [i \in 0 .. n * PacketLimbs - 1 |->
        IF i < 2 THEN low ELSE IF i >= (n - 1) * PacketLimbs THEN top ELSE (i * low + top) % Base]]
LongPairs ==
    {<<LongNumber(k[1], low, top), LongNumber(k[2], low2, top)>> :
        k \in {<<5, 5>>, <<6, 5>>, <<6, 6>>, <<5, 6>>, <<10, 5>>}, low, low2 \in {0, 3}, top \in {1, 3}}
    \union {<<LongNumber(k, low, top), Zero>> : k \in {5, 6, 9}, low \in {0, 3}, top \in {1, 3}}

MCOperands == (Integer \X Integer) \union (Dividends \X Integer) \union LongPairs
MCWord == Limb
MCShift == 0 .. 2 * PacketBit + 1

\* Nine packets by nine: the first products past the default cutoff.
NineOperands == {<<LongNumber(9, 3, 3), LongNumber(9, 3, 3)>>}

=============================================================================
