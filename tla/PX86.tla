-------------------------------- MODULE PX86 --------------------------------
(***************************************************************************)
(* The packet kernels of the x86-64 driver (src/p/x86_64): the loops of    *)
(* Packets unrolled over packets of two quadwords.  A turn of such a loop  *)
(* loads all its packets before it stores one; what the loop leaves over   *)
(* is done by shorter turns that the low bits of the count choose.  The    *)
(* versions of a kernel for avx, sse4.1 and sse2 have the same turns and   *)
(* differ in the instructions that make one.                               *)
(***************************************************************************)
EXTENDS PBits

\* A register of 128 bits holds the two quadwords of a packet.
ASSUME PX86Assumption == PacketLimbs = 2

-----------------------------------------------------------------------------
(* Unrolled loops *)

\* Limb i of what the instruction op makes of the packets at a and at b.
Limbwise(op, m, a, b, i) ==
    CASE op = "copy" -> Get(m, a, i)
      [] op = "zero" -> 0
      [] op = "not"  -> Base - 1 - Get(m, a, i)
      [] OTHER       -> Combined(op, Get(m, a, i), Get(m, b, i))

\* Packets k, ..., k + w - 1 of r become what op makes of what the memory held before.
Turn(op, m, r, a, b, k, w) ==
    Loop(2 * w, m, LAMBDA t, i : Put(t, r, 2 * k + i, Limbwise(op, m, a, b, 2 * k + i)))

\* Behind the turns of four: is there a turn of two?
TwoLeft(n) == (n \div 2) % 2 = 1

\* Turns of four packets, then of two, then of one.
Unrolled(op, m, r, a, b, n) ==
    LET fours == n \div 4
        rest  == Loop(fours, m, LAMBDA t, j : Turn(op, t, r, a, b, 4 * j, 4))
        last  == IF TwoLeft(n) THEN Turn(op, rest, r, a, b, 4 * fours, 2) ELSE rest
    IN  IF n % 2 = 1 THEN Turn(op, last, r, a, b, n - 1, 1) ELSE last

PCOPY128(m, r, a, n) == Unrolled("copy", m, r, a, a, n)
PZERO128(m, r, n)    == Unrolled("zero", m, r, r, r, n)
PNOT128(m, r, a, n)  == Unrolled("not", m, r, a, a, n)

pand128(m, r, a, b, n) == Unrolled("and", m, r, a, b, n)
por128(m, r, a, b, n)  == Unrolled("or", m, r, a, b, n)
pxor128(m, r, a, b, n) == Unrolled("xor", m, r, a, b, n)

\* Is the result above the operand, so that the highest packets go first?
Backward(r, a) == r.buf = a.buf /\ r.at > a.at

\* Turns of four, from the end that is not overwritten; the packets left over, at
\* the other end, are one turn.
PMOVE128(m, r, a, n) ==
    LET down   == Backward(r, a)
        fours  == n \div 4
        left   == n % 4
        at(j)  == IF down THEN n - 4 * (j + 1) ELSE 4 * j
        moved  == Loop(fours, m, LAMBDA t, j : Turn("copy", t, r, a, a, at(j), 4))
    IN  IF left = 0 THEN moved
        ELSE Turn("copy", moved, r, a, a, IF down THEN 0 ELSE 4 * fours, left)

-----------------------------------------------------------------------------
(* Length and order *)

\* Is packet k at a zero?
Clear(m, a, k) == Get(m, a, 2 * k) = 0 /\ Get(m, a, 2 * k + 1) = 0

\* The order of packet k at a and at b: the high quadwords, then the low ones.
Order(m, a, b, k) ==
    LET x(i) == Get(m, a, 2 * k + i)
        y(i) == Get(m, b, 2 * k + i)
        i    == IF x(1) # y(1) THEN 1 ELSE 0
    IN  IF x(i) < y(i) THEN -1 ELSE IF x(i) > y(i) THEN 1 ELSE 0

\* The same packets of a and of b differ.
Differ(m, a, b, k) == Order(m, a, b, k) # 0

\* Pairs from the top, then packet 0 if one is left over.
pnorm_x86(m, a, n) ==
    LET used == {p \in 0 .. n \div 2 - 1 : ~Clear(m, a, n - 1 - 2 * p) \/ ~Clear(m, a, n - 2 - 2 * p)}
        top  == n - 2 * Min(used)
    IN  IF used # {} THEN top - Bit(Clear(m, a, top - 1))
        ELSE IF n % 2 = 1 THEN Bit(~Clear(m, a, 0))
        ELSE 0

\* The loop ends when 32 bytes, a pair of packets, are left.
PairsSeen(n) == IF n <= 2 THEN n \div 2 ELSE DivUp(n - 2, 2)

\* The packets seen from the top; whatever is left over is compared as if it were
\* packet 0 alone.
pcmp_x86(m, a, b, n) ==
    LET seen == {k \in n - 2 * PairsSeen(n) .. n - 1 : Differ(m, a, b, k)}
    IN  IF seen # {} THEN Order(m, a, b, Max(seen))
        ELSE IF n > 2 * PairsSeen(n) THEN Order(m, a, b, 0)
        ELSE 0

\* 128 for each packet that is zero, and the position in the first that is not.
pclz_x86(m, a, n) ==
    LET used == {k \in 0 .. n - 1 : ~Clear(m, a, k)}
        top  == Max(used)
        high == Get(m, a, 2 * top + 1)
    IN  IF used = {} THEN n * PacketBit
        ELSE IF high # 0 THEN (n - 1 - top) * PacketBit + LimbClz(high)
        ELSE (n - 1 - top) * PacketBit + LimbBit + LimbClz(Get(m, a, 2 * top))

pctz_x86(m, a, n) ==
    LET used == {k \in 0 .. n - 1 : ~Clear(m, a, k)}
        low  == Get(m, a, 2 * Min(used))
    IN  IF used = {} THEN n * PacketBit
        ELSE IF low # 0 THEN Min(used) * PacketBit + LimbCtz(low)
        ELSE Min(used) * PacketBit + LimbBit + LimbCtz(Get(m, a, 2 * Min(used) + 1))

-----------------------------------------------------------------------------
(* Sums and differences, with the carry in a flag *)

\* The instruction adc or sbb: its result and the flag behind it.
AdcSbb(op, x, y, c) ==
    IF op = "adc" THEN [x |-> (x + y + c) % Base, c |-> (x + y + c) \div Base]
    ELSE [x |-> (x - y - c) % Base, c |-> Bit(x < y + c)]

\* w packets from the k-th: r gets a and b, which has bn packets, combined by op,
\* with the flag s.c.
Carried(s, r, a, b, bn, k, w, op) ==
    Loop(2 * w, s, LAMBDA t, i :
        LET z == AdcSbb(op, Get(t.m, a, 2 * k + i), Operand(t.m, b, bn, 2 * k + i), t.c)
        IN  [m |-> Put(t.m, r, 2 * k + i, z.x), c |-> z.c, k |-> t.k])

\* A slip: the count goes down with an instruction that clears the flag.
OneLeft_Cleared(s, left) == FALSE

\* The last packet is touched only while there is a carry.
OneLeft(s, left) == left = 1 /\ s.c = 1

\* PADDSUBC: turns of two packets and one of one while the flag is set, with an
\* operand of no packets; s.k is the first packet that was not reached.
Propagate(s, r, a, n, op) ==
    LET twos == Loop((n - s.k) \div 2, s, LAMBDA t, j :
            IF t.c = 0 THEN t ELSE [Carried(t, r, a, a, 0, t.k, 2, op) EXCEPT !.k = t.k + 2])
    IN  IF OneLeft(twos, n - twos.k)
        THEN [Carried(twos, r, a, a, 0, twos.k, 1, op) EXCEPT !.k = n]
        ELSE twos

\* PADDSUB: turns of two packets, one of one, and the flag into the rest.
PADDSUB(m, r, a, b, an, bn, op) ==
    LET both == Carried([m |-> m, c |-> 0, k |-> bn], r, a, b, bn, 0, bn, op)
    IN  Propagate(both, r, a, an, op)

\* PADDSUBU: the word to the first quadword.
PADDSUBU(m, r, a, w, n, op) ==
    LET low   == AdcSbb(op, Get(m, a, 0), w, 0)
        high  == AdcSbb(op, Get(m, a, 1), 0, low.c)
        first == [m |-> Put(Put(m, r, 0, low.x), r, 1, high.x), c |-> high.c, k |-> 1]
    IN  Propagate(first, r, a, n, op)

\* PADDSUBA: the result is the first operand, and nothing is left to copy.
PADDSUBA(m, r, b, rn, bn, op) == PADDSUB(m, r, r, b, rn, bn, op)

\* hebi_pneg: zero minus a, and whether it borrowed.
pneg_x86(m, r, a, n) ==
    Loop(2 * n, [m |-> m, c |-> 0], LAMBDA t, i :
        LET z == AdcSbb("sbb", 0, Get(t.m, a, i), t.c) IN [m |-> Put(t.m, r, i, z.x), c |-> z.c])

-----------------------------------------------------------------------------
(* Products *)

\* Two limbs a turn, the high word of the product being the next carry.
pmulu_x86(m, r, a, w, n) ==
    Loop(n * PacketLimbs, [m |-> m, c |-> 0], LAMBDA t, i :
        LET p == Get(t.m, a, i) * w + t.c IN [m |-> Put(t.m, r, i, p % Base), c |-> p \div Base])

\* A limb of a that is zero adds no row: only the limb k above the row is stored.
ZeroRow(m, r, k) == Put(m, r, k, 0)

pmul_x86(m, r, a, b, an, bn) ==
    Loop(2 * an, m, LAMBDA t, i :
        IF i > 0 /\ Get(t, a, i) = 0 THEN ZeroRow(t, r, i + 2 * bn) ELSE MulRow(t, r, a, b, 2 * bn, i))

psqr_x86(m, r, a, n) == pmul_x86(m, r, a, a, n, n)

-----------------------------------------------------------------------------
(* Shifts *)

TopClear(m, r, rn) == Clear(m, r, rn - 1)

\* Quadwords i + 1 and i at s, shifted up as one store: the low part of quadword
\* i + 1, and the high part of i + 1 above it.
Shifted(x, below, bits) == (Shl(x, bits) + High(below, bits)) % Base

\* hebi_pshl: unaligned stores from the top down, or hebi_pmove below the top
\* packet if whole quadwords are shifted; then zeros at both ends.
pshl_x86(m, r, a, b, n) ==
    LET bits  == b % LimbBit
        words == b \div LimbBit
        rn    == n + DivUp(b, PacketBit)
        rw    == [r EXCEPT !.at = @ + words]
        odd   == words % 2 = 1
        stored ==
            IF bits = 0
            THEN LET above == IF odd THEN Put(m, rw, 2 * n, 0) ELSE m
                     top   == Turn("copy", above, rw, a, a, n - 1, 1)
                 IN  IF n = 1 THEN top ELSE PMOVE128(top, rw, a, n - 1)
            ELSE LET above == IF odd THEN m ELSE Put(m, rw, 2 * n + 1, 0)
                     down  == Loop(n, [m |-> above, q |-> 0], LAMBDA t, j :
                        LET k  == n - 1 - j
                            lo == Get(t.m, a, 2 * k)
                            hi == Get(t.m, a, 2 * k + 1)
                            up == Put(t.m, rw, 2 * k + 2, High(hi, bits) + t.q)
                        IN  [m |-> Put(up, rw, 2 * k + 1, Shifted(hi, lo, bits)), q |-> Shl(lo, bits)])
                 IN  Put(down.m, rw, 0, down.q)
        lowest == IF odd THEN Put(stored, r, words - 1, 0) ELSE stored
    IN  [m |-> IF words \div 2 = 0 THEN lowest ELSE PZERO128(lowest, r, words \div 2),
         n |-> rn - Bit(TopClear(stored, r, rn))]

\* Is there a quadword behind the pairs, the first of k being loaded already?
QuadLeft(k) == (k - 1) % 2 = 1

\* hebi_pshr: the lowest quadword first, then pairs that straddle the packets of
\* a, then the quadword left over; the last packet is filled up with zeros.
pshr_x86(m, r, a, b, n) ==
    LET bits  == b % LimbBit
        words == b \div LimbBit
        k     == 2 * n - words
        al(t, i) == Get(t, a, words + i)
        up(x) == IF bits = 0 THEN 0 ELSE Shl(x, LimbBit - bits)
        pairs == Loop((k - 1) \div 2, [m |-> m, q |-> Shr(al(m, 0), bits)], LAMBDA t, j :
            LET lo == al(t.m, 2 * j + 1)
                hi == al(t.m, 2 * j + 2)
                low == Put(t.m, r, 2 * j, up(lo) + t.q)
            IN  [m |-> Put(low, r, 2 * j + 1, up(hi) + Shr(lo, bits)), q |-> Shr(hi, bits)])
        rn    == (k + 1) \div 2
        i     == 2 * (rn - 1)
        x     == al(pairs.m, k - 1)
        last  == IF QuadLeft(k)
                 THEN Put(Put(pairs.m, r, i, pairs.q + up(x)), r, i + 1, Shr(x, bits))
                 ELSE Put(Put(pairs.m, r, i, pairs.q), r, i + 1, 0)
    IN  IF k <= 0 THEN [m |-> m, n |-> 0]
        ELSE [m |-> last, n |-> rn - Bit(TopClear(last, r, rn))]

=============================================================================
