------------------------------ MODULE Packets ------------------------------
(***************************************************************************)
(* The packet kernels (src/p/generic): arithmetic on natural numbers kept  *)
(* as arrays of limbs, least limb first, PacketLimbs limbs to a packet.    *)
(*                                                                         *)
(* A memory is a function from buffers to their limbs; a pointer is a      *)
(* buffer and the number of a limb in it.  The loops run in the order of   *)
(* the code, one limb after the other, on a memory that they change as     *)
(* they go: an operand that is also the result is read as the code reads   *)
(* it.  A store outside a buffer adds a limb to it, where properties find  *)
(* it.  A limb is a machine word, of LimbBit bits instead of 64.           *)
(***************************************************************************)
EXTENDS Integers, FiniteSetsExt, TLC

CONSTANTS
    LimbBit,        \* LIMB_BIT, MLIMB_BIT
    PacketLimbs,    \* LIMB_PER_PACKET, MLIMB_PER_PACKET
    MaxLength       \* HEBI_PACKET_MAXLEN

ASSUME PacketsAssumption ==
    /\ LimbBit \in Nat \ {0} /\ PacketLimbs \in Nat \ {0} /\ MaxLength \in Nat
    /\ 2 ^ LimbBit \in Nat /\ 2 ^ LimbBit >= 2

\* The powers of two within a limb, of which the provers know nothing.
ASSUME PowersAssumption ==
    /\ 2 ^ 0 = 1
    /\ \A k \in 0 .. LimbBit - 1 : 2 ^ k \in Nat /\ 2 ^ (k + 1) = 2 * 2 ^ k

Base      == 2 ^ LimbBit
HighBit   == Base \div 2
Limb      == 0 .. Base - 1
PacketBit == LimbBit * PacketLimbs

Shl(x, n) == (x * 2 ^ n) % Base
Shr(x, n) == x \div 2 ^ n
Bit(cond) == IF cond THEN 1 ELSE 0
DivUp(m, n) == (m + n - 1) \div n

-----------------------------------------------------------------------------
(* Memory *)

\* The packets of buffer b, and the k-th packet after p.
Ptr(b)     == [buf |-> b, at |-> 0]
Skip(p, k) == [p EXCEPT !.at = @ + k * PacketLimbs]

Get(m, p, i) == m[p.buf][p.at + i]

Put(m, p, i, x) ==
    IF p.at + i \in DOMAIN m[p.buf]
    THEN [m EXCEPT ![p.buf][p.at + i] = x]
    ELSE [m EXCEPT ![p.buf] = (p.at + i :> x) @@ @]

\* A buffer of n packets that nothing was stored in.
NewBuffer(n, junk) == [i \in 0 .. n * PacketLimbs - 1 |-> junk]

\* What the first n packets at p stand for.
Value(m, p, n) ==
    LET v[i \in 0 .. n * PacketLimbs] ==
            IF i = n * PacketLimbs THEN 0 ELSE Get(m, p, i) + Base * v[i + 1]
    IN  v[0]

\* F(e), with e evaluated before it is used.
Given(e, F(_)) == CHOOSE y \in {F(x) : x \in {e}} : TRUE

\* The state s after Body for 0, 1, ..., n - 1.
Loop(n, s, Body(_, _)) ==
    Given(s, LAMBDA first :
        LET after[i \in 0 .. n] ==
                IF i = 0 THEN first ELSE Given(after[i - 1], LAMBDA t : Body(t, i - 1))
        IN  after[n])

-----------------------------------------------------------------------------
(* Copies and constants *)

psetu(m, r, x) ==
    Loop(PacketLimbs, m, LAMBDA t, i : Put(t, r, i, IF i = 0 THEN x ELSE 0))

psetu2(m, r, x0, x1) == Put(Put(m, r, 0, x0), r, 1, x1)

pcopy(m, r, a, n) == Loop(n * PacketLimbs, m, LAMBDA t, i : Put(t, r, i, Get(t, a, i)))

pzero(m, r, n) == Loop(n * PacketLimbs, m, LAMBDA t, i : Put(t, r, i, 0))

\* memmove: r and a may overlap.
pmove(m, r, a, n) == Loop(n * PacketLimbs, m, LAMBDA t, i : Put(t, r, i, Get(m, a, i)))

-----------------------------------------------------------------------------
(* Length and order *)

\* The limbs of n packets that are not zero.
NonZero(m, a, n) == {i \in 0 .. n * PacketLimbs - 1 : Get(m, a, i) # 0}

pnorm(m, a, n) ==
    LET nz == NonZero(m, a, n)
    IN  IF nz = {} THEN 0 ELSE (Max(nz) + PacketLimbs) \div PacketLimbs

pcmp(m, a, b, n) ==
    LET diff == {i \in 0 .. n * PacketLimbs - 1 : Get(m, a, i) # Get(m, b, i)}
    IN  IF diff = {} THEN 0 ELSE IF Get(m, a, Max(diff)) < Get(m, b, Max(diff)) THEN -1 ELSE 1

LimbClz(x) == LimbBit - 1 - Max({k \in 0 .. LimbBit - 1 : x >= 2 ^ k})
LimbCtz(x) == Max({k \in 0 .. LimbBit - 1 : x % 2 ^ k = 0})

pclz(m, a, n) ==
    LET nz == NonZero(m, a, n)
    IN  IF nz = {} THEN n * PacketBit
        ELSE (n * PacketLimbs - 1 - Max(nz)) * LimbBit + LimbClz(Get(m, a, Max(nz)))

pctz(m, a, n) ==
    LET nz == NonZero(m, a, n)
    IN  IF nz = {} THEN n * PacketBit ELSE Min(nz) * LimbBit + LimbCtz(Get(m, a, Min(nz)))

-----------------------------------------------------------------------------
(* Sums and differences: the memory and the carry *)

\* A slip: a limb that comes out unchanged has no carry.
SumCarry_Less(x, sum, c) == Bit(sum < x)

\* Did x plus something plus the carry c pass the end of the limb?
SumCarry(x, sum, c) == Bit(sum < x \/ (sum = x /\ c = 1))
DiffBorrow(x, diff, c) == Bit(diff > x \/ (diff = x /\ c = 1))

\* Limb i of an operand of n packets, in a loop that runs further.
Operand(m, b, n, i) == IF i < n * PacketLimbs THEN Get(m, b, i) ELSE 0

\* hebi_padd; hebi_padda with a = r
padd(m, r, a, b, an, bn) ==
    Loop(an * PacketLimbs, [m |-> m, c |-> 0], LAMBDA s, i :
        LET x   == Get(s.m, a, i)
            sum == (x + Operand(s.m, b, bn, i) + s.c) % Base
        IN  [m |-> Put(s.m, r, i, sum), c |-> SumCarry(x, sum, s.c)])

\* hebi_psub; hebi_psuba with a = r
psub(m, r, a, b, an, bn) ==
    Loop(an * PacketLimbs, [m |-> m, c |-> 0], LAMBDA s, i :
        LET x    == Get(s.m, a, i)
            diff == (x - Operand(s.m, b, bn, i) - s.c) % Base
        IN  [m |-> Put(s.m, r, i, diff), c |-> DiffBorrow(x, diff, s.c)])

\* hebi_paddu and hebi_psubu: the word is the first carry
paddu(m, r, a, w, n) ==
    Loop(n * PacketLimbs, [m |-> m, c |-> w], LAMBDA s, i :
        LET x   == Get(s.m, a, i)
            sum == (x + s.c) % Base
        IN  [m |-> Put(s.m, r, i, sum), c |-> Bit(sum < x)])

psubu(m, r, a, w, n) ==
    Loop(n * PacketLimbs, [m |-> m, c |-> w], LAMBDA s, i :
        LET x    == Get(s.m, a, i)
            diff == (x - s.c) % Base
        IN  [m |-> Put(s.m, r, i, diff), c |-> Bit(diff > x)])

pneg(m, r, a, n) ==
    Loop(n * PacketLimbs, [m |-> m, c |-> 0], LAMBDA s, i :
        LET diff == (-Get(s.m, a, i) - s.c) % Base
        IN  [m |-> Put(s.m, r, i, diff), c |-> Bit(diff > 0 \/ (diff = 0 /\ s.c = 1))])

-----------------------------------------------------------------------------
(* Products *)

pmulu(m, r, a, w, n) ==
    Loop(n * PacketLimbs, [m |-> m, c |-> 0], LAMBDA s, i :
        LET p == Get(s.m, a, i) * w + s.c
        IN  [m |-> Put(s.m, r, i, p % Base), c |-> p \div Base])

\* Row i of the product of a and b, added to the rows before it.
MulRow(m, r, a, b, n, i) ==
    LET row == Loop(n, [m |-> m, c |-> 0], LAMBDA s, j :
            LET p == Get(s.m, b, j) * Get(m, a, i) + (IF i = 0 THEN 0 ELSE Get(s.m, r, i + j)) + s.c
            IN  [m |-> Put(s.m, r, i + j, p % Base), c |-> p \div Base])
    IN  Put(row.m, r, i + n, row.c)

pmul(m, r, a, b, an, bn) ==
    Loop(an * PacketLimbs, m, LAMBDA t, i : MulRow(t, r, a, b, bn * PacketLimbs, i))

\* The loops of hebi_psqr are those of hebi_pmul.
psqr(m, r, a, n) == pmul(m, r, a, a, n, n)

-----------------------------------------------------------------------------
(* Bits *)

pnot(m, r, a, n) == Loop(n * PacketLimbs, m, LAMBDA t, i : Put(t, r, i, Base - 1 - Get(t, a, i)))

\* What the high part of limb x leaves in the limb above it.
High(x, bits) == IF bits = 0 THEN 0 ELSE Shr(x, LimbBit - bits)

\* A slip: the limbs are moved from the lowest to the highest.
ShlOrder_Up(k, n) == k

\* Limbs move up, the highest first.
ShlOrder(k, n) == n - 1 - k

\* hebi_pshl: the memory and the length of the result, r[k .. n) zeroed and
\* the limbs of a stored from the top down, each in two parts if need be.
pshl(m, r, a, b, n) ==
    LET bits  == b % LimbBit
        limbs == b \div LimbBit
        off   == limbs % PacketLimbs
        nl    == n * PacketLimbs
        rn    == n + DivUp(b, PacketBit)
        to(i) == limbs + i
        top   == Loop(rn * PacketLimbs - limbs - nl, m, LAMBDA t, k : Put(t, r, to(nl + k), 0))
        moved ==
            IF bits = 0
            THEN Loop(nl, top, LAMBDA t, k :
                    LET i == ShlOrder(k, nl) IN Put(t, r, to(i), Get(t, a, i)))
            ELSE LET s == Loop(nl, [m |-> top, q |-> 0], LAMBDA t, k :
                        LET i == ShlOrder(k, nl)
                            x == Get(t.m, a, i)
                        IN  [m |-> Put(t.m, r, to(i + 1), High(x, bits) + t.q), q |-> Shl(x, bits)])
                 IN  Put(s.m, r, to(0), s.q)
        seen  == IF bits # 0 THEN nl - off .. nl
                 ELSE (nl - (IF off = 0 THEN PacketLimbs ELSE off)) .. nl - 1
        full  == \E i \in seen : Get(moved, r, to(i)) # 0
    IN  IF n = 0 THEN [m |-> m, n |-> 0]
        ELSE [m |-> Loop(limbs, moved, LAMBDA t, i : Put(t, r, i, 0)),
              n |-> IF full THEN rn ELSE rn - 1]

\* hebi_pshr: limbs move down, the lowest first; the last packet is filled up
\* and the length is one less if it is zero.
pshr(m, r, a, b, n) ==
    LET bits  == b % LimbBit
        limbs == b \div LimbBit
        k     == n * PacketLimbs - limbs
        pad   == limbs % PacketLimbs
        low(i)  == Get(m, a, limbs + i)
        moved == Loop(k, [m |-> m, q |-> Shr(low(0), bits)], LAMBDA t, i :
            LET x == IF i + 1 < k THEN Get(t.m, a, limbs + i + 1) ELSE 0
                up == IF bits = 0 THEN 0 ELSE Shl(x, LimbBit - bits)
            IN  [m |-> Put(t.m, r, i, up + t.q), q |-> Shr(x, bits)])
        out   == Loop(pad, moved.m, LAMBDA t, i : Put(t, r, k + i, 0))
        rn    == (k + pad) \div PacketLimbs
    IN  IF n * PacketLimbs <= limbs THEN [m |-> m, n |-> 0]
        ELSE [m |-> out,
              n |-> IF \E i \in (k - PacketLimbs + pad) .. k - 1 : Get(out, r, i) # 0
                    THEN rn ELSE rn - 1]

=============================================================================
