------------------------------ MODULE PRandom -------------------------------
(***************************************************************************)
(* The KISS generator (src/p/prand_kiss.c): the sum of a multiply-with-    *)
(* carry, a congruential and an exclusive-or-shift generator, a limb at a  *)
(* time.  The multiplier and the distances belong to limbs of 64 bits; for *)
(* shorter limbs they are parameters.                                      *)
(***************************************************************************)
EXTENDS PBits, Sequences

CONSTANTS
    MwcShift,       \* 28: a sample is multiplied with 2^28 - 1
    LcgFactor,      \* 6906969069
    LcgTerm,        \* 13579
    XorShifts       \* <<13, 17, 43>>, all of them to the left

ASSUME PRandomAssumption ==
    /\ MwcShift \in 1 .. LimbBit - 1 /\ LcgFactor \in Limb /\ LcgTerm \in Limb
    /\ XorShifts \in Seq(1 .. LimbBit)

xorshift(x) ==
    Loop(Len(XorShifts), x, LAMBDA y, i : Combined("xor", y, Shl(y, XorShifts[i + 1])))

\* A slip: the borrow of the difference is not taken from the carry.
MwcCarry_NoBorrow(old, up) == Shr(old, LimbBit - MwcShift)

MwcCarry(old, up) == Shr(old, LimbBit - MwcShift) - Bit(up < old)

NextIndex(k) == IF k.index + 1 >= Len(k.multi) THEN 0 ELSE k.index + 1

\* The generator after one limb, which is `out`.
KissTurn(k) ==
    LET old == k.multi[k.index + 1]
        up  == (Shl(old, MwcShift) + k.carry) % Base
        mwc == (up - old) % Base
        cng == (k.congruential * LcgFactor + LcgTerm) % Base
        xs  == xorshift(k.xorshift)
    IN  [multi |-> [k.multi EXCEPT ![k.index + 1] = mwc], index |-> NextIndex(k),
         carry |-> MwcCarry(old, up), congruential |-> cng, xorshift |-> xs,
         out |-> (mwc + cng + xs) % Base]

LastBits(x, bits) == IF bits = 0 THEN x ELSE x % 2 ^ bits

\* n limbs drawn and stored at r, and the generator after them.
DrawLimbs(m, r, n, k) ==
    Loop(n, [m |-> m, k |-> k], LAMBDA s, i :
        Given(KissTurn(s.k), LAMBDA t : [m |-> Put(s.m, r, i, t.out), k |-> t]))

\* Zeros in n limbs of r from limb j on.
ZeroLimbs(m, r, j, n) == Loop(n, m, LAMBDA t, i : Put(t, r, j + i, 0))

\* hebi_prand_kiss: n packets at r, of which the low `bits` bits are random, and
\* the generator.
prand_kiss(m, r, n, bits, k) ==
    LET limbs == DivUp(bits, LimbBit)
        drawn == DrawLimbs(m, r, limbs, k)
        cut   == Put(drawn.m, r, limbs - 1, LastBits(Get(drawn.m, r, limbs - 1), bits % LimbBit))
        used  == DivUp(limbs, PacketLimbs)
        last  == ZeroLimbs(cut, r, limbs, used * PacketLimbs - limbs)
    IN  IF limbs = 0 THEN [m |-> pzero(m, r, n), k |-> k]
        ELSE [m |-> pzero(last, Skip(r, used), n - used), k |-> drawn.k]

=============================================================================
