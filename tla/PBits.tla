------------------------------- MODULE PBits -------------------------------
(***************************************************************************)
(* The packet kernels that combine limbs bit by bit (src/p/generic).       *)
(***************************************************************************)
EXTENDS Packets

\* The bits that are set in limb x, and the limb with the bits of S set.
BitsOf(x) == {k \in 0 .. LimbBit - 1 : Shr(x, k) % 2 = 1}
LimbOf(S) == Loop(LimbBit, 0, LAMBDA x, k : 2 * x + Bit(LimbBit - 1 - k \in S))

\* The operators &, | and ^ of C.
Combined(op, x, y) ==
    CASE op = "and" -> LimbOf(BitsOf(x) \intersect BitsOf(y))
      [] op = "or"  -> LimbOf(BitsOf(x) \union BitsOf(y))
      [] op = "xor" -> LimbOf((BitsOf(x) \ BitsOf(y)) \union (BitsOf(y) \ BitsOf(x)))

EachLimb(op, m, r, a, b, n) ==
    Loop(n * PacketLimbs, m, LAMBDA t, i : Put(t, r, i, Combined(op, Get(t, a, i), Get(t, b, i))))

pand(m, r, a, b, n) == EachLimb("and", m, r, a, b, n)
por(m, r, a, b, n)  == EachLimb("or", m, r, a, b, n)
pxor(m, r, a, b, n) == EachLimb("xor", m, r, a, b, n)

=============================================================================
