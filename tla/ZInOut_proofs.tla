--------------------------- MODULE ZInOut_proofs ---------------------------
(***************************************************************************)
(* The random numbers of the library are those of the generator's          *)
(* recurrence, for every size of the limbs and every generator, however    *)
(* many are drawn one after the other.                                     *)
(*                                                                         *)
(* The carry of the multiply-with-carry generator stays at or below the    *)
(* multiplier (Kiss); without that a turn of the code would lose a carry.  *)
(* A turn then is the recurrence (TurnExact), a call of hebi_prand_kiss    *)
(* is a trace of turns that stores their limbs (Draws), cuts the last one  *)
(* and fills its packet (KissPackets), and Drawn is what is left of it in  *)
(* the integer.                                                            *)
(***************************************************************************)
EXTENDS ZInOutCalls, Packets_proofs

-----------------------------------------------------------------------------
(* Bits *)

\* A limb put together from its bits is one.
LEMMA LimbOfBits == \A S : LimbOf(S) \in Limb
<1> SUFFICES ASSUME NEW S PROVE LimbOf(S) \in Limb
  OBVIOUS
<1> DEFINE Turn(v, i) == 2 * v + Bit(LimbBit - 1 - i \in S)
           Q(h, i) == Given(h[i - 1], LAMBDA v : Turn(v, i - 1))
           Eq(h) == h = [i \in 0 .. LimbBit |-> IF i = 0 THEN 0 ELSE Q(h, i)]
           F == CHOOSE h : Eq(h)
           B == [i \in 0 .. LimbBit - 1 |-> [v \in Nat |-> Turn(v, i)]]
<1>1. LimbOf(S) = F[LimbBit]
  BY DEF LimbOf, Loop, Given
<1>2. LimbBit \in Nat
  BY PacketsAssumption
<1>3. \A h, i : Q(h, i) = Turn(h[i - 1], i - 1)
  BY DEF Given
<1>4. \A v \in Nat : \A i : Turn(v, i) \in Nat /\ Turn(v, i) =< 2 * v + 1
  BY DEF Bit
<1> HIDE DEF Turn, Q
<1>5. PICK f : Steps(Nat, B, 0, LimbBit, f)
  <2>1. \A i \in 0 .. LimbBit - 1 : B[i] \in [Nat -> Nat]
    BY <1>4
  <2> HIDE DEF B
  <2>2. QED  BY <1>2, <2>1, StepsExist
<1>6. f[0] = 0 /\ f = [i \in 0 .. LimbBit |-> f[i]] /\ \A i \in 0 .. LimbBit - 1 : f[i] \in Nat /\ f[i + 1] = Turn(f[i], i)
  <2>1. \A i \in 0 .. LimbBit - 1 : \A v \in Nat : B[i][v] = Turn(v, i)
    OBVIOUS
  <2> HIDE DEF B
  <2>2. f[0] = 0 /\ f \in [0 .. LimbBit -> Nat] /\ \A i \in 0 .. LimbBit - 1 : f[i + 1] = B[i][f[i]]
    BY <1>5 DEF Steps
  <2>3. \A i \in 0 .. LimbBit - 1 : f[i] \in Nat
    <3>1. \A i \in 0 .. LimbBit - 1 : i \in 0 .. LimbBit
      BY <1>2
    <3>2. QED  BY <2>2, <3>1
  <2>4. QED  BY <2>1, <2>2, <2>3
<1> HIDE DEF B
<1>7. Eq(F)
  <2>1. ASSUME NEW i \in 0 .. LimbBit, i # 0 PROVE f[i] = Q(f, i)
    <3>1. i - 1 \in 0 .. LimbBit - 1 /\ i - 1 + 1 = i
      BY <1>2, <2>1
    <3>2. QED  BY <1>3, <1>6, <3>1
  <2>2. Eq(f)
    BY <1>6, <2>1
  <2>3. QED  BY <2>2
<1> HIDE DEF F
<1>8. F[LimbBit] = f[LimbBit]
  <2>1. F[0] = f[0]
    BY <1>2, <1>6, <1>7
  <2>2. ASSUME NEW i \in 0 .. LimbBit - 1, F[i] = f[i] PROVE F[i + 1] = f[i + 1]
    <3>1. i + 1 \in 0 .. LimbBit /\ i + 1 # 0 /\ i + 1 - 1 = i
      BY <1>2
    <3>2. F[i + 1] = Q(F, i + 1)
      BY <1>7, <3>1
    <3>3. Q(F, i + 1) = Turn(F[i], i)
      BY <1>3, <3>1
    <3>4. QED  BY <1>6, <2>2, <3>2, <3>3
  <2>3. QED  BY <1>2, <2>1, <2>2, SameEnd
<1>9. \A i \in 0 .. LimbBit : f[i] \in Nat /\ f[i] < 2 ^ i
  <2> DEFINE P == [k \in 0 .. LimbBit |-> 2 ^ k]
             G == {i \in Nat : i =< LimbBit => f[i] \in Nat /\ f[i] < P[i]}
  <2>1. \A k \in 0 .. LimbBit : P[k] = 2 ^ k
    OBVIOUS
  <2>2. P[0] = 1 /\ \A k \in 0 .. LimbBit - 1 : P[k] \in Nat /\ P[k + 1] = 2 * P[k]
    <3>1. 0 \in 0 .. LimbBit /\ \A k \in 0 .. LimbBit - 1 : k \in 0 .. LimbBit /\ k + 1 \in 0 .. LimbBit
      BY <1>2
    <3> HIDE DEF P
    <3>2. QED  BY <2>1, <3>1, PowersAssumption
  <2> HIDE DEF P
  <2>3. 0 \in G
    BY <1>6, <2>2
  <2>4. ASSUME NEW i \in Nat, i \in G PROVE i + 1 \in G
    <3>1. SUFFICES ASSUME i + 1 =< LimbBit PROVE f[i + 1] \in Nat /\ f[i + 1] < P[i + 1]
      OBVIOUS
    <3>2. i \in 0 .. LimbBit - 1 /\ f[i] \in Nat /\ f[i] < P[i]
      BY <1>2, <2>4, <3>1
    <3>3. f[i + 1] \in Nat /\ f[i + 1] =< 2 * f[i] + 1
      BY <1>4, <1>6, <3>2
    <3>4. P[i] \in Nat /\ P[i + 1] = 2 * P[i]
      BY <2>2, <3>2
    <3>5. QED  BY <3>2, <3>3, <3>4
  <2> HIDE DEF G
  <2>5. \A i \in Nat : i \in G
    BY <2>3, <2>4, UpInduct
  <2>6. QED  BY <1>2, <2>1, <2>5 DEF G
<1>10. f[LimbBit] \in Nat /\ f[LimbBit] < 2 ^ LimbBit
  BY <1>2, <1>9
<1>11. QED  BY <1>1, <1>8, <1>10, BaseFacts DEF Limb, Base

\* What the exclusive-or-shift generator makes of a limb is a limb.
LEMMA XorshiftLimb ==
    ASSUME NEW x \in Limb
    PROVE  xorshift(x) \in Limb
<1> DEFINE N == Len(XorShifts)
           Turn(y, i) == Combined("xor", y, Shl(y, XorShifts[i + 1]))
           Q(h, i) == Given(h[i - 1], LAMBDA y : Turn(y, i - 1))
           Eq(h) == h = [i \in 0 .. N |-> IF i = 0 THEN x ELSE Q(h, i)]
           F == CHOOSE h : Eq(h)
           B == [i \in 0 .. N - 1 |-> [y \in Limb |-> Turn(y, i)]]
<1>1. xorshift(x) = F[N]
  BY DEF xorshift, Loop, Given
<1>2. N \in Nat
  BY PRandomAssumption
<1>3. \A h, i : Q(h, i) = Turn(h[i - 1], i - 1)
  BY DEF Given
<1>4. \A y, i : Turn(y, i) \in Limb
  BY LimbOfBits DEF Combined
<1> HIDE DEF Turn, Q, N
<1>5. PICK f : Steps(Limb, B, x, N, f)
  <2>1. \A i \in 0 .. N - 1 : B[i] \in [Limb -> Limb]
    BY <1>4
  <2> HIDE DEF B
  <2>2. QED  BY <1>2, <2>1, StepsExist
<1>6. /\ f[0] = x /\ f = [i \in 0 .. N |-> f[i]] /\ \A i \in 0 .. N : f[i] \in Limb
      /\ \A i \in 0 .. N - 1 : f[i + 1] = Turn(f[i], i)
  <2>1. \A i \in 0 .. N - 1 : \A y \in Limb : B[i][y] = Turn(y, i)
    OBVIOUS
  <2> HIDE DEF B
  <2>2. f[0] = x /\ f \in [0 .. N -> Limb] /\ \A i \in 0 .. N - 1 : f[i + 1] = B[i][f[i]]
    BY <1>5 DEF Steps
  <2>3. \A i \in 0 .. N - 1 : f[i] \in Limb
    <3>1. \A i \in 0 .. N - 1 : i \in 0 .. N
      BY <1>2
    <3>2. QED  BY <2>2, <3>1
  <2>4. QED  BY <2>1, <2>2, <2>3
<1> HIDE DEF B
<1>7. Eq(F)
  <2>1. ASSUME NEW i \in 0 .. N, i # 0 PROVE f[i] = Q(f, i)
    <3>1. i - 1 \in 0 .. N - 1 /\ i - 1 + 1 = i
      BY <1>2, <2>1
    <3>2. QED  BY <1>3, <1>6, <3>1
  <2>2. Eq(f)
    BY <1>6, <2>1
  <2>3. QED  BY <2>2
<1> HIDE DEF F
<1>8. F[N] = f[N]
  <2>1. F[0] = f[0]
    BY <1>2, <1>6, <1>7
  <2>2. ASSUME NEW i \in 0 .. N - 1, F[i] = f[i] PROVE F[i + 1] = f[i + 1]
    <3>1. i + 1 \in 0 .. N /\ i + 1 # 0 /\ i + 1 - 1 = i
      BY <1>2
    <3>2. F[i + 1] = Q(F, i + 1)
      BY <1>7, <3>1
    <3>3. Q(F, i + 1) = Turn(F[i], i)
      BY <1>3, <3>1
    <3>4. QED  BY <1>6, <2>2, <3>2, <3>3
  <2>3. QED  BY <1>2, <2>1, <2>2, SameEnd
<1>9. f[N] \in Limb
  BY <1>2, <1>6
<1>10. QED  BY <1>1, <1>8, <1>9

-----------------------------------------------------------------------------
(* A turn of the generator *)

\* Generators as the calls leave them: the multiplier is 2^MwcShift - 1, and the carry
\* is not above it.
Kiss ==
    {g \in [multi : Seq(Limb), index : Nat, carry : 0 .. 2 ^ MwcShift - 1,
            congruential : Limb, xorshift : Limb] : g.index < Len(g.multi)}

\* A generator without and with its last limb.
Five(k) ==
    [multi |-> k.multi, index |-> k.index, carry |-> k.carry,
     congruential |-> k.congruential, xorshift |-> k.xorshift]
WithOut(k, x) ==
    [multi |-> k.multi, index |-> k.index, carry |-> k.carry,
     congruential |-> k.congruential, xorshift |-> k.xorshift, out |-> x]

\* The difference of the code and the carry it keeps are the low and the high limb of
\* the product, with the carry, of a sample and the multiplier.
LEMMA MwcExact ==
    ASSUME NEW x \in Limb, NEW c \in 0 .. 2 ^ MwcShift - 1
    PROVE  LET up  == (Shl(x, MwcShift) + c) % Base
               mwc == (up - x) % Base
               p   == x * (2 ^ MwcShift - 1) + c
           IN  /\ mwc = p % Base /\ MwcCarry(x, up) = p \div Base
               /\ mwc \in Limb /\ p \div Base \in 0 .. 2 ^ MwcShift - 1
<1> DEFINE f == 2 ^ MwcShift
           g == 2 ^ (LimbBit - MwcShift)
           up  == (Shl(x, MwcShift) + c) % Base
           mwc == (up - x) % Base
           p   == x * (f - 1) + c
           h   == x \div g
           l   == x % g
<1>1. f \in Nat \ {0} /\ g \in Nat \ {0} /\ f * g = Base /\ Base \in Nat \ {0}
  <2>1. MwcShift \in 0 .. LimbBit
    BY PRandomAssumption, PacketsAssumption
  <2>2. QED  BY <2>1, PowerSplit, BaseFacts
<1>2. x \in Nat /\ x < Base /\ c \in Nat /\ c < f
  BY <1>1, LimbNumber
<1>3. Shl(x, MwcShift) = (x * f) % Base /\ MwcCarry(x, up) = h - Bit(up < x)
  BY DEF Shl, Shr, MwcCarry
<1> HIDE DEF f, g
<1>4. h \in Nat /\ l \in 0 .. g - 1 /\ x = g * h + l
  BY <1>1, <1>2, DivMod
<1>5. h < f
  <2>1. SUFFICES ASSUME h >= f PROVE FALSE
    BY <1>1, <1>4
  <2>2. g * h >= g * f
    <3> DEFINE d == h - f
    <3>1. d \in Nat /\ h = f + d
      BY <1>1, <1>4, <2>1
    <3> HIDE DEF d
    <3>2. g * (f + d) = g * f + g * d /\ g * d \in Nat /\ g * f \in Nat
      BY <1>1, <3>1
    <3>3. QED  BY <3>1, <3>2
  <2>3. g * f = Base
    BY <1>1
  <2>4. g * h \in Nat
    BY <1>1, <1>4
  <2>5. QED  BY <1>1, <1>2, <1>4, <2>2, <2>3, <2>4
<1> HIDE DEF h, l
<1>6. (x * f) % Base = l * f /\ l * f \in 0 .. Base - f
  <2>1. x * f = (g * h) * f + l * f
    BY <1>1, <1>4
  <2>2. (g * h) * f = Base * h
    BY <1>1, <1>4
  <2>3. l * f \in Nat /\ x * f \in Nat
    BY <1>1, <1>2, <1>4
  <2>4. l * f =< (g - 1) * f
    BY <1>1, <1>4
  <2>5. (g - 1) * f = Base - f
    BY <1>1
  <2>6. l * f \in 0 .. Base - f /\ l * f \in 0 .. Base - 1
    BY <1>1, <2>3, <2>4, <2>5
  <2>7. x * f = Base * h + l * f /\ h \in Int
    BY <1>4, <2>1, <2>2
  <2>8. (x * f) % Base = l * f
    <3> DEFINE a == x * f
               b == l * f
    <3>1. Base \in Nat \ {0} /\ a \in Nat /\ b \in 0 .. Base - 1 /\ h \in Int /\ a = Base * h + b
      BY <1>1, <2>3, <2>6, <2>7
    <3> HIDE DEF a, b
    <3>2. a % Base = b
      BY <3>1, DivIs
    <3>3. QED  BY <3>2 DEF a, b
  <2>9. QED  BY <2>6, <2>8
<1>7. up = l * f + c /\ up \in Limb
  <2>1. l * f + c \in 0 .. Base - 1
    BY <1>1, <1>2, <1>6
  <2>2. (l * f + c) % Base = l * f + c
    BY <1>1, <2>1
  <2>3. QED  BY <1>3, <1>6, <2>1, <2>2 DEF Limb
<1>8. p = h * Base + (up - x)
  <2>1. p = x * f + c - x
    BY <1>1, <1>2
  <2>2. x * f = h * Base + l * f
    <3>1. x * f = (g * h) * f + l * f
      BY <1>1, <1>4
    <3>2. (g * h) * f = h * Base
      BY <1>1, <1>4
    <3>3. QED  BY <3>1, <3>2
  <2>3. QED  BY <1>1, <1>2, <1>4, <1>6, <1>7, <2>1, <2>2
<1> HIDE DEF up, p
<1>9. up \in Nat /\ up < Base
  BY <1>1, <1>7, LimbNumber
<1>10. p \in Nat
  <2>1. x * (f - 1) \in Nat
    BY <1>1, <1>2
  <2>2. QED  BY <1>2, <2>1 DEF p
<1>11. CASE up < x
  <2>1. mwc = up - x + Base /\ mwc \in 0 .. Base - 1
    <3>1. up - x \in -Base .. Base - 1
      BY <1>1, <1>2, <1>9
    <3>2. (up - x) % Base = up - x + Base
      <4> DEFINE d == up - x
      <4>1. d < 0 /\ d \in -Base .. Base - 1
        BY <1>2, <1>9, <1>11, <3>1
      <4> HIDE DEF d
      <4>2. d % Base = d + Base
        BY <1>1, <4>1, WrapDown
      <4>3. QED  BY <4>2 DEF d
    <3>3. QED  BY <1>1, <1>2, <1>9, <1>11, <3>2
  <2>2. p = Base * (h - 1) + mwc
    <3>1. Base * (h - 1) = h * Base - Base
      BY <1>1, <1>4
    <3>2. QED  BY <1>1, <1>2, <1>4, <1>8, <1>9, <2>1, <3>1
  <2> HIDE DEF mwc
  <2>3. p \div Base = h - 1 /\ p % Base = mwc
    <3>1. h - 1 \in Int /\ mwc \in 0 .. Base - 1
      BY <1>4, <2>1
    <3>2. QED  BY <1>1, <1>10, <2>2, <3>1, DivIs
  <2>4. p \div Base \in Nat
    BY <1>1, <1>10, DivMod
  <2>5. MwcCarry(x, up) = h - 1
    BY <1>3, <1>11 DEF Bit
  <2>6. QED  BY <1>1, <1>4, <1>5, <2>1, <2>3, <2>4, <2>5 DEF up, p, mwc, f, Limb
<1>12. CASE ~(up < x)
  <2>1. mwc = up - x /\ mwc \in 0 .. Base - 1
    BY <1>1, <1>2, <1>9, <1>12
  <2>2. p = Base * h + mwc
    BY <1>1, <1>4, <1>8, <2>1
  <2> HIDE DEF mwc
  <2>3. p \div Base = h /\ p % Base = mwc
    <3>1. h \in Int /\ mwc \in 0 .. Base - 1
      BY <1>4, <2>1
    <3>2. QED  BY <1>1, <1>10, <2>2, <3>1, DivIs
  <2>5. MwcCarry(x, up) = h
    BY <1>3, <1>4, <1>12 DEF Bit
  <2>6. QED  BY <1>1, <1>4, <1>5, <2>1, <2>3, <2>5 DEF up, p, mwc, f, Limb
<1>13. QED  BY <1>11, <1>12

\* The index after the last is the first, and the one before it is found again.
LEMMA IndexExact ==
    ASSUME NEW n \in Nat, NEW i \in Nat, i < n
    PROVE  /\ (IF i + 1 >= n THEN 0 ELSE i + 1) = (i + 1) % n
           /\ (i + 1) % n \in Nat /\ (i + 1) % n < n
           /\ (((i + 1) % n) - 1) % n = i
<1>1. n \in Nat \ {0}
  OBVIOUS
<1>2. CASE i + 1 < n
  <2>1. i + 1 \in 0 .. 2 * n - 1 /\ i \in 0 .. 2 * n - 1
    BY <1>2
  <2>2. (i + 1) % n = i + 1 /\ i % n = i
    BY <1>1, <1>2, <2>1, WrapUp
  <2>3. (i + 1) - 1 = i
    OBVIOUS
  <2>4. QED  BY <1>2, <2>2, <2>3
<1>3. CASE i + 1 = n
  <2>1. n \in 0 .. 2 * n - 1 /\ ~(n < n) /\ n - n = 0
    BY <1>1
  <2>2. n % n = 0
    BY <1>1, <2>1, WrapUp
  <2>3. 0 - 1 \in -n .. n - 1
    BY <1>1
  <2>4. (0 - 1) % n = (0 - 1) + n
    BY <1>1, <2>3, WrapDown
  <2>5. QED  BY <1>1, <1>3, <2>2, <2>4
<1>4. QED  BY <1>2, <1>3

\* A turn of the code is the recurrence.
LEMMA TurnExact ==
    ASSUME NEW k, NEW g \in Kiss, Five(k) = g
    PROVE  /\ NextKiss(g) \in Kiss /\ NextKiss(k) = NextKiss(g)
           /\ Output(NextKiss(g)) \in Limb
           /\ KissTurn(k) = WithOut(NextKiss(g), Output(NextKiss(g)))
<1> DEFINE n   == Len(g.multi)
           i   == g.index
           old == g.multi[i + 1]
           up  == (Shl(old, MwcShift) + g.carry) % Base
           mwc == (up - old) % Base
           cng == (g.congruential * LcgFactor + LcgTerm) % Base
           xs  == xorshift(g.xorshift)
           mul == [g.multi EXCEPT ![i + 1] = mwc]
           t   == NextKiss(g)
<1>1. /\ g.multi \in Seq(Limb) /\ i \in Nat /\ i < n /\ g.carry \in 0 .. 2 ^ MwcShift - 1
      /\ g.congruential \in Limb /\ g.xorshift \in Limb
  BY DEF Kiss
<1>2. /\ k.multi = g.multi /\ k.index = g.index /\ k.carry = g.carry
      /\ k.congruential = g.congruential /\ k.xorshift = g.xorshift
  BY DEF Five
<1>3. n \in Nat /\ i + 1 \in 1 .. n /\ g.multi \in [1 .. n -> Limb]
  BY <1>1
<1>4. old \in Limb
  BY <1>3
<1>5. /\ mwc = Sample(g) % Base /\ MwcCarry(old, up) = Sample(g) \div Base
      /\ mwc \in Limb /\ Sample(g) \div Base \in 0 .. 2 ^ MwcShift - 1
  <2> HIDE DEF old
  <2>1. Sample(g) = old * (2 ^ MwcShift - 1) + g.carry
    BY DEF Sample, old
  <2> DEFINE c == g.carry
  <2>2. c \in 0 .. 2 ^ MwcShift - 1
    BY <1>1
  <2> HIDE DEF c
  <2>3. /\ (((Shl(old, MwcShift) + c) % Base) - old) % Base = (old * (2 ^ MwcShift - 1) + c) % Base
        /\ MwcCarry(old, (Shl(old, MwcShift) + c) % Base) = (old * (2 ^ MwcShift - 1) + c) \div Base
        /\ (((Shl(old, MwcShift) + c) % Base) - old) % Base \in Limb
        /\ (old * (2 ^ MwcShift - 1) + c) \div Base \in 0 .. 2 ^ MwcShift - 1
    BY <1>4, <2>2, MwcExact
  <2>4. QED  BY <2>1, <2>3, Zenon DEF c
<1>6. cng \in Limb
  <2>1. LcgFactor \in Nat /\ LcgTerm \in Nat /\ g.congruential \in Nat
    BY <1>1, PRandomAssumption, BaseFacts
  <2>2. g.congruential * LcgFactor + LcgTerm \in Nat
    BY <2>1
  <2>3. QED  BY <2>2, BaseFacts, DivMod DEF Limb
<1>7. xs \in Limb
  BY <1>1, XorshiftLimb
<1>8. mul \in [1 .. n -> Limb] /\ mul[i + 1] = mwc
  <2> HIDE DEF mwc
  <2>1. QED  BY <1>3, <1>5
<1>9. mul \in Seq(Limb) /\ Len(mul) = n
  <2> HIDE DEF mul
  <2>1. QED  BY <1>3, <1>8
<1>10. /\ NextIndex(k) = (i + 1) % n /\ (i + 1) % n \in Nat /\ (i + 1) % n < n
       /\ (((i + 1) % n) - 1) % n = i
  BY <1>1, <1>2, <1>3, IndexExact DEF NextIndex
<1>11. t = [multi |-> mul, index |-> (i + 1) % n, carry |-> Sample(g) \div Base,
            congruential |-> cng, xorshift |-> xs]
  <2> HIDE DEF mwc, cng, xs
  <2>1. t = [multi |-> [g.multi EXCEPT ![i + 1] = Sample(g) % Base], index |-> (i + 1) % n,
             carry |-> Sample(g) \div Base, congruential |-> cng, xorshift |-> xs]
    BY DEF NextKiss, cng, xs
  <2>2. QED  BY <1>5, <2>1
<1>12. NextKiss(k) = t
  BY <1>2 DEF NextKiss, Sample
<1>13. KissTurn(k) = [multi |-> mul, index |-> NextIndex(k), carry |-> MwcCarry(old, up),
                      congruential |-> cng, xorshift |-> xs, out |-> (mwc + cng + xs) % Base]
  BY <1>2 DEF KissTurn
<1> HIDE DEF t, mul, mwc, cng, xs, up, old, n
<1>14. t \in Kiss
  BY <1>5, <1>6, <1>7, <1>9, <1>10, <1>11 DEF Kiss
<1>15. Output(t) = (mwc + cng + xs) % Base
  <2>1. /\ t.multi = mul /\ t.index = (i + 1) % n /\ Len(t.multi) = n
        /\ t.congruential = cng /\ t.xorshift = xs
    BY <1>9, <1>11
  <2>2. t.multi[((t.index - 1) % Len(t.multi)) + 1] = mwc
    BY <1>8, <1>10, <2>1
  <2>3. QED  BY <2>1, <2>2 DEF Output
<1>16. Output(t) \in Limb
  <2>1. mwc + cng + xs \in Nat
    BY <1>5, <1>6, <1>7, BaseFacts
  <2>2. QED  BY <1>15, <2>1, BaseFacts, DivMod DEF Limb
<1>17. KissTurn(k) = WithOut(t, Output(t))
  BY <1>5, <1>10, <1>11, <1>13, <1>15 DEF WithOut
<1>18. QED  BY <1>12, <1>14, <1>16, <1>17 DEF t

-----------------------------------------------------------------------------
(* Limbs drawn *)

\* c are n + 1 generators of the recurrence in a row, x the limbs of their turns.
Recurs(n, g, c, x) ==
    /\ c \in [0 .. n -> Kiss] /\ c[0] = g
    /\ \A i \in 0 .. n - 1 : /\ c[i + 1] = NextKiss(c[i])
                             /\ x[i] = Output(c[i + 1]) /\ x[i] \in Limb

\* The code stores the limbs of the recurrence and ends with its generator.
LEMMA Draws ==
    ASSUME NEW m, IsMemory(m), NEW r, NEW n \in Nat, Area(m, r, n), NEW k, NEW g \in Kiss, Five(k) = g
    PROVE  \E c, x :
              /\ Recurs(n, g, c, x) /\ Wrote(m, DrawLimbs(m, r, n, k).m, r, n, x)
              /\ DrawLimbs(m, r, n, k).k = IF n = 0 THEN k ELSE WithOut(c[n], x[n - 1])
<1> DEFINE D == [i \in 0 .. n - 1 |-> [h \in Kiss |-> NextKiss(h)]]
           S == [i \in 0 .. n - 1 |-> [h \in Kiss |-> Output(NextKiss(h))]]
<1>1. \A h \in Kiss : NextKiss(h) \in Kiss /\ Output(NextKiss(h)) \in Limb
  <2>1. ASSUME NEW h \in Kiss PROVE NextKiss(h) \in Kiss /\ Output(NextKiss(h)) \in Limb
    <3>1. Five(h) = h
      BY DEF Kiss, Five
    <3>2. QED  BY <3>1, TurnExact
  <2>2. QED  BY <2>1
<1>2. \A i \in 0 .. n - 1 : \A h \in Kiss : S[i][h] = Output(NextKiss(h)) /\ D[i][h] = NextKiss(h)
  OBVIOUS
<1> HIDE DEF S, D
<1>3. PICK c, x, v : CarryTrace(m, r, n, Kiss, S, D, g, c, x, v)
  <2>1. CarryTurns(n, Kiss, S, D)
    BY <1>1, <1>2 DEF CarryTurns
  <2>2. QED  BY <2>1, CarryLoop
<1>4. /\ c \in [0 .. n -> Kiss] /\ c[0] = g /\ v[0] = m
      /\ \A i \in 0 .. n - 1 : /\ x[i] = S[i][c[i]] /\ x[i] \in Limb /\ c[i + 1] = D[i][c[i]]
                               /\ v[i + 1] = Put(v[i], r, i, x[i])
      /\ \A i \in 0 .. n : Wrote(m, v[i], r, i, x)
  BY <1>3 DEF CarryTrace
<1>5. ASSUME NEW i \in 0 .. n - 1 PROVE c[i] \in Kiss /\ c[i + 1] = NextKiss(c[i]) /\ x[i] = Output(c[i + 1])
  <2>1. i \in 0 .. n
    OBVIOUS
  <2>2. c[i] \in Kiss
    BY <1>4, <2>1
  <2>3. x[i] = S[i][c[i]] /\ c[i + 1] = D[i][c[i]]
    BY <1>4
  <2>4. S[i][c[i]] = Output(NextKiss(c[i])) /\ D[i][c[i]] = NextKiss(c[i])
    BY <1>2, <2>2
  <2>5. QED  BY <2>2, <2>3, <2>4
<1>6. Recurs(n, g, c, x)
  BY <1>4, <1>5 DEF Recurs
<1> DEFINE Turn(s, i) == [m |-> Put(s.m, r, i, KissTurn(s.k).out), k |-> KissTurn(s.k)]
           Step(s, i) == Given(KissTurn(s.k), LAMBDA t : [m |-> Put(s.m, r, i, t.out), k |-> t])
           s0 == [m |-> m, k |-> k]
           Q(h, i) == Given(h[i - 1], LAMBDA s : Step(s, i - 1))
           Eq(h) == h = [i \in 0 .. n |-> IF i = 0 THEN s0 ELSE Q(h, i)]
           F == CHOOSE h : Eq(h)
           K(i) == IF i = 0 THEN k ELSE WithOut(c[i], x[i - 1])
           f == [i \in 0 .. n |-> [m |-> v[i], k |-> K(i)]]
<1>7. DrawLimbs(m, r, n, k) = F[n]
  BY DEF DrawLimbs, Loop, Given, s0
<1>8. \A h, i : Q(h, i) = Turn(h[i - 1], i - 1)
  <2>1. ASSUME NEW s, NEW i PROVE Step(s, i) = Turn(s, i)
    <3> DEFINE t == KissTurn(s.k)
               Put1(u) == [m |-> Put(s.m, r, i, u.out), k |-> u]
    <3>1. Step(s, i) = CHOOSE y \in {Put1(u) : u \in {t}} : TRUE
      BY DEF Given
    <3>2. Turn(s, i) = Put1(t)
      OBVIOUS
    <3> HIDE DEF Put1, t, Step, Turn
    <3>3. {Put1(u) : u \in {t}} = {Put1(t)}
      OBVIOUS
    <3>4. QED  BY <3>1, <3>2, <3>3
  <2> HIDE DEF Step, Turn
  <2>2. ASSUME NEW h, NEW i PROVE Q(h, i) = Turn(h[i - 1], i - 1)
    <3>1. Q(h, i) = CHOOSE y \in {Step(s, i - 1) : s \in {h[i - 1]}} : TRUE
      BY DEF Given
    <3>2. {Step(s, i - 1) : s \in {h[i - 1]}} = {Step(h[i - 1], i - 1)}
      OBVIOUS
    <3> HIDE DEF Q
    <3>3. QED  BY <2>1, <3>1, <3>2
  <2>3. QED  BY <2>2
<1>9. f[0] = s0 /\ f[n] = [m |-> v[n], k |-> K(n)]
  BY <1>4
<1>10. ASSUME NEW i \in 0 .. n - 1 PROVE f[i + 1] = Turn(f[i], i)
  <2>1. i \in 0 .. n /\ i + 1 \in 0 .. n /\ i + 1 # 0 /\ i + 1 - 1 = i
    OBVIOUS
  <2>2. Five(K(i)) = c[i] /\ c[i] \in Kiss
    <3>1. c[i] \in Kiss
      BY <1>5
    <3>2. CASE i = 0
      BY <1>4, <3>1, <3>2
    <3>3. CASE i # 0
      BY <3>1, <3>3 DEF WithOut, Five, Kiss
    <3>4. QED  BY <3>1, <3>2, <3>3
  <2>3. K(i + 1) = WithOut(c[i + 1], x[i])
    BY <2>1
  <2> HIDE DEF K
  <2>4. KissTurn(K(i)) = WithOut(c[i + 1], x[i])
    BY <1>5, <2>2, TurnExact
  <2>5. KissTurn(K(i)).out = x[i] /\ KissTurn(K(i)) = K(i + 1)
    BY <2>3, <2>4 DEF WithOut
  <2>6. f[i].m = v[i] /\ f[i].k = K(i) /\ f[i + 1] = [m |-> v[i + 1], k |-> K(i + 1)]
    BY <2>1
  <2>7. v[i + 1] = Put(v[i], r, i, x[i])
    BY <1>4
  <2> HIDE DEF f
  <2>8. QED  BY <2>5, <2>6, <2>7
<1> HIDE DEF Turn, Step, f, Q, K, s0
<1>11. Eq(F)
  <2>1. ASSUME NEW i \in 0 .. n, i # 0 PROVE f[i] = Q(f, i)
    <3>1. i - 1 \in 0 .. n - 1 /\ i - 1 + 1 = i
      BY <2>1
    <3>2. QED  BY <1>8, <1>10, <3>1
  <2>2. f = [i \in 0 .. n |-> f[i]]
    BY DEF f
  <2>3. Eq(f)
    BY <1>9, <2>1, <2>2
  <2>4. QED  BY <2>3
<1> HIDE DEF F
<1>12. F[n] = f[n]
  <2>1. F[0] = f[0]
    BY <1>9, <1>11
  <2>2. ASSUME NEW i \in 0 .. n - 1, F[i] = f[i] PROVE F[i + 1] = f[i + 1]
    <3>1. i + 1 \in 0 .. n /\ i + 1 # 0 /\ i + 1 - 1 = i
      OBVIOUS
    <3>2. F[i + 1] = Q(F, i + 1)
      BY <1>11, <3>1
    <3>3. Q(F, i + 1) = Turn(F[i], i)
      BY <1>8, <3>1
    <3>4. QED  BY <1>10, <2>2, <3>2, <3>3
  <2>3. QED  BY <2>1, <2>2, SameEnd
<1>13. DrawLimbs(m, r, n, k).m = v[n] /\ DrawLimbs(m, r, n, k).k = K(n)
  BY <1>7, <1>9, <1>12
<1>14. Wrote(m, v[n], r, n, x)
  BY <1>4
<1>15. QED  BY <1>6, <1>13, <1>14 DEF K

-----------------------------------------------------------------------------
(* Packets that are filled *)

LEMMA DivUpIs ==
    ASSUME NEW k \in Nat \ {0}, NEW b \in Nat
    PROVE  /\ DivUp(b, k) \in Nat /\ DivUp(b, k) * k >= b /\ (DivUp(b, k) - 1) * k < b
           /\ \A u \in Int : u * k >= b /\ (u - 1) * k < b => DivUp(b, k) = u
<1> DEFINE n == b + k - 1
           q == n \div k
<1>1. n \in Nat /\ q = DivUp(b, k)
  BY DEF DivUp
<1> HIDE DEF n
<1>2. q \in Nat /\ n % k \in 0 .. k - 1 /\ n = k * q + (n % k)
  BY <1>1, DivMod
<1>3. k * q = q * k /\ (q - 1) * k = q * k - k /\ q * k \in Nat
  BY <1>2
<1>4. q * k >= b /\ (q - 1) * k < b
  BY <1>2, <1>3 DEF n
<1>5. ASSUME NEW u \in Int, u * k >= b, (u - 1) * k < b PROVE q = u
  <2>1. k * u = u * k /\ (u - 1) * k = u * k - k /\ u * k \in Int
    OBVIOUS
  <2>2. n - k * u \in 0 .. k - 1 /\ n = k * u + (n - k * u)
    BY <1>1, <1>5, <2>1 DEF n
  <2>3. n \div k = u
    BY <1>1, <2>2, DivIs
  <2>4. QED  BY <2>3
<1> HIDE DEF q
<1>6. QED  BY <1>1, <1>2, <1>4, <1>5

\* Packets for limbs for bits are packets for bits.
LEMMA DivUpTwice ==
    ASSUME NEW b \in Nat, NEW k \in Nat \ {0}, NEW n \in Nat \ {0}
    PROVE  DivUp(DivUp(b, k), n) = DivUp(b, k * n)
<1> DEFINE q == DivUp(b, k)
           u == DivUp(q, n)
<1>1. q \in Nat /\ q * k >= b /\ (q - 1) * k < b
  BY DivUpIs
<1> HIDE DEF q
<1>2. u \in Nat /\ u * n >= q /\ (u - 1) * n < q
  BY <1>1, DivUpIs
<1> HIDE DEF u
<1>3. u * (k * n) >= b
  <2> DEFINE d == u * n - q
  <2>1. d \in Nat /\ u * n = q + d
    BY <1>1, <1>2
  <2>2. u * (k * n) = (u * n) * k
    BY <1>2
  <2> HIDE DEF d
  <2>3. (q + d) * k = q * k + d * k /\ d * k \in Nat /\ q * k \in Nat
    BY <1>1, <2>1
  <2>4. QED  BY <1>1, <2>1, <2>2, <2>3
<1>4. (u - 1) * (k * n) < b
  <2> DEFINE w == (u - 1) * n
             d == (q - 1) - w
  <2>1. w \in Int /\ d \in Nat /\ q - 1 = w + d
    BY <1>1, <1>2
  <2>2. (u - 1) * (k * n) = w * k
    BY <1>2
  <2> HIDE DEF w, d
  <2>3. (w + d) * k = w * k + d * k /\ d * k \in Nat /\ w * k \in Int
    BY <2>1
  <2>4. QED  BY <1>1, <2>1, <2>2, <2>3
<1>5. k * n \in Nat \ {0}
  OBVIOUS
<1>6. QED  BY <1>2, <1>3, <1>4, <1>5, DivUpIs DEF u, q

\* Zeros stored from limb j on.
LEMMA ZerosLoop ==
    ASSUME NEW m, IsMemory(m), NEW r, NEW j \in Nat, NEW n \in Nat, r.at \in Nat, Area(m, r, j + n)
    PROVE  LET t == ZeroLimbs(m, r, j, n)
           IN  /\ t \in Memory(m)
               /\ \A b \in DOMAIN m : \A k \in DOMAIN m[b] :
                     t[b][k] = IF b = r.buf /\ k \in r.at + j .. r.at + j + n - 1 THEN 0 ELSE m[b][k]
<1> DEFINE p == [buf |-> r.buf, at |-> r.at + j]
           C == {0}
           S == [i \in 0 .. n - 1 |-> [x \in C |-> 0]]
<1>1. Area(m, p, n) /\ p.at = r.at + j /\ p.buf = r.buf
  <2>1. \A i \in 0 .. n - 1 : j + i \in 0 .. (j + n) - 1 /\ (r.at + j) + i = r.at + (j + i)
    OBVIOUS
  <2>2. QED  BY <2>1 DEF Area
<1>2. PICK c, x, v : CarryTrace(m, p, n, C, S, S, 0, c, x, v)
  <2>1. CarryTurns(n, C, S, S)
    BY BaseFacts DEF CarryTurns
  <2> HIDE DEF p, S
  <2>2. QED  BY <1>1, <2>1, CarryLoop
<1>3. /\ v[0] = m /\ Wrote(m, v[n], p, n, x)
      /\ \A i \in 0 .. n - 1 : x[i] = 0 /\ v[i + 1] = Put(v[i], p, i, 0)
  <2>1. \A i \in 0 .. n - 1 : i \in 0 .. n
    OBVIOUS
  <2>2. \A i \in 0 .. n - 1 : c[i] = 0
    BY <1>2, <2>1 DEF CarryTrace
  <2>3. \A i \in 0 .. n - 1 : x[i] = 0
    BY <1>2, <2>2 DEF CarryTrace
  <2> HIDE DEF p, S
  <2>4. QED  BY <1>2, <2>3 DEF CarryTrace
<1> HIDE DEF S
<1> DEFINE Q(h, i) == Given(h[i - 1], LAMBDA u : Put(u, r, j + (i - 1), 0))
           Eq(h) == h = [i \in 0 .. n |-> IF i = 0 THEN m ELSE Q(h, i)]
           F == CHOOSE h : Eq(h)
           f == [i \in 0 .. n |-> v[i]]
<1>4. ZeroLimbs(m, r, j, n) = F[n]
  BY DEF ZeroLimbs, Loop, Given
<1>5. \A h : \A i \in Nat : Q(h, i + 1) = Put(h[i], p, i, 0)
  <2>1. \A i \in Nat : (i + 1) - 1 = i /\ (r.at + j) + i = r.at + (j + i)
    OBVIOUS
  <2>2. \A h : \A i \in Nat : Q(h, i + 1) = Put(h[i], r, j + i, 0)
    BY <2>1 DEF Given
  <2>3. \A t : \A i \in Nat : Put(t, r, j + i, 0) = Put(t, p, i, 0)
    BY <2>1 DEF Put
  <2> HIDE DEF Q, p
  <2>4. QED  BY <2>2, <2>3
<1> HIDE DEF Q, p
<1>6. f[0] = m /\ f[n] = v[n] /\ \A i \in 0 .. n - 1 : f[i + 1] = Q(f, i + 1)
  <2>1. f[0] = m /\ f[n] = v[n]
    BY <1>3
  <2>2. ASSUME NEW i \in 0 .. n - 1 PROVE f[i + 1] = Q(f, i + 1)
    <3>1. i \in Nat /\ i \in 0 .. n /\ i + 1 \in 0 .. n
      OBVIOUS
    <3>2. f[i] = v[i] /\ f[i + 1] = v[i + 1]
      BY <3>1
    <3> HIDE DEF f
    <3>3. v[i + 1] = Put(v[i], p, i, 0)
      BY <1>3
    <3>4. Q(f, i + 1) = Put(f[i], p, i, 0)
      BY <1>5, <3>1
    <3>5. QED  BY <3>2, <3>3, <3>4
  <2>3. QED  BY <2>1, <2>2
<1>7. Eq(F)
  <2>1. ASSUME NEW i \in 0 .. n, i # 0 PROVE f[i] = Q(f, i)
    <3>1. i - 1 \in 0 .. n - 1 /\ i - 1 + 1 = i
      BY <2>1
    <3>2. QED  BY <1>6, <3>1
  <2>2. f = [i \in 0 .. n |-> f[i]]
    OBVIOUS
  <2> HIDE DEF f
  <2>3. Eq(f)
    BY <1>6, <2>1, <2>2
  <2>4. QED  BY <2>3
<1> HIDE DEF F, f
<1>8. F[n] = f[n]
  <2>1. F[0] = f[0]
    BY <1>6, <1>7
  <2>2. ASSUME NEW i \in 0 .. n - 1, F[i] = f[i] PROVE F[i + 1] = f[i + 1]
    <3>1. i + 1 \in 0 .. n /\ i + 1 # 0 /\ i \in Nat
      OBVIOUS
    <3>2. F[i + 1] = Q(F, i + 1)
      BY <1>7, <3>1
    <3>3. Q(F, i + 1) = Q(f, i + 1)
      BY <1>5, <2>2, <3>1
    <3>4. QED  BY <1>6, <3>2, <3>3
  <2>3. QED  BY <2>1, <2>2, SameEnd
<1>9. v[n] \in Memory(m)
  BY <1>3 DEF Wrote
<1>10. ASSUME NEW b \in DOMAIN m, NEW k \in DOMAIN m[b]
       PROVE  v[n][b][k] = IF b = r.buf /\ k \in r.at + j .. r.at + j + n - 1 THEN 0 ELSE m[b][k]
  <2>1. v[n][b][k] = IF b = r.buf /\ k \in r.at + j .. r.at + j + n - 1 THEN x[k - (r.at + j)] ELSE m[b][k]
    BY <1>1, <1>3 DEF Wrote
  <2>2. k \in r.at + j .. r.at + j + n - 1 => k - (r.at + j) \in 0 .. n - 1
    OBVIOUS
  <2>3. QED  BY <1>3, <2>1, <2>2
<1>11. QED  BY <1>4, <1>6, <1>8, <1>9, <1>10


\* No packets, no zeros.
LEMMA ZeroNone == \A m, p : pzero(m, p, 0) = m
<1> SUFFICES ASSUME NEW m, NEW p PROVE pzero(m, p, 0) = m
  OBVIOUS
<1> DEFINE Q(h, i) == Given(h[i - 1], LAMBDA t : Put(t, p, i - 1, 0))
           Eq(h) == h = [i \in 0 .. 0 |-> IF i = 0 THEN m ELSE Q(h, i)]
           F == CHOOSE h : Eq(h)
<1>1. 0 * PacketLimbs = 0
  BY PacketsAssumption
<1>2. pzero(m, p, 0) = F[0]
  BY <1>1 DEF pzero, Loop, Given
<1> HIDE DEF Q
<1>3. Eq([i \in 0 .. 0 |-> m])
  OBVIOUS
<1>4. Eq(F)
  BY <1>3
<1> HIDE DEF F
<1>5. QED  BY <1>2, <1>4

\* What the code cuts the last limb to are the bits that are left for it.
LastIs(bits, x, n) ==
    /\ n \in Nat /\ n > 0
    /\ LastBits(x, bits % LimbBit) = x % 2 ^ LimbBits(bits, n - 1)
    /\ LastBits(x, bits % LimbBit) \in Limb
    /\ \A i \in 0 .. n - 2 : x % 2 ^ LimbBits(bits, i) = x

LEMMA LastLimb ==
    ASSUME NEW bits \in Nat, bits > 0, NEW x \in Limb, NEW n, n = DivUp(bits, LimbBit)
    PROVE  LastIs(bits, x, n)
<1> DEFINE k == LimbBit
           w == bits - (n - 1) * k
<1>1. k \in Nat \ {0}
  BY PacketsAssumption
<1>2. n \in Nat /\ n * k >= bits /\ (n - 1) * k < bits
  BY <1>1, DivUpIs
<1>3. n > 0
  BY <1>1, <1>2
<1>4. (n - 1) * k \in Nat /\ n * k = (n - 1) * k + k /\ k * n = n * k /\ k * (n - 1) = (n - 1) * k
  BY <1>1, <1>2, <1>3
<1> HIDE DEF k
<1>5. w \in 1 .. k /\ bits = k * (n - 1) + w /\ n - 1 \in Nat
  BY <1>1, <1>2, <1>3, <1>4
<1>6. LimbBits(bits, n - 1) = w /\ \A i \in 0 .. n - 2 : LimbBits(bits, i) = k
  BY <1>2, <1>3 DEF LimbBits, k
<1> HIDE DEF w
<1>7. x \in Nat /\ x < Base /\ Base \in Nat \ {0} /\ 2 ^ k = Base
  BY BaseFacts, LimbNumber DEF Base, k
<1>8. x % Base = x
  BY <1>7, WrapUp
<1>9. CASE w = k
  <2>1. bits = k * n + 0 /\ 0 \in 0 .. k - 1
    BY <1>1, <1>2, <1>4, <1>5, <1>9
  <2>2. bits % k = 0
    BY <1>1, <1>2, <2>1, DivIs
  <2>3. LastBits(x, bits % LimbBit) = x
    BY <2>2 DEF LastBits, k
  <2>4. QED  BY <1>2, <1>3, <1>6, <1>7, <1>8, <1>9, <2>3 DEF LastIs
<1>10. CASE w # k
  <2>1. w \in 0 .. k - 1
    BY <1>1, <1>5, <1>10
  <2>2. bits % k = w
    BY <1>1, <1>5, <2>1, DivIs
  <2>3. LastBits(x, bits % LimbBit) = x % 2 ^ w
    BY <1>1, <1>5, <2>2 DEF LastBits, k
  <2>4. 2 ^ w \in Nat \ {0}
    BY <1>1, <1>5, PowerSplit DEF k
  <2>5. x % 2 ^ w \in Limb
    <3> DEFINE f == 2 ^ w
    <3>1. f \in Nat \ {0}
      BY <2>4
    <3> HIDE DEF f
    <3>2. x \div f \in Nat /\ x % f \in 0 .. f - 1 /\ x = f * (x \div f) + (x % f)
      BY <1>7, <3>1, DivMod
    <3>3. f * (x \div f) \in Nat
      BY <3>1, <3>2
    <3>4. x % f \in 0 .. Base - 1
      BY <1>7, <3>1, <3>2, <3>3
    <3>5. QED  BY <3>4 DEF f, Limb
  <2>6. QED  BY <1>2, <1>3, <1>6, <1>7, <1>8, <2>3, <2>5 DEF LastIs
<1>11. QED  BY <1>9, <1>10

\* hebi_prand_kiss stores the limbs of the recurrence, of which the last is cut, and
\* zeros up to the end of the last packet.
LEMMA KissPackets ==
    ASSUME NEW m, IsMemory(m), NEW r, r.at \in Nat, NEW bits \in Nat, bits > 0, NEW n, n = DivUp(bits, PacketBit),
           Area(m, r, n * PacketLimbs), NEW L, L = DivUp(bits, LimbBit), NEW k, NEW g \in Kiss, Five(k) = g
    PROVE  LET e == prand_kiss(m, r, n, bits, k)
           IN  /\ L \in Nat /\ L > 0 /\ e.m \in Memory(m)
               /\ \E c, x : /\ Recurs(L, g, c, x) /\ e.k = WithOut(c[L], x[L - 1])
                           /\ \A i \in 0 .. n * PacketLimbs - 1 :
                                 Get(e.m, r, i) = IF i < L THEN x[i] % 2 ^ LimbBits(bits, i) ELSE 0
<1> DEFINE N == n * PacketLimbs
           D == DrawLimbs(m, r, L, k)
           y == LastBits(Get(D.m, r, L - 1), bits % LimbBit)
           cut == Put(D.m, r, L - 1, y)
           last == ZeroLimbs(cut, r, L, N - L)
           e == prand_kiss(m, r, n, bits, k)
<1>1. L \in Nat /\ L > 0
  <2>1. LastIs(bits, 0, L)
    BY LastLimb, BaseFacts
  <2>2. QED  BY <2>1 DEF LastIs
<1>2. LimbBit \in Nat \ {0} /\ PacketLimbs \in Nat \ {0}
  BY PacketsAssumption
<1>3. DivUp(L, PacketLimbs) = n /\ n \in Nat /\ N \in Nat /\ N - L \in Nat
  <2>1. DivUp(L, PacketLimbs) = n
    BY <1>2, DivUpTwice DEF PacketBit
  <2>2. n \in Nat /\ n * PacketLimbs >= L
    BY <1>1, <1>2, <2>1, DivUpIs
  <2>3. n * PacketLimbs \in Nat
    BY <1>2, <2>2
  <2>4. QED  BY <1>1, <2>1, <2>2, <2>3
<1>4. e = [m |-> last, k |-> D.k]
  <2>1. n - n = 0 /\ L # 0
    BY <1>1, <1>3
  <2>2. e = [m |-> pzero(last, Skip(r, n), n - n), k |-> D.k]
    <3>1. DivUp(bits, LimbBit) = L
      OBVIOUS
    <3>2. QED  BY <1>3, <2>1, <3>1 DEF prand_kiss
  <2> HIDE DEF last
  <2>3. QED  BY <2>1, <2>2, ZeroNone
<1> HIDE DEF N, e
<1>5. r.buf \in DOMAIN m /\ \A i \in 0 .. N - 1 : r.at + i \in DOMAIN m[r.buf]
  BY DEF Area, N
<1>6. Area(m, r, L)
  <2>1. \A i \in 0 .. L - 1 : i \in 0 .. N - 1
    BY <1>1, <1>3
  <2>2. QED  BY <1>5, <2>1 DEF Area
<1>7. PICK c, x :
        /\ Recurs(L, g, c, x) /\ Wrote(m, D.m, r, L, x)
        /\ D.k = IF L = 0 THEN k ELSE WithOut(c[L], x[L - 1])
  <2> HIDE DEF D
  <2>1. QED  BY <1>1, <1>6, Draws DEF D
<1>8. \A i \in 0 .. L - 1 : x[i] \in Limb
  BY <1>7 DEF Recurs
<1> HIDE DEF D
<1>9. /\ D.m \in Memory(m) /\ \A b \in DOMAIN m : \A j \in DOMAIN m[b] :
            D.m[b][j] = IF b = r.buf /\ j \in r.at .. r.at + L - 1 THEN x[j - r.at] ELSE m[b][j]
  BY <1>7 DEF Wrote
<1>10. \A i \in 0 .. L - 1 : Get(D.m, r, i) = x[i]
  <2>1. ASSUME NEW i \in 0 .. L - 1 PROVE Get(D.m, r, i) = x[i]
    <3>1. i \in 0 .. N - 1 /\ r.at + i \in r.at .. r.at + L - 1 /\ (r.at + i) - r.at = i
      BY <1>1, <1>3
    <3>2. QED  BY <1>5, <1>9, <3>1 DEF Get
  <2>2. QED  BY <2>1
<1>11. L - 1 \in 0 .. L - 1 /\ Get(D.m, r, L - 1) = x[L - 1] /\ x[L - 1] \in Limb
  BY <1>1, <1>8, <1>10
<1>12. /\ y = x[L - 1] % 2 ^ LimbBits(bits, L - 1) /\ y \in Limb
       /\ \A i \in 0 .. L - 2 : x[i] % 2 ^ LimbBits(bits, i) = x[i]
  <2>1. y = x[L - 1] % 2 ^ LimbBits(bits, L - 1) /\ y \in Limb
    <3>1. LastIs(bits, x[L - 1], L)
      BY <1>11, LastLimb
    <3>2. QED  BY <1>11, <3>1 DEF LastIs
  <2>2. ASSUME NEW i \in 0 .. L - 2 PROVE x[i] % 2 ^ LimbBits(bits, i) = x[i]
    <3>1. x[i] \in Limb
      BY <1>1, <1>8
    <3>2. LastIs(bits, x[i], L)
      BY <3>1, LastLimb
    <3>3. QED  BY <3>2 DEF LastIs
  <2>3. QED  BY <2>1, <2>2
<1> HIDE DEF y
<1>13. /\ cut \in Memory(m)
       /\ \A b \in DOMAIN m : \A j \in DOMAIN m[b] :
             cut[b][j] = IF b = r.buf /\ j = r.at + (L - 1) THEN y ELSE D.m[b][j]
  <2>1. L - 1 \in 0 .. N - 1
    BY <1>1, <1>3
  <2>2. r.at + (L - 1) \in DOMAIN m[r.buf]
    BY <1>5, <2>1
  <2>3. QED  BY <1>5, <1>9, <1>12, <2>2, PutMemory
<1> HIDE DEF cut
<1>14. /\ last \in Memory(m)
       /\ \A b \in DOMAIN m : \A j \in DOMAIN m[b] :
             last[b][j] = IF b = r.buf /\ j \in r.at + L .. r.at + L + (N - L) - 1 THEN 0 ELSE cut[b][j]
  <2>1. /\ IsMemory(cut) /\ Memory(cut) = Memory(m) /\ \A p, i : Area(cut, p, i) <=> Area(m, p, i)
        /\ DOMAIN cut = DOMAIN m /\ \A b \in DOMAIN m : DOMAIN cut[b] = DOMAIN m[b]
    BY <1>13, MemoryOf
  <2>2. L + (N - L) = N /\ Area(cut, r, N)
    BY <1>1, <1>3, <2>1 DEF N
  <2>3. Area(cut, r, L + (N - L))
    BY <2>2
  <2>4. /\ last \in Memory(cut)
        /\ \A b \in DOMAIN cut : \A j \in DOMAIN cut[b] :
              last[b][j] = IF b = r.buf /\ j \in r.at + L .. r.at + L + (N - L) - 1 THEN 0 ELSE cut[b][j]
    <3> DEFINE z == N - L
    <3>1. z \in Nat /\ Area(cut, r, L + z)
      BY <1>3, <2>3
    <3> HIDE DEF z
    <3>2. /\ ZeroLimbs(cut, r, L, z) \in Memory(cut)
          /\ \A b \in DOMAIN cut : \A j \in DOMAIN cut[b] :
                ZeroLimbs(cut, r, L, z)[b][j] = IF b = r.buf /\ j \in r.at + L .. r.at + L + z - 1 THEN 0 ELSE cut[b][j]
      BY <1>1, <2>1, <3>1, ZerosLoop
    <3>3. QED  BY <3>2 DEF z
  <2> HIDE DEF last
  <2>5. QED  BY <2>1, <2>4
<1> HIDE DEF last
<1>15. ASSUME NEW i \in 0 .. N - 1
       PROVE  Get(e.m, r, i) = IF i < L THEN x[i] % 2 ^ LimbBits(bits, i) ELSE 0
  <2>1. r.buf \in DOMAIN m /\ r.at + i \in DOMAIN m[r.buf] /\ Get(e.m, r, i) = last[r.buf][r.at + i]
    BY <1>4, <1>5 DEF Get
  <2>2. CASE i >= L
    <3>1. r.at + i \in r.at + L .. r.at + L + (N - L) - 1
      BY <1>1, <1>3, <2>2
    <3>2. last[r.buf][r.at + i] = 0
      BY <1>14, <2>1, <3>1
    <3>3. QED  BY <1>1, <2>1, <2>2, <3>2
  <2>3. CASE i = L - 1
    <3>1. r.at + i \notin r.at + L .. r.at + L + (N - L) - 1 /\ r.at + i = r.at + (L - 1) /\ i < L
      BY <1>1, <1>3, <2>3
    <3>2. last[r.buf][r.at + i] = y
      BY <1>13, <1>14, <2>1, <3>1
    <3>3. QED  BY <1>12, <2>1, <2>3, <3>1, <3>2
  <2>4. CASE i < L - 1
    <3>1. /\ r.at + i \notin r.at + L .. r.at + L + (N - L) - 1 /\ r.at + i # r.at + (L - 1) /\ i < L
          /\ i \in 0 .. L - 2 /\ i \in 0 .. L - 1
      BY <1>1, <1>3, <2>4
    <3>2. last[r.buf][r.at + i] = D.m[r.buf][r.at + i]
      BY <1>13, <1>14, <2>1, <3>1
    <3>3. D.m[r.buf][r.at + i] = x[i]
      BY <1>10, <3>1 DEF Get
    <3>4. QED  BY <1>12, <2>1, <3>1, <3>2, <3>3
  <2>5. QED  BY <1>1, <2>2, <2>3, <2>4
<1>16. e.k = WithOut(c[L], x[L - 1])
  BY <1>1, <1>4, <1>7
<1>17. e.m \in Memory(m)
  BY <1>4, <1>14
<1>18. QED  BY <1>1, <1>7, <1>15, <1>16, <1>17 DEF e, N

-----------------------------------------------------------------------------
(* The integer that is drawn *)

Header == [resv : Nat, used : Nat, sign : {-1, 0, 1}]

\* The machines that numbers are drawn on: w has the packets of its capacity.
Ready(s) ==
    /\ s = [junk |-> s.junk, m |-> s.m, z |-> s.z] /\ s.junk \in Limb
    /\ DOMAIN s.m = Object /\ IsMemory(s.m) /\ s.z \in [Object -> Header]
    /\ DOMAIN s.m["w"] = 0 .. s.z["w"].resv * PacketLimbs - 1

LEMMA GrowReady ==
    ASSUME NEW s, Ready(s), NEW n \in Nat
    PROVE  Ready(Grow(s, "w", n, FALSE)) /\ n =< Grow(s, "w", n, FALSE).z["w"].resv
<1> DEFINE t == Grow(s, "w", n, FALSE)
           new == [i \in 0 .. n * PacketLimbs - 1 |-> s.junk]
           head == [s.z["w"] EXCEPT !.resv = n]
<1>1. "w" \in Object /\ s.z["w"] \in Header /\ s.z["w"].resv \in Nat
  BY DEF Ready, Object, Zvar, Header
<1>2. CASE n =< s.z["w"].resv
  BY <1>2 DEF Grow
<1>3. CASE ~(n =< s.z["w"].resv)
  <2>1. t = [s EXCEPT !.m["w"] = new, !.z["w"].resv = n]
    BY <1>3 DEF Grow
  <2>2. /\ t.junk = s.junk /\ t.m = [s.m EXCEPT !["w"] = new] /\ t.z = [s.z EXCEPT !["w"] = head]
        /\ t = [junk |-> t.junk, m |-> t.m, z |-> t.z]
    BY <2>1 DEF Ready
  <2>3. head \in Header /\ head.resv = n
    BY <1>1 DEF Header
  <2>4. new \in [0 .. n * PacketLimbs - 1 -> Limb] /\ DOMAIN new = 0 .. n * PacketLimbs - 1
    BY DEF Ready
  <2> HIDE DEF t, new, head
  <2>5. t.z \in [Object -> Header] /\ t.z["w"] = head
    BY <1>1, <2>2, <2>3 DEF Ready
  <2>6. /\ DOMAIN t.m = Object /\ t.m["w"] = new
        /\ \A o \in Object \ {"w"} : t.m[o] = s.m[o]
    BY <1>1, <2>2 DEF Ready
  <2>7. \A o \in Object : t.m[o] \in [DOMAIN t.m[o] -> Limb]
    <3>1. \A o \in Object : s.m[o] \in [DOMAIN s.m[o] -> Limb]
      BY DEF Ready, IsMemory, Memory
    <3>2. QED  BY <2>4, <2>6, <3>1
  <2>8. IsMemory(t.m)
    <3>1. t.m = [o \in Object |-> t.m[o]]
      BY <2>2, <2>6 DEF Ready, IsMemory, Memory
    <3>2. t.m \in [Object -> UNION {[DOMAIN t.m[o] -> Limb] : o \in Object}]
      BY <2>7, <3>1
    <3>3. QED  BY <2>6, <2>7, <3>2 DEF IsMemory, Memory
  <2>9. Ready(t)
    BY <2>2, <2>3, <2>4, <2>5, <2>6, <2>8 DEF Ready
  <2>10. n =< t.z["w"].resv
    BY <2>3, <2>5
  <2>11. QED  BY <2>9, <2>10 DEF t
<1>4. QED  BY <1>2, <1>3

LEMMA FinishReady ==
    ASSUME NEW s, Ready(s), NEW m \in Memory(s.m), NEW n \in Nat, NEW sg \in {-1, 0, 1}
    PROVE  LET t == Finish(With(s, m), "w", n, sg)
           IN  Ready(t) /\ t.m = m /\ Used(t, "w") = n
<1> DEFINE t == Finish(With(s, m), "w", n, sg)
           head == [s.z["w"] EXCEPT !.used = n, !.sign = sg]
           u == With(s, m)
<1>1. "w" \in Object /\ s.z["w"] \in Header /\ s.z \in [Object -> Header]
  BY DEF Ready, Object, Zvar, Header
<1>2. head \in Header /\ head.used = n /\ head.resv = s.z["w"].resv
  BY <1>1 DEF Header
<1>3. u.junk = s.junk /\ u.m = m /\ u.z = s.z /\ u = [junk |-> u.junk, m |-> u.m, z |-> u.z]
  BY DEF With, Ready
<1> DEFINE long == [s.z["w"] EXCEPT !.used = n]
           z1   == [s.z EXCEPT !["w"] = long]
           z2   == [s.z EXCEPT !["w"] = head]
<1>4. long \in Header /\ head = [long EXCEPT !.sign = sg]
  BY <1>1 DEF Header
<1>5. z1["w"] = long /\ [z1 EXCEPT !["w"] = [z1["w"] EXCEPT !.sign = sg]] = z2
  <2> HIDE DEF long, head
  <2>1. z1["w"] = long
    BY <1>1
  <2>2. [z1 EXCEPT !["w"] = head] = z2
    BY <1>1
  <2> HIDE DEF z1, z2
  <2>3. QED  BY <1>4, <2>1, <2>2
<1>6. t.junk = u.junk /\ t.m = u.m /\ t.z = z2 /\ t = [junk |-> t.junk, m |-> t.m, z |-> t.z]
  <2> DEFINE v == [u EXCEPT !.z = z1]
  <2>1. t = [v EXCEPT !.z = [v.z EXCEPT !["w"] = [v.z["w"] EXCEPT !.sign = sg]]]
    BY <1>3 DEF Finish
  <2> HIDE DEF u, z1, z2
  <2>2. v.z = z1 /\ v.m = u.m /\ v.junk = u.junk /\ v = [junk |-> v.junk, m |-> v.m, z |-> v.z]
    BY <1>3
  <2> HIDE DEF v, t
  <2>3. QED  BY <1>5, <2>1, <2>2
<1> HIDE DEF t, u, head
<1>7. t.z \in [Object -> Header] /\ t.z["w"] = head
  BY <1>1, <1>2, <1>6
<1>8. IsMemory(m) /\ DOMAIN m = Object /\ DOMAIN m["w"] = DOMAIN s.m["w"]
  BY <1>1, MemoryOf DEF Ready
<1>9. Ready(t)
  BY <1>2, <1>3, <1>6, <1>7, <1>8 DEF Ready
<1>10. QED  BY <1>2, <1>3, <1>6, <1>7, <1>9 DEF t, Used

\* e is a machine with the L limbs of the recurrence, for `bits` bits, in w and
\* nothing above them, and the generator k, which was g, after them.
Draw(e, bits, L, k, g) ==
    /\ L \in Nat /\ Ready(e.s)
    /\ L = 0 => e.k = k
    /\ L > 0 => \E c, x :
          /\ Recurs(L, g, c, x) /\ e.k = WithOut(c[L], x[L - 1])
          /\ \A i \in 0 .. Used(e.s, "w") * PacketLimbs - 1 :
                Get(e.s.m, Ptr("w"), i) = IF i < L THEN x[i] % 2 ^ LimbBits(bits, i) ELSE 0

\* That is what hebi_zrand_kiss makes.
LEMMA Drawn ==
    ASSUME NEW s, Ready(s), NEW bits \in Nat, NEW L, L = DivUp(bits, LimbBit), NEW k, NEW g \in Kiss, Five(k) = g
    PROVE  Draw(zrand_kiss(s, "w", bits, k), bits, L, k, g)
<1> DEFINE n == DivUp(bits, PacketBit)
           t == Grow(s, "w", n, FALSE)
           e == zrand_kiss(s, "w", bits, k)
           d == prand_kiss(t.m, Ptr("w"), n, bits, k)
<1>1. LimbBit \in Nat \ {0} /\ PacketBit \in Nat \ {0} /\ PacketLimbs \in Nat \ {0}
  BY PacketsAssumption DEF PacketBit
<1>2. n \in Nat /\ n * PacketBit >= bits /\ L \in Nat
  BY <1>1, DivUpIs
<1>3. CASE bits = 0
  <2>1. \A j \in Nat \ {0} : DivUp(0, j) = 0
    <3>1. ASSUME NEW j \in Nat \ {0} PROVE DivUp(0, j) = 0
      <4>1. 0 * j >= 0 /\ (0 - 1) * j < 0
        OBVIOUS
      <4>2. QED  BY <4>1, DivUpIs
    <3>2. QED  BY <3>1
  <2>2. n = 0 /\ L = 0
    BY <1>1, <1>3, <2>1
  <2>3. e.s = zsetzero(s, "w") /\ e.k = k
    BY <2>2 DEF zrand_kiss
  <2>4. Ready(zsetzero(s, "w"))
    <3> DEFINE u == zsetzero(s, "w")
               head == [s.z["w"] EXCEPT !.sign = 0]
    <3>1. "w" \in Object /\ s.z["w"] \in Header /\ head \in Header /\ head.resv = s.z["w"].resv
      BY DEF Ready, Object, Zvar, Header
    <3>2. u.junk = s.junk /\ u.m = s.m /\ u.z = [s.z EXCEPT !["w"] = head] /\ u = [junk |-> u.junk, m |-> u.m, z |-> u.z]
      BY DEF Ready, zsetzero
    <3> HIDE DEF u, head
    <3>3. u.z \in [Object -> Header] /\ u.z["w"] = head
      BY <3>1, <3>2 DEF Ready
    <3>4. QED  BY <3>1, <3>2, <3>3 DEF Ready, u
  <2>5. QED  BY <2>2, <2>3, <2>4 DEF Draw
<1>4. CASE bits > 0
  <2>1. n > 0
    BY <1>1, <1>2, <1>4
  <2>2. Ready(t) /\ n =< t.z["w"].resv
    BY <1>2, GrowReady
  <2>3. e = [s |-> Finish(With(t, d.m), "w", n, 1), k |-> d.k]
    <3> DEFINE F(x) == [s |-> Finish(With(t, x.m), "w", n, 1), k |-> x.k]
    <3>1. n # 0
      BY <1>2, <2>1
    <3>2. e = CHOOSE y \in {F(x) : x \in {d}} : TRUE
      BY <3>1 DEF zrand_kiss, Given
    <3> HIDE DEF F
    <3>3. {F(x) : x \in {d}} = {F(d)}
      OBVIOUS
    <3>4. e = F(d)
      BY <3>2, <3>3
    <3>5. QED  BY <3>4 DEF F
  <2> HIDE DEF t, e
  <2>4. IsMemory(t.m) /\ Ptr("w").at = 0 /\ Ptr("w").buf = "w" /\ Area(t.m, Ptr("w"), n * PacketLimbs)
    <3>1. "w" \in Object /\ t.z["w"] \in Header /\ t.z["w"].resv \in Nat
      BY <2>2 DEF Ready, Object, Zvar, Header
    <3>2. /\ IsMemory(t.m) /\ "w" \in DOMAIN t.m
          /\ DOMAIN t.m["w"] = 0 .. t.z["w"].resv * PacketLimbs - 1
      BY <2>2, <3>1 DEF Ready
    <3>3. Ptr("w").at = 0 /\ Ptr("w").buf = "w"
      BY DEF Ptr
    <3>4. n * PacketLimbs =< t.z["w"].resv * PacketLimbs /\ n * PacketLimbs \in Nat
      BY <1>2, <2>2, <3>1, MoreLimbs
    <3>5. t.z["w"].resv * PacketLimbs \in Nat
      BY <3>1, MoreLimbs
    <3>6. \A i \in 0 .. n * PacketLimbs - 1 : 0 + i \in DOMAIN t.m["w"]
      BY <3>2, <3>4, <3>5
    <3> DEFINE N == n * PacketLimbs
               p == Ptr("w")
    <3>7. p.buf = "w" /\ p.at = 0 /\ \A i \in 0 .. N - 1 : 0 + i \in DOMAIN t.m["w"]
      BY <3>3, <3>6
    <3> HIDE DEF N, p
    <3>8. Area(t.m, p, N)
      <4>1. p.buf \in DOMAIN t.m /\ p.at \in Nat
        BY <3>2, <3>7
      <4>2. ASSUME NEW i \in 0 .. N - 1 PROVE p.at + i \in DOMAIN t.m[p.buf]
        BY <3>7
      <4>3. QED  BY <4>1, <4>2 DEF Area
    <3>9. QED  BY <3>2, <3>3, <3>8 DEF N, p
  <2> HIDE DEF n
  <2>5. /\ L > 0 /\ d.m \in Memory(t.m)
        /\ \E c, x : /\ Recurs(L, g, c, x) /\ d.k = WithOut(c[L], x[L - 1])
                    /\ \A i \in 0 .. n * PacketLimbs - 1 :
                          Get(d.m, Ptr("w"), i) = IF i < L THEN x[i] % 2 ^ LimbBits(bits, i) ELSE 0
    <3> DEFINE m == t.m
               r == Ptr("w")
    <3>1. IsMemory(m) /\ r.at \in Nat /\ Area(m, r, n * PacketLimbs)
      BY <2>4
    <3> HIDE DEF m, r, d
    <3>2. /\ L > 0 /\ prand_kiss(m, r, n, bits, k).m \in Memory(m)
          /\ \E c, x : /\ Recurs(L, g, c, x) /\ prand_kiss(m, r, n, bits, k).k = WithOut(c[L], x[L - 1])
                      /\ \A i \in 0 .. n * PacketLimbs - 1 :
                            Get(prand_kiss(m, r, n, bits, k).m, r, i) = IF i < L THEN x[i] % 2 ^ LimbBits(bits, i) ELSE 0
      <4>1. n = DivUp(bits, PacketBit)
        BY DEF n
      <4>2. QED  BY <1>4, <3>1, <4>1, KissPackets
    <3>3. QED  BY <3>2 DEF d, m, r
  <2> HIDE DEF d
  <2>6. Ready(e.s) /\ e.s.m = d.m /\ Used(e.s, "w") = n /\ e.k = d.k
    <3>1. e.s = Finish(With(t, d.m), "w", n, 1) /\ e.k = d.k
      BY <2>3
    <3>2. QED  BY <1>2, <2>2, <2>5, <3>1, FinishReady
  <2>7. QED  BY <1>2, <2>5, <2>6 DEF e, Draw
<1>5. QED  BY <1>3, <1>4

-----------------------------------------------------------------------------
(* Any number of draws *)

\* The generator is one of the recurrence, whatever was done with it.
RandomInv ==
    /\ Five(kiss) \in Kiss
    /\ call.op \in {"none", "zrand"} => Ready(mach)
    /\ RandomExact

\* The recurrence is the same for a generator with its last limb.
LEMMA KissesAre ==
    ASSUME NEW k, NEW g \in Kiss, Five(k) = g, NEW n \in Nat, n > 0, NEW c, NEW x, Recurs(n, g, c, x)
    PROVE  \A i \in 1 .. n : Kisses(n, k)[i] = c[i]
<1> DEFINE Eq(h) == h = [i \in 0 .. n |-> IF i = 0 THEN k ELSE NextKiss(h[i - 1])]
           A == CHOOSE h : Eq(h)
           f == [i \in 0 .. n |-> IF i = 0 THEN k ELSE c[i]]
           G == {i \in Nat : i < n => A[i + 1] = c[i + 1]}
<1>1. Kisses(n, k) = A
  BY DEF Kisses
<1>2. c[0] = g /\ \A i \in 0 .. n - 1 : c[i + 1] = NextKiss(c[i])
  BY DEF Recurs
<1>3. NextKiss(k) = NextKiss(g)
  BY TurnExact
<1>4. f[0] = k /\ \A i \in 1 .. n : f[i] = c[i]
  BY DEF f
<1>5. Eq(f)
  <2>1. ASSUME NEW i \in 0 .. n, i # 0 PROVE f[i] = NextKiss(f[i - 1])
    <3>1. i \in 1 .. n /\ i - 1 \in 0 .. n - 1 /\ (i - 1) + 1 = i
      BY <2>1
    <3>2. f[i] = NextKiss(c[i - 1])
      BY <1>2, <1>4, <3>1
    <3>3. CASE i = 1
      <4>1. i - 1 = 0
        BY <3>3
      <4> HIDE DEF f
      <4>2. QED  BY <1>2, <1>3, <1>4, <3>2, <4>1
    <3>4. CASE i # 1
      <4>1. i - 1 \in 1 .. n
        BY <3>1, <3>4
      <4> HIDE DEF f
      <4>2. QED  BY <1>4, <3>2, <4>1
    <3>5. QED  BY <3>3, <3>4
  <2>2. f = [i \in 0 .. n |-> f[i]]
    BY DEF f
  <2> HIDE DEF f
  <2>3. QED  BY <1>4, <2>1, <2>2
<1>6. Eq(A)
  BY <1>5
<1> HIDE DEF A, f
<1>7. A[0] = k /\ \A i \in 0 .. n - 1 : A[i + 1] = NextKiss(A[i])
  <2>1. A[0] = k
    BY <1>6
  <2>2. ASSUME NEW i \in 0 .. n - 1 PROVE A[i + 1] = NextKiss(A[i])
    <3>1. i + 1 \in 0 .. n /\ i + 1 # 0 /\ (i + 1) - 1 = i
      OBVIOUS
    <3>2. QED  BY <1>6, <3>1
  <2>3. QED  BY <2>1, <2>2
<1>8. 0 \in G
  <2>1. 0 \in 0 .. n - 1
    OBVIOUS
  <2>2. A[0 + 1] = c[0 + 1]
    BY <1>2, <1>3, <1>7, <2>1
  <2>3. QED  BY <2>2
<1>9. ASSUME NEW i \in Nat, i \in G PROVE i + 1 \in G
  <2>1. SUFFICES ASSUME i + 1 < n PROVE A[(i + 1) + 1] = c[(i + 1) + 1]
    OBVIOUS
  <2>2. i + 1 \in 0 .. n - 1 /\ A[i + 1] = c[i + 1]
    BY <1>9, <2>1
  <2>3. QED  BY <1>2, <1>7, <2>2
<1> HIDE DEF G
<1>10. \A i \in Nat : i \in G
  BY <1>8, <1>9, UpInduct
<1>11. ASSUME NEW i \in 1 .. n PROVE A[i] = c[i]
  <2>1. i - 1 \in Nat /\ i - 1 < n /\ (i - 1) + 1 = i
    OBVIOUS
  <2>2. QED  BY <1>10, <2>1 DEF G
<1>12. QED  BY <1>1, <1>11

LEMMA StartsRandom == Init => RandomInv
<1> SUFFICES ASSUME Init PROVE RandomInv
  OBVIOUS
<1>1. kiss \in Generator /\ call.op = "none" /\ Junk \in Limb
  BY BaseFacts DEF Init, Junk, Limb
<1>2. Five(kiss) \in Kiss
  BY <1>1, ZInOutCallsAssumption DEF Five, Kiss
<1>3. PICK v \in Numbers :
          mach = [junk |-> Junk,
                  m |-> [o \in Object |-> IF o = "x" THEN v.limbs ELSE NewBuffer(Bit(o = "w"), Junk)],
                  z |-> [o \in Object |-> IF o = "x" THEN [resv |-> v.used, used |-> v.used, sign |-> v.sign]
                                          ELSE [resv |-> Bit(o = "w"), used |-> 0, sign |-> 0]]]
  BY DEF Init
<1>4. /\ v.sign \in {-1, 0, 1} /\ v.used \in Nat /\ v.limbs \in [0 .. v.used * PacketLimbs - 1 -> Limb]
  BY ZInOutCallsAssumption
<1>5. /\ mach = [junk |-> mach.junk, m |-> mach.m, z |-> mach.z] /\ mach.junk = Junk
      /\ mach.m = [o \in Object |-> IF o = "x" THEN v.limbs ELSE NewBuffer(Bit(o = "w"), Junk)]
      /\ mach.z = [o \in Object |-> IF o = "x" THEN [resv |-> v.used, used |-> v.used, sign |-> v.sign]
                                   ELSE [resv |-> Bit(o = "w"), used |-> 0, sign |-> 0]]
  BY <1>3
<1>6. \A o : Bit(o = "w") \in Nat
  BY DEF Bit
<1>7. mach.z \in [Object -> Header] /\ "w" \in Object
  <2>1. [resv |-> v.used, used |-> v.used, sign |-> v.sign] \in Header
    BY <1>4 DEF Header
  <2>2. \A o : [resv |-> Bit(o = "w"), used |-> 0, sign |-> 0] \in Header
    BY <1>6 DEF Header
  <2>3. "w" \in Object
    BY DEF Object, Zvar
  <2>4. QED  BY <1>5, <2>1, <2>2, <2>3
<1>8. \A k \in Nat : NewBuffer(k, Junk) \in [0 .. k * PacketLimbs - 1 -> Limb]
  BY <1>1 DEF NewBuffer
<1>9. \A o \in Object : mach.m[o] \in [DOMAIN mach.m[o] -> Limb]
  <2>1. ASSUME NEW o \in Object PROVE mach.m[o] \in [DOMAIN mach.m[o] -> Limb]
    <3>1. CASE o = "x"
      <4>1. mach.m[o] = v.limbs
        BY <1>5, <3>1
      <4>2. QED  BY <1>4, <4>1
    <3>2. CASE o # "x"
      <4>1. mach.m[o] = NewBuffer(Bit(o = "w"), Junk)
        BY <1>5, <3>2
      <4>2. QED  BY <1>6, <1>8, <4>1
    <3>3. QED  BY <3>1, <3>2
  <2>2. QED  BY <2>1
<1>10. IsMemory(mach.m) /\ DOMAIN mach.m = Object
  <2>1. DOMAIN mach.m = Object /\ mach.m = [o \in Object |-> mach.m[o]]
    BY <1>5
  <2>2. mach.m \in [Object -> UNION {[DOMAIN mach.m[o] -> Limb] : o \in Object}]
    BY <1>9, <2>1
  <2>3. QED  BY <1>9, <2>1, <2>2 DEF IsMemory, Memory
<1>11. DOMAIN mach.m["w"] = 0 .. mach.z["w"].resv * PacketLimbs - 1
  <2>1. mach.m["w"] = NewBuffer(Bit("w" = "w"), Junk) /\ mach.z["w"].resv = Bit("w" = "w")
    BY <1>5, <1>7
  <2>2. QED  BY <2>1 DEF NewBuffer
<1>12. Ready(mach)
  BY <1>1, <1>5, <1>7, <1>10, <1>11 DEF Ready
<1>13. QED  BY <1>1, <1>2, <1>12 DEF RandomInv, RandomExact, Is

\* One more number.
LEMMA StepDrawing == RandomInv /\ Drawing => RandomInv'
<1> SUFFICES ASSUME RandomInv, Drawing PROVE RandomInv'
  OBVIOUS
<1>1. PICK bits \in RandomBits :
        /\ mach' = zrand_kiss(mach, "w", bits, kiss).s /\ kiss' = zrand_kiss(mach, "w", bits, kiss).k
        /\ call' = [op |-> "zrand", bits |-> bits, was |-> [draws |-> call.was.draws + 1, kiss |-> kiss]]
  BY DEF Drawing
<1> DEFINE g == Five(kiss)
           L == DivUp(bits, LimbBit)
<1>2. bits \in Nat /\ g \in Kiss /\ Ready(mach)
  <2>1. call.op \in {"none", "zrand"}
    BY DEF Drawing, Start
  <2>2. QED  BY <2>1, ZInOutCallsAssumption DEF RandomInv
<1>3. call'.op = "zrand" /\ call'.bits = bits /\ call'.was.kiss = kiss
  BY <1>1
<1> HIDE DEF L
<1>4. /\ L \in Nat /\ Ready(mach')
      /\ L = 0 => kiss' = kiss
      /\ L > 0 => \E c, x :
            /\ Recurs(L, g, c, x) /\ kiss' = WithOut(c[L], x[L - 1])
            /\ \A i \in 0 .. Used(mach', "w") * PacketLimbs - 1 :
                  Get(mach'.m, Ptr("w"), i) = IF i < L THEN x[i] % 2 ^ LimbBits(bits, i) ELSE 0
  <2> HIDE DEF g
  <2>1. Five(kiss) = g
    BY DEF g
  <2>2. L = DivUp(bits, LimbBit)
    BY DEF L
  <2> DEFINE e == zrand_kiss(mach, "w", bits, kiss)
  <2>3. /\ L \in Nat /\ Ready(e.s)
        /\ L = 0 => e.k = kiss
        /\ L > 0 => \E c, x :
              /\ Recurs(L, g, c, x) /\ e.k = WithOut(c[L], x[L - 1])
              /\ \A i \in 0 .. Used(e.s, "w") * PacketLimbs - 1 :
                    Get(e.s.m, Ptr("w"), i) = IF i < L THEN x[i] % 2 ^ LimbBits(bits, i) ELSE 0
    <3> DEFINE s == mach
               k == kiss
    <3>1. Ready(s) /\ Five(k) = g
      BY <1>2, <2>1
    <3> HIDE DEF s, k
    <3>2. Draw(zrand_kiss(s, "w", bits, k), bits, L, k, g)
      BY <1>2, <2>2, <3>1, Drawn
    <3>3. QED  BY <3>2 DEF Draw, s, k
  <2>4. mach' = e.s /\ kiss' = e.k
    BY <1>1
  <2> HIDE DEF e
  <2>5. QED  BY <2>3, <2>4
<1>5. (call.op \in {"none", "zrand"})' => Ready(mach)'
  BY <1>4
<1>6. RandomExact' <=>
        /\ \A f \in DOMAIN kiss' \ {"out"} : kiss'[f] = Kisses(L, kiss)[L][f]
        /\ \A i \in 0 .. Used(mach', "w") * PacketLimbs - 1 :
              L > 0 => Get(mach'.m, Ptr("w"), i)
                       = (IF i < L THEN Output(Kisses(L, kiss)[i + 1]) % 2 ^ LimbBits(bits, i) ELSE 0)
  BY <1>3 DEF RandomExact, Is, L
<1>7. CASE L = 0
  <2>1. Kisses(L, kiss)[L] = kiss
    <3> DEFINE Eq(h) == h = [i \in 0 .. 0 |-> IF i = 0 THEN kiss ELSE NextKiss(h[i - 1])]
               A == CHOOSE h : Eq(h)
    <3>1. Kisses(L, kiss)[L] = A[0]
      BY <1>7 DEF Kisses
    <3>2. Eq([i \in 0 .. 0 |-> kiss])
      OBVIOUS
    <3>3. Eq(A)
      BY <3>2
    <3> HIDE DEF A
    <3>4. QED  BY <3>1, <3>3
  <2>2. kiss' = kiss /\ ~(L > 0)
    BY <1>4, <1>7
  <2>3. RandomExact'
    BY <1>6, <2>1, <2>2
  <2>4. (Five(kiss) \in Kiss)'
    BY <1>2, <2>2
  <2>5. QED  BY <1>5, <2>3, <2>4 DEF RandomInv
<1>8. CASE L > 0
  <2>1. PICK c, x :
            /\ Recurs(L, g, c, x) /\ kiss' = WithOut(c[L], x[L - 1])
            /\ \A i \in 0 .. Used(mach', "w") * PacketLimbs - 1 :
                  Get(mach'.m, Ptr("w"), i) = IF i < L THEN x[i] % 2 ^ LimbBits(bits, i) ELSE 0
    BY <1>4, <1>8
  <2>2. \A i \in 1 .. L : Kisses(L, kiss)[i] = c[i]
    <3> HIDE DEF g
    <3>1. Five(kiss) = g
      BY DEF g
    <3>2. QED  BY <1>2, <1>4, <1>8, <2>1, <3>1, KissesAre
  <2>3. c[L] \in Kiss /\ \A i \in 0 .. L - 1 : x[i] = Output(c[i + 1])
    <3>1. L \in 0 .. L
      BY <1>4
    <3>2. QED  BY <2>1, <3>1 DEF Recurs
  <2>4. \A f \in DOMAIN kiss' \ {"out"} : kiss'[f] = Kisses(L, kiss)[L][f]
    <3>1. Kisses(L, kiss)[L] = c[L]
      BY <1>4, <1>8, <2>2
    <3>2. \A f \in DOMAIN WithOut(c[L], x[L - 1]) \ {"out"} : WithOut(c[L], x[L - 1])[f] = c[L][f]
      BY DEF WithOut
    <3>3. QED  BY <2>1, <3>1, <3>2
  <2>5. ASSUME NEW i \in 0 .. Used(mach', "w") * PacketLimbs - 1
        PROVE  Get(mach'.m, Ptr("w"), i) = (IF i < L THEN Output(Kisses(L, kiss)[i + 1]) % 2 ^ LimbBits(bits, i) ELSE 0)
    <3>1. Get(mach'.m, Ptr("w"), i) = IF i < L THEN x[i] % 2 ^ LimbBits(bits, i) ELSE 0
      BY <2>1
    <3>2. CASE i < L
      <4>1. i \in 0 .. L - 1 /\ i + 1 \in 1 .. L
        BY <1>4, <3>2
      <4>2. x[i] = Output(Kisses(L, kiss)[i + 1])
        BY <2>2, <2>3, <4>1
      <4>3. QED  BY <3>1, <3>2, <4>2
    <3>3. QED  BY <3>1, <3>2
  <2>6. RandomExact'
    BY <1>6, <2>4, <2>5
  <2>7. (Five(kiss) \in Kiss)'
    <3>1. Five(kiss') = c[L]
      BY <2>1, <2>3 DEF WithOut, Five, Kiss
    <3>2. QED  BY <2>3, <3>1
  <2>8. QED  BY <1>5, <2>6, <2>7 DEF RandomInv
<1>9. QED  BY <1>4, <1>7, <1>8

\* The other calls leave the generator alone.
LEMMA StepOthers ==
    RandomInv /\ (Reading \/ ReadingPackets \/ Writing \/ ReadingBack \/ Measuring) => RandomInv'
<1> SUFFICES ASSUME RandomInv, Reading \/ ReadingPackets \/ Writing \/ ReadingBack \/ Measuring
             PROVE  RandomInv'
  OBVIOUS
<1>1. kiss' = kiss
  BY DEF Reading, ReadingPackets, Writing, ReadingBack, Measuring
<1>2. call'.op \notin {"none", "zrand"}
  <2>1. CASE Reading
    BY <2>1 DEF Reading
  <2>2. CASE ReadingPackets
    <3>1. PICK t \in Text, n \in 1 .. MaxLength + 1 :
             \E wanted, ret, err : call' = [op |-> "psetstr", text |-> t, room |-> n, wanted |-> wanted,
                                           ret |-> ret, err |-> err, was |-> mach]
      BY <2>2 DEF ReadingPackets
    <3>2. QED  BY <3>1
  <2>3. CASE Writing
    BY <2>3 DEF Writing
  <2>4. CASE ReadingBack
    BY <2>4 DEF ReadingBack
  <2>5. CASE Measuring
    BY <2>5 DEF Measuring
  <2>6. QED  BY <2>1, <2>2, <2>3, <2>4, <2>5
<1>3. QED  BY <1>1, <1>2 DEF RandomInv, RandomExact, Is

\* The generator stays one of the recurrence, and what was drawn last is its limbs.
THEOREM RandomInvariance == Spec => []RandomInv
<1>1. Init => RandomInv
  BY StartsRandom
<1>2. RandomInv /\ [Next]_vars => RandomInv'
  <2> SUFFICES ASSUME RandomInv, [Next]_vars PROVE RandomInv'
    OBVIOUS
  <2>1. CASE Drawing
    BY <2>1, StepDrawing
  <2>2. CASE Reading \/ ReadingPackets \/ Writing \/ ReadingBack \/ Measuring
    BY <2>2, StepOthers
  <2>3. CASE UNCHANGED vars
    BY <2>3 DEF RandomInv, RandomExact, Is, vars
  <2>4. QED  BY <2>1, <2>2, <2>3 DEF Next
<1>3. QED  BY <1>1, <1>2, PTL DEF Spec

\* The limbs that hebi_zrand_kiss leaves are those of the generator's recurrence, one
\* after the other within a call and from call to call, cut to the bits asked for, for
\* every size of the limbs, every generator and any number of draws.
THEOREM RandomsExact == Spec => []RandomExact
<1>1. RandomInv => RandomExact
  BY DEF RandomInv
<1>2. QED  BY <1>1, RandomInvariance, PTL

=============================================================================
