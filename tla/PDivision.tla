----------------------------- MODULE PDivision -----------------------------
(***************************************************************************)
(* Division of packet sequences by a word, by two limbs, and by more       *)
(* (src/p/pdivrem.c and src/p/generic/pdivrem*.c), all with a reciprocal   *)
(* of the divisor's top limbs instead of a machine division.  Arithmetic   *)
(* on limbs wraps.                                                         *)
(***************************************************************************)
EXTENDS Packets

Wrap(x)       == x % Base
Pair(hi, lo)  == hi * Base + lo
Wrap2(x)      == x % (Base * Base)
Hi(x)         == x \div Base
Lo(x)         == x % Base

\* hebi_recipu64_2x1__ by what it returns for a normalised d: its table and its
\* Newton steps are made for one limb size.
recipu2x1(d) == (Base * Base - 1) \div d - Base

\* RECIPU_3X2
recipu3x2(d1, d0) ==
    LET v0 == recipu2x1(d1)
        p0 == Wrap(v0 * d1 + d0)
        fix == p0 < d0
        two == fix /\ p0 >= d1
        v1 == Wrap(v0 - Bit(fix) - Bit(two))
        p1 == Wrap(p0 - d1 * (Bit(fix) + Bit(two)))
        t  == v1 * d0
        p2 == Wrap(p1 + Hi(t))
    IN  IF p2 >= Hi(t) THEN v1
        ELSE Wrap(v1 - 1 - Bit(p2 > d1 \/ (p2 = d1 /\ Lo(t) >= d0)))

\* An estimate that may be one too small.
LastStep(s, d) == IF s.r >= d THEN [q |-> Wrap(s.q + 1), r |-> s.r - d] ELSE s

\* DIVREMRU_2X1
divremru2x1(u1, u0, d, v) ==
    Given(Wrap2(u1 * v + Pair(u1, u0)), LAMBDA p :
    Given(Wrap(u0 - (Hi(p) + 1) * d), LAMBDA r1 :
        LastStep(IF r1 > Lo(p) THEN [q |-> Hi(p), r |-> Wrap(r1 + d)]
                 ELSE [q |-> Wrap(Hi(p) + 1), r |-> r1], d)))

\* DIVREMRU_3X2: the remainder has two limbs
divremru3x2(u2, u1, u0, d1, d0, v) ==
    Given(Wrap2(u2 * v + Pair(u2, u1)), LAMBDA p :
    Given(Wrap2(Pair(Wrap(u1 - Hi(p) * d1), u0) - Hi(p) * d0 - Pair(d1, d0)), LAMBDA r1 :
        LastStep(IF Hi(r1) >= Lo(p) THEN [q |-> Hi(p), r |-> Wrap2(r1 + Pair(d1, d0))]
                 ELSE [q |-> Wrap(Hi(p) + 1), r |-> r1], Pair(d1, d0))))

\* Two neighbouring limbs seen `bits` higher.
Joined(a1, a0, bits) == Shl(a1, bits) + High(a0, bits)

\* PDIVREMRU_2X1 on n limbs: the memory and the remainder.  A high limb that
\* gives no quotient is skipped.
pdivremru2x1(m, q, a, n, bits, d, v) ==
    LET a1   == Get(m, a, n - 1)
        skip == High(a1, bits) = 0 /\ Shl(a1, bits) < d
        k    == IF skip THEN n - 1 ELSE n
        m0   == IF skip THEN Put(m, q, n - 1, 0) ELSE m
        Turn(s, x, i, a0) ==
            Given(divremru2x1(s.u, x, d, v), LAMBDA e : [m |-> Put(s.m, q, i, e.q), u |-> e.r, a |-> a0])
        Shifted ==
            Loop(k - 1,
                [m |-> m0, a |-> Get(m0, a, k - 1),
                 u |-> IF skip THEN Joined(a1, Get(m0, a, k - 1), bits) ELSE High(a1, bits)],
                LAMBDA s, j : Turn(s, Joined(s.a, Get(s.m, a, k - 2 - j), bits), k - 1 - j, Get(s.m, a, k - 2 - j)))
        Plain ==
            Loop(n - 1,
                [m |-> Put(m, q, n - 1, Bit(a1 >= d)), u |-> IF a1 >= d THEN a1 - d ELSE a1, a |-> 0],
                LAMBDA s, j : Turn(s, Get(s.m, a, n - 2 - j), n - 2 - j, 0))
    IN  Given(IF bits = 0 THEN Plain ELSE Given(Shifted, LAMBDA s : Turn(s, Shl(s.a, bits), 0, 0)),
              LAMBDA last : [m |-> last.m, r |-> Shr(last.u, bits)])

\* PDIVREMRU_3X2 on n limbs: the remainder has two limbs
pdivremru3x2(m, q, a, n, bits, d1, d0, v) ==
    LET a1 == Get(m, a, n - 1)
        a0 == Get(m, a, n - 2)
        over == Pair(a1, a0) >= Pair(d1, d0)
        Turn(s, x, i, low) ==
            Given(divremru3x2(Hi(s.u), Lo(s.u), x, d1, d0, v), LAMBDA e :
                [m |-> Put(s.m, q, i, e.q), u |-> e.r, a |-> low])
        Shifted ==
            Loop(n - 2,
                [m |-> Put(m, q, n - 1, 0), u |-> Pair(High(a1, bits), Joined(a1, a0, bits)), a |-> a0],
                LAMBDA s, j : Turn(s, Joined(s.a, Get(s.m, a, n - 3 - j), bits), n - 2 - j, Get(s.m, a, n - 3 - j)))
        Plain ==
            Loop(n - 2,
                [m |-> Put(Put(m, q, n - 1, 0), q, n - 2, Bit(over)),
                 u |-> Pair(a1, a0) - (IF over THEN Pair(d1, d0) ELSE 0), a |-> 0],
                LAMBDA s, j : Turn(s, Get(s.m, a, n - 3 - j), n - 3 - j, 0))
    IN  Given(IF bits = 0 THEN Plain ELSE Given(Shifted, LAMBDA s : Turn(s, Shl(s.a, bits), 0, 0)),
              LAMBDA last : [m |-> last.m, r |-> last.u \div 2 ^ bits])

-----------------------------------------------------------------------------
(* Division by three limbs or more *)

\* The estimate of a quotient limb and what it leaves of the top of u, where the
\* limb below is x.  If the top equals that of d the estimate is the largest.
Estimate(u1, u0, x, d1, d0, v) ==
    LET e    == divremru3x2(u1, u0, x, d1, d0, v)
        low  == Wrap(u0 + d0)
        over == Wrap(d0 - Bit(d0 > 0) - Bit(d0 > low))
    IN  IF u1 < d1 \/ u0 < d0 THEN [q |-> e.q, u1 |-> Hi(e.r), u0 |-> Lo(e.r)]
        ELSE [q |-> Base - 1, u1 |-> Wrap(u1 + d1 - over), u0 |-> low]

\* A slip: the borrow of a difference is not passed on.
MulSub_NoBorrow(m, u, d, q, from, n) ==
    Loop(n - from, [m |-> m, c |-> 0], LAMBDA s, k :
        LET i  == from + k
            p  == q * Get(s.m, d, i)
            p0 == Wrap(Lo(p) + s.c)
        IN  [m |-> Put(s.m, u, i, Wrap(Get(s.m, u, i) - p0)), c |-> Hi(p) + Bit(p0 < s.c)])

\* Subtract q times the limbs `from` .. n - 1 of d from u: memory and borrow.
MulSub(m, u, d, q, from, n) ==
    Loop(n - from, [m |-> m, c |-> 0], LAMBDA s, k :
        LET i  == from + k
            p  == q * Get(s.m, d, i)
            p0 == Wrap(Lo(p) + s.c)
            x  == Get(s.m, u, i)
            y  == Wrap(x - p0)
        IN  [m |-> Put(s.m, u, i, y), c |-> Hi(p) + Bit(p0 < s.c) + Bit(x < y)])

\* Add the limbs `from` .. n - 1 of d back to u: memory and carry.
AddBack(m, u, d, from, n) ==
    Loop(n - from, [m |-> m, c |-> 0], LAMBDA s, k :
        LET i   == from + k
            x   == Get(s.m, u, i)
            sum == Wrap(x + Get(s.m, d, i) + s.c)
        IN  [m |-> Put(s.m, u, i, sum), c |-> SumCarry(x, sum, s.c)])

Limbs(p, j) == [p EXCEPT !.at = @ + j]

\* One turn of the loop of PDIVREMR: quotient limb j, where d has n + 2 limbs.
\* `rare` is history: was the largest estimate taken, or one that was corrected
\* before the last turn?
DivTurn(s, q, u, d, n, limbs, v, j) ==
    LET d1   == Get(s.m, d, n + 1)
        d0   == Get(s.m, d, n)
        rare == s.rare \/ ~(s.u1 < d1 \/ s.u0 < d0)
    IN  Given(Estimate(s.u1, s.u0, Get(s.m, u, j + n), d1, d0, v), LAMBDA e :
        Given(MulSub(s.m, Limbs(u, j), d, e.q, limbs, n), LAMBDA sub :
            LET u0 == Wrap(e.u0 - sub.c)
                c0 == Bit(e.u0 < sub.c)
                u1 == Wrap(e.u1 - c0)
                m1 == Put(sub.m, u, j + n, u0)
            IN  IF e.u1 >= c0
                THEN [m |-> Put(m1, q, j, e.q), u1 |-> u1, u0 |-> u0, rare |-> rare]
                ELSE Given(AddBack(m1, Limbs(u, j), d, limbs, n + 1), LAMBDA back :
                        [m |-> Put(back.m, q, j, e.q - 1), u1 |-> Wrap(u1 + d1 + back.c), u0 |-> u0,
                         rare |-> rare \/ j > 0])))

\* PDIVREMR: quotient of un packets in q and a top limb, remainder in u
pdivremr(m, q, u, d, un, dn, limbs, v) ==
    LET k    == un * PacketLimbs
        n    == dn * PacketLimbs - 2
        top  == Skip(u, un)
        over == pcmp(m, top, d, dn) >= 0
    IN  Given(IF over THEN psub(m, top, top, d, dn, dn).m ELSE m, LAMBDA m0 :
        Given(Loop(k, [m |-> m0, u1 |-> Get(m0, u, k + n + 1), u0 |-> Get(m0, u, k + n), rare |-> FALSE],
                   LAMBDA s, i : DivTurn(s, q, u, d, n, limbs, v, k - 1 - i)), LAMBDA end :
            [m |-> Put(end.m, u, n + 1, end.u1), qh |-> Bit(over), rare |-> end.rare]))

\* The three ways of hebi_pdivrem: memory, packets of the quotient before those
\* that are zero are dropped, and packets of the remainder, in r unless it is null.
\* With a divisor of three limbs or more u and d are copies at w, shifted.
DivLarge(m, q, r, w, a, b, an, bn, bits) ==
    Given(pshl(m, w, a, bits, an), LAMBDA u :
    Given(pshl(u.m, Skip(w, u.n), b, bits, bn), LAMBDA d :
        LET dp == Skip(w, u.n)
            dl == d.n * PacketLimbs
            v  == recipu3x2(Get(d.m, dp, dl - 1), Get(d.m, dp, dl - 2))
        IN  Given(pdivremr(d.m, q, w, dp, u.n - d.n, d.n, bits \div LimbBit, v), LAMBDA e :
            Given(IF e.qh = 0 THEN e.m ELSE psetu(e.m, Skip(q, u.n - d.n), e.qh), LAMBDA mq :
            Given(IF r.buf = "null" THEN [m |-> mq, n |-> 0]
                  ELSE pshr(mq, r, w, bits, pnorm(mq, w, d.n)), LAMBDA s :
                [m |-> s.m, k |-> u.n - d.n + e.qh, rn |-> s.n, rare |-> e.rare])))))

DivTwo(m, q, r, a, b, an, bits) ==
    LET d1 == Joined(Get(m, b, 1), Get(m, b, 0), bits)
        d0 == Shl(Get(m, b, 0), bits)
    IN  Given(pdivremru3x2(m, q, a, an * PacketLimbs, bits, d1, d0, recipu3x2(d1, d0)), LAMBDA e :
            [m |-> IF e.r = 0 \/ r.buf = "null" THEN e.m ELSE psetu2(e.m, r, Lo(e.r), Hi(e.r)),
             k |-> an, rn |-> Bit(e.r # 0), rare |-> FALSE])

DivOne(m, q, r, a, b, an, bits) ==
    LET d0 == Shl(Get(m, b, 0), bits)
    IN  Given(pdivremru2x1(m, q, a, an * PacketLimbs, bits, d0, recipu2x1(d0)), LAMBDA e :
            [m |-> IF e.r = 0 \/ r.buf = "null" THEN e.m ELSE psetu(e.m, r, e.r),
             k |-> an, rn |-> Bit(e.r # 0), rare |-> FALSE])

\* hebi_pdivrem: quotient in q, remainder in r, work in w
pdivrem(m, q, r, w, a, b, an, bn) ==
    LET bits == pclz(m, b, bn) % PacketBit
        n    == bn * PacketLimbs - bits \div LimbBit
    IN  Given(IF n > 2 THEN DivLarge(m, q, r, w, a, b, an, bn, bits)
              ELSE IF n = 2 THEN DivTwo(m, q, r, a, b, an, bits % LimbBit)
              ELSE DivOne(m, q, r, a, b, an, bits % LimbBit), LAMBDA end :
            [m |-> end.m, qn |-> IF end.k = 0 THEN 0 ELSE pnorm(end.m, q, end.k),
             rn |-> end.rn, rare |-> end.rare])

\* hebi_pdivremu: quotient and remainder of a division by a word
pdivremu(m, q, a, w, n) ==
    LET bits == LimbClz(w)
        d    == Shl(w, bits)
    IN  pdivremru2x1(m, q, a, n * PacketLimbs, bits, d, recipu2x1(d))

=============================================================================
