------------------------------- MODULE ZArith -------------------------------
(***************************************************************************)
(* The rest of the arithmetic of the integers (src/z): bits, shifts,       *)
(* products of any length and division, on the machine of ZSums.           *)
(***************************************************************************)
EXTENDS Karatsuba, PBits, ZProducts

-----------------------------------------------------------------------------
(* Bits: of the magnitudes *)

zand(s, r, a, b) ==
    LET n == Min({Used(s, a), Used(s, b)})
        t == IF r \in {a, b} THEN s ELSE Grow(s, r, n, FALSE)
        other == IF r = a THEN b ELSE a
        m == IF r \in {a, b} THEN pand(t.m, Ptr(r), Ptr(r), Ptr(other), n)
             ELSE pand(t.m, Ptr(r), Ptr(a), Ptr(b), n)
    IN  IF Sign(s, a) = 0 \/ Sign(s, b) = 0 THEN zsetzero(s, r)
        ELSE Normed(t, m, r, n, IF Sign(s, a) < 0 /\ Sign(s, b) < 0 THEN -1 ELSE 1)

\* What hebi_zor and hebi_zxor do after their shortcuts: a kernel (por, or
\* pxor if exclusive) on the packets both numbers have, and a copy of those only
\* the longer one has.
Merge(s, r, a, b, exclusive) ==
    LET l  == IF Used(s, a) < Used(s, b) THEN b ELSE a
        k  == IF l = a THEN b ELSE a
        n  == Used(s, k)
        t  == Grow(s, r, Used(s, l), r = k)
        m  == IF exclusive THEN pxor(t.m, Ptr(r), Ptr(l), Ptr(k), n)
              ELSE por(t.m, Ptr(r), Ptr(l), Ptr(k), n)
    IN  With(t, pcopy(m, Skip(Ptr(r), n), Skip(Ptr(l), n), Used(s, l) - n))

zor(s, r, a, b) ==
    IF a = b \/ Sign(s, b) = 0 THEN zset(s, r, a)
    ELSE IF Sign(s, a) = 0 THEN zset(s, r, b)
    ELSE Finish(Merge(s, r, a, b, FALSE), r, Larger(Used(s, a), Used(s, b)),
                IF Sign(s, a) < 0 \/ Sign(s, b) < 0 THEN -1 ELSE 1)

\* A slip: the length of the result is not looked at again.
XorLength_Longest(s, t, r, a, b) == Larger(Used(s, a), Used(s, b))

\* Only numbers of one length can lose packets.
XorLength(s, t, r, a, b) ==
    IF Used(s, a) # Used(s, b) THEN Larger(Used(s, a), Used(s, b)) ELSE pnorm(t.m, Ptr(r), Used(s, a))

zxor(s, r, a, b) ==
    LET t == Merge(s, r, a, b, TRUE)
    IN  IF a = b THEN zsetzero(s, r)
        ELSE IF Sign(s, a) = 0 THEN zset(s, r, b)
        ELSE IF Sign(s, b) = 0 THEN zset(s, r, a)
        ELSE Settle(t, r, XorLength(s, t, r, a, b), Sign(s, a) * Sign(s, b))

\* hebi_zshl does not return from a distance that is too large.
ShlFails(s, a, k) == Sign(s, a) # 0 /\ Used(s, a) + DivUp(k, PacketBit) > MaxLength

zshl(s, r, a, k) ==
    LET n == Used(s, a)
        t == Grow(s, r, n + DivUp(k, PacketBit), r = a)
        e == pshl(t.m, Ptr(r), Ptr(a), k, n)
    IN  IF Sign(s, a) = 0 THEN zsetzero(s, r)
        ELSE IF k = 0 THEN zset(s, r, a)
        ELSE Finish(With(t, e.m), r, e.n, Sign(s, a))

zshr(s, r, a, k) ==
    LET n == Used(s, a)
        t == Grow(s, r, n - k \div PacketBit, r = a)
        e == pshr(t.m, Ptr(r), Ptr(a), k, n)
    IN  IF k = 0 THEN zset(s, r, a)
        ELSE IF Sign(s, a) = 0 \/ n <= k \div PacketBit THEN zsetzero(s, r)
        ELSE Settle(With(t, e.m), r, e.n, Sign(s, a))

-----------------------------------------------------------------------------
(* Products, by rows or by Karatsuba's method *)

\* Room for a product of n packets by Karatsuba's method: a packet more in rz,
\* all of it zero, and a workspace.
LongRoom(s, rz, n, space) ==
    LET t == Grow(Scratch(s, space), rz, n + 1, FALSE)
    IN  With(t, pzero(t.m, Ptr(rz), n + 1))

zmul(s, r, a, b) ==
    LET l  == IF Used(s, a) < Used(s, b) THEN b ELSE a
        k  == IF l = a THEN b ELSE a
        ln == Used(s, l)
        kn == Used(s, k)
        rz == ProductIn(r, {a, b})
        t  == LongRoom(s, rz, ln + kn, pmul_karatsuba_space(ln, kn))
    IN  IF Sign(s, a) = 0 \/ Sign(s, b) = 0 \/ ln <= MulCutoff THEN zmul_rows(s, r, a, b)
        ELSE Deliver(With(t, pmul_karatsuba(t.m, Ptr(rz), Ptr("scratch"), Ptr(l), Ptr(k), ln, kn)), r, rz,
                     ln + kn + 1, Sign(s, a) * Sign(s, b))

zsqr(s, r, a) ==
    LET n  == Used(s, a)
        rz == ProductIn(r, {a})
        t  == LongRoom(s, rz, 2 * n, psqr_karatsuba_space(n))
    IN  IF Sign(s, a) = 0 \/ n <= SqrCutoff THEN zsqr_rows(s, r, a)
        ELSE Deliver(With(t, psqr_karatsuba(t.m, Ptr(rz), Ptr("scratch"), Ptr(a), n)), r, rz, 2 * n + 1, 1)

-----------------------------------------------------------------------------
(* Division: truncated, the remainder with the sign of the dividend.  The  *)
(* machine and the remainder that is returned.                             *)

\* A result that is wanted is moved out of its temporary object.
DivResult(s, t, z, n, sign) ==
    IF z = Null THEN s
    ELSE LET u == NoObject(zswap(s, t, z), t)
         IN  [u EXCEPT !.z[z].used = n, !.z[z].sign = IF n = 0 THEN 0 ELSE sign]

IfWanted(z, s, t) == IF z = Null THEN s ELSE t

zdivrem(s, q, r, a, b) ==
    LET an == Used(s, a)
        bn == Used(s, b)
        qn == an - bn + 1
        wn == an + bn + 2
        qp == IF q = Null THEN Skip(Ptr("scratch"), wn) ELSE Ptr("qtmp")
        rp == IF r = Null THEN Ptr(Null) ELSE Ptr("rtmp")
        short(t) == LET u == IfWanted(r, s, t) IN IfWanted(q, u, zsetzero(u, q))
        Divided ==
            Given(Scratch(s, IF q = Null THEN wn + qn ELSE wn), LAMBDA s1 :
            Given(IfWanted(q, s1, Grow(s1, "qtmp", qn, FALSE)), LAMBDA s2 :
            Given(IfWanted(r, s2, Grow(s2, "rtmp", bn, FALSE)), LAMBDA s3 :
            Given(pdivrem(s3.m, qp, rp, Ptr("scratch"), Ptr(a), Ptr(b), an, bn), LAMBDA e :
            Given(DivResult(With(s3, e.m), "rtmp", r, e.rn, Sign(s, a)), LAMBDA s4 :
                [s |-> DivResult(s4, "qtmp", q, e.qn, Sign(s, a) * Sign(s, b)), rare |-> e.rare])))))
    IN  IF Sign(s, a) = 0 THEN [s |-> short(zsetzero(s, r)), rare |-> FALSE]
        ELSE IF an < bn THEN [s |-> short(zset(s, r, a)), rare |-> FALSE]
        ELSE Divided

\* The divisor x is not zero.  A null quotient is worked out in the scratch buffer.
DivWord(s, q, a, x, sign) ==
    LET n == Used(s, a)
        t == IF q = Null THEN Scratch(s, n) ELSE Grow(s, q, n, FALSE)
        p == Ptr(IF q = Null THEN "scratch" ELSE q)
        e == pdivremu(t.m, p, Ptr(a), x, n)
    IN  IF Sign(s, a) = 0 THEN [s |-> IfWanted(q, s, zsetzero(s, q)), ret |-> 0]
        ELSE [s |-> IfWanted(q, With(t, e.m), Normed(t, e.m, q, n, sign)), ret |-> e.r]

zdivremu(s, q, a, x) == DivWord(s, q, a, x, Sign(s, a))
zdivremi(s, q, a, x) ==
    LET e == DivWord(s, q, a, AbsOf(x), Sign(s, a) * SignOf(x))
    IN  [e EXCEPT !.ret = IF Sign(s, a) < 0 THEN -@ ELSE @]

-----------------------------------------------------------------------------
(* Counts of bits *)

zbits(s, a) ==
    IF Sign(s, a) = 0 THEN 0 ELSE PacketBit * Used(s, a) - pclz(s.m, Ptr(a), Used(s, a))
zlsb(s, a) == IF Sign(s, a) = 0 THEN 0 ELSE pctz(s.m, Ptr(a), Used(s, a))

=============================================================================
