----------------------------- MODULE ZProducts -----------------------------
(***************************************************************************)
(* Products of the integers (src/z) with words, and products and squares   *)
(* of numbers that are no longer than the cutoffs, on the machine of       *)
(* ZSums.                                                                  *)
(***************************************************************************)
EXTENDS Cutoffs, ZSums

zmulu(s, r, a, x) ==
    LET n == Used(s, a)
        t == Grow(s, r, n + 1, r = a)
    IN  IF Sign(s, a) = 0 \/ x = 0 THEN zsetzero(s, r)
        ELSE IF x = 1 THEN zset(s, r, a)
        ELSE Carried(t, r, pmulu(t.m, Ptr(r), Ptr(a), x, n), n, Sign(s, a))

zmuli(s, r, a, x) ==
    LET t == zmulu(s, r, a, AbsOf(x)) IN IF x < 0 THEN [t EXCEPT !.z[r].sign = -@] ELSE t

\* A product is made in a temporary object if the result is an operand.
ProductIn(r, operands) == IF r \in operands THEN "rtmp" ELSE r

\* The product in the n packets of rz gets its length and becomes the result.
Deliver(s, r, rz, n, sign) ==
    LET u == Finish(s, rz, pnorm(s.m, Ptr(rz), n), sign)
    IN  IF rz = r THEN u ELSE NoObject(zswap(u, rz, r), rz)

\* hebi_zmul by rows, the longer operand first
zmul_rows(s, r, a, b) ==
    LET l  == IF Used(s, a) < Used(s, b) THEN b ELSE a
        k  == IF l = a THEN b ELSE a
        n  == Used(s, l) + Used(s, k)
        rz == ProductIn(r, {a, b})
        t  == Grow(s, rz, n, FALSE)
    IN  IF Sign(s, a) = 0 \/ Sign(s, b) = 0 THEN zsetzero(s, r)
        ELSE Deliver(With(t, pmul(t.m, Ptr(rz), Ptr(l), Ptr(k), Used(s, l), Used(s, k))), r, rz, n,
                     Sign(s, a) * Sign(s, b))

\* hebi_zsqr by rows
zsqr_rows(s, r, a) ==
    LET n  == 2 * Used(s, a)
        rz == ProductIn(r, {a})
        t  == Grow(s, rz, n, FALSE)
    IN  IF Sign(s, a) = 0 THEN zsetzero(s, r)
        ELSE Deliver(With(t, psqr(t.m, Ptr(rz), Ptr(a), Used(s, a))), r, rz, n, 1)

=============================================================================
