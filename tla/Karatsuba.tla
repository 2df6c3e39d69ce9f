----------------------------- MODULE Karatsuba -----------------------------
(***************************************************************************)
(* Long products by Karatsuba's method (src/p/p*_karatsuba.c) and the      *)
(* working space their callers give them (src/p/p*_karatsuba_space.c).     *)
(* The result has one packet more than the product, and it and the work    *)
(* space are zeroed where something is accumulated in them.                *)
(***************************************************************************)
EXTENDS PDivision, Cutoffs

Half(n) == (n + 1) \div 2

\* The sum of the h low packets of a and the others, at w: memory and length.
HalfSum(m, w, a, n, h) ==
    Given(padd(m, w, a, Skip(a, h), h, n - h), LAMBDA s :
        IF s.c = 0 THEN [m |-> s.m, n |-> h]
        ELSE [m |-> psetu(s.m, Skip(w, h), s.c), n |-> h + 1])

\* r := r + p and r := r - p, p of n packets at w, r of rn
Accumulate(m, r, w, rn, n) == padd(m, r, r, w, rn, n).m
Deduct(m, r, w, rn, n)     == psub(m, r, r, w, rn, n).m

\* A slip: the low product is not taken out of the middle.
AddOuter_Once(m, r, w, h, at, rl, n) == Accumulate(m, Skip(r, at), w, rl - at, n)

\* The product of the high or of the low halves, at w, is added where it
\* belongs and taken out of the middle product.
AddOuter(m, r, w, h, at, rl, n) ==
    Deduct(Accumulate(m, Skip(r, at), w, rl - at, n), Skip(r, h), w, rl - h, n)

RECURSIVE pmul_karatsuba(_, _, _, _, _, _, _)
pmul_karatsuba(m, r, w, a, b, an, bn) ==
    LET h == Half(an)
        \* The product of two parts, at w, which is zeroed for it.
        AtWork(t, x, y, xn, yn) ==
            pmul_karatsuba(pzero(t, w, xn + yn + 1), w, Skip(w, xn + yn + 1), x, y, xn, yn)
        \* b is too short to be cut in two: a0 * b and a1 * b
        Rows ==
            Accumulate(AtWork(pmul_karatsuba(m, r, w, a, b, h, bn), Skip(a, h), b, an - h, bn),
                       Skip(r, h), w, an - h + bn, an - h + bn)
        \* (a0 + a1) * (b0 + b1), the middle of the product
        Middle ==
            Given(HalfSum(m, w, a, an, h), LAMBDA as :
            Given(HalfSum(as.m, Skip(w, as.n), b, bn, h), LAMBDA bs :
                pmul_karatsuba(bs.m, Skip(r, h), Skip(w, as.n + bs.n), w, Skip(w, as.n), as.n, bs.n)))
        \* then a1 * b1 and a0 * b0
        Outer(t, at, x, y, xn, yn) ==
            AddOuter(AtWork(t, x, y, xn, yn), r, w, h, at, an + bn + 1, xn + yn)
    IN  IF an < bn THEN pmul_karatsuba(m, r, w, b, a, bn, an)
        ELSE IF bn = 0 THEN m
        ELSE IF bn <= MulCutoff THEN pmul(m, r, a, b, an, bn)
        ELSE IF bn <= h THEN Rows
        ELSE Outer(Outer(Middle, 2 * h, Skip(a, h), Skip(b, h), an - h, bn - h), 0, a, b, h, h)

RECURSIVE psqr_karatsuba(_, _, _, _, _)
psqr_karatsuba(m, r, w, a, n) ==
    LET h == Half(n)
        AtWork(t, x, k) == psqr_karatsuba(pzero(t, w, 2 * k + 1), w, Skip(w, 2 * k + 1), x, k)
        Middle ==
            Given(HalfSum(m, w, a, n, h), LAMBDA as :
                psqr_karatsuba(as.m, Skip(r, h), Skip(w, as.n), w, as.n))
        Outer(t, at, x, k) == AddOuter(AtWork(t, x, k), r, w, h, at, 2 * n + 1, 2 * k)
    IN  IF n = 0 THEN m
        ELSE IF n <= SqrCutoff THEN psqr(m, r, a, n)
        ELSE Outer(Outer(Middle, 2 * h, Skip(a, h), n - h), 0, a, h)

-----------------------------------------------------------------------------
(* Space *)

\* hebi_ceillog2sz__ and hebi_floorlog2sz__
CeilLog2(n)  == Min({k \in 0 .. n : 2 ^ k >= n})
FloorLog2(n) == Max({k \in 0 .. n : 2 ^ k <= n})

\* The space for operands of n packets when products of c and fewer need none.
\* 1 << (y - 1) is undefined for y = 0; the machine's shift makes it a bit that
\* the doubling below drops.
SpaceBound(n, c) ==
    LET lx == CeilLog2(c - 2)
        ly == CeilLog2(c - 3)
        x  == 2 * lx + 2 ^ (lx - 1)
        y  == 3 * ly + (IF ly = 0 THEN 0 ELSE 2 ^ (ly - 1))
    IN  Max({2 * (n - x + 2 * CeilLog2(n - 2)), 2 * (n - y + 3 * FloorLog2(n - 3))})

\* A slip: the rows are taken to need no space of their own.
RowSpace_Free(a, b) ==
    LET cut[n \in 0 .. a] == IF n <= MulCutoff \/ b > Half(n) THEN [n |-> n, min |-> 0] ELSE cut[Half(n)]
    IN  cut[a]

\* While b has at most half the packets of a: what the rows need, and what is
\* left of a.
RowSpace(a, b) ==
    LET cut[n \in 0 .. a] ==
            IF n <= MulCutoff \/ b > Half(n) THEN [n |-> n, min |-> 0]
            ELSE [cut[Half(n)] EXCEPT !.min = @ + n - Half(n) + b + 1]
    IN  cut[a]

pmul_karatsuba_space(m, n) ==
    LET a == Max({m, n})
        b == Min({m, n})
        rows == RowSpace(a, b)
    IN  IF b <= MulCutoff THEN 0
        ELSE IF rows.n <= MulCutoff THEN rows.min
        ELSE rows.min + SpaceBound(rows.n, MulCutoff)

psqr_karatsuba_space(n) == IF n <= SqrCutoff THEN 0 ELSE SpaceBound(n, SqrCutoff)

=============================================================================
