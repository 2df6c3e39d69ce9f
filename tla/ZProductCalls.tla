--------------------------- MODULE ZProductCalls ---------------------------
(***************************************************************************)
(* The calls of ZSumCalls with those of ZProducts: products by rows, one   *)
(* call from any state as there.                                           *)
(***************************************************************************)
EXTENDS ZProducts, ZSumCalls

\* Neither x nor b is longer than the cutoff.
WithinRows(b, cutoff) == hebi_zused(mach, "x") <= cutoff /\ hebi_zused(mach, b) <= cutoff

RowProducts ==
    \E r \in Zvar :
        \/ \E b \in Partner :
              /\ WithinRows(b, MulCutoff)
              /\ Made("zmul", r, b, zmul_rows(mach, r, "x", b))
        \/ /\ Sign(mach, "y") = 0 /\ WithinRows("x", SqrCutoff)
           /\ Made("zsqr", r, Null, zsqr_rows(mach, r, "x"))

WordProducts ==
    /\ Alone
    /\ \E r \in {"x", "w"} :
          \/ \E k \in Word : MadeWith("zmulu", r, k, zmulu(mach, r, "x", k))
          \/ \E k \in Int64 : MadeWith("zmuli", r, k, zmuli(mach, r, "x", k))

ProductNext == SumNext \/ RowProducts \/ WordProducts

ProductSpec == Init /\ [][ProductNext]_vars

-----------------------------------------------------------------------------
(* Properties *)

\* A magnitude modulo p.  The long products have more bits than TLC's integers:
\* numbers below the product of the primes are equal if their residues are.
Residue(s, o, p) ==
    LET k == hebi_zused(s, o) * PacketLimbs
        v[i \in 0 .. k] == IF i = k THEN 0 ELSE (Get(s.m, Ptr(o), i) + Base * v[i + 1]) % p
    IN  v[0]
Prime == {32749, 32719, 32717, 32713, 32707}

\* ProductExact: products and squares are those of the integers, by rows or by
\* Karatsuba's method, with carries out of the half sums or none.
ProductExact ==
    LET b == IF Is({"zsqr"}) THEN "x" ELSE call.b
        o == CHOOSE z \in call.out : TRUE
    IN  /\ Is({"zmul", "zsqr"}) =>
              /\ Sign(mach, o) = Sign(call.was, "x") * Sign(call.was, b)
              /\ \A p \in Prime :
                    Residue(mach, o, p) = (Residue(call.was, "x", p) * Residue(call.was, b, p)) % p
        /\ Is({"zmulu", "zmuli"}) => Out = X * call.k

=============================================================================
