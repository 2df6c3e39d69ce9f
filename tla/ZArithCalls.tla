---------------------------- MODULE ZArithCalls ----------------------------
(***************************************************************************)
(* The calls of ZProductCalls with those of ZArith: long products, bits,   *)
(* shifts and division, one call from any state as there.                  *)
(***************************************************************************)
EXTENDS ZArith, ZProductCalls
LOCAL INSTANCE Bitwise

CONSTANT
    Shift           \* distances of shifts

ASSUME ZArithCallsAssumption == Shift \subseteq Nat

\* Products of numbers of which one is longer than the cutoff
LongProducts ==
    \E r \in Zvar :
        \/ \E b \in Partner :
              /\ ~WithinRows(b, MulCutoff)
              /\ Made("zmul", r, b, zmul(mach, r, "x", b))
        \/ /\ Sign(mach, "y") = 0 /\ ~WithinRows("x", SqrCutoff)
           /\ Made("zsqr", r, Null, zsqr(mach, r, "x"))

BitCalls ==
    /\ Short
    /\ \E r \in Zvar, b \in Partner :
          \/ Made("zand", r, b, zand(mach, r, "x", b))
          \/ Made("zor", r, b, zor(mach, r, "x", b))
          \/ Made("zxor", r, b, zxor(mach, r, "x", b))

Shifts ==
    /\ Alone
    /\ \E r \in {"x", "w"}, k \in Shift :
          \/ /\ ~ShlFails(mach, "x", k)
             /\ MadeWith("zshl", r, k, zshl(mach, r, "x", k))
          \/ MadeWith("zshr", r, k, zshr(mach, r, "x", k))

\* Where the quotient and the remainder go: one missing, or either of them in
\* place of either operand.
Targets ==
    {<<"w", Null>>, <<Null, "w">>, <<"w", "x">>, <<"y", "w">>, <<"x", "y">>, <<"y", "x">>}

\* A divisor of zero raises an error.
Division ==
    /\ Short
    /\ \E to \in Targets, b \in Partner :
          /\ Sign(mach, b) # 0
          /\ LET e == zdivrem(mach, to[1], to[2], "x", b)
             IN  Did("zdivrem", {to[1], to[2]} \ {Null}, b, [q |-> to[1], r |-> to[2]], e.s, 0, e.rare)

WordDivision ==
    /\ Alone
    /\ \E q \in {"x", "w", Null} :
          \/ \E k \in Word \ {0} :
                LET e == zdivremu(mach, q, "x", k) IN Did("zdivremu", {q} \ {Null}, q, k, e.s, e.ret, FALSE)
          \/ \E k \in Int64 \ {0} :
                LET e == zdivremi(mach, q, "x", k) IN Did("zdivremi", {q} \ {Null}, q, k, e.s, e.ret, FALSE)

BitCounts ==
    /\ Alone
    /\ \/ Told("zbits", Null, 0, zbits(mach, "x"))
       \/ Told("zlsb", Null, 0, zlsb(mach, "x"))

Next ==
    \/ ProductNext \/ LongProducts \/ BitCalls \/ Shifts
    \/ Division \/ WordDivision \/ BitCounts

Spec == Init /\ [][Next]_vars

-----------------------------------------------------------------------------
(* Properties *)

\* BitsExact: zand, zor and zxor work on magnitudes and choose the sign as
\* check/z/zand.c, zor.c and zxor.c define it; shifts are products and quotients
\* by powers of two; zbits and zlsb count from the lowest bit of all packets.
BitsExact ==
    LET ax == AbsOf(X)
        ay == AbsOf(Y)
        sg == SignOf(X)
    IN  /\ Is({"zand"}) => Out = (IF X < 0 /\ Y < 0 THEN -1 ELSE 1) * (ax & ay)
        /\ Is({"zor"}) => Out = (IF X < 0 \/ Y < 0 THEN -1 ELSE 1) * (ax | ay)
        /\ Is({"zxor"}) => Out = (IF (X < 0) # (Y < 0) THEN -1 ELSE 1) * (ax ^^ ay)
        /\ Is({"zshl"}) => Out = X * 2 ^ call.k
        /\ Is({"zshr"}) => Out = sg * (ax \div 2 ^ call.k)
        /\ Is({"zbits"}) => IF X = 0 THEN call.ret = 0 ELSE ax \in 2 ^ (call.ret - 1) .. 2 ^ call.ret - 1
        /\ Is({"zlsb"}) => IF X = 0 THEN call.ret = 0
                           ELSE ax % 2 ^ call.ret = 0 /\ (ax \div 2 ^ call.ret) % 2 = 1

\* DivisionRight: the results of hebi_zdivrem that are wanted are those of a
\* division that truncates, as check/z/zdivrem.c expects of every pair.
DivisionRight ==
    Is({"zdivrem"}) =>
        /\ call.k.q # Null => Num(mach, call.k.q) = SignOf(X) * SignOf(Y) * (AbsOf(X) \div AbsOf(Y))
        /\ call.k.r # Null => Num(mach, call.k.r) = SignOf(X) * (AbsOf(X) % AbsOf(Y))

\* DivisionExact: quotient and remainder are those of a division that truncates
\* unless the division met one of the two rare turns of PDIVREMR; the remainder
\* by an unsigned word is that of the magnitude.
DivisionExact ==
    /\ Is({"zdivrem"}) /\ ~call.rare => DivisionRight
    /\ Is({"zdivremu"}) =>
          /\ call.ret = AbsOf(X) % call.k
          /\ call.b # Null => Out = SignOf(X) * (AbsOf(X) \div call.k)
    /\ Is({"zdivremi"}) =>
          /\ call.ret = SignOf(X) * (AbsOf(X) % AbsOf(call.k))
          /\ call.b # Null => Out = SignOf(X) * SignOf(call.k) * (AbsOf(X) \div AbsOf(call.k))

=============================================================================
