--------------------------- MODULE MCKernelCalls ---------------------------
(***************************************************************************)
(* Machines, lists and arguments for the runs of KernelCalls: limbs of two *)
(* bits, up to nine packets of two limbs.  Every machine and list goes     *)
(* with few arguments, the full machine with many.                         *)
(***************************************************************************)
EXTENDS KernelCalls

CONSTANTS t1, t2

All == {"sse2", "sse4.1", "avx", "osxsave", "abm", "bmi1"}
Cpu(bits) == [leaf1 |-> TRUE, leaf7 |-> TRUE, ext |-> TRUE, bits |-> bits]
Machines ==
    {Cpu(All), Cpu({"sse2", "sse4.1"}), Cpu({"sse2"}), Cpu(All \ {"osxsave"}), Cpu({}),
     [Cpu(All) EXCEPT !.leaf7 = FALSE], [Cpu(All) EXCEPT !.ext = FALSE], [Cpu(All) EXCEPT !.leaf1 = FALSE]}
Listings == {NoList, {"avx"}, {"sse2", "abm"}, {"sse4", "bmi"}, {"mmx"}}

Use(k, set) == [kernel |-> k, set |-> set]
Kernels == Dispatched \union Direct

\* Both threads race for one pointer, or only for the capabilities; a thread alone
\* makes the calls with many arguments.
Races == {<<"pcopy", "pcopy">>, <<"padd", "pcopy">>, <<"pnorm", "padd">>, <<"pclz", "pctz">>, <<"pnot", "pnorm">>}
MCSetting ==
    {[machine |-> c, listing |-> l, program |-> (t1 :> Use(k[1], "few") @@ t2 :> Use(k[2], "few"))] :
        c \in Machines, l \in Listings, k \in Races}
    \union
    {[machine |-> Cpu(All), listing |-> NoList, program |-> (t1 :> Use(k, "many") @@ t2 :> Use("pcopy", "none"))] :
        k \in Kernels}

\* Arrays of n packets.
Array(n, F(_)) == [i \in 0 .. 2 * n - 1 |-> F(i)]
Mixed(n) == Array(n, LAMBDA i : (i * i + i \div 2 + 1) % 4)
Other(n) == Array(n, LAMBDA i : (i + 2) % 4)
\* x at limb j, low below it and high above.
Step3(n, j, low, x, high) ==
    Array(n, LAMBDA i : IF i < j THEN low ELSE IF i = j THEN x ELSE high)

Args(a, b, r, n, k) ==
    [m |-> ("a" :> a) @@ ("b" :> b) @@ ("r" :> r), a |-> Ptr("a"), b |-> Ptr("b"), r |-> Ptr("r"), n |-> n, k |-> k]
InPlace(x) == [x EXCEPT !.r = x.a]

Nothing == NewBuffer(0, 0)
Lengths == 1 .. 9

Plain == {Args(Mixed(n), Other(n), NewBuffer(n, 2), n, 0) : n \in Lengths}

\* n packets moved by d limbs within one array.
Moves ==
    {[Args(Mixed(n + 6), Nothing, Nothing, n, 0) EXCEPT
        !.a = [buf |-> "a", at |-> 6], !.r = [buf |-> "a", at |-> 6 + d]] : n \in Lengths, d \in {-6, -3, -2, -1, 0, 1, 2, 5}}

Scans ==
    UNION {{Args(Step3(n, j, low, 1 + low \div 3, 0), Nothing, Nothing, n, 0) :
              j \in -1 .. 2 * n - 1, low \in {0, 3}} : n \in Lengths \ {6, 8}}
ScansUp ==
    UNION {{Args(Step3(n, j, 0, 1 + high \div 3, high), Nothing, Nothing, n, 0) :
              j \in 0 .. 2 * n, high \in {0, 3}} : n \in Lengths \ {6, 8}}
Orders ==
    UNION {{Args(Step3(n, j, low, 2 - low \div 3, 1), Step3(n, j, 3 - low, 1 + low \div 3, 1), Nothing, n, 0) :
              j \in -1 .. 2 * n - 1, low \in {0, 3}} : n \in Lengths \ {6, 8}}

Values(n) == {Mixed(n), Step3(n, 2 * n - 2, 3, 1, 0), Step3(n, 2 * n - 1, 3, 1, 0), Step3(n, 1, 0, 3, 3)}
Lefts ==
    UNION {{Args(v, Nothing, NewBuffer(n + DivUp(b, PacketBit), 1), n, b) :
              v \in Values(n), b \in {0, 1, 2, 3, 4, 7, 10}} : n \in {1, 2, 4}}
Wide(x) ==
    LET room == x.n + DivUp(x.k, PacketBit)
    IN  InPlace([x EXCEPT !.m["a"] = Array(room, LAMBDA i : IF i < 2 * x.n THEN x.m["a"][i] ELSE 2)])
Rights ==
    UNION {{Args(v, Nothing, NewBuffer(n - b \div PacketBit, 1), n, b) :
              v \in Values(n), b \in 0 .. n * PacketBit - 1} : n \in 1 .. 3}
    \union {Args(Mixed(2), Nothing, Nothing, 2, b) : b \in 8 .. 9}

\* Carries that stop at limb j, or run to the end.
Sums ==
    UNION {{Args(Step3(n, j, 3, x, 0), Step3(k, 0, 0, 1, low), NewBuffer(n, 2), n, k) :
              k \in {1, n - 1, n} \ {0}, j \in {0, 3, 2 * n - 1, 2 * n}, x \in {1, 2}, low \in {0, 3}} : n \in {1, 2, 5}}
Differences ==
    UNION {{Args(Step3(n, j, 0, x, 3), Step3(k, 0, 0, 1, low), NewBuffer(n, 2), n, k) :
              k \in {1, n - 1, n} \ {0}, j \in {0, 3, 2 * n - 1, 2 * n}, x \in {1, 2}, low \in {0, 3}} : n \in {1, 2, 5}}
\* Products of numbers with limbs that are zero inside, and with all carries.
Factors ==
    UNION {UNION {{Args(v, w, NewBuffer(n + k, 2), n, k) :
                     v \in Values(n), w \in {Other(k), Step3(k, 1, 0, 3, 3)}} : k \in 1 .. n} : n \in 1 .. 3}
Squares == UNION {{Args(v, Nothing, NewBuffer(2 * n, 2), n, 0) : v \in Values(n)} : n \in 1 .. 3}
Word(set) == {[x EXCEPT !.k = w] : x \in {y \in set : y.k = 1}, w \in {1, 3}}

Many(k) ==
    CASE k \in {"pcopy", "pzero"} -> Plain
      [] k \in {"pnot", "pand", "por", "pxor"} -> Plain \union {InPlace(x) : x \in Plain}
      [] k = "pmove" -> Moves
      [] k \in {"pnorm", "pclz"} -> Scans
      [] k = "pctz" -> ScansUp
      [] k = "pcmp" -> Orders
      [] k = "pshl" -> Lefts \union {Wide(x) : x \in Lefts}
      [] k = "pshr" -> Rights \union {InPlace(x) : x \in Rights}
      [] k = "padd" -> Sums \union {InPlace(x) : x \in {y \in Sums : y.n = 5}}
      [] k = "psub" -> Differences \union {InPlace(x) : x \in {y \in Differences : y.n = 5}}
      [] k = "paddu" -> Word(Sums)
      [] k = "psubu" -> Word(Differences)
      [] k = "pneg" -> {[x EXCEPT !.r = Ptr("r"), !.m["r"] = NewBuffer(x.n, 1)] : x \in ScansUp}
      [] k = "padda" -> {InPlace(x) : x \in Sums}
      [] k = "psuba" -> {InPlace(x) : x \in Differences}
      [] k = "pmulu" -> Word(Sums)
      [] k = "pmul" -> Factors
      [] k = "psqr" -> Squares

MCInput(k, set) ==
    IF set = "none" THEN {} ELSE IF set = "many" THEN Many(k) ELSE {Args(Mixed(4), Step3(1, 0, 0, 3, 0), NewBuffer(4, 2), 4, 1)}

=============================================================================
