--------------------------- MODULE MCZInOutCalls ---------------------------
(***************************************************************************)
(* Strings and generators for the runs of ZInOutCalls: limbs of six bits,  *)
(* two limbs to a packet, so that a limb holds one digit of base 62 or 36, *)
(* three of base 3 and six of base 2.                                      *)
(***************************************************************************)
EXTENDS ZInOutCalls

\* Numbers around the limits of digits, limbs and packets, and scattered ones.
Magnitude ==
    {0, 1, 7, 9, 61, 63, 64, 65, 729, 4095, 4096, 4097, 65537, 262143, 262144, 1000000, 16777215}

\* A number in as many packets as it needs.
Packed(v) ==
    LET n == IF v = 0 THEN 0 ELSE 1 + FloorLog(2 ^ PacketBit, AbsOf(v))
    IN  [sign |-> SignOf(v), used |-> n,
         limbs |-> [i \in 0 .. n * PacketLimbs - 1 |-> (AbsOf(v) \div Base ^ i) % Base]]
MCNumbers == {Packed(v) : v \in Magnitude \union {-v : v \in {1, 63, 4096, 1000000}}}

Bases(al) ==
    IF al = "base36" THEN {2, 3, 8, 10, 16, 32, 36}
    ELSE IF al = "rfc4648_32" THEN {2, 31, 32}
    ELSE IF al = "rfc4648_64" THEN {10, 62, 63}
    ELSE IF al = "base62" THEN {16, 62}
    ELSE {35}

Flags == {"TRIM", "PAD", "RADIX", "SIGN"}

Plain(al, base, v) ==
    [al |-> al, base |-> base, radix |-> base, flags |-> {}, lead |-> <<>>, mark |-> <<>>,
     prefix |-> <<>>, zeros |-> Bit(v = 0), value |-> v, rest |-> <<>>]

Plains == UNION {{Plain(al, b, v) : b \in Bases(al), v \in Magnitude} : al \in Alphabet}
          \union {Plain("rfc4648_64", 64, v) : v \in Magnitude}

\* A few numbers with everything that can be in front of them, and behind.
Chosen == {t \in Plains : t.value \in {0, 7, 4095, 65537}}
Fronts ==
    UNION {
    {[t EXCEPT !.mark = <<"-">>] : t \in Chosen},
    {[t EXCEPT !.mark = <<"+">>, !.zeros = 2] : t \in {u \in Chosen : u.al # "rfc4648_64"}},
    {[t EXCEPT !.lead = <<" ", " ">>, !.mark = <<"-">>, !.flags = {"TRIM"}] : t \in Chosen},
    {[t EXCEPT !.prefix = <<"0", "x">>, !.base = b] : t \in {u \in Chosen : u.radix = 16}, b \in {0, 16}},
    {[t EXCEPT !.prefix = <<"0", "b">>, !.base = b, !.mark = <<"-">>] :
        t \in {u \in Chosen : u.radix = 2 /\ ~IsRfc(u.al)}, b \in {0, 2}},
    {[t EXCEPT !.prefix = <<"0">>, !.base = 0] : t \in {u \in Chosen : u.radix = 8}},
    {[t EXCEPT !.base = 0] : t \in {u \in Chosen : u.radix = 10 /\ ~IsRfc(u.al)}},
    {[t EXCEPT !.base = 0, !.flags = {"PAD"}] : t \in {u \in Chosen : u.radix = maxradix(u.al) /\ IsRfc(u.al)}}}

\* Those that leave TLC's integers room for a few digits more.
Short == {t \in Chosen : t.value <= 4095}

\* What is no digit, digits that the base does not have, and digits behind them.
Backs ==
    UNION {
    {[t EXCEPT !.rest = <<"*">>] : t \in Chosen \union Fronts},
    {[t EXCEPT !.rest = <<"*", ZeroOf(t.al)>>] : t \in Short},
    {[t EXCEPT !.rest = <<alphalut[t.al][t.radix + 1], ZeroOf(t.al)>>] :
        t \in {u \in Short : u.radix < maxradix(u.al)}}}

\* Blanks, padding, or both, taken off or not.
Ends ==
    UNION {
    {[t EXCEPT !.rest = <<" ", " ">>, !.flags = f] : t \in Short, f \in {{"TRIM"}, {"PAD"}}},
    {[t EXCEPT !.rest = <<"=">>, !.flags = {"PAD"}] : t \in Short},
    {[t EXCEPT !.lead = <<" ">>, !.mark = <<"-">>, !.rest = <<"=", " ">>, !.flags = {"TRIM", "PAD"}] : t \in Short}}

\* No digits at all.
Empty(t) == [t EXCEPT !.zeros = 0, !.value = 0]
Empties == {Empty(t) : t \in {u \in Chosen \union Fronts : u.prefix # <<"0">>}}

MCText == Plains \union Fronts \union Backs \union Ends \union Empties

\* With nothing in front of the digits, or with all that the alphabet allows.
MCFormat ==
    UNION {[al : {al}, base : Bases(al), flags : {{}, {"RADIX"} \union (IF al = "rfc4648_64" THEN {} ELSE {"SIGN"})}] :
              al \in {"base36", "base36_lower", "base62", "rfc4648_32", "rfc4648_64"}}
    \union {[al |-> "base36", base |-> b, flags |-> {}] : b \in {37, 65}}

\* Two samples and three, carries and samples that borrow.
MCGenerator ==
    [multi : {<<5, 63>>, <<1, 32, 62>>}, index : {0}, carry : {0, 6, 7}, congruential : {11}, xorshift : {45}]
MCXorShifts == <<1, 3, 4>>

=============================================================================
