------------------------------ MODULE PStrings ------------------------------
(***************************************************************************)
(* Packet sequences from and to strings (src/p/psetstr.c, pgetstr.c and    *)
(* pgetstrlen.c).  A string is a sequence of characters; positions in it   *)
(* count from 0, as in C.  Logarithms that the code takes from fixed-point *)
(* tables are taken of integers here.                                      *)
(***************************************************************************)
EXTENDS PDivision, Sequences

CONSTANT SizeBit    \* width of size_t

ASSUME PStringsAssumption == SizeBit \in Nat \ {0}

SIZE_MAX == 2 ^ SizeBit - 1

-----------------------------------------------------------------------------
(* Alphabets *)

Decimal == <<"0", "1", "2", "3", "4", "5", "6", "7", "8", "9">>
Upper == <<"A", "B", "C", "D", "E", "F", "G", "H", "I", "J", "K", "L", "M",
           "N", "O", "P", "Q", "R", "S", "T", "U", "V", "W", "X", "Y", "Z">>
Lower == <<"a", "b", "c", "d", "e", "f", "g", "h", "i", "j", "k", "l", "m",
           "n", "o", "p", "q", "r", "s", "t", "u", "v", "w", "x", "y", "z">>

\* The digits of an alphabet in their order, for writing.
alphalut ==
    [base36       |-> Decimal \o Upper,
     base36_upper |-> Decimal \o Upper,
     base36_lower |-> Decimal \o Lower,
     base62       |-> Decimal \o Upper \o Lower,
     rfc4648_32   |-> Upper \o SubSeq(Decimal, 3, 8),
     rfc4648_64   |-> Upper \o Lower \o Decimal \o <<"+", "/">>]

Alphabet == DOMAIN alphalut
IsRfc(al) == al \in {"rfc4648_32", "rfc4648_64"}

maxradix(al) == Len(alphalut[al])
ZeroOf(al)   == alphalut[al][1]
PadOf(al)    == IF IsRfc(al) THEN {"="} ELSE {}
PlusOf(al)   == IF al = "rfc4648_64" THEN {} ELSE {"+"}

\* For reading, the digits of base36 have two forms.
Readings(al) == {alphalut[al]} \union (IF al = "base36" THEN {Decimal \o Lower} ELSE {})

\* No digit: one less than the 0 of the lookup table, as an unsigned number.
NoDigit == 255

DigitLut ==
    [al \in Alphabet |->
        [c \in UNION {{s[i] : i \in DOMAIN s} : s \in Readings(al)} |->
            CHOOSE d \in 0 .. maxradix(al) - 1 : \E s \in Readings(al) : s[d + 1] = c]]

chartodigit(al, c) == IF c \in DOMAIN DigitLut[al] THEN DigitLut[al][c] ELSE NoDigit

-----------------------------------------------------------------------------
(* Logarithms *)

\* The largest k with b^k <= x, for x > 0
FloorLog(b, x) ==
    LET log[y \in Nat] == IF y < b THEN 0 ELSE 1 + log[y \div b]
    IN  log[x]

PowerOf2(radix) == 2 ^ FloorLog(2, radix) = radix

\* maxdigitslut: the digits that fit in a limb (of a power of two the table has
\* their bits), and maxscalelut, what a full limb of digits is multiplied with.
MaxDigits(radix) == FloorLog(radix, Base)
MaxScale(radix)  == radix ^ MaxDigits(radix)

\* estimatespace: the whole packets that k digits fill.
estimatespace(k, radix) == FloorLog(2 ^ PacketBit, radix ^ k)

\* logb2u64lut: digits of numbers of that many bits, less one.  The generator
\* of the table stops before 63.
LogB2(base, bits) == IF base = 63 THEN 0 ELSE FloorLog(base, 2 ^ bits)

-----------------------------------------------------------------------------
(* Reading: positions and radix *)

Blank == {" "}      \* isspace

\* Is a character of cs at position i of str, before position end?
Peek(str, i, end, cs) == i < end /\ str[i + 1] \in cs

\* trimleft and trimright, or trimwhitespace with both: the first position that
\* has none of cs, and the position behind the last one.
trimleft(str, start, end, cs) ==
    LET i[k \in Nat] == IF Peek(str, k, end, cs) THEN i[k + 1] ELSE k IN i[start]

trimright(str, start, end, cs) ==
    LET i[k \in Nat] == IF start < k /\ str[k] \in cs THEN i[k - 1] ELSE k IN i[end]

\* An optional radix prefix at cur: the position behind it, and the radix.
readradix(al, str, cur, end, base) ==
    LET zero == Peek(str, cur, end, {"0"})
        hex  == zero /\ Peek(str, cur + 1, end, {"x", "X"})
        bin  == zero /\ Peek(str, cur + 1, end, {"b", "B"})
    IN  IF IsRfc(al) THEN [cur |-> cur, radix |-> IF base # 0 THEN base ELSE maxradix(al)]
        ELSE IF hex /\ base \in {0, 16} THEN [cur |-> cur + 2, radix |-> 16]
        ELSE IF bin /\ base \in {0, 2} THEN [cur |-> cur + 2, radix |-> 2]
        ELSE IF base # 0 THEN [cur |-> cur, radix |-> base]
        ELSE IF zero THEN [cur |-> cur + 1, radix |-> 8]
        ELSE [cur |-> cur, radix |-> 10]

\* A slip: an empty sequence of digits is taken for a zero.
NoDigits_Zero(cur, end) == FALSE

NoDigits(cur, end) == cur >= end

\* hebi_psetstrprepare on a whole string: the state it sets up and, in `ret`, the
\* packets to make room for, 0 for a zero, or SIZE_MAX with an error.  The end
\* that hebi_psetstr will read to is not the trimmed one.
psetstrprepare(str, base, al, flags) ==
    LET len   == Len(str)
        trim  == "TRIM" \in flags
        first == IF trim THEN trimleft(str, 0, len, Blank) ELSE 0
        last  == IF trim THEN trimright(str, first, len, Blank) ELSE len
        end   == IF "PAD" \in flags THEN trimright(str, first, last, PadOf(al)) ELSE last
        minus == "SIGN" \in flags /\ Peek(str, first, end, {"-"})
        plus  == "SIGN" \in flags /\ Peek(str, first, end, PlusOf(al))
        at    == first + Bit(minus \/ plus)
        head  == IF base = 0 \/ "RADIX" \in flags THEN readradix(al, str, at, end, base)
                 ELSE [cur |-> at, radix |-> base]
        cur   == trimleft(str, head.cur, end, {ZeroOf(al)})
        space == estimatespace(end - cur, head.radix)
        st    == [str |-> str, al |-> al, end |-> len, cur |-> head.cur, radix |-> head.radix,
                  sign |-> IF minus THEN -1 ELSE 1, err |-> "ENONE", ret |-> SIZE_MAX]
    IN  IF al \notin Alphabet
        THEN [str |-> str, al |-> al, end |-> len, cur |-> 0, radix |-> 0, sign |-> 1, err |-> "EBADVALUE",
              ret |-> SIZE_MAX]
        ELSE IF head.radix \notin 2 .. maxradix(al) THEN [st EXCEPT !.err = "EBADVALUE"]
        ELSE IF NoDigits(head.cur, end) THEN [st EXCEPT !.err = "EBADSYNTAX"]
        ELSE IF cur >= end THEN [st EXCEPT !.cur = end, !.sign = 0, !.ret = 0]
        ELSE IF space >= MaxLength THEN [st EXCEPT !.cur = cur, !.err = "EBADLENGTH"]
        ELSE [st EXCEPT !.cur = cur, !.ret = space + 1]

-----------------------------------------------------------------------------
(* Reading: digits.  While a call runs its `ret` is Running. *)

Running == -1

error(s, cur, code) == [s EXCEPT !.cur = cur, !.err = code, !.ret = SIZE_MAX]

\* The packets that would do, as far as one knows at cur.
outofspace(s, st, cur, size) ==
    LET space == size + estimatespace(st.end - cur, st.radix)
    IN  [s EXCEPT !.cur = cur, !.err = "EBADLENGTH", !.ret = IF space > MaxLength THEN SIZE_MAX ELSE space]

\* PUSH_LIMB: a limb that is not zero is a packet more.
PushLimb(s, st, r, n, cur, x) ==
    IF s.ret # Running \/ x = 0 THEN s
    ELSE IF s.size + 1 > n THEN outofspace(s, st, cur, s.size + 1)
    ELSE [s EXCEPT !.size = @ + 1, !.m = psetu(s.m, Skip(r, s.size), x)]

\* The digits of one limb from cur on: where they end, and what they are worth.
DigitsOfLimb(st, cur) ==
    LET last  == Min({cur + MaxDigits(st.radix), st.end})
        digit == [i \in cur .. last - 1 |-> chartodigit(st.al, st.str[i + 1])]
        worth[i \in cur .. last] == IF i = cur THEN 0 ELSE worth[i - 1] * st.radix + digit[i - 1]
        bad   == {i \in cur .. last - 1 : digit[i] >= st.radix}
    IN  [last |-> last, bad |-> bad, limb |-> IF bad = {} THEN worth[last] ELSE 0]

\* A slip: a shorter last chunk is scaled like a full one.
Scale_Full(st, digits) == MaxScale(st.radix)

Scale(st, digits) == IF digits = MaxDigits(st.radix) THEN MaxScale(st.radix) ELSE st.radix ^ digits

\* One turn of readmultiply: what was read is scaled, the carry is a new packet,
\* then the limb is added.
MultiplyTurn(s, st, r, n, cur, d) ==
    Given(pmulu(s.m, r, r, Scale(st, d.last - cur), s.size), LAMBDA up :
    Given(PushLimb([s EXCEPT !.m = up.m], st, r, n, d.last, up.c), LAMBDA t :
        IF t.ret # Running THEN t
        ELSE Given(paddu(t.m, r, r, d.limb, t.size), LAMBDA sum :
                PushLimb([t EXCEPT !.m = sum.m], st, r, n, d.last, sum.c))))

\* A slip: the shift is taken to need no more packets than its result.
ShiftRoom_Same(size) == size

\* hebi_pshl stores a packet more than it is given.
ShiftRoom(size) == size + 1

\* One turn of readshift.
ShiftTurn(s, st, r, n, cur, d) ==
    IF ShiftRoom(s.size) > n THEN outofspace(s, st, d.last, s.size + 1)
    ELSE Given(pshl(s.m, r, r, (d.last - cur) * FloorLog(2, st.radix), s.size), LAMBDA up :
            [s EXCEPT !.size = up.n, !.m = Put(up.m, r, 0, Get(up.m, r, 0) + d.limb)])

\* readmultiply and readshift, a limb of digits to a turn.
ReadTurn(s, st, r, n) ==
    Given(DigitsOfLimb(st, s.at), LAMBDA d :
        IF d.bad # {} THEN error(s, Min(d.bad), "EBADSYNTAX")
        ELSE [(IF s.size = 0 THEN PushLimb(s, st, r, n, d.last, d.limb)
               ELSE IF PowerOf2(st.radix) THEN ShiftTurn(s, st, r, n, s.at, d)
               ELSE MultiplyTurn(s, st, r, n, s.at, d)) EXCEPT !.at = d.last])

\* hebi_psetstr into n packets at r: memory, packets of the result or asked for
\* (`ret`), position and error code.
psetstr(m, r, n, st) ==
    LET start == [m |-> m, at |-> st.cur, cur |-> st.cur, size |-> 0, err |-> "ENONE", ret |-> Running]
        turns == DivUp(st.end - st.cur, MaxDigits(st.radix))
    IN  Given(Loop(turns, start, LAMBDA s, i : IF s.ret = Running THEN ReadTurn(s, st, r, n) ELSE s),
              LAMBDA s : IF s.ret = Running THEN [s EXCEPT !.ret = s.size] ELSE s)

-----------------------------------------------------------------------------
(* Writing: a buffer of characters is a function on its positions *)

NUL == "NUL"

PutChar(out, i, c) == IF i \in DOMAIN out THEN [out EXCEPT ![i] = c] ELSE (i :> c) @@ out

\* defaultwriteradix and rfc4648writeradix
Prefix(al, base) ==
    IF IsRfc(al) THEN <<>>
    ELSE CASE base = 16 -> <<"0", "x">> [] base = 8 -> <<"0">> [] base = 2 -> <<"0", "b">> [] OTHER -> <<>>

\* write, for each character of cs: what does not fit before `end` is left out.
WriteAll(s, o, end, cs) ==
    Loop(Len(cs), s, LAMBDA t, i :
        IF t.cur < end THEN [t EXCEPT !.out = PutChar(t.out, o + t.cur, cs[i + 1]), !.cur = @ + 1] ELSE t)

reverse(out, o, first, last) ==
    [i \in DOMAIN out |->
        IF i \in o + first .. o + last THEN out[2 * o + first + last - i] ELSE out[i]]

\* A slip: the ring starts over at the front of the string.
RingStart_Front(start) == 0

RingStart(start) == start

\* One digit: the lowest of what is left, put behind the one before or, where
\* there is no more room, over the oldest.  Without any room it is only counted.
DigitTurn(s, w, o, start, end, base, al) ==
    LET bits == LimbClz(base)
        d    == Shl(base, bits)
        cell == IF s.cur = end THEN RingStart(start) ELSE s.cur
    IN  Given(pdivremru2x1(s.m, w, w, s.n * PacketLimbs, bits, d, recipu2x1(d)), LAMBDA e :
            [s EXCEPT !.m = e.m, !.n = pnorm(e.m, w, s.n), !.rlen = @ + 1,
                      !.cur = IF start < end THEN cell + 1 ELSE @,
                      !.out = IF start < end THEN PutChar(@, o + cell, alphalut[al][e.r + 1]) ELSE @])

\* The digits stand from start on, the lowest first; of a ring, the newest stands
\* before cur.
Ordered(s, o, start, len) ==
    LET wraps == s.rlen >= len
        newer == IF wraps THEN reverse(s.out, o, start, s.cur - 1) ELSE s.out
        from  == IF wraps THEN s.cur ELSE start
        to    == IF wraps THEN len - 1 ELSE s.cur
    IN  reverse(PutChar(newer, o + to, NUL), o, from, to - 1)

\* hebi_pgetstr of the n packets at w, which it uses up, to len characters of out
\* from position o on: the buffer and the length of the whole string.
pgetstr(m, w, n, out, o, len, base, al, flags) ==
    LET end    == len - Bit(len > 0)
        prefix == IF "RADIX" \in flags THEN Prefix(al, base) ELSE <<>>
        zero   == IF prefix # <<>> /\ base = 8 THEN <<>> ELSE <<ZeroOf(al)>>
        head   == WriteAll([m |-> m, n |-> n, out |-> out, cur |-> 0, rlen |-> Len(prefix)], o, end, prefix)
        nul(s) == IF len > 0 THEN PutChar(s.out, o + s.cur, NUL) ELSE s.out
        all    == Loop(n * PacketBit, head, LAMBDA s, i :
                    IF s.n = 0 THEN s ELSE DigitTurn(s, w, o, head.cur, end, base, al))
    IN  IF al \notin Alphabet THEN [out |-> out, ret |-> SIZE_MAX]
        ELSE IF base \notin 2 .. maxradix(al) THEN [out |-> out, ret |-> SIZE_MAX]
        ELSE IF n = 0 THEN [out |-> nul(WriteAll(head, o, end, zero)), ret |-> Len(prefix) + Len(zero)]
        ELSE Given(all, LAMBDA s :
                [out |-> IF head.cur >= end THEN nul(s) ELSE Ordered(s, o, head.cur, len), ret |-> s.rlen])

\* A slip: the last digit that is not whole is not counted.
Digits_Down(bits, k) == bits \div k

Digits(bits, k) == DivUp(bits, k)

\* hebi_pgetstrlen
pgetstrlen(m, a, n, base, flags) ==
    LET bits == n * PacketBit - pclz(m, a, n)
        k    == FloorLog(2, base)
        len  == IF n = 0 THEN 1 ELSE IF PowerOf2(base) THEN Digits(bits, k) ELSE LogB2(base, bits) + 1
    IN  len + (IF "RADIX" \notin flags THEN 0
               ELSE IF base \in {2, 16} THEN 2 ELSE Bit(base = 8 /\ n > 0))

=============================================================================
