------------------------------- MODULE ZSums -------------------------------
(***************************************************************************)
(* The integers (src/z): their sums, differences, comparisons and          *)
(* conversions to words, on top of the packet kernels, on integers x, y    *)
(* and w of the client, on the temporaries of a call and on the scratch    *)
(* buffer.                                                                 *)
(*                                                                         *)
(* An integer is a buffer, its capacity `resv`, the number `used` of       *)
(* packets that matter, and a sign; a sign of 0 is the number 0 whatever   *)
(* the rest.  Each operator of a call maps a machine (memory `m`, objects  *)
(* `z`) to the machine after it.                                           *)
(***************************************************************************)
EXTENDS Packets

\* The calls look at the first packet as two words of 64 bits.
ASSUME ZSumsAssumption == PacketLimbs = 2

Zvar   == {"x", "y", "w"}
Tmp    == {"qtmp", "rtmp", "scratch"}
Object == Zvar \union Tmp
Null   == "null"

-----------------------------------------------------------------------------
(* Objects *)

Sign(s, a) == s.z[a].sign
Used(s, a) == s.z[a].used

hebi_zused(s, a) == IF Sign(s, a) = 0 THEN 0 ELSE Used(s, a)

Larger(i, j) == IF i < j THEN j ELSE i
SignOf(i)  == IF i < 0 THEN -1 ELSE IF i = 0 THEN 0 ELSE 1
AbsOf(i)   == IF i < 0 THEN -i ELSE i

\* A machine after a kernel, and after one that returns a carry.
With(s, m) == [s EXCEPT !.m = m]

\* hebi_zgrow__, hebi_zgrowcopy__ and hebi_zgrowcopyif__
Grow(s, r, n, keep) ==
    LET old == s.m[r]
        kept == IF keep THEN 0 .. Used(s, r) * PacketLimbs - 1 ELSE {}
    IN  IF n <= s.z[r].resv THEN s
        ELSE [s EXCEPT !.m[r] = [i \in 0 .. n * PacketLimbs - 1 |-> IF i \in kept THEN old[i] ELSE s.junk],
                       !.z[r].resv = n]

Finish(s, r, used, sign) == [s EXCEPT !.z[r].used = used, !.z[r].sign = sign]

zsetzero(s, r) == [s EXCEPT !.z[r].sign = 0]

\* The result has n packets, and is zero if it has none.
Settle(s, r, n, sign) == IF n = 0 THEN zsetzero(s, r) ELSE Finish(s, r, n, sign)

\* A carry out of n packets is one packet more.
Carried(s, r, k, n, sign) ==
    IF k.c = 0 THEN Finish(With(s, k.m), r, n, sign)
    ELSE Finish(With(s, psetu(k.m, Skip(Ptr(r), n), k.c)), r, n + 1, sign)

Normed(s, m, r, n, sign) == Settle(With(s, m), r, pnorm(m, Ptr(r), n), sign)

\* hebi_zset and hebi_zset_copy
zset(s, r, a) ==
    LET n == Used(s, a)
        t == Grow(s, r, n, FALSE)
    IN  IF r = a THEN s
        ELSE IF Sign(s, a) = 0 THEN zsetzero(s, r)
        ELSE Finish(With(t, pcopy(t.m, Ptr(r), Ptr(a), n)), r, n, Sign(s, a))

zsetu(s, r, x) ==
    LET t == Grow(s, r, 1, FALSE)
    IN  IF x = 0 THEN zsetzero(s, r) ELSE Finish(With(t, psetu(t.m, Ptr(r), x)), r, 1, 1)

zseti(s, r, x) ==
    LET t == zsetu(s, r, AbsOf(x)) IN [t EXCEPT !.z[r].sign = IF x < 0 THEN -1 ELSE @]

zneg(s, r, a) == LET t == zset(s, r, a) IN [t EXCEPT !.z[r].sign = -@]
zabs(s, r, a) == LET t == zset(s, r, a) IN [t EXCEPT !.z[r].sign = AbsOf(@)]

zswap(s, r, t) ==
    [s EXCEPT !.m[r] = s.m[t], !.m[t] = s.m[r], !.z[r] = s.z[t], !.z[t] = s.z[r]]

\* hebi_zinit_push__ and hebi_zdestroy_pop__; the scratch buffer of n packets
Nothing == [resv |-> 0, used |-> 0, sign |-> 0]
NoObject(s, t) == [s EXCEPT !.m[t] = NewBuffer(0, 0), !.z[t] = Nothing]
Scratch(s, n) == [s EXCEPT !.m["scratch"] = NewBuffer(n, s.junk), !.z["scratch"].resv = n]

-----------------------------------------------------------------------------
(* Sums *)

\* r := |a| + |b|, where a has at least as many packets as b
AddPackets(s, r, a, b, sign) ==
    LET n == Used(s, a)
        t == Grow(s, r, n + 1, r \in {a, b})
    IN  Carried(t, r, padd(t.m, Ptr(r), Ptr(a), Ptr(b), n, Used(s, b)), n, sign)

\* r := |a| - |b|, where |a| > |b|
SubPackets(s, r, a, b, sign) ==
    LET n == Used(s, a)
        t == Grow(s, r, n, r \in {a, b})
        k == psub(t.m, Ptr(r), Ptr(a), Ptr(b), n, Used(s, b))
    IN  Normed(t, k.m, r, n, sign)

\* A slip: numbers of one length are taken to be in order.
Order_ByLength(s, a, b) == IF Used(s, a) < Used(s, b) THEN -1 ELSE 1

\* Which magnitude is the larger?
Order(s, a, b) ==
    IF Used(s, a) # Used(s, b) THEN SignOf(Used(s, a) - Used(s, b))
    ELSE pcmp(s.m, Ptr(a), Ptr(b), Used(s, a))

\* r := |a| * sign - |b| * sign
Difference(s, r, a, b, sign) ==
    LET c == Order(s, a, b)
    IN  IF c = 0 THEN zsetzero(s, r)
        ELSE IF c > 0 THEN SubPackets(s, r, a, b, sign)
        ELSE SubPackets(s, r, b, a, -sign)

\* hebi_zaddsub__: the longer number is the first, and r if it is one of two
zaddsub(s, r, a, b, as, bs) ==
    LET swap == Used(s, a) < Used(s, b) \/ (Used(s, a) = Used(s, b) /\ r = b)
    IN  IF as # bs THEN Difference(s, r, a, b, as)
        ELSE IF swap THEN AddPackets(s, r, b, a, bs)
        ELSE AddPackets(s, r, a, b, as)

zadd(s, r, a, b) ==
    IF Sign(s, a) = 0 THEN zset(s, r, b)
    ELSE IF Sign(s, b) = 0 THEN zset(s, r, a)
    ELSE zaddsub(s, r, a, b, Sign(s, a), Sign(s, b))

\* A slip: the second operand is negated where it is.
zsub_Flip(s, r, a, b) == zadd(zneg(s, b, b), r, a, b)

zsub(s, r, a, b) ==
    IF Sign(s, a) = 0 THEN zneg(zset(s, r, b), r, r)
    ELSE IF Sign(s, b) = 0 THEN zset(s, r, a)
    ELSE zaddsub(s, r, a, b, Sign(s, a), -Sign(s, b))

zaddmag(s, r, a, b) ==
    IF Sign(s, a) = 0 THEN zabs(s, r, b)
    ELSE IF Sign(s, b) = 0 THEN zabs(s, r, a)
    ELSE zaddsub(s, r, a, b, 1, 1)

zsubmag(s, r, a, b) ==
    IF Sign(s, a) = 0 THEN zneg(zabs(s, r, b), r, r)
    ELSE IF Sign(s, b) = 0 THEN zabs(s, r, a)
    ELSE Difference(s, r, a, b, 1)

\* The first limbs of a number, which a word is compared with.
First(s, a)  == Get(s.m, Ptr(a), 0)
Second(s, a) == Get(s.m, Ptr(a), 1)

\* hebi_zaddsubu__
zaddsubu(s, r, a, x, as, bs) ==
    LET n == Used(s, a)
        t == Grow(s, r, n + 1, r = a)
        u == Grow(s, r, n, FALSE)
        small == Grow(s, r, 1, FALSE)
        c == x - First(s, a)
    IN  IF as = bs THEN Carried(t, r, paddu(t.m, Ptr(r), Ptr(a), x, n), n, as)
        ELSE IF n > 1 \/ First(s, a) > x \/ Second(s, a) # 0
        THEN Normed(u, psubu(u.m, Ptr(r), Ptr(a), x, n).m, r, n, as)
        ELSE IF c = 0 THEN zsetzero(s, r)
        ELSE Finish(With(small, psetu(small.m, Ptr(r), c)), r, 1, bs)

zaddu(s, r, a, x) ==
    IF x = 0 THEN zset(s, r, a)
    ELSE IF Sign(s, a) = 0 THEN zsetu(s, r, x)
    ELSE zaddsubu(s, r, a, x, Sign(s, a), 1)

zsubu(s, r, a, x) ==
    IF x = 0 THEN zset(s, r, a)
    ELSE IF Sign(s, a) = 0 THEN zneg(zsetu(s, r, x), r, r)
    ELSE zaddsubu(s, r, a, x, Sign(s, a), -1)

zaddi(s, r, a, x) == IF x < 0 THEN zsubu(s, r, a, -x) ELSE zaddu(s, r, a, x)
zsubi(s, r, a, x) == IF x < 0 THEN zaddu(s, r, a, -x) ELSE zsubu(s, r, a, x)
znot(s, r, a)     == zneg(zaddu(s, r, a, 1), r, r)

-----------------------------------------------------------------------------
(* Comparisons and conversions: what is returned *)

zcmp(s, a, b) ==
    IF Sign(s, a) # Sign(s, b) THEN SignOf(Sign(s, a) - Sign(s, b))
    ELSE IF Sign(s, a) = 0 THEN 0
    ELSE Sign(s, a) * Order(s, a, b)

zcmpmag(s, a, b) ==
    IF Sign(s, a) = 0 THEN (IF Sign(s, b) = 0 THEN 0 ELSE -1)
    ELSE IF Sign(s, b) = 0 THEN 1
    ELSE Order(s, a, b)

\* The first packet of a against the word x.
FirstPacket(s, a, x) ==
    IF \E i \in 1 .. PacketLimbs - 1 : Get(s.m, Ptr(a), i) # 0 THEN 1 ELSE SignOf(First(s, a) - x)

zcmpu(s, a, x) ==
    IF x = 0 THEN Sign(s, a)
    ELSE IF Sign(s, a) <= 0 THEN -1
    ELSE FirstPacket(s, a, x)

zcmpi(s, a, x) ==
    IF x = 0 THEN Sign(s, a)
    ELSE IF Sign(s, a) # SignOf(x) THEN (IF x < 0 THEN 1 ELSE -1)
    ELSE Sign(s, a) * FirstPacket(s, a, AbsOf(x))

\* The word nearest to a, of hebi_zgetsu and hebi_zgetsi.
OneWord(s, a) == Used(s, a) <= 1 /\ Second(s, a) = 0

zgetsu(s, a) ==
    IF Sign(s, a) <= 0 THEN 0 ELSE IF OneWord(s, a) THEN First(s, a) ELSE Base - 1

zgetsi(s, a) ==
    IF Sign(s, a) = 0 THEN 0
    ELSE IF OneWord(s, a) /\ First(s, a) < HighBit THEN Sign(s, a) * First(s, a)
    ELSE IF Sign(s, a) < 0 THEN -HighBit ELSE HighBit - 1

\* The low word of a, of hebi_zgetu and hebi_zgeti, as a signed word if need be.
Signed(x) == IF x % Base < HighBit THEN x % Base ELSE (x % Base) - Base
zgetu(s, a) == IF Sign(s, a) = 0 THEN 0 ELSE First(s, a)
zgeti(s, a) == IF Sign(s, a) = 0 THEN 0 ELSE Signed(Sign(s, a) * First(s, a))

=============================================================================
