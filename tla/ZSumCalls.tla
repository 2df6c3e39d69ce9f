----------------------------- MODULE ZSumCalls -----------------------------
(***************************************************************************)
(* One call of the arithmetic on integers x, y and w, whatever x and y     *)
(* are, whichever of the three is the result, and however large its buffer *)
(* is, compared with what the call is to compute: the state of the system  *)
(* and the calls of ZSums.  ZArithCalls has the other calls.               *)
(***************************************************************************)
EXTENDS ZSums

CONSTANTS
    Operands,       \* pairs of operands: a sign and the limbs of `used` packets
    Word,           \* words passed to calls: uint64_t
    ShortMax        \* bound: packets of operands of calls that are not products

\* An operand has no zeros for packets above its number, as calls leave it.
IsOperand(v) ==
    /\ v.sign \in {-1, 0, 1} /\ v.used \in Nat
    /\ v.limbs \in [0 .. v.used * PacketLimbs - 1 -> Limb]
    /\ v.sign # 0 =>
          \E i \in (v.used - 1) * PacketLimbs .. v.used * PacketLimbs - 1 : i >= 0 /\ v.limbs[i] # 0

ASSUME ZSumCallsAssumption ==
    /\ Word \subseteq Limb /\ ShortMax \in Nat
    /\ \A v \in Operands : \A i \in {1, 2} : IsOperand(v[i])

VARIABLES mach, call

vars == <<mach, call>>

Int64 == {Signed(x) : x \in Word}

\* An integer of value v with n packets more than it needs, of which nothing is
\* known; the packets of a zero are junk as well.
Length(v) == IF v.sign = 0 THEN 0 ELSE v.used
Stored(v, n, junk) ==
    [i \in 0 .. (Length(v) + n) * PacketLimbs - 1 |->
        IF i < Length(v) * PacketLimbs THEN v.limbs[i] ELSE junk]
Header(v, n) == [resv |-> Length(v) + n, used |-> Length(v), sign |-> v.sign]

\* w is a zero that was a number of n packets, or never anything.
Start(v, n, junk) ==
    [junk |-> junk,
     m |-> [o \in Object |->
        CASE o = "x" -> Stored(v[1], n, junk)
          [] o = "y" -> Stored(v[2], n, junk)
          [] o = "w" -> NewBuffer(n, junk)
          [] OTHER   -> NewBuffer(0, junk)],
     z |-> [o \in Object |->
        CASE o = "x" -> Header(v[1], n)
          [] o = "y" -> Header(v[2], n)
          [] o = "w" -> [resv |-> n, used |-> n, sign |-> 0]
          [] OTHER   -> Nothing]]

Init ==
    /\ \E v \in Operands, n \in {0, 1}, junk \in {0, Base - 1} :
          (n = 0 => junk # 0) /\ mach = Start(v, n, junk)
    /\ call = [op |-> "none"]

\* The call op with operands x and b, or x and the word k, has changed only the
\* integers of `out`, and returned ret.
Did(op, out, b, k, s, ret, rare) ==
    /\ call.op = "none"
    /\ mach' = s
    /\ call' = [op |-> op, out |-> out, b |-> b, k |-> k, ret |-> ret, rare |-> rare, was |-> mach]

Made(op, r, b, s)     == Did(op, {r}, b, 0, s, 0, FALSE)
MadeWith(op, r, k, s) == Did(op, {r}, Null, k, s, 0, FALSE)
Told(op, b, k, ret)   == Did(op, {}, b, k, mach, ret, FALSE)

\* y may be an operand; if it is zero the call is also made on x twice.
Partner == IF Sign(mach, "y") = 0 THEN {"x", "y"} ELSE {"y"}
Short   == \A z \in Zvar : Used(mach, z) <= ShortMax
Alone   == Short /\ Sign(mach, "y") = 0

Sums ==
    /\ Short
    /\ \E r \in Zvar, b \in Partner :
          \/ Made("zadd", r, b, zadd(mach, r, "x", b))
          \/ Made("zsub", r, b, zsub(mach, r, "x", b))
          \/ Made("zaddmag", r, b, zaddmag(mach, r, "x", b))
          \/ Made("zsubmag", r, b, zsubmag(mach, r, "x", b))

WordSums ==
    /\ Alone
    /\ \E r \in {"x", "w"} :
          \/ \E k \in Word :
                \/ MadeWith("zaddu", r, k, zaddu(mach, r, "x", k))
                \/ MadeWith("zsubu", r, k, zsubu(mach, r, "x", k))
                \/ MadeWith("zsetu", r, k, zsetu(mach, r, k))
          \/ \E k \in Int64 :
                \/ MadeWith("zaddi", r, k, zaddi(mach, r, "x", k))
                \/ MadeWith("zsubi", r, k, zsubi(mach, r, "x", k))
                \/ MadeWith("zseti", r, k, zseti(mach, r, k))
          \/ Made("zset", r, Null, zset(mach, r, "x"))
          \/ Made("zneg", r, Null, zneg(mach, r, "x"))
          \/ Made("zabs", r, Null, zabs(mach, r, "x"))
          \/ Made("znot", r, Null, znot(mach, r, "x"))

Comparisons ==
    /\ Short
    /\ \E b \in Partner :
          \/ Told("zcmp", b, 0, zcmp(mach, "x", b))
          \/ Told("zcmpmag", b, 0, zcmpmag(mach, "x", b))

WordComparisons ==
    /\ Alone
    /\ \/ \E k \in Word : Told("zcmpu", Null, k, zcmpu(mach, "x", k))
       \/ \E k \in Int64 : Told("zcmpi", Null, k, zcmpi(mach, "x", k))

Conversions ==
    /\ Alone
    /\ \/ Told("zgetu", Null, 0, zgetu(mach, "x"))
       \/ Told("zgeti", Null, 0, zgeti(mach, "x"))
       \/ Told("zgetsu", Null, 0, zgetsu(mach, "x"))
       \/ Told("zgetsi", Null, 0, zgetsi(mach, "x"))

SumNext == Sums \/ WordSums \/ Comparisons \/ WordComparisons \/ Conversions

-----------------------------------------------------------------------------
(* Properties *)

\* The integer that object o of machine s stands for.
Num(s, o) == Sign(s, o) * Value(s.m, Ptr(o), hebi_zused(s, o))

\* The operands before the call, and its result.
X   == Num(call.was, "x")
Y   == Num(call.was, call.b)
Out == Num(mach, CHOOSE z \in call.out : TRUE)

Is(ops) == call.op \in ops

\* Canonical: a call leaves every integer in the one form that the other calls
\* rely on: a sign, and if it is not zero a length within the capacity whose top
\* packet is not zero.  zcmp, zaddsub__ and zdivrem decide by length alone.
Canonical ==
    \A o \in Zvar :
        LET z == mach.z[o] IN
        /\ z.sign \in {-1, 0, 1}
        /\ z.sign # 0 =>
              /\ z.used \in 1 .. z.resv
              /\ pnorm(mach.m, Ptr(o), z.used) = z.used

\* NoOverrun: no kernel stores outside the buffer it was given: the result made
\* room for by zgrow__, the temporaries of zmul and zdivrem, and the scratch
\* buffer sized by zdivrem and the p*_karatsuba_space functions.
NoOverrun ==
    \A o \in Object : DOMAIN mach.m[o] = 0 .. mach.z[o].resv * PacketLimbs - 1

\* OnlyResultWritten: an operand that is not the result is what it was, to the
\* last limb of its buffer; results that are operands are allowed everywhere.
OnlyResultWritten ==
    ~Is({"none"}) =>
        \A o \in Zvar \ call.out : mach.m[o] = call.was.m[o] /\ mach.z[o] = call.was.z[o]

\* SumExact: sums and differences are those of the integers, whatever the signs,
\* the lengths and the carries, and with the result in place of an operand.
SumExact ==
    /\ Is({"zadd"}) => Out = X + Y
    /\ Is({"zsub"}) => Out = X - Y
    /\ Is({"zaddmag"}) => Out = AbsOf(X) + AbsOf(Y)
    /\ Is({"zsubmag"}) => Out = AbsOf(X) - AbsOf(Y)
    /\ Is({"zaddu", "zaddi"}) => Out = X + call.k
    /\ Is({"zsubu", "zsubi"}) => Out = X - call.k
    /\ Is({"zsetu", "zseti"}) => Out = call.k
    /\ Is({"zset"}) => Out = X
    /\ Is({"zneg"}) => Out = -X
    /\ Is({"zabs"}) => Out = AbsOf(X)
    /\ Is({"znot"}) => Out = -X - 1

\* CompareExact: comparisons order the integers; the saturating conversions give
\* the nearest word, the others the low word.  A number of several packets is
\* compared with a word by its first packet alone (zcmpu.c:19), which is not its order.
CompareExact ==
    LET near(lo, hi) == IF X < lo THEN lo ELSE IF X > hi THEN hi ELSE X
    IN  /\ Is({"zcmp"}) => call.ret = SignOf(X - Y)
        /\ Is({"zcmpmag"}) => call.ret = SignOf(AbsOf(X) - AbsOf(Y))
        /\ Is({"zcmpu", "zcmpi"}) /\ hebi_zused(call.was, "x") <= 1 => call.ret = SignOf(X - call.k)
        /\ Is({"zgetsu"}) => call.ret = near(0, Base - 1)
        /\ Is({"zgetsi"}) => call.ret = near(-HighBit, HighBit - 1)
        /\ Is({"zgetu"}) => call.ret = AbsOf(X) % Base
        /\ Is({"zgeti"}) => call.ret = Signed(X)

=============================================================================
