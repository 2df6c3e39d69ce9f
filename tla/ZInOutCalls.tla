---------------------------- MODULE ZInOutCalls ----------------------------
(***************************************************************************)
(* Texts read into the integer w or into packets, the integer x written    *)
(* into buffers of every length and read back, and random numbers drawn    *)
(* into w one after the other.                                             *)
(***************************************************************************)
EXTENDS ZInOut

CONSTANTS
    Numbers,         \* integers x: a sign and the limbs of `used` packets
    Text,           \* what is read: the parts of a string, and how it is read
    Format,         \* how x is written
    RoomMax,        \* bound: characters of the buffer that x is written to
    Generator,      \* random number generators to start with: HEBI_KISS_INIT, or
                    \* one with any samples and a carry that is small enough
    RandomBits,     \* bits asked for
    MaxDraws        \* bound: random numbers drawn one after the other

ASSUME ZInOutCallsAssumption ==
    /\ \A v \in Numbers : /\ v.sign \in {-1, 0, 1} /\ v.used \in Nat
                         /\ v.limbs \in [0 .. v.used * PacketLimbs - 1 -> Limb]
    /\ \A k \in Generator :
          /\ k \in [multi : Seq(Limb), index : Nat, carry : 0 .. 2 ^ MwcShift - 1,
                    congruential : Limb, xorshift : Limb]
          /\ k.index < Len(k.multi)
    /\ RandomBits \subseteq Nat /\ RoomMax \in Nat /\ MaxDraws \in Nat
    /\ \A t \in Text : t.al \in Alphabet /\ t.radix \in 2 .. maxradix(t.al) /\ t.value \in Nat
    /\ \A f \in Format : f.al \in Alphabet

VARIABLES mach, kiss, call

vars == <<mach, kiss, call>>

Junk == Base - 1

\* w holds one packet of which nothing is known.
Init ==
    /\ \E v \in Numbers :
          mach = [junk |-> Junk,
                  m |-> [o \in Object |-> IF o = "x" THEN v.limbs ELSE NewBuffer(Bit(o = "w"), Junk)],
                  z |-> [o \in Object |-> IF o = "x" THEN [resv |-> v.used, used |-> v.used, sign |-> v.sign]
                                          ELSE [resv |-> Bit(o = "w"), used |-> 0, sign |-> 0]]]
    /\ kiss \in Generator
    /\ call = [op |-> "none", was |-> [draws |-> 0]]

X == Sign(mach, "x") * Value(mach.m, Ptr("x"), hebi_zused(mach, "x"))
W == Sign(mach, "w") * Value(mach.m, Ptr("w"), hebi_zused(mach, "w"))

\* x and the generator do not matter to every call.
Start(v, g) == call.op = "none" /\ (v \/ X = 0) /\ (g \/ kiss = CHOOSE k \in Generator : TRUE)

-----------------------------------------------------------------------------
(* Spelling: the strings that stand for a number *)

Times(n, c) == [i \in 1 .. n |-> c]

\* The digits of v; none for 0.
Numeral(v, radix, al) ==
    LET n == IF v = 0 THEN 0 ELSE 1 + FloorLog(radix, v)
    IN  [i \in 1 .. n |-> alphalut[al][1 + ((v \div radix ^ (n - i)) % radix)]]

\* The parts of a text: blanks, a sign, a prefix, zeros, digits, and what does
\* not belong there.
Until(t)  == t.lead \o t.mark \o t.prefix \o Times(t.zeros, ZeroOf(t.al)) \o Numeral(t.value, t.radix, t.al)
Spelt(t)  == Until(t) \o t.rest

\* Blanks and padding behind a zero are taken off.  Behind other digits the end goes
\* back to that of the string, and they are in the way.
Ending(t) ==
    (IF "TRIM" \in t.flags THEN Blank ELSE {}) \union (IF "PAD" \in t.flags THEN PadOf(t.al) ELSE {})
Legal(t)  ==
    /\ \A i \in DOMAIN t.rest : t.value = 0 /\ t.rest[i] \in Ending(t)
    /\ t.value # 0 \/ t.zeros > 0

\* x in format f.
SignPart(f)   == IF X < 0 THEN <<"-">> ELSE IF "SIGN" \in f.flags THEN <<"+">> ELSE <<>>
PrefixPart(f) ==
    IF "RADIX" \notin f.flags \/ IsRfc(f.al) THEN <<>>
    ELSE IF f.base = 2 THEN <<"0", "b">> ELSE IF f.base = 16 THEN <<"0", "x">>
    ELSE IF f.base = 8 /\ X # 0 THEN <<"0">> ELSE <<>>
DigitPart(f)  == IF X = 0 THEN <<ZeroOf(f.al)>> ELSE Numeral(AbsOf(X), f.base, f.al)
Written(f)    == SignPart(f) \o PrefixPart(f) \o DigitPart(f)

-----------------------------------------------------------------------------
(* Calls *)

\* hebi_zsetstr
Reading ==
    /\ Start(FALSE, FALSE)
    /\ \E t \in Text :
          LET e == zsetstr(mach, "w", Spelt(t), t.base, t.al, t.flags)
          IN  /\ mach' = e.s
              /\ call' = [op |-> "zsetstr", text |-> t, ret |-> e.ret, cur |-> e.cur,
                          raised |-> e.raised, fits |-> e.fits, was |-> mach]
    /\ UNCHANGED kiss

\* hebi_psetstrprepare and hebi_psetstr into n packets, asked for or not
ReadingPackets ==
    /\ Start(FALSE, FALSE)
    /\ \E t \in Text, n \in 1 .. MaxLength + 1 :
          LET st == psetstrprepare(Spelt(t), t.base, t.al, t.flags \union {"RADIX", "SIGN"})
              s  == [mach EXCEPT !.m["w"] = NewBuffer(n, Junk), !.z["w"].resv = n]
              e  == psetstr(s.m, Ptr("w"), n, st)
          IN  /\ st.ret \notin {0, SIZE_MAX}
              /\ mach' = With(s, e.m)
              /\ call' = [op |-> "psetstr", text |-> t, room |-> n, wanted |-> st.ret, ret |-> e.ret,
                          err |-> e.err, was |-> mach]
    /\ UNCHANGED kiss

\* hebi_zgetstr into len characters
Writing ==
    /\ Start(TRUE, FALSE)
    /\ \E f \in Format, len \in 0 .. RoomMax :
          LET out == [i \in 0 .. len - 1 |-> "?"]
              e   == zgetstr(mach, "x", out, len, f.base, f.al, f.flags)
          IN  /\ mach' = e.s
              /\ call' = [op |-> "zgetstr", format |-> f, len |-> len, out |-> e.out, ret |-> e.ret,
                          raised |-> e.raised, was |-> mach]
    /\ UNCHANGED kiss

\* hebi_zsetstr of what hebi_zgetstr has written, in the same base or, with a
\* prefix, in the one that it names
ReadingBack ==
    /\ call.op = "zgetstr"
    /\ call.raised = "ENONE" /\ call.ret < call.len
    /\ \E base \in {call.format.base} \union (IF PrefixPart(call.format) # <<>> THEN {0} ELSE {}) :
          LET str == [i \in 1 .. call.ret |-> call.out[i - 1]]
              e   == zsetstr(mach, "w", str, base, call.format.al, {})
          IN  /\ mach' = e.s
              /\ call' = [op |-> "again", format |-> call.format, base |-> base, ret |-> e.ret,
                          fits |-> e.fits, was |-> call.was]
    /\ UNCHANGED kiss

\* hebi_zgetstrlen
Measuring ==
    /\ Start(TRUE, FALSE)
    /\ \E f \in Format :
          call' = [op |-> "zgetstrlen", format |-> f, ret |-> zgetstrlen(mach, "x", f.base, f.flags), was |-> mach]
    /\ UNCHANGED <<mach, kiss>>

\* hebi_zrand_kiss, once more
Drawing ==
    /\ Start(FALSE, TRUE) \/ call.op = "zrand"
    /\ call.was.draws < MaxDraws
    /\ \E bits \in RandomBits :
          LET e == zrand_kiss(mach, "w", bits, kiss)
          IN  /\ mach' = e.s
              /\ kiss' = e.k
              /\ call' = [op |-> "zrand", bits |-> bits,
                          was |-> [draws |-> call.was.draws + 1, kiss |-> kiss]]

Next == Reading \/ ReadingPackets \/ Writing \/ ReadingBack \/ Measuring \/ Drawing

Spec == Init /\ [][Next]_vars

-----------------------------------------------------------------------------
(* Properties *)

Is(op) == call.op = op

\* NoOverrun: no kernel stores outside the packets it was given, and nothing is
\* written outside the characters: psetstr with less room than it asked for, the
\* ring of pgetstr, the terminating NUL.
NoOverrun ==
    /\ \A o \in Object : DOMAIN mach.m[o] = 0 .. mach.z[o].resv * PacketLimbs - 1
    /\ Is("zgetstr") => DOMAIN call.out = 0 .. call.len - 1

\* There are numbers of k digits that are longer than the longest one.
TooLong(radix, k) == radix ^ k >= 2 ^ (PacketBit * MaxLength)

\* A 0 with nothing behind it is taken for the prefix of base 8.
LoneZero(t) == t.base = 0 /\ t.prefix = <<>> /\ t.value = 0 /\ t.zeros = 1

\* ReadExact: zsetstr reads exactly the numbers that a string spells, in every
\* alphabet and base, with signs, prefixes and zeros in front and, of a zero, blanks
\* and padding behind; of any other it makes 0 and tells the character that is in the
\* way, before or after the digits of a full limb, which may be a blank or padding
\* that hebi_psetstrprepare has passed over.  An error is raised only for strings that are too long.  Numbers
\* that do not fit are those of ReadFits.
ReadExact ==
    Is("zsetstr") =>
        LET t == call.text
            k == Len(Numeral(t.value, t.radix, t.al)) + Len(t.rest)
        IN  IF ~call.fits THEN PowerOf2(t.radix)
            ELSE IF call.raised # "ENONE" THEN call.raised = "EBADLENGTH" /\ TooLong(t.radix, k)
            ELSE IF ~Legal(t) THEN call.ret = 0 /\ W = 0 /\ call.cur = Len(Until(t))
            ELSE ~LoneZero(t) => call.ret = 1 /\ W = (IF t.mark = <<"-">> THEN -1 ELSE 1) * t.value

\* ReadFits: what zsetstr reads fits in what psetstrprepare asked room for, the
\* assertion used <= space before its swap.
ReadFits == Is("zsetstr") => call.fits

\* RoomToldOrRead: psetstr in n packets either reads the number or finds the
\* character in the way, or asks for more than n packets, and never for more than
\* one packet beyond the number itself; the estimate of psetstrprepare is only
\* too small for the shifts of a base that is a power of two.
RoomToldOrRead ==
    Is("psetstr") =>
        LET t == call.text IN
        \/ /\ call.err = "ENONE" /\ t.rest = <<>>
           /\ call.ret <= call.room
           /\ Value(mach.m, Ptr("w"), call.ret) = t.value
           /\ pnorm(mach.m, Ptr("w"), call.ret) = call.ret
        \/ call.err = "EBADSYNTAX" /\ call.ret = SIZE_MAX /\ t.rest # <<>>
        \/ /\ call.err = "EBADLENGTH"
           /\ call.ret > call.room
           /\ call.room >= call.wanted => PowerOf2(t.radix)

\* The alphabet has the digits of the base.
Possible(f) == f.base \in 2 .. maxradix(f.al)

\* WriteExact: a string that has room is the number; one that does not is the
\* front part of it and a NUL, whatever the buffer cuts: the sign, the prefix, or
\* the digits, which are made lowest first.  The length is that of the whole.
WriteExact ==
    Is("zgetstr") /\ Possible(call.format) =>
        LET whole == Written(call.format)
            shown == IF Len(whole) < call.len THEN Len(whole) ELSE call.len - 1
        IN  /\ call.ret = Len(whole)
            /\ call.len > 0 =>
                  /\ \A i \in 1 .. shown : call.out[i - 1] = whole[i]
                  /\ call.out[shown] = NUL

\* RoundTrip: what is written in a base is read as the same number, with the base
\* or, if it has a prefix, without (check/p/strings.c, for packets).
RoundTrip ==
    /\ Is("again")
    /\ Possible(call.format)
    /\ ~TooLong(call.format.base, Len(DigitPart(call.format)))
    /\ call.fits
    => call.ret = 1 /\ W = X

\* LengthBound: hebi_zgetstrlen is never less than the length of the string, and
\* at most one more; it does not know that the alphabets of RFC 4648 have no
\* prefixes.  The table has no entries for base 63.
LengthBound ==
    Is("zgetstrlen") /\ Possible(call.format) /\ call.format.base # 63 =>
        LET len  == Len(Written(call.format))
            none == IsRfc(call.format.al) /\ "RADIX" \in call.format.flags
        IN  call.ret \in len .. len + 1 + 2 * Bit(none)

\* The generator as a recurrence: a sample and the carry are the low and the high
\* part of a product, and the parts are independent.
Sample(k) == k.multi[k.index + 1] * (2 ^ MwcShift - 1) + k.carry
NextKiss(k) ==
    [multi |-> [k.multi EXCEPT ![k.index + 1] = Sample(k) % Base],
     index |-> (k.index + 1) % Len(k.multi), carry |-> Sample(k) \div Base,
     congruential |-> (k.congruential * LcgFactor + LcgTerm) % Base, xorshift |-> xorshift(k.xorshift)]
Output(k) == (k.multi[((k.index - 1) % Len(k.multi)) + 1] + k.congruential + k.xorshift) % Base

\* Generator k and what it is after each of n limbs.
Kisses(n, k) ==
    LET after[i \in 0 .. n] == IF i = 0 THEN k ELSE NextKiss(after[i - 1]) IN after

\* The bits of limb i of `bits` bits.
LimbBits(bits, i) ==
    LET top == DivUp(bits, LimbBit) - 1 IN IF i < top THEN LimbBit ELSE bits - top * LimbBit

\* RandomExact: the limbs drawn are those of the recurrence, one after the other
\* within a call and from call to call, cut to the bits asked for; the rest of the
\* packets is zero.
RandomExact ==
    Is("zrand") =>
        LET n     == DivUp(call.bits, LimbBit)
            after == Kisses(n, call.was.kiss)
        IN  /\ \A f \in DOMAIN kiss \ {"out"} : kiss[f] = after[n][f]
            /\ \A i \in 0 .. Used(mach, "w") * PacketLimbs - 1 :
                  n > 0 => Get(mach.m, Ptr("w"), i)
                           = (IF i < n THEN Output(after[i + 1]) % 2 ^ LimbBits(call.bits, i) ELSE 0)

=============================================================================
