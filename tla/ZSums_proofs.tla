---------------------------- MODULE ZSums_proofs ----------------------------
(***************************************************************************)
(* Sums, differences, comparisons and conversions of integers of every     *)
(* length, products with words, and products and squares by rows are       *)
(* right, for every size of the limbs and with the result in place of      *)
(* either operand.                                                         *)
(*                                                                         *)
(* Good is the invariant: every object has the buffer that its capacity    *)
(* promises, and every integer is canonical.  Each call is shown to lead   *)
(* from a good machine to a good machine that differs in the result alone, *)
(* which is the number the call is to compute (Makes); so any sequence of  *)
(* calls does.  The kernels are those of Packets_proofs.                   *)
(*                                                                         *)
(* The properties of ZSumCalls and ZProductCalls follow for the            *)
(* specification ProductSpec; that of products, which is stated in         *)
(* residues, follows from the products themselves (TrueProduct).           *)
(***************************************************************************)
EXTENDS ZProductCalls, Packets_proofs

-----------------------------------------------------------------------------
(* Machines *)

Buffer  == UNION {[0 .. k - 1 -> Limb] : k \in Nat}
Head    == [resv : Nat, used : Nat, sign : {-1, 0, 1}]
Machine == [junk : Limb, m : [Object -> Buffer], z : [Object -> Head]]

\* Every object has the buffer that its capacity promises.
Sized(s) ==
    /\ s \in Machine
    /\ \A o \in Object : s.m[o] \in [0 .. s.z[o].resv * PacketLimbs - 1 -> Limb]

\* An integer is zero or has a top packet that is not.
CanonicalAt(s, o) ==
    Sign(s, o) # 0 => /\ Used(s, o) \in 1 .. s.z[o].resv
                      /\ Top(s.m, Ptr(o), Used(s, o))

Good(s) == Sized(s) /\ \A o \in Zvar : CanonicalAt(s, o)

\* Of the integers only r differs.
Only(s, t, r) == \A o \in Zvar \ {r} : t.m[o] = s.m[o] /\ t.z[o] = s.z[o]

\* t is s with the integer v in r.
Makes(s, t, r, v) == Good(t) /\ Only(s, t, r) /\ Num(t, r) = v

\* What the packets of an integer stand for.
Mag(s, o) == Value(s.m, Ptr(o), Used(s, o))

LEMMA SizedObject ==
    ASSUME NEW s, Sized(s), NEW o \in Object
    PROVE  /\ s.m[o] \in [0 .. s.z[o].resv * PacketLimbs - 1 -> Limb] /\ s.z[o] \in Head
           /\ s.z[o].resv \in Nat /\ Used(s, o) \in Nat /\ Sign(s, o) \in {-1, 0, 1}
           /\ s.junk \in Limb /\ o \in DOMAIN s.m /\ o \in DOMAIN s.z
  BY DEF Sized, Machine, Head, Used, Sign

LEMMA SizedMemory ==
    ASSUME NEW s, Sized(s)
    PROVE  /\ IsMemory(s.m) /\ DOMAIN s.m = Object
           /\ \A t : t \in Memory(s.m) => IsMemory(t) /\ DOMAIN t = Object
                                         /\ \A o \in Object : DOMAIN t[o] = DOMAIN s.m[o]
<1>1. s.m \in [Object -> Buffer] /\ DOMAIN s.m = Object
  BY DEF Sized, Machine
<1>2. \A o \in Object : s.m[o] \in [DOMAIN s.m[o] -> Limb]
  BY DEF Sized
<1>3. ASSUME NEW t, \A o \in Object : t[o] \in [DOMAIN s.m[o] -> Limb], t \in [Object -> {t[o] : o \in Object}]
      PROVE  t \in Memory(t) /\ t \in Memory(s.m)
  <2>1. DOMAIN t = Object /\ \A o \in Object : DOMAIN t[o] = DOMAIN s.m[o]
    BY <1>3
  <2>2. t \in [DOMAIN t -> UNION {[DOMAIN t[o] -> Limb] : o \in DOMAIN t}]
    BY <1>3, <2>1
  <2>3. t \in [DOMAIN s.m -> UNION {[DOMAIN s.m[o] -> Limb] : o \in DOMAIN s.m}]
    BY <1>1, <1>3
  <2>4. QED  BY <1>1, <1>3, <2>1, <2>2, <2>3 DEF Memory
<1>4. s.m \in Memory(s.m)
  BY <1>1, <1>2, <1>3
<1>5. ASSUME NEW t \in Memory(s.m)
      PROVE  t \in Memory(t) /\ DOMAIN t = Object /\ \A o \in Object : DOMAIN t[o] = DOMAIN s.m[o]
  <2>1. \A o \in Object : t[o] \in [DOMAIN s.m[o] -> Limb]
    BY <1>1 DEF Memory
  <2>2. t \in [Object -> {t[o] : o \in Object}]
    BY <1>1 DEF Memory
  <2>3. QED  BY <1>3, <2>1, <2>2
<1>6. QED  BY <1>1, <1>4, <1>5 DEF IsMemory

\* The packets that the capacity of an object promises are there.
LEMMA SizedArea ==
    ASSUME NEW s, Sized(s), NEW o \in Object, NEW n \in Nat, n =< s.z[o].resv
    PROVE  /\ Area(s.m, Ptr(o), n * PacketLimbs) /\ n * PacketLimbs \in Nat
           /\ Ptr(o).buf = o /\ Ptr(o).at = 0
<1>1. s.z[o].resv \in Nat /\ o \in DOMAIN s.m /\ DOMAIN s.m[o] = 0 .. s.z[o].resv * PacketLimbs - 1
  BY SizedObject
<1>2. /\ n * PacketLimbs \in Nat /\ s.z[o].resv * PacketLimbs \in Nat
      /\ n * PacketLimbs =< s.z[o].resv * PacketLimbs
  BY <1>1, MoreLimbs
<1>3. Ptr(o).buf = o /\ Ptr(o).at = 0
  BY DEF Ptr
<1>4. \A i \in 0 .. n * PacketLimbs - 1 : 0 + i \in DOMAIN s.m[o]
  BY <1>1, <1>2
<1>5. QED  BY <1>1, <1>2, <1>3, <1>4 DEF Area

\* hebi_zgrow__ and its kin make room and keep the packets that are used, if asked.
LEMMA GrowSized ==
    ASSUME NEW s, Sized(s), NEW r \in Object, NEW n \in Nat, NEW keep \in BOOLEAN,
           keep => Used(s, r) =< s.z[r].resv
    PROVE  LET t == Grow(s, r, n, keep)
           IN  /\ Sized(t) /\ Only(s, t, r)
               /\ t.z[r].resv >= n
               /\ \A o \in Object : Used(t, o) = Used(s, o) /\ Sign(t, o) = Sign(s, o)
                                    /\ t.z[o].resv >= s.z[o].resv
               /\ keep => \A i \in 0 .. Used(s, r) * PacketLimbs - 1 : t.m[r][i] = s.m[r][i]
<1> DEFINE t == Grow(s, r, n, keep)
           old == s.m[r]
           kept == IF keep THEN 0 .. Used(s, r) * PacketLimbs - 1 ELSE {}
           new == [i \in 0 .. n * PacketLimbs - 1 |-> IF i \in kept THEN old[i] ELSE s.junk]
           head == [s.z[r] EXCEPT !.resv = n]
<1>1. /\ s.z[r].resv \in Nat /\ Used(s, r) \in Nat /\ s.junk \in Limb
      /\ old \in [0 .. s.z[r].resv * PacketLimbs - 1 -> Limb] /\ s.z[r] \in Head
  BY SizedObject
<1>2. CASE n =< s.z[r].resv
  <2>1. t = s
    BY <1>2 DEF Grow
  <2>2. QED  BY <1>1, <1>2, <2>1, SizedObject DEF Only
<1>3. CASE ~(n =< s.z[r].resv)
  <2>1. t = [s EXCEPT !.m[r] = new, !.z[r].resv = n]
    BY <1>3 DEF Grow
  <2>2. s \in Machine
    BY DEF Sized
  <2>3. /\ t.junk = s.junk /\ t.m = [s.m EXCEPT ![r] = new] /\ t.z = [s.z EXCEPT ![r] = head]
        /\ t = [junk |-> t.junk, m |-> t.m, z |-> t.z]
    BY <2>1, <2>2 DEF Machine
  <2>4. n * PacketLimbs \in Nat
    BY MoreLimbs
  <2>5. /\ keep => Used(s, r) * PacketLimbs =< s.z[r].resv * PacketLimbs
        /\ Used(s, r) * PacketLimbs \in Nat /\ s.z[r].resv * PacketLimbs =< n * PacketLimbs
        /\ s.z[r].resv * PacketLimbs \in Nat
    <3>1. s.z[r].resv =< n
      BY <1>1, <1>3
    <3>2. s.z[r].resv * PacketLimbs \in Nat /\ s.z[r].resv * PacketLimbs =< n * PacketLimbs
      BY <1>1, <3>1, MoreLimbs
    <3>3. Used(s, r) * PacketLimbs \in Nat
      BY <1>1, MoreLimbs
    <3>4. keep => Used(s, r) * PacketLimbs =< s.z[r].resv * PacketLimbs
      BY <1>1, MoreLimbs
    <3>5. QED  BY <3>2, <3>3, <3>4
  <2>6. new \in [0 .. n * PacketLimbs - 1 -> Limb]
    <3>1. \A i \in kept : i \in 0 .. s.z[r].resv * PacketLimbs - 1
      BY <2>4, <2>5
    <3>2. \A i \in kept : old[i] \in Limb
      BY <1>1, <3>1
    <3>3. QED  BY <1>1, <3>2
  <2>7. new \in Buffer
    BY <2>4, <2>6 DEF Buffer
  <2>8. head \in Head /\ head.resv = n /\ head.used = s.z[r].used /\ head.sign = s.z[r].sign
    BY <1>1 DEF Head
  <2>9. keep => \A i \in 0 .. Used(s, r) * PacketLimbs - 1 : new[i] = old[i]
    BY <2>4, <2>5
  <2> HIDE DEF t, new, head, old, kept
  <2>10. /\ t.m[r] = new /\ t.z[r] = head
         /\ \A o \in Object \ {r} : t.m[o] = s.m[o] /\ t.z[o] = s.z[o]
    BY <2>2, <2>3 DEF Machine
  <2>11. t \in Machine
    BY <2>2, <2>3, <2>7, <2>8 DEF Machine
  <2>12. \A o \in Object : t.m[o] \in [0 .. t.z[o].resv * PacketLimbs - 1 -> Limb]
    BY <2>6, <2>8, <2>10, SizedObject
  <2>13. Sized(t) /\ Only(s, t, r)
    BY <2>10, <2>11, <2>12 DEF Sized, Only, Object
  <2>14. \A o \in Object : /\ Used(t, o) = Used(s, o) /\ Sign(t, o) = Sign(s, o)
                           /\ t.z[o].resv >= s.z[o].resv
    BY <1>1, <1>3, <2>8, <2>10, SizedObject DEF Used, Sign
  <2>15. QED  BY <1>1, <2>8, <2>9, <2>10, <2>13, <2>14 DEF t, old
<1>4. QED  BY <1>2, <1>3

-----------------------------------------------------------------------------
(* Results *)

\* A kernel that stores only in r.
LEMMA WithSized ==
    ASSUME NEW s, NEW t, Sized(t), NEW r \in Object, Only(s, t, r), NEW m, NEW k,
           OnlyAt(t.m, m, Ptr(r), k)
    PROVE  LET u == With(t, m)
           IN  /\ Sized(u) /\ Only(s, u, r) /\ u.m = m /\ u.z = t.z
<1> DEFINE u == With(t, m)
<1>1. t \in Machine /\ DOMAIN t.m = Object /\ \A o \in Object : DOMAIN t.m[o] = 0 .. t.z[o].resv * PacketLimbs - 1
  BY SizedObject, SizedMemory DEF Sized
<1>2. m \in Memory(t.m) /\ Ptr(r).buf = r
  BY DEF OnlyAt, Ptr
<1>3. /\ m \in [Object -> {m[o] : o \in Object}]
      /\ \A o \in Object : m[o] \in [0 .. t.z[o].resv * PacketLimbs - 1 -> Limb]
  BY <1>1, <1>2 DEF Memory
<1>4. ASSUME NEW o \in Object \ {r} PROVE m[o] = t.m[o]
  <2>1. \A i \in DOMAIN t.m[o] : m[o][i] = t.m[o][i]
    BY <1>1, <1>2 DEF OnlyAt
  <2>2. m[o] \in [DOMAIN t.m[o] -> Limb] /\ t.m[o] \in [DOMAIN t.m[o] -> Limb]
    BY <1>1, <1>3, SizedObject
  <2>3. QED  BY <2>1, <2>2
<1>5. \A o \in Object : m[o] \in Buffer
  <2>1. ASSUME NEW o \in Object PROVE m[o] \in Buffer
    <3>1. t.z[o].resv * PacketLimbs \in Nat
      BY SizedObject, MoreLimbs
    <3>2. QED  BY <1>3, <3>1 DEF Buffer
  <2>2. QED  BY <2>1
<1>6. m \in [Object -> Buffer]
  BY <1>3, <1>5
<1>7. u.m = m /\ u.z = t.z /\ u.junk = t.junk /\ u = [junk |-> u.junk, m |-> u.m, z |-> u.z]
  BY <1>1 DEF With, Machine
<1> HIDE DEF u
<1>8. u \in Machine
  BY <1>1, <1>6, <1>7 DEF Machine
<1>9. Sized(u)
  BY <1>3, <1>7, <1>8 DEF Sized
<1>10. Only(s, u, r)
  BY <1>4, <1>7 DEF Only, Object
<1>11. QED  BY <1>7, <1>9, <1>10 DEF u

\* A result gets its length and its sign.
Finished(s, t, u, r, n, sg) ==
    /\ Sized(u) /\ Only(s, u, r) /\ u.m = t.m /\ u.z[r].resv = t.z[r].resv
    /\ Used(u, r) = n /\ Sign(u, r) = sg

LEMMA FinishSized ==
    ASSUME NEW s, NEW t, Sized(t), NEW r \in Object, Only(s, t, r), NEW n \in Nat, NEW sg \in {-1, 0, 1}
    PROVE  Finished(s, t, Finish(t, r, n, sg), r, n, sg)
<1> DEFINE u == Finish(t, r, n, sg)
           head == [t.z[r] EXCEPT !.used = n, !.sign = sg]
<1>1. t \in Machine /\ t.z[r] \in Head
  BY SizedObject DEF Sized
<1>2. head \in Head /\ head.used = n /\ head.sign = sg /\ head.resv = t.z[r].resv
  BY <1>1 DEF Head
<1> DEFINE long == [t.z[r] EXCEPT !.used = n]
           z1   == [t.z EXCEPT ![r] = long]
           z2   == [t.z EXCEPT ![r] = head]
<1>9. t.z \in [Object -> Head] /\ long \in Head /\ t = [junk |-> t.junk, m |-> t.m, z |-> t.z]
  BY <1>1 DEF Machine, Head
<1>10. z1[r] = long /\ head = [long EXCEPT !.sign = sg] /\ [z1 EXCEPT ![r] = head] = z2
  <2>1. head = [long EXCEPT !.sign = sg]
    BY <1>1 DEF Head
  <2> HIDE DEF long, head
  <2>2. QED  BY <1>9, <2>1
<1>11. u = [t EXCEPT !.z = [z1 EXCEPT ![r] = [z1[r] EXCEPT !.sign = sg]]]
  <2>1. [t EXCEPT !.z = z1].z = z1 /\ [[t EXCEPT !.z = z1] EXCEPT !.z = [z1 EXCEPT ![r] = [z1[r] EXCEPT !.sign = sg]]]
                                  = [t EXCEPT !.z = [z1 EXCEPT ![r] = [z1[r] EXCEPT !.sign = sg]]]
    <3> HIDE DEF z1
    <3>1. QED  BY <1>1 DEF Machine
  <2>2. u = [[t EXCEPT !.z = z1] EXCEPT !.z = [[t EXCEPT !.z = z1].z EXCEPT ![r] = [[t EXCEPT !.z = z1].z[r] EXCEPT !.sign = sg]]]
    BY DEF Finish
  <2>3. QED  BY <2>1, <2>2
<1>12. u = [t EXCEPT !.z = z2]
  BY <1>10, <1>11
<1>3. u.m = t.m /\ u.z = [t.z EXCEPT ![r] = head] /\ u.junk = t.junk
      /\ u = [junk |-> u.junk, m |-> u.m, z |-> u.z]
  <2> HIDE DEF head, u
  <2>1. QED  BY <1>1, <1>12 DEF Machine
<1> HIDE DEF u, head
<1>4. u.z[r] = head /\ \A o \in Object \ {r} : u.z[o] = t.z[o]
  BY <1>1, <1>3 DEF Machine
<1>5. u \in Machine
  BY <1>1, <1>2, <1>3 DEF Machine
<1>6. \A o \in Object : u.m[o] \in [0 .. u.z[o].resv * PacketLimbs - 1 -> Limb]
  BY <1>2, <1>3, <1>4, SizedObject
<1>7. Sized(u) /\ Only(s, u, r)
  BY <1>3, <1>4, <1>5, <1>6 DEF Sized, Only
<1>8. QED  BY <1>2, <1>3, <1>4, <1>7 DEF Finished, u, Used, Sign

LEMMA SignIsFinish ==
    ASSUME NEW t, Sized(t), NEW r \in Object, NEW f
    PROVE  [t EXCEPT !.z[r].sign = f] = Finish(t, r, Used(t, r), f)
<1>1. t \in Machine /\ t.z[r] \in Head
  BY SizedObject DEF Sized
<1>2. [t.z[r] EXCEPT !.used = Used(t, r), !.sign = f] = [t.z[r] EXCEPT !.sign = f]
  BY <1>1 DEF Head, Used
<1>3. QED  BY <1>1, <1>2 DEF Finish, Machine

LEMMA ZeroIsFinish ==
    ASSUME NEW t, Sized(t), NEW r \in Object
    PROVE  zsetzero(t, r) = Finish(t, r, Used(t, r), 0)
  BY SignIsFinish DEF zsetzero

\* The number of an integer.
LEMMA GoodNum ==
    ASSUME NEW s, Good(s), NEW o \in Zvar
    PROVE  /\ Num(s, o) = IF Sign(s, o) = 0 THEN 0 ELSE Sign(s, o) * Mag(s, o)
           /\ o \in Object /\ Sized(s) /\ Used(s, o) \in Nat /\ Sign(s, o) \in {-1, 0, 1}
           /\ Sign(s, o) # 0 => /\ Mag(s, o) \in Int /\ Mag(s, o) > 0
                                /\ Used(s, o) > 0 /\ Used(s, o) =< s.z[o].resv
                                /\ Top(s.m, Ptr(o), Used(s, o))
<1>1. o \in Object /\ Sized(s) /\ CanonicalAt(s, o)
  BY DEF Good, Object
<1>2. Used(s, o) \in Nat /\ Sign(s, o) \in {-1, 0, 1} /\ s.z[o].resv \in Nat
  BY <1>1, SizedObject
<1>3. CASE Sign(s, o) = 0
  <2>1. hebi_zused(s, o) = 0
    BY <1>3 DEF hebi_zused
  <2>2. Area(s.m, Ptr(o), 0 * PacketLimbs) /\ 0 * PacketLimbs \in Nat /\ IsMemory(s.m)
    BY <1>1, <1>2, SizedArea, SizedMemory
  <2>3. Value(s.m, Ptr(o), 0) = 0
    BY <2>2, ValueNatural
  <2>4. Num(s, o) = 0
    BY <1>3, <2>1, <2>3 DEF Num
  <2>5. QED  BY <1>1, <1>2, <1>3, <2>4
<1>4. CASE Sign(s, o) # 0
  <2>1. Used(s, o) > 0 /\ Used(s, o) =< s.z[o].resv /\ Top(s.m, Ptr(o), Used(s, o))
    BY <1>1, <1>2, <1>4 DEF CanonicalAt
  <2>2. /\ Area(s.m, Ptr(o), Used(s, o) * PacketLimbs) /\ Used(s, o) * PacketLimbs \in Nat
        /\ IsMemory(s.m)
    BY <1>1, <1>2, <2>1, SizedArea, SizedMemory
  <2>3. Mag(s, o) \in Int /\ Mag(s, o) > 0
    BY <1>2, <2>1, <2>2, ValueNatural DEF Mag
  <2>4. Num(s, o) = Sign(s, o) * Mag(s, o)
    BY <1>4 DEF Num, hebi_zused, Mag
  <2>5. QED  BY <1>1, <1>2, <1>4, <2>1, <2>3, <2>4
<1>5. QED  BY <1>3, <1>4

\* Objects that are the same stay good.
LEMMA GoodOnly ==
    ASSUME NEW s, Good(s), NEW t, Sized(t), NEW r \in Zvar, Only(s, t, r), CanonicalAt(t, r)
    PROVE  Good(t)
<1>1. ASSUME NEW o \in Zvar \ {r} PROVE CanonicalAt(t, o)
  <2>1. t.m[o] = s.m[o] /\ t.z[o] = s.z[o] /\ CanonicalAt(s, o)
    BY DEF Only, Good, Object
  <2>2. \A n : Top(t.m, Ptr(o), n) <=> Top(s.m, Ptr(o), n)
    BY <2>1 DEF Top, Get, Ptr
  <2>3. QED  BY <2>1, <2>2 DEF CanonicalAt, Sign, Used
<1>2. QED  BY <1>1 DEF Good

LEMMA ZeroMakes ==
    ASSUME NEW s, Good(s), NEW t, Sized(t), NEW r \in Zvar, Only(s, t, r)
    PROVE  Makes(s, zsetzero(t, r), r, 0)
<1>1. r \in Object /\ Used(t, r) \in Nat
  BY SizedObject DEF Object
<1> DEFINE u == zsetzero(t, r)
<1>2. Sized(u) /\ Only(s, u, r) /\ Sign(u, r) = 0
  BY <1>1, ZeroIsFinish, FinishSized DEF Finished
<1> HIDE DEF u
<1>3. Good(u)
  BY <1>2, GoodOnly DEF CanonicalAt
<1>4. Num(u, r) = 0
  BY <1>2, <1>3, GoodNum
<1>5. QED  BY <1>2, <1>3, <1>4 DEF Makes, u

LEMMA FinishMakes ==
    ASSUME NEW s, Good(s), NEW t, Sized(t), NEW r \in Zvar, Only(s, t, r), NEW m, NEW k,
           OnlyAt(t.m, m, Ptr(r), k), NEW n \in Nat, n > 0, n =< t.z[r].resv, Top(m, Ptr(r), n),
           NEW sg \in {-1, 1}
    PROVE  Makes(s, Finish(With(t, m), r, n, sg), r, sg * Value(m, Ptr(r), n))
<1>1. r \in Object /\ sg \in {-1, 0, 1}
  BY DEF Object
<1> DEFINE w == With(t, m)
           u == Finish(w, r, n, sg)
<1>2. Sized(w) /\ Only(s, w, r) /\ w.m = m /\ w.z = t.z
  BY <1>1, WithSized
<1> HIDE DEF w
<1>3. /\ Sized(u) /\ Only(s, u, r) /\ u.m = m /\ u.z[r].resv = t.z[r].resv
      /\ Used(u, r) = n /\ Sign(u, r) = sg
  <2>1. Finished(s, w, Finish(w, r, n, sg), r, n, sg)
    BY <1>1, <1>2, FinishSized
  <2>2. QED  BY <1>2, <2>1 DEF Finished
<1> HIDE DEF u
<1>4. u.z[r].resv \in Nat
  BY <1>1, <1>3, SizedObject
<1>5. CanonicalAt(u, r)
  BY <1>3, <1>4 DEF CanonicalAt
<1>6. Good(u)
  BY <1>3, <1>5, GoodOnly
<1>7. Num(u, r) = sg * Value(m, Ptr(r), n)
  BY <1>3, <1>6, GoodNum DEF Mag
<1>8. QED  BY <1>3, <1>6, <1>7 DEF Makes, u, w

-----------------------------------------------------------------------------
(* Operands, and results of kernels *)

\* The n packets of o, the top one of which is not zero, stand for v.
Holds(s, o, n, v) ==
    /\ n \in Nat /\ n > 0 /\ n * PacketLimbs \in Nat
    /\ Area(s.m, Ptr(o), n * PacketLimbs) /\ Top(s.m, Ptr(o), n)
    /\ Value(s.m, Ptr(o), n) = v /\ v \in Int /\ v > 0

LEMMA GoodHolds ==
    ASSUME NEW s, Good(s), NEW o \in Zvar, Sign(s, o) # 0
    PROVE  Holds(s, o, Used(s, o), Mag(s, o))
<1>1. /\ o \in Object /\ Sized(s) /\ Used(s, o) \in Nat /\ Mag(s, o) \in Int /\ Mag(s, o) > 0
      /\ Used(s, o) > 0 /\ Used(s, o) =< s.z[o].resv /\ Top(s.m, Ptr(o), Used(s, o))
  BY GoodNum
<1>2. Area(s.m, Ptr(o), Used(s, o) * PacketLimbs) /\ Used(s, o) * PacketLimbs \in Nat
  BY <1>1, SizedArea
<1>3. QED  BY <1>1, <1>2 DEF Holds, Mag

\* Operands are not lost when room is made for the result, though it may be one of them.
LEMMA GrowKeeps ==
    ASSUME NEW s, Good(s), NEW o \in Zvar, Sign(s, o) # 0, NEW r \in Object, NEW n \in Nat,
           NEW keep \in BOOLEAN, keep => Used(s, r) =< s.z[r].resv,
           o # r \/ keep \/ n =< s.z[r].resv
    PROVE  Holds(Grow(s, r, n, keep), o, Used(s, o), Mag(s, o))
<1> DEFINE t == Grow(s, r, n, keep)
           k == Used(s, o)
           N == k * PacketLimbs
<1>1. /\ o \in Object /\ r \in Object /\ Sized(s) /\ k \in Nat /\ k > 0 /\ k =< s.z[o].resv
  BY GoodNum
<1>2. /\ Sized(t) /\ Only(s, t, r) /\ t.z[o].resv >= s.z[o].resv
      /\ keep => \A i \in 0 .. Used(s, r) * PacketLimbs - 1 : t.m[r][i] = s.m[r][i]
  <2> HIDE DEF k, N
  <2>1. Sized(s) /\ o \in Object
    BY <1>1
  <2>2. /\ Sized(t) /\ Only(s, t, r)
        /\ \A z \in Object : t.z[z].resv >= s.z[z].resv
        /\ keep => \A i \in 0 .. Used(s, r) * PacketLimbs - 1 : t.m[r][i] = s.m[r][i]
    BY <2>1, GrowSized
  <2>3. QED  BY <2>1, <2>2
<1>3. Holds(s, o, k, Mag(s, o))
  BY GoodHolds
<1>4. t.z[o].resv \in Nat /\ s.z[o].resv \in Nat
  BY <1>1, <1>2, SizedObject
<1>5. k =< t.z[o].resv
  BY <1>1, <1>2, <1>4
<1>6. n =< s.z[r].resv => t = s
  BY DEF Grow
<1> HIDE DEF t
<1>7. Area(t.m, Ptr(o), N) /\ Area(s.m, Ptr(o), N) /\ N \in Nat /\ IsMemory(s.m) /\ s.m \in Memory(s.m)
  BY <1>1, <1>2, <1>5, SizedArea, SizedMemory DEF IsMemory
<1>8. \A i \in 0 .. N - 1 : Get(s.m, Ptr(o), i) \in Limb
  BY <1>7, GetLimb
<1>9. \A i \in 0 .. N - 1 : Get(t.m, Ptr(o), i) = Get(s.m, Ptr(o), i)
  BY <1>1, <1>2, <1>6 DEF Only, Get, Ptr
<1>10. /\ Value(t.m, Ptr(o), k) = Value(s.m, Ptr(o), k)
       /\ k > 0 => (Top(t.m, Ptr(o), k) <=> Top(s.m, Ptr(o), k))
  <2>1. \A i \in 0 .. N - 1 : Get(s.m, Ptr(o), i) \in Limb /\ Get(t.m, Ptr(o), i) = Get(s.m, Ptr(o), i)
    BY <1>8, <1>9
  <2>2. k \in Nat /\ N \in Nat
    BY <1>1, <1>7
  <2> HIDE DEF k
  <2>3. QED  BY <2>1, <2>2, SameLimbs
<1>11. QED  BY <1>1, <1>3, <1>7, <1>10 DEF Holds, t

\* A sum of n packets and a carry; with no carry the sum is as long as the longer operand.
LEMMA CarriedMakes ==
    ASSUME NEW s, Good(s), NEW t, Sized(t), NEW r \in Zvar, Only(s, t, r),
           NEW n \in Nat, n > 0, n + 1 =< t.z[r].resv, NEW N \in Nat, N = n * PacketLimbs,
           NEW k, k.c \in Limb, OnlyAt(t.m, k.m, Ptr(r), N),
           k.c = 0 => Top(k.m, Ptr(r), n), NEW sg \in {-1, 1}
    PROVE  Makes(s, Carried(t, r, k, n, sg), r, sg * Number(LimbsAt(k.m, Ptr(r), N), N, k.c))
<1>1. /\ r \in Object /\ t.z[r].resv \in Nat /\ DOMAIN t.m = Object
      /\ k.m \in Memory(t.m) /\ IsMemory(k.m) /\ IsMemory(t.m)
      /\ \A o \in Object : DOMAIN k.m[o] = DOMAIN t.m[o]
      /\ DOMAIN k.m = Object
  BY SizedObject, SizedMemory DEF OnlyAt, Object
<1>2. Ptr(r).buf = r /\ Ptr(r).at = 0
  BY DEF Ptr
<1>3. Area(t.m, Ptr(r), N) /\ Area(k.m, Ptr(r), N)
  <2>1. n =< t.z[r].resv
    BY <1>1
  <2>2. Area(t.m, Ptr(r), N)
    BY <1>1, <2>1, SizedArea
  <2>3. QED  BY <1>1, <1>2, <2>2 DEF Area
<1>4. \A i \in 0 .. N - 1 : Get(k.m, Ptr(r), i) \in Limb
  BY <1>1, <1>3, GetLimb DEF IsMemory
<1>5. CASE k.c = 0
  <2>1. Carried(t, r, k, n, sg) = Finish(With(t, k.m), r, n, sg)
    BY <1>5 DEF Carried
  <2>2. n =< t.z[r].resv
    BY <1>1
  <2>3. Makes(s, Finish(With(t, k.m), r, n, sg), r, sg * Value(k.m, Ptr(r), n))
    BY <1>5, <2>2, FinishMakes
  <2>4. Value(k.m, Ptr(r), n) = Number(LimbsAt(k.m, Ptr(r), N), N, 0)
    BY <1>4, NumberOfLimbs
  <2>5. QED  BY <1>5, <2>1, <2>3, <2>4
<1>6. CASE k.c # 0
  <2> DEFINE q == Skip(Ptr(r), n)
             m == psetu(k.m, q, k.c)
             K == N + PacketLimbs
  <2>1. K \in Nat /\ K = (n + 1) * PacketLimbs /\ N < K /\ PacketLimbs \in Nat /\ n + 1 \in Nat
    <3>1. PacketLimbs \in Nat /\ PacketLimbs > 0
      BY PacketsAssumption
    <3>2. (n + 1) * PacketLimbs = n * PacketLimbs + PacketLimbs
      BY <3>1
    <3>3. QED  BY <3>1, <3>2
  <2>2. Area(t.m, Ptr(r), K) /\ Area(k.m, Ptr(r), K)
    <3>1. Area(t.m, Ptr(r), (n + 1) * PacketLimbs)
      BY <1>1, <2>1, SizedArea
    <3>2. Area(t.m, Ptr(r), K)
      BY <2>1, <3>1
    <3> HIDE DEF K
    <3>3. QED  BY <1>1, <1>2, <3>2 DEF Area
  <2>3. q.buf = r /\ q.at = N
    BY <1>2, <2>1 DEF Skip, Ptr
  <2> HIDE DEF K, q, m
  <2>4. Area(k.m, q, PacketLimbs)
    BY <2>1, <1>1, <2>2, ValueSplit DEF K, q
  <2>5. /\ OnlyAt(k.m, m, q, PacketLimbs) /\ m \in Memory(k.m)
        /\ Value(m, q, 1) = k.c /\ Top(m, q, 1)
    BY <1>1, <1>6, <2>1, <2>4, PacketOfWord DEF m
  <2>6. m \in Memory(t.m)
    <3>1. \A o \in DOMAIN t.m : DOMAIN k.m[o] = DOMAIN t.m[o]
      BY <1>1
    <3>2. DOMAIN k.m = DOMAIN t.m
      BY <1>1
    <3> HIDE DEF Get, Value, Top, Area, OnlyAt
    <3>3. m \in Memory(k.m)
      BY <2>5
    <3>4. QED  BY <3>1, <3>2, <3>3 DEF Memory
  <2>7. OnlyAt(t.m, m, Ptr(r), K)
    <3>1. ASSUME NEW b \in DOMAIN t.m, NEW j \in DOMAIN t.m[b],
                 b # Ptr(r).buf \/ j \notin Ptr(r).at .. Ptr(r).at + K - 1
          PROVE  m[b][j] = t.m[b][j]
      <4>1. b \in DOMAIN k.m /\ j \in DOMAIN k.m[b] /\ b \in Object
        BY <1>1
      <4>2. j \in Int /\ j >= 0
        <5>1. DOMAIN t.m[b] = 0 .. t.z[b].resv * PacketLimbs - 1 /\ t.z[b].resv * PacketLimbs \in Nat
          <6>1. t.z[b].resv \in Nat /\ t.m[b] \in [0 .. t.z[b].resv * PacketLimbs - 1 -> Limb]
            BY <4>1, SizedObject
          <6>2. t.z[b].resv * PacketLimbs \in Nat
            BY <6>1, MoreLimbs
          <6>3. QED  BY <6>1, <6>2
        <5>2. QED  BY <5>1
      <4>3. b # q.buf \/ j \notin q.at .. q.at + PacketLimbs - 1
        BY <1>2, <2>1, <2>3, <3>1, <4>2 DEF K
      <4>4. b # Ptr(r).buf \/ j \notin Ptr(r).at .. Ptr(r).at + N - 1
        BY <1>2, <2>1, <3>1, <4>2
      <4>5. m[b][j] = k.m[b][j]
        BY <2>5, <4>1, <4>3 DEF OnlyAt
      <4>6. k.m[b][j] = t.m[b][j]
        BY <4>4 DEF OnlyAt
      <4>7. QED  BY <4>5, <4>6
    <3>2. QED  BY <2>6, <3>1 DEF OnlyAt
  <2>8. IsMemory(m) /\ Area(m, Ptr(r), K)
    <3>1. IsMemory(m) /\ DOMAIN m = Object /\ \A o \in Object : DOMAIN m[o] = DOMAIN t.m[o]
      BY <2>6, SizedMemory
    <3>2. QED  BY <1>1, <2>2, <3>1 DEF Area
  <2>9. /\ Value(m, Ptr(r), n + 1) = Number(LimbsAt(m, Ptr(r), N), N, Value(m, q, 1))
        /\ Top(m, Ptr(r), n + 1)
    BY <2>1, <2>5, <2>8, ValueSplit DEF K, q
  <2>10. \A i \in 0 .. N - 1 : Get(m, Ptr(r), i) = Get(k.m, Ptr(r), i)
    BY <1>1, <1>2, <1>3, <2>1, <2>3, <2>5, Apart
  <2>11. Number(LimbsAt(k.m, Ptr(r), N), N, k.c) = Number(LimbsAt(m, Ptr(r), N), N, k.c)
    <3> DEFINE d == LimbsAt(k.m, Ptr(r), N)
               e == LimbsAt(m, Ptr(r), N)
    <3>1. \A i \in 0 .. N - 1 : d[i] \in Int /\ e[i] = d[i]
      BY <1>4, <2>10, LimbNumber DEF LimbsAt
    <3>2. k.c \in Int
      BY LimbNumber
    <3> HIDE DEF d, e
    <3>3. Number(d, N, k.c) = Number(e, N, k.c)
      BY <3>1, <3>2, NumberSame
    <3>4. QED  BY <3>3 DEF d, e
  <2>12. Makes(s, Finish(With(t, m), r, n + 1, sg), r, sg * Value(m, Ptr(r), n + 1))
    <3>1. n + 1 > 0
      OBVIOUS
    <3>2. QED  BY <2>1, <2>7, <2>9, <3>1, FinishMakes
  <2>13. Carried(t, r, k, n, sg) = Finish(With(t, m), r, n + 1, sg)
    BY <1>6 DEF Carried, m, q
  <2>14. QED  BY <2>5, <2>9, <2>11, <2>12, <2>13
<1>7. QED  BY <1>5, <1>6

\* |a| + |b|, a being no shorter than b.
LEMMA AddMakes ==
    ASSUME NEW s, Good(s), NEW r \in Zvar, NEW a \in Zvar, NEW b \in Zvar, Sign(s, a) # 0,
           Sign(s, b) # 0, Used(s, b) =< Used(s, a), NEW sg \in {-1, 1}
    PROVE  Makes(s, AddPackets(s, r, a, b, sg), r, sg * (Mag(s, a) + Mag(s, b)))
<1> DEFINE n == Used(s, a)
           w == Used(s, b)
           keep == r \in {a, b}
           t == Grow(s, r, n + 1, keep)
           k == padd(t.m, Ptr(r), Ptr(a), Ptr(b), n, w)
           N == n * PacketLimbs
           M == w * PacketLimbs
<1>1. /\ r \in Object /\ Sized(s) /\ n \in Nat /\ n > 0 /\ w \in Nat /\ w =< n /\ n + 1 \in Nat
      /\ r \in {a, b} => Used(s, r) =< s.z[r].resv
  BY GoodNum
<1>20. keep \in BOOLEAN /\ (keep <=> r \in {a, b})
  OBVIOUS
<1> HIDE DEF keep
<1>2. /\ Sized(t) /\ Only(s, t, r) /\ t.z[r].resv >= n + 1
  BY <1>1, <1>20, GrowSized
<1>3. Holds(t, a, n, Mag(s, a)) /\ Holds(t, b, w, Mag(s, b))
  BY <1>1, <1>20, GrowKeeps
<1> HIDE DEF t, n, w
<1>4. n + 1 =< t.z[r].resv /\ t.z[r].resv \in Nat /\ n =< t.z[r].resv
  BY <1>1, <1>2, SizedObject
<1>5. /\ IsMemory(t.m) /\ N \in Nat /\ M \in Nat /\ Area(t.m, Ptr(r), N)
      /\ Area(t.m, Ptr(a), N) /\ Area(t.m, Ptr(b), M)
  BY <1>1, <1>2, <1>3, <1>4, SizedArea, SizedMemory DEF Holds
<1>6. Follows(Ptr(r), Ptr(a), N) /\ Follows(Ptr(r), Ptr(b), M)
  BY DEF Follows, Ptr
<1> DEFINE d == Number(LimbsAt(k.m, Ptr(r), N), N, k.c)
<1>7. /\ k.c \in {0, 1} /\ OnlyAt(t.m, k.m, Ptr(r), N)
      /\ d = Value(t.m, Ptr(a), n) + Value(t.m, Ptr(b), w)
  <2> HIDE DEF N, M
  <2>1. QED  BY <1>1, <1>5, <1>6, SumOfPackets DEF N, M
<1>8. d = Mag(s, a) + Mag(s, b) /\ Mag(s, a) \in Int /\ Mag(s, b) \in Int /\ Mag(s, b) > 0
  BY <1>3, <1>7 DEF Holds
<1>9. k.c \in Limb
  BY <1>7, BaseFacts
<1> HIDE DEF k, d, N, M
<1>10. k.c = 0 => Top(k.m, Ptr(r), n)
  <2> HAVE k.c = 0
  <2>1. k.m \in Memory(t.m) /\ IsMemory(k.m) /\ DOMAIN k.m = Object /\ DOMAIN t.m = Object
        /\ \A o \in Object : DOMAIN k.m[o] = DOMAIN t.m[o]
    BY <1>2, <1>7, SizedMemory DEF OnlyAt
  <2>2. Area(k.m, Ptr(r), N)
    BY <1>1, <1>5, <2>1 DEF Area, Ptr
  <2>3. \A i \in 0 .. N - 1 : Get(k.m, Ptr(r), i) \in Limb
    BY <1>5, <2>1, <2>2, GetLimb DEF IsMemory
  <2>4. Value(k.m, Ptr(r), n) = Number(LimbsAt(k.m, Ptr(r), N), N, 0)
    BY <1>1, <1>5, <2>3, NumberOfLimbs DEF N
  <2>5. Value(k.m, Ptr(r), n) >= Value(t.m, Ptr(a), n)
    BY <1>3, <1>8, <2>4 DEF d, Holds
  <2>6. Top(t.m, Ptr(a), n)
    BY <1>3 DEF Holds
  <2>7. QED  BY <1>1, <1>5, <2>1, <2>2, <2>5, <2>6, LargeHasTop DEF N
<1>11. Makes(s, Carried(t, r, k, n, sg), r, sg * Number(LimbsAt(k.m, Ptr(r), N), N, k.c))
  BY <1>1, <1>2, <1>4, <1>5, <1>7, <1>9, <1>10, CarriedMakes DEF N
<1>12. AddPackets(s, r, a, b, sg) = Carried(t, r, k, n, sg)
  BY DEF AddPackets, keep, t, k, n, w
<1>13. QED  BY <1>8, <1>11, <1>12 DEF d

\* What a kernel leaves in n packets of r, with the zeros at its top dropped.
LEMMA NormedMakes ==
    ASSUME NEW s, Good(s), NEW t, Sized(t), NEW r \in Zvar, Only(s, t, r),
           NEW n \in Nat, n =< t.z[r].resv, NEW N \in Nat, N = n * PacketLimbs,
           NEW m, OnlyAt(t.m, m, Ptr(r), N), NEW sg \in {-1, 1}
    PROVE  Makes(s, Normed(t, m, r, n, sg), r, sg * Number(LimbsAt(m, Ptr(r), N), N, 0))
<1> DEFINE u == With(t, m)
           k == pnorm(m, Ptr(r), n)
           v == Value(m, Ptr(r), n)
<1>1. /\ r \in Object /\ t.z[r].resv \in Nat /\ DOMAIN t.m = Object
      /\ m \in Memory(t.m) /\ IsMemory(m)
      /\ \A o \in Object : DOMAIN m[o] = DOMAIN t.m[o]
      /\ DOMAIN m = Object
  <2>1. r \in Object /\ m \in Memory(t.m)
    BY DEF OnlyAt, Object
  <2>2. t.z[r].resv \in Nat
    BY <2>1, SizedObject
  <2>3. QED  BY <2>1, <2>2, SizedMemory
<1>2. Area(m, Ptr(r), N)
  <2>1. Area(t.m, Ptr(r), N)
    BY <1>1, SizedArea
  <2>2. QED  BY <1>1, <2>1 DEF Area, Ptr
<1>3. v = Number(LimbsAt(m, Ptr(r), N), N, 0)
  <2>1. \A i \in 0 .. N - 1 : Get(m, Ptr(r), i) \in Limb
    BY <1>1, <1>2, GetLimb DEF IsMemory
  <2>2. QED  BY <2>1, NumberOfLimbs
<1>4. k \in 0 .. n /\ Value(m, Ptr(r), k) = v /\ (k > 0 => Top(m, Ptr(r), k))
  BY <1>1, <1>2, NormOfPackets
<1>5. Sized(u) /\ Only(s, u, r)
  BY <1>1, WithSized
<1>6. Normed(t, m, r, n, sg) = IF k = 0 THEN zsetzero(u, r) ELSE Finish(u, r, k, sg)
  BY DEF Normed, Settle
<1> HIDE DEF u, k, v
<1>7. CASE k = 0
  <2>1. Area(m, Ptr(r), 0 * PacketLimbs) /\ 0 * PacketLimbs \in Nat
    <3>1. 0 * PacketLimbs = 0
      BY PacketsAssumption
    <3>2. QED  BY <1>1, <3>1 DEF Area, Ptr
  <2>2. v = 0
    BY <1>1, <1>4, <1>7, <2>1, ValueNatural
  <2>3. Makes(s, zsetzero(u, r), r, 0)
    BY <1>5, ZeroMakes
  <2>4. QED  BY <1>3, <1>6, <1>7, <2>2, <2>3
<1>8. CASE k # 0
  <2>1. k \in Nat /\ k > 0 /\ k =< t.z[r].resv
    BY <1>1, <1>4, <1>8
  <2>2. Makes(s, Finish(u, r, k, sg), r, sg * Value(m, Ptr(r), k))
    BY <1>4, <2>1, FinishMakes DEF u
  <2>3. QED  BY <1>3, <1>4, <1>6, <1>8, <2>2
<1>9. QED  BY <1>7, <1>8

\* |a| - |b|, a being the larger.
LEMMA SubMakes ==
    ASSUME NEW s, Good(s), NEW r \in Zvar, NEW a \in Zvar, NEW b \in Zvar, Sign(s, a) # 0,
           Sign(s, b) # 0, Used(s, b) =< Used(s, a), Mag(s, b) =< Mag(s, a), NEW sg \in {-1, 1}
    PROVE  Makes(s, SubPackets(s, r, a, b, sg), r, sg * (Mag(s, a) - Mag(s, b)))
<1> DEFINE n == Used(s, a)
           w == Used(s, b)
           keep == r \in {a, b}
           t == Grow(s, r, n, keep)
           k == psub(t.m, Ptr(r), Ptr(a), Ptr(b), n, w)
           N == n * PacketLimbs
           M == w * PacketLimbs
<1>1. /\ r \in Object /\ Sized(s) /\ n \in Nat /\ n > 0 /\ w \in Nat /\ w =< n
      /\ r \in {a, b} => Used(s, r) =< s.z[r].resv
  BY GoodNum
<1>20. keep \in BOOLEAN /\ (keep <=> r \in {a, b})
  OBVIOUS
<1> HIDE DEF keep
<1>2. /\ Sized(t) /\ Only(s, t, r) /\ t.z[r].resv >= n
  BY <1>1, <1>20, GrowSized
<1>3. Holds(t, a, n, Mag(s, a)) /\ Holds(t, b, w, Mag(s, b))
  BY <1>1, <1>20, GrowKeeps
<1> HIDE DEF t, n, w
<1>4. t.z[r].resv \in Nat /\ n =< t.z[r].resv
  BY <1>1, <1>2, SizedObject
<1>5. /\ IsMemory(t.m) /\ N \in Nat /\ M \in Nat /\ Area(t.m, Ptr(r), N)
      /\ Area(t.m, Ptr(a), N) /\ Area(t.m, Ptr(b), M)
  BY <1>1, <1>2, <1>3, <1>4, SizedArea, SizedMemory DEF Holds
<1>6. Follows(Ptr(r), Ptr(a), N) /\ Follows(Ptr(r), Ptr(b), M)
  BY DEF Follows, Ptr
<1> DEFINE d == Number(LimbsAt(k.m, Ptr(r), N), N, -k.c)
<1>7. /\ k.c \in {0, 1} /\ OnlyAt(t.m, k.m, Ptr(r), N)
      /\ d = Value(t.m, Ptr(a), n) - Value(t.m, Ptr(b), w)
      /\ Value(t.m, Ptr(a), n) >= Value(t.m, Ptr(b), w) => k.c = 0
  <2> HIDE DEF N, M
  <2>1. QED  BY <1>1, <1>5, <1>6, DifferenceOfPackets DEF N, M
<1>8. /\ d = Mag(s, a) - Mag(s, b) /\ k.c = 0 /\ -k.c = 0
  <2>1. Value(t.m, Ptr(a), n) = Mag(s, a) /\ Value(t.m, Ptr(b), w) = Mag(s, b)
        /\ Mag(s, a) \in Int /\ Mag(s, b) \in Int
    BY <1>3 DEF Holds
  <2> HIDE DEF d, k
  <2>2. QED  BY <1>7, <2>1
<1>9. d = Number(LimbsAt(k.m, Ptr(r), N), N, 0)
  BY <1>8
<1> HIDE DEF k, d, N, M
<1>10. Makes(s, Normed(t, k.m, r, n, sg), r, sg * Number(LimbsAt(k.m, Ptr(r), N), N, 0))
  BY <1>1, <1>2, <1>4, <1>5, <1>7, NormedMakes DEF N
<1>11. SubPackets(s, r, a, b, sg) = Normed(t, k.m, r, n, sg)
  BY DEF SubPackets, keep, t, k, n, w
<1>12. QED  BY <1>8, <1>9, <1>10, <1>11

\* hebi_zcmpmag and the sums order magnitudes by length, and then by packets.
LEMMA OrderOfMagnitudes ==
    ASSUME NEW s, Good(s), NEW a \in Zvar, NEW b \in Zvar, Sign(s, a) # 0, Sign(s, b) # 0
    PROVE  /\ Mag(s, a) \in Int /\ Mag(s, b) \in Int
           /\ Order(s, a, b) = IF Mag(s, a) < Mag(s, b) THEN -1
                               ELSE IF Mag(s, a) > Mag(s, b) THEN 1 ELSE 0
           /\ Used(s, a) < Used(s, b) => Mag(s, a) < Mag(s, b)
           /\ Used(s, b) < Used(s, a) => Mag(s, b) < Mag(s, a)
<1> DEFINE n == Used(s, a)
           w == Used(s, b)
           N == n * PacketLimbs
           M == w * PacketLimbs
<1>1. Holds(s, a, n, Mag(s, a)) /\ Holds(s, b, w, Mag(s, b))
  BY GoodHolds
<1>2. /\ n \in Nat /\ w \in Nat /\ N \in Nat /\ M \in Nat /\ IsMemory(s.m)
      /\ Area(s.m, Ptr(a), N) /\ Area(s.m, Ptr(b), M)
      /\ Top(s.m, Ptr(a), n) /\ Top(s.m, Ptr(b), w)
      /\ Mag(s, a) \in Int /\ Mag(s, b) \in Int
  BY <1>1, SizedMemory DEF Holds, Good
<1>3. Mag(s, a) = Value(s.m, Ptr(a), n) /\ Mag(s, b) = Value(s.m, Ptr(b), w)
  BY DEF Mag
<1>4. Order(s, a, b) = IF n # w THEN SignOf(n - w) ELSE pcmp(s.m, Ptr(a), Ptr(b), n)
  BY DEF Order
<1> HIDE DEF n, w
<1>5. CASE n < w
  <2>1. Mag(s, a) < Mag(s, b)
    <3> HIDE DEF N, M
    <3>1. QED  BY <1>2, <1>3, <1>5, LongerIsLarger DEF N, M
  <2>2. Order(s, a, b) = -1
    BY <1>2, <1>4, <1>5 DEF SignOf
  <2>3. QED  BY <1>2, <1>5, <2>1, <2>2 DEF n, w
<1>6. CASE w < n
  <2>1. Mag(s, b) < Mag(s, a)
    <3> HIDE DEF N, M
    <3>1. QED  BY <1>2, <1>3, <1>6, LongerIsLarger DEF N, M
  <2>2. Order(s, a, b) = 1
    BY <1>2, <1>4, <1>6 DEF SignOf
  <2>3. QED  BY <1>2, <1>6, <2>1, <2>2 DEF n, w
<1>7. CASE n = w
  <2>1. M = N
    BY <1>7
  <2> HIDE DEF N, M
  <2>2. pcmp(s.m, Ptr(a), Ptr(b), n) = IF Mag(s, a) < Mag(s, b) THEN -1
                                       ELSE IF Mag(s, a) > Mag(s, b) THEN 1 ELSE 0
    BY <1>2, <1>3, <1>7, <2>1, OrderOfPackets DEF N
  <2>3. QED  BY <1>2, <1>4, <1>7, <2>2 DEF n, w
<1>8. QED  BY <1>2, <1>5, <1>6, <1>7

\* |a| * sign - |b| * sign
LEMMA DifferenceMakes ==
    ASSUME NEW s, Good(s), NEW r \in Zvar, NEW a \in Zvar, NEW b \in Zvar, Sign(s, a) # 0,
           Sign(s, b) # 0, NEW sg \in {-1, 1}
    PROVE  Makes(s, Difference(s, r, a, b, sg), r, sg * (Mag(s, a) - Mag(s, b)))
<1>1. /\ Mag(s, a) \in Int /\ Mag(s, b) \in Int /\ Used(s, a) \in Nat /\ Used(s, b) \in Nat
      /\ Order(s, a, b) = IF Mag(s, a) < Mag(s, b) THEN -1
                          ELSE IF Mag(s, a) > Mag(s, b) THEN 1 ELSE 0
      /\ Used(s, a) < Used(s, b) => Mag(s, a) < Mag(s, b)
      /\ Used(s, b) < Used(s, a) => Mag(s, b) < Mag(s, a)
  BY OrderOfMagnitudes, GoodNum
<1>2. CASE Mag(s, a) = Mag(s, b)
  <2>1. Difference(s, r, a, b, sg) = zsetzero(s, r)
    BY <1>1, <1>2 DEF Difference
  <2>2. Makes(s, zsetzero(s, r), r, 0)
    BY ZeroMakes DEF Good, Only
  <2>3. QED  BY <1>1, <1>2, <2>1, <2>2
<1>3. CASE Mag(s, a) > Mag(s, b)
  <2>1. Difference(s, r, a, b, sg) = SubPackets(s, r, a, b, sg)
    BY <1>1, <1>3 DEF Difference
  <2>2. Used(s, b) =< Used(s, a) /\ Mag(s, b) =< Mag(s, a)
    BY <1>1, <1>3
  <2>3. QED  BY <2>1, <2>2, SubMakes
<1>4. CASE Mag(s, a) < Mag(s, b)
  <2>1. Difference(s, r, a, b, sg) = SubPackets(s, r, b, a, -sg)
    BY <1>1, <1>4 DEF Difference
  <2>2. Used(s, a) =< Used(s, b) /\ Mag(s, a) =< Mag(s, b) /\ -sg \in {-1, 1}
    BY <1>1, <1>4
  <2>3. Makes(s, SubPackets(s, r, b, a, -sg), r, (-sg) * (Mag(s, b) - Mag(s, a)))
    BY <2>2, SubMakes
  <2>4. (-sg) * (Mag(s, b) - Mag(s, a)) = sg * (Mag(s, a) - Mag(s, b))
    BY <1>1
  <2>5. QED  BY <2>1, <2>3, <2>4
<1>5. QED  BY <1>1, <1>2, <1>3, <1>4

\* |a| * as + |b| * bs
LEMMA AddSubMakes ==
    ASSUME NEW s, Good(s), NEW r \in Zvar, NEW a \in Zvar, NEW b \in Zvar, Sign(s, a) # 0,
           Sign(s, b) # 0, NEW as \in {-1, 1}, NEW bs \in {-1, 1}
    PROVE  Makes(s, zaddsub(s, r, a, b, as, bs), r, as * Mag(s, a) + bs * Mag(s, b))
<1>1. Mag(s, a) \in Int /\ Mag(s, b) \in Int /\ Used(s, a) \in Nat /\ Used(s, b) \in Nat
  BY OrderOfMagnitudes, GoodNum
<1> DEFINE swap == Used(s, a) < Used(s, b) \/ (Used(s, a) = Used(s, b) /\ r = b)
<1>2. CASE as # bs
  <2>1. zaddsub(s, r, a, b, as, bs) = Difference(s, r, a, b, as)
    BY <1>2 DEF zaddsub
  <2>2. as * (Mag(s, a) - Mag(s, b)) = as * Mag(s, a) + bs * Mag(s, b)
    <3>1. (as = 1 /\ bs = -1) \/ (as = -1 /\ bs = 1)
      BY <1>2
    <3>2. CASE as = 1 /\ bs = -1
      BY <1>1, <3>2
    <3>3. CASE as = -1 /\ bs = 1
      BY <1>1, <3>3
    <3>4. QED  BY <3>1, <3>2, <3>3
  <2>3. QED  BY <2>1, <2>2, DifferenceMakes
<1>3. CASE as = bs /\ swap
  <2>1. zaddsub(s, r, a, b, as, bs) = AddPackets(s, r, b, a, bs)
    BY <1>3 DEF zaddsub
  <2>2. bs * (Mag(s, b) + Mag(s, a)) = as * Mag(s, a) + bs * Mag(s, b) /\ Used(s, a) =< Used(s, b)
    BY <1>1, <1>3
  <2>3. Makes(s, AddPackets(s, r, b, a, bs), r, bs * (Mag(s, b) + Mag(s, a)))
    BY <2>2, AddMakes
  <2>4. QED  BY <2>1, <2>2, <2>3
<1>4. CASE as = bs /\ ~swap
  <2>1. zaddsub(s, r, a, b, as, bs) = AddPackets(s, r, a, b, as)
    BY <1>4 DEF zaddsub
  <2>2. as * (Mag(s, a) + Mag(s, b)) = as * Mag(s, a) + bs * Mag(s, b) /\ Used(s, b) =< Used(s, a)
    BY <1>1, <1>4
  <2>3. Makes(s, AddPackets(s, r, a, b, as), r, as * (Mag(s, a) + Mag(s, b)))
    BY <2>2, AddMakes
  <2>4. QED  BY <2>1, <2>2, <2>3
<1>5. QED  BY <1>2, <1>3, <1>4

-----------------------------------------------------------------------------
(* The calls *)

\* hebi_zset, hebi_zneg and hebi_zabs, of a copy or where the number is.
LEMMA SetMakes ==
    ASSUME NEW s, Good(s), NEW r \in Zvar, NEW a \in Zvar
    PROVE  Makes(s, zset(s, r, a), r, Num(s, a))
<1> DEFINE n == Used(s, a)
           t == Grow(s, r, n, FALSE)
           m == pcopy(t.m, Ptr(r), Ptr(a), n)
           N == n * PacketLimbs
<1>1. CASE r = a
  BY <1>1 DEF zset, Makes, Only
<1>2. CASE r # a /\ Sign(s, a) = 0
  <2>1. zset(s, r, a) = zsetzero(s, r) /\ Num(s, a) = 0
    BY <1>2, GoodNum DEF zset
  <2>2. QED  BY <2>1, ZeroMakes DEF Good, Only
<1>3. CASE r # a /\ Sign(s, a) # 0
  <2>1. /\ r \in Object /\ Sized(s) /\ n \in Nat /\ n > 0 /\ Sign(s, a) \in {-1, 1}
        /\ Num(s, a) = Sign(s, a) * Mag(s, a)
    BY <1>3, GoodNum
  <2>2. Sized(t) /\ Only(s, t, r) /\ t.z[r].resv >= n
    BY <2>1, GrowSized
  <2>3. Holds(t, a, n, Mag(s, a))
    BY <1>3, <2>1, GrowKeeps
  <2> HIDE DEF t, n
  <2>4. t.z[r].resv \in Nat /\ n =< t.z[r].resv
    BY <2>1, <2>2, SizedObject
  <2>5. /\ IsMemory(t.m) /\ N \in Nat /\ Area(t.m, Ptr(r), N) /\ Area(t.m, Ptr(a), N)
        /\ Follows(Ptr(r), Ptr(a), N)
    BY <2>1, <2>2, <2>3, <2>4, SizedArea, SizedMemory DEF Holds, Follows, Ptr
  <2> HIDE DEF N
  <2>6. /\ OnlyAt(t.m, m, Ptr(r), N) /\ Value(m, Ptr(r), n) = Mag(s, a)
        /\ Top(m, Ptr(r), n)
    BY <2>1, <2>3, <2>5, CopyOfPackets DEF Holds, N
  <2> HIDE DEF m
  <2>7. Makes(s, Finish(With(t, m), r, n, Sign(s, a)), r, Sign(s, a) * Value(m, Ptr(r), n))
    BY <2>1, <2>2, <2>4, <2>6, FinishMakes
  <2>8. zset(s, r, a) = Finish(With(t, m), r, n, Sign(s, a))
    BY <1>3 DEF zset, t, m, n
  <2>9. QED  BY <2>1, <2>6, <2>7, <2>8
<1>4. QED  BY <1>1, <1>2, <1>3

\* The sign and the magnitude of an integer.
LEMMA NumParts ==
    ASSUME NEW s, Good(s), NEW o \in Zvar
    PROVE  /\ Num(s, o) \in Int /\ Sign(s, o) \in {-1, 0, 1} /\ SignOf(Num(s, o)) = Sign(s, o)
           /\ Sign(s, o) = 0 => Num(s, o) = 0 /\ AbsOf(Num(s, o)) = 0
           /\ Sign(s, o) # 0 => /\ Mag(s, o) \in Int /\ Mag(s, o) > 0
                                /\ Num(s, o) = Sign(s, o) * Mag(s, o)
                                /\ AbsOf(Num(s, o)) = Mag(s, o)
<1>1. /\ Num(s, o) = IF Sign(s, o) = 0 THEN 0 ELSE Sign(s, o) * Mag(s, o)
      /\ Sign(s, o) \in {-1, 0, 1}
      /\ Sign(s, o) # 0 => Mag(s, o) \in Int /\ Mag(s, o) > 0
  BY GoodNum
<1> DEFINE g == Sign(s, o)
           v == Mag(s, o)
           x == Num(s, o)
<1> HIDE DEF g, v, x
<1>2. x = (IF g = 0 THEN 0 ELSE g * v) /\ g \in {-1, 0, 1} /\ (g # 0 => v \in Int /\ v > 0)
  BY <1>1 DEF g, v, x
<1>3. /\ x \in Int /\ SignOf(x) = g /\ (g = 0 => x = 0 /\ AbsOf(x) = 0)
      /\ g # 0 => x = g * v /\ AbsOf(x) = v
  <2>1. CASE g = 0
    BY <1>2, <2>1 DEF SignOf, AbsOf
  <2>2. CASE g = 1
    BY <1>2, <2>2 DEF SignOf, AbsOf
  <2>3. CASE g = -1
    BY <1>2, <2>3 DEF SignOf, AbsOf
  <2>4. QED  BY <1>2, <2>1, <2>2, <2>3
<1>4. QED  BY <1>2, <1>3 DEF g, v, x

\* One call after another on the same result.
LEMMA MakesThen ==
    ASSUME NEW s, NEW t, NEW u, NEW r, NEW v, NEW x, Makes(s, t, r, v), Makes(t, u, r, x)
    PROVE  Makes(s, u, r, x)
  BY DEF Makes, Only

\* A result whose sign is set again.
LEMMA SignMakes ==
    ASSUME NEW s, NEW t, NEW r \in Zvar, NEW v, Makes(s, t, r, v), NEW f \in {-1, 0, 1},
           f = 0 <=> Sign(t, r) = 0
    PROVE  Makes(s, [t EXCEPT !.z[r].sign = f], r, IF f = Sign(t, r) THEN v ELSE -v)
<1> DEFINE u == [t EXCEPT !.z[r].sign = f]
<1>1. Good(t) /\ Only(s, t, r) /\ Num(t, r) = v
  BY DEF Makes
<1>2. r \in Object /\ Sized(t) /\ Used(t, r) \in Nat
  BY <1>1, GoodNum
<1>3. u = Finish(t, r, Used(t, r), f)
  BY <1>2, SignIsFinish
<1> HIDE DEF u
<1>4. /\ Finished(s, t, u, r, Used(t, r), f) /\ Finished(t, t, u, r, Used(t, r), f)
  BY <1>1, <1>2, <1>3, FinishSized DEF Only
<1>5. /\ Sized(u) /\ Only(s, u, r) /\ Only(t, u, r) /\ u.m = t.m /\ u.z[r].resv = t.z[r].resv
      /\ Used(u, r) = Used(t, r) /\ Sign(u, r) = f
  BY <1>4 DEF Finished
<1>6. CanonicalAt(u, r)
  BY <1>1, <1>5 DEF CanonicalAt, Good
<1>7. Good(u)
  BY <1>1, <1>5, <1>6, GoodOnly
<1>8. Mag(u, r) = Mag(t, r)
  BY <1>5 DEF Mag
<1>9. Num(u, r) = IF f = Sign(t, r) THEN v ELSE -v
  <2> DEFINE g == Sign(t, r)
             h == Mag(t, r)
  <2>1. /\ v = (IF g = 0 THEN 0 ELSE g * h) /\ Num(u, r) = (IF f = 0 THEN 0 ELSE f * h)
        /\ g \in {-1, 0, 1} /\ (g # 0 => h \in Int)
    BY <1>1, <1>5, <1>7, <1>8, GoodNum
  <2>2. f = 0 <=> g = 0
    OBVIOUS
  <2> HIDE DEF g, h
  <2>3. Num(u, r) = IF f = g THEN v ELSE -v
    BY <2>1, <2>2
  <2>4. QED  BY <2>3 DEF g
<1>10. QED  BY <1>5, <1>7, <1>9 DEF Makes, u

LEMMA NegMakes ==
    ASSUME NEW s, Good(s), NEW r \in Zvar, NEW a \in Zvar
    PROVE  Makes(s, zneg(s, r, a), r, -Num(s, a))
<1> DEFINE t == zset(s, r, a)
           f == -Sign(t, r)
<1>1. Makes(s, t, r, Num(s, a))
  BY SetMakes
<1>2. zneg(s, r, a) = [t EXCEPT !.z[r].sign = f]
  BY DEF zneg, Sign
<1>3. Good(t) /\ Num(t, r) = Num(s, a)
  BY <1>1 DEF Makes
<1> HIDE DEF t
<1>4. Sign(t, r) \in {-1, 0, 1} /\ (Sign(t, r) = 0 => Num(t, r) = 0)
  BY <1>3, NumParts
<1>5. f \in {-1, 0, 1} /\ (f = 0 <=> Sign(t, r) = 0) /\ (f = Sign(t, r) <=> f = 0)
  BY <1>4
<1>6. Makes(s, [t EXCEPT !.z[r].sign = f], r, IF f = Sign(t, r) THEN Num(s, a) ELSE -Num(s, a))
  <2> HIDE DEF f
  <2>1. QED  BY <1>1, <1>5, SignMakes
<1>7. (IF f = Sign(t, r) THEN Num(s, a) ELSE -Num(s, a)) = -Num(s, a)
  BY <1>3, <1>4, <1>5
<1>8. QED  BY <1>2, <1>6, <1>7

LEMMA AbsMakes ==
    ASSUME NEW s, Good(s), NEW r \in Zvar, NEW a \in Zvar
    PROVE  Makes(s, zabs(s, r, a), r, AbsOf(Num(s, a)))
<1> DEFINE t == zset(s, r, a)
           f == AbsOf(Sign(t, r))
<1>1. Makes(s, t, r, Num(s, a))
  BY SetMakes
<1>2. zabs(s, r, a) = [t EXCEPT !.z[r].sign = f]
  BY DEF zabs, Sign
<1>3. Good(t) /\ Num(t, r) = Num(s, a)
  BY <1>1 DEF Makes
<1> HIDE DEF t
<1>4. /\ Sign(t, r) \in {-1, 0, 1} /\ Num(t, r) \in Int /\ SignOf(Num(t, r)) = Sign(t, r)
  BY <1>3, NumParts
<1>5. f \in {-1, 0, 1} /\ (f = 0 <=> Sign(t, r) = 0) /\ (f = Sign(t, r) <=> Sign(t, r) # -1)
  BY <1>4 DEF AbsOf
<1> HIDE DEF f
<1>6. Makes(s, [t EXCEPT !.z[r].sign = f], r, IF f = Sign(t, r) THEN Num(s, a) ELSE -Num(s, a))
  BY <1>1, <1>5, SignMakes
<1>7. (IF f = Sign(t, r) THEN Num(s, a) ELSE -Num(s, a)) = AbsOf(Num(s, a))
  BY <1>3, <1>4, <1>5 DEF AbsOf, SignOf
<1>8. QED  BY <1>2, <1>6, <1>7

\* The number is negated in place once it is there.
LEMMA NegInPlace ==
    ASSUME NEW s, NEW t, NEW r \in Zvar, NEW v \in Int, Makes(s, t, r, v)
    PROVE  Makes(s, zneg(t, r, r), r, -v)
<1>1. Good(t) /\ Num(t, r) = v
  BY DEF Makes
<1>2. Makes(t, zneg(t, r, r), r, -v)
  BY <1>1, NegMakes
<1>3. QED  BY <1>2, MakesThen

\* A word that is not zero, and a sign.
LEMMA WordMakes ==
    ASSUME NEW s, Good(s), NEW r \in Zvar, NEW x \in Limb, x # 0, NEW sg \in {-1, 1}
    PROVE  LET t == Grow(s, r, 1, FALSE)
           IN  Makes(s, Finish(With(t, psetu(t.m, Ptr(r), x)), r, 1, sg), r, sg * x)
<1> DEFINE t == Grow(s, r, 1, FALSE)
           m == psetu(t.m, Ptr(r), x)
<1>1. r \in Object /\ Sized(s) /\ 1 \in Nat
  BY GoodNum
<1>2. Sized(t) /\ Only(s, t, r) /\ t.z[r].resv >= 1
  BY <1>1, GrowSized
<1> HIDE DEF t
<1>3. t.z[r].resv \in Nat /\ 1 =< t.z[r].resv
  BY <1>1, <1>2, SizedObject
<1>4. PacketLimbs \in Nat /\ 1 * PacketLimbs = PacketLimbs
  BY PacketsAssumption
<1>5. IsMemory(t.m) /\ Area(t.m, Ptr(r), PacketLimbs)
  BY <1>1, <1>2, <1>3, <1>4, SizedArea, SizedMemory
<1>6. OnlyAt(t.m, m, Ptr(r), PacketLimbs) /\ Value(m, Ptr(r), 1) = x /\ Top(m, Ptr(r), 1)
  BY <1>4, <1>5, PacketOfWord
<1> HIDE DEF m
<1>7. Makes(s, Finish(With(t, m), r, 1, sg), r, sg * Value(m, Ptr(r), 1))
  <2>1. 1 > 0
    OBVIOUS
  <2>2. QED  BY <1>1, <1>2, <1>3, <1>6, <2>1, FinishMakes
<1>8. QED  BY <1>6, <1>7 DEF t, m

\* hebi_zsetu and hebi_zseti
LEMMA SetWordMakes ==
    ASSUME NEW s, Good(s), NEW r \in Zvar, NEW x \in Limb
    PROVE  Makes(s, zsetu(s, r, x), r, x)
<1> DEFINE t == Grow(s, r, 1, FALSE)
<1>1. CASE x = 0
  <2>1. zsetu(s, r, x) = zsetzero(s, r)
    BY <1>1 DEF zsetu
  <2>2. QED  BY <1>1, <2>1, ZeroMakes DEF Good, Only
<1>2. CASE x # 0
  <2>1. Makes(s, Finish(With(t, psetu(t.m, Ptr(r), x)), r, 1, 1), r, 1 * x)
    <3>1. 1 \in {-1, 1}
      OBVIOUS
    <3>2. QED  BY <1>2, <3>1, WordMakes
  <2>2. zsetu(s, r, x) = Finish(With(t, psetu(t.m, Ptr(r), x)), r, 1, 1)
    BY <1>2 DEF zsetu
  <2>3. 1 * x = x
    BY LimbNumber
  <2>4. QED  BY <2>1, <2>2, <2>3
<1>3. QED  BY <1>1, <1>2

LEMMA SetSignedMakes ==
    ASSUME NEW s, Good(s), NEW r \in Zvar, NEW x \in Int, AbsOf(x) \in Limb
    PROVE  Makes(s, zseti(s, r, x), r, x)
<1> DEFINE t == zsetu(s, r, AbsOf(x))
           f == IF x < 0 THEN -1 ELSE Sign(t, r)
<1>1. Makes(s, t, r, AbsOf(x))
  BY SetWordMakes
<1>2. zseti(s, r, x) = [t EXCEPT !.z[r].sign = f]
  BY DEF zseti, Sign
<1>3. Good(t) /\ Num(t, r) = AbsOf(x)
  BY <1>1 DEF Makes
<1> HIDE DEF t
<1>4. Sign(t, r) \in {-1, 0, 1} /\ SignOf(AbsOf(x)) = Sign(t, r)
  BY <1>3, NumParts
<1>5. /\ f \in {-1, 0, 1} /\ (f = 0 <=> Sign(t, r) = 0)
      /\ (IF f = Sign(t, r) THEN AbsOf(x) ELSE -AbsOf(x)) = x
  <2>1. CASE x < 0
    BY <1>4, <2>1 DEF AbsOf, SignOf
  <2>2. CASE ~(x < 0)
    BY <1>4, <2>2 DEF AbsOf, SignOf
  <2>3. QED  BY <2>1, <2>2
<1> HIDE DEF f
<1>6. Makes(s, [t EXCEPT !.z[r].sign = f], r, IF f = Sign(t, r) THEN AbsOf(x) ELSE -AbsOf(x))
  BY <1>1, <1>5, SignMakes
<1>7. QED  BY <1>2, <1>5, <1>6

\* hebi_zadd, hebi_zsub, hebi_zaddmag and hebi_zsubmag
LEMMA SumMakes ==
    ASSUME NEW s, Good(s), NEW r \in Zvar, NEW a \in Zvar, NEW b \in Zvar
    PROVE  /\ Makes(s, zadd(s, r, a, b), r, Num(s, a) + Num(s, b))
           /\ Makes(s, zsub(s, r, a, b), r, Num(s, a) - Num(s, b))
           /\ Makes(s, zaddmag(s, r, a, b), r, AbsOf(Num(s, a)) + AbsOf(Num(s, b)))
           /\ Makes(s, zsubmag(s, r, a, b), r, AbsOf(Num(s, a)) - AbsOf(Num(s, b)))
<1> DEFINE x == Num(s, a)
           y == Num(s, b)
<1>1. /\ x \in Int /\ y \in Int /\ Sign(s, a) \in {-1, 0, 1} /\ Sign(s, b) \in {-1, 0, 1}
      /\ Sign(s, a) = 0 => x = 0 /\ AbsOf(x) = 0
      /\ Sign(s, b) = 0 => y = 0 /\ AbsOf(y) = 0
  BY NumParts
<1>2. AbsOf(x) \in Int /\ AbsOf(y) \in Int
  BY <1>1 DEF AbsOf
<1> HIDE DEF x, y
<1>3. /\ Makes(s, zset(s, r, a), r, x) /\ Makes(s, zset(s, r, b), r, y)
      /\ Makes(s, zabs(s, r, a), r, AbsOf(x)) /\ Makes(s, zabs(s, r, b), r, AbsOf(y))
  BY SetMakes, AbsMakes DEF x, y
<1>4. /\ Makes(s, zneg(zset(s, r, b), r, r), r, -y)
      /\ Makes(s, zneg(zabs(s, r, b), r, r), r, -AbsOf(y))
  BY <1>1, <1>2, <1>3, NegInPlace
<1>5. CASE Sign(s, a) = 0
  <2>1. /\ zadd(s, r, a, b) = zset(s, r, b) /\ zsub(s, r, a, b) = zneg(zset(s, r, b), r, r)
        /\ zaddmag(s, r, a, b) = zabs(s, r, b)
        /\ zsubmag(s, r, a, b) = zneg(zabs(s, r, b), r, r)
    BY <1>5 DEF zadd, zsub, zaddmag, zsubmag
  <2>2. x + y = y /\ x - y = -y /\ AbsOf(x) + AbsOf(y) = AbsOf(y) /\ AbsOf(x) - AbsOf(y) = -AbsOf(y)
    BY <1>1, <1>2, <1>5
  <2>3. QED  BY <1>3, <1>4, <2>1, <2>2 DEF x, y
<1>6. CASE Sign(s, a) # 0 /\ Sign(s, b) = 0
  <2>1. /\ zadd(s, r, a, b) = zset(s, r, a) /\ zsub(s, r, a, b) = zset(s, r, a)
        /\ zaddmag(s, r, a, b) = zabs(s, r, a)
        /\ zsubmag(s, r, a, b) = zabs(s, r, a)
    BY <1>6 DEF zadd, zsub, zaddmag, zsubmag
  <2>2. x + y = x /\ x - y = x /\ AbsOf(x) + AbsOf(y) = AbsOf(x) /\ AbsOf(x) - AbsOf(y) = AbsOf(x)
    BY <1>1, <1>2, <1>6
  <2>3. QED  BY <1>3, <2>1, <2>2 DEF x, y
<1>7. CASE Sign(s, a) # 0 /\ Sign(s, b) # 0
  <2> DEFINE g == Sign(s, a)
             h == Sign(s, b)
             v == Mag(s, a)
             w == Mag(s, b)
  <2>1. /\ x = g * v /\ y = h * w /\ AbsOf(x) = v /\ AbsOf(y) = w /\ v \in Int /\ w \in Int
        /\ g \in {-1, 1} /\ h \in {-1, 1} /\ -h \in {-1, 1} /\ 1 \in {-1, 1}
    BY <1>1, <1>7, NumParts DEF x, y
  <2>2. /\ zadd(s, r, a, b) = zaddsub(s, r, a, b, g, h)
        /\ zsub(s, r, a, b) = zaddsub(s, r, a, b, g, -h)
        /\ zaddmag(s, r, a, b) = zaddsub(s, r, a, b, 1, 1)
        /\ zsubmag(s, r, a, b) = Difference(s, r, a, b, 1)
    BY <1>7 DEF zadd, zsub, zaddmag, zsubmag
  <2>3. /\ Makes(s, zaddsub(s, r, a, b, g, h), r, g * v + h * w)
        /\ Makes(s, zaddsub(s, r, a, b, g, -h), r, g * v + (-h) * w)
        /\ Makes(s, zaddsub(s, r, a, b, 1, 1), r, 1 * v + 1 * w)
        /\ Makes(s, Difference(s, r, a, b, 1), r, 1 * (v - w))
    <3> HIDE DEF g, h
    <3>1. QED  BY <1>7, <2>1, AddSubMakes, DifferenceMakes
  <2> HIDE DEF g, h, v, w
  <2>4. /\ g * v + h * w = x + y /\ 1 * v + 1 * w = AbsOf(x) + AbsOf(y)
        /\ 1 * (v - w) = AbsOf(x) - AbsOf(y)
    BY <2>1
  <2>5. g * v + (-h) * w = x - y
    <3>1. CASE h = 1
      BY <2>1, <3>1
    <3>2. CASE h = -1
      BY <2>1, <3>2
    <3>3. QED  BY <2>1, <3>1, <3>2
  <2>6. QED  BY <2>2, <2>3, <2>4, <2>5 DEF x, y
<1>8. QED  BY <1>5, <1>6, <1>7

\* The first packet of a number that is not zero.
LEMMA FirstOfNumber ==
    ASSUME NEW s, Good(s), NEW a \in Zvar, Sign(s, a) # 0
    PROVE  /\ First(s, a) \in Limb /\ Second(s, a) \in Limb
           /\ Mag(s, a) \in Int /\ Used(s, a) \in Nat /\ Used(s, a) > 0
           /\ \E k \in Int :
                 /\ Mag(s, a) = First(s, a) + Base * k /\ k >= 0
                 /\ k > 0 <=> Used(s, a) > 1 \/ Second(s, a) # 0
<1> DEFINE n == Used(s, a)
           N == n * PacketLimbs
<1>1. Holds(s, a, n, Mag(s, a))
  BY GoodHolds
<1>2. /\ n \in Nat /\ n > 0 /\ N \in Nat /\ Area(s.m, Ptr(a), N) /\ Top(s.m, Ptr(a), n)
      /\ Mag(s, a) \in Int /\ Mag(s, a) = Value(s.m, Ptr(a), n) /\ IsMemory(s.m) /\ s.m \in Memory(s.m)
  BY <1>1, SizedMemory DEF Holds, Good, IsMemory
<1> HIDE DEF n
<1>3. N = n * 2 /\ N >= 2
  BY <1>2, ZSumsAssumption
<1>4. \A i \in 0 .. N - 1 : Get(s.m, Ptr(a), i) \in Limb
  BY <1>2, GetLimb
<1>5. First(s, a) \in Limb /\ Second(s, a) \in Limb
  BY <1>2, <1>3, <1>4 DEF First, Second
<1>6. PICK k \in Int :
         /\ Value(s.m, Ptr(a), n) = Get(s.m, Ptr(a), 0) + Base * k /\ k >= 0
         /\ (\E j \in 1 .. N - 1 : Get(s.m, Ptr(a), j) # 0) => k > 0
         /\ (\A j \in 1 .. N - 1 : Get(s.m, Ptr(a), j) = 0) => k = 0
  <2> HIDE DEF N
  <2>1. QED  BY <1>2, FirstOfPackets DEF N
<1>7. n > 1 => k > 0
  <2> HAVE n > 1
  <2>1. PICK i \in (n - 1) * PacketLimbs .. n * PacketLimbs - 1 : Get(s.m, Ptr(a), i) # 0
    BY <1>2 DEF Top
  <2>2. i \in 1 .. N - 1
    BY <1>2, <2>1, ZSumsAssumption
  <2>3. QED  BY <1>6, <2>1, <2>2
<1>8. Second(s, a) # 0 => k > 0
  BY <1>2, <1>3, <1>6 DEF Second
<1>9. ~(n > 1) /\ Second(s, a) = 0 => k = 0
  <2> HAVE ~(n > 1) /\ Second(s, a) = 0
  <2>1. \A j \in 1 .. N - 1 : j = 1
    BY <1>2, <1>3
  <2>2. QED  BY <1>6, <2>1 DEF Second
<1>10. QED  BY <1>2, <1>5, <1>6, <1>7, <1>8, <1>9 DEF First, n

\* A product with Base.
LEMMA BaseTimes ==
    ASSUME NEW k \in Int
    PROVE  /\ Base * k \in Int /\ (k = 0 => Base * k = 0)
           /\ k >= 0 => Base * k >= 0
           /\ k > 0 => Base * k >= Base
  BY BaseFacts

\* |a| + x of one sign
LEMMA WordSumMakes ==
    ASSUME NEW s, Good(s), NEW r \in Zvar, NEW a \in Zvar, Sign(s, a) # 0, NEW x \in Limb,
           NEW sg \in {-1, 1}
    PROVE  Makes(s, zaddsubu(s, r, a, x, sg, sg), r, sg * (Mag(s, a) + x))
<1> DEFINE n == Used(s, a)
           keep == r = a
           t == Grow(s, r, n + 1, keep)
           k == paddu(t.m, Ptr(r), Ptr(a), x, n)
           N == n * PacketLimbs
<1>1. /\ r \in Object /\ Sized(s) /\ n \in Nat /\ n > 0 /\ n + 1 \in Nat
      /\ r = a => Used(s, r) =< s.z[r].resv
  BY GoodNum
<1>2. keep \in BOOLEAN /\ (keep <=> r = a)
  OBVIOUS
<1> HIDE DEF keep
<1>3. /\ Sized(t) /\ Only(s, t, r) /\ t.z[r].resv >= n + 1
  BY <1>1, <1>2, GrowSized
<1>4. Holds(t, a, n, Mag(s, a))
  BY <1>1, <1>2, GrowKeeps
<1> HIDE DEF t, n
<1>5. n + 1 =< t.z[r].resv /\ t.z[r].resv \in Nat /\ n =< t.z[r].resv
  BY <1>1, <1>3, SizedObject
<1>6. /\ IsMemory(t.m) /\ N \in Nat /\ Area(t.m, Ptr(r), N) /\ Area(t.m, Ptr(a), N)
      /\ Follows(Ptr(r), Ptr(a), N)
  BY <1>1, <1>3, <1>4, <1>5, SizedArea, SizedMemory DEF Holds, Follows, Ptr
<1>7. N > 0
  BY <1>1, ZSumsAssumption
<1> DEFINE d == Number(LimbsAt(k.m, Ptr(r), N), N, k.c)
<1>8. /\ k.c \in Limb /\ OnlyAt(t.m, k.m, Ptr(r), N)
      /\ d = Value(t.m, Ptr(a), n) + x
  <2> HIDE DEF N
  <2>1. QED  BY <1>1, <1>6, <1>7, WordSumOfPackets DEF N
<1>9. d = Mag(s, a) + x /\ Mag(s, a) \in Int /\ Value(t.m, Ptr(a), n) = Mag(s, a)
  BY <1>4, <1>8 DEF Holds
<1> HIDE DEF k, d, N
<1>10. k.c = 0 => Top(k.m, Ptr(r), n)
  <2> HAVE k.c = 0
  <2>1. k.m \in Memory(t.m) /\ IsMemory(k.m) /\ DOMAIN k.m = Object /\ DOMAIN t.m = Object
        /\ \A o \in Object : DOMAIN k.m[o] = DOMAIN t.m[o]
    BY <1>3, <1>8, SizedMemory DEF OnlyAt
  <2>2. Area(k.m, Ptr(r), N)
    BY <1>1, <1>6, <2>1 DEF Area, Ptr
  <2>3. \A i \in 0 .. N - 1 : Get(k.m, Ptr(r), i) \in Limb
    BY <1>6, <2>1, <2>2, GetLimb DEF IsMemory
  <2>4. Value(k.m, Ptr(r), n) = Number(LimbsAt(k.m, Ptr(r), N), N, 0)
    BY <1>1, <1>6, <2>3, NumberOfLimbs DEF N
  <2>5. Value(k.m, Ptr(r), n) >= Value(t.m, Ptr(a), n)
    BY <1>9, <2>4, LimbNumber DEF d
  <2>6. Top(t.m, Ptr(a), n)
    BY <1>4 DEF Holds
  <2>7. QED  BY <1>1, <1>6, <2>1, <2>2, <2>5, <2>6, LargeHasTop DEF N
<1>11. Makes(s, Carried(t, r, k, n, sg), r, sg * Number(LimbsAt(k.m, Ptr(r), N), N, k.c))
  BY <1>1, <1>3, <1>5, <1>6, <1>8, <1>10, CarriedMakes DEF N
<1>12. zaddsubu(s, r, a, x, sg, sg) = Carried(t, r, k, n, sg)
  BY DEF zaddsubu, keep, t, k, n
<1>13. QED  BY <1>9, <1>11, <1>12 DEF d

\* |a| - x, below zero only if a is one word.
LEMMA WordDifferenceMakes ==
    ASSUME NEW s, Good(s), NEW r \in Zvar, NEW a \in Zvar, Sign(s, a) # 0, NEW x \in Limb,
           NEW sg \in {-1, 1}, NEW bs \in {-1, 1}, bs # sg
    PROVE  Makes(s, zaddsubu(s, r, a, x, sg, bs), r, sg * (Mag(s, a) - x))
<1> DEFINE n == Used(s, a)
           large == n > 1 \/ First(s, a) > x \/ Second(s, a) # 0
           c == x - First(s, a)
<1>1. PICK q \in Int : /\ Mag(s, a) = First(s, a) + Base * q /\ q >= 0
                       /\ q > 0 <=> n > 1 \/ Second(s, a) # 0
  BY FirstOfNumber
<1>2. First(s, a) \in Limb /\ Mag(s, a) \in Int /\ n \in Nat /\ n > 0
  BY FirstOfNumber
<1>3. /\ First(s, a) \in Int /\ First(s, a) >= 0 /\ First(s, a) =< Base - 1
      /\ x \in Int /\ x >= 0 /\ x =< Base - 1 /\ Base \in Int
      /\ Base * q \in Int /\ Base * q >= 0 /\ (q > 0 => Base * q >= Base) /\ (q = 0 => Base * q = 0)
  <2>1. /\ First(s, a) \in Int /\ First(s, a) >= 0 /\ First(s, a) =< Base - 1
        /\ x \in Int /\ x >= 0 /\ x =< Base - 1 /\ Base \in Int
    <3> DEFINE y == First(s, a)
    <3>1. y \in Limb
      BY <1>2
    <3> HIDE DEF y
    <3>2. y \in Int /\ 0 =< y /\ y =< Base - 1 /\ x \in Int /\ 0 =< x /\ x =< Base - 1
      BY <3>1, LimbNumber
    <3>3. Base \in Int
      BY BaseFacts
    <3>4. QED  BY <3>2, <3>3 DEF y
  <2>2. Base * q \in Int /\ Base * q >= 0 /\ (q > 0 => Base * q >= Base) /\ (q = 0 => Base * q = 0)
    BY <1>1, BaseTimes
  <2>3. QED  BY <2>1, <2>2
<1>4. CASE large
  <2> DEFINE u == Grow(s, r, n, FALSE)
             k == psubu(u.m, Ptr(r), Ptr(a), x, n)
             N == n * PacketLimbs
  <2>1. Mag(s, a) >= x
    BY <1>1, <1>2, <1>3, <1>4
  <2>2. r \in Object /\ Sized(s) /\ (r = a => n =< s.z[r].resv)
    BY GoodNum
  <2> HIDE DEF n
  <2>3. Sized(u) /\ Only(s, u, r) /\ u.z[r].resv >= n
    BY <1>2, <2>2, GrowSized
  <2>4. Holds(u, a, n, Mag(s, a))
    <3>1. Holds(u, a, Used(s, a), Mag(s, a))
      BY <1>2, <2>2, GrowKeeps
    <3>2. QED  BY <3>1 DEF n
  <2> HIDE DEF u
  <2>5. u.z[r].resv \in Nat /\ n =< u.z[r].resv
    BY <1>2, <2>2, <2>3, SizedObject
  <2>6. /\ IsMemory(u.m) /\ N \in Nat /\ Area(u.m, Ptr(r), N) /\ Area(u.m, Ptr(a), N)
        /\ Follows(Ptr(r), Ptr(a), N)
    BY <1>2, <2>2, <2>3, <2>4, <2>5, SizedArea, SizedMemory DEF Holds, Follows, Ptr
  <2> DEFINE d == Number(LimbsAt(k.m, Ptr(r), N), N, -k.c)
  <2>7. /\ OnlyAt(u.m, k.m, Ptr(r), N) /\ d = Value(u.m, Ptr(a), n) - x
        /\ Value(u.m, Ptr(a), n) >= x => k.c = 0
    <3> HIDE DEF N
    <3>1. QED  BY <1>2, <2>6, WordDifferenceOfPackets DEF N
  <2>8. d = Mag(s, a) - x /\ k.c = 0 /\ -k.c = 0
    <3>1. Value(u.m, Ptr(a), n) = Mag(s, a)
      BY <2>4 DEF Holds
    <3> HIDE DEF d, k
    <3>2. QED  BY <2>1, <2>7, <3>1
  <2>9. d = Number(LimbsAt(k.m, Ptr(r), N), N, 0)
    BY <2>8
  <2> HIDE DEF k, d, N
  <2>10. Makes(s, Normed(u, k.m, r, n, sg), r, sg * Number(LimbsAt(k.m, Ptr(r), N), N, 0))
    BY <1>2, <2>3, <2>5, <2>6, <2>7, NormedMakes DEF N
  <2>11. zaddsubu(s, r, a, x, sg, bs) = Normed(u, k.m, r, n, sg)
    BY <1>2, <1>4 DEF zaddsubu, u, k, n
  <2>12. QED  BY <2>8, <2>9, <2>10, <2>11
<1>5. CASE ~large
  <2>1. Mag(s, a) = First(s, a) /\ First(s, a) =< x
    BY <1>1, <1>2, <1>3, <1>5
  <2>2. CASE c = 0
    <3>1. zaddsubu(s, r, a, x, sg, bs) = zsetzero(s, r)
      BY <1>2, <1>5, <2>2 DEF zaddsubu
    <3>2. sg * (Mag(s, a) - x) = 0
      BY <1>3, <2>1, <2>2
    <3>3. QED  BY <3>1, <3>2, ZeroMakes DEF Good, Only
  <2>3. CASE c # 0
    <3>1. c \in Limb /\ c # 0
      BY <1>3, <2>1, <2>3 DEF Limb
    <3> DEFINE small == Grow(s, r, 1, FALSE)
    <3>2. zaddsubu(s, r, a, x, sg, bs) = Finish(With(small, psetu(small.m, Ptr(r), c)), r, 1, bs)
      BY <1>2, <1>5, <2>3 DEF zaddsubu
    <3>4. bs * c = sg * (Mag(s, a) - x)
      <4>1. c \in Int /\ Mag(s, a) - x = -c
        BY <1>3, <2>1
      <4> HIDE DEF c
      <4>2. CASE sg = 1 /\ bs = -1
        BY <4>1, <4>2
      <4>3. CASE sg = -1 /\ bs = 1
        BY <4>1, <4>3
      <4>4. QED  BY <4>2, <4>3
    <3> HIDE DEF c
    <3>5. Makes(s, Finish(With(small, psetu(small.m, Ptr(r), c)), r, 1, bs), r, bs * c)
      BY <3>1, WordMakes
    <3>6. QED  BY <3>2, <3>4, <3>5
  <2>4. QED  BY <2>2, <2>3
<1>6. QED  BY <1>4, <1>5

\* hebi_zaddu and hebi_zsubu
LEMMA AddWordMakes ==
    ASSUME NEW s, Good(s), NEW r \in Zvar, NEW a \in Zvar, NEW x \in Limb
    PROVE  /\ Makes(s, zaddu(s, r, a, x), r, Num(s, a) + x)
           /\ Makes(s, zsubu(s, r, a, x), r, Num(s, a) - x)
<1> DEFINE y == Num(s, a)
<1>1. y \in Int /\ Sign(s, a) \in {-1, 0, 1} /\ (Sign(s, a) = 0 => y = 0) /\ x \in Int
  BY NumParts, LimbNumber
<1> HIDE DEF y
<1>2. CASE x = 0
  <2>1. zaddu(s, r, a, x) = zset(s, r, a) /\ zsubu(s, r, a, x) = zset(s, r, a)
    BY <1>2 DEF zaddu, zsubu
  <2>2. y + x = y /\ y - x = y
    BY <1>1, <1>2
  <2>3. Makes(s, zset(s, r, a), r, y)
    BY SetMakes DEF y
  <2>4. QED  BY <2>1, <2>2, <2>3 DEF y
<1>3. CASE x # 0 /\ Sign(s, a) = 0
  <2>1. zaddu(s, r, a, x) = zsetu(s, r, x) /\ zsubu(s, r, a, x) = zneg(zsetu(s, r, x), r, r)
    BY <1>3 DEF zaddu, zsubu
  <2>2. y + x = x /\ y - x = -x
    BY <1>1, <1>3
  <2>3. Makes(s, zsetu(s, r, x), r, x)
    BY SetWordMakes
  <2>4. Makes(s, zneg(zsetu(s, r, x), r, r), r, -x)
    BY <1>1, <2>3, NegInPlace
  <2>5. QED  BY <2>1, <2>2, <2>3, <2>4 DEF y
<1>4. CASE x # 0 /\ Sign(s, a) # 0
  <2> DEFINE g == Sign(s, a)
             v == Mag(s, a)
  <2>1. y = g * v /\ v \in Int /\ g \in {-1, 1} /\ 1 \in {-1, 1} /\ -1 \in {-1, 1}
    BY <1>1, <1>4, NumParts DEF y
  <2>2. zaddu(s, r, a, x) = zaddsubu(s, r, a, x, g, 1) /\ zsubu(s, r, a, x) = zaddsubu(s, r, a, x, g, -1)
    BY <1>4 DEF zaddu, zsubu
  <2>3. /\ Makes(s, zaddsubu(s, r, a, x, 1, 1), r, 1 * (v + x))
        /\ Makes(s, zaddsubu(s, r, a, x, -1, -1), r, (-1) * (v + x))
        /\ Makes(s, zaddsubu(s, r, a, x, 1, -1), r, 1 * (v - x))
    BY <1>4, <2>1, WordSumMakes, WordDifferenceMakes
  <2>4. Makes(s, zaddsubu(s, r, a, x, -1, 1), r, (-1) * (v - x))
    BY <1>4, <2>1, WordDifferenceMakes
  <2> HIDE DEF g, v
  <2>5. CASE g = 1
    <3>1. 1 * (v + x) = y + x /\ 1 * (v - x) = y - x
      BY <1>1, <2>1, <2>5
    <3>2. QED  BY <2>2, <2>3, <2>5, <3>1 DEF y
  <2>6. CASE g = -1
    <3>1. (-1) * (v + x) = y - x /\ (-1) * (v - x) = y + x
      BY <1>1, <2>1, <2>6
    <3>2. QED  BY <2>2, <2>3, <2>4, <2>6, <3>1 DEF y
  <2>7. QED  BY <2>1, <2>5, <2>6
<1>5. QED  BY <1>2, <1>3, <1>4

\* hebi_zaddi, hebi_zsubi and hebi_znot
LEMMA AddSignedMakes ==
    ASSUME NEW s, Good(s), NEW r \in Zvar, NEW a \in Zvar, NEW x \in Int, AbsOf(x) \in Limb
    PROVE  /\ Makes(s, zaddi(s, r, a, x), r, Num(s, a) + x)
           /\ Makes(s, zsubi(s, r, a, x), r, Num(s, a) - x)
<1>1. Num(s, a) \in Int
  BY NumParts
<1>2. CASE x < 0
  <2>1. -x \in Limb /\ zaddi(s, r, a, x) = zsubu(s, r, a, -x) /\ zsubi(s, r, a, x) = zaddu(s, r, a, -x)
    BY <1>2 DEF AbsOf, zaddi, zsubi
  <2>2. Num(s, a) - (-x) = Num(s, a) + x /\ Num(s, a) + (-x) = Num(s, a) - x
    BY <1>1
  <2>3. QED  BY <2>1, <2>2, AddWordMakes
<1>3. CASE ~(x < 0)
  <2>1. x \in Limb /\ zaddi(s, r, a, x) = zaddu(s, r, a, x) /\ zsubi(s, r, a, x) = zsubu(s, r, a, x)
    BY <1>3 DEF AbsOf, zaddi, zsubi
  <2>2. QED  BY <2>1, AddWordMakes
<1>4. QED  BY <1>2, <1>3

LEMMA NotMakes ==
    ASSUME NEW s, Good(s), NEW r \in Zvar, NEW a \in Zvar
    PROVE  Makes(s, znot(s, r, a), r, -Num(s, a) - 1)
<1>1. Num(s, a) \in Int /\ 1 \in Limb
  BY NumParts, BaseFacts
<1>2. Makes(s, zaddu(s, r, a, 1), r, Num(s, a) + 1) /\ Num(s, a) + 1 \in Int
  BY <1>1, AddWordMakes
<1>3. Makes(s, zneg(zaddu(s, r, a, 1), r, r), r, -(Num(s, a) + 1))
  BY <1>2, NegInPlace
<1>4. -(Num(s, a) + 1) = -Num(s, a) - 1
  BY <1>1
<1>5. QED  BY <1>3, <1>4 DEF znot

-----------------------------------------------------------------------------
(* Comparisons and conversions *)

\* hebi_zcmp and hebi_zcmpmag
LEMMA ComparesRight ==
    ASSUME NEW s, Good(s), NEW a \in Zvar, NEW b \in Zvar
    PROVE  /\ zcmp(s, a, b) = SignOf(Num(s, a) - Num(s, b))
           /\ zcmpmag(s, a, b) = SignOf(AbsOf(Num(s, a)) - AbsOf(Num(s, b)))
<1> DEFINE x == Num(s, a)
           y == Num(s, b)
           g == Sign(s, a)
           h == Sign(s, b)
           v == Mag(s, a)
           w == Mag(s, b)
           c == Order(s, a, b)
<1>1. /\ x \in Int /\ y \in Int /\ g \in {-1, 0, 1} /\ h \in {-1, 0, 1}
      /\ g = 0 => x = 0 /\ AbsOf(x) = 0
      /\ h = 0 => y = 0 /\ AbsOf(y) = 0
      /\ g # 0 => v \in Int /\ v > 0 /\ x = g * v /\ AbsOf(x) = v
      /\ h # 0 => w \in Int /\ w > 0 /\ y = h * w /\ AbsOf(y) = w
  BY NumParts
<1>2. g # 0 /\ h # 0 => c = IF v < w THEN -1 ELSE IF v > w THEN 1 ELSE 0
  BY OrderOfMagnitudes
<1>3. zcmp(s, a, b) = IF g # h THEN SignOf(g - h) ELSE IF g = 0 THEN 0 ELSE g * c
  BY DEF zcmp
<1>4. zcmpmag(s, a, b) = IF g = 0 THEN (IF h = 0 THEN 0 ELSE -1) ELSE IF h = 0 THEN 1 ELSE c
  BY DEF zcmpmag
<1> HIDE DEF x, y, g, h, v, w, c
<1>5. zcmp(s, a, b) = SignOf(x - y)
  <2>1. CASE g = 0
    <3>1. CASE h = 0
      BY <1>1, <1>3, <2>1, <3>1 DEF SignOf
    <3>2. CASE h = 1
      BY <1>1, <1>3, <2>1, <3>2 DEF SignOf
    <3>3. CASE h = -1
      BY <1>1, <1>3, <2>1, <3>3 DEF SignOf
    <3>4. QED  BY <1>1, <3>1, <3>2, <3>3
  <2>2. CASE g = 1
    <3>1. CASE h = 0
      BY <1>1, <1>3, <2>2, <3>1 DEF SignOf
    <3>2. CASE h = 1
      BY <1>1, <1>2, <1>3, <2>2, <3>2 DEF SignOf
    <3>3. CASE h = -1
      BY <1>1, <1>3, <2>2, <3>3 DEF SignOf
    <3>4. QED  BY <1>1, <3>1, <3>2, <3>3
  <2>3. CASE g = -1
    <3>1. CASE h = 0
      BY <1>1, <1>3, <2>3, <3>1 DEF SignOf
    <3>2. CASE h = 1
      BY <1>1, <1>3, <2>3, <3>2 DEF SignOf
    <3>3. CASE h = -1
      BY <1>1, <1>2, <1>3, <2>3, <3>3 DEF SignOf
    <3>4. QED  BY <1>1, <3>1, <3>2, <3>3
  <2>4. QED  BY <1>1, <2>1, <2>2, <2>3
<1>6. zcmpmag(s, a, b) = SignOf(AbsOf(x) - AbsOf(y))
  <2>1. CASE g = 0
    BY <1>1, <1>4, <2>1 DEF SignOf
  <2>2. CASE g # 0 /\ h = 0
    BY <1>1, <1>4, <2>2 DEF SignOf
  <2>3. CASE g # 0 /\ h # 0
    BY <1>1, <1>2, <1>4, <2>3 DEF SignOf
  <2>4. QED  BY <2>1, <2>2, <2>3
<1>7. QED  BY <1>5, <1>6 DEF x, y

\* The first packet against a word, when it is all there is.
LEMMA FirstPacketIs ==
    ASSUME NEW s, Good(s), NEW a \in Zvar, Sign(s, a) # 0, Used(s, a) =< 1, NEW x \in Limb
    PROVE  FirstPacket(s, a, x) = SignOf(Mag(s, a) - x)
<1> DEFINE f == First(s, a)
           g == Second(s, a)
<1>1. /\ f \in Limb /\ Used(s, a) \in Nat /\ Mag(s, a) \in Int
  BY FirstOfNumber
<1>2. PICK k \in Int : /\ Mag(s, a) = f + Base * k /\ k >= 0
                       /\ k > 0 <=> Used(s, a) > 1 \/ g # 0
  BY FirstOfNumber
<1>3. FirstPacket(s, a, x) = IF g # 0 THEN 1 ELSE SignOf(f - x)
  <2>1. \A i \in 1 .. PacketLimbs - 1 : i = 1
    BY ZSumsAssumption
  <2>2. 1 \in 1 .. PacketLimbs - 1
    BY ZSumsAssumption
  <2>3. g = Get(s.m, Ptr(a), 1)
    BY DEF Second
  <2>4. (\E i \in 1 .. PacketLimbs - 1 : Get(s.m, Ptr(a), i) # 0) <=> g # 0
    BY <2>1, <2>2, <2>3
  <2>5. QED  BY <2>4 DEF FirstPacket
<1> HIDE DEF f, g
<1>4. /\ f \in Int /\ 0 =< f /\ f =< Base - 1 /\ x \in Int /\ 0 =< x /\ x =< Base - 1
  BY <1>1, LimbNumber
<1>5. Base \in Int /\ Base * k \in Int /\ (k > 0 => Base * k >= Base) /\ (k = 0 => Base * k = 0)
  BY <1>2, BaseTimes, BaseFacts
<1>6. CASE g # 0
  BY <1>1, <1>2, <1>3, <1>4, <1>5, <1>6 DEF SignOf
<1>7. CASE g = 0
  <2>1. k = 0
    BY <1>1, <1>2, <1>7
  <2>2. Mag(s, a) = f
    BY <1>2, <1>4, <1>5, <2>1
  <2>3. QED  BY <1>3, <1>7, <2>2
<1>8. QED  BY <1>6, <1>7

\* hebi_zcmpu and hebi_zcmpi, of a number of one packet
LEMMA ComparesWordRight ==
    ASSUME NEW s, Good(s), NEW a \in Zvar, hebi_zused(s, a) =< 1, NEW x \in Int, AbsOf(x) \in Limb
    PROVE  /\ x >= 0 => zcmpu(s, a, x) = SignOf(Num(s, a) - x)
           /\ zcmpi(s, a, x) = SignOf(Num(s, a) - x)
<1> DEFINE y == Num(s, a)
           g == Sign(s, a)
           v == Mag(s, a)
           c == FirstPacket(s, a, x)
           d == FirstPacket(s, a, AbsOf(x))
<1>1. /\ y \in Int /\ g \in {-1, 0, 1} /\ SignOf(y) = g
      /\ g = 0 => y = 0
      /\ g # 0 => v \in Int /\ v > 0 /\ y = g * v
  BY NumParts
<1>2. g # 0 => d = SignOf(v - AbsOf(x)) /\ (x >= 0 => c = SignOf(v - x))
  <2> HAVE g # 0
  <2>1. Used(s, a) =< 1
    BY DEF hebi_zused
  <2>2. d = SignOf(v - AbsOf(x))
    BY <2>1, FirstPacketIs
  <2>3. x >= 0 => AbsOf(x) = x
    BY DEF AbsOf
  <2>4. QED  BY <2>2, <2>3
<1>3. zcmpu(s, a, x) = IF x = 0 THEN g ELSE IF g =< 0 THEN -1 ELSE c
  BY DEF zcmpu
<1>4. zcmpi(s, a, x) = IF x = 0 THEN g ELSE IF g # SignOf(x) THEN (IF x < 0 THEN 1 ELSE -1) ELSE g * d
  BY DEF zcmpi
<1> HIDE DEF y, g, v, c, d
<1>5. x >= 0 => zcmpu(s, a, x) = SignOf(y - x)
  <2> HAVE x >= 0
  <2>1. CASE g = 1
    <3>1. y = v /\ v > 0 /\ v \in Int /\ c = SignOf(y - x)
      BY <1>1, <1>2, <2>1
    <3>2. QED  BY <1>3, <2>1, <3>1 DEF SignOf
  <2>2. CASE g = 0
    BY <1>1, <1>3, <2>2 DEF SignOf
  <2>3. CASE g = -1
    BY <1>1, <1>3, <2>3 DEF SignOf
  <2>4. QED  BY <1>1, <2>1, <2>2, <2>3
<1>6. zcmpi(s, a, x) = SignOf(y - x)
  <2>1. CASE g = 1
    BY <1>1, <1>2, <1>4, <2>1 DEF SignOf, AbsOf
  <2>2. CASE g = 0
    BY <1>1, <1>4, <2>2 DEF SignOf
  <2>3. CASE g = -1
    BY <1>1, <1>2, <1>4, <2>3 DEF SignOf, AbsOf
  <2>4. QED  BY <1>1, <2>1, <2>2, <2>3
<1>7. QED  BY <1>5, <1>6 DEF y

\* A quotient and a remainder are the only ones.
LEMMA Remainder ==
    ASSUME NEW n \in Nat \ {0}, NEW a \in Int, NEW k \in Int, NEW c \in 0 .. n - 1, a = n * k + c
    PROVE  a % n = c
<1> DEFINE q == a \div n
           r == a % n
           z == q - k
<1>1. q \in Int /\ r \in 0 .. n - 1 /\ a = n * q + r
  OBVIOUS
<1> HIDE DEF q, r
<1>2. z \in Int /\ n * z = n * q - n * k
  BY <1>1
<1>3. n * z = c - r
  BY <1>1, <1>2
<1> HIDE DEF z
<1>4. z >= 1 => n * z >= n * 1
  BY <1>2
<1>5. z =< -1 => n * z =< n * (-1)
  BY <1>2
<1>6. z = 0
  BY <1>1, <1>2, <1>3, <1>4, <1>5
<1>7. n * z = 0
  BY <1>6
<1>8. QED  BY <1>1, <1>3, <1>7 DEF r

\* Multiples of Base do not count in the low word.
LEMMA LowWord ==
    ASSUME NEW a \in Int, NEW k \in Int
    PROVE  (a + Base * k) % Base = a % Base /\ a % Base \in Limb
<1> DEFINE b == a + Base * k
           p == a \div Base
           c == a % Base
<1>1. Base \in Nat \ {0}
  BY BaseFacts
<1>2. p \in Int /\ c \in 0 .. Base - 1 /\ a = Base * p + c
  BY <1>1
<1> HIDE DEF p, c
<1>3. b \in Int /\ p + k \in Int /\ b = Base * (p + k) + c
  <2>1. Base * (p + k) = Base * p + Base * k /\ Base * k \in Int /\ Base * p \in Int
    BY <1>1, <1>2
  <2>2. QED  BY <1>2, <2>1
<1> HIDE DEF b
<1>4. b % Base = c
  BY <1>1, <1>2, <1>3, Remainder
<1>5. QED  BY <1>2, <1>4 DEF b, c, Limb

\* Half of Base.
LEMMA HighBitFacts == HighBit \in Nat /\ HighBit >= 1 /\ 2 * HighBit =< Base /\ Base =< 2 * HighBit + 1
  BY BaseFacts DEF HighBit

LEMMA SignedFacts ==
    ASSUME NEW x \in Int
    PROVE  Signed(x) \in Int /\ AbsOf(Signed(x)) \in Limb
<1> DEFINE y == x % Base
<1>1. Base \in Int /\ Base > 0
  BY BaseFacts
<1>2. y \in Int /\ 0 =< y /\ y < Base
  BY <1>1
<1>3. Signed(x) = IF y < HighBit THEN y ELSE y - Base
  BY DEF Signed
<1> HIDE DEF y
<1>4. QED  BY <1>1, <1>2, <1>3, HighBitFacts DEF AbsOf, Limb

\* The word nearest to an integer, and its low word.
Near(x, lo, hi) == IF x < lo THEN lo ELSE IF x > hi THEN hi ELSE x

LEMMA SignedLow ==
    ASSUME NEW x \in Int, NEW y \in Int, x % Base = y % Base
    PROVE  Signed(x) = Signed(y)
  BY DEF Signed

\* hebi_zgetsu, hebi_zgetsi, hebi_zgetu and hebi_zgeti
LEMMA WordsRight ==
    ASSUME NEW s, Good(s), NEW a \in Zvar
    PROVE  /\ zgetsu(s, a) = Near(Num(s, a), 0, Base - 1)
           /\ zgetsi(s, a) = Near(Num(s, a), -HighBit, HighBit - 1)
           /\ zgetu(s, a) = AbsOf(Num(s, a)) % Base
           /\ zgeti(s, a) = Signed(Num(s, a))
<1> DEFINE x == Num(s, a)
           g == Sign(s, a)
           v == Mag(s, a)
           f == First(s, a)
           one == OneWord(s, a)
<1>1. /\ x \in Int /\ g \in {-1, 0, 1}
      /\ g = 0 => x = 0 /\ AbsOf(x) = 0
      /\ g # 0 => v \in Int /\ v > 0 /\ x = g * v /\ AbsOf(x) = v
  BY NumParts
<1>2. Base \in Nat \ {0} /\ Base >= 2 /\ HighBit \in Int /\ HighBit >= 1 /\ HighBit =< Base - 1
  BY BaseFacts, HighBitFacts
<1>3. CASE g = 0
  <2>1. zgetsu(s, a) = 0 /\ zgetsi(s, a) = 0 /\ zgetu(s, a) = 0 /\ zgeti(s, a) = 0
    BY <1>3 DEF zgetsu, zgetsi, zgetu, zgeti
  <2>2. x = 0 /\ AbsOf(x) = 0
    BY <1>1, <1>3
  <2>3. 0 % Base = 0
    <3>1. 0 = Base * 0 + 0 /\ 0 \in 0 .. Base - 1
      BY <1>2
    <3>2. QED  BY <1>2, <3>1, Remainder
  <2>4. Signed(0) = 0
    BY <1>2, <2>3 DEF Signed
  <2>5. Near(0, 0, Base - 1) = 0 /\ Near(0, -HighBit, HighBit - 1) = 0
    BY <1>2 DEF Near
  <2>6. QED  BY <2>1, <2>2, <2>3, <2>4, <2>5
<1>4. CASE g # 0
  <2>1. f \in Limb /\ Second(s, a) \in Limb /\ Used(s, a) \in Nat
    BY <1>4, FirstOfNumber
  <2>2. PICK k \in Int : /\ v = f + Base * k /\ k >= 0
                         /\ k > 0 <=> Used(s, a) > 1 \/ Second(s, a) # 0
    BY <1>4, FirstOfNumber
  <2>3. one <=> k = 0
    BY <2>1, <2>2 DEF OneWord
  <2>4. /\ zgetsu(s, a) = (IF g =< 0 THEN 0 ELSE IF one THEN f ELSE Base - 1)
        /\ zgetsi(s, a) = (IF one /\ f < HighBit THEN g * f ELSE IF g < 0 THEN -HighBit ELSE HighBit - 1)
        /\ zgetu(s, a) = f /\ zgeti(s, a) = Signed(g * f)
    BY <1>4 DEF zgetsu, zgetsi, zgetu, zgeti
  <2> HIDE DEF x, g, v, f, one
  <2>5. f \in Int /\ 0 =< f /\ f =< Base - 1
    BY <2>1, LimbNumber
  <2>6. Base * k \in Int /\ (k > 0 => Base * k >= Base) /\ (k = 0 => Base * k = 0)
    BY <2>2, BaseTimes
  <2>7. /\ one => v = f
        /\ ~one => v >= Base
    <3>1. v = f + Base * k /\ k \in Int /\ k >= 0
      BY <2>2
    <3>2. k = 0 => v = f
      BY <2>5, <2>6, <3>1
    <3>3. k # 0 => v >= Base
      BY <1>2, <2>5, <2>6, <3>1
    <3>4. QED  BY <2>3, <3>2, <3>3
  <2>8. g \in {-1, 1} /\ x = g * v /\ v > 0 /\ v \in Int
    BY <1>1, <1>4
  <2>9. zgetsu(s, a) = Near(x, 0, Base - 1)
    <3>1. CASE g = 1
      <4>1. x = v
        BY <2>8, <3>1
      <4>2. zgetsu(s, a) = IF one THEN f ELSE Base - 1
        BY <2>4, <3>1
      <4>3. QED  BY <1>2, <2>5, <2>7, <2>8, <4>1, <4>2 DEF Near
    <3>2. CASE g = -1
      BY <1>2, <2>4, <2>8, <3>2 DEF Near
    <3>3. QED  BY <2>8, <3>1, <3>2
  <2>10. zgetsi(s, a) = Near(x, -HighBit, HighBit - 1)
    <3>1. CASE one /\ f < HighBit
      <4>1. zgetsi(s, a) = g * f /\ x = g * f
        BY <2>4, <2>7, <2>8, <3>1
      <4>2. g * f >= -HighBit /\ g * f =< HighBit - 1 /\ g * f \in Int
        BY <1>2, <2>5, <2>8, <3>1
      <4>3. QED  BY <1>2, <4>1, <4>2 DEF Near
    <3>2. CASE ~(one /\ f < HighBit)
      <4>1. v >= HighBit
        BY <1>2, <2>5, <2>7, <2>8, <3>2
      <4>2. CASE g = 1
        BY <1>2, <2>4, <2>8, <3>2, <4>1, <4>2 DEF Near
      <4>3. CASE g = -1
        BY <1>2, <2>4, <2>8, <3>2, <4>1, <4>3 DEF Near
      <4>4. QED  BY <2>8, <4>2, <4>3
    <3>3. QED  BY <3>1, <3>2
  <2>11. zgetu(s, a) = AbsOf(x) % Base
    <3>1. AbsOf(x) = Base * k + f
      BY <1>1, <1>4, <2>2, <2>5, <2>6
    <3>2. AbsOf(x) \in Int /\ f \in 0 .. Base - 1
      BY <2>5, <2>6, <3>1, <1>2
    <3>3. QED  BY <1>2, <2>2, <2>4, <3>1, <3>2, Remainder
  <2>12. zgeti(s, a) = Signed(x)
    <3>1. x = g * f + Base * (g * k) /\ g * f \in Int /\ g * k \in Int
      <4>1. CASE g = 1
        BY <2>2, <2>5, <2>6, <2>8, <4>1
      <4>2. CASE g = -1
        <5>1. Base * ((-1) * k) = -(Base * k)
          BY <1>2, <2>2
        <5>2. QED  BY <2>2, <2>5, <2>6, <2>8, <4>2, <5>1
      <4>3. QED  BY <2>8, <4>1, <4>2
    <3>2. x % Base = (g * f) % Base /\ x \in Int
      BY <1>1, <3>1, LowWord
    <3>3. QED  BY <2>4, <3>1, <3>2, SignedLow
  <2>13. QED  BY <2>9, <2>10, <2>11, <2>12 DEF x
<1>5. QED  BY <1>1, <1>3, <1>4

-----------------------------------------------------------------------------
(* Products *)

\* |a| times the word x, which is neither 0 nor 1.
LEMMA TimesMakes ==
    ASSUME NEW s, Good(s), NEW r \in Zvar, NEW a \in Zvar, Sign(s, a) # 0,
           NEW x \in Limb, x >= 2, NEW sg \in {-1, 1}
    PROVE  LET n == Used(s, a)
               t == Grow(s, r, n + 1, r = a)
           IN  Makes(s, Carried(t, r, pmulu(t.m, Ptr(r), Ptr(a), x, n), n, sg), r, sg * (x * Mag(s, a)))
<1> DEFINE n == Used(s, a)
           keep == r = a
           t == Grow(s, r, n + 1, keep)
           k == pmulu(t.m, Ptr(r), Ptr(a), x, n)
           N == n * PacketLimbs
<1>1. /\ r \in Object /\ Sized(s) /\ n \in Nat /\ n > 0 /\ n + 1 \in Nat
      /\ r = a => Used(s, r) =< s.z[r].resv
  BY GoodNum
<1>20. keep \in BOOLEAN /\ (keep <=> r = a)
  OBVIOUS
<1> HIDE DEF keep
<1>2. /\ Sized(t) /\ Only(s, t, r) /\ t.z[r].resv >= n + 1
  BY <1>1, <1>20, GrowSized
<1>3. Holds(t, a, n, Mag(s, a))
  BY <1>1, <1>20, GrowKeeps
<1> HIDE DEF t, n
<1>4. n + 1 =< t.z[r].resv /\ t.z[r].resv \in Nat /\ n =< t.z[r].resv
  BY <1>1, <1>2, SizedObject
<1>5. IsMemory(t.m) /\ N \in Nat /\ Area(t.m, Ptr(r), N) /\ Area(t.m, Ptr(a), N)
  BY <1>1, <1>2, <1>3, <1>4, SizedArea, SizedMemory DEF Holds
<1>6. Follows(Ptr(r), Ptr(a), N)
  BY DEF Follows, Ptr
<1> DEFINE d == Number(LimbsAt(k.m, Ptr(r), N), N, k.c)
<1>7. /\ k.c \in Limb /\ OnlyAt(t.m, k.m, Ptr(r), N)
      /\ d = x * Value(t.m, Ptr(a), n)
  <2> HIDE DEF N
  <2>1. QED  BY <1>1, <1>5, <1>6, WordProductOfPackets DEF N
<1>8. d = x * Mag(s, a) /\ Mag(s, a) \in Int /\ d >= Mag(s, a)
  <2> DEFINE v == Mag(s, a)
  <2>1. d = x * v /\ v \in Int /\ v > 0 /\ x \in Int
    BY <1>3, <1>7, LimbNumber DEF Holds
  <2> HIDE DEF v, d
  <2>2. x * v >= v
    BY <2>1
  <2>3. QED  BY <2>1, <2>2 DEF v
<1> HIDE DEF k, d, N
<1>9. k.c = 0 => Top(k.m, Ptr(r), n)
  <2> HAVE k.c = 0
  <2>1. k.m \in Memory(t.m) /\ IsMemory(k.m) /\ DOMAIN k.m = Object /\ DOMAIN t.m = Object
        /\ \A o \in Object : DOMAIN k.m[o] = DOMAIN t.m[o]
    BY <1>2, <1>7, SizedMemory DEF OnlyAt
  <2>2. Area(k.m, Ptr(r), N)
    BY <1>1, <1>5, <2>1 DEF Area, Ptr
  <2>3. \A i \in 0 .. N - 1 : Get(k.m, Ptr(r), i) \in Limb
    BY <1>5, <2>1, <2>2, GetLimb DEF IsMemory
  <2>4. Value(k.m, Ptr(r), n) = Number(LimbsAt(k.m, Ptr(r), N), N, 0)
    BY <1>1, <1>5, <2>3, NumberOfLimbs DEF N
  <2>5. Value(k.m, Ptr(r), n) >= Value(t.m, Ptr(a), n)
    BY <1>3, <1>8, <2>4 DEF d, Holds
  <2>6. Top(t.m, Ptr(a), n)
    BY <1>3 DEF Holds
  <2>7. QED  BY <1>1, <1>5, <2>1, <2>2, <2>5, <2>6, LargeHasTop DEF N
<1>10. Makes(s, Carried(t, r, k, n, sg), r, sg * Number(LimbsAt(k.m, Ptr(r), N), N, k.c))
  BY <1>1, <1>2, <1>4, <1>5, <1>7, <1>9, CarriedMakes DEF N
<1>11. QED  BY <1>8, <1>10 DEF d, keep, t, k, n

\* hebi_zmulu and hebi_zmuli
LEMMA WordProductMakes ==
    ASSUME NEW s, Good(s), NEW r \in Zvar, NEW a \in Zvar, NEW x \in Limb
    PROVE  Makes(s, zmulu(s, r, a, x), r, Num(s, a) * x)
<1>1. /\ Num(s, a) \in Int /\ Sign(s, a) \in {-1, 0, 1} /\ x \in Int /\ x >= 0
      /\ Sign(s, a) = 0 => Num(s, a) = 0
      /\ Sign(s, a) # 0 => Mag(s, a) \in Int /\ Num(s, a) = Sign(s, a) * Mag(s, a)
  BY NumParts, LimbNumber
<1>2. CASE Sign(s, a) = 0 \/ x = 0
  <2>1. zmulu(s, r, a, x) = zsetzero(s, r)
    BY <1>2 DEF zmulu
  <2>2. Num(s, a) * x = 0
    BY <1>1, <1>2
  <2>3. QED  BY <2>1, <2>2, ZeroMakes DEF Good, Only
<1>3. CASE ~(Sign(s, a) = 0 \/ x = 0) /\ x = 1
  <2>1. zmulu(s, r, a, x) = zset(s, r, a)
    BY <1>3 DEF zmulu
  <2>2. Num(s, a) * x = Num(s, a)
    BY <1>1, <1>3
  <2>3. QED  BY <2>1, <2>2, SetMakes
<1>4. CASE ~(Sign(s, a) = 0 \/ x = 0) /\ x # 1
  <2> DEFINE g == Sign(s, a)
             v == Mag(s, a)
             n == Used(s, a)
             t == Grow(s, r, n + 1, r = a)
             u == Carried(t, r, pmulu(t.m, Ptr(r), Ptr(a), x, n), n, g)
  <2>1. g \in {-1, 1} /\ x >= 2 /\ v \in Int /\ Num(s, a) = g * v
    BY <1>1, <1>4
  <2>2. zmulu(s, r, a, x) = u
    BY <1>4 DEF zmulu
  <2>3. Makes(s, u, r, g * (x * v))
    BY <1>4, <2>1, TimesMakes
  <2> HIDE DEF u, g, v
  <2>4. g * (x * v) = (g * v) * x
    BY <1>1, <2>1
  <2>5. QED  BY <2>1, <2>2, <2>3, <2>4
<1>5. QED  BY <1>2, <1>3, <1>4

LEMMA SignedProductMakes ==
    ASSUME NEW s, Good(s), NEW r \in Zvar, NEW a \in Zvar, NEW x \in Int, AbsOf(x) \in Limb
    PROVE  Makes(s, zmuli(s, r, a, x), r, Num(s, a) * x)
<1>1. Num(s, a) \in Int
  BY NumParts
<1>2. CASE x < 0
  <2> DEFINE t == zmulu(s, r, a, -x)
  <2>1. -x \in Limb /\ AbsOf(x) = -x
    BY <1>2 DEF AbsOf
  <2>2. Makes(s, t, r, Num(s, a) * (-x))
    BY <2>1, WordProductMakes
  <2>3. zmuli(s, r, a, x) = zneg(t, r, r)
    BY <1>2, <2>1 DEF zmuli, zneg, zset
  <2> HIDE DEF t
  <2>4. Num(s, a) * (-x) \in Int /\ -(Num(s, a) * (-x)) = Num(s, a) * x
    BY <1>1
  <2>5. Makes(s, zneg(t, r, r), r, -(Num(s, a) * (-x)))
    BY <2>2, <2>4, NegInPlace
  <2>6. QED  BY <2>3, <2>4, <2>5
<1>3. CASE ~(x < 0)
  <2>1. x \in Limb /\ zmuli(s, r, a, x) = zmulu(s, r, a, x)
    BY <1>3 DEF AbsOf, zmuli
  <2>2. QED  BY <2>1, WordProductMakes
<1>4. QED  BY <1>2, <1>3

\* hebi_zswap of the temporary object with the result, and its end.
LEMMA SwapSized ==
    ASSUME NEW u, Sized(u), NEW r \in Zvar
    PROVE  LET v == NoObject(zswap(u, "rtmp", r), "rtmp")
           IN  /\ Sized(v) /\ Only(u, v, r)
               /\ v.m[r] = u.m["rtmp"] /\ v.z[r] = u.z["rtmp"]
<1> DEFINE c == "rtmp"
           e == NewBuffer(0, 0)
           w == zswap(u, c, r)
           v == NoObject(w, c)
<1>1. /\ r \in Object /\ c \in Object /\ c # r /\ u \in Machine /\ Nothing \in Head
      /\ \A o \in Zvar : o \in Object /\ o # c
  BY DEF Sized, Object, Zvar, Tmp, Nothing, Head
<1>2. e \in [0 .. 0 * PacketLimbs - 1 -> Limb] /\ e \in Buffer /\ Nothing.resv = 0
  <2>1. 0 * PacketLimbs = 0 /\ 0 \in Nat
    BY PacketsAssumption
  <2>2. e \in [0 .. 0 * PacketLimbs - 1 -> Limb]
    BY <2>1 DEF NewBuffer
  <2>3. QED  BY <2>1, <2>2 DEF Buffer, Nothing
<1> HIDE DEF c, e
<1>3. /\ u.m \in [Object -> Buffer] /\ u.z \in [Object -> Head] /\ u.junk \in Limb
      /\ u = [junk |-> u.junk, m |-> u.m, z |-> u.z]
  BY <1>1 DEF Machine
<1>4. w = [junk |-> u.junk, m |-> [[u.m EXCEPT ![c] = u.m[r]] EXCEPT ![r] = u.m[c]],
                            z |-> [[u.z EXCEPT ![c] = u.z[r]] EXCEPT ![r] = u.z[c]]]
  <2> DEFINE m1 == [u.m EXCEPT ![c] = u.m[r]]
             z1 == [u.z EXCEPT ![c] = u.z[r]]
             u1 == [junk |-> u.junk, m |-> m1, z |-> u.z]
             m2 == [m1 EXCEPT ![r] = u.m[c]]
             u2 == [junk |-> u.junk, m |-> m2, z |-> u.z]
             u3 == [junk |-> u.junk, m |-> m2, z |-> z1]
  <2>1. [u EXCEPT !.m[c] = u.m[r]] = u1
    BY <1>3
  <2>2. [u1 EXCEPT !.m[r] = u.m[c]] = u2
    OBVIOUS
  <2>3. /\ [u2 EXCEPT !.z[c] = u.z[r]] = u3
        /\ [u3 EXCEPT !.z[r] = u.z[c]] = [junk |-> u.junk, m |-> m2, z |-> [z1 EXCEPT ![r] = u.z[c]]]
    <3> HIDE DEF m2
    <3>1. QED  OBVIOUS
  <2>4. w = [[[[u EXCEPT !.m[c] = u.m[r]] EXCEPT !.m[r] = u.m[c]] EXCEPT !.z[c] = u.z[r]] EXCEPT !.z[r] = u.z[c]]
    BY DEF zswap
  <2>5. QED  BY <2>1, <2>2, <2>3, <2>4
<1>5. w.m = [[u.m EXCEPT ![c] = u.m[r]] EXCEPT ![r] = u.m[c]] /\ w.junk = u.junk
      /\ w.z = [[u.z EXCEPT ![c] = u.z[r]] EXCEPT ![r] = u.z[c]]
      /\ w = [junk |-> w.junk, m |-> w.m, z |-> w.z]
  BY <1>4
<1> HIDE DEF w
<1>6. /\ w.m \in [Object -> Buffer] /\ w.z \in [Object -> Head]
      /\ w.m[r] = u.m[c] /\ w.z[r] = u.z[c]
      /\ \A o \in Object \ {r, c} : w.m[o] = u.m[o] /\ w.z[o] = u.z[o]
  BY <1>1, <1>3, <1>5
<1>7. v = [junk |-> w.junk, m |-> [w.m EXCEPT ![c] = e], z |-> [w.z EXCEPT ![c] = Nothing]]
  <2> DEFINE w1 == [junk |-> w.junk, m |-> [w.m EXCEPT ![c] = e], z |-> w.z]
  <2>1. [w EXCEPT !.m[c] = e] = w1
    BY <1>5
  <2>2. [w1 EXCEPT !.z[c] = Nothing] = [junk |-> w.junk, m |-> [w.m EXCEPT ![c] = e], z |-> [w.z EXCEPT ![c] = Nothing]]
    OBVIOUS
  <2>3. v = [[w EXCEPT !.m[c] = e] EXCEPT !.z[c] = Nothing]
    BY DEF NoObject, e
  <2>4. QED  BY <2>1, <2>2, <2>3
<1>8. v.m = [w.m EXCEPT ![c] = e] /\ v.z = [w.z EXCEPT ![c] = Nothing] /\ v.junk = u.junk
      /\ v = [junk |-> v.junk, m |-> v.m, z |-> v.z]
  BY <1>5, <1>7
<1> HIDE DEF v
<1>9. /\ v.m \in [Object -> Buffer] /\ v.z \in [Object -> Head]
      /\ v.m[c] = e /\ v.z[c] = Nothing
      /\ \A o \in Object \ {c} : v.m[o] = w.m[o] /\ v.z[o] = w.z[o]
  BY <1>1, <1>2, <1>6, <1>8
<1>10. v.m[r] = u.m[c] /\ v.z[r] = u.z[c] /\ \A o \in Object \ {r, c} : v.m[o] = u.m[o] /\ v.z[o] = u.z[o]
  BY <1>1, <1>6, <1>9
<1>11. v \in Machine
  BY <1>3, <1>8, <1>9 DEF Machine
<1>12. \A o \in Object : v.m[o] \in [0 .. v.z[o].resv * PacketLimbs - 1 -> Limb]
  <2> SUFFICES ASSUME NEW o \in Object PROVE v.m[o] \in [0 .. v.z[o].resv * PacketLimbs - 1 -> Limb]
    OBVIOUS
  <2>1. \A q \in Object : u.m[q] \in [0 .. u.z[q].resv * PacketLimbs - 1 -> Limb]
    BY DEF Sized
  <2>2. CASE o = c
    BY <1>2, <1>9, <2>2
  <2>3. CASE o = r
    BY <1>1, <1>10, <2>1, <2>3
  <2>4. CASE o \notin {r, c}
    BY <1>10, <2>1, <2>4
  <2>5. QED  BY <2>2, <2>3, <2>4
<1>13. Sized(v)
  BY <1>11, <1>12 DEF Sized
<1>14. Only(u, v, r)
  BY <1>1, <1>10 DEF Only
<1>15. QED  BY <1>10, <1>13, <1>14 DEF v, w, c

\* A product in the temporary object becomes the result.
LEMMA SwapMakes ==
    ASSUME NEW s, Good(s), NEW u, Sized(u), Only(s, u, "rtmp"), NEW r \in Zvar,
           NEW k \in Nat, k > 0, k =< u.z["rtmp"].resv, Used(u, "rtmp") = k, Top(u.m, Ptr("rtmp"), k),
           NEW sg \in {-1, 1}, Sign(u, "rtmp") = sg
    PROVE  Makes(s, NoObject(zswap(u, "rtmp", r), "rtmp"), r, sg * Value(u.m, Ptr("rtmp"), k))
<1> DEFINE c == "rtmp"
           v == NoObject(zswap(u, c, r), c)
           K == k * PacketLimbs
<1>1. c \in Object /\ c \notin Zvar /\ r \in Object
  BY DEF Object, Zvar, Tmp
<1>2. Sized(v) /\ Only(u, v, r) /\ v.m[r] = u.m[c] /\ v.z[r] = u.z[c]
  BY SwapSized
<1>3. Sized(u) /\ Only(s, u, c) /\ k =< u.z[c].resv /\ Used(u, c) = k /\ Top(u.m, Ptr(c), k) /\ Sign(u, c) = sg
  OBVIOUS
<1> HIDE DEF v, c
<1>4. Only(s, v, r)
  BY <1>1, <1>2, <1>3 DEF Only
<1>5. Used(v, r) = k /\ Sign(v, r) = sg /\ v.z[r].resv = u.z[c].resv
  BY <1>2, <1>3 DEF Used, Sign
<1>6. Area(u.m, Ptr(c), K) /\ K \in Nat /\ IsMemory(u.m) /\ u.m \in Memory(u.m)
  BY <1>1, <1>3, SizedArea, SizedMemory DEF IsMemory
<1>7. \A i \in 0 .. K - 1 : Get(u.m, Ptr(c), i) \in Limb /\ Get(v.m, Ptr(r), i) = Get(u.m, Ptr(c), i)
  <2>1. \A i \in 0 .. K - 1 : Get(u.m, Ptr(c), i) \in Limb
    BY <1>6, GetLimb
  <2>2. \A i \in 0 .. K - 1 : Get(v.m, Ptr(r), i) = Get(u.m, Ptr(c), i)
    BY <1>2 DEF Get, Ptr
  <2>3. QED  BY <2>1, <2>2
<1>8. Value(v.m, Ptr(r), k) = Value(u.m, Ptr(c), k) /\ (k > 0 => (Top(v.m, Ptr(r), k) <=> Top(u.m, Ptr(c), k)))
  BY <1>6, <1>7, SameLimbs
<1>9. u.z[c].resv \in Nat
  BY <1>1, <1>3, SizedObject
<1>10. CanonicalAt(v, r)
  BY <1>3, <1>5, <1>8, <1>9 DEF CanonicalAt
<1>11. Good(v)
  BY <1>2, <1>4, <1>10, GoodOnly
<1>12. Num(v, r) = sg * Value(v.m, Ptr(r), k)
  BY <1>5, <1>11, GoodNum DEF Mag
<1>13. QED  BY <1>4, <1>8, <1>11, <1>12 DEF Makes, v, c

\* The product of two integers, in a result that is neither or in the temporary object.
LEMMA RowsMake ==
    ASSUME NEW s, Good(s), NEW r \in Zvar, NEW a \in Zvar, NEW b \in Zvar, Sign(s, a) # 0, Sign(s, b) # 0,
           NEW rz, rz = "rtmp" \/ (rz = r /\ r # a /\ r # b), NEW sg \in {-1, 1}
    PROVE  LET n == Used(s, a) + Used(s, b)
               t == Grow(s, rz, n, FALSE)
               m == pmul(t.m, Ptr(rz), Ptr(a), Ptr(b), Used(s, a), Used(s, b))
           IN  Makes(s, Deliver(With(t, m), r, rz, n, sg), r, sg * (Mag(s, a) * Mag(s, b)))
<1> DEFINE i == Used(s, a)
           j == Used(s, b)
           n == i + j
           t == Grow(s, rz, n, FALSE)
           m == pmul(t.m, Ptr(rz), Ptr(a), Ptr(b), i, j)
           M == i * PacketLimbs
           K == j * PacketLimbs
           N == n * PacketLimbs
           w == With(t, m)
           k == pnorm(m, Ptr(rz), n)
           v == Mag(s, a) * Mag(s, b)
           u == Finish(w, rz, k, sg)
<1>1. /\ Sized(s) /\ i \in Nat /\ j \in Nat /\ i > 0 /\ j > 0 /\ n \in Nat
      /\ rz \in Object /\ r \in Object /\ a \in Object /\ b \in Object /\ a # rz /\ b # rz
  <2>1. Sized(s) /\ i \in Nat /\ j \in Nat /\ i > 0 /\ j > 0
    BY GoodNum
  <2>2. rz \in Object /\ r \in Object /\ a \in Object /\ b \in Object /\ a # rz /\ b # rz
    BY DEF Object, Zvar, Tmp
  <2>3. QED  BY <2>1, <2>2
<1>2. Sized(t) /\ Only(s, t, rz) /\ t.z[rz].resv >= n
  BY <1>1, GrowSized
<1>3. Holds(t, a, i, Mag(s, a)) /\ Holds(t, b, j, Mag(s, b))
  <2>1. FALSE \in BOOLEAN
    OBVIOUS
  <2>2. QED  BY <1>1, <2>1, GrowKeeps
<1> HIDE DEF t, i, j
<1>4. n =< t.z[rz].resv /\ t.z[rz].resv \in Nat
  BY <1>1, <1>2, SizedObject
<1>5. N = M + K
  <2>1. PacketLimbs \in Nat
    BY PacketsAssumption
  <2>2. QED  BY <1>1, <2>1
<1>6. /\ IsMemory(t.m) /\ DOMAIN t.m = Object /\ N \in Nat /\ M \in Nat /\ K \in Nat /\ Area(t.m, Ptr(rz), N)
      /\ Area(t.m, Ptr(a), M) /\ Area(t.m, Ptr(b), K)
  BY <1>1, <1>2, <1>3, <1>4, SizedArea, SizedMemory DEF Holds
<1>7. Factors(t.m, Ptr(rz), Ptr(a), Ptr(b), M, K)
  <2> HIDE DEF N, M, K
  <2>1. QED  BY <1>1, <1>5, <1>6 DEF Factors, Ptr
<1>8. OnlyAt(t.m, m, Ptr(rz), N) /\ m \in Memory(t.m) /\ Value(m, Ptr(rz), n) = v
  <2>1. /\ OnlyAt(t.m, m, Ptr(rz), M + K) /\ m \in Memory(t.m)
        /\ Value(m, Ptr(rz), i + j) = Value(t.m, Ptr(a), i) * Value(t.m, Ptr(b), j)
    BY <1>1, <1>7, ProductOfPackets
  <2>2. Value(t.m, Ptr(a), i) = Mag(s, a) /\ Value(t.m, Ptr(b), j) = Mag(s, b)
    BY <1>3 DEF Holds
  <2> HIDE DEF m, M, N, K
  <2>3. QED  BY <1>5, <2>1, <2>2
<1>9. v \in Int /\ v > 0
  <2> DEFINE x == Mag(s, a)
             y == Mag(s, b)
  <2>1. x \in Int /\ y \in Int /\ x > 0 /\ y > 0
    BY <1>3 DEF Holds
  <2> HIDE DEF x, y
  <2>2. x * y \in Int /\ x * y > 0
    BY <2>1
  <2>3. QED  BY <2>2 DEF x, y
<1> HIDE DEF m, v
<1>10. /\ IsMemory(m) /\ Area(m, Ptr(rz), N)
  <2>1. IsMemory(m) /\ DOMAIN m = Object /\ \A o \in Object : DOMAIN m[o] = DOMAIN t.m[o]
    BY <1>2, <1>8, SizedMemory
  <2> HIDE DEF N
  <2>2. QED  BY <1>1, <1>6, <2>1 DEF Area, Ptr
<1>11. k \in 0 .. n /\ Value(m, Ptr(rz), k) = v /\ (k > 0 => Top(m, Ptr(rz), k))
  BY <1>1, <1>6, <1>8, <1>10, NormOfPackets
<1> HIDE DEF k
<1>12. k > 0
  <2>1. SUFFICES ASSUME k = 0 PROVE FALSE
    BY <1>1, <1>11
  <2>2. 0 * PacketLimbs = 0 /\ 0 \in Nat
    BY PacketsAssumption
  <2>3. Area(m, Ptr(rz), 0 * PacketLimbs) /\ 0 * PacketLimbs \in Nat
    BY <1>10, <2>2 DEF Area, Ptr
  <2>4. Value(m, Ptr(rz), 0) = 0
    BY <1>10, <2>2, <2>3, ValueNatural
  <2>5. QED  BY <1>9, <1>11, <2>1, <2>4
<1>13. k \in Nat /\ k =< t.z[rz].resv
  BY <1>1, <1>4, <1>11
<1>14. Sized(w) /\ Only(s, w, rz) /\ w.m = m /\ w.z = t.z
  BY <1>1, <1>2, <1>8, WithSized
<1>15. Deliver(w, r, rz, n, sg) = IF rz = r THEN u ELSE NoObject(zswap(u, rz, r), rz)
  BY <1>14 DEF Deliver, k
<1>16. CASE rz = r
  <2>1. Makes(s, Finish(With(t, m), r, k, sg), r, sg * Value(m, Ptr(r), k))
    BY <1>2, <1>8, <1>11, <1>12, <1>13, <1>16, FinishMakes
  <2>2. QED  BY <1>11, <1>15, <1>16, <2>1 DEF t, m, w, v, i, j
<1>17. CASE rz # r
  <2>1. rz = "rtmp"
    BY <1>17
  <2> HIDE DEF w
  <2>2. sg \in {-1, 0, 1}
    OBVIOUS
  <2>3. Finished(s, w, u, rz, k, sg)
    BY <1>1, <1>13, <1>14, <2>2, FinishSized
  <2> HIDE DEF u
  <2>4. /\ Sized(u) /\ Only(s, u, rz) /\ u.m = m /\ u.z[rz].resv = t.z[rz].resv
        /\ Used(u, rz) = k /\ Sign(u, rz) = sg
    BY <1>14, <2>3 DEF Finished
  <2>5. Makes(s, NoObject(zswap(u, "rtmp", r), "rtmp"), r, sg * Value(u.m, Ptr("rtmp"), k))
    BY <1>11, <1>12, <1>13, <2>1, <2>4, SwapMakes
  <2>6. Makes(s, Deliver(w, r, rz, n, sg), r, sg * v)
    BY <1>11, <1>15, <1>17, <2>1, <2>4, <2>5
  <2>7. QED  BY <2>6 DEF t, m, w, v, i, j
<1>18. QED  BY <1>16, <1>17

\* The sign and the magnitude of a product.
LEMMA SignsTimes ==
    ASSUME NEW g \in {-1, 1}, NEW h \in {-1, 1}, NEW v \in Int, NEW w \in Int
    PROVE  g * h \in {-1, 1} /\ (g * h) * (v * w) = (g * v) * (h * w)
<1>1. CASE g = 1 /\ h = 1
  BY <1>1
<1>2. CASE g = 1 /\ h = -1
  BY <1>2
<1>3. CASE g = -1 /\ h = 1
  BY <1>3
<1>4. CASE g = -1 /\ h = -1
  BY <1>4
<1>5. QED  BY <1>1, <1>2, <1>3, <1>4

\* hebi_zmul by rows; the longer operand is the first of the kernel.
LEMMA MulMakes ==
    ASSUME NEW s, Good(s), NEW r \in Zvar, NEW a \in Zvar, NEW b \in Zvar
    PROVE  Makes(s, zmul_rows(s, r, a, b), r, Num(s, a) * Num(s, b))
<1>1. /\ Num(s, a) \in Int /\ Sign(s, a) \in {-1, 0, 1} /\ (Sign(s, a) = 0 => Num(s, a) = 0)
      /\ Num(s, b) \in Int /\ Sign(s, b) \in {-1, 0, 1} /\ (Sign(s, b) = 0 => Num(s, b) = 0)
      /\ Sign(s, a) # 0 => Mag(s, a) \in Int /\ Num(s, a) = Sign(s, a) * Mag(s, a)
      /\ Sign(s, b) # 0 => Mag(s, b) \in Int /\ Num(s, b) = Sign(s, b) * Mag(s, b)
  BY NumParts
<1>2. CASE Sign(s, a) = 0 \/ Sign(s, b) = 0
  <2>1. zmul_rows(s, r, a, b) = zsetzero(s, r)
    BY <1>2 DEF zmul_rows
  <2>2. Num(s, a) * Num(s, b) = 0
    BY <1>1, <1>2
  <2>3. QED  BY <2>1, <2>2, ZeroMakes DEF Good, Only
<1>3. CASE ~(Sign(s, a) = 0 \/ Sign(s, b) = 0)
  <2> DEFINE l == IF Used(s, a) < Used(s, b) THEN b ELSE a
             k == IF l = a THEN b ELSE a
             n == Used(s, l) + Used(s, k)
             rz == ProductIn(r, {a, b})
             t == Grow(s, rz, n, FALSE)
             m == pmul(t.m, Ptr(rz), Ptr(l), Ptr(k), Used(s, l), Used(s, k))
             sg == Sign(s, a) * Sign(s, b)
             u == Deliver(With(t, m), r, rz, n, sg)
  <2>1. zmul_rows(s, r, a, b) = u
    BY <1>3 DEF zmul_rows
  <2>2. (l = a /\ k = b) \/ (l = b /\ k = a)
    OBVIOUS
  <2>3. rz = "rtmp" \/ (rz = r /\ r # a /\ r # b)
    BY DEF ProductIn
  <2>4. sg \in {-1, 1} /\ sg * (Mag(s, a) * Mag(s, b)) = Num(s, a) * Num(s, b)
    <3> DEFINE g == Sign(s, a)
               h == Sign(s, b)
               v == Mag(s, a)
               w == Mag(s, b)
    <3>1. g \in {-1, 1} /\ h \in {-1, 1} /\ v \in Int /\ w \in Int /\ Num(s, a) = g * v /\ Num(s, b) = h * w
      BY <1>1, <1>3
    <3> HIDE DEF g, h, v, w
    <3>2. g * h \in {-1, 1} /\ (g * h) * (v * w) = (g * v) * (h * w)
      BY <3>1, SignsTimes
    <3>3. QED  BY <3>1, <3>2 DEF g, h, v, w
  <2>5. Mag(s, l) * Mag(s, k) = Mag(s, a) * Mag(s, b)
    <3> HIDE DEF l, k
    <3>1. \A v, w \in Int : v * w = w * v
      OBVIOUS
    <3>2. QED  BY <1>1, <1>3, <2>2, <3>1
  <2>6. /\ l \in Zvar /\ k \in Zvar /\ Sign(s, l) # 0 /\ Sign(s, k) # 0
        /\ rz = "rtmp" \/ (rz = r /\ r # l /\ r # k)
    <3> HIDE DEF l, k, rz
    <3>1. QED  BY <1>3, <2>2, <2>3
  <2> HIDE DEF l, k, rz, sg
  <2>7. Makes(s, u, r, sg * (Mag(s, l) * Mag(s, k)))
    BY <2>4, <2>6, RowsMake
  <2>8. QED  BY <2>1, <2>4, <2>5, <2>7
<1>4. QED  BY <1>2, <1>3

\* hebi_zsqr by rows
LEMMA SqrMakes ==
    ASSUME NEW s, Good(s), NEW r \in Zvar, NEW a \in Zvar
    PROVE  Makes(s, zsqr_rows(s, r, a), r, Num(s, a) * Num(s, a))
<1>1. /\ Num(s, a) \in Int /\ Sign(s, a) \in {-1, 0, 1} /\ (Sign(s, a) = 0 => Num(s, a) = 0)
      /\ Sign(s, a) # 0 => Mag(s, a) \in Int /\ Num(s, a) = Sign(s, a) * Mag(s, a)
  BY NumParts
<1>2. CASE Sign(s, a) = 0
  <2>1. zsqr_rows(s, r, a) = zsetzero(s, r)
    BY <1>2 DEF zsqr_rows
  <2>2. Num(s, a) * Num(s, a) = 0
    BY <1>1, <1>2
  <2>3. QED  BY <2>1, <2>2, ZeroMakes DEF Good, Only
<1>3. CASE Sign(s, a) # 0
  <2> DEFINE rz == ProductIn(r, {a})
             n == Used(s, a) + Used(s, a)
             t == Grow(s, rz, n, FALSE)
             m == pmul(t.m, Ptr(rz), Ptr(a), Ptr(a), Used(s, a), Used(s, a))
             u == Deliver(With(t, m), r, rz, n, 1)
  <2>1. zsqr_rows(s, r, a) = u
    <3>1. 2 * Used(s, a) = n
      <4>1. Used(s, a) \in Nat
        BY GoodNum
      <4>2. QED  BY <4>1
    <3> HIDE DEF n, rz
    <3>2. QED  BY <1>3, <3>1 DEF zsqr_rows, psqr, rz
  <2>2. rz = "rtmp" \/ (rz = r /\ r # a /\ r # a)
    BY DEF ProductIn
  <2>3. 1 \in {-1, 1} /\ 1 * (Mag(s, a) * Mag(s, a)) = Num(s, a) * Num(s, a)
    <3> DEFINE g == Sign(s, a)
               v == Mag(s, a)
    <3>1. g \in {-1, 1} /\ v \in Int /\ Num(s, a) = g * v
      BY <1>1, <1>3
    <3> HIDE DEF g, v
    <3>2. 1 * (v * v) = (g * v) * (g * v)
      BY <3>1
    <3>3. QED  BY <3>1, <3>2 DEF v
  <2> HIDE DEF rz
  <2>4. Makes(s, u, r, 1 * (Mag(s, a) * Mag(s, a)))
    BY <1>3, <2>2, <2>3, RowsMake
  <2>5. QED  BY <2>1, <2>3, <2>4
<1>4. QED  BY <1>2, <1>3

-----------------------------------------------------------------------------
(* Residues *)

\* Multiples of p do not count.
LEMMA ModMore ==
    ASSUME NEW p \in Nat \ {0}, NEW n \in Nat, NEW q \in Int, n + p * q >= 0
    PROVE  (n + p * q) % p = n % p
<1> DEFINE k == n \div p
           r == n % p
<1>1. k \in Nat /\ r \in 0 .. p - 1 /\ n = p * k + r
  <2>1. n \div p \in Nat /\ n % p \in 0 .. p - 1 /\ n = p * (n \div p) + (n % p)
    BY DivMod
  <2>2. QED  BY <2>1
<1> HIDE DEF k, r
<1>2. p * (k + q) = p * k + p * q /\ p * k \in Int /\ p * q \in Int
  BY <1>1
<1> DEFINE x == n + p * q
           j == k + q
<1>3. x \in Nat /\ j \in Int /\ x = p * j + r
  BY <1>1, <1>2
<1> HIDE DEF x, j
<1>4. x % p = r
  BY <1>1, <1>3, DivIs
<1>5. QED  BY <1>4 DEF x, r

\* Of v only its residue counts.
ModAlike(p, d, b, v) == (d + b * (v % p)) % p = (d + b * v) % p

LEMMA ModStep ==
    ASSUME NEW p \in Nat \ {0}, NEW d \in Nat, NEW b \in Nat, NEW v \in Nat
    PROVE  ModAlike(p, d, b, v) /\ v % p \in Nat
<1> DEFINE q == v \div p
           r == v % p
<1>1. q \in Nat /\ r \in 0 .. p - 1 /\ v = p * q + r
  <2>1. v \div p \in Nat /\ v % p \in 0 .. p - 1 /\ v = p * (v \div p) + (v % p)
    BY DivMod
  <2>2. QED  BY <2>1
<1> HIDE DEF q, r
<1>2. b * v = b * (p * q) + b * r /\ b * (p * q) = p * (b * q)
  BY <1>1
<1> DEFINE n == d + b * r
           k == b * q
<1>3. n \in Nat /\ k \in Int /\ p * k >= 0 /\ d + b * v = n + p * k
  <2>1. b * r \in Nat /\ b * q \in Nat
    BY <1>1
  <2>2. p * (b * q) \in Nat
    BY <2>1
  <2>3. QED  BY <1>2, <2>1, <2>2
<1> HIDE DEF n, k
<1>4. n + p * k >= 0
  BY <1>3
<1>5. (n + p * k) % p = n % p
  BY <1>3, <1>4, ModMore
<1>6. QED  BY <1>1, <1>3, <1>5 DEF n, r, ModAlike

LEMMA ModTimes ==
    ASSUME NEW p \in Nat \ {0}, NEW x \in Nat, NEW y \in Nat
    PROVE  ((x % p) * (y % p)) % p = (x * y) % p
<1>1. x % p \in Nat /\ y % p \in Nat
  BY ModStep
<1>2. PICK d \in Nat : d = 0
  OBVIOUS
<1> DEFINE a == x % p
           b == y % p
<1>3. ModAlike(p, d, a, y) /\ ModAlike(p, d, y, x)
  <2>1. a \in Nat
    BY <1>1
  <2> HIDE DEF a
  <2>2. QED  BY <2>1, ModStep
<1>4. (d + a * b) % p = (d + a * y) % p /\ (d + y * a) % p = (d + y * x) % p
  BY <1>3 DEF ModAlike
<1>5. d + a * b = a * b /\ d + a * y = d + y * a /\ d + y * x = x * y
  <2>1. a \in Nat /\ b \in Nat
    BY <1>1
  <2> HIDE DEF a, b
  <2>2. QED  BY <1>2, <2>1
<1>6. QED  BY <1>4, <1>5

\* The residue of a number is that of its magnitude.
LEMMA ResidueOfNumber ==
    ASSUME NEW s, Good(s), NEW o \in Zvar, NEW p \in Nat \ {0}
    PROVE  Residue(s, o, p) = AbsOf(Num(s, o)) % p /\ AbsOf(Num(s, o)) \in Nat
<1> DEFINE n == hebi_zused(s, o)
           a == Ptr(o)
           K == n * PacketLimbs
           D == LimbsAt(s.m, a, K)
           Eq(g) == g = [i \in 0 .. K |-> IF i = K THEN 0 ELSE (Get(s.m, a, i) + Base * g[i + 1]) % p]
           V == CHOOSE g : Eq(g)
<1>1. n \in Nat /\ IsMemory(s.m) /\ Area(s.m, a, K) /\ K \in Nat
  <2>1. /\ o \in Object /\ Sized(s) /\ Used(s, o) \in Nat /\ s.z[o].resv \in Nat
        /\ Sign(s, o) # 0 => Used(s, o) =< s.z[o].resv
    BY GoodNum, SizedObject
  <2>2. n \in Nat /\ n =< s.z[o].resv
    BY <2>1 DEF hebi_zused
  <2> HIDE DEF n
  <2>3. QED  BY <2>1, <2>2, SizedArea, SizedMemory
<1>2. AbsOf(Num(s, o)) = Value(s.m, a, n) /\ Value(s.m, a, n) \in Nat
  <2>1. Value(s.m, a, n) \in Int /\ Value(s.m, a, n) >= 0 /\ (n = 0 => Value(s.m, a, n) = 0)
    <3> HIDE DEF n
    <3>1. QED  BY <1>1, ValueNatural
  <2>2. CASE Sign(s, o) = 0
    <3>1. n = 0 /\ AbsOf(Num(s, o)) = 0
      BY <2>2, NumParts DEF hebi_zused
    <3>2. QED  BY <2>1, <3>1
  <2>3. CASE Sign(s, o) # 0
    <3>1. n = Used(s, o) /\ AbsOf(Num(s, o)) = Mag(s, o)
      BY <2>3, NumParts DEF hebi_zused
    <3>2. QED  BY <2>1, <3>1 DEF Mag
  <2>4. QED  BY <2>2, <2>3
<1>3. Residue(s, o, p) = V[0]
  BY DEF Residue
<1> HIDE DEF n
<1>4. \A i \in 0 .. K - 1 : D[i] = Get(s.m, a, i) /\ D[i] \in Nat /\ D[i] \in Int
  <2>1. \A i \in 0 .. K - 1 : Get(s.m, a, i) \in Limb
    BY <1>1, GetLimb DEF IsMemory
  <2>2. \A i \in 0 .. K - 1 : D[i] = Get(s.m, a, i)
    BY DEF LimbsAt
  <2> HIDE DEF D, K
  <2>3. QED  BY <2>1, <2>2, LimbNumber
<1> HIDE DEF D
<1>5. PICK h : Horner(D, K, 0, h)
  <2>1. 0 \in Int
    OBVIOUS
  <2> HIDE DEF K
  <2>2. QED  BY <1>1, <1>4, <2>1, HornerExists
<1>6. h[0] = Value(s.m, a, n)
  BY <1>1, <1>5, ValueOfLimbs DEF D
<1> HIDE DEF K
<1>7. h \in [0 .. K -> Int] /\ h[K] = 0 /\ \A i \in 0 .. K - 1 : h[i] = D[i] + Base * h[i + 1]
  BY <1>5 DEF Horner
<1>8. \A i \in 0 .. K : h[i] \in Nat
  <2> DEFINE S == {i \in 0 .. K : h[i] \in Nat}
  <2>1. K \in S
    BY <1>1, <1>7
  <2>2. ASSUME NEW i \in 0 .. K - 1, i + 1 \in S PROVE i \in S
    <3>1. i \in 0 .. K /\ h[i] = D[i] + Base * h[i + 1] /\ h[i + 1] \in Nat /\ D[i] \in Nat
      BY <1>1, <1>4, <1>7, <2>2
    <3>2. Base * h[i + 1] \in Nat
      BY <3>1, BaseFacts
    <3>3. QED  BY <3>1, <3>2
  <2> HIDE DEF S
  <2>3. \A i \in 0 .. K : i \in S
    BY <1>1, <2>1, <2>2, DownInduct
  <2>4. QED  BY <2>3 DEF S
<1>9. /\ h[K] % p = 0 /\ 0 \in 0 .. K
      /\ \A i \in 0 .. K - 1 : h[i] % p = (Get(s.m, a, i) + Base * (h[i + 1] % p)) % p
  <2>1. 0 % p = 0
    <3>1. 0 = p * 0 + 0 /\ 0 \in 0 .. p - 1 /\ 0 \in Nat /\ 0 \in Int
      OBVIOUS
    <3>2. QED  BY <3>1, DivIs
  <2>2. ASSUME NEW i \in 0 .. K - 1 PROVE h[i] % p = (Get(s.m, a, i) + Base * (h[i + 1] % p)) % p
    <3>1. i + 1 \in 0 .. K /\ Base \in Nat
      BY <1>1, BaseFacts
    <3>2. D[i] \in Nat /\ h[i + 1] \in Nat /\ D[i] = Get(s.m, a, i) /\ h[i] = D[i] + Base * h[i + 1]
      BY <1>4, <1>7, <1>8, <3>1
    <3>3. (D[i] + Base * (h[i + 1] % p)) % p = (D[i] + Base * h[i + 1]) % p
      BY <3>1, <3>2, ModStep DEF ModAlike
    <3>4. QED  BY <3>2, <3>3
  <2>3. QED  BY <1>1, <1>7, <2>1, <2>2
<1>10. Eq([i \in 0 .. K |-> h[i] % p])
  <2> DEFINE g == [i \in 0 .. K |-> h[i] % p]
  <2>1. ASSUME NEW i \in 0 .. K
        PROVE  g[i] = IF i = K THEN 0 ELSE (Get(s.m, a, i) + Base * g[i + 1]) % p
    <3>1. CASE i = K
      BY <1>9, <3>1
    <3>2. CASE i # K
      <4>1. i \in 0 .. K - 1 /\ i + 1 \in 0 .. K
        BY <1>1, <3>2
      <4>2. g[i] = h[i] % p /\ g[i + 1] = h[i + 1] % p
        BY <4>1
      <4> HIDE DEF g
      <4>3. QED  BY <1>9, <3>2, <4>1, <4>2
    <3>3. QED  BY <3>1, <3>2
  <2>2. g = [i \in 0 .. K |-> g[i]]
    OBVIOUS
  <2> HIDE DEF g
  <2>3. Eq(g)
    BY <2>1, <2>2
  <2>4. QED  BY <2>3 DEF g
<1>11. Eq(V)
  <2> HIDE DEF Eq
  <2>1. QED  BY <1>10
<1> HIDE DEF V
<1>12. V[K] = 0 /\ \A i \in 0 .. K - 1 : V[i] = (Get(s.m, a, i) + Base * V[i + 1]) % p
  BY <1>1, <1>11
<1> HIDE DEF Eq
<1> DEFINE S == {i \in 0 .. K : V[i] = h[i] % p}
<1>13. K \in S
  BY <1>1, <1>9, <1>12
<1>14. ASSUME NEW i \in 0 .. K - 1, i + 1 \in S PROVE i \in S
  BY <1>1, <1>9, <1>12, <1>14
<1> HIDE DEF S
<1>15. 0 \in S
  BY <1>1, <1>13, <1>14, <1>9, DownInduct
<1>16. QED  BY <1>2, <1>3, <1>6, <1>15 DEF S

-----------------------------------------------------------------------------
(* The specification *)

\* What Init makes of an operand.
LEMMA StoredGood ==
    ASSUME NEW v, IsOperand(v), NEW n \in {0, 1}, NEW junk \in Limb
    PROVE  /\ Header(v, n) \in Head /\ Header(v, n).resv = Length(v) + n
           /\ Stored(v, n, junk) \in [0 .. Header(v, n).resv * PacketLimbs - 1 -> Limb]
           /\ Stored(v, n, junk) \in Buffer
           /\ v.sign # 0 =>
                /\ v.used \in 1 .. Header(v, n).resv /\ Header(v, n).used = v.used
                /\ \E i \in (v.used - 1) * PacketLimbs .. v.used * PacketLimbs - 1 :
                      Stored(v, n, junk)[i] # 0
           /\ Header(v, n).sign = v.sign
<1> DEFINE l == Length(v)
           K == (l + n) * PacketLimbs
           L == l * PacketLimbs
<1>1. /\ v.sign \in {-1, 0, 1} /\ v.used \in Nat
      /\ v.limbs \in [0 .. v.used * PacketLimbs - 1 -> Limb]
      /\ v.sign # 0 => \E i \in (v.used - 1) * PacketLimbs .. v.used * PacketLimbs - 1 :
                          i >= 0 /\ v.limbs[i] # 0
  BY DEF IsOperand
<1>2. l \in Nat /\ (v.sign # 0 => l = v.used) /\ (v.sign = 0 => l = 0)
  BY <1>1 DEF Length
<1>3. Header(v, n) = [resv |-> l + n, used |-> l, sign |-> v.sign]
  BY DEF Header
<1> HIDE DEF l
<1>4. Header(v, n) \in Head /\ Header(v, n).resv = l + n /\ Header(v, n).used = l /\ Header(v, n).sign = v.sign
  BY <1>1, <1>2, <1>3 DEF Head
<1>5. l + n \in Nat /\ K = (l + n) * 2 /\ L = l * 2 /\ K \in Nat /\ L \in Nat /\ L =< K
  BY <1>2, ZSumsAssumption
<1>6. Stored(v, n, junk) = [i \in 0 .. K - 1 |-> IF i < L THEN v.limbs[i] ELSE junk]
  BY DEF Stored, l
<1>7. \A i \in 0 .. K - 1 : i < L => v.limbs[i] \in Limb
  <2> SUFFICES ASSUME NEW i \in 0 .. K - 1, i < L PROVE v.limbs[i] \in Limb
    OBVIOUS
  <2>1. v.sign # 0
    BY <1>2, <1>5
  <2>2. i \in 0 .. v.used * PacketLimbs - 1
    BY <1>2, <1>5, <2>1
  <2>3. QED  BY <1>1, <2>2
<1>8. Stored(v, n, junk) \in [0 .. K - 1 -> Limb]
  <2> HIDE DEF K, L
  <2>1. QED  BY <1>6, <1>7
<1>9. Stored(v, n, junk) \in Buffer
  BY <1>5, <1>8 DEF Buffer
<1>10. ASSUME v.sign # 0
       PROVE  /\ v.used \in 1 .. l + n
              /\ \E i \in (v.used - 1) * PacketLimbs .. v.used * PacketLimbs - 1 : Stored(v, n, junk)[i] # 0
  <2>1. PICK i \in (v.used - 1) * PacketLimbs .. v.used * PacketLimbs - 1 : i >= 0 /\ v.limbs[i] # 0
    BY <1>1, <1>10
  <2>2. l = v.used /\ L = v.used * PacketLimbs
    BY <1>2, <1>10
  <2>3. i \in Int /\ i =< L - 1 /\ i >= 0
    BY <1>5, <2>1, <2>2
  <2>4. v.used \in 1 .. l + n
    <3>1. l >= 1
      BY <1>2, <1>5, <2>3
    <3>2. l \in 1 .. l + n
      BY <1>2, <3>1
    <3>3. QED  BY <2>2, <3>2
  <2>5. Stored(v, n, junk)[i] = v.limbs[i]
    <3>1. i \in 0 .. K - 1 /\ i < L
      BY <1>5, <2>3
    <3> HIDE DEF K, L
    <3>2. QED  BY <1>6, <3>1
  <2>6. QED  BY <2>1, <2>4, <2>5
<1>11. QED  BY <1>2, <1>4, <1>8, <1>9, <1>10 DEF l

\* The operands of the calls are integers as calls leave them.
LEMMA InitGood == Init => Good(mach) /\ call.op = "none"
<1> SUFFICES ASSUME Init PROVE Good(mach) /\ call.op = "none"
  OBVIOUS
<1>1. PICK v \in Operands, n \in {0, 1}, junk \in {0, Base - 1} :
         mach = Start(v, n, junk)
  BY DEF Init
<1>2. junk \in Limb /\ call.op = "none"
  BY BaseFacts DEF Init, Limb
<1>3. IsOperand(v[1]) /\ IsOperand(v[2])
  BY ZSumCallsAssumption
<1> DEFINE a == Stored(v[1], n, junk)
           b == Stored(v[2], n, junk)
           c == NewBuffer(n, junk)
           d == NewBuffer(0, junk)
           ah == Header(v[1], n)
           bh == Header(v[2], n)
           ch == [resv |-> n, used |-> n, sign |-> 0]
<1>4. /\ a \in Buffer /\ a \in [0 .. ah.resv * PacketLimbs - 1 -> Limb] /\ ah \in Head
      /\ ah.sign # 0 =>
            /\ ah.used \in 1 .. ah.resv
            /\ \E i \in (ah.used - 1) * PacketLimbs .. ah.used * PacketLimbs - 1 : a[i] # 0
  BY <1>2, <1>3, StoredGood
<1>5. /\ b \in Buffer /\ b \in [0 .. bh.resv * PacketLimbs - 1 -> Limb] /\ bh \in Head
      /\ bh.sign # 0 =>
            /\ bh.used \in 1 .. bh.resv
            /\ \E i \in (bh.used - 1) * PacketLimbs .. bh.used * PacketLimbs - 1 : b[i] # 0
  BY <1>2, <1>3, StoredGood
<1>6. \A k \in {0, 1} : /\ NewBuffer(k, junk) \in Buffer
                        /\ NewBuffer(k, junk) \in [0 .. k * PacketLimbs - 1 -> Limb]
  <2> SUFFICES ASSUME NEW k \in {0, 1}
               PROVE  /\ NewBuffer(k, junk) \in Buffer
                      /\ NewBuffer(k, junk) \in [0 .. k * PacketLimbs - 1 -> Limb]
    OBVIOUS
  <2>1. k * PacketLimbs \in Nat
    BY MoreLimbs
  <2>2. NewBuffer(k, junk) \in [0 .. k * PacketLimbs - 1 -> Limb]
    BY <1>2 DEF NewBuffer
  <2>3. QED  BY <2>1, <2>2 DEF Buffer
<1>7. /\ c \in Buffer /\ c \in [0 .. ch.resv * PacketLimbs - 1 -> Limb] /\ ch \in Head /\ ch.sign = 0
      /\ d \in Buffer /\ d \in [0 .. Nothing.resv * PacketLimbs - 1 -> Limb]
      /\ Nothing \in Head /\ Nothing.sign = 0
  BY <1>6 DEF Head, Nothing
<1> HIDE DEF a, b, c, d, ah, bh, ch
<1>8. mach = [junk |-> junk,
              m |-> [o \in Object |-> CASE o = "x" -> a [] o = "y" -> b [] o = "w" -> c [] OTHER -> d],
              z |-> [o \in Object |-> CASE o = "x" -> ah [] o = "y" -> bh [] o = "w" -> ch [] OTHER -> Nothing]]
  BY <1>1 DEF Start, a, b, c, d, ah, bh, ch
<1>9. /\ mach.m["x"] = a /\ mach.m["y"] = b /\ mach.m["w"] = c
      /\ mach.z["x"] = ah /\ mach.z["y"] = bh /\ mach.z["w"] = ch
      /\ \A o \in Tmp : mach.m[o] = d /\ mach.z[o] = Nothing
  BY <1>8 DEF Object, Zvar, Tmp
<1>10. mach.junk = junk /\ mach = [junk |-> mach.junk, m |-> mach.m, z |-> mach.z]
  BY <1>8
<1>11. \A o \in Object : /\ mach.m[o] \in Buffer /\ mach.z[o] \in Head
                         /\ mach.m[o] \in [0 .. mach.z[o].resv * PacketLimbs - 1 -> Limb]
  <2> SUFFICES ASSUME NEW o \in Object
               PROVE  /\ mach.m[o] \in Buffer /\ mach.z[o] \in Head
                      /\ mach.m[o] \in [0 .. mach.z[o].resv * PacketLimbs - 1 -> Limb]
    OBVIOUS
  <2>1. CASE o = "x"
    BY <1>4, <1>9, <2>1
  <2>2. CASE o = "y"
    BY <1>5, <1>9, <2>2
  <2>3. CASE o = "w"
    BY <1>7, <1>9, <2>3
  <2>4. CASE o \in Tmp
    BY <1>7, <1>9, <2>4
  <2>5. QED  BY <2>1, <2>2, <2>3, <2>4 DEF Object, Zvar
<1>12. mach.m \in [Object -> Buffer] /\ mach.z \in [Object -> Head]
  <2>1. /\ mach.m = [o \in Object |-> mach.m[o]] /\ mach.z = [o \in Object |-> mach.z[o]]
    BY <1>8
  <2>2. QED  BY <1>11, <2>1
<1>13. mach \in Machine
  BY <1>2, <1>10, <1>12 DEF Machine
<1>14. Sized(mach)
  BY <1>11, <1>13 DEF Sized
<1>15. CanonicalAt(mach, "x") /\ CanonicalAt(mach, "y") /\ CanonicalAt(mach, "w")
  <2>2. /\ \A i \in (ah.used - 1) * PacketLimbs .. ah.used * PacketLimbs - 1 : Get(mach.m, Ptr("x"), i) = a[i]
        /\ \A i \in (bh.used - 1) * PacketLimbs .. bh.used * PacketLimbs - 1 : Get(mach.m, Ptr("y"), i) = b[i]
    BY <1>9 DEF Get, Ptr
  <2>3. CanonicalAt(mach, "x")
    BY <1>4, <1>9, <2>2 DEF CanonicalAt, Sign, Used, Top
  <2>4. CanonicalAt(mach, "y")
    BY <1>5, <1>9, <2>2 DEF CanonicalAt, Sign, Used, Top
  <2>5. CanonicalAt(mach, "w")
    BY <1>7, <1>9 DEF CanonicalAt, Sign
  <2>6. QED  BY <2>3, <2>4, <2>5
<1>16. QED  BY <1>2, <1>14, <1>15 DEF Good, Zvar

SumInv == Good(mach) /\ OnlyResultWritten /\ SumExact /\ CompareExact

\* The call op has changed r.
Changes(op, r, b, k, s) == Did(op, {r}, b, k, s, 0, FALSE)

\* A call that makes v in r.
LEMMA Making ==
    ASSUME SumInv, NEW op, NEW r \in Zvar, NEW b, NEW k, NEW s, NEW v, Changes(op, r, b, k, s),
           op # "none", Makes(mach, s, r, v)
    PROVE  /\ Good(mach)' /\ OnlyResultWritten' /\ Out' = v
           /\ call'.op = op /\ call'.k = k
           /\ X' = Num(mach, "x") /\ Y' = Num(mach, b)
<1>1. /\ mach' = s /\ call.op = "none" /\ call'.op = op /\ call'.k = k /\ call'.was = mach
      /\ call'.out = {r} /\ call'.b = b
  BY DEF Did, Changes
<1>2. Good(s) /\ Only(mach, s, r) /\ Num(s, r) = v
  BY <1>1 DEF Makes
<1>3. Good(mach)'
  BY <1>1, <1>2
<1>4. OnlyResultWritten'
  BY <1>1, <1>2 DEF OnlyResultWritten, Only, Object
<1>5. (CHOOSE z \in {r} : TRUE) = r
  OBVIOUS
<1>6. Out' = v
  BY <1>1, <1>2, <1>5 DEF Out
<1>7. QED  BY <1>1, <1>3, <1>4, <1>6 DEF X, Y

\* A call that returns.
LEMMA Telling ==
    ASSUME SumInv, NEW op, NEW b, NEW k, NEW ret, Told(op, b, k, ret), op # "none"
    PROVE  /\ Good(mach)' /\ OnlyResultWritten' /\ call'.op = op /\ call'.k = k /\ call'.ret = ret
           /\ X' = Num(mach, "x") /\ Y' = Num(mach, b) /\ call'.was = mach
<1>1. /\ mach' = mach /\ call'.op = op /\ call'.k = k /\ call'.was = mach
      /\ call'.out = {} /\ call'.b = b /\ call'.ret = ret
  BY DEF Told, Did
<1>2. Good(mach)'
  BY <1>1 DEF SumInv
<1>3. OnlyResultWritten'
  BY <1>1 DEF OnlyResultWritten
<1>4. QED  BY <1>1, <1>2, <1>3 DEF X, Y

\* The operands of calls.
LEMMA Partners == Partner \subseteq Zvar /\ "x" \in Zvar
  BY DEF Partner, Zvar

LEMMA Words ==
    /\ \A k \in Word : k \in Limb /\ k \in Int /\ AbsOf(k) \in Limb /\ k >= 0
    /\ \A k \in Int64 : k \in Int /\ AbsOf(k) \in Limb
<1>1. ASSUME NEW k \in Word PROVE k \in Limb /\ k \in Int /\ AbsOf(k) \in Limb /\ k >= 0
  <2>1. k \in Limb
    BY ZSumCallsAssumption
  <2>2. k \in Int /\ 0 =< k
    BY <2>1, LimbNumber
  <2>3. QED  BY <2>1, <2>2 DEF AbsOf
<1>2. ASSUME NEW k \in Int64 PROVE k \in Int /\ AbsOf(k) \in Limb
  <2>1. PICK x \in Word : k = Signed(x)
    BY DEF Int64
  <2>2. QED  BY <1>1, <2>1, SignedFacts
<1>3. QED  BY <1>1, <1>2

LEMMA StepSums == SumInv /\ Sums => SumInv'
<1> SUFFICES ASSUME SumInv, NEW r \in Zvar, NEW b \in Zvar,
                    \/ Made("zadd", r, b, zadd(mach, r, "x", b))
                    \/ Made("zsub", r, b, zsub(mach, r, "x", b))
                    \/ Made("zaddmag", r, b, zaddmag(mach, r, "x", b))
                    \/ Made("zsubmag", r, b, zsubmag(mach, r, "x", b))
             PROVE  SumInv'
  BY Partners DEF Sums
<1>1. Good(mach) /\ "x" \in Zvar
  BY Partners DEF SumInv
<1>2. CASE Made("zadd", r, b, zadd(mach, r, "x", b))
  <2> DEFINE s == zadd(mach, r, "x", b)
             v == Num(mach, "x") + Num(mach, b)
  <2>1. Changes("zadd", r, b, 0, s)
    BY <1>2 DEF Made, Changes
  <2>2. Makes(mach, s, r, v)
    BY <1>1, SumMakes
  <2> HIDE DEF s, v
  <2>3. /\ Good(mach)' /\ OnlyResultWritten' /\ Out' = v
        /\ call'.op = "zadd" /\ call'.k = 0 /\ X' = Num(mach, "x") /\ Y' = Num(mach, b)
    BY <2>1, <2>2, Making
  <2>4. SumExact'
    BY <2>3 DEF SumExact, Is, v
  <2>5. CompareExact'
    BY <2>3 DEF CompareExact, Is
  <2>6. QED  BY <2>3, <2>4, <2>5 DEF SumInv
<1>3. CASE Made("zsub", r, b, zsub(mach, r, "x", b))
  <2> DEFINE s == zsub(mach, r, "x", b)
             v == Num(mach, "x") - Num(mach, b)
  <2>1. Changes("zsub", r, b, 0, s)
    BY <1>3 DEF Made, Changes
  <2>2. Makes(mach, s, r, v)
    BY <1>1, SumMakes
  <2> HIDE DEF s, v
  <2>3. /\ Good(mach)' /\ OnlyResultWritten' /\ Out' = v
        /\ call'.op = "zsub" /\ call'.k = 0 /\ X' = Num(mach, "x") /\ Y' = Num(mach, b)
    BY <2>1, <2>2, Making
  <2>4. SumExact'
    BY <2>3 DEF SumExact, Is, v
  <2>5. CompareExact'
    BY <2>3 DEF CompareExact, Is
  <2>6. QED  BY <2>3, <2>4, <2>5 DEF SumInv
<1>4. CASE Made("zaddmag", r, b, zaddmag(mach, r, "x", b))
  <2> DEFINE s == zaddmag(mach, r, "x", b)
             v == AbsOf(Num(mach, "x")) + AbsOf(Num(mach, b))
  <2>1. Changes("zaddmag", r, b, 0, s)
    BY <1>4 DEF Made, Changes
  <2>2. Makes(mach, s, r, v)
    BY <1>1, SumMakes
  <2> HIDE DEF s, v
  <2>3. /\ Good(mach)' /\ OnlyResultWritten' /\ Out' = v
        /\ call'.op = "zaddmag" /\ call'.k = 0 /\ X' = Num(mach, "x") /\ Y' = Num(mach, b)
    BY <2>1, <2>2, Making
  <2>4. SumExact'
    BY <2>3 DEF SumExact, Is, v
  <2>5. CompareExact'
    BY <2>3 DEF CompareExact, Is
  <2>6. QED  BY <2>3, <2>4, <2>5 DEF SumInv
<1>5. CASE Made("zsubmag", r, b, zsubmag(mach, r, "x", b))
  <2> DEFINE s == zsubmag(mach, r, "x", b)
             v == AbsOf(Num(mach, "x")) - AbsOf(Num(mach, b))
  <2>1. Changes("zsubmag", r, b, 0, s)
    BY <1>5 DEF Made, Changes
  <2>2. Makes(mach, s, r, v)
    BY <1>1, SumMakes
  <2> HIDE DEF s, v
  <2>3. /\ Good(mach)' /\ OnlyResultWritten' /\ Out' = v
        /\ call'.op = "zsubmag" /\ call'.k = 0 /\ X' = Num(mach, "x") /\ Y' = Num(mach, b)
    BY <2>1, <2>2, Making
  <2>4. SumExact'
    BY <2>3 DEF SumExact, Is, v
  <2>5. CompareExact'
    BY <2>3 DEF CompareExact, Is
  <2>6. QED  BY <2>3, <2>4, <2>5 DEF SumInv
<1>6. QED  BY <1>2, <1>3, <1>4, <1>5

LEMMA StepWordSums == SumInv /\ WordSums => SumInv'
<1> SUFFICES ASSUME SumInv, NEW r \in Zvar,
                    \/ \E k \in Word :
                          \/ MadeWith("zaddu", r, k, zaddu(mach, r, "x", k))
                          \/ MadeWith("zsubu", r, k, zsubu(mach, r, "x", k))
                          \/ MadeWith("zsetu", r, k, zsetu(mach, r, k))
                    \/ \E k \in Int64 :
                          \/ MadeWith("zaddi", r, k, zaddi(mach, r, "x", k))
                          \/ MadeWith("zsubi", r, k, zsubi(mach, r, "x", k))
                          \/ MadeWith("zseti", r, k, zseti(mach, r, k))
                    \/ Made("zset", r, Null, zset(mach, r, "x"))
                    \/ Made("zneg", r, Null, zneg(mach, r, "x"))
                    \/ Made("zabs", r, Null, zabs(mach, r, "x"))
                    \/ Made("znot", r, Null, znot(mach, r, "x"))
             PROVE  SumInv'
  BY DEF WordSums, Zvar
<1>1. Good(mach) /\ "x" \in Zvar
  BY Partners DEF SumInv
<1>2. ASSUME NEW k \in Word, MadeWith("zaddu", r, k, zaddu(mach, r, "x", k)) PROVE SumInv'
  <2> DEFINE s == zaddu(mach, r, "x", k)
             v == Num(mach, "x") + k
  <2>1. Changes("zaddu", r, Null, k, s)
    BY <1>2 DEF MadeWith, Changes
  <2>2. Makes(mach, s, r, v)
    BY <1>1, Words, AddWordMakes
  <2> HIDE DEF s, v
  <2>3. /\ Good(mach)' /\ OnlyResultWritten' /\ Out' = v
        /\ call'.op = "zaddu" /\ call'.k = k /\ X' = Num(mach, "x")
    BY <2>1, <2>2, Making
  <2>4. SumExact'
    BY <2>3 DEF SumExact, Is, v
  <2>5. CompareExact'
    BY <2>3 DEF CompareExact, Is
  <2>6. QED  BY <2>3, <2>4, <2>5 DEF SumInv
<1>3. ASSUME NEW k \in Word, MadeWith("zsubu", r, k, zsubu(mach, r, "x", k)) PROVE SumInv'
  <2> DEFINE s == zsubu(mach, r, "x", k)
             v == Num(mach, "x") - k
  <2>1. Changes("zsubu", r, Null, k, s)
    BY <1>3 DEF MadeWith, Changes
  <2>2. Makes(mach, s, r, v)
    BY <1>1, Words, AddWordMakes
  <2> HIDE DEF s, v
  <2>3. /\ Good(mach)' /\ OnlyResultWritten' /\ Out' = v
        /\ call'.op = "zsubu" /\ call'.k = k /\ X' = Num(mach, "x")
    BY <2>1, <2>2, Making
  <2>4. SumExact'
    BY <2>3 DEF SumExact, Is, v
  <2>5. CompareExact'
    BY <2>3 DEF CompareExact, Is
  <2>6. QED  BY <2>3, <2>4, <2>5 DEF SumInv
<1>4. ASSUME NEW k \in Word, MadeWith("zsetu", r, k, zsetu(mach, r, k)) PROVE SumInv'
  <2> DEFINE s == zsetu(mach, r, k)
             v == k
  <2>1. Changes("zsetu", r, Null, k, s)
    BY <1>4 DEF MadeWith, Changes
  <2>2. Makes(mach, s, r, v)
    BY <1>1, Words, SetWordMakes
  <2> HIDE DEF s, v
  <2>3. /\ Good(mach)' /\ OnlyResultWritten' /\ Out' = v
        /\ call'.op = "zsetu" /\ call'.k = k /\ X' = Num(mach, "x")
    BY <2>1, <2>2, Making
  <2>4. SumExact'
    BY <2>3 DEF SumExact, Is, v
  <2>5. CompareExact'
    BY <2>3 DEF CompareExact, Is
  <2>6. QED  BY <2>3, <2>4, <2>5 DEF SumInv
<1>5. ASSUME NEW k \in Int64, MadeWith("zaddi", r, k, zaddi(mach, r, "x", k)) PROVE SumInv'
  <2> DEFINE s == zaddi(mach, r, "x", k)
             v == Num(mach, "x") + k
  <2>1. Changes("zaddi", r, Null, k, s)
    BY <1>5 DEF MadeWith, Changes
  <2>2. Makes(mach, s, r, v)
    BY <1>1, Words, AddSignedMakes
  <2> HIDE DEF s, v
  <2>3. /\ Good(mach)' /\ OnlyResultWritten' /\ Out' = v
        /\ call'.op = "zaddi" /\ call'.k = k /\ X' = Num(mach, "x")
    BY <2>1, <2>2, Making
  <2>4. SumExact'
    BY <2>3 DEF SumExact, Is, v
  <2>5. CompareExact'
    BY <2>3 DEF CompareExact, Is
  <2>6. QED  BY <2>3, <2>4, <2>5 DEF SumInv
<1>6. ASSUME NEW k \in Int64, MadeWith("zsubi", r, k, zsubi(mach, r, "x", k)) PROVE SumInv'
  <2> DEFINE s == zsubi(mach, r, "x", k)
             v == Num(mach, "x") - k
  <2>1. Changes("zsubi", r, Null, k, s)
    BY <1>6 DEF MadeWith, Changes
  <2>2. Makes(mach, s, r, v)
    BY <1>1, Words, AddSignedMakes
  <2> HIDE DEF s, v
  <2>3. /\ Good(mach)' /\ OnlyResultWritten' /\ Out' = v
        /\ call'.op = "zsubi" /\ call'.k = k /\ X' = Num(mach, "x")
    BY <2>1, <2>2, Making
  <2>4. SumExact'
    BY <2>3 DEF SumExact, Is, v
  <2>5. CompareExact'
    BY <2>3 DEF CompareExact, Is
  <2>6. QED  BY <2>3, <2>4, <2>5 DEF SumInv
<1>7. ASSUME NEW k \in Int64, MadeWith("zseti", r, k, zseti(mach, r, k)) PROVE SumInv'
  <2> DEFINE s == zseti(mach, r, k)
             v == k
  <2>1. Changes("zseti", r, Null, k, s)
    BY <1>7 DEF MadeWith, Changes
  <2>2. Makes(mach, s, r, v)
    BY <1>1, Words, SetSignedMakes
  <2> HIDE DEF s, v
  <2>3. /\ Good(mach)' /\ OnlyResultWritten' /\ Out' = v
        /\ call'.op = "zseti" /\ call'.k = k /\ X' = Num(mach, "x")
    BY <2>1, <2>2, Making
  <2>4. SumExact'
    BY <2>3 DEF SumExact, Is, v
  <2>5. CompareExact'
    BY <2>3 DEF CompareExact, Is
  <2>6. QED  BY <2>3, <2>4, <2>5 DEF SumInv
<1>8. CASE Made("zset", r, Null, zset(mach, r, "x"))
  <2> DEFINE s == zset(mach, r, "x")
             v == Num(mach, "x")
  <2>1. Changes("zset", r, Null, 0, s)
    BY <1>8 DEF Made, Changes
  <2>2. Makes(mach, s, r, v)
    BY <1>1, SetMakes
  <2> HIDE DEF s, v
  <2>3. /\ Good(mach)' /\ OnlyResultWritten' /\ Out' = v
        /\ call'.op = "zset" /\ call'.k = 0 /\ X' = Num(mach, "x") /\ Y' = Num(mach, Null)
    BY <2>1, <2>2, Making
  <2>4. SumExact'
    BY <2>3 DEF SumExact, Is, v
  <2>5. CompareExact'
    BY <2>3 DEF CompareExact, Is
  <2>6. QED  BY <2>3, <2>4, <2>5 DEF SumInv
<1>9. CASE Made("zneg", r, Null, zneg(mach, r, "x"))
  <2> DEFINE s == zneg(mach, r, "x")
             v == -Num(mach, "x")
  <2>1. Changes("zneg", r, Null, 0, s)
    BY <1>9 DEF Made, Changes
  <2>2. Makes(mach, s, r, v)
    BY <1>1, NegMakes
  <2> HIDE DEF s, v
  <2>3. /\ Good(mach)' /\ OnlyResultWritten' /\ Out' = v
        /\ call'.op = "zneg" /\ call'.k = 0 /\ X' = Num(mach, "x") /\ Y' = Num(mach, Null)
    BY <2>1, <2>2, Making
  <2>4. SumExact'
    BY <2>3 DEF SumExact, Is, v
  <2>5. CompareExact'
    BY <2>3 DEF CompareExact, Is
  <2>6. QED  BY <2>3, <2>4, <2>5 DEF SumInv
<1>10. CASE Made("zabs", r, Null, zabs(mach, r, "x"))
  <2> DEFINE s == zabs(mach, r, "x")
             v == AbsOf(Num(mach, "x"))
  <2>1. Changes("zabs", r, Null, 0, s)
    BY <1>10 DEF Made, Changes
  <2>2. Makes(mach, s, r, v)
    BY <1>1, AbsMakes
  <2> HIDE DEF s, v
  <2>3. /\ Good(mach)' /\ OnlyResultWritten' /\ Out' = v
        /\ call'.op = "zabs" /\ call'.k = 0 /\ X' = Num(mach, "x") /\ Y' = Num(mach, Null)
    BY <2>1, <2>2, Making
  <2>4. SumExact'
    BY <2>3 DEF SumExact, Is, v
  <2>5. CompareExact'
    BY <2>3 DEF CompareExact, Is
  <2>6. QED  BY <2>3, <2>4, <2>5 DEF SumInv
<1>11. CASE Made("znot", r, Null, znot(mach, r, "x"))
  <2> DEFINE s == znot(mach, r, "x")
             v == -Num(mach, "x") - 1
  <2>1. Changes("znot", r, Null, 0, s)
    BY <1>11 DEF Made, Changes
  <2>2. Makes(mach, s, r, v)
    BY <1>1, NotMakes
  <2> HIDE DEF s, v
  <2>3. /\ Good(mach)' /\ OnlyResultWritten' /\ Out' = v
        /\ call'.op = "znot" /\ call'.k = 0 /\ X' = Num(mach, "x") /\ Y' = Num(mach, Null)
    BY <2>1, <2>2, Making
  <2>4. SumExact'
    BY <2>3 DEF SumExact, Is, v
  <2>5. CompareExact'
    BY <2>3 DEF CompareExact, Is
  <2>6. QED  BY <2>3, <2>4, <2>5 DEF SumInv
<1>12. QED  BY <1>2, <1>3, <1>4, <1>5, <1>6, <1>7, <1>8, <1>9, <1>10, <1>11

LEMMA StepComparisons == SumInv /\ Comparisons => SumInv'
<1> SUFFICES ASSUME SumInv, NEW b \in Zvar,
                    \/ Told("zcmp", b, 0, zcmp(mach, "x", b))
                    \/ Told("zcmpmag", b, 0, zcmpmag(mach, "x", b))
             PROVE  SumInv'
  BY Partners DEF Comparisons
<1>1. Good(mach) /\ "x" \in Zvar
  BY Partners DEF SumInv
<1>2. CASE Told("zcmp", b, 0, zcmp(mach, "x", b))
  <2>1. /\ Good(mach)' /\ OnlyResultWritten' /\ call'.op = "zcmp" /\ call'.k = 0 /\ call'.ret = zcmp(mach, "x", b)
        /\ X' = Num(mach, "x") /\ Y' = Num(mach, b) /\ call'.was = mach
    BY <1>2, Telling
  <2>2. zcmp(mach, "x", b) = SignOf(Num(mach, "x") - Num(mach, b))
    BY <1>1, ComparesRight
  <2>3. CompareExact'
    BY <2>1, <2>2 DEF CompareExact, Is, Near
  <2>4. SumExact'
    BY <2>1 DEF SumExact, Is
  <2>5. QED  BY <2>1, <2>3, <2>4 DEF SumInv
<1>3. CASE Told("zcmpmag", b, 0, zcmpmag(mach, "x", b))
  <2>1. /\ Good(mach)' /\ OnlyResultWritten' /\ call'.op = "zcmpmag" /\ call'.k = 0 /\ call'.ret = zcmpmag(mach, "x", b)
        /\ X' = Num(mach, "x") /\ Y' = Num(mach, b) /\ call'.was = mach
    BY <1>3, Telling
  <2>2. zcmpmag(mach, "x", b) = SignOf(AbsOf(Num(mach, "x")) - AbsOf(Num(mach, b)))
    BY <1>1, ComparesRight
  <2>3. CompareExact'
    BY <2>1, <2>2 DEF CompareExact, Is, Near
  <2>4. SumExact'
    BY <2>1 DEF SumExact, Is
  <2>5. QED  BY <2>1, <2>3, <2>4 DEF SumInv
<1>4. QED  BY <1>2, <1>3

LEMMA StepWordComparisons == SumInv /\ WordComparisons => SumInv'
<1> SUFFICES ASSUME SumInv,
                    \/ \E k \in Word : Told("zcmpu", Null, k, zcmpu(mach, "x", k))
                    \/ \E k \in Int64 : Told("zcmpi", Null, k, zcmpi(mach, "x", k))
             PROVE  SumInv'
  BY DEF WordComparisons
<1>1. Good(mach) /\ "x" \in Zvar
  BY Partners DEF SumInv
<1>2. ASSUME NEW k \in Word, Told("zcmpu", Null, k, zcmpu(mach, "x", k)) PROVE SumInv'
  <2>1. /\ Good(mach)' /\ OnlyResultWritten' /\ call'.op = "zcmpu" /\ call'.k = k /\ call'.ret = zcmpu(mach, "x", k)
        /\ X' = Num(mach, "x") /\ Y' = Num(mach, Null) /\ call'.was = mach
    BY <1>2, Telling
  <2>2. hebi_zused(mach, "x") =< 1 => zcmpu(mach, "x", k) = SignOf(Num(mach, "x") - k)
    BY <1>1, Words, ComparesWordRight
  <2>3. CompareExact'
    BY <2>1, <2>2 DEF CompareExact, Is, Near
  <2>4. SumExact'
    BY <2>1 DEF SumExact, Is
  <2>5. QED  BY <2>1, <2>3, <2>4 DEF SumInv
<1>3. ASSUME NEW k \in Int64, Told("zcmpi", Null, k, zcmpi(mach, "x", k)) PROVE SumInv'
  <2>1. /\ Good(mach)' /\ OnlyResultWritten' /\ call'.op = "zcmpi" /\ call'.k = k /\ call'.ret = zcmpi(mach, "x", k)
        /\ X' = Num(mach, "x") /\ Y' = Num(mach, Null) /\ call'.was = mach
    BY <1>3, Telling
  <2>2. hebi_zused(mach, "x") =< 1 => zcmpi(mach, "x", k) = SignOf(Num(mach, "x") - k)
    BY <1>1, Words, ComparesWordRight
  <2>3. CompareExact'
    BY <2>1, <2>2 DEF CompareExact, Is, Near
  <2>4. SumExact'
    BY <2>1 DEF SumExact, Is
  <2>5. QED  BY <2>1, <2>3, <2>4 DEF SumInv
<1>4. QED  BY <1>2, <1>3

LEMMA StepConversions == SumInv /\ Conversions => SumInv'
<1> SUFFICES ASSUME SumInv,
                    \/ Told("zgetu", Null, 0, zgetu(mach, "x"))
                    \/ Told("zgeti", Null, 0, zgeti(mach, "x"))
                    \/ Told("zgetsu", Null, 0, zgetsu(mach, "x"))
                    \/ Told("zgetsi", Null, 0, zgetsi(mach, "x"))
             PROVE  SumInv'
  BY DEF Conversions
<1>1. Good(mach) /\ "x" \in Zvar
  BY Partners DEF SumInv
<1>2. CASE Told("zgetu", Null, 0, zgetu(mach, "x"))
  <2>1. /\ Good(mach)' /\ OnlyResultWritten' /\ call'.op = "zgetu" /\ call'.k = 0 /\ call'.ret = zgetu(mach, "x")
        /\ X' = Num(mach, "x") /\ Y' = Num(mach, Null) /\ call'.was = mach
    BY <1>2, Telling
  <2>2. zgetu(mach, "x") = AbsOf(Num(mach, "x")) % Base
    BY <1>1, WordsRight
  <2>3. CompareExact'
    BY <2>1, <2>2 DEF CompareExact, Is, Near
  <2>4. SumExact'
    BY <2>1 DEF SumExact, Is
  <2>5. QED  BY <2>1, <2>3, <2>4 DEF SumInv
<1>3. CASE Told("zgeti", Null, 0, zgeti(mach, "x"))
  <2>1. /\ Good(mach)' /\ OnlyResultWritten' /\ call'.op = "zgeti" /\ call'.k = 0 /\ call'.ret = zgeti(mach, "x")
        /\ X' = Num(mach, "x") /\ Y' = Num(mach, Null) /\ call'.was = mach
    BY <1>3, Telling
  <2>2. zgeti(mach, "x") = Signed(Num(mach, "x"))
    BY <1>1, WordsRight
  <2>3. CompareExact'
    BY <2>1, <2>2 DEF CompareExact, Is, Near
  <2>4. SumExact'
    BY <2>1 DEF SumExact, Is
  <2>5. QED  BY <2>1, <2>3, <2>4 DEF SumInv
<1>4. CASE Told("zgetsu", Null, 0, zgetsu(mach, "x"))
  <2>1. /\ Good(mach)' /\ OnlyResultWritten' /\ call'.op = "zgetsu" /\ call'.k = 0 /\ call'.ret = zgetsu(mach, "x")
        /\ X' = Num(mach, "x") /\ Y' = Num(mach, Null) /\ call'.was = mach
    BY <1>4, Telling
  <2>2. zgetsu(mach, "x") = Near(Num(mach, "x"), 0, Base - 1)
    BY <1>1, WordsRight
  <2>3. CompareExact'
    BY <2>1, <2>2 DEF CompareExact, Is, Near
  <2>4. SumExact'
    BY <2>1 DEF SumExact, Is
  <2>5. QED  BY <2>1, <2>3, <2>4 DEF SumInv
<1>5. CASE Told("zgetsi", Null, 0, zgetsi(mach, "x"))
  <2>1. /\ Good(mach)' /\ OnlyResultWritten' /\ call'.op = "zgetsi" /\ call'.k = 0 /\ call'.ret = zgetsi(mach, "x")
        /\ X' = Num(mach, "x") /\ Y' = Num(mach, Null) /\ call'.was = mach
    BY <1>5, Telling
  <2>2. zgetsi(mach, "x") = Near(Num(mach, "x"), -HighBit, HighBit - 1)
    BY <1>1, WordsRight
  <2>3. CompareExact'
    BY <2>1, <2>2 DEF CompareExact, Is, Near
  <2>4. SumExact'
    BY <2>1 DEF SumExact, Is
  <2>5. QED  BY <2>1, <2>3, <2>4 DEF SumInv
<1>6. QED  BY <1>2, <1>3, <1>4, <1>5

\* Products and squares as such; ProductExact has their residues, which TLC can reckon.
TrueProduct ==
    /\ Is({"zmul"}) => Out = X * Y
    /\ Is({"zsqr"}) => Out = X * X

ProductInv == SumInv /\ ProductExact /\ TrueProduct

ProductOps == {"zmul", "zsqr", "zmulu", "zmuli"}

LEMMA StepSumNext == ProductInv /\ SumNext => ProductInv'
<1> SUFFICES ASSUME ProductInv, SumNext PROVE ProductInv'
  OBVIOUS
<1>1. SumInv
  BY DEF ProductInv
<1>2. SumInv'
  BY <1>1, StepSums, StepWordSums, StepComparisons, StepWordComparisons, StepConversions DEF SumNext
<1>3. call'.op \notin ProductOps
  <2>1. CASE Sums
    BY <2>1 DEF Sums, Made, Did, ProductOps
  <2>2. CASE WordSums
    BY <2>2 DEF WordSums, Made, MadeWith, Did, ProductOps
  <2>3. CASE Comparisons
    BY <2>3 DEF Comparisons, Told, Did, ProductOps
  <2>4. CASE WordComparisons
    BY <2>4 DEF WordComparisons, Told, Did, ProductOps
  <2>5. CASE Conversions
    BY <2>5 DEF Conversions, Told, Did, ProductOps
  <2>6. QED  BY <2>1, <2>2, <2>3, <2>4, <2>5 DEF SumNext
<1>4. ProductExact' /\ TrueProduct'
  BY <1>3 DEF ProductExact, TrueProduct, Is, ProductOps
<1>5. QED  BY <1>2, <1>4 DEF ProductInv

\* The sign and the residues of a product.
LEMMA ResiduesFollow ==
    ASSUME NEW s, Good(s), NEW t, Good(t), NEW r \in Zvar, NEW a \in Zvar, NEW b \in Zvar,
           Num(t, r) = Num(s, a) * Num(s, b)
    PROVE  /\ Sign(t, r) = Sign(s, a) * Sign(s, b)
           /\ \A p \in Prime : Residue(t, r, p) = (Residue(s, a, p) * Residue(s, b, p)) % p
<1> DEFINE x == Num(s, a)
           y == Num(s, b)
           z == Num(t, r)
<1>1. /\ x \in Int /\ y \in Int /\ z = x * y
      /\ SignOf(x) = Sign(s, a) /\ SignOf(y) = Sign(s, b) /\ SignOf(z) = Sign(t, r)
  BY NumParts
<1>2. \A p \in Prime : p \in Nat \ {0}
  BY DEF Prime
<1>3. \A p \in Nat \ {0} : /\ Residue(s, a, p) = AbsOf(x) % p /\ Residue(s, b, p) = AbsOf(y) % p
                           /\ Residue(t, r, p) = AbsOf(z) % p
                           /\ AbsOf(x) \in Nat /\ AbsOf(y) \in Nat
  BY ResidueOfNumber
<1> HIDE DEF x, y, z
<1>4. SignOf(z) = SignOf(x) * SignOf(y) /\ AbsOf(z) = AbsOf(x) * AbsOf(y)
  <2>1. CASE x = 0 \/ y = 0
    BY <1>1, <2>1 DEF SignOf, AbsOf
  <2>2. CASE x > 0 /\ y > 0
    <3>1. x * y > 0
      BY <1>1, <2>2
    <3>2. QED  BY <1>1, <2>2, <3>1 DEF SignOf, AbsOf
  <2>3. CASE x > 0 /\ y < 0
    <3>1. x * y < 0 /\ x * (-y) = -(x * y)
      BY <1>1, <2>3
    <3>2. QED  BY <1>1, <2>3, <3>1 DEF SignOf, AbsOf
  <2>4. CASE x < 0 /\ y > 0
    <3>1. x * y < 0 /\ (-x) * y = -(x * y)
      BY <1>1, <2>4
    <3>2. QED  BY <1>1, <2>4, <3>1 DEF SignOf, AbsOf
  <2>5. CASE x < 0 /\ y < 0
    <3>1. x * y > 0 /\ (-x) * (-y) = x * y
      BY <1>1, <2>5
    <3>2. QED  BY <1>1, <2>5, <3>1 DEF SignOf, AbsOf
  <2>6. QED  BY <1>1, <2>1, <2>2, <2>3, <2>4, <2>5
<1>5. ASSUME NEW p \in Prime PROVE Residue(t, r, p) = (Residue(s, a, p) * Residue(s, b, p)) % p
  <2>1. p \in Nat \ {0}
    BY <1>2
  <2>2. AbsOf(x) \in Nat /\ AbsOf(y) \in Nat
    BY <1>3, <2>1
  <2>3. ((AbsOf(x) % p) * (AbsOf(y) % p)) % p = (AbsOf(x) * AbsOf(y)) % p
    BY <2>1, <2>2, ModTimes
  <2>4. QED  BY <1>3, <1>4, <2>1, <2>3
<1>6. QED  BY <1>1, <1>4, <1>5

LEMMA StepRowProducts == ProductInv /\ RowProducts => ProductInv'
<1> SUFFICES ASSUME ProductInv, NEW r \in Zvar, NEW b \in Zvar,
                    \/ Made("zmul", r, b, zmul_rows(mach, r, "x", b))
                    \/ Made("zsqr", r, Null, zsqr_rows(mach, r, "x"))
             PROVE  ProductInv'
  BY Partners DEF RowProducts
<1>1. SumInv /\ Good(mach) /\ "x" \in Zvar
  BY Partners DEF SumInv, ProductInv
<1>2. CASE Made("zmul", r, b, zmul_rows(mach, r, "x", b))
  <2> DEFINE s == zmul_rows(mach, r, "x", b)
             v == Num(mach, "x") * Num(mach, b)
  <2>1. Changes("zmul", r, b, 0, s)
    BY <1>2 DEF Made, Changes
  <2>2. Makes(mach, s, r, v)
    BY <1>1, MulMakes
  <2> HIDE DEF s
  <2>3. mach' = s /\ call'.was = mach /\ call'.b = b /\ call'.out = {r}
    BY <2>1 DEF Changes, Did
  <2>4. Good(s) /\ Num(s, r) = v
    BY <2>2 DEF Makes
  <2> HIDE DEF v
  <2>5. /\ Good(mach)' /\ OnlyResultWritten' /\ Out' = v
        /\ call'.op = "zmul" /\ call'.k = 0 /\ X' = Num(mach, "x") /\ Y' = Num(mach, b)
    BY <1>1, <2>1, <2>2, Making
  <2>6. SumExact' /\ CompareExact'
    BY <2>5 DEF SumExact, CompareExact, Is
  <2>7. /\ Sign(s, r) = Sign(mach, "x") * Sign(mach, b)
        /\ \A p \in Prime : Residue(s, r, p) = (Residue(mach, "x", p) * Residue(mach, b, p)) % p
    BY <1>1, <2>4, ResiduesFollow DEF v
  <2>8. (CHOOSE z \in {r} : TRUE) = r
    OBVIOUS
  <2>9. ProductExact'
    BY <2>3, <2>5, <2>7, <2>8 DEF ProductExact, Is
  <2>10. TrueProduct'
    BY <2>5 DEF TrueProduct, Is, v
  <2>11. QED  BY <2>5, <2>6, <2>9, <2>10 DEF SumInv, ProductInv
<1>3. CASE Made("zsqr", r, Null, zsqr_rows(mach, r, "x"))
  <2> DEFINE s == zsqr_rows(mach, r, "x")
             v == Num(mach, "x") * Num(mach, "x")
  <2>1. Changes("zsqr", r, Null, 0, s)
    BY <1>3 DEF Made, Changes
  <2>2. Makes(mach, s, r, v)
    BY <1>1, SqrMakes
  <2> HIDE DEF s
  <2>3. mach' = s /\ call'.was = mach /\ call'.out = {r}
    BY <2>1 DEF Changes, Did
  <2>4. Good(s) /\ Num(s, r) = v
    BY <2>2 DEF Makes
  <2> HIDE DEF v
  <2>5. /\ Good(mach)' /\ OnlyResultWritten' /\ Out' = v
        /\ call'.op = "zsqr" /\ call'.k = 0 /\ X' = Num(mach, "x")
    BY <1>1, <2>1, <2>2, Making
  <2>6. SumExact' /\ CompareExact'
    BY <2>5 DEF SumExact, CompareExact, Is
  <2>7. /\ Sign(s, r) = Sign(mach, "x") * Sign(mach, "x")
        /\ \A p \in Prime : Residue(s, r, p) = (Residue(mach, "x", p) * Residue(mach, "x", p)) % p
    BY <1>1, <2>4, ResiduesFollow DEF v
  <2>8. (CHOOSE z \in {r} : TRUE) = r
    OBVIOUS
  <2>9. ProductExact'
    BY <2>3, <2>5, <2>7, <2>8 DEF ProductExact, Is
  <2>10. TrueProduct'
    BY <2>5 DEF TrueProduct, Is, v
  <2>11. QED  BY <2>5, <2>6, <2>9, <2>10 DEF SumInv, ProductInv
<1>4. QED  BY <1>2, <1>3

LEMMA StepWordProducts == ProductInv /\ WordProducts => ProductInv'
<1> SUFFICES ASSUME ProductInv, NEW r \in Zvar,
                    \/ \E k \in Word : MadeWith("zmulu", r, k, zmulu(mach, r, "x", k))
                    \/ \E k \in Int64 : MadeWith("zmuli", r, k, zmuli(mach, r, "x", k))
             PROVE  ProductInv'
  BY DEF WordProducts, Zvar
<1>1. SumInv /\ Good(mach) /\ "x" \in Zvar
  BY Partners DEF SumInv, ProductInv
<1>2. ASSUME NEW k \in Word, MadeWith("zmulu", r, k, zmulu(mach, r, "x", k)) PROVE ProductInv'
  <2> DEFINE s == zmulu(mach, r, "x", k)
             v == Num(mach, "x") * k
  <2>1. Changes("zmulu", r, Null, k, s)
    BY <1>2 DEF MadeWith, Changes
  <2>2. Makes(mach, s, r, v)
    BY <1>1, Words, WordProductMakes
  <2> HIDE DEF s, v
  <2>3. /\ Good(mach)' /\ OnlyResultWritten' /\ Out' = v
        /\ call'.op = "zmulu" /\ call'.k = k /\ X' = Num(mach, "x")
    BY <1>1, <2>1, <2>2, Making
  <2>4. SumExact' /\ CompareExact'
    BY <2>3 DEF SumExact, CompareExact, Is
  <2>5. ProductExact' /\ TrueProduct'
    BY <2>3 DEF ProductExact, TrueProduct, Is, v
  <2>6. QED  BY <2>3, <2>4, <2>5 DEF SumInv, ProductInv
<1>3. ASSUME NEW k \in Int64, MadeWith("zmuli", r, k, zmuli(mach, r, "x", k)) PROVE ProductInv'
  <2> DEFINE s == zmuli(mach, r, "x", k)
             v == Num(mach, "x") * k
  <2>1. Changes("zmuli", r, Null, k, s)
    BY <1>3 DEF MadeWith, Changes
  <2>2. Makes(mach, s, r, v)
    BY <1>1, Words, SignedProductMakes
  <2> HIDE DEF s, v
  <2>3. /\ Good(mach)' /\ OnlyResultWritten' /\ Out' = v
        /\ call'.op = "zmuli" /\ call'.k = k /\ X' = Num(mach, "x")
    BY <1>1, <2>1, <2>2, Making
  <2>4. SumExact' /\ CompareExact'
    BY <2>3 DEF SumExact, CompareExact, Is
  <2>5. ProductExact' /\ TrueProduct'
    BY <2>3 DEF ProductExact, TrueProduct, Is, v
  <2>6. QED  BY <2>3, <2>4, <2>5 DEF SumInv, ProductInv
<1>4. QED  BY <1>2, <1>3

\* ProductInv holds of every call of the sums, the comparisons, the conversions and
\* the products by rows and with words.
THEOREM ProductInvariance == ProductSpec => []ProductInv
<1>1. Init => ProductInv
  <2> SUFFICES ASSUME Init PROVE ProductInv
    OBVIOUS
  <2>1. Good(mach) /\ call.op = "none"
    BY InitGood
  <2>2. OnlyResultWritten /\ SumExact /\ CompareExact /\ ProductExact /\ TrueProduct
    BY <2>1 DEF OnlyResultWritten, SumExact, CompareExact, ProductExact, TrueProduct, Is
  <2>3. QED  BY <2>1, <2>2 DEF SumInv, ProductInv
<1>2. ProductInv /\ [ProductNext]_vars => ProductInv'
  <2> SUFFICES ASSUME ProductInv, [ProductNext]_vars PROVE ProductInv'
    OBVIOUS
  <2>1. CASE SumNext
    BY <2>1, StepSumNext
  <2>2. CASE RowProducts
    BY <2>2, StepRowProducts
  <2>3. CASE WordProducts
    BY <2>3, StepWordProducts
  <2>4. CASE UNCHANGED vars
    <3>1. mach' = mach /\ call' = call
      BY <2>4 DEF vars
    <3>2. SumInv'
      BY <3>1 DEF ProductInv, SumInv, OnlyResultWritten, SumExact, CompareExact, Is, X, Y, Out
    <3>3. ProductExact' /\ TrueProduct'
      BY <3>1 DEF ProductInv, ProductExact, TrueProduct, Is, X, Y, Out
    <3>4. QED  BY <3>2, <3>3 DEF ProductInv
  <2>5. QED  BY <2>1, <2>2, <2>3, <2>4 DEF ProductNext
<1>3. QED  BY <1>1, <1>2, PTL DEF ProductSpec

\* Sums and differences are those of the integers (SumExact): hebi_zadd, zsub, zaddmag,
\* zsubmag, zaddu, zsubu, zaddi, zsubi, zsetu, zseti, zset, zneg, zabs and znot.
THEOREM SumsExact == ProductSpec => []SumExact
<1>1. ProductInv => SumExact
  BY DEF SumInv, ProductInv
<1>2. QED  BY <1>1, ProductInvariance, PTL

\* Comparisons are those of the integers, and conversions give the right word
\* (CompareExact): hebi_zcmp, zcmpmag, zcmpu, zcmpi, zgetu, zgeti, zgetsu and zgetsi.
THEOREM ComparisonsExact == ProductSpec => []CompareExact
<1>1. ProductInv => CompareExact
  BY DEF SumInv, ProductInv
<1>2. QED  BY <1>1, ProductInvariance, PTL

\* Products and squares by rows, and products with words, are those of the integers
\* (ProductExact): hebi_zmul and hebi_zsqr of operands within the cutoffs, in a result
\* that is an operand or not, hebi_zmulu and hebi_zmuli.
THEOREM ProductsExact == ProductSpec => []ProductExact
<1>1. ProductInv => ProductExact
  BY DEF ProductInv
<1>2. QED  BY <1>1, ProductInvariance, PTL

\* The product itself, of which ProductExact has the residues.
THEOREM ProductsTrue == ProductSpec => []TrueProduct
<1>1. ProductInv => TrueProduct
  BY DEF ProductInv
<1>2. QED  BY <1>1, ProductInvariance, PTL

\* The calls leave the operands that are not the result alone (OnlyResultWritten).
THEOREM SumsWriteResult == ProductSpec => []OnlyResultWritten
<1>1. ProductInv => OnlyResultWritten
  BY DEF SumInv, ProductInv
<1>2. QED  BY <1>1, ProductInvariance, PTL

\* No kernel that the calls use stores outside a buffer (NoOverrun): the room that
\* hebi_zgrow__ and hebi_zgrowcopy__ make is enough.
THEOREM SumsNoOverrun == ProductSpec => []NoOverrun
<1>1. ProductInv => NoOverrun
  <2> SUFFICES ASSUME ProductInv, NEW o \in Object
               PROVE  DOMAIN mach.m[o] = 0 .. mach.z[o].resv * PacketLimbs - 1
    BY DEF NoOverrun
  <2>1. Sized(mach)
    BY DEF SumInv, ProductInv, Good
  <2>2. QED  BY <2>1 DEF Sized
<1>2. QED  BY <1>1, ProductInvariance, PTL

\* The calls leave every integer in the one form that the others rely on (Canonical).
THEOREM SumsCanonical == ProductSpec => []Canonical
<1>1. ProductInv => Canonical
  <2> SUFFICES ASSUME ProductInv, NEW o \in Zvar
               PROVE  /\ mach.z[o].sign \in {-1, 0, 1}
                      /\ mach.z[o].sign # 0 =>
                            /\ mach.z[o].used \in 1 .. mach.z[o].resv
                            /\ pnorm(mach.m, Ptr(o), mach.z[o].used) = mach.z[o].used
    BY DEF Canonical
  <2>1. Good(mach) /\ Sign(mach, o) \in {-1, 0, 1}
    BY NumParts DEF SumInv, ProductInv
  <2>2. ASSUME Sign(mach, o) # 0
        PROVE  Used(mach, o) \in 1 .. mach.z[o].resv /\ pnorm(mach.m, Ptr(o), Used(mach, o)) = Used(mach, o)
    <3>1. Holds(mach, o, Used(mach, o), Mag(mach, o))
      BY <2>1, <2>2, GoodHolds
    <3>2. IsMemory(mach.m)
      BY <2>1, SizedMemory DEF Good
    <3>3. pnorm(mach.m, Ptr(o), Used(mach, o)) = Used(mach, o)
      BY <3>1, <3>2, NormOfPackets DEF Holds
    <3>4. QED  BY <2>1, <2>2, <3>3 DEF Good, CanonicalAt
  <2>3. QED  BY <2>1, <2>2 DEF Sign, Used
<1>2. QED  BY <1>1, ProductInvariance, PTL

=============================================================================
