--------------------------- MODULE Packets_proofs ---------------------------
(***************************************************************************)
(* The packet kernels do arithmetic: sums, differences, order, length and  *)
(* copies are those of the numbers that the packets stand for, for every   *)
(* size of the limbs and packets, every length, and with the result in     *)
(* place of an operand as far as the callers need it.                      *)
(*                                                                         *)
(* Loop and Value are recursive functions, of which only one equation per  *)
(* index is known.  So each kernel is unfolded into its trace: functions   *)
(* of the index that hold the memory, the carry and the limb stored, which *)
(* exist (StepsExist) and are the ones the loop goes through (SameEnd).    *)
(* What a trace says of one limb becomes what it says of the number by     *)
(* Horner's scheme (NumberChain).                                          *)
(***************************************************************************)
EXTENDS Packets, WellFoundedInduction, TLAPS

-----------------------------------------------------------------------------
(* Induction and recursion *)

\* Induction up a set of natural numbers.
LEMMA UpInduct ==
    ASSUME NEW S, 0 \in S, \A n \in Nat : n \in S => n + 1 \in S
    PROVE  \A n \in Nat : n \in S
<1> SUFFICES ASSUME NEW k \in Nat, k \notin S PROVE FALSE
  OBVIOUS
<1> DEFINE Out == {n \in Nat : n \notin S}
<1>1. PICK n \in Out : \A x \in Out : ~(<<x, n>> \in OpToRel(<, Nat))
  BY NatLessThanWellFounded, WFMin
<1>2. \A x \in Out : ~(x < n)
  BY <1>1 DEF OpToRel
<1>3. n # 0 /\ n - 1 \in Nat /\ n - 1 \notin Out
  BY <1>2
<1>4. QED  BY <1>3

\* Induction down from n.
LEMMA DownInduct ==
    ASSUME NEW n \in Nat, NEW S, n \in S, \A i \in 0 .. n - 1 : i + 1 \in S => i \in S
    PROVE  \A i \in 0 .. n : i \in S
<1> DEFINE T == {k \in Nat : k =< n => n - k \in S}
<1>1. 0 \in T
  OBVIOUS
<1>2. ASSUME NEW k \in Nat, k \in T PROVE k + 1 \in T
  <2>1. SUFFICES ASSUME k + 1 =< n PROVE n - (k + 1) \in S
    OBVIOUS
  <2>2. n - k \in S /\ n - (k + 1) \in 0 .. n - 1 /\ (n - (k + 1)) + 1 = n - k
    BY <1>2, <2>1
  <2>3. QED  BY <2>2
<1> HIDE DEF T
<1>3. \A k \in Nat : k \in T
  BY <1>1, <1>2, UpInduct
<1>4. QED  BY <1>3 DEF T

\* f is the trace of a loop: the states of St before its turns and after the last.
Steps(St, B, s, n, f) ==
    /\ f \in [0 .. n -> St]
    /\ f[0] = s
    /\ \A i \in 0 .. n - 1 : f[i + 1] = B[i][f[i]]

\* A loop has a trace.
LEMMA StepsExist ==
    ASSUME NEW St, NEW n \in Nat, NEW B, NEW s \in St, \A i \in 0 .. n - 1 : B[i] \in [St -> St]
    PROVE  \E f : Steps(St, B, s, n, f)
<1> DEFINE S == {k \in Nat : k =< n => \E f : Steps(St, B, s, k, f)}
<1>1. 0 \in S
  <2> DEFINE f == [i \in 0 .. 0 |-> s]
  <2>1. Steps(St, B, s, 0, f)
    BY DEF Steps
  <2> HIDE DEF f
  <2>2. QED  BY <2>1
<1>2. ASSUME NEW k \in Nat, k \in S PROVE k + 1 \in S
  <2>1. SUFFICES ASSUME k + 1 =< n PROVE \E f : Steps(St, B, s, k + 1, f)
    OBVIOUS
  <2>2. PICK f : Steps(St, B, s, k, f)
    BY <1>2, <2>1
  <2>3. f \in [0 .. k -> St] /\ f[k] \in St /\ k \in 0 .. n - 1
    BY <2>1, <2>2 DEF Steps
  <2>4. B[k][f[k]] \in St
    BY <2>3
  <2> DEFINE g == [i \in 0 .. k + 1 |-> IF i = k + 1 THEN B[k][f[k]] ELSE f[i]]
  <2>5. g \in [0 .. k + 1 -> St] /\ g[0] = s
    BY <2>2, <2>3, <2>4 DEF Steps
  <2>6. \A i \in 0 .. k : g[i + 1] = B[i][g[i]]
    BY <2>2, <2>3 DEF Steps
  <2> HIDE DEF g
  <2>7. Steps(St, B, s, k + 1, g)
    BY <2>5, <2>6 DEF Steps
  <2>8. QED  BY <2>7
<1> HIDE DEF S
<1>3. n \in S
  BY <1>1, <1>2, UpInduct
<1>4. QED
  BY <1>3 DEF S

\* What starts as a trace does and follows it turn by turn ends as it does.
LEMMA SameEnd ==
    ASSUME NEW n \in Nat, NEW f, NEW g, g[0] = f[0],
           \A i \in 0 .. n - 1 : g[i] = f[i] => g[i + 1] = f[i + 1]
    PROVE  g[n] = f[n]
<1> DEFINE S == {k \in Nat : k =< n => g[k] = f[k]}
<1>1. 0 \in S
  OBVIOUS
<1>2. ASSUME NEW k \in Nat, k \in S PROVE k + 1 \in S
  <2>1. SUFFICES ASSUME k + 1 =< n PROVE g[k + 1] = f[k + 1]
    OBVIOUS
  <2>2. k \in 0 .. n - 1 /\ g[k] = f[k]
    BY <1>2, <2>1
  <2>3. QED  BY <2>2
<1> HIDE DEF S
<1>3. n \in S
  BY <1>1, <1>2, UpInduct
<1>4. QED  BY <1>3 DEF S

-----------------------------------------------------------------------------
(* Numbers *)

LEMMA BaseFacts == Base \in Nat /\ Base >= 2 /\ 0 \in Limb /\ 1 \in Limb /\ Limb \subseteq Nat
  BY PacketsAssumption DEF Base, Limb

LEMMA LimbNumber == \A x \in Limb : x \in Int /\ 0 =< x /\ x =< Base - 1
  BY BaseFacts DEF Limb

\* The law of powers within a limb.
LEMMA PowerTimes ==
    ASSUME NEW i \in Nat, NEW j \in Nat, i + j =< LimbBit
    PROVE  2 ^ i \in Nat \ {0} /\ 2 ^ j \in Nat \ {0} /\ 2 ^ (i + j) = 2 ^ i * 2 ^ j
<1> DEFINE P == [k \in 0 .. LimbBit |-> 2 ^ k]
           S == {k \in Nat : k =< LimbBit => P[k] \in Nat \ {0}}
           T == {k \in Nat : i + k =< LimbBit => P[i + k] = P[i] * P[k]}
<1>1. LimbBit \in Nat /\ \A k \in 0 .. LimbBit : P[k] = 2 ^ k
  BY PacketsAssumption
<1>2. P[0] = 1 /\ \A k \in 0 .. LimbBit - 1 : P[k + 1] = 2 * P[k]
  <2>1. 0 \in 0 .. LimbBit /\ \A k \in 0 .. LimbBit - 1 : k \in 0 .. LimbBit /\ k + 1 \in 0 .. LimbBit
    BY <1>1
  <2> HIDE DEF P
  <2>2. QED  BY <1>1, <2>1, PowersAssumption
<1> HIDE DEF P
<1>3. \A k \in Nat : k \in S
  <2>1. 0 \in S
    BY <1>2
  <2>2. ASSUME NEW k \in Nat, k \in S PROVE k + 1 \in S
    <3>1. SUFFICES ASSUME k + 1 =< LimbBit PROVE P[k + 1] \in Nat \ {0}
      OBVIOUS
    <3>2. k \in 0 .. LimbBit - 1 /\ P[k] \in Nat \ {0}
      BY <1>1, <2>2, <3>1
    <3>3. QED  BY <1>2, <3>2
  <2> HIDE DEF S
  <2>3. QED  BY <2>1, <2>2, UpInduct
<1>4. \A k \in 0 .. LimbBit : P[k] \in Nat \ {0}
  BY <1>1, <1>3
<1>5. \A k \in Nat : k \in T
  <2>1. 0 \in T
    <3>1. i =< LimbBit => P[i] \in Nat
      BY <1>4
    <3>2. QED  BY <1>2, <3>1
  <2>2. ASSUME NEW k \in Nat, k \in T PROVE k + 1 \in T
    <3>1. SUFFICES ASSUME i + (k + 1) =< LimbBit PROVE P[i + (k + 1)] = P[i] * P[k + 1]
      OBVIOUS
    <3>2. /\ k \in 0 .. LimbBit - 1 /\ i + k \in 0 .. LimbBit - 1 /\ i \in 0 .. LimbBit
          /\ i + (k + 1) = (i + k) + 1
      BY <1>1, <3>1
    <3>3. P[i + k] = P[i] * P[k]
      BY <1>1, <2>2, <3>2
    <3>4. P[i + (k + 1)] = 2 * P[i + k] /\ P[k + 1] = 2 * P[k]
      BY <1>2, <3>2
    <3>5. P[i] \in Nat /\ P[k] \in Nat
      BY <1>1, <1>4, <3>2
    <3>6. 2 * (P[i] * P[k]) = P[i] * (2 * P[k])
      BY <3>5
    <3>7. QED  BY <3>3, <3>4, <3>6
  <2> HIDE DEF T
  <2>3. QED  BY <2>1, <2>2, UpInduct
<1>6. i \in 0 .. LimbBit /\ j \in 0 .. LimbBit /\ i + j \in 0 .. LimbBit
  BY <1>1
<1>7. P[i + j] = P[i] * P[j]
  BY <1>5, <1>6
<1>8. QED  BY <1>1, <1>4, <1>6, <1>7

LEMMA PowerSplit ==
    \A k \in 0 .. LimbBit :
        2 ^ k \in Nat \ {0} /\ 2 ^ (LimbBit - k) \in Nat \ {0} /\ 2 ^ k * 2 ^ (LimbBit - k) = Base
<1> SUFFICES ASSUME NEW k \in 0 .. LimbBit
             PROVE  2 ^ k \in Nat \ {0} /\ 2 ^ (LimbBit - k) \in Nat \ {0} /\ 2 ^ k * 2 ^ (LimbBit - k) = Base
  OBVIOUS
<1>1. k \in Nat /\ LimbBit - k \in Nat /\ k + (LimbBit - k) = LimbBit /\ k + (LimbBit - k) =< LimbBit
  BY PacketsAssumption
<1>2. QED  BY <1>1, PowerTimes DEF Base

\* v[i] is the number of the limbs d[i], ..., d[n - 1] under top.
Horner(d, n, top, v) ==
    /\ v \in [0 .. n -> Int]
    /\ v[n] = top
    /\ \A i \in 0 .. n - 1 : v[i] = d[i] + Base * v[i + 1]

LEMMA HornerExists ==
    ASSUME NEW n \in Nat, NEW d, \A i \in 0 .. n - 1 : d[i] \in Int, NEW top \in Int
    PROVE  \E v : Horner(d, n, top, v)
<1> DEFINE B == [i \in 0 .. n - 1 |-> [t \in Int |-> d[n - 1 - i] + Base * t]]
<1>1. ASSUME NEW i \in 0 .. n - 1 PROVE B[i] \in [Int -> Int]
  <2>1. n - 1 - i \in 0 .. n - 1
    OBVIOUS
  <2>2. QED  BY <2>1, BaseFacts
<1>2. PICK f : Steps(Int, B, top, n, f)
  BY <1>1, StepsExist
<1> HIDE DEF B
<1> DEFINE v == [i \in 0 .. n |-> f[n - i]]
<1>3. v \in [0 .. n -> Int] /\ v[n] = top
  BY <1>2 DEF Steps
<1>4. ASSUME NEW i \in 0 .. n - 1 PROVE v[i] = d[i] + Base * v[i + 1]
  <2>1. n - 1 - i \in 0 .. n - 1 /\ (n - 1 - i) + 1 = n - i /\ n - (i + 1) = n - 1 - i
        /\ n - 1 - (n - 1 - i) = i
    OBVIOUS
  <2>2. ASSUME NEW j \in 0 .. n - 1 PROVE f[j + 1] = d[n - 1 - j] + Base * f[j]
    <3>1. f[j] \in Int /\ f[j + 1] = B[j][f[j]]
      BY <1>2 DEF Steps
    <3>2. B[j] = [t \in Int |-> d[n - 1 - j] + Base * t]
      BY DEF B
    <3>3. QED  BY <3>1, <3>2
  <2>3. f[n - i] = d[i] + Base * f[n - 1 - i]
    BY <2>1, <2>2
  <2>4. QED  BY <2>1, <2>3
<1> HIDE DEF v
<1>5. Horner(d, n, top, v)
  BY <1>3, <1>4 DEF Horner
<1>6. QED  BY <1>5

LEMMA HornerUnique ==
    ASSUME NEW n \in Nat, NEW d, NEW e, NEW top, NEW v, NEW w,
           Horner(d, n, top, v), Horner(e, n, top, w), \A i \in 0 .. n - 1 : d[i] = e[i]
    PROVE  \A i \in 0 .. n : v[i] = w[i]
<1> DEFINE S == {i \in 0 .. n : v[i] = w[i]}
<1>1. n \in S
  BY DEF Horner
<1>2. ASSUME NEW i \in 0 .. n - 1, i + 1 \in S PROVE i \in S
  BY <1>2 DEF Horner
<1> HIDE DEF S
<1>3. \A i \in 0 .. n : i \in S
  BY <1>1, <1>2, DownInduct
<1>4. QED  BY <1>3 DEF S

-----------------------------------------------------------------------------
(* Memory *)

\* The memories with the buffers of m0.
Memory(m0) ==
    {m \in [DOMAIN m0 -> UNION {[DOMAIN m0[b] -> Limb] : b \in DOMAIN m0}] :
        \A b \in DOMAIN m0 : m[b] \in [DOMAIN m0[b] -> Limb]}

IsMemory(m) == m \in Memory(m)

\* There are n limbs at p.
Area(m, p, n) ==
    /\ p.buf \in DOMAIN m /\ p.at \in Nat
    /\ \A i \in 0 .. n - 1 : p.at + i \in DOMAIN m[p.buf]

\* A loop that stores n limbs at r in order stores over none at a that it has not
\* read: they are apart, r is a, or r begins lower.
Follows(r, a, n) == r.buf # a.buf \/ r.at =< a.at \/ a.at + n =< r.at

\* t is m with the limbs x[0], ..., x[n - 1] at r.
Wrote(m, t, r, n, x) ==
    /\ t \in Memory(m)
    /\ \A b \in DOMAIN m : \A k \in DOMAIN m[b] :
          t[b][k] = IF b = r.buf /\ k \in r.at .. r.at + n - 1 THEN x[k - r.at] ELSE m[b][k]

\* m1 is m but for n limbs at r.
OnlyAt(m, m1, r, n) ==
    /\ m1 \in Memory(m)
    /\ \A b \in DOMAIN m : \A k \in DOMAIN m[b] :
          b # r.buf \/ k \notin r.at .. r.at + n - 1 => m1[b][k] = m[b][k]

LEMMA PutMemory ==
    ASSUME NEW m0, NEW m \in Memory(m0), NEW p, NEW i, NEW x \in Limb,
           p.buf \in DOMAIN m0, p.at + i \in DOMAIN m0[p.buf]
    PROVE  /\ Put(m, p, i, x) \in Memory(m0)
           /\ \A b \in DOMAIN m0 : \A k \in DOMAIN m0[b] :
                 Put(m, p, i, x)[b][k] = IF b = p.buf /\ k = p.at + i THEN x ELSE m[b][k]
<1>1. Put(m, p, i, x) = [m EXCEPT ![p.buf][p.at + i] = x]
  BY DEF Put, Memory
<1>2. /\ m \in [DOMAIN m0 -> UNION {[DOMAIN m0[b] -> Limb] : b \in DOMAIN m0}]
      /\ \A b \in DOMAIN m0 : m[b] \in [DOMAIN m0[b] -> Limb]
  BY DEF Memory
<1> DEFINE q == [m[p.buf] EXCEPT ![p.at + i] = x]
<1>3. q \in [DOMAIN m0[p.buf] -> Limb]
      /\ \A k \in DOMAIN m0[p.buf] : q[k] = IF k = p.at + i THEN x ELSE m[p.buf][k]
  BY <1>2
<1>4. Put(m, p, i, x) = [m EXCEPT ![p.buf] = q]
  BY <1>1
<1> HIDE DEF q
<1>5. \A b \in DOMAIN m0 : Put(m, p, i, x)[b] = IF b = p.buf THEN q ELSE m[b]
  BY <1>2, <1>4
<1>6. DOMAIN Put(m, p, i, x) = DOMAIN m0 /\ Put(m, p, i, x) = [b \in DOMAIN m0 |-> Put(m, p, i, x)[b]]
  BY <1>2, <1>4
<1>7. \A b \in DOMAIN m0 : Put(m, p, i, x)[b] \in [DOMAIN m0[b] -> Limb]
  BY <1>2, <1>3, <1>5
<1>8. Put(m, p, i, x) \in Memory(m0)
  BY <1>6, <1>7 DEF Memory
<1>9. QED  BY <1>2, <1>3, <1>5, <1>8

\* A loop that stores x[0], ..., x[n - 1] at r.
LEMMA Stores ==
    ASSUME NEW m0, m0 \in Memory(m0), NEW r, NEW n \in Nat, Area(m0, r, n), r.at \in Nat,
           NEW x, NEW g, g[0] = m0,
           \A i \in 0 .. n - 1 : x[i] \in Limb /\ g[i + 1] = Put(g[i], r, i, x[i])
    PROVE  \A i \in 0 .. n :
              /\ g[i] \in Memory(m0)
              /\ \A b \in DOMAIN m0 : \A k \in DOMAIN m0[b] :
                    g[i][b][k] = IF b = r.buf /\ k \in r.at .. r.at + i - 1
                                 THEN x[k - r.at] ELSE m0[b][k]
<1> DEFINE Good(i) ==
              /\ g[i] \in Memory(m0)
              /\ \A b \in DOMAIN m0 : \A k \in DOMAIN m0[b] :
                    g[i][b][k] = IF b = r.buf /\ k \in r.at .. r.at + i - 1
                                 THEN x[k - r.at] ELSE m0[b][k]
           S == {i \in Nat : i =< n => Good(i)}
<1>1. 0 \in S
  <2>1. \A k : k \notin r.at .. r.at + 0 - 1
    OBVIOUS
  <2>2. QED  BY <2>1
<1>2. ASSUME NEW i \in Nat, i \in S PROVE i + 1 \in S
  <2>1. SUFFICES ASSUME i + 1 =< n PROVE Good(i + 1)
    OBVIOUS
  <2>2. i \in 0 .. n - 1 /\ Good(i)
    BY <1>2, <2>1
  <2>3. r.buf \in DOMAIN m0 /\ r.at + i \in DOMAIN m0[r.buf] /\ x[i] \in Limb
        /\ g[i + 1] = Put(g[i], r, i, x[i])
    BY <2>2 DEF Area
  <2>4. /\ g[i + 1] \in Memory(m0)
        /\ \A b \in DOMAIN m0 : \A k \in DOMAIN m0[b] :
              g[i + 1][b][k] = IF b = r.buf /\ k = r.at + i THEN x[i] ELSE g[i][b][k]
    BY <2>2, <2>3, PutMemory
  <2>5. ASSUME NEW b \in DOMAIN m0, NEW k \in DOMAIN m0[b]
        PROVE  g[i + 1][b][k] = IF b = r.buf /\ k \in r.at .. r.at + (i + 1) - 1
                                THEN x[k - r.at] ELSE m0[b][k]
    <3>1. g[i + 1][b][k] = IF b = r.buf /\ k = r.at + i THEN x[i] ELSE g[i][b][k]
      BY <2>4
    <3>2. g[i][b][k] = IF b = r.buf /\ k \in r.at .. r.at + i - 1 THEN x[k - r.at] ELSE m0[b][k]
      BY <2>2
    <3>3. k = r.at + i => k \in r.at .. r.at + (i + 1) - 1 /\ k - r.at = i
      OBVIOUS
    <3>4. k # r.at + i => (k \in r.at .. r.at + (i + 1) - 1 <=> k \in r.at .. r.at + i - 1)
      OBVIOUS
    <3>5. QED  BY <3>1, <3>2, <3>3, <3>4
  <2>6. QED  BY <2>4, <2>5
<1> HIDE DEF S, Good
<1>3. \A i \in Nat : i \in S
  BY <1>1, <1>2, UpInduct
<1>4. QED  BY <1>3 DEF S, Good

-----------------------------------------------------------------------------
(* Limbs *)

\* Dividing a number below twice the divisor subtracts it at most once.
LEMMA WrapUp ==
    ASSUME NEW k \in Nat \ {0}, NEW a \in 0 .. 2 * k - 1
    PROVE  a % k = IF a < k THEN a ELSE a - k
<1> DEFINE q == a \div k
           r == a % k
<1>1. q \in Int /\ r \in 0 .. k - 1 /\ a = k * q + r
  OBVIOUS
<1> HIDE DEF q, r
<1>2. q >= 2 => k * q >= k * 2
  BY <1>1
<1>3. q =< -1 => k * q =< k * (-1)
  BY <1>1
<1>4. q \in {0, 1}
  BY <1>1, <1>2, <1>3
<1>5. QED  BY <1>1, <1>4 DEF r

\* The same for a number that is negative by less than the divisor.
LEMMA WrapDown ==
    ASSUME NEW k \in Nat \ {0}, NEW a \in -k .. k - 1
    PROVE  a % k = IF a < 0 THEN a + k ELSE a
<1> DEFINE q == a \div k
           r == a % k
<1>1. q \in Int /\ r \in 0 .. k - 1 /\ a = k * q + r
  OBVIOUS
<1> HIDE DEF q, r
<1>2. q >= 1 => k * q >= k * 1
  BY <1>1
<1>3. q =< -2 => k * q =< k * (-2)
  BY <1>1
<1>4. q \in {0, -1}
  BY <1>1, <1>2, <1>3
<1>5. QED  BY <1>1, <1>4 DEF r

\* A quotient and what is left.
LEMMA DivMod ==
    ASSUME NEW k \in Nat \ {0}, NEW n \in Nat
    PROVE  n \div k \in Nat /\ n % k \in 0 .. k - 1 /\ n = k * (n \div k) + (n % k)
<1> DEFINE q == n \div k
           r == n % k
<1>1. q \in Int /\ r \in 0 .. k - 1 /\ n = k * q + r
  OBVIOUS
<1> HIDE DEF q, r
<1>2. q =< -1 => k * q =< k * (-1)
  BY <1>1
<1>3. q \in Nat
  BY <1>1, <1>2
<1>4. n \div k \in Nat
  BY <1>3 DEF q
<1>5. n % k \in 0 .. k - 1
  BY <1>1 DEF r
<1>6. n = k * (n \div k) + (n % k)
  BY <1>1 DEF q, r
<1>7. QED  BY <1>4, <1>5, <1>6

\* Quotient and rest are the only ones.
LEMMA DivIs ==
    ASSUME NEW k \in Nat \ {0}, NEW n \in Nat, NEW q \in Int, NEW r \in 0 .. k - 1, n = k * q + r
    PROVE  n \div k = q /\ n % k = r
<1> DEFINE p == n \div k
           s == n % k
<1>1. p \in Int /\ s \in 0 .. k - 1 /\ n = k * p + s
  <2>1. n \div k \in Nat /\ n % k \in 0 .. k - 1 /\ n = k * (n \div k) + (n % k)
    BY DivMod
  <2>2. QED  BY <2>1
<1> HIDE DEF p, s
<1>2. k * (p - q) = r - s
  BY <1>1
<1>3. p - q >= 1 => k * (p - q) >= k
  BY <1>1
<1>4. p - q =< -1 => k * (p - q) =< -k
  BY <1>1
<1>5. p = q
  BY <1>1, <1>2, <1>3, <1>4
<1>6. s = r
  BY <1>1, <1>5
<1>7. QED  BY <1>5, <1>6 DEF p, s

\* A product of limbs and two more limbs fit in two limbs.
LEMMA RowTerms ==
    ASSUME NEW x \in Limb, NEW y \in Limb, NEW z \in Limb, NEW c \in Limb
    PROVE  LET p == x * y + z + c
           IN  /\ p % Base \in Limb /\ p \div Base \in Limb
               /\ (p % Base) + Base * (p \div Base) = p
<1>1. /\ Base \in Nat \ {0} /\ x \in 0 .. Base - 1 /\ y \in 0 .. Base - 1 /\ z \in 0 .. Base - 1
      /\ c \in 0 .. Base - 1
  BY BaseFacts, LimbNumber DEF Limb
<1> DEFINE p == x * y + z + c
           q == p \div Base
           e == p % Base
           b == Base
<1>2. x * y =< (Base - 1) * (Base - 1) /\ x * y \in Nat
  <2>1. x * y =< x * (Base - 1)
    <3>1. x * ((Base - 1) - y) >= 0
      <4> DEFINE d == (Base - 1) - y
      <4>1. d \in Nat /\ x \in Nat
        BY <1>1
      <4> HIDE DEF d
      <4>2. x * d >= 0
        BY <4>1
      <4>3. QED  BY <4>2 DEF d
    <3>2. QED  BY <1>1, <3>1
  <2>2. x * (Base - 1) =< (Base - 1) * (Base - 1)
    <3>1. ((Base - 1) - x) * (Base - 1) >= 0
      <4> DEFINE d == (Base - 1) - x
                 f == Base - 1
      <4>1. d \in Nat /\ f \in Nat
        BY <1>1
      <4> HIDE DEF d, f
      <4>2. d * f >= 0
        BY <4>1
      <4>3. QED  BY <4>2 DEF d, f
    <3>2. QED  BY <1>1, <3>1
  <2>3. QED  BY <1>1, <2>1, <2>2
<1>3. p \in Nat /\ p < Base * Base
  <2> DEFINE w == x * y
             s == Base * Base
  <2>1. (Base - 1) * (Base - 1) = Base * Base - 2 * Base + 1
    BY <1>1
  <2>2. w \in Nat /\ w =< s - 2 * Base + 1 /\ s \in Nat
    BY <1>1, <1>2, <2>1
  <2> HIDE DEF w, s
  <2>3. w + z + c \in Nat /\ w + z + c < s
    BY <1>1, <2>2
  <2>4. QED  BY <2>3 DEF w, s
<1> HIDE DEF p
<1>4. q \in Nat /\ e \in 0 .. Base - 1 /\ p = Base * q + e
  BY <1>1, <1>3, DivMod
<1> HIDE DEF q, e, b
<1>5. q < Base
  <2>1. SUFFICES ASSUME q >= Base PROVE FALSE
    BY <1>1, <1>4
  <2>2. Base * q >= Base * Base
    <3>1. Base * (q - Base) >= 0
      <4> DEFINE d == q - Base
      <4>1. d \in Nat /\ Base \in Nat
        BY <1>1, <1>4, <2>1
      <4> HIDE DEF d
      <4>2. Base * d >= 0
        BY <4>1
      <4>3. QED  BY <4>2 DEF d
    <3>2. QED  BY <1>1, <1>4, <3>1
  <2> DEFINE u == Base * q
             s == Base * Base
  <2>3. u >= s /\ p = u + e /\ p < s /\ u \in Int /\ s \in Int /\ e \in Nat
    BY <1>1, <1>3, <1>4, <2>2
  <2> HIDE DEF u, s
  <2>4. QED  BY <1>3, <2>3
<1>6. QED  BY <1>1, <1>4, <1>5 DEF p, q, e, Limb

\* The carry that the kernels find by comparing a limb of the sum with one of the
\* operand is the one that makes the sum right.
LEMMA LimbSum ==
    ASSUME NEW x \in Limb, NEW y \in Limb, NEW c \in {0, 1}
    PROVE  LET sum == (x + y + c) % Base
           IN  /\ sum \in Limb /\ SumCarry(x, sum, c) \in {0, 1}
               /\ sum + Base * SumCarry(x, sum, c) = x + y + c
<1>1. x \in 0 .. Base - 1 /\ y \in 0 .. Base - 1 /\ Base \in Nat \ {0}
  BY BaseFacts DEF Limb
<1>2. (x + y + c) % Base = IF x + y + c < Base THEN x + y + c ELSE x + y + c - Base
  <2> DEFINE z == x + y + c
  <2>1. z \in 0 .. 2 * Base - 1
    BY <1>1
  <2> HIDE DEF z
  <2>2. z % Base = IF z < Base THEN z ELSE z - Base
    BY <1>1, <2>1, WrapUp
  <2>3. QED  BY <1>1, <2>1, <2>2 DEF z
<1> DEFINE sum == (x + y + c) % Base
<1>3. SumCarry(x, sum, c) = IF x + y + c < Base THEN 0 ELSE 1
  BY <1>1, <1>2 DEF SumCarry, Bit
<1>4. QED  BY <1>1, <1>2, <1>3 DEF Limb

LEMMA LimbDiff ==
    ASSUME NEW x \in Limb, NEW y \in Limb, NEW c \in {0, 1}
    PROVE  LET diff == (x - y - c) % Base
           IN  /\ diff \in Limb /\ DiffBorrow(x, diff, c) \in {0, 1}
               /\ diff - Base * DiffBorrow(x, diff, c) = x - y - c
<1>1. x \in 0 .. Base - 1 /\ y \in 0 .. Base - 1 /\ Base \in Nat \ {0}
  BY BaseFacts DEF Limb
<1>2. (x - y - c) % Base = IF x - y - c < 0 THEN x - y - c + Base ELSE x - y - c
  <2>1. x - y - c \in -Base .. Base - 1
    BY <1>1
  <2>2. QED  BY <1>1, <2>1, WrapDown
<1> DEFINE diff == (x - y - c) % Base
<1>3. DiffBorrow(x, diff, c) = IF x - y - c < 0 THEN 1 ELSE 0
  BY <1>1, <1>2 DEF DiffBorrow, Bit
<1>4. QED  BY <1>1, <1>2, <1>3 DEF Limb

-----------------------------------------------------------------------------
(* Loops that store and carry *)

\* The limbs of an operand.
LEMMA GetLimb ==
    ASSUME NEW m0, NEW m \in Memory(m0), NEW p, NEW n \in Nat, Area(m0, p, n)
    PROVE  \A i \in 0 .. n - 1 : Get(m, p, i) \in Limb
  BY DEF Memory, Area, Get

\* The limbs of n packets at p.
LimbsAt(m, p, n) == [i \in 0 .. n - 1 |-> Get(m, p, i)]

\* What packets stand for is the number of their limbs.
LEMMA ValueOfLimbs ==
    ASSUME NEW m, NEW p, NEW n \in Nat, NEW N \in Nat, N = n * PacketLimbs, NEW v,
           Horner(LimbsAt(m, p, N), N, 0, v)
    PROVE  Value(m, p, n) = v[0]
<1> DEFINE Eq(g) == g = [i \in 0 .. n * PacketLimbs |->
                            IF i = n * PacketLimbs THEN 0 ELSE Get(m, p, i) + Base * g[i + 1]]
           V == CHOOSE g : Eq(g)
<1>1. Value(m, p, n) = V[0]
  BY DEF Value
<1>2. Eq(v)
  <2>1. v \in [0 .. N -> Int] /\ v[N] = 0
    BY DEF Horner
  <2>2. ASSUME NEW i \in 0 .. N, i # N PROVE v[i] = Get(m, p, i) + Base * v[i + 1]
    <3>1. i \in 0 .. N - 1
      BY <2>2
    <3>2. QED  BY <3>1 DEF Horner, LimbsAt
  <2>3. v = [i \in 0 .. N |-> IF i = N THEN 0 ELSE Get(m, p, i) + Base * v[i + 1]]
    BY <2>1, <2>2
  <2>4. QED  BY <2>3
<1>3. Eq(V)
  BY <1>2
<1> HIDE DEF V
<1>4. V[N] = 0 /\ \A i \in 0 .. N - 1 : V[i] = Get(m, p, i) + Base * V[i + 1]
  BY <1>3
<1> DEFINE S == {i \in 0 .. N : V[i] = v[i]}
<1>5. N \in S
  BY <1>4 DEF Horner
<1>6. ASSUME NEW i \in 0 .. N - 1, i + 1 \in S PROVE i \in S
  BY <1>4, <1>6 DEF Horner, LimbsAt
<1> HIDE DEF S
<1>7. 0 \in S
  BY <1>5, <1>6, DownInduct
<1>8. QED  BY <1>1, <1>7 DEF S

\* A loop whose turn i stores S[i][c] at limb i of r and goes on with the carry
\* D[i][c], when the carry was c.
CarryTurns(n, C, S, D) == \A i \in 0 .. n - 1 : \A k \in C : S[i][k] \in Limb /\ D[i][k] \in C

\* Its carries c, the limbs x it stores, and its memories g.
CarryTrace(m, r, n, C, S, D, k, c, x, g) ==
    /\ c \in [0 .. n -> C] /\ c[0] = k /\ g[0] = m
    /\ \A i \in 0 .. n - 1 :
          /\ x[i] = S[i][c[i]] /\ x[i] \in Limb
          /\ c[i + 1] = D[i][c[i]]
          /\ g[i + 1] = Put(g[i], r, i, x[i])
    /\ \A i \in 0 .. n : Wrote(m, g[i], r, i, x)

LEMMA CarryLoop ==
    ASSUME NEW m, IsMemory(m), NEW r, NEW n \in Nat, Area(m, r, n), NEW C, NEW c0 \in C,
           NEW S, NEW D, CarryTurns(n, C, S, D)
    PROVE  \E c, x, g : CarryTrace(m, r, n, C, S, D, c0, c, x, g)
<1>0. \A i \in 0 .. n - 1 : \A k \in C : S[i][k] \in Limb /\ D[i][k] \in C
  BY DEF CarryTurns
<1> DEFINE B == [i \in 0 .. n - 1 |-> [k \in C |-> D[i][k]]]
<1>1. \A i \in 0 .. n - 1 : B[i] \in [C -> C]
  BY <1>0
<1>2. PICK c : Steps(C, B, c0, n, c)
  BY <1>1, StepsExist
<1>3. /\ c \in [0 .. n -> C] /\ c[0] = c0
      /\ \A i \in 0 .. n - 1 : c[i + 1] = D[i][c[i]] /\ S[i][c[i]] \in Limb
  <2>1. c \in [0 .. n -> C] /\ c[0] = c0 /\ \A i \in 0 .. n - 1 : c[i + 1] = B[i][c[i]]
    BY <1>2 DEF Steps
  <2>2. ASSUME NEW i \in 0 .. n - 1 PROVE c[i + 1] = D[i][c[i]] /\ S[i][c[i]] \in Limb
    <3>1. c[i] \in C
      BY <2>1
    <3>2. QED  BY <1>0, <2>1, <3>1
  <2>3. QED  BY <2>1, <2>2
<1> HIDE DEF B
<1> DEFINE x == [i \in 0 .. n - 1 |-> S[i][c[i]]]
           P == [i \in 0 .. n - 1 |-> [t \in Memory(m) |-> Put(t, r, i, x[i])]]
<1>4. \A i \in 0 .. n - 1 : x[i] \in Limb /\ x[i] = S[i][c[i]]
  BY <1>3
<1> HIDE DEF x
<1>5. ASSUME NEW i \in 0 .. n - 1 PROVE P[i] \in [Memory(m) -> Memory(m)]
  <2>1. r.buf \in DOMAIN m /\ r.at + i \in DOMAIN m[r.buf]
    BY DEF Area
  <2>2. QED  BY <1>4, <2>1, PutMemory
<1>6. PICK g : Steps(Memory(m), P, m, n, g)
  BY <1>5, StepsExist DEF IsMemory
<1>7. g[0] = m /\ \A i \in 0 .. n - 1 : g[i + 1] = Put(g[i], r, i, x[i])
  <2>1. g[0] = m /\ \A i \in 0 .. n - 1 : g[i] \in Memory(m) /\ g[i + 1] = P[i][g[i]]
    BY <1>6 DEF Steps
  <2>2. QED  BY <2>1
<1> HIDE DEF P
<1>8. \A i \in 0 .. n :
         /\ g[i] \in Memory(m)
         /\ \A b \in DOMAIN m : \A k \in DOMAIN m[b] :
               g[i][b][k] = IF b = r.buf /\ k \in r.at .. r.at + i - 1
                            THEN x[k - r.at] ELSE m[b][k]
  <2>1. m \in Memory(m) /\ r.at \in Nat
    BY DEF IsMemory, Area
  <2>2. \A i \in 0 .. n - 1 : x[i] \in Limb /\ g[i + 1] = Put(g[i], r, i, x[i])
    BY <1>4, <1>7
  <2>3. QED  BY <1>7, <2>1, <2>2, Stores
<1>9. \A i \in 0 .. n : Wrote(m, g[i], r, i, x)
  BY <1>8 DEF Wrote
<1>10. \A i \in 0 .. n - 1 :
          /\ x[i] = S[i][c[i]] /\ x[i] \in Limb
          /\ c[i + 1] = D[i][c[i]]
          /\ g[i + 1] = Put(g[i], r, i, x[i])
  BY <1>3, <1>4, <1>7
<1>11. CarryTrace(m, r, n, C, S, D, c0, c, x, g)
  BY <1>3, <1>7, <1>9, <1>10 DEF CarryTrace
<1>12. QED  BY <1>11

\* Turn i of such a loop reads from an operand what was there before the loop.
LEMMA Unread ==
    ASSUME NEW m, NEW r, r.at \in Nat, NEW a, NEW n \in Nat, Area(m, a, n), Follows(r, a, n),
           NEW i \in 0 .. n - 1, NEW t, NEW x, Wrote(m, t, r, i, x)
    PROVE  Get(t, a, i) = Get(m, a, i)
<1>1. a.buf \in DOMAIN m /\ a.at + i \in DOMAIN m[a.buf] /\ a.at \in Nat
  BY DEF Area
<1>2. a.buf = r.buf => a.at + i \notin r.at .. r.at + i - 1
  BY <1>1 DEF Follows
<1>3. QED  BY <1>1, <1>2 DEF Get, Wrote

\* s is m with sums of limbs of a and b at r, and the last carry.
SumsAt(m, s, r, N, a, b, bn) ==
    \E c, x :
       /\ c \in [0 .. N -> {0, 1}] /\ c[0] = 0
       /\ \A i \in 0 .. N - 1 :
             /\ x[i] \in Limb
             /\ x[i] + Base * c[i + 1] = Get(m, a, i) + Operand(m, b, bn, i) + c[i]
       /\ Wrote(m, s.m, r, N, x)
       /\ s.c = c[N]

\* hebi_padd stores limbs that, with a carry, are the sum limb by limb.
LEMMA PaddLoop ==
    ASSUME NEW m, IsMemory(m), NEW r, NEW a, NEW b, NEW an \in Nat, NEW bn \in Nat,
           NEW N \in Nat, N = an * PacketLimbs, NEW M \in Nat, M = bn * PacketLimbs, M =< N,
           Area(m, r, N), Area(m, a, N), Area(m, b, M), Follows(r, a, N), Follows(r, b, M)
    PROVE  SumsAt(m, padd(m, r, a, b, an, bn), r, N, a, b, bn)
<1> DEFINE A(i) == Get(m, a, i)
           O(i) == Operand(m, b, bn, i)
           Sm(i, k) == (A(i) + O(i) + k) % Base
           S == [i \in 0 .. N - 1 |-> [k \in {0, 1} |-> Sm(i, k)]]
           D == [i \in 0 .. N - 1 |-> [k \in {0, 1} |-> SumCarry(A(i), Sm(i, k), k)]]
<1>1. \A i \in 0 .. N - 1 : A(i) \in Limb /\ O(i) \in Limb
  <2>1. m \in Memory(m)
    BY DEF IsMemory
  <2>2. QED  BY <2>1, GetLimb, BaseFacts DEF Operand
<1>2. \A i \in 0 .. N - 1 : \A k \in {0, 1} :
         /\ Sm(i, k) \in Limb /\ SumCarry(A(i), Sm(i, k), k) \in {0, 1}
         /\ Sm(i, k) + Base * SumCarry(A(i), Sm(i, k), k) = A(i) + O(i) + k
  BY <1>1, LimbSum
<1>3. \A i \in 0 .. N - 1 : \A k \in {0, 1} :
         S[i][k] = Sm(i, k) /\ D[i][k] = SumCarry(A(i), Sm(i, k), k)
  OBVIOUS
<1> HIDE DEF A, O, Sm, S, D
<1>4. PICK c, x, g : CarryTrace(m, r, N, {0, 1}, S, D, 0, c, x, g)
  <2>1. CarryTurns(N, {0, 1}, S, D)
    BY <1>2, <1>3 DEF CarryTurns
  <2>2. 0 \in {0, 1}
    OBVIOUS
  <2>3. QED  BY <2>1, <2>2, CarryLoop
<1> USE DEF CarryTrace
<1> DEFINE Turn(t, i) ==
              LET v   == Get(t.m, a, i)
                  sum == (v + Operand(t.m, b, bn, i) + t.c) % Base
              IN  [m |-> Put(t.m, r, i, sum), c |-> SumCarry(v, sum, t.c)]
           s0 == [m |-> m, c |-> 0]
           Q(h, i) == Given(h[i - 1], LAMBDA t : Turn(t, i - 1))
           Eq(h) == h = [i \in 0 .. N |-> IF i = 0 THEN s0 ELSE Q(h, i)]
           F == CHOOSE h : Eq(h)
           f == [i \in 0 .. N |-> [m |-> g[i], c |-> c[i]]]
<1>5. padd(m, r, a, b, an, bn) = F[N]
  BY DEF padd, Loop, Given, s0
<1>6. \A h, i : Q(h, i) = Turn(h[i - 1], i - 1)
  BY DEF Given
<1>7. f[0] = s0 /\ f[N] = [m |-> g[N], c |-> c[N]]
  BY <1>4
<1>8. ASSUME NEW i \in 0 .. N - 1 PROVE f[i + 1] = Turn(f[i], i)
  <2>0. r.at \in Nat
    BY DEF Area
  <2>1. c[i] \in {0, 1} /\ i \in 0 .. N /\ i + 1 \in 0 .. N /\ r.at \in Nat
    BY <1>4, <2>0
  <2>2. Get(g[i], a, i) = A(i)
    BY <1>4, <2>1, Unread DEF A
  <2>3. Operand(g[i], b, bn, i) = O(i)
    <3>1. i \in 0 .. M - 1 => Get(g[i], b, i) = Get(m, b, i)
      BY <1>4, <2>1, Unread
    <3>2. QED  BY <3>1 DEF O, Operand
  <2>4. g[i + 1] = Put(g[i], r, i, Sm(i, c[i])) /\ c[i + 1] = SumCarry(A(i), Sm(i, c[i]), c[i])
    <3>1. S[i][c[i]] = Sm(i, c[i]) /\ D[i][c[i]] = SumCarry(A(i), Sm(i, c[i]), c[i])
      BY <1>3, <2>1
    <3>2. g[i + 1] = Put(g[i], r, i, S[i][c[i]]) /\ c[i + 1] = D[i][c[i]]
      BY <1>4
    <3>3. QED  BY <3>1, <3>2
  <2>5. f[i].m = g[i] /\ f[i].c = c[i] /\ f[i + 1] = [m |-> g[i + 1], c |-> c[i + 1]]
    BY <2>1
  <2>6. QED  BY <2>2, <2>3, <2>4, <2>5 DEF Sm
<1> HIDE DEF Turn, f, Q
<1>9. Eq(F)
  <2>1. ASSUME NEW i \in 0 .. N, i # 0 PROVE f[i] = Q(f, i)
    <3>1. i - 1 \in 0 .. N - 1 /\ i - 1 + 1 = i
      BY <2>1
    <3>2. QED  BY <1>6, <1>8, <3>1
  <2>2. f = [i \in 0 .. N |-> f[i]]
    BY DEF f
  <2>3. Eq(f)
    BY <1>7, <2>1, <2>2
  <2>4. QED  BY <2>3
<1> HIDE DEF F
<1>10. F[N] = f[N]
  <2>1. F[0] = f[0]
    BY <1>7, <1>9
  <2>2. ASSUME NEW i \in 0 .. N - 1, F[i] = f[i] PROVE F[i + 1] = f[i + 1]
    <3>1. i + 1 \in 0 .. N /\ i + 1 # 0 /\ i + 1 - 1 = i
      OBVIOUS
    <3>2. F[i + 1] = Turn(F[i], i)
      BY <1>6, <1>9, <3>1
    <3>3. QED  BY <1>8, <2>2, <3>2
  <2>3. QED  BY <2>1, <2>2, SameEnd
<1>11. \A i \in 0 .. N - 1 : x[i] + Base * c[i + 1] = A(i) + O(i) + c[i]
  BY <1>2, <1>3, <1>4
<1>12. padd(m, r, a, b, an, bn) = [m |-> g[N], c |-> c[N]]
  BY <1>5, <1>7, <1>10
<1>13. Wrote(m, padd(m, r, a, b, an, bn).m, r, N, x) /\ padd(m, r, a, b, an, bn).c = c[N]
  BY <1>4, <1>12
<1>14. /\ c \in [0 .. N -> {0, 1}] /\ c[0] = 0
       /\ \A i \in 0 .. N - 1 : x[i] \in Limb
  BY <1>4
<1> HIDE DEF CarryTrace
<1>15. QED  BY <1>11, <1>13, <1>14 DEF A, O, SumsAt

LEMMA LimbSumWord ==
    ASSUME NEW x \in Limb, NEW c \in Limb
    PROVE  LET sum == (x + c) % Base
           IN  /\ sum \in Limb /\ Bit(sum < x) \in {0, 1}
               /\ sum + Base * Bit(sum < x) = x + c
<1>1. x \in 0 .. Base - 1 /\ c \in 0 .. Base - 1 /\ Base \in Nat \ {0}
  BY BaseFacts DEF Limb
<1>2. (x + c) % Base = IF x + c < Base THEN x + c ELSE x + c - Base
  <2> DEFINE z == x + c
  <2>1. z \in 0 .. 2 * Base - 1
    BY <1>1
  <2> HIDE DEF z
  <2>2. z % Base = IF z < Base THEN z ELSE z - Base
    BY <1>1, <2>1, WrapUp
  <2>3. QED  BY <1>1, <2>1, <2>2 DEF z
<1> DEFINE sum == (x + c) % Base
<1>3. Bit(sum < x) = IF x + c < Base THEN 0 ELSE 1
  BY <1>1, <1>2 DEF Bit
<1>4. QED  BY <1>1, <1>2, <1>3 DEF Limb

LEMMA LimbDiffWord ==
    ASSUME NEW x \in Limb, NEW c \in Limb
    PROVE  LET diff == (x - c) % Base
           IN  /\ diff \in Limb /\ Bit(diff > x) \in {0, 1}
               /\ diff - Base * Bit(diff > x) = x - c
<1>1. x \in 0 .. Base - 1 /\ c \in 0 .. Base - 1 /\ Base \in Nat \ {0}
  BY BaseFacts DEF Limb
<1>2. (x - c) % Base = IF x - c < 0 THEN x - c + Base ELSE x - c
  <2>1. x - c \in -Base .. Base - 1
    BY <1>1
  <2>2. QED  BY <1>1, <2>1, WrapDown
<1> DEFINE diff == (x - c) % Base
<1>3. Bit(diff > x) = IF x - c < 0 THEN 1 ELSE 0
  BY <1>1, <1>2 DEF Bit
<1>4. QED  BY <1>1, <1>2, <1>3 DEF Limb

\* s is m with differences of limbs of a and b at r, and the last borrow.
DiffsAt(m, s, r, N, a, b, bn) ==
    \E c, x :
       /\ c \in [0 .. N -> {0, 1}] /\ c[0] = 0
       /\ \A i \in 0 .. N - 1 :
             /\ x[i] \in Limb
             /\ x[i] - Base * c[i + 1] = Get(m, a, i) - Operand(m, b, bn, i) - c[i]
       /\ Wrote(m, s.m, r, N, x)
       /\ s.c = c[N]

\* hebi_psub stores limbs that, with a borrow, are the difference limb by limb.
LEMMA PsubLoop ==
    ASSUME NEW m, IsMemory(m), NEW r, NEW a, NEW b, NEW an \in Nat, NEW bn \in Nat,
           NEW N \in Nat, N = an * PacketLimbs, NEW M \in Nat, M = bn * PacketLimbs, M =< N,
           Area(m, r, N), Area(m, a, N), Area(m, b, M), Follows(r, a, N), Follows(r, b, M)
    PROVE  DiffsAt(m, psub(m, r, a, b, an, bn), r, N, a, b, bn)
<1> DEFINE A(i) == Get(m, a, i)
           O(i) == Operand(m, b, bn, i)
           Df(i, k) == (A(i) - O(i) - k) % Base
           S == [i \in 0 .. N - 1 |-> [k \in {0, 1} |-> Df(i, k)]]
           D == [i \in 0 .. N - 1 |-> [k \in {0, 1} |-> DiffBorrow(A(i), Df(i, k), k)]]
<1>1. \A i \in 0 .. N - 1 : A(i) \in Limb /\ O(i) \in Limb
  <2>1. m \in Memory(m)
    BY DEF IsMemory
  <2>2. QED  BY <2>1, GetLimb, BaseFacts DEF Operand
<1>2. \A i \in 0 .. N - 1 : \A k \in {0, 1} :
         /\ Df(i, k) \in Limb /\ DiffBorrow(A(i), Df(i, k), k) \in {0, 1}
         /\ Df(i, k) - Base * DiffBorrow(A(i), Df(i, k), k) = A(i) - O(i) - k
  BY <1>1, LimbDiff
<1>3. \A i \in 0 .. N - 1 : \A k \in {0, 1} :
         S[i][k] = Df(i, k) /\ D[i][k] = DiffBorrow(A(i), Df(i, k), k)
  OBVIOUS
<1> HIDE DEF A, O, Df, S, D
<1>4. PICK c, x, g : CarryTrace(m, r, N, {0, 1}, S, D, 0, c, x, g)
  <2>1. CarryTurns(N, {0, 1}, S, D)
    BY <1>2, <1>3 DEF CarryTurns
  <2>2. 0 \in {0, 1}
    OBVIOUS
  <2>3. QED  BY <2>1, <2>2, CarryLoop
<1> USE DEF CarryTrace
<1> DEFINE Turn(t, i) ==
              LET v    == Get(t.m, a, i)
                  diff == (v - Operand(t.m, b, bn, i) - t.c) % Base
              IN  [m |-> Put(t.m, r, i, diff), c |-> DiffBorrow(v, diff, t.c)]
           s0 == [m |-> m, c |-> 0]
           Q(h, i) == Given(h[i - 1], LAMBDA t : Turn(t, i - 1))
           Eq(h) == h = [i \in 0 .. N |-> IF i = 0 THEN s0 ELSE Q(h, i)]
           F == CHOOSE h : Eq(h)
           f == [i \in 0 .. N |-> [m |-> g[i], c |-> c[i]]]
<1>5. psub(m, r, a, b, an, bn) = F[N]
  BY DEF psub, Loop, Given, s0
<1>6. \A h, i : Q(h, i) = Turn(h[i - 1], i - 1)
  BY DEF Given
<1>7. f[0] = s0 /\ f[N] = [m |-> g[N], c |-> c[N]]
  BY <1>4
<1>8. ASSUME NEW i \in 0 .. N - 1 PROVE f[i + 1] = Turn(f[i], i)
  <2>0. r.at \in Nat
    BY DEF Area
  <2>1. c[i] \in {0, 1} /\ i \in 0 .. N /\ i + 1 \in 0 .. N /\ r.at \in Nat
    BY <1>4, <2>0
  <2>2. Get(g[i], a, i) = A(i)
    BY <1>4, <2>1, Unread DEF A
  <2>3. Operand(g[i], b, bn, i) = O(i)
    <3>1. i \in 0 .. M - 1 => Get(g[i], b, i) = Get(m, b, i)
      BY <1>4, <2>1, Unread
    <3>2. QED  BY <3>1 DEF O, Operand
  <2>4. g[i + 1] = Put(g[i], r, i, Df(i, c[i])) /\ c[i + 1] = DiffBorrow(A(i), Df(i, c[i]), c[i])
    <3>1. S[i][c[i]] = Df(i, c[i]) /\ D[i][c[i]] = DiffBorrow(A(i), Df(i, c[i]), c[i])
      BY <1>3, <2>1
    <3>2. g[i + 1] = Put(g[i], r, i, S[i][c[i]]) /\ c[i + 1] = D[i][c[i]]
      BY <1>4
    <3>3. QED  BY <3>1, <3>2
  <2>5. f[i].m = g[i] /\ f[i].c = c[i] /\ f[i + 1] = [m |-> g[i + 1], c |-> c[i + 1]]
    BY <2>1
  <2>6. QED  BY <2>2, <2>3, <2>4, <2>5 DEF Df
<1> HIDE DEF Turn, f, Q
<1>9. Eq(F)
  <2>1. ASSUME NEW i \in 0 .. N, i # 0 PROVE f[i] = Q(f, i)
    <3>1. i - 1 \in 0 .. N - 1 /\ i - 1 + 1 = i
      BY <2>1
    <3>2. QED  BY <1>6, <1>8, <3>1
  <2>2. f = [i \in 0 .. N |-> f[i]]
    BY DEF f
  <2>3. Eq(f)
    BY <1>7, <2>1, <2>2
  <2>4. QED  BY <2>3
<1> HIDE DEF F
<1>10. F[N] = f[N]
  <2>1. F[0] = f[0]
    BY <1>7, <1>9
  <2>2. ASSUME NEW i \in 0 .. N - 1, F[i] = f[i] PROVE F[i + 1] = f[i + 1]
    <3>1. i + 1 \in 0 .. N /\ i + 1 # 0 /\ i + 1 - 1 = i
      OBVIOUS
    <3>2. F[i + 1] = Turn(F[i], i)
      BY <1>6, <1>9, <3>1
    <3>3. QED  BY <1>8, <2>2, <3>2
  <2>3. QED  BY <2>1, <2>2, SameEnd
<1>11. \A i \in 0 .. N - 1 : x[i] - Base * c[i + 1] = A(i) - O(i) - c[i]
  BY <1>2, <1>3, <1>4
<1>12. psub(m, r, a, b, an, bn) = [m |-> g[N], c |-> c[N]]
  BY <1>5, <1>7, <1>10
<1>13. Wrote(m, psub(m, r, a, b, an, bn).m, r, N, x) /\ psub(m, r, a, b, an, bn).c = c[N]
  BY <1>4, <1>12
<1>14. /\ c \in [0 .. N -> {0, 1}] /\ c[0] = 0
       /\ \A i \in 0 .. N - 1 : x[i] \in Limb
  BY <1>4
<1> HIDE DEF CarryTrace
<1>15. QED  BY <1>11, <1>13, <1>14 DEF A, O, DiffsAt

\* s is m with the limbs of a at r that the carry w has run through.
WordSumsAt(m, s, r, N, a, w) ==
    \E c, x :
       /\ c \in [0 .. N -> Limb] /\ c[0] = w
       /\ \A i \in 0 .. N - 1 :
             /\ x[i] \in Limb /\ c[i + 1] \in {0, 1}
             /\ x[i] + Base * c[i + 1] = Get(m, a, i) + c[i]
       /\ Wrote(m, s.m, r, N, x)
       /\ s.c = c[N]

\* hebi_paddu: the word is the first carry.
LEMMA PadduLoop ==
    ASSUME NEW m, IsMemory(m), NEW r, NEW a, NEW n \in Nat, NEW w \in Limb,
           NEW N \in Nat, N = n * PacketLimbs, Area(m, r, N), Area(m, a, N), Follows(r, a, N)
    PROVE  WordSumsAt(m, paddu(m, r, a, w, n), r, N, a, w)
<1> DEFINE A(i) == Get(m, a, i)
           Sm(i, k) == (A(i) + k) % Base
           S == [i \in 0 .. N - 1 |-> [k \in Limb |-> Sm(i, k)]]
           D == [i \in 0 .. N - 1 |-> [k \in Limb |-> Bit(Sm(i, k) < A(i))]]
<1>1. \A i \in 0 .. N - 1 : A(i) \in Limb
  <2>1. m \in Memory(m)
    BY DEF IsMemory
  <2>2. QED  BY <2>1, GetLimb
<1>2. \A i \in 0 .. N - 1 : \A k \in Limb :
         /\ Sm(i, k) \in Limb /\ Bit(Sm(i, k) < A(i)) \in Limb /\ Bit(Sm(i, k) < A(i)) \in {0, 1}
         /\ Sm(i, k) + Base * Bit(Sm(i, k) < A(i)) = A(i) + k
  BY <1>1, LimbSumWord, BaseFacts
<1>3. \A i \in 0 .. N - 1 : \A k \in Limb : S[i][k] = Sm(i, k) /\ D[i][k] = Bit(Sm(i, k) < A(i))
  OBVIOUS
<1> HIDE DEF A, Sm, S, D
<1>4. PICK c, x, g : CarryTrace(m, r, N, Limb, S, D, w, c, x, g)
  <2>1. CarryTurns(N, Limb, S, D)
    BY <1>2, <1>3 DEF CarryTurns
  <2>2. w \in Limb
    BY BaseFacts
  <2>3. QED  BY <2>1, <2>2, CarryLoop
<1> USE DEF CarryTrace
<1> DEFINE Turn(t, i) ==
              LET v == Get(t.m, a, i)
                  y == (v + t.c) % Base
              IN  [m |-> Put(t.m, r, i, y), c |-> Bit(y < v)]
           s0 == [m |-> m, c |-> w]
           Q(h, i) == Given(h[i - 1], LAMBDA t : Turn(t, i - 1))
           Eq(h) == h = [i \in 0 .. N |-> IF i = 0 THEN s0 ELSE Q(h, i)]
           F == CHOOSE h : Eq(h)
           f == [i \in 0 .. N |-> [m |-> g[i], c |-> c[i]]]
<1>5. paddu(m, r, a, w, n) = F[N]
  BY DEF paddu, Loop, Given, s0
<1>6. \A h, i : Q(h, i) = Turn(h[i - 1], i - 1)
  BY DEF Given
<1>7. f[0] = s0 /\ f[N] = [m |-> g[N], c |-> c[N]]
  BY <1>4
<1>8. ASSUME NEW i \in 0 .. N - 1 PROVE f[i + 1] = Turn(f[i], i)
  <2>0. r.at \in Nat
    BY DEF Area
  <2>1. c[i] \in Limb /\ i \in 0 .. N /\ i + 1 \in 0 .. N /\ r.at \in Nat
    BY <1>4, <2>0
  <2>2. Get(g[i], a, i) = A(i)
    BY <1>4, <2>1, Unread DEF A
  <2>4. g[i + 1] = Put(g[i], r, i, Sm(i, c[i])) /\ c[i + 1] = Bit(Sm(i, c[i]) < A(i))
    <3>1. g[i + 1] = Put(g[i], r, i, S[i][c[i]]) /\ c[i + 1] = D[i][c[i]]
      BY <1>4
    <3>2. QED  BY <1>3, <2>1, <3>1
  <2>5. f[i].m = g[i] /\ f[i].c = c[i] /\ f[i + 1] = [m |-> g[i + 1], c |-> c[i + 1]]
    BY <2>1
  <2>6. QED  BY <2>2, <2>4, <2>5 DEF Sm
<1> HIDE DEF Turn, f, Q
<1>9. Eq(F)
  <2>1. ASSUME NEW i \in 0 .. N, i # 0 PROVE f[i] = Q(f, i)
    <3>1. i - 1 \in 0 .. N - 1 /\ i - 1 + 1 = i
      BY <2>1
    <3>2. QED  BY <1>6, <1>8, <3>1
  <2>2. f = [i \in 0 .. N |-> f[i]]
    BY DEF f
  <2>3. Eq(f)
    BY <1>7, <2>1, <2>2
  <2>4. QED  BY <2>3
<1> HIDE DEF F
<1>10. F[N] = f[N]
  <2>1. F[0] = f[0]
    BY <1>7, <1>9
  <2>2. ASSUME NEW i \in 0 .. N - 1, F[i] = f[i] PROVE F[i + 1] = f[i + 1]
    <3>1. i + 1 \in 0 .. N /\ i + 1 # 0 /\ i + 1 - 1 = i
      OBVIOUS
    <3>2. F[i + 1] = Turn(F[i], i)
      BY <1>6, <1>9, <3>1
    <3>3. QED  BY <1>8, <2>2, <3>2
  <2>3. QED  BY <2>1, <2>2, SameEnd
<1>11. ASSUME NEW i \in 0 .. N - 1
       PROVE  c[i + 1] \in {0, 1} /\ x[i] + Base * c[i + 1] = A(i) + c[i]
  <2>1. c[i] \in Limb /\ x[i] = S[i][c[i]] /\ c[i + 1] = D[i][c[i]]
    BY <1>4
  <2>2. x[i] = Sm(i, c[i]) /\ c[i + 1] = Bit(Sm(i, c[i]) < A(i))
    BY <1>3, <2>1
  <2>3. QED  BY <1>2, <2>1, <2>2
<1>12. paddu(m, r, a, w, n) = [m |-> g[N], c |-> c[N]]
  BY <1>5, <1>7, <1>10
<1>13. Wrote(m, paddu(m, r, a, w, n).m, r, N, x) /\ paddu(m, r, a, w, n).c = c[N]
  BY <1>4, <1>12
<1>14. c \in [0 .. N -> Limb] /\ c[0] = w /\ \A i \in 0 .. N - 1 : x[i] \in Limb
  BY <1>4
<1> HIDE DEF CarryTrace
<1>15. QED  BY <1>11, <1>13, <1>14 DEF A, WordSumsAt

\* s is m with the limbs of a at r that the borrow w has run through.
WordDiffsAt(m, s, r, N, a, w) ==
    \E c, x :
       /\ c \in [0 .. N -> Limb] /\ c[0] = w
       /\ \A i \in 0 .. N - 1 :
             /\ x[i] \in Limb /\ c[i + 1] \in {0, 1}
             /\ x[i] - Base * c[i + 1] = Get(m, a, i) - c[i]
       /\ Wrote(m, s.m, r, N, x)
       /\ s.c = c[N]

\* hebi_psubu: the word is the first borrow.
LEMMA PsubuLoop ==
    ASSUME NEW m, IsMemory(m), NEW r, NEW a, NEW n \in Nat, NEW w \in Limb,
           NEW N \in Nat, N = n * PacketLimbs, Area(m, r, N), Area(m, a, N), Follows(r, a, N)
    PROVE  WordDiffsAt(m, psubu(m, r, a, w, n), r, N, a, w)
<1> DEFINE A(i) == Get(m, a, i)
           Sm(i, k) == (A(i) - k) % Base
           S == [i \in 0 .. N - 1 |-> [k \in Limb |-> Sm(i, k)]]
           D == [i \in 0 .. N - 1 |-> [k \in Limb |-> Bit(Sm(i, k) > A(i))]]
<1>1. \A i \in 0 .. N - 1 : A(i) \in Limb
  <2>1. m \in Memory(m)
    BY DEF IsMemory
  <2>2. QED  BY <2>1, GetLimb
<1>2. \A i \in 0 .. N - 1 : \A k \in Limb :
         /\ Sm(i, k) \in Limb /\ Bit(Sm(i, k) > A(i)) \in Limb /\ Bit(Sm(i, k) > A(i)) \in {0, 1}
         /\ Sm(i, k) - Base * Bit(Sm(i, k) > A(i)) = A(i) - k
  BY <1>1, LimbDiffWord, BaseFacts
<1>3. \A i \in 0 .. N - 1 : \A k \in Limb : S[i][k] = Sm(i, k) /\ D[i][k] = Bit(Sm(i, k) > A(i))
  OBVIOUS
<1> HIDE DEF A, Sm, S, D
<1>4. PICK c, x, g : CarryTrace(m, r, N, Limb, S, D, w, c, x, g)
  <2>1. CarryTurns(N, Limb, S, D)
    BY <1>2, <1>3 DEF CarryTurns
  <2>2. w \in Limb
    BY BaseFacts
  <2>3. QED  BY <2>1, <2>2, CarryLoop
<1> USE DEF CarryTrace
<1> DEFINE Turn(t, i) ==
              LET v == Get(t.m, a, i)
                  y == (v - t.c) % Base
              IN  [m |-> Put(t.m, r, i, y), c |-> Bit(y > v)]
           s0 == [m |-> m, c |-> w]
           Q(h, i) == Given(h[i - 1], LAMBDA t : Turn(t, i - 1))
           Eq(h) == h = [i \in 0 .. N |-> IF i = 0 THEN s0 ELSE Q(h, i)]
           F == CHOOSE h : Eq(h)
           f == [i \in 0 .. N |-> [m |-> g[i], c |-> c[i]]]
<1>5. psubu(m, r, a, w, n) = F[N]
  BY DEF psubu, Loop, Given, s0
<1>6. \A h, i : Q(h, i) = Turn(h[i - 1], i - 1)
  BY DEF Given
<1>7. f[0] = s0 /\ f[N] = [m |-> g[N], c |-> c[N]]
  BY <1>4
<1>8. ASSUME NEW i \in 0 .. N - 1 PROVE f[i + 1] = Turn(f[i], i)
  <2>0. r.at \in Nat
    BY DEF Area
  <2>1. c[i] \in Limb /\ i \in 0 .. N /\ i + 1 \in 0 .. N /\ r.at \in Nat
    BY <1>4, <2>0
  <2>2. Get(g[i], a, i) = A(i)
    BY <1>4, <2>1, Unread DEF A
  <2>4. g[i + 1] = Put(g[i], r, i, Sm(i, c[i])) /\ c[i + 1] = Bit(Sm(i, c[i]) > A(i))
    <3>1. g[i + 1] = Put(g[i], r, i, S[i][c[i]]) /\ c[i + 1] = D[i][c[i]]
      BY <1>4
    <3>2. QED  BY <1>3, <2>1, <3>1
  <2>5. f[i].m = g[i] /\ f[i].c = c[i] /\ f[i + 1] = [m |-> g[i + 1], c |-> c[i + 1]]
    BY <2>1
  <2>6. QED  BY <2>2, <2>4, <2>5 DEF Sm
<1> HIDE DEF Turn, f, Q
<1>9. Eq(F)
  <2>1. ASSUME NEW i \in 0 .. N, i # 0 PROVE f[i] = Q(f, i)
    <3>1. i - 1 \in 0 .. N - 1 /\ i - 1 + 1 = i
      BY <2>1
    <3>2. QED  BY <1>6, <1>8, <3>1
  <2>2. f = [i \in 0 .. N |-> f[i]]
    BY DEF f
  <2>3. Eq(f)
    BY <1>7, <2>1, <2>2
  <2>4. QED  BY <2>3
<1> HIDE DEF F
<1>10. F[N] = f[N]
  <2>1. F[0] = f[0]
    BY <1>7, <1>9
  <2>2. ASSUME NEW i \in 0 .. N - 1, F[i] = f[i] PROVE F[i + 1] = f[i + 1]
    <3>1. i + 1 \in 0 .. N /\ i + 1 # 0 /\ i + 1 - 1 = i
      OBVIOUS
    <3>2. F[i + 1] = Turn(F[i], i)
      BY <1>6, <1>9, <3>1
    <3>3. QED  BY <1>8, <2>2, <3>2
  <2>3. QED  BY <2>1, <2>2, SameEnd
<1>11. ASSUME NEW i \in 0 .. N - 1
       PROVE  c[i + 1] \in {0, 1} /\ x[i] - Base * c[i + 1] = A(i) - c[i]
  <2>1. c[i] \in Limb /\ x[i] = S[i][c[i]] /\ c[i + 1] = D[i][c[i]]
    BY <1>4
  <2>2. x[i] = Sm(i, c[i]) /\ c[i + 1] = Bit(Sm(i, c[i]) > A(i))
    BY <1>3, <2>1
  <2>3. QED  BY <1>2, <2>1, <2>2
<1>12. psubu(m, r, a, w, n) = [m |-> g[N], c |-> c[N]]
  BY <1>5, <1>7, <1>10
<1>13. Wrote(m, psubu(m, r, a, w, n).m, r, N, x) /\ psubu(m, r, a, w, n).c = c[N]
  BY <1>4, <1>12
<1>14. c \in [0 .. N -> Limb] /\ c[0] = w /\ \A i \in 0 .. N - 1 : x[i] \in Limb
  BY <1>4
<1> HIDE DEF CarryTrace
<1>15. QED  BY <1>11, <1>13, <1>14 DEF A, WordDiffsAt

\* hebi_pcopy stores the limbs of the operand.
LEMMA PcopyLoop ==
    ASSUME NEW m, IsMemory(m), NEW r, NEW a, NEW n \in Nat,
           NEW N \in Nat, N = n * PacketLimbs, Area(m, r, N), Area(m, a, N), Follows(r, a, N)
    PROVE  \E x :
              /\ \A i \in 0 .. N - 1 : x[i] \in Limb /\ x[i] = Get(m, a, i)
              /\ Wrote(m, pcopy(m, r, a, n), r, N, x)
<1> DEFINE V(i) == Get(m, a, i)
           S == [i \in 0 .. N - 1 |-> [k \in {0} |-> V(i)]]
           D == [i \in 0 .. N - 1 |-> [k \in {0} |-> 0]]
<1>2. \A i \in 0 .. N - 1 : V(i) \in Limb
  <2>1. m \in Memory(m)
    BY DEF IsMemory
  <2>2. QED  BY <2>1, GetLimb
<1>3. \A i \in 0 .. N - 1 : \A k \in {0} : S[i][k] = V(i) /\ D[i][k] = 0
  OBVIOUS
<1> HIDE DEF V, S, D
<1>4. PICK c, x, g : CarryTrace(m, r, N, {0}, S, D, 0, c, x, g)
  <2>1. CarryTurns(N, {0}, S, D)
    BY <1>2, <1>3 DEF CarryTurns
  <2>2. 0 \in {0}
    OBVIOUS
  <2>3. QED  BY <2>1, <2>2, CarryLoop
<1> USE DEF CarryTrace
<1> DEFINE Turn(t, i) ==
              Put(t, r, i, Get(t, a, i))
           s0 == m
           Q(h, i) == Given(h[i - 1], LAMBDA t : Turn(t, i - 1))
           Eq(h) == h = [i \in 0 .. N |-> IF i = 0 THEN s0 ELSE Q(h, i)]
           F == CHOOSE h : Eq(h)
           f == [i \in 0 .. N |-> g[i]]
<1>5. pcopy(m, r, a, n) = F[N]
  BY DEF pcopy, Loop, Given, s0
<1>6. \A h, i : Q(h, i) = Turn(h[i - 1], i - 1)
  BY DEF Given
<1>7. f[0] = s0 /\ f[N] = g[N]
  BY <1>4
<1>8. ASSUME NEW i \in 0 .. N - 1 PROVE f[i + 1] = Turn(f[i], i)
  <2>0. r.at \in Nat
    BY DEF Area
  <2>1. c[i] \in {0} /\ i \in 0 .. N /\ i + 1 \in 0 .. N /\ r.at \in Nat
    BY <1>4, <2>0
  <2>2. Get(g[i], a, i) = V(i)
    BY <1>4, <2>1, Unread DEF V
  <2>4. g[i + 1] = Put(g[i], r, i, V(i))
    BY <1>3, <1>4, <2>1
  <2>5. f[i] = g[i] /\ f[i + 1] = g[i + 1]
    BY <2>1
  <2>6. QED  BY <2>2, <2>4, <2>5
<1> HIDE DEF Turn, f, Q
<1>9. Eq(F)
  <2>1. ASSUME NEW i \in 0 .. N, i # 0 PROVE f[i] = Q(f, i)
    <3>1. i - 1 \in 0 .. N - 1 /\ i - 1 + 1 = i
      BY <2>1
    <3>2. QED  BY <1>6, <1>8, <3>1
  <2>2. f = [i \in 0 .. N |-> f[i]]
    BY DEF f
  <2>3. Eq(f)
    BY <1>7, <2>1, <2>2
  <2>4. QED  BY <2>3
<1> HIDE DEF F
<1>10. F[N] = f[N]
  <2>1. F[0] = f[0]
    BY <1>7, <1>9
  <2>2. ASSUME NEW i \in 0 .. N - 1, F[i] = f[i] PROVE F[i + 1] = f[i + 1]
    <3>1. i + 1 \in 0 .. N /\ i + 1 # 0 /\ i + 1 - 1 = i
      OBVIOUS
    <3>2. F[i + 1] = Turn(F[i], i)
      BY <1>6, <1>9, <3>1
    <3>3. QED  BY <1>8, <2>2, <3>2
  <2>3. QED  BY <2>1, <2>2, SameEnd
<1>11. \A i \in 0 .. N - 1 : x[i] \in Limb /\ x[i] = V(i)
  BY <1>3, <1>4
<1>12. Wrote(m, pcopy(m, r, a, n), r, N, x)
  BY <1>4, <1>5, <1>7, <1>10
<1>13. QED  BY <1>11, <1>12 DEF V

\* hebi_psetu stores a word and zeros above it.
LEMMA PsetuLoop ==
    ASSUME NEW m, IsMemory(m), NEW r, NEW w \in Limb,
           NEW N \in Nat, N = PacketLimbs, Area(m, r, N)
    PROVE  \E x :
              /\ \A i \in 0 .. N - 1 : x[i] \in Limb /\ x[i] = (IF i = 0 THEN w ELSE 0)
              /\ Wrote(m, psetu(m, r, w), r, N, x)
<1> DEFINE V(i) == IF i = 0 THEN w ELSE 0
           S == [i \in 0 .. N - 1 |-> [k \in {0} |-> V(i)]]
           D == [i \in 0 .. N - 1 |-> [k \in {0} |-> 0]]
<1>2. \A i \in 0 .. N - 1 : V(i) \in Limb
  BY BaseFacts
<1>3. \A i \in 0 .. N - 1 : \A k \in {0} : S[i][k] = V(i) /\ D[i][k] = 0
  OBVIOUS
<1> HIDE DEF V, S, D
<1>4. PICK c, x, g : CarryTrace(m, r, N, {0}, S, D, 0, c, x, g)
  <2>1. CarryTurns(N, {0}, S, D)
    BY <1>2, <1>3 DEF CarryTurns
  <2>2. 0 \in {0}
    OBVIOUS
  <2>3. QED  BY <2>1, <2>2, CarryLoop
<1> USE DEF CarryTrace
<1> DEFINE Turn(t, i) ==
              Put(t, r, i, IF i = 0 THEN w ELSE 0)
           s0 == m
           Q(h, i) == Given(h[i - 1], LAMBDA t : Turn(t, i - 1))
           Eq(h) == h = [i \in 0 .. N |-> IF i = 0 THEN s0 ELSE Q(h, i)]
           F == CHOOSE h : Eq(h)
           f == [i \in 0 .. N |-> g[i]]
<1>5. psetu(m, r, w) = F[N]
  BY DEF psetu, Loop, Given, s0
<1>6. \A h, i : Q(h, i) = Turn(h[i - 1], i - 1)
  BY DEF Given
<1>7. f[0] = s0 /\ f[N] = g[N]
  BY <1>4
<1>8. ASSUME NEW i \in 0 .. N - 1 PROVE f[i + 1] = Turn(f[i], i)
  <2>0. r.at \in Nat
    BY DEF Area
  <2>1. c[i] \in {0} /\ i \in 0 .. N /\ i + 1 \in 0 .. N /\ r.at \in Nat
    BY <1>4, <2>0
  <2>4. g[i + 1] = Put(g[i], r, i, V(i))
    BY <1>3, <1>4, <2>1
  <2>5. f[i] = g[i] /\ f[i + 1] = g[i + 1]
    BY <2>1
  <2>6. QED  BY <2>4, <2>5 DEF V
<1> HIDE DEF Turn, f, Q
<1>9. Eq(F)
  <2>1. ASSUME NEW i \in 0 .. N, i # 0 PROVE f[i] = Q(f, i)
    <3>1. i - 1 \in 0 .. N - 1 /\ i - 1 + 1 = i
      BY <2>1
    <3>2. QED  BY <1>6, <1>8, <3>1
  <2>2. f = [i \in 0 .. N |-> f[i]]
    BY DEF f
  <2>3. Eq(f)
    BY <1>7, <2>1, <2>2
  <2>4. QED  BY <2>3
<1> HIDE DEF F
<1>10. F[N] = f[N]
  <2>1. F[0] = f[0]
    BY <1>7, <1>9
  <2>2. ASSUME NEW i \in 0 .. N - 1, F[i] = f[i] PROVE F[i + 1] = f[i + 1]
    <3>1. i + 1 \in 0 .. N /\ i + 1 # 0 /\ i + 1 - 1 = i
      OBVIOUS
    <3>2. F[i + 1] = Turn(F[i], i)
      BY <1>6, <1>9, <3>1
    <3>3. QED  BY <1>8, <2>2, <3>2
  <2>3. QED  BY <2>1, <2>2, SameEnd
<1>11. \A i \in 0 .. N - 1 : x[i] \in Limb /\ x[i] = V(i)
  BY <1>3, <1>4
<1>12. Wrote(m, psetu(m, r, w), r, N, x)
  BY <1>4, <1>5, <1>7, <1>10
<1>13. QED  BY <1>11, <1>12 DEF V

-----------------------------------------------------------------------------
(* Numbers and their order *)

\* The number of the limbs d[0], ..., d[n - 1] under top.
Number(d, n, top) == (CHOOSE v : Horner(d, n, top, v))[0]

LEMMA NumberIs ==
    ASSUME NEW n \in Nat, NEW d, NEW top, NEW v, Horner(d, n, top, v)
    PROVE  Number(d, n, top) = v[0]
<1> DEFINE w == CHOOSE u : Horner(d, n, top, u)
<1>1. Horner(d, n, top, w)
  OBVIOUS
<1> HIDE DEF w
<1>2. \A i \in 0 .. n : v[i] = w[i]
  BY <1>1, HornerUnique
<1>3. QED  BY <1>2 DEF Number, w

LEMMA NumberOfLimbs ==
    ASSUME NEW m, NEW p, NEW n \in Nat, NEW N \in Nat, N = n * PacketLimbs,
           \A i \in 0 .. N - 1 : Get(m, p, i) \in Limb
    PROVE  Value(m, p, n) = Number(LimbsAt(m, p, N), N, 0)
<1> DEFINE d == LimbsAt(m, p, N)
<1>1. ASSUME NEW i \in 0 .. N - 1 PROVE d[i] \in Int
  <2>1. d[i] = Get(m, p, i)
    BY DEF LimbsAt
  <2>2. QED  BY <2>1, LimbNumber
<1> HIDE DEF d
<1>2. PICK v : Horner(d, N, 0, v)
  <2>1. 0 \in Int
    OBVIOUS
  <2>2. QED  BY <1>1, <2>1, HornerExists
<1> USE DEF d
<1>3. QED  BY <1>2, NumberIs, ValueOfLimbs

\* Only the limbs count.
LEMMA NumberSame ==
    ASSUME NEW n \in Nat, NEW d, NEW e, NEW top \in Int,
           \A i \in 0 .. n - 1 : d[i] \in Int /\ e[i] = d[i]
    PROVE  Number(d, n, top) = Number(e, n, top)
<1>1. PICK v : Horner(d, n, top, v)
  BY HornerExists
<1>2. Horner(e, n, top, v)
  BY <1>1 DEF Horner
<1>3. QED  BY <1>1, <1>2, NumberIs

\* Zeros above the limbs change nothing.
LEMMA NumberPadded ==
    ASSUME NEW n \in Nat, NEW k \in Nat, k =< n, NEW d, NEW e,
           \A i \in 0 .. k - 1 : e[i] = d[i], \A i \in 0 .. n - 1 : d[i] \in Int,
           \A i \in k .. n - 1 : d[i] = 0
    PROVE  Number(d, n, 0) = Number(e, k, 0)
<1>1. PICK v : Horner(d, n, 0, v)
  <2>1. 0 \in Int
    OBVIOUS
  <2>2. QED  BY <2>1, HornerExists
<1> DEFINE S == {i \in 0 .. n : i < k \/ v[i] = 0}
<1>2. n \in S
  BY <1>1 DEF Horner
<1>3. ASSUME NEW i \in 0 .. n - 1, i + 1 \in S PROVE i \in S
  <2>1. CASE i < k
    BY <2>1
  <2>2. CASE i >= k
    <3>1. v[i + 1] = 0 /\ d[i] = 0 /\ v[i] = d[i] + Base * v[i + 1]
      BY <1>1, <1>3, <2>2 DEF Horner
    <3>2. QED  BY <3>1, BaseFacts
  <2>3. QED  BY <2>1, <2>2
<1> HIDE DEF S
<1>4. k \in S
  <2>1. \A i \in 0 .. n : i \in S
    BY <1>2, <1>3, DownInduct
  <2>2. QED  BY <2>1
<1>5. v[k] = 0
  BY <1>4 DEF S
<1> DEFINE u == [i \in 0 .. k |-> v[i]]
<1>6. Horner(e, k, 0, u)
  <2>1. u \in [0 .. k -> Int] /\ u[k] = 0
    BY <1>1, <1>5 DEF Horner
  <2>2. ASSUME NEW i \in 0 .. k - 1 PROVE u[i] = e[i] + Base * u[i + 1]
    <3>1. i \in 0 .. n - 1 /\ i \in 0 .. k /\ i + 1 \in 0 .. k
      OBVIOUS
    <3>2. QED  BY <1>1, <3>1 DEF Horner
  <2> HIDE DEF u
  <2>3. QED  BY <2>1, <2>2 DEF Horner
<1>7. u[0] = v[0]
  OBVIOUS
<1> HIDE DEF u
<1>8. QED  BY <1>1, <1>6, <1>7, NumberIs

\* A number is that of its lower limbs under that of its upper ones.
LEMMA NumberSplit ==
    ASSUME NEW n \in Nat, NEW k \in Nat, NEW d, NEW e, NEW top \in Int,
           \A i \in 0 .. k + n - 1 : d[i] \in Int, \A i \in 0 .. n - 1 : e[i] = d[k + i]
    PROVE  Number(d, k + n, top) = Number(d, k, Number(e, n, top)) /\ Number(e, n, top) \in Int
<1>1. PICK v : Horner(d, k + n, top, v)
  <2>1. k + n \in Nat
    OBVIOUS
  <2>2. QED  BY <2>1, HornerExists
<1> DEFINE u == [i \in 0 .. k |-> v[i]]
           w == [i \in 0 .. n |-> v[k + i]]
<1>2. Horner(d, k, v[k], u)
  <2>1. u \in [0 .. k -> Int] /\ u[k] = v[k]
    BY <1>1 DEF Horner
  <2>2. ASSUME NEW i \in 0 .. k - 1 PROVE u[i] = d[i] + Base * u[i + 1]
    BY <1>1 DEF Horner
  <2> HIDE DEF u
  <2>3. QED  BY <2>1, <2>2 DEF Horner
<1>3. Horner(e, n, top, w)
  <2>1. \A i \in 0 .. n : k + i \in 0 .. k + n
    OBVIOUS
  <2>2. w \in [0 .. n -> Int] /\ w[n] = top
    BY <1>1, <2>1 DEF Horner
  <2>3. ASSUME NEW i \in 0 .. n - 1 PROVE w[i] = e[i] + Base * w[i + 1]
    <3>1. k + i \in 0 .. (k + n) - 1 /\ (k + i) + 1 = k + (i + 1) /\ i \in 0 .. n /\ i + 1 \in 0 .. n
      OBVIOUS
    <3>2. v[k + i] = d[k + i] + Base * v[(k + i) + 1]
      BY <1>1, <3>1 DEF Horner
    <3>3. w[i] = v[k + i] /\ w[i + 1] = v[(k + i) + 1] /\ e[i] = d[k + i]
      BY <3>1
    <3>4. QED  BY <3>2, <3>3
  <2> HIDE DEF w
  <2>4. QED  BY <2>2, <2>3 DEF Horner
<1>4. u[0] = v[0] /\ w[0] = v[k] /\ v[k] \in Int
  BY <1>1 DEF Horner
<1> HIDE DEF u, w
<1>5. Number(d, k + n, top) = v[0] /\ Number(d, k, v[k]) = u[0] /\ Number(e, n, top) = w[0]
  BY <1>1, <1>2, <1>3, NumberIs
<1>6. QED  BY <1>4, <1>5

\* A number of limbs has the sign of what it is under.
LEMMA NumberSign ==
    ASSUME NEW n \in Nat, NEW d, NEW top \in Int, \A i \in 0 .. n - 1 : d[i] \in Limb
    PROVE  /\ Number(d, n, top) \in Int
           /\ top >= 0 => Number(d, n, top) >= top
           /\ top < 0 => Number(d, n, top) < 0
<1>1. \A i \in 0 .. n - 1 : d[i] \in Int /\ 0 =< d[i] /\ d[i] =< Base - 1
  BY LimbNumber
<1>2. PICK v : Horner(d, n, top, v)
  BY <1>1, HornerExists
<1> DEFINE S == {i \in 0 .. n : (top >= 0 => v[i] >= top) /\ (top < 0 => v[i] < 0)}
<1>3. n \in S
  BY <1>2 DEF Horner
<1>4. ASSUME NEW i \in 0 .. n - 1, i + 1 \in S PROVE i \in S
  <2>1. /\ d[i] \in Int /\ 0 =< d[i] /\ d[i] =< Base - 1 /\ v[i] = d[i] + Base * v[i + 1]
        /\ v[i + 1] \in Int /\ v[i] \in Int
        /\ top >= 0 => v[i + 1] >= top
        /\ top < 0 => v[i + 1] < 0
    BY <1>1, <1>2, <1>4 DEF Horner
  <2>2. v[i + 1] >= 0 => Base * v[i + 1] >= 1 * v[i + 1]
    BY <2>1, BaseFacts
  <2>3. v[i + 1] < 0 => Base * v[i + 1] =< Base * (-1)
    BY <2>1, BaseFacts
  <2>4. (top >= 0 => v[i] >= top) /\ (top < 0 => v[i] < 0)
    BY <2>1, <2>2, <2>3, BaseFacts
  <2>5. QED  BY <2>4
<1> HIDE DEF S
<1>5. 0 \in S
  BY <1>3, <1>4, DownInduct
<1>6. v[0] \in Int /\ 0 \in 0 .. n
  BY <1>2 DEF Horner
<1>7. QED  BY <1>2, <1>5, <1>6, NumberIs DEF S

\* Of two numbers the larger is the one with the larger limb where they differ last.
LEMMA NumberOrder ==
    ASSUME NEW n \in Nat, NEW d, NEW e, NEW top \in Int,
           \A i \in 0 .. n - 1 : d[i] \in Limb /\ e[i] \in Limb,
           NEW j \in 0 .. n - 1, d[j] < e[j], \A i \in j + 1 .. n - 1 : d[i] = e[i]
    PROVE  Number(d, n, top) < Number(e, n, top)
<1>1. \A i \in 0 .. n - 1 : /\ d[i] \in Int /\ 0 =< d[i] /\ d[i] =< Base - 1
                            /\ e[i] \in Int /\ 0 =< e[i] /\ e[i] =< Base - 1
  BY LimbNumber
<1>2. PICK v : Horner(d, n, top, v)
  BY <1>1, HornerExists
<1>3. PICK w : Horner(e, n, top, w)
  BY <1>1, HornerExists
<1> DEFINE S == {i \in 0 .. n : IF i > j THEN v[i] = w[i] ELSE v[i] < w[i]}
<1>4. n \in S
  BY <1>2, <1>3 DEF Horner
<1>5. ASSUME NEW i \in 0 .. n - 1, i + 1 \in S PROVE i \in S
  <2>1. /\ d[i] \in Int /\ 0 =< d[i] /\ d[i] =< Base - 1 /\ v[i] = d[i] + Base * v[i + 1]
        /\ e[i] \in Int /\ 0 =< e[i] /\ e[i] =< Base - 1 /\ w[i] = e[i] + Base * w[i + 1]
        /\ v[i + 1] \in Int /\ w[i + 1] \in Int
    <3>1. i + 1 \in 0 .. n
      OBVIOUS
    <3>2. v[i] = d[i] + Base * v[i + 1] /\ v[i + 1] \in Int
      BY <1>2, <3>1 DEF Horner
    <3>3. w[i] = e[i] + Base * w[i + 1] /\ w[i + 1] \in Int
      BY <1>3, <3>1 DEF Horner
    <3>4. QED  BY <1>1, <3>2, <3>3
  <2>2. CASE i >= j
    <3>1. v[i + 1] = w[i + 1]
      BY <1>5, <2>2
    <3>2. IF i > j THEN d[i] = e[i] ELSE d[i] < e[i]
      BY <2>2
    <3>3. Base * v[i + 1] \in Int
      BY <2>1, BaseFacts
    <3>4. QED  BY <2>1, <3>1, <3>2, <3>3, <2>2
  <2>3. CASE i < j
    <3>1. v[i + 1] < w[i + 1]
      BY <1>5, <2>3
    <3>2. w[i + 1] = v[i + 1] + (w[i + 1] - v[i + 1]) /\ w[i + 1] - v[i + 1] >= 1
      BY <2>1, <3>1
    <3>3. \A x, y \in Int : y >= 1 => Base * (x + y) >= Base * x + Base
      <4>1. \A x, y \in Int : Base * (x + y) = Base * x + Base * y
        BY BaseFacts
      <4>2. \A y \in Int : y >= 1 => Base * y >= Base * 1
        BY BaseFacts
      <4>3. QED  BY <4>1, <4>2, BaseFacts
    <3>4. Base * w[i + 1] >= Base * v[i + 1] + Base
      <4>1. w[i + 1] - v[i + 1] \in Int
        BY <2>1
      <4>2. Base * (v[i + 1] + (w[i + 1] - v[i + 1])) >= Base * v[i + 1] + Base
        BY <2>1, <3>2, <3>3, <4>1
      <4>3. v[i + 1] + (w[i + 1] - v[i + 1]) = w[i + 1]
        BY <2>1
      <4>4. QED  BY <4>2, <4>3
    <3>5. Base * v[i + 1] \in Int /\ Base * w[i + 1] \in Int
      BY <2>1, BaseFacts
    <3>6. v[i] < w[i]
      BY <2>1, <3>4, <3>5, BaseFacts
    <3>7. QED  BY <2>3, <3>6
  <2>4. QED  BY <2>2, <2>3
<1> HIDE DEF S
<1>6. 0 \in S
  BY <1>4, <1>5, DownInduct
<1>7. v[0] < w[0]
  BY <1>6 DEF S
<1>8. Number(d, n, top) = v[0] /\ Number(e, n, top) = w[0]
  BY <1>2, <1>3, NumberIs
<1>9. QED  BY <1>7, <1>8

\* Carries from limb to limb add up to the sum of multiples of two numbers.
LEMMA NumberChain ==
    ASSUME NEW n \in Nat, NEW x, NEW y, NEW s, NEW c, NEW k \in Int, NEW l \in Int,
           \A i \in 0 .. n - 1 : x[i] \in Int /\ y[i] \in Int /\ s[i] \in Int,
           \A i \in 0 .. n : c[i] \in Int,
           \A i \in 0 .. n - 1 : s[i] + Base * c[i + 1] = k * x[i] + l * y[i] + c[i]
    PROVE  Number(s, n, c[n]) = k * Number(x, n, 0) + l * Number(y, n, 0) + c[0]
<1>1. 0 \in Int /\ c[n] \in Int
  OBVIOUS
<1>2. PICK vx : Horner(x, n, 0, vx)
  BY <1>1, HornerExists
<1>3. PICK vy : Horner(y, n, 0, vy)
  BY <1>1, HornerExists
<1>4. PICK vs : Horner(s, n, c[n], vs)
  BY <1>1, HornerExists
<1> DEFINE S == {i \in 0 .. n : vs[i] = k * vx[i] + l * vy[i] + c[i]}
<1>5. n \in S
  BY <1>2, <1>3, <1>4 DEF Horner
<1>6. ASSUME NEW i \in 0 .. n - 1, i + 1 \in S PROVE i \in S
  <2>1. /\ x[i] \in Int /\ y[i] \in Int /\ s[i] \in Int /\ c[i] \in Int /\ c[i + 1] \in Int
        /\ vx[i + 1] \in Int /\ vy[i + 1] \in Int
        /\ vs[i] = s[i] + Base * vs[i + 1]
        /\ vx[i] = x[i] + Base * vx[i + 1]
        /\ vy[i] = y[i] + Base * vy[i + 1]
        /\ vs[i + 1] = k * vx[i + 1] + l * vy[i + 1] + c[i + 1]
        /\ s[i] + Base * c[i + 1] = k * x[i] + l * y[i] + c[i]
    <3>1. i \in 0 .. n /\ i + 1 \in 0 .. n
      OBVIOUS
    <3>2. /\ x[i] \in Int /\ y[i] \in Int /\ s[i] \in Int /\ c[i] \in Int /\ c[i + 1] \in Int
          /\ s[i] + Base * c[i + 1] = k * x[i] + l * y[i] + c[i]
      BY <3>1
    <3>3. vx[i + 1] \in Int /\ vx[i] = x[i] + Base * vx[i + 1]
      BY <1>2, <3>1 DEF Horner
    <3>4. vy[i + 1] \in Int /\ vy[i] = y[i] + Base * vy[i + 1]
      BY <1>3, <3>1 DEF Horner
    <3>5. vs[i] = s[i] + Base * vs[i + 1]
      BY <1>4 DEF Horner
    <3>6. vs[i + 1] = k * vx[i + 1] + l * vy[i + 1] + c[i + 1]
      BY <1>6
    <3>7. QED  BY <3>2, <3>3, <3>4, <3>5, <3>6
  <2>2. \A p, q, z, h \in Int :
          h * (k * p + l * q + z) = k * (h * p) + l * (h * q) + h * z
    OBVIOUS
  <2>3. /\ Base * vs[i + 1] = k * (Base * vx[i + 1]) + l * (Base * vy[i + 1]) + Base * c[i + 1]
        /\ Base * vx[i + 1] \in Int /\ Base * vy[i + 1] \in Int /\ Base * c[i + 1] \in Int
    BY <2>1, <2>2, BaseFacts
  <2>4. \A p, q, u, z \in Int : k * (p + u) + l * (q + z) = k * p + k * u + l * q + l * z
    OBVIOUS
  <2>5. k * (x[i] + Base * vx[i + 1]) + l * (y[i] + Base * vy[i + 1])
           = k * x[i] + k * (Base * vx[i + 1]) + l * y[i] + l * (Base * vy[i + 1])
    BY <2>1, <2>3, <2>4
  <2> DEFINE X == Base * vx[i + 1]
             Y == Base * vy[i + 1]
             C == Base * c[i + 1]
  <2>6. k * X \in Int /\ l * Y \in Int /\ C \in Int /\ k * x[i] \in Int /\ l * y[i] \in Int
    BY <2>1, <2>3
  <2>7. vs[i] = k * vx[i] + l * vy[i] + c[i]
    <3>1. vs[i] = s[i] + (k * X + l * Y + C)
      BY <2>1, <2>3
    <3>2. k * vx[i] + l * vy[i] = k * x[i] + k * X + l * y[i] + l * Y
      BY <2>1, <2>5
    <3>3. s[i] + C = k * x[i] + l * y[i] + c[i]
      BY <2>1
    <3> HIDE DEF X, Y, C
    <3> QED  BY <3>1, <3>2, <3>3, <2>6, <2>1
  <2>8. QED  BY <2>7
<1> HIDE DEF S
<1>7. 0 \in S
  BY <1>5, <1>6, DownInduct
<1>8. Number(x, n, 0) = vx[0] /\ Number(y, n, 0) = vy[0] /\ Number(s, n, c[n]) = vs[0]
  BY <1>2, <1>3, <1>4, NumberIs
<1>9. QED  BY <1>7, <1>8 DEF S

-----------------------------------------------------------------------------
(* What the kernels compute *)

\* The limbs of a memory after a loop.
LEMMA WrittenValue ==
    ASSUME NEW m, NEW r, NEW n \in Nat, Area(m, r, n), NEW x, NEW t, Wrote(m, t, r, n, x),
           \A i \in 0 .. n - 1 : x[i] \in Limb
    PROVE  /\ OnlyAt(m, t, r, n) /\ t \in Memory(m)
           /\ \A i \in 0 .. n - 1 : LimbsAt(t, r, n)[i] = x[i]
           /\ \A top \in Int : Number(LimbsAt(t, r, n), n, top) = Number(x, n, top)
<1>1. OnlyAt(m, t, r, n) /\ t \in Memory(m)
  BY DEF OnlyAt, Wrote
<1>2. ASSUME NEW i \in 0 .. n - 1 PROVE LimbsAt(t, r, n)[i] = x[i]
  <2>1. r.buf \in DOMAIN m /\ r.at + i \in DOMAIN m[r.buf] /\ r.at \in Nat
    BY DEF Area
  <2>2. r.at + i \in r.at .. r.at + n - 1 /\ (r.at + i) - r.at = i
    BY <2>1
  <2>3. t[r.buf][r.at + i] = x[i]
    BY <2>1, <2>2 DEF Wrote
  <2>4. QED  BY <2>3 DEF LimbsAt, Get
<1>3. ASSUME NEW top \in Int PROVE Number(LimbsAt(t, r, n), n, top) = Number(x, n, top)
  <2>1. \A i \in 0 .. n - 1 : x[i] \in Int /\ LimbsAt(t, r, n)[i] = x[i]
    BY <1>2, LimbNumber
  <2>2. QED  BY <2>1, NumberSame
<1>4. QED  BY <1>1, <1>2, <1>3

LEMMA MoreLimbs ==
    ASSUME NEW k \in Nat, NEW n \in Nat, k =< n
    PROVE  k * PacketLimbs \in Nat /\ n * PacketLimbs \in Nat /\ k * PacketLimbs =< n * PacketLimbs
<1>1. PacketLimbs \in Nat
  BY PacketsAssumption
<1>2. \A i, j, p \in Nat : (i + j) * p = i * p + j * p /\ i * p \in Nat
  OBVIOUS
<1>3. n - k \in Nat /\ n = k + (n - k)
  OBVIOUS
<1>4. QED  BY <1>1, <1>2, <1>3

\* The number of an operand, limb by limb in a loop that runs further.
LEMMA NumberOfOperand ==
    ASSUME NEW m, IsMemory(m), NEW b, NEW n \in Nat, NEW N \in Nat, NEW M \in Nat,
           M = n * PacketLimbs, M =< N, Area(m, b, M)
    PROVE  /\ \A i \in 0 .. N - 1 : Operand(m, b, n, i) \in Limb
           /\ Number([i \in 0 .. N - 1 |-> Operand(m, b, n, i)], N, 0) = Value(m, b, n)
<1> DEFINE d == [i \in 0 .. N - 1 |-> Operand(m, b, n, i)]
           e == LimbsAt(m, b, M)
<1>1. \A i \in 0 .. M - 1 : Get(m, b, i) \in Limb /\ e[i] = Get(m, b, i)
  BY GetLimb DEF IsMemory, LimbsAt
<1>2. \A i \in 0 .. N - 1 : /\ Operand(m, b, n, i) \in Limb
                            /\ i < M => d[i] = e[i]
                            /\ i >= M => d[i] = 0
                            /\ d[i] = Operand(m, b, n, i)
  BY <1>1, BaseFacts DEF Operand
<1>3. \A i \in 0 .. N - 1 : d[i] \in Int
  BY <1>2, LimbNumber
<1> HIDE DEF d, e
<1>4. Number(d, N, 0) = Number(e, M, 0)
  <2>1. \A i \in 0 .. M - 1 : e[i] = d[i]
    BY <1>2
  <2>2. \A i \in M .. N - 1 : d[i] = 0
    BY <1>2
  <2>3. QED  BY <1>3, <2>1, <2>2, NumberPadded
<1>5. Value(m, b, n) = Number(e, M, 0)
  BY <1>1, NumberOfLimbs DEF e
<1>6. QED  BY <1>2, <1>4, <1>5 DEF d

\* The sum that hebi_padd and hebi_padda leave, with the carry above it, is that of
\* the operands, of every length and in place of either of them.
THEOREM SumOfPackets ==
    ASSUME NEW m, IsMemory(m), NEW r, NEW a, NEW b, NEW an \in Nat, NEW bn \in Nat, bn =< an,
           NEW N \in Nat, N = an * PacketLimbs, NEW M \in Nat, M = bn * PacketLimbs,
           Area(m, r, N), Area(m, a, N), Area(m, b, M), Follows(r, a, N), Follows(r, b, M)
    PROVE  LET s == padd(m, r, a, b, an, bn)
           IN  /\ s.c \in {0, 1} /\ OnlyAt(m, s.m, r, N) /\ s.m \in Memory(m)
               /\ Number(LimbsAt(s.m, r, N), N, s.c) = Value(m, a, an) + Value(m, b, bn)
<1> DEFINE s == padd(m, r, a, b, an, bn)
           A == [i \in 0 .. N - 1 |-> Operand(m, a, an, i)]
           O == [i \in 0 .. N - 1 |-> Operand(m, b, bn, i)]
<1>1. M =< N
  BY MoreLimbs
<1>2. PICK c, x :
         /\ c \in [0 .. N -> {0, 1}] /\ c[0] = 0
         /\ \A i \in 0 .. N - 1 :
               /\ x[i] \in Limb
               /\ x[i] + Base * c[i + 1] = Get(m, a, i) + Operand(m, b, bn, i) + c[i]
         /\ Wrote(m, s.m, r, N, x)
         /\ s.c = c[N]
  <2>1. SumsAt(m, padd(m, r, a, b, an, bn), r, N, a, b, bn)
    BY <1>1, PaddLoop
  <2>2. QED  BY <2>1 DEF SumsAt
<1>3. /\ \A i \in 0 .. N - 1 : Operand(m, a, an, i) \in Limb
      /\ Number(A, N, 0) = Value(m, a, an)
  BY NumberOfOperand
<1>4. /\ \A i \in 0 .. N - 1 : Operand(m, b, bn, i) \in Limb
      /\ Number(O, N, 0) = Value(m, b, bn)
  BY <1>1, NumberOfOperand
<1>5. \A i \in 0 .. N - 1 : A[i] = Get(m, a, i) /\ O[i] = Operand(m, b, bn, i)
  BY DEF Operand
<1> HIDE DEF s, A, O
<1>6. ASSUME NEW i \in 0 .. N - 1
      PROVE  /\ A[i] \in Int /\ O[i] \in Int /\ x[i] \in Int
             /\ x[i] + Base * c[i + 1] = 1 * A[i] + 1 * O[i] + c[i]
  <2>1. Get(m, a, i) \in Limb
    BY <1>3 DEF Operand
  <2>2. A[i] \in Int /\ O[i] \in Int /\ x[i] \in Int /\ c[i] \in Int
    <3>1. A[i] \in Limb /\ O[i] \in Limb
      BY <1>4, <1>5, <2>1
    <3>2. x[i] \in Limb
      BY <1>2
    <3>3. c[i] \in {0, 1}
      BY <1>2
    <3>4. QED  BY <3>1, <3>2, <3>3, LimbNumber
  <2>3. QED  BY <1>2, <1>5, <2>2
<1>7. \A i \in 0 .. N : c[i] \in Int
  BY <1>2
<1>8. Number(x, N, c[N]) = 1 * Number(A, N, 0) + 1 * Number(O, N, 0) + c[0]
  BY <1>6, <1>7, NumberChain
<1>9. Number(A, N, 0) \in Int /\ Number(O, N, 0) \in Int
  BY <1>3, <1>4, <1>5, NumberSign DEF Operand
<1>10. Number(x, N, c[N]) = Value(m, a, an) + Value(m, b, bn)
  BY <1>2, <1>3, <1>4, <1>8, <1>9
<1>11. OnlyAt(m, s.m, r, N) /\ s.m \in Memory(m) /\ Number(LimbsAt(s.m, r, N), N, c[N]) = Number(x, N, c[N])
  BY <1>2, <1>7, WrittenValue
<1>12. QED  BY <1>2, <1>10, <1>11 DEF s

\* The difference that hebi_psub and hebi_psuba leave, less the borrow above it, is
\* that of the operands; there is no borrow if the first is not the smaller.
THEOREM DifferenceOfPackets ==
    ASSUME NEW m, IsMemory(m), NEW r, NEW a, NEW b, NEW an \in Nat, NEW bn \in Nat, bn =< an,
           NEW N \in Nat, N = an * PacketLimbs, NEW M \in Nat, M = bn * PacketLimbs,
           Area(m, r, N), Area(m, a, N), Area(m, b, M), Follows(r, a, N), Follows(r, b, M)
    PROVE  LET s == psub(m, r, a, b, an, bn)
           IN  /\ s.c \in {0, 1} /\ OnlyAt(m, s.m, r, N) /\ s.m \in Memory(m)
               /\ Number(LimbsAt(s.m, r, N), N, -s.c) = Value(m, a, an) - Value(m, b, bn)
               /\ Value(m, a, an) >= Value(m, b, bn) => s.c = 0
<1> DEFINE s == psub(m, r, a, b, an, bn)
           A == [i \in 0 .. N - 1 |-> Operand(m, a, an, i)]
           O == [i \in 0 .. N - 1 |-> Operand(m, b, bn, i)]
<1>1. M =< N
  BY MoreLimbs
<1>2. PICK c, x :
         /\ c \in [0 .. N -> {0, 1}] /\ c[0] = 0
         /\ \A i \in 0 .. N - 1 :
               /\ x[i] \in Limb
               /\ x[i] - Base * c[i + 1] = Get(m, a, i) - Operand(m, b, bn, i) - c[i]
         /\ Wrote(m, s.m, r, N, x)
         /\ s.c = c[N]
  <2>1. DiffsAt(m, psub(m, r, a, b, an, bn), r, N, a, b, bn)
    BY <1>1, PsubLoop
  <2>2. QED  BY <2>1 DEF DiffsAt
<1>3. /\ \A i \in 0 .. N - 1 : Operand(m, a, an, i) \in Limb
      /\ Number(A, N, 0) = Value(m, a, an)
  BY NumberOfOperand
<1>4. /\ \A i \in 0 .. N - 1 : Operand(m, b, bn, i) \in Limb
      /\ Number(O, N, 0) = Value(m, b, bn)
  BY <1>1, NumberOfOperand
<1>5. \A i \in 0 .. N - 1 : A[i] = Get(m, a, i) /\ O[i] = Operand(m, b, bn, i)
  BY DEF Operand
<1> HIDE DEF s, A, O
<1> DEFINE d == [i \in 0 .. N |-> -c[i]]
<1>6. ASSUME NEW i \in 0 .. N - 1
      PROVE  /\ A[i] \in Int /\ O[i] \in Int /\ x[i] \in Int
             /\ x[i] + Base * d[i + 1] = 1 * A[i] + (-1) * O[i] + d[i]
  <2>1. Get(m, a, i) \in Limb
    BY <1>3 DEF Operand
  <2>2. A[i] \in Int /\ O[i] \in Int /\ x[i] \in Int /\ c[i] \in Int
    <3>1. A[i] \in Limb /\ O[i] \in Limb
      BY <1>4, <1>5, <2>1
    <3>2. x[i] \in Limb
      BY <1>2
    <3>3. c[i] \in {0, 1}
      BY <1>2
    <3>4. QED  BY <3>1, <3>2, <3>3, LimbNumber
  <2>3. c[i + 1] \in {0, 1} /\ d[i + 1] = -c[i + 1] /\ d[i] = -c[i]
    BY <1>2
  <2>4. x[i] - Base * c[i + 1] = A[i] - O[i] - c[i]
    BY <1>2, <1>5
  <2>5. Base * d[i + 1] = -(Base * c[i + 1]) /\ Base * c[i + 1] \in Int
    BY <2>3, BaseFacts
  <2> HIDE DEF d
  <2>6. QED  BY <2>2, <2>3, <2>4, <2>5
<1>7. (\A i \in 0 .. N : d[i] \in Int) /\ d[0] = 0 /\ d[N] = -c[N] /\ c[N] \in {0, 1}
  BY <1>2
<1> HIDE DEF d
<1>8. Number(x, N, d[N]) = 1 * Number(A, N, 0) + (-1) * Number(O, N, 0) + d[0]
  BY <1>6, <1>7, NumberChain
<1>9. Number(A, N, 0) \in Int /\ Number(O, N, 0) \in Int
  BY <1>3, <1>4, <1>5, NumberSign DEF Operand
<1>10. Number(x, N, -c[N]) = Value(m, a, an) - Value(m, b, bn)
  BY <1>3, <1>4, <1>7, <1>8, <1>9
<1>11. Value(m, a, an) >= Value(m, b, bn) => c[N] = 0
  <2>1. Number(x, N, -1) < 0
    BY <1>2, NumberSign
  <2>2. c[N] = 1 => Value(m, a, an) - Value(m, b, bn) < 0
    BY <1>10, <2>1
  <2>3. QED  BY <1>3, <1>4, <1>7, <1>9, <2>2
<1>12. OnlyAt(m, s.m, r, N) /\ s.m \in Memory(m) /\ Number(LimbsAt(s.m, r, N), N, -c[N]) = Number(x, N, -c[N])
  <2>1. -c[N] \in Int
    BY <1>7
  <2>2. QED  BY <1>2, <2>1, WrittenValue
<1>13. QED  BY <1>2, <1>7, <1>10, <1>11, <1>12 DEF s

\* hebi_paddu adds a word, the carry of which is at most 1 if there is a packet.
THEOREM WordSumOfPackets ==
    ASSUME NEW m, IsMemory(m), NEW r, NEW a, NEW n \in Nat, NEW w \in Limb,
           NEW N \in Nat, N = n * PacketLimbs, Area(m, r, N), Area(m, a, N), Follows(r, a, N)
    PROVE  LET s == paddu(m, r, a, w, n)
           IN  /\ s.c \in Limb /\ OnlyAt(m, s.m, r, N) /\ s.m \in Memory(m)
               /\ N > 0 => s.c \in {0, 1}
               /\ Number(LimbsAt(s.m, r, N), N, s.c) = Value(m, a, n) + w
<1> DEFINE s == paddu(m, r, a, w, n)
           A == [i \in 0 .. N - 1 |-> Operand(m, a, n, i)]
<1>1. PICK c, x :
         /\ c \in [0 .. N -> Limb] /\ c[0] = w
         /\ \A i \in 0 .. N - 1 :
               /\ x[i] \in Limb /\ c[i + 1] \in {0, 1}
               /\ x[i] + Base * c[i + 1] = Get(m, a, i) + c[i]
         /\ Wrote(m, s.m, r, N, x)
         /\ s.c = c[N]
  <2>1. WordSumsAt(m, paddu(m, r, a, w, n), r, N, a, w)
    BY PadduLoop
  <2>2. QED  BY <2>1 DEF WordSumsAt
<1>2. /\ \A i \in 0 .. N - 1 : Operand(m, a, n, i) \in Limb
      /\ Number(A, N, 0) = Value(m, a, n)
  BY NumberOfOperand
<1>3. \A i \in 0 .. N - 1 : A[i] = Get(m, a, i) /\ A[i] \in Limb
  BY <1>2 DEF Operand
<1> HIDE DEF s, A
<1>4. \A i \in 0 .. N : c[i] \in Int
  BY <1>1, LimbNumber
<1>5. ASSUME NEW i \in 0 .. N - 1
      PROVE  /\ A[i] \in Int /\ x[i] \in Int
             /\ x[i] + Base * c[i + 1] = 1 * A[i] + 0 * A[i] + c[i]
  <2>1. A[i] \in Int /\ x[i] \in Int /\ c[i] \in Int
    BY <1>1, <1>3, <1>4, LimbNumber
  <2>2. x[i] + Base * c[i + 1] = A[i] + c[i]
    BY <1>1, <1>3
  <2>3. QED  BY <2>1, <2>2
<1>6. Number(x, N, c[N]) = 1 * Number(A, N, 0) + 0 * Number(A, N, 0) + c[0]
  BY <1>4, <1>5, NumberChain
<1>7. Number(A, N, 0) \in Int
  BY <1>3, NumberSign
<1>8. Number(x, N, c[N]) = Value(m, a, n) + w
  BY <1>1, <1>2, <1>6, <1>7, LimbNumber
<1>9. OnlyAt(m, s.m, r, N) /\ s.m \in Memory(m) /\ Number(LimbsAt(s.m, r, N), N, c[N]) = Number(x, N, c[N])
  BY <1>1, <1>4, WrittenValue
<1>10. c[N] \in Limb /\ (N > 0 => c[N] \in {0, 1})
  <2>1. N > 0 => N - 1 \in 0 .. N - 1 /\ (N - 1) + 1 = N
    OBVIOUS
  <2>2. QED  BY <1>1, <2>1
<1>11. QED  BY <1>1, <1>8, <1>9, <1>10 DEF s

\* hebi_psubu takes a word off; there is no borrow if the number is not smaller.
THEOREM WordDifferenceOfPackets ==
    ASSUME NEW m, IsMemory(m), NEW r, NEW a, NEW n \in Nat, NEW w \in Limb,
           NEW N \in Nat, N = n * PacketLimbs, Area(m, r, N), Area(m, a, N), Follows(r, a, N)
    PROVE  LET s == psubu(m, r, a, w, n)
           IN  /\ s.c \in Limb /\ OnlyAt(m, s.m, r, N) /\ s.m \in Memory(m)
               /\ Number(LimbsAt(s.m, r, N), N, -s.c) = Value(m, a, n) - w
               /\ Value(m, a, n) >= w => s.c = 0
<1> DEFINE s == psubu(m, r, a, w, n)
           A == [i \in 0 .. N - 1 |-> Operand(m, a, n, i)]
<1>1. PICK c, x :
         /\ c \in [0 .. N -> Limb] /\ c[0] = w
         /\ \A i \in 0 .. N - 1 :
               /\ x[i] \in Limb /\ c[i + 1] \in {0, 1}
               /\ x[i] - Base * c[i + 1] = Get(m, a, i) - c[i]
         /\ Wrote(m, s.m, r, N, x)
         /\ s.c = c[N]
  <2>1. WordDiffsAt(m, psubu(m, r, a, w, n), r, N, a, w)
    BY PsubuLoop
  <2>2. QED  BY <2>1 DEF WordDiffsAt
<1>2. /\ \A i \in 0 .. N - 1 : Operand(m, a, n, i) \in Limb
      /\ Number(A, N, 0) = Value(m, a, n)
  BY NumberOfOperand
<1>3. \A i \in 0 .. N - 1 : A[i] = Get(m, a, i) /\ A[i] \in Limb
  BY <1>2 DEF Operand
<1> HIDE DEF s, A
<1> DEFINE d == [i \in 0 .. N |-> -c[i]]
<1>4. /\ \A i \in 0 .. N : d[i] \in Int /\ d[i] = -c[i] /\ c[i] \in Int
      /\ d[0] = -w /\ d[N] = -c[N] /\ c[N] \in Limb
  <2>1. \A i \in 0 .. N : c[i] \in Limb /\ d[i] = -c[i]
    BY <1>1
  <2>2. c[0] = w /\ 0 \in 0 .. N /\ N \in 0 .. N
    BY <1>1
  <2> HIDE DEF d
  <2>3. \A i \in 0 .. N : c[i] \in Int
    BY <2>1, LimbNumber
  <2>4. \A i \in 0 .. N : d[i] \in Int
    BY <2>1, <2>3
  <2>5. QED  BY <2>1, <2>2, <2>3, <2>4
<1> HIDE DEF d
<1>5. ASSUME NEW i \in 0 .. N - 1
      PROVE  /\ A[i] \in Int /\ x[i] \in Int
             /\ x[i] + Base * d[i + 1] = 1 * A[i] + 0 * A[i] + d[i]
  <2>1. A[i] \in Int /\ x[i] \in Int /\ c[i] \in Int
    BY <1>1, <1>3, <1>4, LimbNumber
  <2>2. x[i] - Base * c[i + 1] = A[i] - c[i]
    BY <1>1, <1>3
  <2>3. c[i + 1] \in Int /\ d[i + 1] = -c[i + 1] /\ d[i] = -c[i]
    BY <1>4
  <2>4. Base * d[i + 1] = -(Base * c[i + 1]) /\ Base * c[i + 1] \in Int
    BY <2>3, BaseFacts
  <2>5. QED  BY <2>1, <2>2, <2>3, <2>4
<1>6. Number(x, N, d[N]) = 1 * Number(A, N, 0) + 0 * Number(A, N, 0) + d[0]
  BY <1>4, <1>5, NumberChain
<1>7. Number(A, N, 0) \in Int /\ w \in Int
  BY <1>3, NumberSign, LimbNumber
<1>8. Number(x, N, -c[N]) = Value(m, a, n) - w
  BY <1>2, <1>4, <1>6, <1>7
<1>9. Value(m, a, n) >= w => c[N] = 0
  <2>1. c[N] \in Int /\ c[N] >= 0 /\ -c[N] \in Int
    BY <1>4, LimbNumber
  <2>2. -c[N] < 0 => Number(x, N, -c[N]) < 0
    BY <1>1, <2>1, NumberSign
  <2>3. QED  BY <1>2, <1>7, <1>8, <2>1, <2>2
<1>10. OnlyAt(m, s.m, r, N) /\ s.m \in Memory(m) /\ Number(LimbsAt(s.m, r, N), N, -c[N]) = Number(x, N, -c[N])
  <2>1. -c[N] \in Int
    BY <1>4, LimbNumber
  <2>2. QED  BY <1>1, <2>1, WrittenValue
<1>11. QED  BY <1>1, <1>4, <1>8, <1>9, <1>10 DEF s

-----------------------------------------------------------------------------
(* Length and order *)

LEMMA MaxOf ==
    ASSUME NEW n \in Nat, NEW S, S \subseteq 0 .. n - 1, S # {}
    PROVE  Max(S) \in S /\ \A y \in S : y =< Max(S)
<1> DEFINE T == {n - 1 - x : x \in S}
<1>1. (\A x \in T : x \in Nat) /\ T # {}
  <2>1. ASSUME NEW y \in S PROVE n - 1 - y \in Nat
    OBVIOUS
  <2>2. QED  BY <2>1
<1>2. PICK z \in T : \A x \in T : ~(<<x, z>> \in OpToRel(<, Nat))
  BY <1>1, NatLessThanWellFounded, WFMin
<1>3. \A x \in T : ~(x < z)
  BY <1>1, <1>2 DEF OpToRel
<1>4. PICK w \in S : z = n - 1 - w
  BY <1>2
<1>5. ASSUME NEW y \in S PROVE w >= y
  <2>1. ~(n - 1 - y < z)
    BY <1>3
  <2>2. QED  BY <1>4, <2>1
<1>6. Max(S) = CHOOSE x \in S : \A y \in S : x >= y
  BY DEF Max
<1>7. QED  BY <1>5, <1>6

\* Limb j is one of packet k.
LEMMA PacketOf ==
    ASSUME NEW j \in Nat, NEW k, k = (j + PacketLimbs) \div PacketLimbs
    PROVE  k \in Nat \ {0} /\ (k - 1) * PacketLimbs =< j /\ j < k * PacketLimbs
<1> DEFINE q == (j + PacketLimbs) % PacketLimbs
<1>1. PacketLimbs \in Nat \ {0}
  BY PacketsAssumption
<1>2. /\ q \in 0 .. PacketLimbs - 1 /\ k \in Int
      /\ j + PacketLimbs = PacketLimbs * k + q
  BY <1>1
<1> HIDE DEF q
<1>3. \A i \in Int : (i - 1) * PacketLimbs = PacketLimbs * i - PacketLimbs /\ i * PacketLimbs = PacketLimbs * i
  BY <1>1
<1>4. k =< 0 => PacketLimbs * k =< PacketLimbs * 0
  BY <1>1, <1>2
<1>5. k > 0
  BY <1>1, <1>2, <1>4
<1>6. (k - 1) * PacketLimbs = PacketLimbs * k - PacketLimbs /\ k * PacketLimbs = PacketLimbs * k
  BY <1>2, <1>3
<1> DEFINE z == PacketLimbs * k
<1>7. z \in Int
  BY <1>1, <1>2
<1> HIDE DEF z
<1>8. QED  BY <1>1, <1>2, <1>5, <1>6, <1>7 DEF z

\* The n-th packet at a is not zero.
Top(m, a, n) == \E i \in (n - 1) * PacketLimbs .. n * PacketLimbs - 1 : Get(m, a, i) # 0

\* hebi_pnorm finds the length of the number without the zeros above it.
THEOREM NormOfPackets ==
    ASSUME NEW m, IsMemory(m), NEW a, NEW n \in Nat, NEW N \in Nat, N = n * PacketLimbs,
           Area(m, a, N)
    PROVE  LET k == pnorm(m, a, n)
           IN  /\ k \in 0 .. n /\ Value(m, a, k) = Value(m, a, n)
               /\ k > 0 => Top(m, a, k)
               /\ n > 0 /\ Top(m, a, n) => k = n
<1> DEFINE nz == NonZero(m, a, n)
           k == pnorm(m, a, n)
           K == k * PacketLimbs
<1>1. nz \subseteq 0 .. N - 1 /\ \A i \in 0 .. N - 1 : i \in nz <=> Get(m, a, i) # 0
  BY DEF NonZero
<1>2. \A i \in 0 .. N - 1 : Get(m, a, i) \in Limb
  BY GetLimb DEF IsMemory
<1>3. k \in 0 .. n /\ (k > 0 => Top(m, a, k)) /\ \A i \in K .. N - 1 : Get(m, a, i) = 0
  <2>1. CASE nz = {}
    <3>1. k = 0 /\ K = 0
      BY <2>1, PacketsAssumption DEF pnorm
    <3>2. QED  BY <1>1, <2>1, <3>1
  <2>2. CASE nz # {}
    <3> DEFINE j == Max(nz)
    <3>1. j \in nz /\ j \in 0 .. N - 1 /\ \A y \in nz : y =< j
      BY <1>1, <2>2, MaxOf
    <3>2. k = (j + PacketLimbs) \div PacketLimbs
      BY <2>2 DEF pnorm
    <3> HIDE DEF j, nz, k
    <3>3. k \in Nat \ {0} /\ (k - 1) * PacketLimbs =< j /\ j < K
      BY <3>1, <3>2, PacketOf
    <3>4. k =< n
      <4>1. n =< k - 1 => n * PacketLimbs =< (k - 1) * PacketLimbs
        BY <3>3, MoreLimbs
      <4>2. n * PacketLimbs \in Nat /\ (k - 1) * PacketLimbs \in Nat
        BY <3>3, MoreLimbs
      <4>3. QED  BY <3>1, <3>3, <4>1, <4>2
    <3>5. K \in Nat /\ (k - 1) * PacketLimbs \in Nat
      BY <3>3, MoreLimbs
    <3>6. Top(m, a, k)
      <4>1. j \in (k - 1) * PacketLimbs .. K - 1 /\ Get(m, a, j) # 0
        BY <1>1, <3>1, <3>3, <3>5
      <4>2. QED  BY <4>1 DEF Top
    <3>7. \A i \in K .. N - 1 : Get(m, a, i) = 0
      BY <1>1, <3>1, <3>3, <3>5
    <3>8. QED  BY <3>3, <3>4, <3>6, <3>7
  <2>3. QED  BY <2>1, <2>2
<1> HIDE DEF nz, k
<1>4. K \in Nat /\ K =< N
  BY <1>3, MoreLimbs
<1>5. Value(m, a, k) = Value(m, a, n)
  <2> DEFINE d == LimbsAt(m, a, N)
             e == LimbsAt(m, a, K)
  <2>1. ASSUME NEW i \in 0 .. N - 1 PROVE d[i] \in Int /\ (i >= K => d[i] = 0) /\ (i < K => e[i] = d[i])
    BY <1>2, <1>3, <1>4, LimbNumber DEF LimbsAt
  <2>2. Value(m, a, n) = Number(d, N, 0)
    BY <1>2, NumberOfLimbs
  <2>3. Value(m, a, k) = Number(e, K, 0)
    <3>1. \A i \in 0 .. K - 1 : Get(m, a, i) \in Limb
      BY <1>2, <1>4
    <3>2. QED  BY <1>3, <1>4, <3>1, NumberOfLimbs
  <2> HIDE DEF d, e, K
  <2>4. /\ \A i \in 0 .. N - 1 : d[i] \in Int
        /\ \A i \in 0 .. K - 1 : e[i] = d[i]
        /\ \A i \in K .. N - 1 : d[i] = 0
    BY <1>4, <2>1
  <2>5. Number(d, N, 0) = Number(e, K, 0)
    BY <1>4, <2>4, NumberPadded
  <2>6. QED  BY <2>2, <2>3, <2>5
<1>6. ASSUME n > 0, Top(m, a, n) PROVE k = n
  <2>1. PICK i \in (n - 1) * PacketLimbs .. N - 1 : Get(m, a, i) # 0
    BY <1>6 DEF Top
  <2>2. (n - 1) * PacketLimbs \in Nat /\ i < K
    <3>1. (n - 1) * PacketLimbs \in Nat
      BY <1>6, MoreLimbs
    <3>2. QED  BY <1>3, <1>4, <2>1, <3>1
  <2>3. k =< n - 1 => K =< (n - 1) * PacketLimbs
    BY <1>3, <1>6, MoreLimbs
  <2>4. QED  BY <1>3, <1>4, <2>1, <2>2, <2>3
<1>7. QED  BY <1>3, <1>5, <1>6 DEF k

\* hebi_pcmp orders numbers of one length.
THEOREM OrderOfPackets ==
    ASSUME NEW m, IsMemory(m), NEW a, NEW b, NEW n \in Nat, NEW N \in Nat, N = n * PacketLimbs,
           Area(m, a, N), Area(m, b, N)
    PROVE  /\ Value(m, a, n) \in Int /\ Value(m, b, n) \in Int
           /\ pcmp(m, a, b, n) = IF Value(m, a, n) < Value(m, b, n) THEN -1
                                 ELSE IF Value(m, a, n) > Value(m, b, n) THEN 1 ELSE 0
<1> DEFINE diff == {i \in 0 .. n * PacketLimbs - 1 : Get(m, a, i) # Get(m, b, i)}
           A == LimbsAt(m, a, N)
           B == LimbsAt(m, b, N)
           j == Max(diff)
<1>1. \A i \in 0 .. N - 1 : /\ A[i] = Get(m, a, i) /\ B[i] = Get(m, b, i)
                            /\ A[i] \in Limb /\ B[i] \in Limb
  BY GetLimb DEF IsMemory, LimbsAt
<1>2. Value(m, a, n) = Number(A, N, 0) /\ Value(m, b, n) = Number(B, N, 0)
  BY <1>1, NumberOfLimbs
<1>3. pcmp(m, a, b, n) = IF diff = {} THEN 0 ELSE IF Get(m, a, j) < Get(m, b, j) THEN -1 ELSE 1
  BY DEF pcmp
<1>4. diff \subseteq 0 .. N - 1 /\ \A i \in 0 .. N - 1 : i \notin diff => A[i] = B[i]
  BY <1>1
<1>5. Number(A, N, 0) \in Int /\ Number(B, N, 0) \in Int
  BY <1>1, NumberSign
<1>6. CASE diff = {}
  <2>1. \A i \in 0 .. N - 1 : A[i] \in Int /\ B[i] = A[i]
    BY <1>1, <1>4, <1>6, LimbNumber
  <2>2. Number(A, N, 0) = Number(B, N, 0)
    <3> HIDE DEF A, B
    <3>1. 0 \in Int
      OBVIOUS
    <3>2. QED  BY <2>1, <3>1, NumberSame
  <2>3. QED  BY <1>2, <1>3, <1>5, <1>6, <2>2
<1>7. CASE diff # {}
  <2>1. j \in diff /\ \A y \in diff : y =< j
    BY <1>4, <1>7, MaxOf
  <2>2. j \in 0 .. N - 1 /\ Get(m, a, j) # Get(m, b, j)
    BY <2>1
  <2> HIDE DEF j, diff, A, B
  <2>3. \A i \in j + 1 .. N - 1 : A[i] = B[i]
    BY <1>4, <2>1, <2>2
  <2>4. A[j] \in Int /\ B[j] \in Int /\ A[j] # B[j]
    BY <1>1, <2>2, LimbNumber
  <2>5. A[j] < B[j] => Number(A, N, 0) < Number(B, N, 0)
    BY <1>1, <2>2, <2>3, NumberOrder
  <2>6. B[j] < A[j] => Number(B, N, 0) < Number(A, N, 0)
    BY <1>1, <2>2, <2>3, NumberOrder
  <2>7. QED  BY <1>1, <1>2, <1>3, <1>5, <1>7, <2>2, <2>4, <2>5, <2>6
<1>8. QED  BY <1>6, <1>7

\* Of two numbers, of one memory or two, the one that has a limb where the other
\* has none is the larger.
THEOREM LongerIsLarger ==
    ASSUME NEW m, IsMemory(m), NEW t, IsMemory(t), NEW a, NEW b,
           NEW an \in Nat, NEW bn \in Nat, bn < an,
           NEW N \in Nat, N = an * PacketLimbs, NEW M \in Nat, M = bn * PacketLimbs,
           Area(m, a, N), Area(t, b, M), Top(m, a, an)
    PROVE  /\ Value(m, a, an) \in Int /\ Value(t, b, bn) \in Int
           /\ Value(t, b, bn) < Value(m, a, an)
<1> DEFINE A == [i \in 0 .. N - 1 |-> Operand(m, a, an, i)]
           O == [i \in 0 .. N - 1 |-> Operand(t, b, bn, i)]
           nz == {i \in 0 .. N - 1 : Get(m, a, i) # 0}
           j == Max(nz)
<1>1. M =< (an - 1) * PacketLimbs /\ M =< N /\ (an - 1) * PacketLimbs \in Nat
  <2>1. an - 1 \in Nat /\ bn =< an - 1
    OBVIOUS
  <2>2. QED  BY <2>1, MoreLimbs
<1>2. /\ \A i \in 0 .. N - 1 : Operand(m, a, an, i) \in Limb
      /\ Number(A, N, 0) = Value(m, a, an)
  BY NumberOfOperand
<1>3. \A i \in 0 .. N - 1 : Operand(t, b, bn, i) \in Limb
  BY <1>1, NumberOfOperand
<1>4. Number(O, N, 0) = Value(t, b, bn)
  BY <1>1, NumberOfOperand
<1>5. ASSUME NEW i \in 0 .. N - 1
      PROVE  /\ A[i] = Get(m, a, i) /\ A[i] \in Limb
             /\ O[i] \in Limb /\ (i >= M => O[i] = 0)
  <2>1. A[i] = Operand(m, a, an, i) /\ O[i] = Operand(t, b, bn, i)
    OBVIOUS
  <2>2. Operand(m, a, an, i) = Get(m, a, i) /\ (i >= M => Operand(t, b, bn, i) = 0)
    <3>1. i < an * PacketLimbs /\ M \in Int
      BY <1>1
    <3>2. QED  BY <3>1 DEF Operand
  <2>3. QED  BY <1>2, <1>3, <2>1, <2>2
<1>6. PICK i0 \in (an - 1) * PacketLimbs .. N - 1 : Get(m, a, i0) # 0
  BY DEF Top
<1>7. j \in 0 .. N - 1 /\ Get(m, a, j) # 0 /\ i0 =< j /\ \A y \in nz : y =< j
  <2>1. nz \subseteq 0 .. N - 1 /\ i0 \in nz
    BY <1>1, <1>6
  <2>2. j \in nz /\ \A y \in nz : y =< j
    BY <2>1, MaxOf
  <2>3. QED  BY <2>1, <2>2
<1> HIDE DEF A, O, j
<1>8. \A i \in j + 1 .. N - 1 : O[i] = A[i]
  <2>1. \A i \in j + 1 .. N - 1 : i \in 0 .. N - 1 /\ i >= M /\ Get(m, a, i) = 0
    BY <1>1, <1>6, <1>7
  <2>2. QED  BY <1>5, <2>1
<1>9. O[j] < A[j]
  <2>1. O[j] = 0 /\ A[j] # 0 /\ A[j] \in Limb
    BY <1>1, <1>5, <1>6, <1>7
  <2>2. QED  BY <2>1, LimbNumber
<1>10. Number(O, N, 0) < Number(A, N, 0)
  BY <1>5, <1>7, <1>8, <1>9, NumberOrder
<1>11. Number(O, N, 0) \in Int /\ Number(A, N, 0) \in Int
  BY <1>5, NumberSign
<1>12. QED  BY <1>2, <1>4, <1>10, <1>11

\* No packets are 0, and a number is not negative.
LEMMA ValueNatural ==
    ASSUME NEW m, IsMemory(m), NEW a, NEW n \in Nat, NEW N \in Nat, N = n * PacketLimbs,
           Area(m, a, N)
    PROVE  /\ Value(m, a, n) \in Int /\ Value(m, a, n) >= 0
           /\ n = 0 => Value(m, a, n) = 0
           /\ n > 0 /\ Top(m, a, n) => Value(m, a, n) > 0
<1> DEFINE A == LimbsAt(m, a, N)
<1>1. \A i \in 0 .. N - 1 : A[i] = Get(m, a, i) /\ A[i] \in Limb
  BY GetLimb DEF IsMemory, LimbsAt
<1>2. Value(m, a, n) = Number(A, N, 0)
  BY <1>1, NumberOfLimbs
<1> HIDE DEF A
<1>3. Number(A, N, 0) \in Int /\ Number(A, N, 0) >= 0
  BY <1>1, NumberSign
<1>4. Value(m, a, 0) = 0
  <2> DEFINE v == [i \in 0 .. 0 |-> 0]
  <2>1. Horner(LimbsAt(m, a, 0), 0, 0, v)
    BY DEF Horner
  <2> HIDE DEF v
  <2>2. 0 = 0 * PacketLimbs
    BY PacketsAssumption
  <2>3. Value(m, a, 0) = v[0]
    BY <2>1, <2>2, ValueOfLimbs
  <2>4. QED  BY <2>3 DEF v
<1>5. n > 0 /\ Top(m, a, n) => Value(m, a, n) > 0
  <2>1. SUFFICES ASSUME n > 0, Top(m, a, n) PROVE Value(m, a, n) > 0
    OBVIOUS
  <2>2. Area(m, a, 0) /\ 0 = 0 * PacketLimbs
    BY PacketsAssumption DEF Area
  <2>3. Value(m, a, 0) < Value(m, a, n)
    BY <2>1, <2>2, LongerIsLarger
  <2>4. QED  BY <1>4, <2>3
<1>6. QED  BY <1>2, <1>3, <1>4, <1>5

\* What is not below a number of n packets has as many.
LEMMA LargeHasTop ==
    ASSUME NEW m, IsMemory(m), NEW t, IsMemory(t), NEW a, NEW r, NEW n \in Nat, n > 0,
           NEW N \in Nat, N = n * PacketLimbs, Area(m, a, N), Area(t, r, N),
           Top(m, a, n), Value(t, r, n) >= Value(m, a, n)
    PROVE  Top(t, r, n)
<1> DEFINE k == pnorm(t, r, n)
<1>1. k \in 0 .. n /\ Value(t, r, k) = Value(t, r, n) /\ (k > 0 => Top(t, r, k))
  BY NormOfPackets
<1> HIDE DEF k
<1>2. k = n
  <2>1. SUFFICES ASSUME k < n PROVE FALSE
    BY <1>1
  <2>2. k * PacketLimbs \in Nat /\ k * PacketLimbs =< N
    BY <1>1, MoreLimbs
  <2>3. Area(t, r, k * PacketLimbs)
    BY <2>2 DEF Area
  <2>4. Value(t, r, k) < Value(m, a, n) /\ Value(m, a, n) \in Int
    BY <1>1, <2>1, <2>2, <2>3, LongerIsLarger
  <2>5. Value(t, r, n) \in Int
    BY ValueNatural
  <2>6. QED  BY <1>1, <2>4, <2>5
<1>3. QED  BY <1>1, <1>2

\* More packets are the lower ones under the upper ones.
LEMMA ValueSplit ==
    ASSUME NEW m, IsMemory(m), NEW b, NEW n \in Nat,
           NEW N \in Nat, N = n * PacketLimbs,
           NEW K \in Nat, K = N + PacketLimbs, Area(m, Ptr(b), K)
    PROVE  /\ Value(m, Ptr(b), n + 1) = Number(LimbsAt(m, Ptr(b), N), N, Value(m, Skip(Ptr(b), n), 1))
           /\ Top(m, Skip(Ptr(b), n), 1) => Top(m, Ptr(b), n + 1)
           /\ Area(m, Skip(Ptr(b), n), PacketLimbs)
<1> DEFINE d == LimbsAt(m, Ptr(b), K)
           e == LimbsAt(m, Skip(Ptr(b), n), PacketLimbs)
<1>1. /\ PacketLimbs \in Nat /\ K = (n + 1) * PacketLimbs /\ PacketLimbs = 1 * PacketLimbs
      /\ (1 - 1) * PacketLimbs = 0 /\ n * PacketLimbs = ((n + 1) - 1) * PacketLimbs
  BY PacketsAssumption
<1>2. \A i \in Nat : Get(m, Skip(Ptr(b), n), i) = Get(m, Ptr(b), N + i)
  BY DEF Get, Skip, Ptr
<1>3. \A i \in 0 .. K - 1 : Get(m, Ptr(b), i) \in Limb
  <2>1. m \in Memory(m)
    BY DEF IsMemory
  <2>2. QED  BY <2>1, GetLimb
<1>4. Value(m, Ptr(b), n + 1) = Number(d, K, 0)
  <2>1. n + 1 \in Nat
    OBVIOUS
  <2>2. QED  BY <1>1, <1>3, <2>1, NumberOfLimbs
<1>5. ASSUME NEW i \in 0 .. PacketLimbs - 1
      PROVE  Get(m, Skip(Ptr(b), n), i) \in Limb /\ e[i] = d[N + i]
  <2>1. N + i \in 0 .. K - 1
    BY <1>1
  <2>2. e[i] = Get(m, Skip(Ptr(b), n), i) /\ d[N + i] = Get(m, Ptr(b), N + i)
    BY <2>1 DEF LimbsAt
  <2>3. QED  BY <1>2, <1>3, <2>1, <2>2
<1>6. Value(m, Skip(Ptr(b), n), 1) = Number(e, PacketLimbs, 0)
  BY <1>1, <1>5, NumberOfLimbs
<1>7. ASSUME NEW i \in 0 .. K - 1 PROVE d[i] \in Int /\ d[i] = Get(m, Ptr(b), i)
  <2>1. d[i] = Get(m, Ptr(b), i)
    BY DEF LimbsAt
  <2>2. QED  BY <1>3, <2>1, LimbNumber
<1> HIDE DEF d, e
<1>8. Number(d, K, 0) = Number(d, N, Number(e, PacketLimbs, 0)) /\ Number(e, PacketLimbs, 0) \in Int
  <2>1. 0 \in Int
    OBVIOUS
  <2>2. QED  BY <1>1, <1>5, <1>7, <2>1, NumberSplit
<1>9. Number(d, N, Number(e, PacketLimbs, 0)) = Number(LimbsAt(m, Ptr(b), N), N, Number(e, PacketLimbs, 0))
  <2>1. ASSUME NEW i \in 0 .. N - 1 PROVE d[i] \in Int /\ LimbsAt(m, Ptr(b), N)[i] = d[i]
    <3>1. i \in 0 .. K - 1
      BY <1>1
    <3>2. LimbsAt(m, Ptr(b), N)[i] = Get(m, Ptr(b), i)
      BY DEF LimbsAt
    <3>3. QED  BY <1>7, <3>1, <3>2
  <2>2. QED  BY <1>8, <2>1, NumberSame
<1>10. Top(m, Skip(Ptr(b), n), 1) => Top(m, Ptr(b), n + 1)
  <2>1. SUFFICES ASSUME Top(m, Skip(Ptr(b), n), 1) PROVE Top(m, Ptr(b), n + 1)
    OBVIOUS
  <2>2. PICK i \in 0 .. PacketLimbs - 1 : Get(m, Skip(Ptr(b), n), i) # 0
    BY <1>1, <2>1 DEF Top
  <2>3. N + i \in N .. K - 1 /\ Get(m, Ptr(b), N + i) # 0
    BY <1>1, <1>2, <2>2
  <2>4. QED  BY <1>1, <2>3 DEF Top
<1>11. Area(m, Skip(Ptr(b), n), PacketLimbs)
  <2>1. ASSUME NEW i \in 0 .. PacketLimbs - 1 PROVE 0 + N + i \in DOMAIN m[b]
    <3>1. N + i \in 0 .. K - 1
      BY <1>1
    <3>2. Ptr(b).buf = b /\ Ptr(b).at = 0
      BY DEF Ptr
    <3>3. 0 + (N + i) \in DOMAIN m[b]
      BY <3>1, <3>2 DEF Area
    <3>4. QED  BY <3>1, <3>3
  <2>2. QED  BY <1>1, <2>1 DEF Area, Skip, Ptr
<1>12. QED  BY <1>4, <1>6, <1>8, <1>9, <1>10, <1>11

-----------------------------------------------------------------------------
(* Copies, and what kernels leave alone *)

\* Where the limbs are the same the packets stand for the same number.
LEMMA SameLimbs ==
    ASSUME NEW m, NEW a, NEW t, NEW p, NEW n \in Nat, NEW N \in Nat, N = n * PacketLimbs,
           \A i \in 0 .. N - 1 : Get(m, a, i) \in Limb /\ Get(t, p, i) = Get(m, a, i)
    PROVE  /\ Value(t, p, n) = Value(m, a, n)
           /\ n > 0 => (Top(t, p, n) <=> Top(m, a, n))
<1> DEFINE A == LimbsAt(m, a, N)
           P == LimbsAt(t, p, N)
<1>1. \A i \in 0 .. N - 1 : A[i] = Get(m, a, i) /\ P[i] = A[i]
  BY DEF LimbsAt
<1>2. Value(m, a, n) = Number(A, N, 0) /\ Value(t, p, n) = Number(P, N, 0)
  <2>1. \A i \in 0 .. N - 1 : Get(m, a, i) \in Limb
    OBVIOUS
  <2>2. \A i \in 0 .. N - 1 : Get(t, p, i) \in Limb
    OBVIOUS
  <2>3. QED  BY <2>1, <2>2, NumberOfLimbs
<1> HIDE DEF A, P
<1>3. Number(A, N, 0) = Number(P, N, 0)
  <2>1. \A i \in 0 .. N - 1 : A[i] \in Int /\ P[i] = A[i]
    BY <1>1, LimbNumber
  <2>2. 0 \in Int
    OBVIOUS
  <2>3. QED  BY <2>1, <2>2, NumberSame
<1>4. n > 0 => (Top(t, p, n) <=> Top(m, a, n))
  <2>1. SUFFICES ASSUME n > 0 PROVE Top(t, p, n) <=> Top(m, a, n)
    OBVIOUS
  <2>2. (n - 1) * PacketLimbs \in Nat
    BY <2>1, MoreLimbs
  <2>3. \A i \in (n - 1) * PacketLimbs .. N - 1 : i \in 0 .. N - 1
    BY <2>2
  <2>4. QED  BY <2>3 DEF Top
<1>5. QED  BY <1>2, <1>3, <1>4

\* hebi_pcopy makes the packets at r those at a.
THEOREM CopyOfPackets ==
    ASSUME NEW m, IsMemory(m), NEW r, NEW a, NEW n \in Nat,
           NEW N \in Nat, N = n * PacketLimbs, Area(m, r, N), Area(m, a, N), Follows(r, a, N)
    PROVE  LET t == pcopy(m, r, a, n)
           IN  /\ OnlyAt(m, t, r, N) /\ t \in Memory(m)
               /\ Value(t, r, n) = Value(m, a, n)
               /\ n > 0 => (Top(t, r, n) <=> Top(m, a, n))
<1> DEFINE t == pcopy(m, r, a, n)
<1>1. PICK x : /\ \A i \in 0 .. N - 1 : x[i] \in Limb /\ x[i] = Get(m, a, i)
               /\ Wrote(m, t, r, N, x)
  BY PcopyLoop
<1> HIDE DEF t
<1>2. /\ OnlyAt(m, t, r, N) /\ t \in Memory(m)
      /\ \A i \in 0 .. N - 1 : LimbsAt(t, r, N)[i] = x[i]
  BY <1>1, WrittenValue
<1>3. \A i \in 0 .. N - 1 : Get(m, a, i) \in Limb /\ Get(t, r, i) = Get(m, a, i)
  BY <1>1, <1>2 DEF LimbsAt
<1>4. QED  BY <1>2, <1>3, SameLimbs DEF t

\* hebi_psetu makes a packet of a word.
THEOREM PacketOfWord ==
    ASSUME NEW m, IsMemory(m), NEW r, NEW w \in Limb,
           NEW N \in Nat, N = PacketLimbs, Area(m, r, N)
    PROVE  LET t == psetu(m, r, w)
           IN  /\ OnlyAt(m, t, r, N) /\ t \in Memory(m)
               /\ Value(t, r, 1) = w
               /\ w # 0 => Top(t, r, 1)
<1> DEFINE t == psetu(m, r, w)
           d == LimbsAt(t, r, N)
<1>1. PICK x : /\ \A i \in 0 .. N - 1 : x[i] \in Limb /\ x[i] = (IF i = 0 THEN w ELSE 0)
               /\ Wrote(m, t, r, N, x)
  BY PsetuLoop
<1> HIDE DEF t
<1>2. /\ OnlyAt(m, t, r, N) /\ t \in Memory(m)
      /\ \A i \in 0 .. N - 1 : d[i] = x[i]
  BY <1>1, WrittenValue
<1>3. N = 1 * PacketLimbs /\ N > 0 /\ 0 * PacketLimbs = 0
  BY PacketsAssumption
<1>4. \A i \in 0 .. N - 1 : Get(t, r, i) = d[i] /\ d[i] \in Limb /\ d[i] = (IF i = 0 THEN w ELSE 0)
  BY <1>1, <1>2 DEF LimbsAt
<1>5. Value(t, r, 1) = Number(d, N, 0)
  <2>1. \A i \in 0 .. N - 1 : Get(t, r, i) \in Limb
    BY <1>4
  <2>2. QED  BY <1>3, <2>1, NumberOfLimbs
<1> HIDE DEF d
<1>6. Number(d, N, 0) = w
  <2> DEFINE e == [i \in 0 .. 0 |-> w]
             v == [i \in 0 .. 1 |-> IF i = 0 THEN w ELSE 0]
  <2>1. Horner(e, 1, 0, v)
    BY LimbNumber, BaseFacts DEF Horner
  <2>2. \A i \in 0 .. N - 1 : d[i] \in Int
    BY <1>4, LimbNumber
  <2>3. (\A i \in 0 .. 1 - 1 : e[i] = d[i]) /\ (\A i \in 1 .. N - 1 : d[i] = 0)
    BY <1>3, <1>4
  <2>4. v[0] = w
    OBVIOUS
  <2> HIDE DEF e, v
  <2>5. Number(d, N, 0) = Number(e, 1, 0)
    BY <1>3, <2>2, <2>3, NumberPadded
  <2>6. Number(e, 1, 0) = v[0]
    BY <2>1, NumberIs
  <2>7. QED  BY <2>4, <2>5, <2>6
<1>7. w # 0 => Top(t, r, 1)
  <2>1. 0 \in (1 - 1) * PacketLimbs .. 1 * PacketLimbs - 1 /\ Get(t, r, 0) = w
    BY <1>3, <1>4
  <2>2. QED  BY <2>1 DEF Top
<1>8. QED  BY <1>2, <1>5, <1>6, <1>7 DEF t

\* Packets apart from the result are what they were.
LEMMA Apart ==
    ASSUME NEW m, IsMemory(m), NEW t, NEW r, NEW k, OnlyAt(m, t, r, k),
           NEW a, NEW n \in Nat, Area(m, a, n), r.at \in Nat, k \in Nat,
           a.buf # r.buf \/ a.at + n =< r.at \/ r.at + k =< a.at
    PROVE  \A i \in 0 .. n - 1 : Get(m, a, i) \in Limb /\ Get(t, a, i) = Get(m, a, i)
<1>1. \A i \in 0 .. n - 1 : Get(m, a, i) \in Limb
  BY GetLimb DEF IsMemory
<1>2. ASSUME NEW i \in 0 .. n - 1 PROVE Get(t, a, i) = Get(m, a, i)
  <2>1. a.buf \in DOMAIN m /\ a.at \in Nat /\ a.at + i \in DOMAIN m[a.buf]
    BY DEF Area
  <2>2. a.buf # r.buf \/ a.at + i \notin r.at .. r.at + k - 1
    BY <2>1
  <2>3. QED  BY <2>1, <2>2 DEF OnlyAt, Get
<1>3. QED  BY <1>1, <1>2

-----------------------------------------------------------------------------
(* The first limb *)

\* A number is its first limb and Base times the rest.
LEMMA NumberFirst ==
    ASSUME NEW n \in Nat, n > 0, NEW d, \A i \in 0 .. n - 1 : d[i] \in Limb
    PROVE  \E k \in Int : /\ Number(d, n, 0) = d[0] + Base * k /\ k >= 0
                          /\ n = 1 => k = 0
                          /\ (\E j \in 1 .. n - 1 : d[j] # 0) => k > 0
<1> DEFINE e == [i \in 0 .. n - 2 |-> d[1 + i]]
           k == Number(e, n - 1, 0)
<1>1. n - 1 \in Nat /\ 1 + (n - 1) = n /\ 0 \in Int /\ 1 \in Nat
  OBVIOUS
<1>2. /\ \A i \in 0 .. n - 1 : d[i] \in Int
      /\ \A i \in 0 .. (n - 1) - 1 : e[i] = d[1 + i] /\ e[i] \in Limb /\ e[i] \in Int
  <2>1. \A i \in 0 .. n - 1 : d[i] \in Int
    BY LimbNumber
  <2>2. \A i \in 0 .. (n - 1) - 1 : e[i] = d[1 + i] /\ 1 + i \in 0 .. n - 1
    BY <1>1
  <2>3. QED  BY <2>1, <2>2
<1> HIDE DEF e
<1>3. Number(d, 1 + (n - 1), 0) = Number(d, 1, k) /\ k \in Int
  <2>1. /\ \A i \in 0 .. (1 + (n - 1)) - 1 : d[i] \in Int
        /\ \A i \in 0 .. (n - 1) - 1 : e[i] = d[1 + i]
    BY <1>1, <1>2
  <2>2. QED  BY <1>1, <2>1, NumberSplit
<1>4. k >= 0
  BY <1>1, <1>2, NumberSign
<1>5. Number(d, 1, k) = d[0] + Base * k
  <2>1. ASSUME NEW v, Horner(d, 1, k, v) PROVE v[0] = d[0] + Base * k
    BY <2>1 DEF Horner
  <2>2. PICK v : Horner(d, 1, k, v)
    BY <1>2, <1>3, HornerExists
  <2>3. QED  BY <2>1, <2>2, NumberIs
<1>6. n = 1 => k = 0
  <2> HAVE n = 1
  <2>1. PICK v : Horner(e, 0, 0, v)
    BY HornerExists
  <2>2. v[0] = 0
    BY <2>1 DEF Horner
  <2>3. QED  BY <2>1, <2>2, NumberIs
<1>7. ASSUME NEW j \in 1 .. n - 1, d[j] # 0 PROVE k > 0
  <2> DEFINE l == j - 1
             h == n - j
             f == [i \in 0 .. h - 1 |-> e[l + i]]
  <2>1. l \in Nat /\ h \in Nat /\ h > 0 /\ l + h = n - 1 /\ l \in 0 .. (n - 1) - 1 /\ 1 + l = j
    BY <1>1
  <2>2. /\ \A i \in 0 .. l + h - 1 : e[i] \in Int
        /\ \A i \in 0 .. h - 1 : f[i] = e[l + i] /\ f[i] \in Limb /\ f[i] \in Int
    BY <1>2, <2>1
  <2>3. f[0] = d[j] /\ f[0] > 0 /\ f[0] \in Int
    <3>1. f[0] = e[l] /\ f[0] \in Limb
      BY <2>1, <2>2
    <3>2. e[l] = d[j]
      BY <1>2, <2>1
    <3>3. QED  BY <1>7, <3>1, <3>2, LimbNumber
  <2> HIDE DEF f, l, h
  <2>4. Number(e, l + h, 0) = Number(e, l, Number(f, h, 0)) /\ Number(f, h, 0) \in Int
    BY <1>1, <2>1, <2>2, NumberSplit
  <2>5. Number(f, h, 0) > 0
    <3> DEFINE g == [i \in 0 .. h - 2 |-> f[1 + i]]
               q == Number(g, h - 1, 0)
    <3>1. h - 1 \in Nat /\ 1 + (h - 1) = h
      BY <2>1
    <3>2. \A i \in 0 .. (h - 1) - 1 : g[i] = f[1 + i] /\ g[i] \in Limb
      BY <2>1, <2>2
    <3> HIDE DEF g
    <3>3. Number(f, 1 + (h - 1), 0) = Number(f, 1, q) /\ q \in Int
      BY <1>1, <2>2, <3>1, <3>2, NumberSplit
    <3>4. q >= 0
      BY <1>1, <3>1, <3>2, NumberSign
    <3>5. Number(f, 1, q) = f[0] + Base * q
      <4>1. ASSUME NEW v, Horner(f, 1, q, v) PROVE v[0] = f[0] + Base * q
        BY <4>1 DEF Horner
      <4>2. \A i \in 0 .. 1 - 1 : f[i] \in Int
        BY <2>3
      <4>3. PICK v : Horner(f, 1, q, v)
        BY <3>3, <4>2, HornerExists
      <4>4. QED  BY <4>1, <4>3, NumberIs
    <3>6. Base * q >= 0 /\ Base * q \in Int
      BY <3>3, <3>4, BaseFacts
    <3>7. QED  BY <2>3, <3>1, <3>3, <3>5, <3>6
  <2>6. \A i \in 0 .. l - 1 : e[i] \in Limb
    BY <1>2, <2>1
  <2>7. Number(e, l, Number(f, h, 0)) >= Number(f, h, 0) /\ Number(e, l, Number(f, h, 0)) \in Int
    BY <2>1, <2>4, <2>5, <2>6, NumberSign
  <2>8. QED  BY <2>1, <2>4, <2>5, <2>7
<1>8. QED  BY <1>1, <1>3, <1>4, <1>5, <1>6, <1>7

\* A number is its first limb if that is all it has, and past a limb if there is another.
THEOREM FirstOfPackets ==
    ASSUME NEW m, IsMemory(m), NEW a, NEW n \in Nat, n > 0, NEW N \in Nat, N = n * PacketLimbs,
           Area(m, a, N)
    PROVE  /\ Get(m, a, 0) \in Limb
           /\ \E k \in Int :
                 /\ Value(m, a, n) = Get(m, a, 0) + Base * k /\ k >= 0
                 /\ (\E j \in 1 .. N - 1 : Get(m, a, j) # 0) => k > 0
                 /\ (\A j \in 1 .. N - 1 : Get(m, a, j) = 0) => k = 0
<1> DEFINE d == LimbsAt(m, a, N)
<1>1. N > 0 /\ PacketLimbs \in Nat
  <2>1. PacketLimbs \in Nat /\ PacketLimbs > 0
    BY PacketsAssumption
  <2>2. QED  BY <2>1
<1>2. \A i \in 0 .. N - 1 : Get(m, a, i) \in Limb
  BY GetLimb DEF IsMemory
<1>3. \A i \in 0 .. N - 1 : d[i] = Get(m, a, i) /\ d[i] \in Limb
  BY <1>2 DEF LimbsAt
<1>4. Value(m, a, n) = Number(d, N, 0)
  BY <1>2, NumberOfLimbs
<1> HIDE DEF d
<1>5. PICK k \in Int : /\ Number(d, N, 0) = d[0] + Base * k /\ k >= 0
                       /\ (\E j \in 1 .. N - 1 : d[j] # 0) => k > 0
  BY <1>1, <1>3, NumberFirst
<1>6. d[0] = Get(m, a, 0) /\ d[0] \in Limb
  BY <1>1, <1>3
<1>7. (\E j \in 1 .. N - 1 : Get(m, a, j) # 0) => k > 0
  BY <1>3, <1>5
<1>8. (\A j \in 1 .. N - 1 : Get(m, a, j) = 0) => k = 0
  <2> HAVE \A j \in 1 .. N - 1 : Get(m, a, j) = 0
  <2>1. \A j \in 1 .. N - 1 : d[j] = 0
    BY <1>3
  <2>2. Number(d, N, 0) = Number(d, 1, 0)
    <3>1. 1 \in Nat /\ 1 =< N /\ (\A i \in 0 .. N - 1 : d[i] \in Int)
      BY <1>1, <1>3, LimbNumber
    <3>2. QED  BY <2>1, <3>1, NumberPadded
  <2>3. Number(d, 1, 0) = d[0]
    <3>1. \A i \in 0 .. 1 - 1 : d[i] \in Limb
      BY <1>6
    <3>2. PICK q \in Int : Number(d, 1, 0) = d[0] + Base * q /\ (1 = 1 => q = 0)
      BY <3>1, NumberFirst
    <3>3. d[0] \in Int /\ q = 0
      BY <1>6, <3>2, LimbNumber
    <3>4. Base * q = 0
      BY <3>3, BaseFacts
    <3>5. QED  BY <3>2, <3>3, <3>4
  <2>4. Base * k = 0 /\ d[0] \in Int
    <3>1. d[0] \in Int
      BY <1>6, LimbNumber
    <3>2. Base * k \in Int
      BY BaseFacts
    <3>3. QED  BY <1>5, <2>2, <2>3, <3>1, <3>2
  <2>5. k = 0
    <3>1. k > 0 => Base * k > 0
      BY BaseFacts
    <3>2. QED  BY <1>5, <2>4, <3>1
  <2>6. QED  BY <2>5
<1>9. Value(m, a, n) = Get(m, a, 0) + Base * k /\ Get(m, a, 0) \in Limb /\ k >= 0
  BY <1>4, <1>5, <1>6
<1>10. QED  BY <1>7, <1>8, <1>9

-----------------------------------------------------------------------------
(* Products *)

\* s is m with the limbs of a times w at r, and the last carry.
WordProductsAt(m, s, r, N, a, w) ==
    \E c, x :
       /\ c \in [0 .. N -> Limb] /\ c[0] = 0
       /\ \A i \in 0 .. N - 1 : x[i] \in Limb /\ x[i] + Base * c[i + 1] = Get(m, a, i) * w + c[i]
       /\ Wrote(m, s.m, r, N, x)
       /\ s.c = c[N]

\* hebi_pmulu stores the low limb of each product and carries the high one.
LEMMA PmuluLoop ==
    ASSUME NEW m, IsMemory(m), NEW r, NEW a, NEW n \in Nat, NEW w \in Limb,
           NEW N \in Nat, N = n * PacketLimbs, Area(m, r, N), Area(m, a, N), Follows(r, a, N)
    PROVE  WordProductsAt(m, pmulu(m, r, a, w, n), r, N, a, w)
<1> DEFINE A(i) == Get(m, a, i)
           P(i, k) == A(i) * w + k
           S == [i \in 0 .. N - 1 |-> [k \in Limb |-> P(i, k) % Base]]
           D == [i \in 0 .. N - 1 |-> [k \in Limb |-> P(i, k) \div Base]]
<1>1. \A i \in 0 .. N - 1 : A(i) \in Limb
  <2>1. m \in Memory(m)
    BY DEF IsMemory
  <2>2. QED  BY <2>1, GetLimb
<1>2. ASSUME NEW i \in 0 .. N - 1, NEW k \in Limb
      PROVE  /\ P(i, k) % Base \in Limb /\ P(i, k) \div Base \in Limb
             /\ (P(i, k) % Base) + Base * (P(i, k) \div Base) = P(i, k)
  <2> DEFINE x == A(i)
  <2>1. x \in Limb /\ 0 \in Limb
    BY <1>1, BaseFacts
  <2> HIDE DEF x
  <2>2. x * w + 0 + k = x * w + k
    BY <2>1, LimbNumber
  <2>3. /\ (x * w + 0 + k) % Base \in Limb /\ (x * w + 0 + k) \div Base \in Limb
        /\ ((x * w + 0 + k) % Base) + Base * ((x * w + 0 + k) \div Base) = x * w + 0 + k
    BY <2>1, RowTerms
  <2>4. QED  BY <2>2, <2>3 DEF x
<1>3. \A i \in 0 .. N - 1 : \A k \in Limb : S[i][k] = P(i, k) % Base /\ D[i][k] = P(i, k) \div Base
  OBVIOUS
<1> HIDE DEF A, P, S, D
<1>4. PICK c, x, g : CarryTrace(m, r, N, Limb, S, D, 0, c, x, g)
  <2>1. CarryTurns(N, Limb, S, D)
    BY <1>2, <1>3 DEF CarryTurns
  <2>2. 0 \in Limb
    BY BaseFacts
  <2>3. QED  BY <2>1, <2>2, CarryLoop
<1> USE DEF CarryTrace
<1> DEFINE Turn(t, i) ==
              LET p == Get(t.m, a, i) * w + t.c
              IN  [m |-> Put(t.m, r, i, p % Base), c |-> p \div Base]
           s0 == [m |-> m, c |-> 0]
           Q(h, i) == Given(h[i - 1], LAMBDA t : Turn(t, i - 1))
           Eq(h) == h = [i \in 0 .. N |-> IF i = 0 THEN s0 ELSE Q(h, i)]
           F == CHOOSE h : Eq(h)
           f == [i \in 0 .. N |-> [m |-> g[i], c |-> c[i]]]
<1>5. pmulu(m, r, a, w, n) = F[N]
  BY DEF pmulu, Loop, Given, s0
<1>6. \A h, i : Q(h, i) = Turn(h[i - 1], i - 1)
  BY DEF Given
<1>7. f[0] = s0 /\ f[N] = [m |-> g[N], c |-> c[N]]
  BY <1>4
<1>8. ASSUME NEW i \in 0 .. N - 1 PROVE f[i + 1] = Turn(f[i], i)
  <2>0. r.at \in Nat
    BY DEF Area
  <2>1. c[i] \in Limb /\ i \in 0 .. N /\ i + 1 \in 0 .. N /\ r.at \in Nat
    BY <1>4, <2>0
  <2>2. Get(g[i], a, i) = A(i)
    <3>1. Wrote(m, g[i], r, i, x)
      BY <1>4, <2>1
    <3> HIDE DEF Turn, Q, F, f, CarryTrace
    <3>2. Get(g[i], a, i) = Get(m, a, i)
      BY <2>0, <3>1, Unread
    <3>3. QED  BY <3>2 DEF A
  <2>4. g[i + 1] = Put(g[i], r, i, P(i, c[i]) % Base) /\ c[i + 1] = P(i, c[i]) \div Base
    <3>1. g[i + 1] = Put(g[i], r, i, S[i][c[i]]) /\ c[i + 1] = D[i][c[i]]
      BY <1>4
    <3>2. QED  BY <1>3, <2>1, <3>1
  <2>5. f[i].m = g[i] /\ f[i].c = c[i] /\ f[i + 1] = [m |-> g[i + 1], c |-> c[i + 1]]
    BY <2>1
  <2>6. QED  BY <2>2, <2>4, <2>5 DEF P
<1> HIDE DEF Turn, f, Q
<1>9. Eq(F)
  <2>1. ASSUME NEW i \in 0 .. N, i # 0 PROVE f[i] = Q(f, i)
    <3>1. i - 1 \in 0 .. N - 1 /\ i - 1 + 1 = i
      BY <2>1
    <3>2. QED  BY <1>6, <1>8, <3>1
  <2>2. f = [i \in 0 .. N |-> f[i]]
    BY DEF f
  <2>3. Eq(f)
    BY <1>7, <2>1, <2>2
  <2>4. QED  BY <2>3
<1> HIDE DEF F
<1>10. F[N] = f[N]
  <2>1. F[0] = f[0]
    BY <1>7, <1>9
  <2>2. ASSUME NEW i \in 0 .. N - 1, F[i] = f[i] PROVE F[i + 1] = f[i + 1]
    <3>1. i + 1 \in 0 .. N /\ i + 1 # 0 /\ i + 1 - 1 = i
      OBVIOUS
    <3>2. F[i + 1] = Turn(F[i], i)
      BY <1>6, <1>9, <3>1
    <3>3. QED  BY <1>8, <2>2, <3>2
  <2>3. QED  BY <2>1, <2>2, SameEnd
<1>11. ASSUME NEW i \in 0 .. N - 1 PROVE x[i] + Base * c[i + 1] = A(i) * w + c[i]
  <2>1. c[i] \in Limb /\ x[i] = S[i][c[i]] /\ c[i + 1] = D[i][c[i]]
    BY <1>4
  <2>2. x[i] = P(i, c[i]) % Base /\ c[i + 1] = P(i, c[i]) \div Base
    BY <1>3, <2>1
  <2>3. x[i] + Base * c[i + 1] = P(i, c[i])
    BY <1>2, <2>1, <2>2
  <2>4. QED  BY <2>3 DEF P
<1>12. pmulu(m, r, a, w, n) = [m |-> g[N], c |-> c[N]]
  BY <1>5, <1>7, <1>10
<1>13. Wrote(m, pmulu(m, r, a, w, n).m, r, N, x) /\ pmulu(m, r, a, w, n).c = c[N]
  BY <1>4, <1>12
<1>14. c \in [0 .. N -> Limb] /\ c[0] = 0 /\ \A i \in 0 .. N - 1 : x[i] \in Limb
  BY <1>4
<1> HIDE DEF CarryTrace
<1>15. QED  BY <1>11, <1>13, <1>14 DEF A, WordProductsAt

\* hebi_pmulu multiplies a number by a word; the carry above it is a limb.
THEOREM WordProductOfPackets ==
    ASSUME NEW m, IsMemory(m), NEW r, NEW a, NEW n \in Nat, NEW w \in Limb,
           NEW N \in Nat, N = n * PacketLimbs, Area(m, r, N), Area(m, a, N), Follows(r, a, N)
    PROVE  LET s == pmulu(m, r, a, w, n)
           IN  /\ s.c \in Limb /\ OnlyAt(m, s.m, r, N) /\ s.m \in Memory(m)
               /\ Number(LimbsAt(s.m, r, N), N, s.c) = w * Value(m, a, n)
<1> DEFINE s == pmulu(m, r, a, w, n)
           A == [i \in 0 .. N - 1 |-> Operand(m, a, n, i)]
<1>1. PICK c, x :
         /\ c \in [0 .. N -> Limb] /\ c[0] = 0
         /\ \A i \in 0 .. N - 1 : x[i] \in Limb /\ x[i] + Base * c[i + 1] = Get(m, a, i) * w + c[i]
         /\ Wrote(m, s.m, r, N, x)
         /\ s.c = c[N]
  <2>1. WordProductsAt(m, pmulu(m, r, a, w, n), r, N, a, w)
    BY PmuluLoop
  <2>2. QED  BY <2>1 DEF WordProductsAt
<1>2. /\ \A i \in 0 .. N - 1 : Operand(m, a, n, i) \in Limb
      /\ Number(A, N, 0) = Value(m, a, n)
  BY NumberOfOperand
<1>3. \A i \in 0 .. N - 1 : A[i] = Get(m, a, i) /\ A[i] \in Limb
  BY <1>2 DEF Operand
<1> HIDE DEF s, A
<1>4. w \in Int /\ \A i \in 0 .. N : c[i] \in Int
  BY <1>1, LimbNumber
<1>5. ASSUME NEW i \in 0 .. N - 1
      PROVE  /\ A[i] \in Int /\ x[i] \in Int
             /\ x[i] + Base * c[i + 1] = w * A[i] + 0 * A[i] + c[i]
  <2>0. A[i] \in Limb /\ x[i] \in Limb /\ i \in 0 .. N
    BY <1>1, <1>3
  <2>1. A[i] \in Int /\ x[i] \in Int /\ c[i] \in Int
    BY <1>4, <2>0, LimbNumber
  <2>2. x[i] + Base * c[i + 1] = A[i] * w + c[i]
    BY <1>1, <1>3
  <2>3. A[i] * w = w * A[i] + 0 * A[i]
    BY <1>4, <2>1
  <2>4. QED  BY <2>1, <2>2, <2>3
<1>6. Number(x, N, c[N]) = w * Number(A, N, 0) + 0 * Number(A, N, 0) + c[0]
  BY <1>4, <1>5, NumberChain
<1>7. Number(A, N, 0) \in Int
  BY <1>3, NumberSign
<1>8. Number(x, N, c[N]) = w * Value(m, a, n)
  <2>1. w * Number(A, N, 0) \in Int /\ 0 * Number(A, N, 0) = 0
    BY <1>4, <1>7
  <2>2. QED  BY <1>1, <1>2, <1>6, <2>1
<1>9. OnlyAt(m, s.m, r, N) /\ s.m \in Memory(m) /\ Number(LimbsAt(s.m, r, N), N, c[N]) = Number(x, N, c[N])
  BY <1>1, <1>4, WrittenValue
<1>10. QED  BY <1>1, <1>8, <1>9 DEF s

\* The i-th limb after p.
At(p, i) == [buf |-> p.buf, at |-> p.at + i]

\* What the rows before row i left in limb j of its place.
Before(m, r, i, j) == IF i = 0 THEN 0 ELSE Get(m, r, i + j)

\* t is m with the n limbs of b times w, added to what was there, and a carry
\* above them, in the place of row i.
RowIs(m, t, r, b, w, n, i) ==
    \E c, x :
       /\ c \in [0 .. n -> Limb] /\ c[0] = 0
       /\ \A j \in 0 .. n - 1 :
             x[j] \in Limb /\ x[j] + Base * c[j + 1] = Get(m, b, j) * w + Before(m, r, i, j) + c[j]
       /\ x[n] = c[n]
       /\ Wrote(m, t, At(r, i), n + 1, x)

\* A row of hebi_pmul.
LEMMA RowLoop ==
    ASSUME NEW m, IsMemory(m), NEW r, r.at \in Nat, NEW a, NEW b, NEW n \in Nat, NEW i \in Nat,
           Area(m, At(r, i), n + 1), Area(m, b, n), b.buf # r.buf, Get(m, a, i) \in Limb
    PROVE  RowIs(m, MulRow(m, r, a, b, n, i), r, b, Get(m, a, i), n, i)
<1> DEFINE w == Get(m, a, i)
           p == At(r, i)
           A(j) == Get(m, b, j)
           O(j) == Before(m, r, i, j)
           P(j, k) == A(j) * w + O(j) + k
           S == [j \in 0 .. n - 1 |-> [k \in Limb |-> P(j, k) % Base]]
           D == [j \in 0 .. n - 1 |-> [k \in Limb |-> P(j, k) \div Base]]
<1>0. /\ m \in Memory(m) /\ w \in Limb /\ p.buf = r.buf /\ p.at = r.at + i /\ p.at \in Nat
      /\ Area(m, p, n) /\ \A j \in Nat : r.at + (i + j) = p.at + j
  <2>1. p.buf = r.buf /\ p.at = r.at + i /\ p.at \in Nat /\ \A j \in Nat : r.at + (i + j) = p.at + j
    BY DEF At
  <2> HIDE DEF p
  <2>2. \A j \in 0 .. n - 1 : j \in 0 .. (n + 1) - 1
    OBVIOUS
  <2>3. Area(m, p, n)
    BY <2>2 DEF Area, p
  <2>4. QED  BY <2>1, <2>3 DEF IsMemory
<1>p. \A t, y : \A j \in Nat : Put(t, r, i + j, y) = Put(t, p, j, y) /\ Get(t, r, i + j) = Get(t, p, j)
  <2> HIDE DEF p
  <2>1. QED  BY <1>0 DEF Put, Get
<1> HIDE DEF p, w
<1>1. \A j \in 0 .. n - 1 : A(j) \in Limb /\ O(j) \in Limb
  <2>1. (\A j \in 0 .. n - 1 : Get(m, b, j) \in Limb) /\ \A j \in 0 .. n - 1 : Get(m, p, j) \in Limb
    BY <1>0, GetLimb
  <2>2. \A j \in 0 .. n - 1 : Get(m, r, i + j) = Get(m, p, j)
    BY <1>p
  <2>3. QED  BY <2>1, <2>2, BaseFacts DEF Before
<1>2. ASSUME NEW j \in 0 .. n - 1, NEW k \in Limb
      PROVE  /\ P(j, k) % Base \in Limb /\ P(j, k) \div Base \in Limb
             /\ (P(j, k) % Base) + Base * (P(j, k) \div Base) = P(j, k)
  <2> HIDE DEF A, O
  <2>1. QED  BY <1>0, <1>1, RowTerms
<1>3. \A j \in 0 .. n - 1 : \A k \in Limb : S[j][k] = P(j, k) % Base /\ D[j][k] = P(j, k) \div Base
  OBVIOUS
<1> HIDE DEF A, O, P, S, D
<1>4. PICK c, x, g : CarryTrace(m, p, n, Limb, S, D, 0, c, x, g)
  <2>1. CarryTurns(n, Limb, S, D)
    BY <1>2, <1>3 DEF CarryTurns
  <2>2. 0 \in Limb
    BY BaseFacts
  <2>3. QED  BY <1>0, <2>1, <2>2, CarryLoop
<1> USE DEF CarryTrace
<1> DEFINE Turn(s, j) ==
              LET q == Get(s.m, b, j) * Get(m, a, i) + (IF i = 0 THEN 0 ELSE Get(s.m, r, i + j)) + s.c
              IN  [m |-> Put(s.m, r, i + j, q % Base), c |-> q \div Base]
           s0 == [m |-> m, c |-> 0]
           Q(h, j) == Given(h[j - 1], LAMBDA s : Turn(s, j - 1))
           Eq(h) == h = [j \in 0 .. n |-> IF j = 0 THEN s0 ELSE Q(h, j)]
           F == CHOOSE h : Eq(h)
           f == [j \in 0 .. n |-> [m |-> g[j], c |-> c[j]]]
<1>5. MulRow(m, r, a, b, n, i) = Put(F[n].m, r, i + n, F[n].c)
  BY DEF MulRow, Loop, Given, s0
<1>6. \A h, j : Q(h, j) = Turn(h[j - 1], j - 1)
  BY DEF Given
<1>7. f[0] = s0 /\ f[n] = [m |-> g[n], c |-> c[n]]
  BY <1>4
<1>8. ASSUME NEW j \in 0 .. n - 1 PROVE f[j + 1] = Turn(f[j], j)
  <2>1. c[j] \in Limb /\ j \in 0 .. n /\ j + 1 \in 0 .. n /\ Wrote(m, g[j], p, j, x)
    BY <1>4
  <2>2. Get(g[j], b, j) = A(j) /\ Get(g[j], p, j) = Get(m, p, j)
    <3>1. Follows(p, b, n) /\ Follows(p, p, n)
      BY <1>0 DEF Follows
    <3>2. QED  BY <1>0, <2>1, <3>1, Unread DEF A
  <2>3. (IF i = 0 THEN 0 ELSE Get(g[j], r, i + j)) = O(j)
    BY <1>p, <2>2 DEF O, Before
  <2>4. g[j + 1] = Put(g[j], p, j, P(j, c[j]) % Base) /\ c[j + 1] = P(j, c[j]) \div Base
    <3>1. g[j + 1] = Put(g[j], p, j, S[j][c[j]]) /\ c[j + 1] = D[j][c[j]]
      BY <1>4
    <3>2. QED  BY <1>3, <2>1, <3>1
  <2>5. f[j].m = g[j] /\ f[j].c = c[j] /\ f[j + 1] = [m |-> g[j + 1], c |-> c[j + 1]]
    BY <2>1
  <2>6. Put(g[j], p, j, P(j, c[j]) % Base) = Put(g[j], r, i + j, P(j, c[j]) % Base)
    BY <1>p
  <2>7. QED  BY <2>2, <2>3, <2>4, <2>5, <2>6 DEF P, w
<1> HIDE DEF Turn, f, Q
<1>9. Eq(F)
  <2>1. ASSUME NEW j \in 0 .. n, j # 0 PROVE f[j] = Q(f, j)
    <3>1. j - 1 \in 0 .. n - 1 /\ j - 1 + 1 = j
      BY <2>1
    <3>2. QED  BY <1>6, <1>8, <3>1
  <2>2. f = [j \in 0 .. n |-> f[j]]
    BY DEF f
  <2>3. Eq(f)
    BY <1>7, <2>1, <2>2
  <2>4. QED  BY <2>3
<1> HIDE DEF F
<1>10. F[n] = f[n]
  <2>1. F[0] = f[0]
    BY <1>7, <1>9
  <2>2. ASSUME NEW j \in 0 .. n - 1, F[j] = f[j] PROVE F[j + 1] = f[j + 1]
    <3>1. j + 1 \in 0 .. n /\ j + 1 # 0 /\ j + 1 - 1 = j
      OBVIOUS
    <3>2. F[j + 1] = Q(F, j + 1)
      BY <1>9, <3>1
    <3>4. Q(F, j + 1) = Turn(F[j], j)
      BY <1>6, <3>1
    <3>3. QED  BY <1>8, <2>2, <3>2, <3>4
  <2>3. QED  BY <2>1, <2>2, SameEnd
<1>11. ASSUME NEW j \in 0 .. n - 1 PROVE x[j] \in Limb /\ x[j] + Base * c[j + 1] = A(j) * w + O(j) + c[j]
  <2>1. c[j] \in Limb /\ x[j] = S[j][c[j]] /\ c[j + 1] = D[j][c[j]] /\ x[j] \in Limb
    BY <1>4
  <2>2. x[j] = P(j, c[j]) % Base /\ c[j + 1] = P(j, c[j]) \div Base
    BY <1>3, <2>1
  <2>3. x[j] + Base * c[j + 1] = P(j, c[j])
    BY <1>2, <2>1, <2>2
  <2>4. QED  BY <2>1, <2>3 DEF P
<1>12. MulRow(m, r, a, b, n, i) = Put(g[n], p, n, c[n])
  <2>1. f[n].m = g[n] /\ f[n].c = c[n]
    BY <1>7
  <2>2. QED  BY <1>5, <1>10, <1>p, <2>1
<1>13. Wrote(m, g[n], p, n, x) /\ c \in [0 .. n -> Limb] /\ c[0] = 0 /\ c[n] \in Limb
  BY <1>4
<1> HIDE DEF CarryTrace
<1> DEFINE y == [j \in 0 .. n |-> IF j = n THEN c[n] ELSE x[j]]
           t == Put(g[n], p, n, c[n])
<1>14. y[n] = c[n] /\ \A j \in 0 .. n - 1 : y[j] = x[j]
  OBVIOUS
<1> HIDE DEF y, t
<1>15. /\ t \in Memory(m)
       /\ \A d \in DOMAIN m : \A k \in DOMAIN m[d] :
             t[d][k] = IF d = p.buf /\ k = p.at + n THEN c[n] ELSE g[n][d][k]
  <2>1. g[n] \in Memory(m) /\ p.buf \in DOMAIN m /\ p.at + n \in DOMAIN m[p.buf]
    <3>1. n \in 0 .. (n + 1) - 1
      OBVIOUS
    <3>2. QED  BY <1>13, <3>1 DEF Wrote, Area, p
  <2>2. QED  BY <1>13, <2>1, PutMemory DEF t
<1>16. Wrote(m, t, p, n + 1, y)
  <2>1. ASSUME NEW d \in DOMAIN m, NEW k \in DOMAIN m[d]
        PROVE  t[d][k] = IF d = p.buf /\ k \in p.at .. p.at + (n + 1) - 1 THEN y[k - p.at] ELSE m[d][k]
    <3>1. t[d][k] = IF d = p.buf /\ k = p.at + n THEN c[n] ELSE g[n][d][k]
      BY <1>15
    <3>2. g[n][d][k] = IF d = p.buf /\ k \in p.at .. p.at + n - 1 THEN x[k - p.at] ELSE m[d][k]
      BY <1>13 DEF Wrote
    <3> DEFINE e == p.at
    <3>a. e \in Nat
      BY <1>0
    <3> HIDE DEF e
    <3>3. k = e + n => k \in e .. e + (n + 1) - 1 /\ k - e = n
      BY <3>a
    <3>4. k # e + n => (k \in e .. e + (n + 1) - 1 <=> k \in e .. e + n - 1)
      BY <3>a
    <3>5. k \in e .. e + n - 1 => k - e \in 0 .. n - 1
      BY <3>a
    <3>6. QED  BY <1>14, <3>1, <3>2, <3>3, <3>4, <3>5 DEF e
  <2>2. QED  BY <1>15, <2>1 DEF Wrote
<1>17. \A j \in 0 .. n - 1 : y[j] \in Limb /\ y[j] + Base * c[j + 1] = Get(m, b, j) * w + Before(m, r, i, j) + c[j]
  BY <1>11, <1>14 DEF A, O
<1>18. QED  BY <1>12, <1>13, <1>14, <1>16, <1>17 DEF RowIs, t, p, w

\* No limbs, and one limb, under top.
LEMMA NumberNone ==
    ASSUME NEW d, NEW top \in Int
    PROVE  Number(d, 0, top) = top
<1> DEFINE v == [i \in 0 .. 0 |-> top]
<1>1. Horner(d, 0, top, v)
  BY DEF Horner
<1>2. v[0] = top
  OBVIOUS
<1> HIDE DEF v
<1>3. QED  BY <1>1, <1>2, NumberIs

LEMMA NumberOne ==
    ASSUME NEW d, d[0] \in Int, NEW top \in Int
    PROVE  Number(d, 1, top) = d[0] + Base * top
<1> DEFINE v == [i \in 0 .. 1 |-> IF i = 0 THEN d[0] + Base * top ELSE top]
<1>1. Horner(d, 1, top, v)
  BY BaseFacts DEF Horner
<1>2. v[0] = d[0] + Base * top
  OBVIOUS
<1> HIDE DEF v
<1>3. QED  BY <1>1, <1>2, NumberIs

\* What a one above n limbs is worth.
Weight(n) == Number([i \in 0 .. n - 1 |-> 0], n, 1)

LEMMA NumberWeight ==
    ASSUME NEW n \in Nat, NEW d, NEW top \in Int, \A i \in 0 .. n - 1 : d[i] \in Int
    PROVE  /\ Weight(n) \in Int /\ Number(d, n, 0) \in Int
           /\ Number(d, n, top) = Number(d, n, 0) + top * Weight(n)
<1> DEFINE z == [i \in 0 .. n - 1 |-> 0]
<1>1. PICK v : Horner(d, n, top, v)
  BY HornerExists
<1>2. PICK u : Horner(d, n, 0, u)
  <2>1. 0 \in Int
    OBVIOUS
  <2>2. QED  BY <2>1, HornerExists
<1>3. PICK w : Horner(z, n, 1, w)
  <2>1. 1 \in Int /\ \A i \in 0 .. n - 1 : z[i] \in Int
    OBVIOUS
  <2> HIDE DEF z
  <2>2. QED  BY <2>1, HornerExists
<1> DEFINE S == {i \in 0 .. n : v[i] = u[i] + top * w[i]}
<1>4. n \in S
  BY <1>1, <1>2, <1>3 DEF Horner
<1>5. ASSUME NEW i \in 0 .. n - 1, i + 1 \in S PROVE i \in S
  <2>1. i + 1 \in 0 .. n /\ i \in 0 .. n
    OBVIOUS
  <2>2. /\ v[i] = d[i] + Base * v[i + 1] /\ u[i] = d[i] + Base * u[i + 1]
        /\ u[i + 1] \in Int /\ d[i] \in Int
    BY <1>1, <1>2, <2>1 DEF Horner
  <2>3. w[i] = 0 + Base * w[i + 1] /\ w[i + 1] \in Int
    BY <1>3, <2>1 DEF Horner
  <2>4. v[i + 1] = u[i + 1] + top * w[i + 1]
    BY <1>5
  <2>5. \A b, p, q \in Int : b * (p + top * q) = b * p + top * (b * q)
    OBVIOUS
  <2>6. Base * v[i + 1] = Base * u[i + 1] + top * (Base * w[i + 1]) /\ Base * w[i + 1] \in Int
        /\ Base * u[i + 1] \in Int /\ top * (Base * w[i + 1]) \in Int
    BY <2>2, <2>3, <2>4, <2>5, BaseFacts
  <2>7. w[i] = Base * w[i + 1]
    BY <2>3, <2>6
  <2>8. v[i] = u[i] + top * w[i]
    BY <2>2, <2>6, <2>7
  <2>9. QED  BY <2>1, <2>8
<1> HIDE DEF S
<1>6. 0 \in S
  BY <1>4, <1>5, DownInduct
<1>7. v[0] = u[0] + top * w[0] /\ w[0] \in Int /\ u[0] \in Int
  BY <1>2, <1>3, <1>6 DEF S, Horner
<1>8. Number(d, n, top) = v[0] /\ Number(d, n, 0) = u[0] /\ Weight(n) = w[0]
  BY <1>1, <1>2, <1>3, NumberIs DEF Weight
<1>9. QED  BY <1>7, <1>8

\* The limbs e after row i are those of d below it, with w times y added above.
AddsRow(i, n, d, e, x, y, c, w) ==
    /\ \A k \in 0 .. i + n - 1 : d[k] \in Int
    /\ \A k \in 0 .. i - 1 : e[k] = d[k]
    /\ \A j \in 0 .. n - 1 : e[i + j] = x[j] /\ x[j] \in Int /\ y[j] \in Int
    /\ e[i + n] = c[n] /\ c[0] = 0
    /\ \A j \in 0 .. n : c[j] \in Int
    /\ \A j \in 0 .. n - 1 : x[j] + Base * c[j + 1] = y[j] * w + d[i + j] + c[j]

LEMMA RowNumber ==
    ASSUME NEW i \in Nat, NEW n \in Nat, NEW d, NEW e, NEW x, NEW y, NEW c, NEW w \in Int,
           AddsRow(i, n, d, e, x, y, c, w)
    PROVE  Number(e, i + (n + 1), 0) = Number(d, i + n, 0) + (w * Number(y, n, 0)) * Weight(i)
<1> USE DEF AddsRow
<1> DEFINE h == [j \in 0 .. n - 1 |-> d[i + j]]
           u == [j \in 0 .. n |-> e[i + j]]
           o == [j \in 0 .. 0 |-> c[n]]
<1>0. 0 \in Int /\ c[n] \in Int
  OBVIOUS
<1>1. \A j \in 0 .. n - 1 : h[j] = d[i + j] /\ h[j] \in Int /\ u[j] = x[j] /\ u[j] \in Int
  <2>1. \A j \in 0 .. n - 1 : i + j \in 0 .. i + n - 1 /\ j \in 0 .. n
    OBVIOUS
  <2>2. \A j \in 0 .. n - 1 : h[j] = d[i + j]
    OBVIOUS
  <2>3. \A j \in 0 .. n : u[j] = e[i + j]
    OBVIOUS
  <2> HIDE DEF h, u
  <2>4. QED  BY <2>1, <2>2, <2>3
<1>2. u[n] = c[n] /\ \A j \in 0 .. n : u[j] = e[i + j] /\ u[j] \in Int
  <2>1. \A j \in 0 .. n : j = n \/ j \in 0 .. n - 1
    OBVIOUS
  <2>2. \A j \in 0 .. n : u[j] = e[i + j]
    OBVIOUS
  <2> HIDE DEF u
  <2>3. QED  BY <1>0, <1>1, <2>1, <2>2
<1>3. o[0] = c[n]
  OBVIOUS
<1> HIDE DEF h, u, o
<1>4. Number(d, i + n, 0) = Number(d, i, Number(h, n, 0)) /\ Number(h, n, 0) \in Int
  <2>1. \A j \in 0 .. n - 1 : h[j] = d[i + j]
    BY <1>1
  <2>2. \A k \in 0 .. i + n - 1 : d[k] \in Int
    OBVIOUS
  <2>3. QED  BY <1>0, <2>1, <2>2, NumberSplit
<1>5. Number(e, i + (n + 1), 0) = Number(e, i, Number(u, n + 1, 0)) /\ Number(u, n + 1, 0) \in Int
  <2>1. n + 1 \in Nat
    OBVIOUS
  <2>2. ASSUME NEW k \in 0 .. i + (n + 1) - 1 PROVE e[k] \in Int
    <3>1. CASE k < i
      <4>1. k \in 0 .. i - 1 /\ k \in 0 .. i + n - 1
        BY <3>1
      <4>2. QED  BY <4>1
    <3>2. CASE k >= i
      <4>1. k - i \in 0 .. n /\ i + (k - i) = k
        BY <3>2
      <4>2. QED  BY <1>2, <4>1
    <3>3. QED  BY <3>1, <3>2
  <2>3. \A j \in 0 .. (n + 1) - 1 : u[j] = e[i + j]
    BY <1>2
  <2>4. QED  BY <1>0, <2>1, <2>2, <2>3, NumberSplit
<1>6. Number(u, n + 1, 0) = Number(x, n, c[n])
  <2>1. Number(u, n + 1, 0) = Number(u, n, Number(o, 1, 0))
    <3>1. PICK p \in Nat : p = 1
      OBVIOUS
    <3>2. \A j \in 0 .. n + p - 1 : u[j] \in Int
      BY <1>2, <3>1
    <3>3. \A j \in 0 .. p - 1 : o[j] = u[n + j]
      BY <1>2, <1>3, <3>1
    <3>4. Number(u, n + p, 0) = Number(u, n, Number(o, p, 0))
      BY <1>0, <3>2, <3>3, NumberSplit
    <3>5. QED  BY <3>1, <3>4
  <2>2. Number(o, 1, 0) = c[n]
    <3>1. Number(o, 1, 0) = c[n] + Base * 0
      BY <1>0, <1>3, NumberOne
    <3>2. QED  BY <1>0, <3>1, BaseFacts
  <2>3. Number(u, n, c[n]) = Number(x, n, c[n])
    BY <1>0, <1>1, NumberSame
  <2>4. QED  BY <2>1, <2>2, <2>3
<1>7. Number(x, n, c[n]) = w * Number(y, n, 0) + 1 * Number(h, n, 0) + c[0]
  <2>1. ASSUME NEW j \in 0 .. n - 1 PROVE x[j] + Base * c[j + 1] = w * y[j] + 1 * h[j] + c[j]
    <3>1. x[j] + Base * c[j + 1] = y[j] * w + d[i + j] + c[j] /\ y[j] \in Int /\ h[j] \in Int /\ h[j] = d[i + j]
      BY <1>1
    <3>2. y[j] * w = w * y[j] /\ 1 * h[j] = h[j]
      BY <3>1
    <3>3. QED  BY <3>1, <3>2
  <2>2. 1 \in Int
    OBVIOUS
  <2>3. QED  BY <1>1, <2>1, <2>2, NumberChain
<1>8. Number(y, n, 0) \in Int
  BY <1>0, NumberWeight
<1> DEFINE H == Number(h, n, 0)
           Y == w * Number(y, n, 0)
           T == Number(x, n, c[n])
<1>9. T = Y + H /\ Y \in Int /\ H \in Int /\ T \in Int
  <2>1. Y \in Int
    BY <1>8
  <2> HIDE DEF Y, H, T
  <2>2. T = Y + 1 * H + 0
    BY <1>7 DEF Y, H, T
  <2>3. H \in Int
    BY <1>4 DEF H
  <2>4. QED  BY <2>1, <2>2, <2>3
<1>10. Number(e, i, T) = Number(d, i, T)
  <2>1. \A k \in 0 .. i - 1 : d[k] \in Int /\ d[k] = e[k] /\ e[k] \in Int
    <3>1. \A k \in 0 .. i - 1 : k \in 0 .. i + n - 1
      OBVIOUS
    <3>2. QED  BY <3>1
  <2> HIDE DEF T
  <2>2. QED  BY <1>9, <2>1, NumberSame
<1> HIDE DEF H, Y, T
<1>11. /\ Weight(i) \in Int /\ Number(d, i, 0) \in Int
       /\ Number(d, i, T) = Number(d, i, 0) + T * Weight(i)
       /\ Number(d, i, H) = Number(d, i, 0) + H * Weight(i)
  <2>1. \A k \in 0 .. i - 1 : d[k] \in Int
    <3>1. \A k \in 0 .. i - 1 : k \in 0 .. i + n - 1
      OBVIOUS
    <3>2. QED  BY <3>1
  <2>2. QED  BY <1>9, <2>1, NumberWeight
<1>12. T * Weight(i) = H * Weight(i) + Y * Weight(i) /\ H * Weight(i) \in Int /\ Y * Weight(i) \in Int
  BY <1>9, <1>11
<1>13. Number(e, i + (n + 1), 0) = Number(d, i, T) /\ Number(d, i + n, 0) = Number(d, i, H)
  BY <1>4, <1>5, <1>6, <1>10 DEF T, H
<1>14. Number(e, i + (n + 1), 0) = Number(d, i + n, 0) + Y * Weight(i)
  BY <1>11, <1>12, <1>13
<1>15. QED  BY <1>14 DEF Y

\* Memories of m have its buffers.
LEMMA MemoryOf ==
    ASSUME NEW m, IsMemory(m), NEW t \in Memory(m)
    PROVE  /\ IsMemory(t) /\ Memory(t) = Memory(m)
           /\ \A p, n : Area(t, p, n) <=> Area(m, p, n)
           /\ DOMAIN t = DOMAIN m /\ \A b \in DOMAIN m : DOMAIN t[b] = DOMAIN m[b]
<1>1. DOMAIN t = DOMAIN m /\ \A b \in DOMAIN m : DOMAIN t[b] = DOMAIN m[b]
  BY DEF Memory
<1>2. Memory(t) = Memory(m)
  BY <1>1 DEF Memory
<1>3. \A p, n : Area(t, p, n) <=> Area(m, p, n)
  BY <1>1 DEF Area
<1>4. QED  BY <1>1, <1>2, <1>3 DEF IsMemory

\* The limbs of the rows before row i; nothing before the first one.
RowsDone(t, r, n, i) == [k \in 0 .. i + n - 1 |-> IF i = 0 THEN 0 ELSE Get(t, r, k)]

\* After i rows the product is that of the i low limbs of a with b.
RowsMade(m, t, r, a, b, N, M, i) ==
    /\ OnlyAt(m, t, r, N + M)
    /\ Number(RowsDone(t, r, M, i), i + M, 0) = Number(LimbsAt(m, a, N), i, 0) * Number(LimbsAt(m, b, M), M, 0)

\* What holds of the operands and the result of hebi_pmul.
Factors(m, r, a, b, N, M) ==
    /\ IsMemory(m) /\ N \in Nat /\ M \in Nat /\ r.at \in Nat
    /\ Area(m, r, N + M) /\ Area(m, a, N) /\ Area(m, b, M)
    /\ a.buf # r.buf /\ b.buf # r.buf

LEMMA RowMakes ==
    ASSUME NEW m, NEW r, NEW a, NEW b, NEW N, NEW M, Factors(m, r, a, b, N, M),
           NEW i \in 0 .. N - 1, NEW t, RowsMade(m, t, r, a, b, N, M, i)
    PROVE  RowsMade(m, MulRow(t, r, a, b, M, i), r, a, b, N, M, i + 1)
<1> DEFINE w == Get(m, a, i)
           z == MulRow(t, r, a, b, M, i)
           d == RowsDone(t, r, M, i)
           e == RowsDone(z, r, M, i + 1)
           A == LimbsAt(m, a, N)
           B == LimbsAt(m, b, M)
<1>1. /\ IsMemory(m) /\ N \in Nat /\ M \in Nat /\ r.at \in Nat /\ i \in Nat
      /\ Area(m, r, N + M) /\ Area(m, a, N) /\ Area(m, b, M)
      /\ a.buf # r.buf /\ b.buf # r.buf
  BY DEF Factors
<1>2. OnlyAt(m, t, r, N + M) /\ t \in Memory(m)
  BY DEF RowsMade, OnlyAt
<1>3. IsMemory(t) /\ Memory(t) = Memory(m) /\ (\A p, n : Area(t, p, n) <=> Area(m, p, n))
      /\ DOMAIN t = DOMAIN m /\ \A f \in DOMAIN m : DOMAIN t[f] = DOMAIN m[f]
  BY <1>1, <1>2, MemoryOf
<1>4. /\ \A k \in 0 .. N - 1 : Get(m, a, k) \in Limb /\ Get(t, a, k) = Get(m, a, k)
      /\ \A k \in 0 .. M - 1 : Get(m, b, k) \in Limb /\ Get(t, b, k) = Get(m, b, k)
  <2>1. N + M \in Nat
    BY <1>1
  <2>2. QED  BY <1>1, <1>2, <2>1, Apart
<1>5. w \in Limb /\ Get(t, a, i) = w
  BY <1>4
<1> HIDE DEF w
<1> DEFINE p == At(r, i)
<1>6. p.buf = r.buf /\ p.at = r.at + i
  BY DEF At
<1> HIDE DEF p
<1>7. Area(t, p, M + 1) /\ Area(t, b, M)
  <2>1. ASSUME NEW j \in 0 .. (M + 1) - 1 PROVE p.at + j \in DOMAIN m[p.buf]
    <3>1. i + j \in 0 .. (N + M) - 1 /\ p.at + j = r.at + (i + j)
      BY <1>1, <1>6
    <3>2. QED  BY <1>1, <1>6, <3>1 DEF Area
  <2>2. p.buf \in DOMAIN m /\ p.at \in Nat
    BY <1>1, <1>6 DEF Area
  <2>3. Area(m, p, M + 1)
    BY <2>1, <2>2 DEF Area
  <2>4. QED  BY <1>1, <1>3, <2>3
<1>8. PICK c, x :
         /\ c \in [0 .. M -> Limb] /\ c[0] = 0
         /\ \A j \in 0 .. M - 1 :
               x[j] \in Limb /\ x[j] + Base * c[j + 1] = Get(t, b, j) * w + Before(t, r, i, j) + c[j]
         /\ x[M] = c[M]
         /\ Wrote(t, z, p, M + 1, x)
  <2>1. Get(t, a, i) \in Limb
    BY <1>5
  <2>2. RowIs(t, MulRow(t, r, a, b, M, i), r, b, Get(t, a, i), M, i)
    BY <1>1, <1>3, <1>7, <2>1, RowLoop DEF p
  <2>3. RowIs(t, z, r, b, w, M, i)
    BY <1>5, <2>2
  <2> HIDE DEF z
  <2>4. QED  BY <2>3 DEF RowIs, p
<1> HIDE DEF z
<1>9. z \in Memory(m)
  BY <1>3, <1>8 DEF Wrote
<1>10. \A j \in 0 .. M : Get(z, r, i + j) = x[j]
  <2>1. ASSUME NEW j \in 0 .. M PROVE Get(z, r, i + j) = x[j]
    <3>1. j \in 0 .. (M + 1) - 1 /\ p.at + j \in p.at .. p.at + (M + 1) - 1 /\ (p.at + j) - p.at = j
          /\ r.at + (i + j) = p.at + j
      BY <1>1, <1>6
    <3>2. p.buf \in DOMAIN t /\ p.at + j \in DOMAIN t[p.buf]
      BY <1>7, <3>1 DEF Area
    <3>3. z[p.buf][p.at + j] = x[j]
      BY <1>8, <3>1, <3>2 DEF Wrote
    <3>4. QED  BY <1>6, <3>1, <3>3 DEF Get
  <2>2. QED  BY <2>1
<1>11. \A k \in 0 .. i - 1 : Get(z, r, k) = Get(t, r, k)
  <2>1. ASSUME NEW k \in 0 .. i - 1 PROVE Get(z, r, k) = Get(t, r, k)
    <3>1. k \in 0 .. (N + M) - 1 /\ r.at + k \notin p.at .. p.at + (M + 1) - 1
      BY <1>1, <1>6
    <3>2. r.buf \in DOMAIN t /\ r.at + k \in DOMAIN t[r.buf]
      BY <1>1, <1>3, <3>1 DEF Area
    <3>3. z[r.buf][r.at + k] = t[r.buf][r.at + k]
      BY <1>6, <1>8, <3>1, <3>2 DEF Wrote
    <3>4. QED  BY <3>3 DEF Get
  <2>2. QED  BY <2>1
<1>12. OnlyAt(m, z, r, N + M)
  <2>1. ASSUME NEW f \in DOMAIN m, NEW k \in DOMAIN m[f], f # r.buf \/ k \notin r.at .. r.at + (N + M) - 1
        PROVE  z[f][k] = m[f][k]
    <3>1. f # p.buf \/ k \notin p.at .. p.at + (M + 1) - 1
      <4> DEFINE g == r.at
      <4>1. g \in Nat /\ p.at = g + i /\ (f # r.buf \/ k \notin g .. g + (N + M) - 1)
        BY <1>1, <1>6, <2>1
      <4> HIDE DEF g
      <4>2. QED  BY <1>1, <1>6, <4>1
    <3>2. z[f][k] = t[f][k]
      BY <1>3, <1>8, <3>1 DEF Wrote
    <3>3. t[f][k] = m[f][k]
      BY <1>2, <2>1 DEF OnlyAt
    <3>4. QED  BY <3>2, <3>3
  <2>2. QED  BY <1>9, <2>1 DEF OnlyAt
<1>13. /\ \A k \in 0 .. i + M - 1 : d[k] \in Int /\ d[k] = (IF i = 0 THEN 0 ELSE Get(t, r, k))
       /\ \A k \in 0 .. i + M : e[k] = Get(z, r, k)
  <2>1. \A k \in 0 .. i + M - 1 : d[k] = (IF i = 0 THEN 0 ELSE Get(t, r, k))
    BY DEF RowsDone
  <2>2. i + 1 # 0 /\ (i + 1) + M - 1 = i + M
    BY <1>1
  <2>3. \A k \in 0 .. i + M : e[k] = Get(z, r, k)
    BY <2>2 DEF RowsDone
  <2>4. \A k \in 0 .. (N + M) - 1 : Get(t, r, k) \in Limb
    BY <1>1, <1>2, GetLimb
  <2>5. \A k \in 0 .. i + M - 1 : k \in 0 .. (N + M) - 1
    BY <1>1
  <2> HIDE DEF d, e
  <2>6. \A k \in 0 .. i + M - 1 : d[k] \in Int
    BY <2>1, <2>4, <2>5, LimbNumber
  <2>7. QED  BY <2>1, <2>3, <2>6
<1>14. \A j \in 0 .. M - 1 : B[j] = Get(m, b, j) /\ B[j] \in Int
  <2>1. \A j \in 0 .. M - 1 : B[j] = Get(m, b, j)
    BY DEF LimbsAt
  <2> HIDE DEF B
  <2>2. QED  BY <1>4, <2>1, LimbNumber
<1>15. \A j \in 0 .. N - 1 : A[j] = Get(m, a, j) /\ A[j] \in Int
  <2>1. \A j \in 0 .. N - 1 : A[j] = Get(m, a, j)
    BY DEF LimbsAt
  <2> HIDE DEF A
  <2>2. QED  BY <1>4, <2>1, LimbNumber
<1>16. Number(d, i + M, 0) = Number(A, i, 0) * Number(B, M, 0)
  BY DEF RowsMade
<1> HIDE DEF d, e, A, B
<1>17. Number(e, i + (M + 1), 0) = Number(d, i + M, 0) + (w * Number(B, M, 0)) * Weight(i)
  <2>1. w \in Int
    BY <1>5, LimbNumber
  <2>2. \A k \in 0 .. i + M - 1 : d[k] \in Int
    BY <1>13
  <2>3. ASSUME NEW k \in 0 .. i - 1 PROVE e[k] = d[k]
    <3>1. i # 0 /\ k \in 0 .. i + M - 1 /\ k \in 0 .. i + M
      BY <1>1
    <3>2. QED  BY <1>11, <1>13, <3>1
  <2>4. ASSUME NEW j \in 0 .. M - 1 PROVE e[i + j] = x[j] /\ x[j] \in Int /\ B[j] \in Int
    <3>1. i + j \in 0 .. i + M /\ j \in 0 .. M
      BY <1>1
    <3>2. e[i + j] = x[j]
      BY <1>10, <1>13, <3>1
    <3>3. QED  BY <1>8, <1>14, <3>2, LimbNumber
  <2>5. e[i + M] = c[M]
    <3>1. i + M \in 0 .. i + M /\ M \in 0 .. M
      BY <1>1
    <3>2. QED  BY <1>8, <1>10, <1>13, <3>1
  <2>6. \A j \in 0 .. M : c[j] \in Int
    BY <1>8, LimbNumber
  <2>7. ASSUME NEW j \in 0 .. M - 1 PROVE x[j] + Base * c[j + 1] = B[j] * w + d[i + j] + c[j]
    <3>1. i + j \in 0 .. i + M - 1
      BY <1>1
    <3>2. Get(t, b, j) = B[j] /\ Before(t, r, i, j) = d[i + j]
      BY <1>4, <1>13, <1>14, <3>1 DEF Before
    <3>3. QED  BY <1>8, <3>2
  <2>8. c[0] = 0
    BY <1>8
  <2>9. AddsRow(i, M, d, e, x, B, c, w)
    BY <2>2, <2>3, <2>4, <2>5, <2>6, <2>7, <2>8 DEF AddsRow
  <2>10. QED  BY <1>1, <2>1, <2>9, RowNumber
<1>18. /\ Number(A, i + 1, 0) = Number(A, i, 0) + w * Weight(i)
       /\ Number(A, i, 0) \in Int /\ Weight(i) \in Int
  <2> DEFINE o == [k \in 0 .. 0 |-> w]
  <2>1. o[0] = w /\ w \in Int /\ 0 \in Int /\ A[i] = w
    BY <1>5, <1>15, LimbNumber DEF w
  <2> HIDE DEF o
  <2>2. PICK q \in Nat : q = 1
    OBVIOUS
  <2>3. \A k \in 0 .. i + q - 1 : A[k] \in Int
    <3>1. \A k \in 0 .. i + q - 1 : k \in 0 .. N - 1
      BY <1>1, <2>2
    <3>2. QED  BY <1>15, <3>1
  <2>4. \A k \in 0 .. q - 1 : o[k] = A[i + k]
    BY <1>1, <2>1, <2>2
  <2>5. Number(A, i + q, 0) = Number(A, i, Number(o, q, 0))
    BY <1>1, <2>1, <2>3, <2>4, NumberSplit
  <2>6. Number(o, 1, 0) = w
    <3>1. Number(o, 1, 0) = w + Base * 0
      BY <2>1, NumberOne
    <3>2. QED  BY <2>1, <3>1, BaseFacts
  <2>7. Number(A, i + 1, 0) = Number(A, i, w)
    BY <2>2, <2>5, <2>6
  <2>8. \A k \in 0 .. i - 1 : A[k] \in Int
    <3>1. \A k \in 0 .. i - 1 : k \in 0 .. N - 1
      BY <1>1
    <3>2. QED  BY <1>15, <3>1
  <2>9. QED  BY <1>1, <2>1, <2>7, <2>8, NumberWeight
<1>19. Number(B, M, 0) \in Int
  BY <1>1, <1>14, NumberWeight
<1>20. Number(e, (i + 1) + M, 0) = Number(A, i + 1, 0) * Number(B, M, 0)
  <2>1. i + (M + 1) = (i + 1) + M /\ w \in Int
    BY <1>1, <1>5, LimbNumber
  <2>2. \A q, y, v \in Int : (q + w * v) * y = q * y + (w * y) * v
    BY <2>1
  <2>3. (Number(A, i, 0) + w * Weight(i)) * Number(B, M, 0)
            = Number(A, i, 0) * Number(B, M, 0) + (w * Number(B, M, 0)) * Weight(i)
    BY <1>18, <1>19, <2>2
  <2>4. QED  BY <1>16, <1>17, <1>18, <2>1, <2>3
<1>21. QED  BY <1>12, <1>20 DEF RowsMade, e, A, B, z

\* hebi_pmul leaves the product of its operands, of every length, if the result is
\* apart from them; so does hebi_psqr.
THEOREM ProductOfPackets ==
    ASSUME NEW m, NEW r, NEW a, NEW b, NEW an \in Nat, NEW bn \in Nat, an > 0,
           NEW N, N = an * PacketLimbs, NEW M, M = bn * PacketLimbs, Factors(m, r, a, b, N, M)
    PROVE  LET t == pmul(m, r, a, b, an, bn)
           IN  /\ OnlyAt(m, t, r, N + M) /\ t \in Memory(m)
               /\ Value(t, r, an + bn) = Value(m, a, an) * Value(m, b, bn)
<1> DEFINE X(t, i) == MulRow(t, r, a, b, M, i)
           Z == {t \in Memory(m) : OnlyAt(m, t, r, N + M)}
           Y(t, i) == IF X(t, i) \in Memory(m) THEN X(t, i) ELSE m
           S == [i \in 0 .. N - 1 |-> [t \in Memory(m) |-> Y(t, i)]]
<1>1. /\ IsMemory(m) /\ N \in Nat /\ M \in Nat /\ r.at \in Nat /\ m \in Memory(m)
      /\ Area(m, r, N + M) /\ Area(m, a, N) /\ Area(m, b, M)
  BY DEF Factors, IsMemory
<1> HIDE DEF X
<1>2. PICK f : Steps(Memory(m), S, m, N, f)
  <2>1. \A i \in 0 .. N - 1 : S[i] \in [Memory(m) -> Memory(m)]
    BY <1>1
  <2> HIDE DEF S
  <2>2. QED  BY <1>1, <2>1, StepsExist
<1>3. f[0] = m /\ f = [i \in 0 .. N |-> f[i]] /\ \A i \in 0 .. N - 1 : f[i] \in Memory(m) /\ f[i + 1] = Y(f[i], i)
  <2>1. \A i \in 0 .. N - 1 : \A t \in Memory(m) : S[i][t] = Y(t, i)
    OBVIOUS
  <2> HIDE DEF S, Y
  <2>2. f[0] = m /\ f \in [0 .. N -> Memory(m)] /\ \A i \in 0 .. N - 1 : f[i + 1] = S[i][f[i]]
    BY <1>2 DEF Steps
  <2>3. \A i \in 0 .. N - 1 : f[i] \in Memory(m)
    <3>1. \A i \in 0 .. N - 1 : i \in 0 .. N
      BY <1>1
    <3>2. QED  BY <2>2, <3>1
  <2>4. QED  BY <2>1, <2>2, <2>3
<1> HIDE DEF S, Y, Z
<1>4. \A i \in 0 .. N : RowsMade(m, f[i], r, a, b, N, M, i) /\ (i < N => f[i + 1] = X(f[i], i))
  <2> DEFINE G == {i \in Nat : i =< N => RowsMade(m, f[i], r, a, b, N, M, i)}
  <2>1. 0 \in G
    <3> DEFINE d == RowsDone(m, r, M, 0)
               o == [k \in 0 .. 0 |-> 0]
    <3>1. Number(d, 0 + M, 0) = 0
      <4>1. \A k \in 0 .. (0 + M) - 1 : d[k] = 0
        BY DEF RowsDone
      <4> HIDE DEF d
      <4>2. 0 + M = M /\ 0 \in Int
        BY <1>1
      <4>3. \A k \in 0 .. M - 1 : d[k] = 0 /\ d[k] \in Int
        BY <4>1, <4>2
      <4>4. PICK q \in Nat : q = 0
        OBVIOUS
      <4>5. q =< M /\ (\A k \in 0 .. q - 1 : o[k] = d[k]) /\ (\A k \in q .. M - 1 : d[k] = 0)
        BY <1>1, <4>3, <4>4
      <4>6. Number(d, M, 0) = Number(o, q, 0)
        <5>1. \A k \in 0 .. M - 1 : d[k] \in Int
          BY <4>3
        <5>2. M \in Nat /\ q \in Nat
          BY <1>1
        <5>3. q =< M
          BY <4>5
        <5>4. \A k \in 0 .. q - 1 : o[k] = d[k]
          BY <4>5
        <5>5. \A k \in q .. M - 1 : d[k] = 0
          BY <4>5
        <5> HIDE DEF o
        <5>6. QED  BY <5>1, <5>2, <5>3, <5>4, <5>5, NumberPadded
      <4>7. Number(o, 0, 0) = 0
        BY <4>2, NumberNone
      <4>8. QED  BY <4>2, <4>4, <4>6, <4>7
    <3>2. Number(LimbsAt(m, a, N), 0, 0) = 0
      BY NumberNone
    <3>3. Number(LimbsAt(m, b, M), M, 0) \in Int
      <4>1. \A j \in 0 .. M - 1 : Get(m, b, j) \in Limb
        BY <1>1, GetLimb
      <4>2. \A j \in 0 .. M - 1 : LimbsAt(m, b, M)[j] \in Limb
        BY <4>1 DEF LimbsAt
      <4>3. 0 \in Int
        OBVIOUS
      <4>4. QED  BY <1>1, <4>2, <4>3, NumberSign
    <3>4. OnlyAt(m, m, r, N + M)
      BY <1>1 DEF OnlyAt
    <3> HIDE DEF d
    <3>5. Number(d, 0 + M, 0) = Number(LimbsAt(m, a, N), 0, 0) * Number(LimbsAt(m, b, M), M, 0)
      BY <3>1, <3>2, <3>3
    <3>6. RowsMade(m, m, r, a, b, N, M, 0)
      BY <3>4, <3>5 DEF RowsMade, d
    <3>7. QED  BY <1>3, <3>6
  <2>2. ASSUME NEW i \in 0 .. N - 1, RowsMade(m, f[i], r, a, b, N, M, i)
        PROVE  f[i + 1] = X(f[i], i) /\ RowsMade(m, f[i + 1], r, a, b, N, M, i + 1)
    <3>1. RowsMade(m, X(f[i], i), r, a, b, N, M, i + 1)
      BY <2>2, RowMakes DEF X
    <3>2. X(f[i], i) \in Memory(m)
      BY <3>1 DEF RowsMade, OnlyAt
    <3>3. f[i + 1] = X(f[i], i)
      BY <1>3, <3>2 DEF Y
    <3>4. QED  BY <3>1, <3>3
  <2>3. ASSUME NEW i \in Nat, i \in G PROVE i + 1 \in G
    <3>1. SUFFICES ASSUME i + 1 =< N PROVE RowsMade(m, f[i + 1], r, a, b, N, M, i + 1)
      OBVIOUS
    <3>2. i \in 0 .. N - 1 /\ RowsMade(m, f[i], r, a, b, N, M, i)
      BY <1>1, <2>3, <3>1
    <3>3. QED  BY <2>2, <3>2
  <2> HIDE DEF G
  <2>4. \A i \in Nat : i \in G
    BY <2>1, <2>3, UpInduct
  <2>5. \A i \in 0 .. N : RowsMade(m, f[i], r, a, b, N, M, i)
    BY <1>1, <2>4 DEF G
  <2>6. \A i \in 0 .. N : i < N => i \in 0 .. N - 1
    BY <1>1
  <2>7. QED  BY <2>2, <2>5, <2>6
<1> DEFINE Q(h, i) == Given(h[i - 1], LAMBDA t : X(t, i - 1))
           Eq(h) == h = [i \in 0 .. N |-> IF i = 0 THEN m ELSE Q(h, i)]
           F == CHOOSE h : Eq(h)
<1>5. pmul(m, r, a, b, an, bn) = F[N]
  BY DEF pmul, Loop, Given, X
<1>6. \A h, i : Q(h, i) = X(h[i - 1], i - 1)
  BY DEF Given
<1> HIDE DEF Q
<1>7. Eq(F)
  <2>1. ASSUME NEW i \in 0 .. N, i # 0 PROVE f[i] = Q(f, i)
    <3>1. i - 1 \in 0 .. N /\ i - 1 < N /\ (i - 1) + 1 = i
      BY <1>1, <2>1
    <3>2. f[i] = X(f[i - 1], i - 1)
      BY <1>4, <3>1
    <3>3. QED  BY <1>6, <3>2
  <2>2. Eq(f)
    BY <1>3, <2>1
  <2>3. QED  BY <2>2
<1> HIDE DEF F
<1>8. F[N] = f[N]
  <2>1. F[0] = f[0]
    BY <1>1, <1>3, <1>7
  <2>2. ASSUME NEW i \in 0 .. N - 1, F[i] = f[i] PROVE F[i + 1] = f[i + 1]
    <3>1. i + 1 \in 0 .. N /\ i + 1 # 0 /\ (i + 1) - 1 = i /\ i \in 0 .. N /\ i < N
      BY <1>1
    <3>2. F[i + 1] = Q(F, i + 1)
      BY <1>7, <3>1
    <3>3. Q(F, i + 1) = X(F[i], i)
      BY <1>6, <3>1
    <3>4. QED  BY <1>4, <2>2, <3>1, <3>2, <3>3
  <2>3. QED  BY <1>1, <2>1, <2>2, SameEnd
<1> DEFINE t == pmul(m, r, a, b, an, bn)
<1>9. RowsMade(m, t, r, a, b, N, M, N)
  <2>1. N \in 0 .. N
    BY <1>1
  <2>2. QED  BY <1>4, <1>5, <1>8, <2>1
<1> HIDE DEF t
<1>10. OnlyAt(m, t, r, N + M) /\ t \in Memory(m)
  BY <1>9 DEF RowsMade, OnlyAt
<1>11. Value(m, a, an) = Number(LimbsAt(m, a, N), N, 0) /\ Value(m, b, bn) = Number(LimbsAt(m, b, M), M, 0)
  <2>1. (\A j \in 0 .. N - 1 : Get(m, a, j) \in Limb) /\ \A j \in 0 .. M - 1 : Get(m, b, j) \in Limb
    BY <1>1, GetLimb
  <2>2. QED  BY <1>1, <2>1, NumberOfLimbs
<1>12. Value(t, r, an + bn) = Number(RowsDone(t, r, M, N), N + M, 0)
  <2>1. \A k \in 0 .. (N + M) - 1 : Get(t, r, k) \in Limb
    BY <1>1, <1>10, GetLimb
  <2>2. an + bn \in Nat /\ N + M \in Nat /\ N + M = (an + bn) * PacketLimbs /\ N # 0
    <3>1. PacketLimbs \in Nat /\ PacketLimbs # 0
      BY PacketsAssumption
    <3>2. (an + bn) * PacketLimbs = an * PacketLimbs + bn * PacketLimbs
      BY <3>1
    <3>3. an * PacketLimbs # 0
      BY <3>1
    <3>4. QED  BY <1>1, <3>2, <3>3
  <2>3. Value(t, r, an + bn) = Number(LimbsAt(t, r, N + M), N + M, 0)
    BY <2>1, <2>2, NumberOfLimbs
  <2>4. LimbsAt(t, r, N + M) = RowsDone(t, r, M, N)
    BY <2>2 DEF LimbsAt, RowsDone
  <2>5. QED  BY <2>3, <2>4
<1>13. Value(t, r, an + bn) = Value(m, a, an) * Value(m, b, bn)
  BY <1>9, <1>11, <1>12 DEF RowsMade
<1>14. QED  BY <1>10, <1>13 DEF t
=============================================================================
