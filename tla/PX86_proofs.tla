----------------------------- MODULE PX86_proofs -----------------------------
(***************************************************************************)
(* The x86-64 kernels of PX86 compute what the portable kernels of Packets *)
(* and PBits do, for every size of a limb, every length and every overlap  *)
(* that the loops are made for.                                            *)
(*                                                                         *)
(* Both loops are brought to one trace, the memories behind each limb that *)
(* is stored: the portable loop goes through all of them, the unrolled one *)
(* through those at the ends of its turns.  What a turn reads before the   *)
(* other loop has stored it is the same limb because the result does not   *)
(* run into an operand that has not been read (Readable, Over).            *)
(***************************************************************************)
EXTENDS PX86, Packets_proofs

-----------------------------------------------------------------------------
(* Loops in turns of two *)

\* The count of a loop in turns of two: how many turns, and whether one is left.
LEMMA Halves ==
    ASSUME NEW n \in Nat
    PROVE  \E q \in Nat : n \div 2 = q /\ ((n = 2 * q /\ n % 2 = 0) \/ (n = 2 * q + 1 /\ n % 2 = 1))
<1>1. n \div 2 \in Nat /\ n % 2 \in 0 .. 1 /\ n = 2 * (n \div 2) + (n % 2)
  BY DivMod
<1>2. QED  BY <1>1

\* The count of a loop in turns of four: what its two low bits say is left.
LEMMA Quarters ==
    ASSUME NEW n \in Nat
    PROVE  \E q \in Nat :
         /\ n \div 4 = q
         /\ \/ n = 4 * q /\ n % 4 = 0 /\ n % 2 = 0 /\ (n \div 2) % 2 = 0
            \/ n = 4 * q + 1 /\ n % 4 = 1 /\ n % 2 = 1 /\ (n \div 2) % 2 = 0
            \/ n = 4 * q + 2 /\ n % 4 = 2 /\ n % 2 = 0 /\ (n \div 2) % 2 = 1
            \/ n = 4 * q + 3 /\ n % 4 = 3 /\ n % 2 = 1 /\ (n \div 2) % 2 = 1
<1>1. PICK q \in Nat, s \in 0 .. 3 : n \div 4 = q /\ n % 4 = s /\ n = 4 * q + s
  <2>1. n \div 4 \in Nat /\ n % 4 \in 0 .. 3 /\ n = 4 * (n \div 4) + (n % 4)
    BY DivMod
  <2>2. QED  BY <2>1
<1>2. CASE s = 0
  <2>1. n = 2 * (2 * q) + 0
    BY <1>1, <1>2
  <2>2. n \div 2 = 2 * q /\ n % 2 = 0
    BY <2>1, DivIs
  <2>3. (2 * q) % 2 = 0
    BY DivIs
  <2>4. QED  BY <1>1, <1>2, <2>2, <2>3
<1>3. CASE s = 1
  <2>1. n = 2 * (2 * q) + 1
    BY <1>1, <1>3
  <2>2. n \div 2 = 2 * q /\ n % 2 = 1
    BY <2>1, DivIs
  <2>3. (2 * q) % 2 = 0
    BY DivIs
  <2>4. QED  BY <1>1, <1>3, <2>2, <2>3
<1>4. CASE s = 2
  <2>1. n = 2 * (2 * q + 1) + 0
    BY <1>1, <1>4
  <2>2. n \div 2 = 2 * q + 1 /\ n % 2 = 0
    BY <2>1, DivIs
  <2>3. (2 * q + 1) % 2 = 1
    BY DivIs
  <2>4. QED  BY <1>1, <1>4, <2>2, <2>3
<1>5. CASE s = 3
  <2>1. n = 2 * (2 * q + 1) + 1
    BY <1>1, <1>5
  <2>2. n \div 2 = 2 * q + 1 /\ n % 2 = 1
    BY <2>1, DivIs
  <2>3. (2 * q + 1) % 2 = 1
    BY DivIs
  <2>4. QED  BY <1>1, <1>5, <2>2, <2>3
<1>6. QED  BY <1>1, <1>2, <1>3, <1>4, <1>5

-----------------------------------------------------------------------------
(* Memories with any values *)

\* The memories with the buffers of m0 and values in W.
MemoryIn(W, m0) ==
    {m \in [DOMAIN m0 -> UNION {[DOMAIN m0[b] -> W] : b \in DOMAIN m0}] :
        \A b \in DOMAIN m0 : m[b] \in [DOMAIN m0[b] -> W]}

\* There is a limb i at p.
HasLimb(m, p, i) == p.buf \in DOMAIN m /\ p.at \in Nat /\ i \in Nat /\ p.at + i \in DOMAIN m[p.buf]

\* t is m with the limbs x[i] at r, for the i in I.
Stored(W, m, t, r, I, x) ==
    /\ t \in MemoryIn(W, m)
    /\ \A b \in DOMAIN m : \A k \in DOMAIN m[b] :
          t[b][k] = IF b = r.buf /\ k \in Int /\ k - r.at \in I THEN x[k - r.at] ELSE m[b][k]

\* A store to a limb that is there changes that limb.
LEMMA PutIn ==
    ASSUME NEW W, NEW m0, NEW m \in MemoryIn(W, m0), NEW p, NEW i, NEW x \in W,
           HasLimb(m0, p, i)
    PROVE  /\ Put(m, p, i, x) \in MemoryIn(W, m0)
           /\ \A b \in DOMAIN m0 : \A k \in DOMAIN m0[b] :
                 Put(m, p, i, x)[b][k] = IF b = p.buf /\ k = p.at + i THEN x ELSE m[b][k]
<1>0. p.buf \in DOMAIN m0 /\ p.at + i \in DOMAIN m0[p.buf]
  BY DEF HasLimb
<1>1. Put(m, p, i, x) = [m EXCEPT ![p.buf][p.at + i] = x]
  BY <1>0 DEF Put, MemoryIn
<1>2. /\ m \in [DOMAIN m0 -> UNION {[DOMAIN m0[b] -> W] : b \in DOMAIN m0}]
      /\ \A b \in DOMAIN m0 : m[b] \in [DOMAIN m0[b] -> W]
  BY DEF MemoryIn
<1> DEFINE q == [m[p.buf] EXCEPT ![p.at + i] = x]
<1>3. q \in [DOMAIN m0[p.buf] -> W]
      /\ \A k \in DOMAIN m0[p.buf] : q[k] = IF k = p.at + i THEN x ELSE m[p.buf][k]
  BY <1>0, <1>2
<1>4. Put(m, p, i, x) = [m EXCEPT ![p.buf] = q]
  BY <1>1
<1> HIDE DEF q
<1>5. \A b \in DOMAIN m0 : Put(m, p, i, x)[b] = IF b = p.buf THEN q ELSE m[b]
  BY <1>2, <1>4
<1>6. DOMAIN Put(m, p, i, x) = DOMAIN m0 /\ Put(m, p, i, x) = [b \in DOMAIN m0 |-> Put(m, p, i, x)[b]]
  BY <1>2, <1>4
<1>7. \A b \in DOMAIN m0 : Put(m, p, i, x)[b] \in [DOMAIN m0[b] -> W]
  BY <1>2, <1>3, <1>5
<1>8. Put(m, p, i, x) \in MemoryIn(W, m0)
  BY <1>6, <1>7 DEF MemoryIn
<1>9. QED  BY <1>0, <1>2, <1>3, <1>5, <1>8

\* Nothing is stored yet.
LEMMA StoredNone ==
    ASSUME NEW W, NEW m, m \in MemoryIn(W, m), NEW r, NEW x
    PROVE  Stored(W, m, m, r, {}, x)
  BY DEF Stored

\* One more limb.
LEMMA StoredMore ==
    ASSUME NEW W, NEW m, NEW t, NEW r, NEW I, I \subseteq Nat, NEW x, Stored(W, m, t, r, I, x),
           NEW i, HasLimb(m, r, i), x[i] \in W
    PROVE  /\ Stored(W, m, Put(t, r, i, x[i]), r, I \union {i}, x)
           /\ Put(t, r, i, x[i]) \in MemoryIn(W, m)
<1>1. t \in MemoryIn(W, m) /\ r.at \in Nat /\ i \in Nat
  BY DEF Stored, HasLimb
<1>2. /\ Put(t, r, i, x[i]) \in MemoryIn(W, m)
      /\ \A b \in DOMAIN m : \A k \in DOMAIN m[b] :
            Put(t, r, i, x[i])[b][k] = IF b = r.buf /\ k = r.at + i THEN x[i] ELSE t[b][k]
  BY <1>1, PutIn
<1>3. ASSUME NEW b \in DOMAIN m, NEW k \in DOMAIN m[b]
      PROVE  Put(t, r, i, x[i])[b][k] =
             IF b = r.buf /\ k \in Int /\ k - r.at \in I \union {i} THEN x[k - r.at] ELSE m[b][k]
  <2>2. k = r.at + i <=> k \in Int /\ k - r.at = i
    BY <1>1
  <2>3. t[b][k] = IF b = r.buf /\ k \in Int /\ k - r.at \in I THEN x[k - r.at] ELSE m[b][k]
    BY DEF Stored
  <2>4. QED  BY <1>2, <2>2, <2>3
<1>4. QED  BY <1>2, <1>3 DEF Stored

\* What is stored decides the memory.
LEMMA StoredSame ==
    ASSUME NEW W, NEW V, NEW m, NEW t, NEW u, NEW r, NEW I, NEW x, NEW y,
           Stored(W, m, t, r, I, x), Stored(V, m, u, r, I, y), \A i \in I : x[i] = y[i]
    PROVE  t = u
<1>1. \A b \in DOMAIN m : t[b] \in [DOMAIN m[b] -> W] /\ u[b] \in [DOMAIN m[b] -> V]
  BY DEF Stored, MemoryIn
<1>2. \A b \in DOMAIN m : \A k \in DOMAIN m[b] : t[b][k] = u[b][k]
  BY DEF Stored
<1>3. \A b \in DOMAIN m : t[b] = u[b]
  BY <1>1, <1>2
<1>4. t = [b \in DOMAIN m |-> t[b]] /\ u = [b \in DOMAIN m |-> u[b]]
  BY DEF Stored, MemoryIn
<1>5. QED  BY <1>3, <1>4

\* What was not stored over, and what was stored.
LEMMA StoredRead ==
    ASSUME NEW W, NEW m, NEW t, NEW r, NEW I, NEW x, Stored(W, m, t, r, I, x),
           NEW p, NEW i, HasLimb(m, p, i), p.buf # r.buf \/ (p.at + i) - r.at \notin I
    PROVE  Get(t, p, i) = Get(m, p, i)
<1>1. p.buf \in DOMAIN m /\ p.at + i \in DOMAIN m[p.buf]
  BY DEF HasLimb
<1>2. t[p.buf][p.at + i] = m[p.buf][p.at + i]
  BY <1>1 DEF Stored
<1>3. QED  BY <1>2 DEF Get

\* A stored limb is read back.
LEMMA StoredThere ==
    ASSUME NEW W, NEW m, NEW t, NEW r, NEW I, NEW x, Stored(W, m, t, r, I, x),
           NEW i \in I, HasLimb(m, r, i)
    PROVE  Get(t, r, i) = x[i]
<1>1. r.at + i \in Int /\ (r.at + i) - r.at = i
  BY DEF HasLimb
<1>2. QED  BY <1>1 DEF Stored, HasLimb, Get

\* A loop whose turn i stores limb p[i]: its memories g.
PutTrace(W, m, r, I, x, n, p, t, g) ==
    /\ g \in [0 .. n -> MemoryIn(W, m)] /\ g[0] = t
    /\ \A i \in 0 .. n - 1 : g[i + 1] = Put(g[i], r, p[i], x[p[i]])
    /\ \A i \in 0 .. n : Stored(W, m, g[i], r, I \union {p[j] : j \in 0 .. i - 1}, x)

\* The trace of a loop that stores x at the limbs p[0], ..., p[n - 1].
LEMMA PutLoop ==
    ASSUME NEW W, NEW m, NEW r, NEW I, I \subseteq Nat, NEW x, NEW t, Stored(W, m, t, r, I, x),
           NEW n \in Nat, NEW p, \A i \in 0 .. n - 1 : HasLimb(m, r, p[i]) /\ x[p[i]] \in W
    PROVE  \E g : PutTrace(W, m, r, I, x, n, p, t, g)
<1> DEFINE B == [i \in 0 .. n - 1 |-> [u \in MemoryIn(W, m) |-> Put(u, r, p[i], x[p[i]])]]
           J(i) == I \union {p[j] : j \in 0 .. i - 1}
<1>1. ASSUME NEW i \in 0 .. n - 1 PROVE B[i] \in [MemoryIn(W, m) -> MemoryIn(W, m)]
  BY PutIn
<1>2. PICK g : Steps(MemoryIn(W, m), B, t, n, g)
  BY <1>1, StepsExist DEF Stored
<1>3. /\ g \in [0 .. n -> MemoryIn(W, m)] /\ g[0] = t
      /\ \A i \in 0 .. n - 1 : g[i + 1] = Put(g[i], r, p[i], x[p[i]])
  <2>1. /\ g \in [0 .. n -> MemoryIn(W, m)] /\ g[0] = t
        /\ \A i \in 0 .. n - 1 : g[i] \in MemoryIn(W, m) /\ g[i + 1] = B[i][g[i]]
    BY <1>2 DEF Steps
  <2>2. QED  BY <2>1
<1> HIDE DEF B
<1> DEFINE S == {i \in Nat : i =< n => Stored(W, m, g[i], r, J(i), x)}
<1>4. 0 \in S
  <2>1. J(0) = I
    OBVIOUS
  <2>2. QED  BY <1>3, <2>1
<1>5. ASSUME NEW i \in Nat, i \in S PROVE i + 1 \in S
  <2>1. SUFFICES ASSUME i + 1 =< n PROVE Stored(W, m, g[i + 1], r, J(i + 1), x)
    OBVIOUS
  <2>2. i \in 0 .. n - 1 /\ Stored(W, m, g[i], r, J(i), x)
    BY <1>5, <2>1
  <2>3. J(i + 1) = J(i) \union {p[i]}
    <3>1. 0 .. (i + 1) - 1 = (0 .. i - 1) \union {i}
      BY <2>2
    <3>2. QED  BY <3>1
  <2>4. J(i) \subseteq Nat
    <3>1. \A j \in 0 .. i - 1 : p[j] \in Nat
      BY <2>2 DEF HasLimb
    <3>2. QED  BY <3>1
  <2> HIDE DEF J
  <2>5. HasLimb(m, r, p[i]) /\ x[p[i]] \in W /\ g[i + 1] = Put(g[i], r, p[i], x[p[i]])
    BY <1>3, <2>2
  <2>6. Stored(W, m, Put(g[i], r, p[i], x[p[i]]), r, J(i) \union {p[i]}, x)
    BY <2>2, <2>4, <2>5, StoredMore
  <2>7. QED  BY <2>3, <2>5, <2>6
<1> HIDE DEF S, J
<1>6. \A i \in Nat : i \in S
  BY <1>4, <1>5, UpInduct
<1>7. \A i \in 0 .. n : Stored(W, m, g[i], r, J(i), x)
  BY <1>6 DEF S
<1>8. PutTrace(W, m, r, I, x, n, p, t, g)
  BY <1>3, <1>7 DEF PutTrace, J
<1>9. QED  BY <1>8

-----------------------------------------------------------------------------
(* Unrolled loops *)

\* A turn stores what it makes of the memory before it.
LEMMA TurnStores ==
    ASSUME NEW W, NEW m, NEW r, NEW I, I \subseteq Nat, NEW x, NEW t, Stored(W, m, t, r, I, x),
           NEW op, NEW a, NEW b, NEW k \in Nat, NEW w \in Nat,
           \A i \in 0 .. 2 * w - 1 :
              HasLimb(m, r, 2 * k + i) /\ x[2 * k + i] \in W
              /\ x[2 * k + i] = Limbwise(op, t, a, b, 2 * k + i)
    PROVE  Stored(W, m, Turn(op, t, r, a, b, k, w), r, I \union (2 * k .. 2 * (k + w) - 1), x)
<1> DEFINE N == 2 * w
           p == [i \in 0 .. N - 1 |-> 2 * k + i]
<1>1. N \in Nat /\ \A i \in 0 .. N - 1 : p[i] = 2 * k + i
  OBVIOUS
<1> HIDE DEF p
<1>2. PICK g : PutTrace(W, m, r, I, x, N, p, t, g)
  <2>1. \A i \in 0 .. N - 1 : HasLimb(m, r, p[i]) /\ x[p[i]] \in W
    BY <1>1
  <2>2. QED  BY <1>1, <2>1, PutLoop
<1>3. g[0] = t /\ g = [i \in 0 .. N |-> g[i]]
      /\ \A i \in 0 .. N - 1 : g[i + 1] = Put(g[i], r, p[i], x[p[i]])
  BY <1>2 DEF PutTrace
<1> DEFINE Body(u, i) == Put(u, r, 2 * k + i, Limbwise(op, t, a, b, 2 * k + i))
           Q(h, i) == Given(h[i - 1], LAMBDA u : Body(u, i - 1))
           Eq(h) == h = [i \in 0 .. N |-> IF i = 0 THEN t ELSE Q(h, i)]
           F == CHOOSE h : Eq(h)
<1>4. Turn(op, t, r, a, b, k, w) = F[N]
  BY DEF Turn, Loop, Given
<1>5. \A h, i : Q(h, i) = Body(h[i - 1], i - 1)
  BY DEF Given
<1>6. \A i \in 0 .. N - 1 : g[i + 1] = Body(g[i], i)
  BY <1>1, <1>3
<1> HIDE DEF Body, Q
<1>7. Eq(F)
  <2>1. ASSUME NEW i \in 0 .. N, i # 0 PROVE g[i] = Q(g, i)
    <3>1. i - 1 \in 0 .. N - 1 /\ (i - 1) + 1 = i
      BY <2>1
    <3>2. QED  BY <1>5, <1>6, <3>1
  <2>2. Eq(g)
    BY <1>3, <2>1
  <2>3. QED  BY <2>2
<1> HIDE DEF F
<1>8. F[N] = g[N]
  <2>1. F[0] = g[0]
    BY <1>1, <1>3, <1>7
  <2>2. ASSUME NEW i \in 0 .. N - 1, F[i] = g[i] PROVE F[i + 1] = g[i + 1]
    <3>1. i + 1 \in 0 .. N /\ i + 1 # 0 /\ (i + 1) - 1 = i
      OBVIOUS
    <3>2. F[i + 1] = Body(F[i], i)
      BY <1>5, <1>7, <3>1
    <3>3. QED  BY <1>6, <2>2, <3>2
  <2>3. QED  BY <1>1, <2>1, <2>2, SameEnd
<1>9. {p[j] : j \in 0 .. N - 1} = 2 * k .. 2 * (k + w) - 1
  <2>1. ASSUME NEW q \in 2 * k .. 2 * (k + w) - 1 PROVE q \in {p[j] : j \in 0 .. N - 1}
    <3>1. q - 2 * k \in 0 .. N - 1 /\ 2 * k + (q - 2 * k) = q
      OBVIOUS
    <3>2. q = p[q - 2 * k]
      BY <1>1, <3>1
    <3>3. QED  BY <3>1, <3>2
  <2>2. \A j \in 0 .. N - 1 : p[j] \in 2 * k .. 2 * (k + w) - 1
    BY <1>1
  <2>3. QED  BY <2>1, <2>2
<1>10. Stored(W, m, g[N], r, I \union {p[j] : j \in 0 .. N - 1}, x)
  BY <1>1, <1>2 DEF PutTrace
<1>11. QED  BY <1>4, <1>8, <1>9, <1>10

\* Limbs below p and those from p to q.
LEMMA RangeJoin ==
    ASSUME NEW p \in Nat, NEW q \in Nat, p =< q
    PROVE  (0 .. p - 1) \union (p .. q - 1) = 0 .. q - 1
  OBVIOUS

\* Whatever limbs below the i-th are stored at r, op makes x[i] of limb i.
Follow(W, m, r, N, x, op, a, b) ==
    \A t : \A i \in 0 .. N - 1 : \A k \in 0 .. i :
        Stored(W, m, t, r, 0 .. k - 1, x) => x[i] = Limbwise(op, t, a, b, i)

\* A turn goes on behind what is stored.
LEMMA TurnFollows ==
    ASSUME NEW W, NEW m, NEW r, NEW N \in Nat, NEW x, NEW op, NEW a, NEW b,
           \A i \in 0 .. N - 1 : HasLimb(m, r, i) /\ x[i] \in W,
           Follow(W, m, r, N, x, op, a, b),
           NEW k \in Nat, NEW w \in Nat, 2 * (k + w) =< N,
           NEW t, Stored(W, m, t, r, 0 .. 2 * k - 1, x)
    PROVE  Stored(W, m, Turn(op, t, r, a, b, k, w), r, 0 .. 2 * (k + w) - 1, x)
<1>1. ASSUME NEW i \in 0 .. 2 * w - 1
      PROVE  HasLimb(m, r, 2 * k + i) /\ x[2 * k + i] \in W
             /\ x[2 * k + i] = Limbwise(op, t, a, b, 2 * k + i)
  <2>1. 2 * k + i \in 0 .. N - 1 /\ 2 * k \in 0 .. 2 * k + i
    OBVIOUS
  <2>2. QED  BY <2>1 DEF Follow
<1> DEFINE J == (0 .. 2 * k - 1) \union (2 * k .. 2 * (k + w) - 1)
<1>2. 0 .. 2 * k - 1 \subseteq Nat
  OBVIOUS
<1>3. Stored(W, m, Turn(op, t, r, a, b, k, w), r, J, x)
  BY <1>1, <1>2, TurnStores
<1>4. J = 0 .. 2 * (k + w) - 1
  BY RangeJoin
<1>5. QED  BY <1>3, <1>4

\* Turns of four, two and one store every limb.
LEMMA UnrolledStores ==
    ASSUME NEW W, NEW m, m \in MemoryIn(W, m), NEW r, NEW n \in Nat, NEW N \in Nat, N = 2 * n,
           NEW x, NEW op, NEW a, NEW b,
           \A i \in 0 .. N - 1 : HasLimb(m, r, i) /\ x[i] \in W,
           Follow(W, m, r, N, x, op, a, b)
    PROVE  Stored(W, m, Unrolled(op, m, r, a, b, n), r, 0 .. N - 1, x)
<1> DEFINE M == MemoryIn(W, m)
           fours == n \div 4
           Four(u, j) == Turn(op, u, r, a, b, 4 * j, 4)
           B == [j \in 0 .. fours - 1 |-> [u \in M |-> IF Four(u, j) \in M THEN Four(u, j) ELSE u]]
<1>1. fours \in Nat /\ 4 * fours =< n
      /\ \/ n = 4 * fours /\ n % 2 = 0 /\ ~TwoLeft(n)
         \/ n = 4 * fours + 1 /\ n % 2 = 1 /\ ~TwoLeft(n)
         \/ n = 4 * fours + 2 /\ n % 2 = 0 /\ TwoLeft(n)
         \/ n = 4 * fours + 3 /\ n % 2 = 1 /\ TwoLeft(n)
  <2>1. PICK q \in Nat :
         /\ n \div 4 = q
         /\ \/ n = 4 * q /\ n % 4 = 0 /\ n % 2 = 0 /\ (n \div 2) % 2 = 0
            \/ n = 4 * q + 1 /\ n % 4 = 1 /\ n % 2 = 1 /\ (n \div 2) % 2 = 0
            \/ n = 4 * q + 2 /\ n % 4 = 2 /\ n % 2 = 0 /\ (n \div 2) % 2 = 1
            \/ n = 4 * q + 3 /\ n % 4 = 3 /\ n % 2 = 1 /\ (n \div 2) % 2 = 1
    BY Quarters
  <2>2. TwoLeft(n) <=> (n \div 2) % 2 = 1
    BY DEF TwoLeft
  <2>3. QED  BY <2>1, <2>2
<1> HIDE DEF fours
<1>2. \A j \in 0 .. fours - 1 : B[j] \in [M -> M]
  OBVIOUS
<1> HIDE DEF M, B
<1>3. PICK g : Steps(M, B, m, fours, g)
  <2>1. m \in M
    BY DEF M
  <2>2. QED  BY <1>1, <1>2, <2>1, StepsExist
<1>4. /\ g \in [0 .. fours -> M] /\ g[0] = m
      /\ \A j \in 0 .. fours - 1 : Four(g[j], j) \in M => g[j + 1] = Four(g[j], j)
  <2>1. g \in [0 .. fours -> M] /\ g[0] = m /\ \A j \in 0 .. fours - 1 : g[j] \in M /\ g[j + 1] = B[j][g[j]]
    BY <1>1, <1>3 DEF Steps
  <2>2. \A j \in 0 .. fours - 1 : \A u \in M : B[j][u] = IF Four(u, j) \in M THEN Four(u, j) ELSE u
    BY DEF B
  <2> HIDE DEF Four
  <2>3. QED  BY <2>1, <2>2
<1>5. ASSUME NEW k \in Nat, NEW w \in Nat, k + w =< n, NEW t, Stored(W, m, t, r, 0 .. 2 * k - 1, x)
      PROVE  Stored(W, m, Turn(op, t, r, a, b, k, w), r, 0 .. 2 * (k + w) - 1, x)
  <2>1. 2 * (k + w) =< N
    BY <1>5
  <2>2. QED  BY <1>5, <2>1, TurnFollows
<1> DEFINE S == {j \in Nat : j =< fours => Stored(W, m, g[j], r, 0 .. 2 * (4 * j) - 1, x)}
<1>6. ASSUME NEW j \in 0 .. fours - 1, Stored(W, m, g[j], r, 0 .. 2 * (4 * j) - 1, x)
      PROVE  /\ Stored(W, m, Four(g[j], j), r, 0 .. 2 * (4 * (j + 1)) - 1, x)
             /\ g[j + 1] = Four(g[j], j)
  <2>1. 4 * j \in Nat /\ 4 * j + 4 =< n /\ 4 * j + 4 = 4 * (j + 1)
    BY <1>1
  <2>2. Stored(W, m, Four(g[j], j), r, 0 .. 2 * (4 * j + 4) - 1, x)
    BY <1>5, <1>6, <2>1
  <2>3. Four(g[j], j) \in M
    BY <2>2 DEF Stored, M
  <2>4. QED  BY <1>4, <2>1, <2>2, <2>3
<1>7. \A j \in Nat : j \in S
  <2>1. 0 \in S
    <3>1. 0 .. 2 * (4 * 0) - 1 = {}
      OBVIOUS
    <3>2. Stored(W, m, m, r, {}, x)
      BY StoredNone
    <3>3. QED  BY <1>4, <3>1, <3>2
  <2>2. ASSUME NEW j \in Nat, j \in S PROVE j + 1 \in S
    <3>1. SUFFICES ASSUME j + 1 =< fours PROVE Stored(W, m, g[j + 1], r, 0 .. 2 * (4 * (j + 1)) - 1, x)
      OBVIOUS
    <3>2. j \in 0 .. fours - 1 /\ Stored(W, m, g[j], r, 0 .. 2 * (4 * j) - 1, x)
      BY <1>1, <2>2, <3>1
    <3>3. QED  BY <1>6, <3>2
  <2> HIDE DEF S
  <2>3. QED  BY <2>1, <2>2, UpInduct
<1>8. \A j \in 0 .. fours : Stored(W, m, g[j], r, 0 .. 2 * (4 * j) - 1, x)
  BY <1>1, <1>7
<1> HIDE DEF S
<1> DEFINE rest == Loop(fours, m, LAMBDA t, j : Turn(op, t, r, a, b, 4 * j, 4))
<1> DEFINE Bodya(u, i) == Four(u, i)
           Qa(h, i) == Given(h[i - 1], LAMBDA u : Bodya(u, i - 1))
           Eqa(h) == h = [i \in 0 .. fours |-> IF i = 0 THEN m ELSE Qa(h, i)]
           Fa == CHOOSE h : Eqa(h)
<1>a1. rest = Fa[fours]
  BY DEF Loop, Given
<1>a2. \A h, i : Qa(h, i) = Bodya(h[i - 1], i - 1)
  BY DEF Given
<1>a3. \A i \in 0 .. fours - 1 : g[i + 1] = Bodya(g[i], i)
  BY <1>1, <1>6, <1>8
<1>a0. g[0] = m /\ g = [j \in 0 .. fours |-> g[j]]
  BY <1>4
<1> HIDE DEF Bodya, Qa
<1>a4. Eqa(Fa)
  <2>1. ASSUME NEW i \in 0 .. fours, i # 0 PROVE g[i] = Qa(g, i)
    <3>1. i - 1 \in 0 .. fours - 1 /\ (i - 1) + 1 = i
      BY <2>1, <1>1
    <3>2. QED  BY <1>a2, <1>a3, <3>1
  <2>2. Eqa(g)
    BY <1>a0, <2>1
  <2>3. QED  BY <2>2
<1> HIDE DEF Fa
<1>a5. Fa[fours] = g[fours]
  <2>1. Fa[0] = g[0]
    BY <1>a0, <1>a4, <1>1
  <2>2. ASSUME NEW i \in 0 .. fours - 1, Fa[i] = g[i] PROVE Fa[i + 1] = g[i + 1]
    <3>1. i + 1 \in 0 .. fours /\ i + 1 # 0 /\ (i + 1) - 1 = i
      BY <1>1
    <3>2. Fa[i + 1] = Bodya(Fa[i], i)
      BY <1>1, <1>a2, <1>a4, <3>1
    <3>3. QED  BY <1>a3, <2>2, <3>2
  <2>3. QED  BY <1>1, <2>1, <2>2, SameEnd
<1> HIDE DEF rest
<1>9. Stored(W, m, rest, r, 0 .. 2 * (4 * fours) - 1, x)
  BY <1>1, <1>8, <1>a1, <1>a5
<1> DEFINE last == IF TwoLeft(n) THEN Turn(op, rest, r, a, b, 4 * fours, 2) ELSE rest
<1>10. Unrolled(op, m, r, a, b, n) = IF n % 2 = 1 THEN Turn(op, last, r, a, b, n - 1, 1) ELSE last
  BY DEF Unrolled, fours, rest
<1>12. Stored(W, m, last, r, 0 .. 2 * (n - (n % 2)) - 1, x)
  <2>1. CASE TwoLeft(n)
    <3>1. n - (n % 2) = 4 * fours + 2 /\ 4 * fours \in Nat /\ 4 * fours + 2 =< n
      BY <1>1, <2>1
    <3>2. Stored(W, m, Turn(op, rest, r, a, b, 4 * fours, 2), r, 0 .. 2 * (4 * fours + 2) - 1, x)
      BY <1>5, <1>9, <3>1
    <3>3. QED  BY <2>1, <3>1, <3>2
  <2>2. CASE ~TwoLeft(n)
    <3>1. n - (n % 2) = 4 * fours
      BY <1>1, <2>2
    <3>2. QED  BY <1>9, <2>2, <3>1
  <2>3. QED  BY <2>1, <2>2
<1> HIDE DEF last
<1>13. CASE n % 2 = 1
  <2>1. n - 1 \in Nat /\ (n - 1) + 1 = n /\ n - (n % 2) = n - 1
    BY <1>13
  <2>2. Stored(W, m, Turn(op, last, r, a, b, n - 1, 1), r, 0 .. 2 * ((n - 1) + 1) - 1, x)
    BY <1>5, <1>12, <2>1
  <2>3. QED  BY <1>10, <1>13, <2>1, <2>2
<1>14. CASE n % 2 # 1
  <2>1. n - (n % 2) = n
    BY <1>1, <1>14
  <2>2. QED  BY <1>10, <1>12, <1>14, <2>1
<1>15. QED  BY <1>13, <1>14

\* The loop of a portable kernel that makes limb i of limb i.
FollowTrace(W, m, r, N, x, op, a, b, g) ==
    /\ g[0] = m /\ g = [i \in 0 .. N |-> g[i]]
    /\ \A i \in 0 .. N - 1 : g[i + 1] = Put(g[i], r, i, Limbwise(op, g[i], a, b, i))
    /\ Stored(W, m, g[N], r, 0 .. N - 1, x)

\* The trace of a loop that stores limb after limb what op makes of it.
LEMMA FollowLoop ==
    ASSUME NEW W, NEW m, m \in MemoryIn(W, m), NEW r, NEW N \in Nat, NEW x, NEW op, NEW a, NEW b,
           \A i \in 0 .. N - 1 : HasLimb(m, r, i) /\ x[i] \in W,
           Follow(W, m, r, N, x, op, a, b)
    PROVE  \E g : FollowTrace(W, m, r, N, x, op, a, b, g)
<1> DEFINE p == [i \in 0 .. N - 1 |-> i]
<1>1. \A i \in 0 .. N - 1 : p[i] = i
  OBVIOUS
<1> HIDE DEF p
<1>2. PICK g : PutTrace(W, m, r, {}, x, N, p, m, g)
  <2>1. Stored(W, m, m, r, {}, x)
    BY StoredNone
  <2>2. \A i \in 0 .. N - 1 : HasLimb(m, r, p[i]) /\ x[p[i]] \in W
    BY <1>1
  <2>3. QED  BY <2>1, <2>2, PutLoop
<1>3. ASSUME NEW i \in 0 .. N PROVE Stored(W, m, g[i], r, 0 .. i - 1, x)
  <2>1. {} \union {p[j] : j \in 0 .. i - 1} = 0 .. i - 1
    BY <1>1
  <2>2. Stored(W, m, g[i], r, {} \union {p[j] : j \in 0 .. i - 1}, x)
    BY <1>2 DEF PutTrace
  <2>3. QED  BY <2>1, <2>2
<1>4. ASSUME NEW i \in 0 .. N - 1 PROVE g[i + 1] = Put(g[i], r, i, Limbwise(op, g[i], a, b, i))
  <2>1. i \in 0 .. N /\ i \in 0 .. i
    OBVIOUS
  <2>2. x[i] = Limbwise(op, g[i], a, b, i)
    BY <1>3, <2>1 DEF Follow
  <2>3. g[i + 1] = Put(g[i], r, p[i], x[p[i]])
    BY <1>2 DEF PutTrace
  <2>4. QED  BY <1>1, <2>2, <2>3
<1>5. g[0] = m /\ g = [i \in 0 .. N |-> g[i]]
  BY <1>2 DEF PutTrace
<1>6. FollowTrace(W, m, r, N, x, op, a, b, g)
  <2>1. Stored(W, m, g[N], r, 0 .. N - 1, x)
    BY <1>3
  <2>2. QED  BY <1>4, <1>5, <2>1 DEF FollowTrace
<1>7. QED  BY <1>6

\* hebi_pand, hebi_por and hebi_pxor, limb by limb.
LEMMA CombiningLoop ==
    ASSUME NEW W, NEW m, m \in MemoryIn(W, m), NEW r, NEW n \in Nat, NEW N \in Nat, N = n * PacketLimbs,
           NEW x, NEW op, op \in {"and", "or", "xor"}, NEW a, NEW b,
           \A i \in 0 .. N - 1 : HasLimb(m, r, i) /\ x[i] \in W,
           Follow(W, m, r, N, x, op, a, b)
    PROVE  Stored(W, m, EachLimb(op, m, r, a, b, n), r, 0 .. N - 1, x)
<1>1. PICK g : FollowTrace(W, m, r, N, x, op, a, b, g)
  BY FollowLoop
<1>2. g[0] = m /\ g = [i \in 0 .. N |-> g[i]] /\ Stored(W, m, g[N], r, 0 .. N - 1, x)
  BY <1>1 DEF FollowTrace
<1> DEFINE Bodya(u, i) == Put(u, r, i, Combined(op, Get(u, a, i), Get(u, b, i)))
           Qa(h, i) == Given(h[i - 1], LAMBDA u : Bodya(u, i - 1))
           Eqa(h) == h = [i \in 0 .. N |-> IF i = 0 THEN m ELSE Qa(h, i)]
           Fa == CHOOSE h : Eqa(h)
<1>a1. EachLimb(op, m, r, a, b, n) = Fa[N]
  BY DEF EachLimb, Loop, Given
<1>a2. \A h, i : Qa(h, i) = Bodya(h[i - 1], i - 1)
  BY DEF Given
<1>a3. \A i \in 0 .. N - 1 : g[i + 1] = Bodya(g[i], i)
  BY <1>1 DEF FollowTrace, Limbwise
<1> HIDE DEF Bodya, Qa
<1>a4. Eqa(Fa)
  <2>1. ASSUME NEW i \in 0 .. N, i # 0 PROVE g[i] = Qa(g, i)
    <3>1. i - 1 \in 0 .. N - 1 /\ (i - 1) + 1 = i
      BY <2>1, <1>2
    <3>2. QED  BY <1>a2, <1>a3, <3>1
  <2>2. Eqa(g)
    BY <1>2, <2>1
  <2>3. QED  BY <2>2
<1> HIDE DEF Fa
<1>a5. Fa[N] = g[N]
  <2>1. Fa[0] = g[0]
    BY <1>2, <1>a4, <1>2
  <2>2. ASSUME NEW i \in 0 .. N - 1, Fa[i] = g[i] PROVE Fa[i + 1] = g[i + 1]
    <3>1. i + 1 \in 0 .. N /\ i + 1 # 0 /\ (i + 1) - 1 = i
      BY <1>2
    <3>2. Fa[i + 1] = Bodya(Fa[i], i)
      BY <1>2, <1>a2, <1>a4, <3>1
    <3>3. QED  BY <1>a3, <2>2, <3>2
  <2>3. QED  BY <1>2, <2>1, <2>2, SameEnd
<1>3. QED  BY <1>2, <1>a1, <1>a5

\* hebi_pzero, limb by limb.
LEMMA ZerosLoop ==
    ASSUME NEW W, NEW m, m \in MemoryIn(W, m), NEW r, NEW n \in Nat, NEW N \in Nat, N = n * PacketLimbs,
           NEW x, NEW op, op = "zero", NEW a, NEW b,
           \A i \in 0 .. N - 1 : HasLimb(m, r, i) /\ x[i] \in W,
           Follow(W, m, r, N, x, op, a, b)
    PROVE  Stored(W, m, pzero(m, r, n), r, 0 .. N - 1, x)
<1>1. PICK g : FollowTrace(W, m, r, N, x, op, a, b, g)
  BY FollowLoop
<1>2. g[0] = m /\ g = [i \in 0 .. N |-> g[i]] /\ Stored(W, m, g[N], r, 0 .. N - 1, x)
  BY <1>1 DEF FollowTrace
<1> DEFINE Bodya(u, i) == Put(u, r, i, 0)
           Qa(h, i) == Given(h[i - 1], LAMBDA u : Bodya(u, i - 1))
           Eqa(h) == h = [i \in 0 .. N |-> IF i = 0 THEN m ELSE Qa(h, i)]
           Fa == CHOOSE h : Eqa(h)
<1>a1. pzero(m, r, n) = Fa[N]
  BY DEF pzero, Loop, Given
<1>a2. \A h, i : Qa(h, i) = Bodya(h[i - 1], i - 1)
  BY DEF Given
<1>a3. \A i \in 0 .. N - 1 : g[i + 1] = Bodya(g[i], i)
  BY <1>1 DEF FollowTrace, Limbwise
<1> HIDE DEF Bodya, Qa
<1>a4. Eqa(Fa)
  <2>1. ASSUME NEW i \in 0 .. N, i # 0 PROVE g[i] = Qa(g, i)
    <3>1. i - 1 \in 0 .. N - 1 /\ (i - 1) + 1 = i
      BY <2>1, <1>2
    <3>2. QED  BY <1>a2, <1>a3, <3>1
  <2>2. Eqa(g)
    BY <1>2, <2>1
  <2>3. QED  BY <2>2
<1> HIDE DEF Fa
<1>a5. Fa[N] = g[N]
  <2>1. Fa[0] = g[0]
    BY <1>2, <1>a4, <1>2
  <2>2. ASSUME NEW i \in 0 .. N - 1, Fa[i] = g[i] PROVE Fa[i + 1] = g[i + 1]
    <3>1. i + 1 \in 0 .. N /\ i + 1 # 0 /\ (i + 1) - 1 = i
      BY <1>2
    <3>2. Fa[i + 1] = Bodya(Fa[i], i)
      BY <1>2, <1>a2, <1>a4, <3>1
    <3>3. QED  BY <1>a3, <2>2, <3>2
  <2>3. QED  BY <1>2, <2>1, <2>2, SameEnd
<1>3. QED  BY <1>2, <1>a1, <1>a5

\* hebi_pnot, limb by limb.
LEMMA ComplementsLoop ==
    ASSUME NEW W, NEW m, m \in MemoryIn(W, m), NEW r, NEW n \in Nat, NEW N \in Nat, N = n * PacketLimbs,
           NEW x, NEW op, op = "not", NEW a, NEW b,
           \A i \in 0 .. N - 1 : HasLimb(m, r, i) /\ x[i] \in W,
           Follow(W, m, r, N, x, op, a, b)
    PROVE  Stored(W, m, pnot(m, r, a, n), r, 0 .. N - 1, x)
<1>1. PICK g : FollowTrace(W, m, r, N, x, op, a, b, g)
  BY FollowLoop
<1>2. g[0] = m /\ g = [i \in 0 .. N |-> g[i]] /\ Stored(W, m, g[N], r, 0 .. N - 1, x)
  BY <1>1 DEF FollowTrace
<1> DEFINE Bodya(u, i) == Put(u, r, i, Base - 1 - Get(u, a, i))
           Qa(h, i) == Given(h[i - 1], LAMBDA u : Bodya(u, i - 1))
           Eqa(h) == h = [i \in 0 .. N |-> IF i = 0 THEN m ELSE Qa(h, i)]
           Fa == CHOOSE h : Eqa(h)
<1>a1. pnot(m, r, a, n) = Fa[N]
  BY DEF pnot, Loop, Given
<1>a2. \A h, i : Qa(h, i) = Bodya(h[i - 1], i - 1)
  BY DEF Given
<1>a3. \A i \in 0 .. N - 1 : g[i + 1] = Bodya(g[i], i)
  BY <1>1 DEF FollowTrace, Limbwise
<1> HIDE DEF Bodya, Qa
<1>a4. Eqa(Fa)
  <2>1. ASSUME NEW i \in 0 .. N, i # 0 PROVE g[i] = Qa(g, i)
    <3>1. i - 1 \in 0 .. N - 1 /\ (i - 1) + 1 = i
      BY <2>1, <1>2
    <3>2. QED  BY <1>a2, <1>a3, <3>1
  <2>2. Eqa(g)
    BY <1>2, <2>1
  <2>3. QED  BY <2>2
<1> HIDE DEF Fa
<1>a5. Fa[N] = g[N]
  <2>1. Fa[0] = g[0]
    BY <1>2, <1>a4, <1>2
  <2>2. ASSUME NEW i \in 0 .. N - 1, Fa[i] = g[i] PROVE Fa[i + 1] = g[i + 1]
    <3>1. i + 1 \in 0 .. N /\ i + 1 # 0 /\ (i + 1) - 1 = i
      BY <1>2
    <3>2. Fa[i + 1] = Bodya(Fa[i], i)
      BY <1>2, <1>a2, <1>a4, <3>1
    <3>3. QED  BY <1>a3, <2>2, <3>2
  <2>3. QED  BY <1>2, <2>1, <2>2, SameEnd
<1>3. QED  BY <1>2, <1>a1, <1>a5

\* hebi_pcopy, limb by limb.
LEMMA CopiesLoop ==
    ASSUME NEW W, NEW m, m \in MemoryIn(W, m), NEW r, NEW n \in Nat, NEW N \in Nat, N = n * PacketLimbs,
           NEW x, NEW op, op = "copy", NEW a, NEW b,
           \A i \in 0 .. N - 1 : HasLimb(m, r, i) /\ x[i] \in W,
           Follow(W, m, r, N, x, op, a, b)
    PROVE  Stored(W, m, pcopy(m, r, a, n), r, 0 .. N - 1, x)
<1>1. PICK g : FollowTrace(W, m, r, N, x, op, a, b, g)
  BY FollowLoop
<1>2. g[0] = m /\ g = [i \in 0 .. N |-> g[i]] /\ Stored(W, m, g[N], r, 0 .. N - 1, x)
  BY <1>1 DEF FollowTrace
<1> DEFINE Bodya(u, i) == Put(u, r, i, Get(u, a, i))
           Qa(h, i) == Given(h[i - 1], LAMBDA u : Bodya(u, i - 1))
           Eqa(h) == h = [i \in 0 .. N |-> IF i = 0 THEN m ELSE Qa(h, i)]
           Fa == CHOOSE h : Eqa(h)
<1>a1. pcopy(m, r, a, n) = Fa[N]
  BY DEF pcopy, Loop, Given
<1>a2. \A h, i : Qa(h, i) = Bodya(h[i - 1], i - 1)
  BY DEF Given
<1>a3. \A i \in 0 .. N - 1 : g[i + 1] = Bodya(g[i], i)
  BY <1>1 DEF FollowTrace, Limbwise
<1> HIDE DEF Bodya, Qa
<1>a4. Eqa(Fa)
  <2>1. ASSUME NEW i \in 0 .. N, i # 0 PROVE g[i] = Qa(g, i)
    <3>1. i - 1 \in 0 .. N - 1 /\ (i - 1) + 1 = i
      BY <2>1, <1>2
    <3>2. QED  BY <1>a2, <1>a3, <3>1
  <2>2. Eqa(g)
    BY <1>2, <2>1
  <2>3. QED  BY <2>2
<1> HIDE DEF Fa
<1>a5. Fa[N] = g[N]
  <2>1. Fa[0] = g[0]
    BY <1>2, <1>a4, <1>2
  <2>2. ASSUME NEW i \in 0 .. N - 1, Fa[i] = g[i] PROVE Fa[i + 1] = g[i + 1]
    <3>1. i + 1 \in 0 .. N /\ i + 1 # 0 /\ (i + 1) - 1 = i
      BY <1>2
    <3>2. Fa[i + 1] = Bodya(Fa[i], i)
      BY <1>2, <1>a2, <1>a4, <3>1
    <3>3. QED  BY <1>a3, <2>2, <3>2
  <2>3. QED  BY <1>2, <2>1, <2>2, SameEnd
<1>3. QED  BY <1>2, <1>a1, <1>a5

\* An operand that the result does not run into before it is read.
Readable(m, r, p, N) == Follows(r, p, N) /\ \A i \in 0 .. N - 1 : HasLimb(m, p, i)

\* The operands that op has.
Operands(op, m, r, a, b, N) ==
    /\ op # "zero" => Readable(m, r, a, N)
    /\ op \in {"and", "or", "xor"} => Readable(m, r, b, N)

\* A limb of an operand that is read in turn is what it was before the call.
LEMMA ReadBehind ==
    ASSUME NEW W, NEW m, NEW r, r.at \in Nat, NEW p, NEW N \in Nat, Readable(m, r, p, N),
           NEW i \in 0 .. N - 1, NEW k \in 0 .. i, NEW x, NEW t, Stored(W, m, t, r, 0 .. k - 1, x)
    PROVE  Get(t, p, i) = Get(m, p, i)
<1>1. HasLimb(m, p, i) /\ p.at \in Nat
  BY DEF Readable, HasLimb
<1>2. p.buf # r.buf \/ (p.at + i) - r.at \notin 0 .. k - 1
  BY <1>1 DEF Readable, Follows
<1>3. QED  BY <1>1, <1>2, StoredRead

\* The instructions that make limb i of limb i.
Op == {"copy", "zero", "not", "and", "or", "xor"}

\* So what op makes of limb i does not depend on the limbs below it being stored.
LEMMA OperandsFollow ==
    ASSUME NEW W, NEW m, NEW r, r.at \in Nat, NEW N \in Nat, NEW x, NEW op \in Op, NEW a, NEW b,
           Operands(op, m, r, a, b, N), \A i \in 0 .. N - 1 : x[i] = Limbwise(op, m, a, b, i)
    PROVE  Follow(W, m, r, N, x, op, a, b)
<1>1. SUFFICES ASSUME NEW t, NEW i \in 0 .. N - 1, NEW k \in 0 .. i, Stored(W, m, t, r, 0 .. k - 1, x)
               PROVE  Limbwise(op, m, a, b, i) = Limbwise(op, t, a, b, i)
  BY DEF Follow
<1>2. op # "zero" => Get(t, a, i) = Get(m, a, i)
  BY <1>1, ReadBehind DEF Operands
<1>3. op \in {"and", "or", "xor"} => Get(t, b, i) = Get(m, b, i)
  BY <1>1, ReadBehind DEF Operands
<1>4. QED  BY <1>2, <1>3 DEF Limbwise, Op

\* The unrolled kernels that make limb i of limb i store what the portable ones do.
THEOREM UnrolledSame ==
    ASSUME NEW m, IsMemory(m), NEW r, r.at \in Nat, NEW n \in Nat, NEW op \in Op, NEW a, NEW b,
           \A i \in 0 .. 2 * n - 1 : HasLimb(m, r, i), Operands(op, m, r, a, b, 2 * n)
    PROVE  /\ op = "copy" => Unrolled(op, m, r, a, b, n) = pcopy(m, r, a, n)
           /\ op = "zero" => Unrolled(op, m, r, a, b, n) = pzero(m, r, n)
           /\ op = "not"  => Unrolled(op, m, r, a, b, n) = pnot(m, r, a, n)
           /\ op \in {"and", "or", "xor"} => Unrolled(op, m, r, a, b, n) = EachLimb(op, m, r, a, b, n)
<1> DEFINE N == 2 * n
           x == [i \in 0 .. N - 1 |-> Limbwise(op, m, a, b, i)]
           W == Limb \union {x[i] : i \in 0 .. N - 1}
           u == Unrolled(op, m, r, a, b, n)
<1>1. N \in Nat /\ N = n * PacketLimbs
  BY PX86Assumption
<1>2. m \in MemoryIn(W, m)
  <2>1. /\ m \in [DOMAIN m -> UNION {[DOMAIN m[b1] -> Limb] : b1 \in DOMAIN m}]
        /\ \A b1 \in DOMAIN m : m[b1] \in [DOMAIN m[b1] -> Limb]
    BY DEF IsMemory, Memory
  <2>2. \A b1 \in DOMAIN m : m[b1] \in [DOMAIN m[b1] -> W]
    BY <2>1
  <2> HIDE DEF W
  <2>3. QED  BY <2>1, <2>2 DEF MemoryIn
<1>3. \A i \in 0 .. N - 1 : HasLimb(m, r, i) /\ x[i] \in W
  OBVIOUS
<1>4. \A i \in 0 .. N - 1 : x[i] = Limbwise(op, m, a, b, i)
  OBVIOUS
<1> HIDE DEF W, x
<1>5. Follow(W, m, r, N, x, op, a, b)
  BY <1>1, <1>4, OperandsFollow
<1> HIDE DEF N, u
<1>6. Stored(W, m, u, r, 0 .. N - 1, x)
  BY <1>1, <1>2, <1>3, <1>5, UnrolledStores DEF N, u
<1>7. \A v : Stored(W, m, v, r, 0 .. N - 1, x) => u = v
  BY <1>6, StoredSame
<1>8. CASE op = "copy"
  BY <1>1, <1>2, <1>3, <1>5, <1>7, <1>8, CopiesLoop DEF u
<1>9. CASE op = "zero"
  BY <1>1, <1>2, <1>3, <1>5, <1>7, <1>9, ZerosLoop DEF u
<1>10. CASE op = "not"
  BY <1>1, <1>2, <1>3, <1>5, <1>7, <1>10, ComplementsLoop DEF u
<1>11. CASE op \in {"and", "or", "xor"}
  BY <1>1, <1>2, <1>3, <1>5, <1>7, <1>11, CombiningLoop DEF u
<1>12. QED  BY <1>8, <1>9, <1>10, <1>11 DEF Op

-----------------------------------------------------------------------------
(* Moves *)

\* Memories of limbs are memories with values in Limb.
LEMMA LimbMemory == ASSUME NEW m PROVE MemoryIn(Limb, m) = Memory(m)
  BY DEF MemoryIn, Memory

\* hebi_pmove stores the limbs there were at a.
LEMMA PmoveLoop ==
    ASSUME NEW m, IsMemory(m), NEW r, NEW a, NEW n \in Nat, NEW N \in Nat, N = n * PacketLimbs,
           NEW x, \A i \in 0 .. N - 1 : HasLimb(m, r, i) /\ x[i] \in Limb /\ x[i] = Get(m, a, i)
    PROVE  Stored(Limb, m, pmove(m, r, a, n), r, 0 .. N - 1, x)
<1> DEFINE p == [i \in 0 .. N - 1 |-> i]
<1>1. \A i \in 0 .. N - 1 : p[i] = i
  OBVIOUS
<1> HIDE DEF p
<1>2. PICK g : PutTrace(Limb, m, r, {}, x, N, p, m, g)
  <2>1. Stored(Limb, m, m, r, {}, x)
    BY StoredNone, LimbMemory DEF IsMemory
  <2>2. \A i \in 0 .. N - 1 : HasLimb(m, r, p[i]) /\ x[p[i]] \in Limb
    BY <1>1
  <2>3. QED  BY <2>1, <2>2, PutLoop
<1>3. g[0] = m /\ g = [i \in 0 .. N |-> g[i]]
      /\ \A i \in 0 .. N - 1 : g[i + 1] = Put(g[i], r, p[i], x[p[i]])
  BY <1>2 DEF PutTrace
<1> DEFINE Bodya(u, i) == Put(u, r, i, Get(m, a, i))
           Qa(h, i) == Given(h[i - 1], LAMBDA u : Bodya(u, i - 1))
           Eqa(h) == h = [i \in 0 .. N |-> IF i = 0 THEN m ELSE Qa(h, i)]
           Fa == CHOOSE h : Eqa(h)
<1>a1. pmove(m, r, a, n) = Fa[N]
  BY DEF pmove, Loop, Given
<1>a2. \A h, i : Qa(h, i) = Bodya(h[i - 1], i - 1)
  BY DEF Given
<1>a3. \A i \in 0 .. N - 1 : g[i + 1] = Bodya(g[i], i)
  BY <1>1, <1>3, ZenonT(30)
<1> HIDE DEF Bodya, Qa
<1>a4. Eqa(Fa)
  <2>1. ASSUME NEW i \in 0 .. N, i # 0 PROVE g[i] = Qa(g, i)
    <3>1. i - 1 \in 0 .. N - 1 /\ (i - 1) + 1 = i
      BY <2>1, <1>3
    <3>2. QED  BY <1>a2, <1>a3, <3>1
  <2>2. Eqa(g)
    BY <1>3, <2>1
  <2>3. QED  BY <2>2
<1> HIDE DEF Fa
<1>a5. Fa[N] = g[N]
  <2>1. Fa[0] = g[0]
    BY <1>3, <1>a4, <1>3
  <2>2. ASSUME NEW i \in 0 .. N - 1, Fa[i] = g[i] PROVE Fa[i + 1] = g[i + 1]
    <3>1. i + 1 \in 0 .. N /\ i + 1 # 0 /\ (i + 1) - 1 = i
      BY <1>3
    <3>2. Fa[i + 1] = Bodya(Fa[i], i)
      BY <1>3, <1>a2, <1>a4, <3>1
    <3>3. QED  BY <1>a3, <2>2, <3>2
  <2>3. QED  BY <1>3, <2>1, <2>2, SameEnd
<1>4. {} \union {p[j] : j \in 0 .. N - 1} = 0 .. N - 1
  BY <1>1
<1>5. Stored(Limb, m, g[N], r, {} \union {p[j] : j \in 0 .. N - 1}, x)
  BY <1>2 DEF PutTrace
<1>6. QED  BY <1>4, <1>5, <1>a1, <1>a5

\* A turn that copies packets k, ..., k + w - 1, of which none was stored over.
LEMMA MoveTurn ==
    ASSUME NEW m, NEW r, NEW a, NEW N \in Nat,
           NEW x, \A i \in 0 .. N - 1 : /\ HasLimb(m, r, i) /\ HasLimb(m, a, i)
                                        /\ x[i] \in Limb /\ x[i] = Get(m, a, i),
           NEW k \in Nat, NEW w \in Nat, 2 * (k + w) =< N,
           NEW I, I \subseteq Nat,
           r.buf = a.buf => \A i \in 2 * k .. 2 * (k + w) - 1 : (a.at + i) - r.at \notin I,
           NEW t, Stored(Limb, m, t, r, I, x)
    PROVE  Stored(Limb, m, Turn("copy", t, r, a, a, k, w), r, I \union (2 * k .. 2 * (k + w) - 1), x)
<1>1. ASSUME NEW i \in 0 .. 2 * w - 1
      PROVE  HasLimb(m, r, 2 * k + i) /\ x[2 * k + i] \in Limb
             /\ x[2 * k + i] = Limbwise("copy", t, a, a, 2 * k + i)
  <2>1. 2 * k + i \in 0 .. N - 1 /\ 2 * k + i \in 2 * k .. 2 * (k + w) - 1
    OBVIOUS
  <2>2. Get(t, a, 2 * k + i) = Get(m, a, 2 * k + i)
    <3>1. HasLimb(m, a, 2 * k + i) /\ (a.buf # r.buf \/ (a.at + (2 * k + i)) - r.at \notin I)
      BY <2>1
    <3>2. QED  BY <3>1, StoredRead
  <2>3. QED  BY <2>1, <2>2 DEF Limbwise
<1>2. QED  BY <1>1, TurnStores

\* Turns from either end.
LEMMA MoveStores ==
    ASSUME NEW m, IsMemory(m), NEW r, NEW a, NEW n \in Nat, NEW N \in Nat, N = 2 * n, n > 0,
           NEW x, \A i \in 0 .. N - 1 : /\ HasLimb(m, r, i) /\ HasLimb(m, a, i)
                                        /\ x[i] \in Limb /\ x[i] = Get(m, a, i)
    PROVE  Stored(Limb, m, PMOVE128(m, r, a, n), r, 0 .. N - 1, x)
<1> DEFINE M == Memory(m)
           down == Backward(r, a)
           fours == n \div 4
           left == n % 4
           at(j) == IF down THEN n - 4 * (j + 1) ELSE 4 * j
           D(j) == IF down THEN 2 * (n - 4 * j) .. N - 1 ELSE 0 .. 2 * (4 * j) - 1
           Four(u, j) == Turn("copy", u, r, a, a, at(j), 4)
           B == [j \in 0 .. fours - 1 |-> [u \in M |-> IF Four(u, j) \in M THEN Four(u, j) ELSE u]]
<1>1. fours \in Nat /\ left \in 0 .. 3 /\ n = 4 * fours + left
  BY DivMod
<1>2. r.at \in Nat /\ a.at \in Nat
  <2>1. 0 \in 0 .. N - 1
    OBVIOUS
  <2>2. QED  BY <2>1 DEF HasLimb
<1>3. down <=> r.buf = a.buf /\ r.at > a.at
  BY DEF Backward
<1> HIDE DEF fours, left, M, down
<1>4. PICK g : Steps(M, B, m, fours, g)
  <2>1. m \in M
    BY DEF M, IsMemory
  <2>2. \A j \in 0 .. fours - 1 : B[j] \in [M -> M]
    OBVIOUS
  <2> HIDE DEF B
  <2>3. QED  BY <1>1, <2>1, <2>2, StepsExist
<1>5. /\ g \in [0 .. fours -> M] /\ g[0] = m
      /\ \A j \in 0 .. fours - 1 : Four(g[j], j) \in M => g[j + 1] = Four(g[j], j)
  <2>1. \A j \in 0 .. fours - 1 : \A u \in M : B[j][u] = IF Four(u, j) \in M THEN Four(u, j) ELSE u
    OBVIOUS
  <2> HIDE DEF B, Four
  <2>2. g \in [0 .. fours -> M]
    BY <1>4 DEF Steps
  <2>3. g[0] = m /\ \A j \in 0 .. fours - 1 : g[j + 1] = B[j][g[j]]
    BY <1>4 DEF Steps
  <2>4. \A j \in 0 .. fours - 1 : j \in 0 .. fours
    BY <1>1
  <2>5. \A j \in 0 .. fours - 1 : g[j] \in M
    BY <2>2, <2>4
  <2>6. QED  BY <2>1, <2>2, <2>3, <2>5
<1> HIDE DEF B
<1>6. ASSUME NEW j \in 0 .. fours, NEW k \in Nat, NEW w \in Nat, 4 * j + w =< n,
             k = IF down THEN n - 4 * j - w ELSE 4 * j, NEW t, Stored(Limb, m, t, r, D(j), x)
      PROVE  Stored(Limb, m, Turn("copy", t, r, a, a, k, w), r, D(j) \union (2 * k .. 2 * (k + w) - 1), x)
  <2>1. 2 * (k + w) =< N
    BY <1>1, <1>6
  <2>2. D(j) \subseteq Nat
    BY <1>1
  <2>3. ASSUME r.buf = a.buf, NEW i \in 2 * k .. 2 * (k + w) - 1 PROVE (a.at + i) - r.at \notin D(j)
    <3>1. CASE down
      BY <1>1, <1>2, <1>3, <1>6, <2>3, <3>1
    <3>2. CASE ~down
      BY <1>1, <1>2, <1>3, <1>6, <2>3, <3>2
    <3>3. QED  BY <3>1, <3>2
  <2> HIDE DEF D
  <2>4. QED  BY <1>6, <2>1, <2>2, <2>3, MoveTurn
<1>7. ASSUME NEW j \in 0 .. fours - 1, Stored(Limb, m, g[j], r, D(j), x)
      PROVE  Stored(Limb, m, Four(g[j], j), r, D(j + 1), x) /\ g[j + 1] = Four(g[j], j)
  <2>1. /\ j \in 0 .. fours /\ at(j) \in Nat /\ 4 * j + 4 =< n
        /\ at(j) = IF down THEN n - 4 * j - 4 ELSE 4 * j
    BY <1>1
  <2>2. D(j) \union (2 * at(j) .. 2 * (at(j) + 4) - 1) = D(j + 1)
    <3>1. CASE down
      <4>1. at(j) = n - 4 * (j + 1) /\ at(j) + 4 = n - 4 * j /\ D(j) = 2 * (n - 4 * j) .. N - 1
            /\ D(j + 1) = 2 * (n - 4 * (j + 1)) .. N - 1
        BY <1>1, <3>1
      <4> HIDE DEF D, at
      <4>2. QED  BY <1>1, <2>1, <4>1
    <3>2. CASE ~down
      <4>1. at(j) = 4 * j /\ D(j) = 0 .. 2 * (4 * j) - 1 /\ D(j + 1) = 0 .. 2 * (4 * (j + 1)) - 1
        BY <1>1, <3>2
      <4> HIDE DEF D, at
      <4>2. QED  BY <1>1, <2>1, <4>1
    <3>3. QED  BY <3>1, <3>2
  <2> HIDE DEF D, at
  <2>3. Stored(Limb, m, Four(g[j], j), r, D(j) \union (2 * at(j) .. 2 * (at(j) + 4) - 1), x)
    BY <1>6, <1>7, <2>1
  <2>4. Stored(Limb, m, Four(g[j], j), r, D(j + 1), x)
    BY <2>2, <2>3
  <2>5. Four(g[j], j) \in M
    BY <2>4, LimbMemory DEF Stored, M
  <2>6. QED  BY <1>5, <2>4, <2>5
<1> DEFINE S == {j \in Nat : j =< fours => Stored(Limb, m, g[j], r, D(j), x)}
<1>8. \A j \in Nat : j \in S
  <2>1. 0 \in S
    <3>1. D(0) = {}
      BY <1>1
    <3>2. Stored(Limb, m, m, r, {}, x)
      BY StoredNone, LimbMemory DEF IsMemory
    <3> HIDE DEF D
    <3>3. QED  BY <1>5, <3>1, <3>2
  <2> HIDE DEF D
  <2>2. ASSUME NEW j \in Nat, j \in S PROVE j + 1 \in S
    <3>1. SUFFICES ASSUME j + 1 =< fours PROVE Stored(Limb, m, g[j + 1], r, D(j + 1), x)
      OBVIOUS
    <3>2. j \in 0 .. fours - 1 /\ Stored(Limb, m, g[j], r, D(j), x)
      BY <1>1, <2>2, <3>1
    <3>3. QED  BY <1>7, <3>2
  <2> HIDE DEF S
  <2>3. QED  BY <2>1, <2>2, UpInduct
<1>9. \A j \in 0 .. fours : Stored(Limb, m, g[j], r, D(j), x)
  BY <1>1, <1>8
<1> HIDE DEF S
<1> DEFINE moved == Loop(fours, m, LAMBDA t, j : Turn("copy", t, r, a, a, at(j), 4))
<1> DEFINE Bodya(u, i) == Four(u, i)
           Qa(h, i) == Given(h[i - 1], LAMBDA u : Bodya(u, i - 1))
           Eqa(h) == h = [i \in 0 .. fours |-> IF i = 0 THEN m ELSE Qa(h, i)]
           Fa == CHOOSE h : Eqa(h)
<1>a1. moved = Fa[fours]
  BY DEF Loop, Given
<1>a2. \A h, i : Qa(h, i) = Bodya(h[i - 1], i - 1)
  BY DEF Given
<1>a3. \A i \in 0 .. fours - 1 : g[i + 1] = Bodya(g[i], i)
  BY <1>1, <1>7, <1>9
<1>a0. g[0] = m /\ g = [j \in 0 .. fours |-> g[j]]
  BY <1>5
<1> HIDE DEF Bodya, Qa
<1>a4. Eqa(Fa)
  <2>1. ASSUME NEW i \in 0 .. fours, i # 0 PROVE g[i] = Qa(g, i)
    <3>1. i - 1 \in 0 .. fours - 1 /\ (i - 1) + 1 = i
      BY <2>1, <1>1
    <3>2. QED  BY <1>a2, <1>a3, <3>1
  <2>2. Eqa(g)
    BY <1>a0, <2>1
  <2>3. QED  BY <2>2
<1> HIDE DEF Fa
<1>a5. Fa[fours] = g[fours]
  <2>1. Fa[0] = g[0]
    BY <1>a0, <1>a4, <1>1
  <2>2. ASSUME NEW i \in 0 .. fours - 1, Fa[i] = g[i] PROVE Fa[i + 1] = g[i + 1]
    <3>1. i + 1 \in 0 .. fours /\ i + 1 # 0 /\ (i + 1) - 1 = i
      BY <1>1
    <3>2. Fa[i + 1] = Bodya(Fa[i], i)
      BY <1>1, <1>a2, <1>a4, <3>1
    <3>3. QED  BY <1>a3, <2>2, <3>2
  <2>3. QED  BY <1>1, <2>1, <2>2, SameEnd
<1>10. PMOVE128(m, r, a, n) =
          IF left = 0 THEN moved ELSE Turn("copy", moved, r, a, a, IF down THEN 0 ELSE 4 * fours, left)
  BY DEF PMOVE128, moved, at, down, fours, left
<1> HIDE DEF moved
<1>11. Stored(Limb, m, moved, r, D(fours), x)
  BY <1>1, <1>9, <1>a1, <1>a5
<1>12. CASE left = 0
  <2>1. D(fours) = 0 .. N - 1
    BY <1>1, <1>12
  <2> HIDE DEF D
  <2>2. QED  BY <1>10, <1>11, <1>12, <2>1
<1>13. CASE left # 0
  <2> DEFINE k == IF down THEN 0 ELSE 4 * fours
  <2>1. k \in Nat /\ fours \in 0 .. fours /\ 4 * fours + left =< n
        /\ k = IF down THEN n - 4 * fours - left ELSE 4 * fours
    BY <1>1
  <2>2. D(fours) \union (2 * k .. 2 * (k + left) - 1) = 0 .. N - 1
    BY <1>1, <1>13
  <2> HIDE DEF D, k
  <2>3. Stored(Limb, m, Turn("copy", moved, r, a, a, k, left), r, D(fours) \union (2 * k .. 2 * (k + left) - 1), x)
    BY <1>1, <1>6, <1>11, <2>1
  <2>4. QED  BY <1>10, <1>13, <2>2, <2>3 DEF k
<1>14. QED  BY <1>12, <1>13

\* hebi_pmove moves whatever the overlap.
THEOREM MoveSame ==
    ASSUME NEW m, IsMemory(m), NEW r, NEW a, NEW n \in Nat, n > 0,
           \A i \in 0 .. 2 * n - 1 : HasLimb(m, r, i) /\ HasLimb(m, a, i)
    PROVE  /\ PMOVE128(m, r, a, n) = pmove(m, r, a, n)
           /\ Stored(Limb, m, PMOVE128(m, r, a, n), r, 0 .. 2 * n - 1, [i \in 0 .. 2 * n - 1 |-> Get(m, a, i)])
<1> DEFINE N == 2 * n
           x == [i \in 0 .. N - 1 |-> Get(m, a, i)]
<1>1. N \in Nat /\ N = n * PacketLimbs
  BY PX86Assumption
<1>2. \A i \in 0 .. N - 1 : x[i] = Get(m, a, i) /\ x[i] \in Limb
  <2>1. \A i \in 0 .. N - 1 : Get(m, a, i) \in Limb
    BY DEF HasLimb, IsMemory, Memory, Get
  <2>2. QED  BY <2>1
<1> HIDE DEF x
<1>3. Stored(Limb, m, PMOVE128(m, r, a, n), r, 0 .. N - 1, x)
  BY <1>1, <1>2, MoveStores
<1>4. Stored(Limb, m, pmove(m, r, a, n), r, 0 .. N - 1, x)
  BY <1>1, <1>2, PmoveLoop
<1>5. QED  BY <1>3, <1>4, StoredSame DEF x

-----------------------------------------------------------------------------
(* Length and order *)

\* The greatest member is the one no other exceeds.
LEMMA MaxIs ==
    ASSUME NEW S, S \subseteq Int, NEW x \in S, \A y \in S : y =< x
    PROVE  Max(S) = x
<1> DEFINE z == Max(S)
<1>1. z = CHOOSE y \in S : \A w \in S : y >= w
  BY DEF Max
<1>2. \A y \in S : x >= y
  BY x \in Int
<1>3. z \in S /\ \A y \in S : z >= y
  BY <1>1, <1>2
<1>4. z \in Int /\ x \in Int /\ z =< x /\ z >= x
  BY <1>3
<1> HIDE DEF z
<1>5. z = x
  BY <1>4
<1>6. QED  BY <1>5 DEF z

\* The least member is the one that exceeds no other.
LEMMA MinIs ==
    ASSUME NEW S, S \subseteq Int, NEW x \in S, \A y \in S : x =< y
    PROVE  Min(S) = x
<1> DEFINE z == Min(S)
<1>1. z = CHOOSE y \in S : \A w \in S : y =< w
  BY DEF Min
<1>3. z \in S /\ \A y \in S : z =< y
  BY <1>1
<1>4. z \in Int /\ x \in Int /\ x =< z /\ z =< x
  BY <1>3
<1> HIDE DEF z
<1>5. z = x
  BY <1>4
<1>6. QED  BY <1>5 DEF z

\* A set of natural numbers has a least member.
LEMMA MinOf ==
    ASSUME NEW S, S \subseteq Nat, S # {}
    PROVE  Min(S) \in S /\ \A y \in S : Min(S) =< y
<1>1. PICK z \in S : \A x \in S : ~(<<x, z>> \in OpToRel(<, Nat))
  BY NatLessThanWellFounded, WFMin
<1>2. \A x \in S : ~(x < z)
  BY <1>1 DEF OpToRel
<1>3. \A x \in S : z =< x
  BY <1>2
<1>4. S \subseteq Int
  OBVIOUS
<1>5. Min(S) = z
  BY <1>3, <1>4, MinIs
<1>6. QED  BY <1>3, <1>5

\* The packets that are not zero.
UsedPackets(m, a, n) == {k \in 0 .. n - 1 : ~Clear(m, a, k)}

\* The highest limb that is not zero is in the highest packet that is not.
LEMMA HighestLimb ==
    ASSUME NEW m, NEW a, NEW n \in Nat
    PROVE  LET used == UsedPackets(m, a, n)
               nz   == NonZero(m, a, n)
               top  == Max(used)
           IN  /\ used = {} <=> nz = {}
               /\ used # {} =>
                     /\ top \in 0 .. n - 1 /\ ~Clear(m, a, top)
                     /\ \A k \in top + 1 .. n - 1 : Clear(m, a, k)
                     /\ Max(nz) = IF Get(m, a, 2 * top + 1) # 0 THEN 2 * top + 1 ELSE 2 * top
<1> DEFINE used == UsedPackets(m, a, n)
           nz   == NonZero(m, a, n)
           top  == Max(used)
<1>1. \A i : i \in nz <=> i \in 0 .. 2 * n - 1 /\ Get(m, a, i) # 0
  BY PX86Assumption DEF NonZero
<1>2. \A k : k \in used <=> k \in 0 .. n - 1 /\ (Get(m, a, 2 * k) # 0 \/ Get(m, a, 2 * k + 1) # 0)
  BY DEF UsedPackets, Clear
<1>3. ASSUME NEW i \in nz PROVE \E k \in used : i = 2 * k \/ i = 2 * k + 1
  <2>1. i \in Nat /\ i < 2 * n /\ Get(m, a, i) # 0
    BY <1>1, <1>3
  <2>2. PICK q \in Nat : i = 2 * q \/ i = 2 * q + 1
    BY <2>1, Halves
  <2>3. q \in 0 .. n - 1 /\ (Get(m, a, 2 * q) # 0 \/ Get(m, a, 2 * q + 1) # 0)
    BY <2>1, <2>2
  <2>4. q \in used
    BY <1>2, <2>3
  <2>5. QED  BY <2>2, <2>4
<1>4. used = {} <=> nz = {}
  <2>1. ASSUME NEW k \in used PROVE nz # {}
    BY <1>1, <1>2, <2>1
  <2>2. QED  BY <1>3, <2>1
<1>5. ASSUME used # {}
      PROVE  /\ top \in 0 .. n - 1 /\ ~Clear(m, a, top)
             /\ \A k \in top + 1 .. n - 1 : Clear(m, a, k)
             /\ Max(nz) = IF Get(m, a, 2 * top + 1) # 0 THEN 2 * top + 1 ELSE 2 * top
  <2>1. used \subseteq 0 .. n - 1
    BY <1>2
  <2> HIDE DEF used
  <2>2. top \in used /\ \A k \in used : k =< top
    BY <1>5, <2>1, MaxOf
  <2> HIDE DEF top
  <2>3. top \in 0 .. n - 1 /\ ~Clear(m, a, top)
    BY <1>2, <2>2 DEF Clear
  <2>4. ASSUME NEW k \in top + 1 .. n - 1 PROVE Clear(m, a, k)
    <3>1. k \in 0 .. n - 1 /\ ~(k =< top)
      BY <2>3
    <3>2. k \notin used
      BY <2>2, <3>1
    <3>3. QED  BY <1>2, <3>1, <3>2 DEF Clear
  <2> DEFINE z == IF Get(m, a, 2 * top + 1) # 0 THEN 2 * top + 1 ELSE 2 * top
  <2>5. z \in nz
    BY <1>1, <1>2, <2>2, <2>3
  <2>6. ASSUME NEW i \in nz PROVE i =< z
    <3>1. PICK k \in used : i = 2 * k \/ i = 2 * k + 1
      BY <1>3, <2>6
    <3>2. k \in Nat /\ k =< top /\ Get(m, a, i) # 0
      BY <1>1, <2>1, <2>2, <2>6, <3>1
    <3>3. QED  BY <2>3, <3>1, <3>2
  <2>7. nz \subseteq Int
    BY <1>1
  <2> HIDE DEF nz, z
  <2>8. Max(nz) = z
    BY <2>5, <2>6, <2>7, MaxIs
  <2>9. QED  BY <2>3, <2>4, <2>8 DEF z
<1>6. QED  BY <1>4, <1>5

\* The lowest limb that is not zero is in the lowest packet that is not.
LEMMA LowestLimb ==
    ASSUME NEW m, NEW a, NEW n \in Nat
    PROVE  LET used == UsedPackets(m, a, n)
               nz   == NonZero(m, a, n)
               low  == Min(used)
           IN  /\ used = {} <=> nz = {}
               /\ used # {} =>
                     /\ low \in 0 .. n - 1
                     /\ Min(nz) = IF Get(m, a, 2 * low) # 0 THEN 2 * low ELSE 2 * low + 1
<1> DEFINE used == UsedPackets(m, a, n)
           nz   == NonZero(m, a, n)
           low  == Min(used)
<1>1. \A i : i \in nz <=> i \in 0 .. 2 * n - 1 /\ Get(m, a, i) # 0
  BY PX86Assumption DEF NonZero
<1>2. \A k : k \in used <=> k \in 0 .. n - 1 /\ (Get(m, a, 2 * k) # 0 \/ Get(m, a, 2 * k + 1) # 0)
  BY DEF UsedPackets, Clear
<1>3. ASSUME NEW i \in nz PROVE \E k \in used : i = 2 * k \/ i = 2 * k + 1
  <2>1. i \in Nat /\ i < 2 * n /\ Get(m, a, i) # 0
    BY <1>1, <1>3
  <2>2. PICK q \in Nat : i = 2 * q \/ i = 2 * q + 1
    BY <2>1, Halves
  <2>3. q \in 0 .. n - 1 /\ (Get(m, a, 2 * q) # 0 \/ Get(m, a, 2 * q + 1) # 0)
    BY <2>1, <2>2
  <2>4. q \in used
    BY <1>2, <2>3
  <2>5. QED  BY <2>2, <2>4
<1>4. used = {} <=> nz = {}
  BY HighestLimb
<1>5. ASSUME used # {}
      PROVE  low \in 0 .. n - 1 /\ Min(nz) = IF Get(m, a, 2 * low) # 0 THEN 2 * low ELSE 2 * low + 1
  <2>1. used \subseteq 0 .. n - 1 /\ used \subseteq Nat
    BY <1>2
  <2> HIDE DEF used
  <2>2. low \in used /\ \A k \in used : low =< k
    BY <1>5, <2>1, MinOf
  <2> HIDE DEF low
  <2>3. low \in 0 .. n - 1
    BY <2>1, <2>2
  <2> DEFINE z == IF Get(m, a, 2 * low) # 0 THEN 2 * low ELSE 2 * low + 1
  <2>5. z \in nz
    BY <1>1, <1>2, <2>2, <2>3
  <2>6. ASSUME NEW i \in nz PROVE z =< i
    <3>1. PICK k \in used : i = 2 * k \/ i = 2 * k + 1
      BY <1>3, <2>6
    <3>2. k \in Nat /\ low =< k /\ Get(m, a, i) # 0
      BY <1>1, <2>1, <2>2, <2>6, <3>1
    <3>3. QED  BY <2>3, <3>1, <3>2
  <2>7. nz \subseteq Int
    BY <1>1
  <2> HIDE DEF nz, z
  <2>8. Min(nz) = z
    BY <2>5, <2>6, <2>7, MinIs
  <2>9. QED  BY <2>3, <2>8 DEF z
<1>6. QED  BY <1>4, <1>5

\* A packet that is not zero, with none above it.
IsTop(m, a, n, k) == k \in 0 .. n - 1 /\ ~Clear(m, a, k) /\ \A j \in k + 1 .. n - 1 : Clear(m, a, j)

\* The highest packet that is not zero is the greatest of those that are not.
LEMMA TopIs ==
    ASSUME NEW m, NEW a, NEW n \in Nat, NEW k, IsTop(m, a, n, k)
    PROVE  Max(UsedPackets(m, a, n)) = k /\ UsedPackets(m, a, n) # {}
<1>1. k \in UsedPackets(m, a, n)
  BY DEF IsTop, UsedPackets
<1>2. \A j \in UsedPackets(m, a, n) : j =< k
  BY DEF IsTop, UsedPackets
<1>3. UsedPackets(m, a, n) \subseteq Int
  BY DEF UsedPackets
<1>4. QED  BY <1>1, <1>2, <1>3, MaxIs

\* The length of a number, from its highest packet.
LEMMA NormIs ==
    ASSUME NEW m, NEW a, NEW n \in Nat
    PROVE  /\ (\A k \in 0 .. n - 1 : Clear(m, a, k)) => pnorm(m, a, n) = 0
           /\ \A k : IsTop(m, a, n, k) => pnorm(m, a, n) = k + 1
<1> DEFINE used == UsedPackets(m, a, n)
           nz   == NonZero(m, a, n)
<1>1. ASSUME \A k \in 0 .. n - 1 : Clear(m, a, k) PROVE pnorm(m, a, n) = 0
  <2>1. used = {}
    BY <1>1 DEF UsedPackets
  <2>2. nz = {}
    BY <2>1, HighestLimb
  <2>3. QED  BY <2>2 DEF pnorm
<1>2. ASSUME NEW k, IsTop(m, a, n, k) PROVE pnorm(m, a, n) = k + 1
  <2>1. Max(used) = k /\ used # {} /\ k \in Nat
    BY <1>2, TopIs DEF IsTop
  <2>2. nz # {} /\ (Max(nz) = 2 * k + 1 \/ Max(nz) = 2 * k)
    BY <2>1, HighestLimb
  <2>3. (Max(nz) + 2) \div 2 = k + 1
    <3>1. (2 * k + 1) + 2 = 2 * (k + 1) + 1 /\ 2 * k + 2 = 2 * (k + 1) + 0
      BY <2>1
    <3>2. ((2 * k + 1) + 2) \div 2 = k + 1
      BY <2>1, <3>1, DivIs
    <3>3. (2 * k + 2) \div 2 = k + 1
      BY <2>1, <3>1, DivIs
    <3>4. QED  BY <2>2, <3>2, <3>3
  <2>4. QED  BY <2>2, <2>3, PX86Assumption DEF pnorm
<1>3. QED  BY <1>1, <1>2

\* Packet k is in the pair (n - 1 - k) \div 2 from the top.
LEMMA PairOf ==
    ASSUME NEW n \in Nat, NEW k \in 0 .. n - 1
    PROVE  \/ k = 0 /\ n % 2 = 1
           \/ \E p \in 0 .. n \div 2 - 1 : k = n - 1 - 2 * p \/ k = n - 2 - 2 * p
<1>1. PICK h \in Nat : n \div 2 = h /\ ((n = 2 * h /\ n % 2 = 0) \/ (n = 2 * h + 1 /\ n % 2 = 1))
  BY Halves
<1>2. PICK p \in Nat : n - 1 - k = 2 * p \/ n - 1 - k = 2 * p + 1
  <2>1. n - 1 - k \in Nat
    OBVIOUS
  <2>2. QED  BY <2>1, Halves
<1>3. k = n - 1 - 2 * p \/ k = n - 2 - 2 * p
  BY <1>2
<1>4. p \in 0 .. n \div 2 - 1 \/ (k = 0 /\ n % 2 = 1)
  BY <1>1, <1>2
<1>5. QED  BY <1>3, <1>4

\* hebi_pnorm: pairs of packets from the top give the length of the portable kernel.
THEOREM NormSame ==
    ASSUME NEW m, NEW a, NEW n \in Nat
    PROVE  pnorm_x86(m, a, n) = pnorm(m, a, n)
<1> DEFINE h == n \div 2
           pairs == {p \in 0 .. h - 1 : ~Clear(m, a, n - 1 - 2 * p) \/ ~Clear(m, a, n - 2 - 2 * p)}
           p == Min(pairs)
           top == n - 2 * p
<1>1. h \in Nat /\ ((n = 2 * h /\ n % 2 = 0) \/ (n = 2 * h + 1 /\ n % 2 = 1))
  BY Halves
<1>2. \A k \in 0 .. n - 1 : \/ k = 0 /\ n % 2 = 1
                            \/ \E q \in 0 .. h - 1 : k = n - 1 - 2 * q \/ k = n - 2 - 2 * q
  BY PairOf
<1>3. pnorm_x86(m, a, n) = IF pairs # {} THEN top - Bit(Clear(m, a, top - 1))
                           ELSE IF n % 2 = 1 THEN Bit(~Clear(m, a, 0)) ELSE 0
  BY DEF pnorm_x86
<1> HIDE DEF h
<1>4. CASE pairs # {}
  <2>1. pairs \subseteq Nat
    BY <1>1
  <2>2. p \in pairs /\ \A q \in pairs : p =< q
    BY <1>4, <2>1, MinOf
  <2>3. p \in 0 .. h - 1 /\ (~Clear(m, a, n - 1 - 2 * p) \/ ~Clear(m, a, n - 2 - 2 * p))
    BY <2>2
  <2>4. ASSUME NEW k \in n - 2 * p .. n - 1 PROVE Clear(m, a, k)
    <3> HIDE DEF p
    <3>1. k \in 0 .. n - 1 /\ k # 0
      BY <1>1, <2>3
    <3>2. PICK q \in 0 .. h - 1 : k = n - 1 - 2 * q \/ k = n - 2 - 2 * q
      BY <1>2, <3>1
    <3>3. ~(p =< q)
      BY <1>1, <2>3, <3>2
    <3>4. q \notin pairs
      BY <2>2, <3>3
    <3>5. QED  BY <3>2, <3>4
  <2> HIDE DEF p, pairs
  <2>5. CASE ~Clear(m, a, top - 1)
    <3>1. n - 1 - 2 * p = top - 1 /\ top - 1 \in 0 .. n - 1 /\ (top - 1) + 1 = n - 2 * p /\ top - 0 = top
      BY <1>1, <2>3
    <3>2. IsTop(m, a, n, top - 1)
      BY <2>4, <2>5, <3>1 DEF IsTop
    <3>3. pnorm(m, a, n) = top
      BY <3>1, <3>2, NormIs
    <3>4. QED  BY <1>3, <1>4, <2>5, <3>1, <3>3 DEF Bit
  <2>6. CASE Clear(m, a, top - 1)
    <3>1. n - 1 - 2 * p = top - 1 /\ n - 2 - 2 * p = top - 2 /\ top - 2 \in 0 .. n - 1 /\ (top - 2) + 1 = top - 1
      BY <1>1, <2>3
    <3>2. ~Clear(m, a, top - 2)
      BY <2>3, <2>6, <3>1
    <3>3. ASSUME NEW j \in (top - 2) + 1 .. n - 1 PROVE Clear(m, a, j)
      <4>1. j = top - 1 \/ j \in n - 2 * p .. n - 1
        BY <1>1, <2>3
      <4>2. QED  BY <2>4, <2>6, <4>1
    <3>4. IsTop(m, a, n, top - 2)
      BY <3>1, <3>2, <3>3 DEF IsTop
    <3>5. pnorm(m, a, n) = top - 1
      BY <3>1, <3>4, NormIs
    <3>6. QED  BY <1>3, <1>4, <2>6, <3>5 DEF Bit
  <2>7. QED  BY <2>5, <2>6
<1>5. CASE pairs = {}
  <2>1. ASSUME NEW k \in 0 .. n - 1, ~(k = 0 /\ n % 2 = 1) PROVE Clear(m, a, k)
    <3>1. PICK q \in 0 .. h - 1 : k = n - 1 - 2 * q \/ k = n - 2 - 2 * q
      BY <1>2, <2>1
    <3>2. q \notin pairs
      BY <1>5
    <3>3. QED  BY <3>1, <3>2
  <2>2. CASE n % 2 = 1 /\ ~Clear(m, a, 0)
    <3>1. 0 \in 0 .. n - 1
      BY <1>1, <2>2
    <3>2. IsTop(m, a, n, 0)
      BY <2>1, <2>2, <3>1 DEF IsTop
    <3>3. pnorm(m, a, n) = 1
      BY <3>2, NormIs
    <3>4. QED  BY <1>3, <1>5, <2>2, <3>3 DEF Bit
  <2>3. CASE ~(n % 2 = 1 /\ ~Clear(m, a, 0))
    <3>1. \A k \in 0 .. n - 1 : Clear(m, a, k)
      BY <2>1, <2>3
    <3>2. pnorm(m, a, n) = 0
      BY <3>1, NormIs
    <3>3. QED  BY <1>3, <1>5, <2>3, <3>2 DEF Bit
  <2>4. QED  BY <2>2, <2>3
<1>6. QED  BY <1>4, <1>5

\* hebi_pclz: the leading zeros of packets, and of the quadwords in one, are those of
\* the limbs.
THEOREM LeadingSame ==
    ASSUME NEW m, NEW a, NEW n \in Nat
    PROVE  pclz_x86(m, a, n) = pclz(m, a, n)
<1> DEFINE used == UsedPackets(m, a, n)
           nz   == NonZero(m, a, n)
           top  == Max(used)
<1>1. PacketBit = LimbBit * 2 /\ LimbBit \in Nat
  BY PX86Assumption, PacketsAssumption DEF PacketBit
<1>2. CASE used = {}
  <2>1. nz = {}
    BY <1>2, HighestLimb
  <2>2. QED  BY <1>2, <2>1 DEF pclz, pclz_x86, UsedPackets
<1>3. CASE used # {}
  <2>1. /\ top \in 0 .. n - 1 /\ nz # {}
        /\ Max(nz) = IF Get(m, a, 2 * top + 1) # 0 THEN 2 * top + 1 ELSE 2 * top
    BY <1>3, HighestLimb
  <2>2. pclz(m, a, n) = (n * 2 - 1 - Max(nz)) * LimbBit + LimbClz(Get(m, a, Max(nz)))
    BY <2>1, PX86Assumption DEF pclz
  <2>3. pclz_x86(m, a, n) =
          IF Get(m, a, 2 * top + 1) # 0 THEN (n - 1 - top) * PacketBit + LimbClz(Get(m, a, 2 * top + 1))
          ELSE (n - 1 - top) * PacketBit + LimbBit + LimbClz(Get(m, a, 2 * top))
    BY <1>3 DEF pclz_x86, UsedPackets
  <2> HIDE DEF top, nz
  <2>4. /\ (n * 2 - 1 - (2 * top + 1)) * LimbBit = (n - 1 - top) * PacketBit
        /\ (n * 2 - 1 - 2 * top) * LimbBit = (n - 1 - top) * PacketBit + LimbBit
    BY <1>1, <2>1
  <2>5. CASE Get(m, a, 2 * top + 1) # 0
    BY <2>1, <2>2, <2>3, <2>4, <2>5
  <2>6. CASE Get(m, a, 2 * top + 1) = 0
    BY <2>1, <2>2, <2>3, <2>4, <2>6
  <2>7. QED  BY <2>5, <2>6
<1>4. QED  BY <1>2, <1>3

\* hebi_pctz: the trailing zeros likewise.
THEOREM TrailingSame ==
    ASSUME NEW m, NEW a, NEW n \in Nat
    PROVE  pctz_x86(m, a, n) = pctz(m, a, n)
<1> DEFINE used == UsedPackets(m, a, n)
           nz   == NonZero(m, a, n)
           low  == Min(used)
<1>1. PacketBit = LimbBit * 2 /\ LimbBit \in Nat
  BY PX86Assumption, PacketsAssumption DEF PacketBit
<1>2. CASE used = {}
  <2>1. nz = {}
    BY <1>2, LowestLimb
  <2>2. QED  BY <1>2, <2>1 DEF pctz, pctz_x86, UsedPackets
<1>3. CASE used # {}
  <2>1. /\ low \in 0 .. n - 1 /\ nz # {}
        /\ Min(nz) = IF Get(m, a, 2 * low) # 0 THEN 2 * low ELSE 2 * low + 1
    BY <1>3, LowestLimb
  <2>2. pctz(m, a, n) = Min(nz) * LimbBit + LimbCtz(Get(m, a, Min(nz)))
    BY <2>1 DEF pctz
  <2>3. pctz_x86(m, a, n) =
          IF Get(m, a, 2 * low) # 0 THEN low * PacketBit + LimbCtz(Get(m, a, 2 * low))
          ELSE low * PacketBit + LimbBit + LimbCtz(Get(m, a, 2 * low + 1))
    BY <1>3 DEF pctz_x86, UsedPackets
  <2> HIDE DEF low, nz
  <2>4. (2 * low) * LimbBit = low * PacketBit /\ (2 * low + 1) * LimbBit = low * PacketBit + LimbBit
    BY <1>1, <2>1
  <2>5. CASE Get(m, a, 2 * low) # 0
    BY <2>1, <2>2, <2>3, <2>4, <2>5
  <2>6. CASE Get(m, a, 2 * low) = 0
    BY <2>1, <2>2, <2>3, <2>4, <2>6
  <2>7. QED  BY <2>5, <2>6
<1>4. QED  BY <1>2, <1>3

\* The order of two numbers, from the highest packet that differs.
LEMMA OrderIs ==
    ASSUME NEW m, IsMemory(m), NEW a, NEW b, NEW n \in Nat,
           \A i \in 0 .. 2 * n - 1 : HasLimb(m, a, i) /\ HasLimb(m, b, i)
    PROVE  /\ (\A k \in 0 .. n - 1 : ~Differ(m, a, b, k)) => pcmp(m, a, b, n) = 0
           /\ \A k \in 0 .. n - 1 :
                 Differ(m, a, b, k) /\ (\A j \in k + 1 .. n - 1 : ~Differ(m, a, b, j))
                 => pcmp(m, a, b, n) = Order(m, a, b, k)
<1> DEFINE A(i) == Get(m, a, i)
           B(i) == Get(m, b, i)
           diff == {i \in 0 .. 2 * n - 1 : A(i) # B(i)}
<1>1. \A i \in 0 .. 2 * n - 1 : A(i) \in Int /\ B(i) \in Int
  <2>1. \A i \in 0 .. 2 * n - 1 : A(i) \in Limb /\ B(i) \in Limb
    BY DEF HasLimb, IsMemory, Memory, Get
  <2>2. QED  BY <2>1, LimbNumber
<1>2. pcmp(m, a, b, n) = IF diff = {} THEN 0 ELSE IF A(Max(diff)) < B(Max(diff)) THEN -1 ELSE 1
  <2>1. n * PacketLimbs = 2 * n
    BY PX86Assumption
  <2>2. QED  BY <2>1 DEF pcmp
<1>3. \A k \in 0 .. n - 1 :
         Order(m, a, b, k) = LET i == IF A(2 * k + 1) # B(2 * k + 1) THEN 2 * k + 1 ELSE 2 * k
                             IN  IF A(i) < B(i) THEN -1 ELSE IF A(i) > B(i) THEN 1 ELSE 0
  <2>1. \A k \in 0 .. n - 1 : 2 * k + 0 = 2 * k
    OBVIOUS
  <2>2. QED  BY <2>1 DEF Order
<1> HIDE DEF A, B
<1>4. \A k \in 0 .. n - 1 : Differ(m, a, b, k) <=> A(2 * k) # B(2 * k) \/ A(2 * k + 1) # B(2 * k + 1)
  <2>1. \A k \in 0 .. n - 1 : 2 * k \in 0 .. 2 * n - 1 /\ 2 * k + 1 \in 0 .. 2 * n - 1
    OBVIOUS
  <2>2. QED  BY <1>1, <1>3, <2>1 DEF Differ
<1>5. ASSUME NEW i \in diff PROVE \E k \in 0 .. n - 1 : Differ(m, a, b, k) /\ (i = 2 * k \/ i = 2 * k + 1)
  <2>1. i \in Nat /\ i < 2 * n /\ A(i) # B(i)
    OBVIOUS
  <2>2. PICK k \in Nat : i = 2 * k \/ i = 2 * k + 1
    BY <2>1, Halves
  <2>3. k \in 0 .. n - 1
    BY <2>1, <2>2
  <2>4. QED  BY <1>4, <2>1, <2>2, <2>3
<1>6. ASSUME \A k \in 0 .. n - 1 : ~Differ(m, a, b, k) PROVE pcmp(m, a, b, n) = 0
  <2>1. diff = {}
    BY <1>5, <1>6
  <2>2. QED  BY <1>2, <2>1
<1>7. ASSUME NEW k \in 0 .. n - 1, Differ(m, a, b, k), \A j \in k + 1 .. n - 1 : ~Differ(m, a, b, j)
      PROVE  pcmp(m, a, b, n) = Order(m, a, b, k)
  <2> DEFINE i == IF A(2 * k + 1) # B(2 * k + 1) THEN 2 * k + 1 ELSE 2 * k
  <2>1. i \in 0 .. 2 * n - 1 /\ A(i) # B(i) /\ (i = 2 * k \/ i = 2 * k + 1)
    BY <1>4, <1>7
  <2>2. ASSUME NEW j \in diff PROVE j =< i
    <3>1. PICK q \in 0 .. n - 1 : Differ(m, a, b, q) /\ (j = 2 * q \/ j = 2 * q + 1)
      BY <1>5, <2>2
    <3>2. q =< k
      BY <1>7, <3>1
    <3>3. A(j) # B(j)
      BY <2>2
    <3>4. CASE q < k
      BY <2>1, <3>1, <3>4
    <3>5. CASE q = k
      BY <3>1, <3>3, <3>5
    <3>6. QED  BY <3>2, <3>4, <3>5
  <2>3. i \in diff /\ diff \subseteq Int
    BY <2>1
  <2>4. Order(m, a, b, k) = IF A(i) < B(i) THEN -1 ELSE IF A(i) > B(i) THEN 1 ELSE 0
    BY <1>3
  <2> HIDE DEF i, diff
  <2>5. Max(diff) = i
    BY <2>2, <2>3, MaxIs
  <2>6. A(i) \in Int /\ B(i) \in Int
    BY <1>1, <2>1
  <2>7. pcmp(m, a, b, n) = IF A(i) < B(i) THEN -1 ELSE 1
    BY <1>2, <2>3, <2>5
  <2>8. QED  BY <2>1, <2>4, <2>6, <2>7
<1>8. QED  BY <1>6, <1>7

\* How many packets the pairs leave over.
LEMMA PairsLeave ==
    ASSUME NEW n \in Nat, ~(n % 2 = 0 /\ n > 2)
    PROVE  LET s == n - 2 * PairsSeen(n) IN s \in {0, 1} /\ (n > 2 * PairsSeen(n) <=> s = 1)
<1>1. PICK h \in Nat : n \div 2 = h /\ ((n = 2 * h /\ n % 2 = 0) \/ (n = 2 * h + 1 /\ n % 2 = 1))
  BY Halves
<1>2. CASE n =< 2
  BY <1>1, <1>2 DEF PairsSeen
<1>3. CASE n > 2
  <2>1. n = 2 * h + 1
    BY <1>1, <1>3
  <2>2. ((n - 2) + 2) - 1 = 2 * h + 0
    BY <2>1
  <2>3. (((n - 2) + 2) - 1) \div 2 = h
    BY <2>2, DivIs
  <2>4. PairsSeen(n) = h
    BY <1>3, <2>3 DEF PairsSeen, DivUp
  <2>5. QED  BY <2>1, <2>4
<1>4. QED  BY <1>2, <1>3

\* hebi_pcmp, unless it passes over packet 1.
THEOREM CompareSame ==
    ASSUME NEW m, IsMemory(m), NEW a, NEW b, NEW n \in Nat, ~(n % 2 = 0 /\ n > 2),
           \A i \in 0 .. 2 * n - 1 : HasLimb(m, a, i) /\ HasLimb(m, b, i)
    PROVE  pcmp_x86(m, a, b, n) = pcmp(m, a, b, n)
<1> DEFINE s == n - 2 * PairsSeen(n)
           seen == {k \in s .. n - 1 : Differ(m, a, b, k)}
<1>1. s \in {0, 1} /\ (n > 2 * PairsSeen(n) <=> s = 1)
  BY PairsLeave
<1>2. pcmp_x86(m, a, b, n) = IF seen # {} THEN Order(m, a, b, Max(seen))
                             ELSE IF s = 1 THEN Order(m, a, b, 0) ELSE 0
  BY <1>1 DEF pcmp_x86
<1> HIDE DEF s
<1>3. CASE seen # {}
  <2>1. seen \subseteq 0 .. n - 1
    BY <1>1
  <2>2. Max(seen) \in seen /\ \A k \in seen : k =< Max(seen)
    BY <1>3, <2>1, MaxOf
  <2> DEFINE top == Max(seen)
  <2>3. top \in s .. n - 1 /\ Differ(m, a, b, top)
    BY <2>2
  <2>4. ASSUME NEW j \in top + 1 .. n - 1 PROVE ~Differ(m, a, b, j)
    BY <1>1, <2>2, <2>3
  <2> HIDE DEF top
  <2>5. top \in 0 .. n - 1
    BY <1>1, <2>3
  <2>6. pcmp(m, a, b, n) = Order(m, a, b, top)
    BY <2>3, <2>4, <2>5, OrderIs
  <2>7. QED  BY <1>2, <1>3, <2>6 DEF top
<1>4. CASE seen = {}
  <2>1. \A k \in s .. n - 1 : ~Differ(m, a, b, k)
    BY <1>4
  <2>2. CASE n = 0 \/ s = 0 \/ ~Differ(m, a, b, 0)
    <3>1. \A k \in 0 .. n - 1 : ~Differ(m, a, b, k)
      BY <1>1, <2>1, <2>2
    <3>2. pcmp(m, a, b, n) = 0
      BY <3>1, OrderIs
    <3>3. s = 1 => Order(m, a, b, 0) = 0
      <4>1. s = 1 => n > 0
        BY <1>1 DEF PairsSeen
      <4>2. QED  BY <2>2, <4>1 DEF Differ
    <3>4. QED  BY <1>2, <1>4, <3>2, <3>3
  <2>3. CASE ~(n = 0 \/ s = 0 \/ ~Differ(m, a, b, 0))
    <3>1. s = 1 /\ 0 \in 0 .. n - 1 /\ Differ(m, a, b, 0) /\ \A j \in 0 + 1 .. n - 1 : ~Differ(m, a, b, j)
      BY <1>1, <2>1, <2>3
    <3>2. pcmp(m, a, b, n) = Order(m, a, b, 0)
      BY <3>1, OrderIs
    <3>3. QED  BY <1>2, <1>4, <3>1, <3>2
  <2>4. QED  BY <2>2, <2>3
<1>5. QED  BY <1>3, <1>4

-----------------------------------------------------------------------------
(* Carries *)

\* The flag is the carry that the portable kernels find by comparing.
LEMMA AdcIs ==
    ASSUME NEW x \in Limb, NEW y \in Limb, NEW c \in {0, 1}, NEW s \in Limb, NEW d \in {0, 1},
           s + Base * d = x + y + c
    PROVE  AdcSbb("adc", x, y, c) = [x |-> s, c |-> d]
<1>1. Base \in Nat \ {0} /\ x \in Int /\ y \in Int /\ s \in 0 .. Base - 1
  BY BaseFacts, LimbNumber DEF Limb
<1> DEFINE z == x + y + c
<1>2. z \in Nat /\ z = Base * d + s
  BY <1>1, LimbNumber
<1> HIDE DEF z
<1>3. z \div Base = d /\ z % Base = s
  BY <1>1, <1>2, DivIs
<1>4. QED  BY <1>3 DEF AdcSbb, z

\* What sbb gives, from the equation of the difference and its borrow.
LEMMA SbbIs ==
    ASSUME NEW x \in Limb, NEW y \in Limb, NEW c \in {0, 1}, NEW s \in Limb, NEW d \in {0, 1},
           s - Base * d = x - y - c
    PROVE  AdcSbb("sbb", x, y, c) = [x |-> s, c |-> d]
<1>1. /\ Base \in Nat \ {0} /\ x \in 0 .. Base - 1 /\ y \in 0 .. Base - 1 /\ s \in 0 .. Base - 1
  BY BaseFacts, LimbNumber DEF Limb
<1> DEFINE z == x - y - c
<1>2. z \in -Base .. Base - 1 /\ s = z + Base * d
  BY <1>1
<1>3. Bit(x < y + c) = IF z < 0 THEN 1 ELSE 0
  BY <1>1 DEF Bit
<1>4. AdcSbb("sbb", x, y, c) = [x |-> z % Base, c |-> Bit(x < y + c)]
  BY DEF AdcSbb
<1> HIDE DEF z
<1>5. z % Base = IF z < 0 THEN z + Base ELSE z
  BY <1>1, <1>2, WrapDown
<1>6. d = IF z < 0 THEN 1 ELSE 0
  <2>1. CASE d = 0
    BY <1>1, <1>2, <2>1
  <2>2. CASE d = 1
    BY <1>1, <1>2, <2>2
  <2>3. QED  BY <2>1, <2>2
<1>7. z % Base = s /\ Bit(x < y + c) = d
  <2>1. CASE d = 0
    BY <1>1, <1>2, <1>3, <1>5, <1>6, <2>1
  <2>2. CASE d = 1
    BY <1>1, <1>2, <1>3, <1>5, <1>6, <2>2
  <2>3. QED  BY <2>1, <2>2
<1>8. QED  BY <1>4, <1>7

\* hebi_pneg: the borrow out of a limb is the flag.
THEOREM NegSame ==
    ASSUME NEW m, IsMemory(m), NEW r, NEW a, NEW n \in Nat,
           \A i \in 0 .. 2 * n - 1 : HasLimb(m, r, i) /\ HasLimb(m, a, i)
    PROVE  pneg_x86(m, r, a, n) = pneg(m, r, a, n)
<1> DEFINE N == 2 * n
           Z == [m : Memory(m), c : {0, 1}]
           s0 == [m |-> m, c |-> 0]
           X(t, i) == LET z == AdcSbb("sbb", 0, Get(t.m, a, i), t.c)
                      IN  [m |-> Put(t.m, r, i, z.x), c |-> z.c]
           P(t, i) == LET diff == (-Get(t.m, a, i) - t.c) % Base
                      IN  [m |-> Put(t.m, r, i, diff), c |-> Bit(diff > 0 \/ (diff = 0 /\ t.c = 1))]
           B == [i \in 0 .. N - 1 |-> [t \in Z |-> X(t, i)]]
<1>1. N \in Nat /\ N = n * PacketLimbs
  BY PX86Assumption
<1>2. ASSUME NEW i \in 0 .. N - 1, NEW t \in Z PROVE X(t, i) \in Z /\ P(t, i) = X(t, i)
  <2> DEFINE y == Get(t.m, a, i)
             d == (0 - y - t.c) % Base
             e == DiffBorrow(0, d, t.c)
  <2>1. t.m \in Memory(m) /\ t.c \in {0, 1} /\ y \in Limb
    BY DEF HasLimb, Memory, Get
  <2>2. 0 \in Limb
    BY BaseFacts
  <2>3. d \in Limb /\ e \in {0, 1} /\ d - Base * e = 0 - y - t.c
    BY <2>1, <2>2, LimbDiff
  <2>4. -y - t.c = 0 - y - t.c
    BY <2>1, LimbNumber
  <2>5. P(t, i) = [m |-> Put(t.m, r, i, d), c |-> e]
    BY <2>4 DEF DiffBorrow
  <2> HIDE DEF y, d, e
  <2>6. AdcSbb("sbb", 0, y, t.c) = [x |-> d, c |-> e]
    BY <2>1, <2>2, <2>3, SbbIs
  <2>7. X(t, i) = [m |-> Put(t.m, r, i, d), c |-> e]
    BY <2>6 DEF y
  <2>8. Put(t.m, r, i, d) \in Memory(m)
    BY <2>1, <2>3, PutMemory DEF HasLimb
  <2>9. QED  BY <2>3, <2>5, <2>7, <2>8
<1> HIDE DEF X, P, Z
<1>3. PICK f : Steps(Z, B, s0, N, f)
  <2>1. s0 \in Z
    BY DEF IsMemory, Z
  <2>2. \A i \in 0 .. N - 1 : B[i] \in [Z -> Z]
    BY <1>2
  <2> HIDE DEF B, s0, N
  <2>3. QED  BY <1>1, <2>1, <2>2, StepsExist
<1>4. f[0] = s0 /\ f = [i \in 0 .. N |-> f[i]]
  BY <1>3 DEF Steps
<1>5. \A i \in 0 .. N - 1 : f[i + 1] = X(f[i], i) /\ f[i + 1] = P(f[i], i)
  <2>1. \A i \in 0 .. N - 1 : f[i] \in Z /\ f[i + 1] = B[i][f[i]]
    BY <1>3 DEF Steps
  <2>2. QED  BY <1>2, <2>1
<1> HIDE DEF B, N, s0
<1> DEFINE Bodya(t, i) == X(t, i)
           Qa(h, i) == Given(h[i - 1], LAMBDA t : Bodya(t, i - 1))
           Eqa(h) == h = [i \in 0 .. N |-> IF i = 0 THEN s0 ELSE Qa(h, i)]
           Fa == CHOOSE h : Eqa(h)
<1>a1. pneg_x86(m, r, a, n) = Fa[N]
  BY DEF pneg_x86, N, s0, X, Loop, Given
<1>a2. \A h, i : Qa(h, i) = Bodya(h[i - 1], i - 1)
  BY DEF Given
<1>a3. \A i \in 0 .. N - 1 : f[i + 1] = Bodya(f[i], i)
  BY <1>5
<1> HIDE DEF Bodya, Qa
<1>a4. Eqa(Fa)
  <2>1. ASSUME NEW i \in 0 .. N, i # 0 PROVE f[i] = Qa(f, i)
    <3>1. i - 1 \in 0 .. N - 1 /\ (i - 1) + 1 = i
      BY <2>1, <1>1
    <3>2. QED  BY <1>a2, <1>a3, <3>1
  <2>2. Eqa(f)
    BY <1>4, <2>1
  <2>3. QED  BY <2>2
<1> HIDE DEF Fa
<1>a5. Fa[N] = f[N]
  <2>1. Fa[0] = f[0]
    BY <1>4, <1>a4, <1>1
  <2>2. ASSUME NEW i \in 0 .. N - 1, Fa[i] = f[i] PROVE Fa[i + 1] = f[i + 1]
    <3>1. i + 1 \in 0 .. N /\ i + 1 # 0 /\ (i + 1) - 1 = i
      BY <1>1
    <3>2. Fa[i + 1] = Bodya(Fa[i], i)
      BY <1>1, <1>a2, <1>a4, <3>1
    <3>3. QED  BY <1>a3, <2>2, <3>2
  <2>3. QED  BY <1>1, <2>1, <2>2, SameEnd
<1> DEFINE Bodyb(t, i) == P(t, i)
           Qb(h, i) == Given(h[i - 1], LAMBDA t : Bodyb(t, i - 1))
           Eqb(h) == h = [i \in 0 .. N |-> IF i = 0 THEN s0 ELSE Qb(h, i)]
           Fb == CHOOSE h : Eqb(h)
<1>b1. pneg(m, r, a, n) = Fb[N]
  BY <1>1 DEF pneg, s0, P, Loop, Given
<1>b2. \A h, i : Qb(h, i) = Bodyb(h[i - 1], i - 1)
  BY DEF Given
<1>b3. \A i \in 0 .. N - 1 : f[i + 1] = Bodyb(f[i], i)
  BY <1>5
<1> HIDE DEF Bodyb, Qb
<1>b4. Eqb(Fb)
  <2>1. ASSUME NEW i \in 0 .. N, i # 0 PROVE f[i] = Qb(f, i)
    <3>1. i - 1 \in 0 .. N - 1 /\ (i - 1) + 1 = i
      BY <2>1, <1>1
    <3>2. QED  BY <1>b2, <1>b3, <3>1
  <2>2. Eqb(f)
    BY <1>4, <2>1
  <2>3. QED  BY <2>2
<1> HIDE DEF Fb
<1>b5. Fb[N] = f[N]
  <2>1. Fb[0] = f[0]
    BY <1>4, <1>b4, <1>1
  <2>2. ASSUME NEW i \in 0 .. N - 1, Fb[i] = f[i] PROVE Fb[i + 1] = f[i + 1]
    <3>1. i + 1 \in 0 .. N /\ i + 1 # 0 /\ (i + 1) - 1 = i
      BY <1>1
    <3>2. Fb[i + 1] = Bodyb(Fb[i], i)
      BY <1>1, <1>b2, <1>b4, <3>1
    <3>3. QED  BY <1>b3, <2>2, <3>2
  <2>3. QED  BY <1>1, <2>1, <2>2, SameEnd
<1>6. QED  BY <1>a1, <1>a5, <1>b1, <1>b5

\* hebi_pmulu: the turns of two limbs are those of the loop.
THEOREM WordProductSame ==
    ASSUME NEW m, NEW r, NEW a, NEW w, NEW n
    PROVE  pmulu_x86(m, r, a, w, n) = pmulu(m, r, a, w, n)
  BY DEF pmulu, pmulu_x86, Loop, Given

\* The limbs x and the flags c of a op y, limb by limb.
FlagTrace(op, m, a, y, N, c, x) ==
    /\ c \in [0 .. N -> {0, 1}] /\ c[0] = 0
    /\ \A i \in 0 .. N - 1 :
          /\ x[i] \in Limb /\ y[i] \in Limb /\ Get(m, a, i) \in Limb
          /\ AdcSbb(op, Get(m, a, i), y[i], c[i]) = [x |-> x[i], c |-> c[i + 1]]

\* s is m with those limbs at r, and the last flag.
FlagResult(op, m, s, r, a, y, N) ==
    \E c, x : FlagTrace(op, m, a, y, N, c, x) /\ Stored(Limb, m, s.m, r, 0 .. N - 1, x) /\ s.c = c[N]

\* The limbs of an area are there.
LEMMA AreaLimbs ==
    ASSUME NEW m, NEW p, NEW N \in Nat, Area(m, p, N)
    PROVE  p.at \in Nat /\ \A i \in 0 .. N - 1 : HasLimb(m, p, i)
  BY DEF Area, HasLimb

\* What is in a limb is a limb.
LEMMA LimbThere ==
    ASSUME NEW m, IsMemory(m), NEW p, NEW i, HasLimb(m, p, i)
    PROVE  Get(m, p, i) \in Limb
  BY DEF HasLimb, IsMemory, Memory, Get

\* Limbs written from the first on are limbs stored.
LEMMA WroteStored ==
    ASSUME NEW m, NEW t, NEW r, r.at \in Nat, NEW N \in Nat, NEW x, Wrote(m, t, r, N, x)
    PROVE  Stored(Limb, m, t, r, 0 .. N - 1, x)
<1>1. \A k : k \in r.at .. (r.at + N) - 1 <=> k \in Int /\ k - r.at \in 0 .. N - 1
  OBVIOUS
<1>2. \A b \in DOMAIN m : \A k \in DOMAIN m[b] :
         t[b][k] = IF b = r.buf /\ k \in r.at .. (r.at + N) - 1 THEN x[k - r.at] ELSE m[b][k]
  BY DEF Wrote
<1>3. \A b \in DOMAIN m : \A k \in DOMAIN m[b] :
         t[b][k] = IF b = r.buf /\ k \in Int /\ k - r.at \in 0 .. N - 1 THEN x[k - r.at] ELSE m[b][k]
  <2>1. ASSUME NEW b \in DOMAIN m, NEW k \in DOMAIN m[b]
        PROVE  t[b][k] = IF b = r.buf /\ k \in Int /\ k - r.at \in 0 .. N - 1 THEN x[k - r.at] ELSE m[b][k]
    <3>1. t[b][k] = IF b = r.buf /\ k \in r.at .. (r.at + N) - 1 THEN x[k - r.at] ELSE m[b][k]
      BY <1>2
    <3>2. k \in r.at .. (r.at + N) - 1 <=> k \in Int /\ k - r.at \in 0 .. N - 1
      BY <1>1
    <3>3. QED  BY <3>1, <3>2
  <2>2. QED  BY <2>1
<1>4. QED  BY <1>3, LimbMemory DEF Wrote, Stored

\* The limbs of an operand of bn packets, in a loop over N limbs.
Extended(m, b, bn, N) == [i \in 0 .. N - 1 |-> Operand(m, b, bn, i)]

\* The limbs of the shorter operand, with zeros behind it.
LEMMA ExtendedLimbs ==
    ASSUME NEW m, IsMemory(m), NEW b, NEW bn \in Nat, NEW N \in Nat, Area(m, b, 2 * bn)
    PROVE  \A i \in 0 .. N - 1 : Extended(m, b, bn, N)[i] = Operand(m, b, bn, i) /\ Operand(m, b, bn, i) \in Limb
<1>1. 0 \in Limb
  BY BaseFacts
<1>2. ASSUME NEW i \in 0 .. N - 1 PROVE Operand(m, b, bn, i) \in Limb
  <2>1. i < 2 * bn => HasLimb(m, b, i)
    BY DEF Area, HasLimb
  <2>2. QED  BY <1>1, <2>1, LimbThere, PX86Assumption DEF Operand
<1>3. QED  BY <1>2 DEF Extended

\* The portable sum is that of the flags of adc.
LEMMA PaddFlags ==
    ASSUME NEW m, IsMemory(m), NEW r, NEW a, NEW b, NEW n \in Nat, NEW bn \in Nat, bn =< n,
           Area(m, r, 2 * n), Area(m, a, 2 * n), Area(m, b, 2 * bn), Follows(r, a, 2 * n), Follows(r, b, 2 * bn)
    PROVE  FlagResult("adc", m, padd(m, r, a, b, n, bn), r, a, Extended(m, b, bn, 2 * n), 2 * n)
<1> DEFINE N == 2 * n
           M == 2 * bn
           y == Extended(m, b, bn, N)
           s == padd(m, r, a, b, n, bn)
<1>1. N \in Nat /\ M \in Nat /\ N = n * PacketLimbs /\ M = bn * PacketLimbs /\ M =< N
  BY PX86Assumption
<1>2. \A i \in 0 .. N - 1 : y[i] = Operand(m, b, bn, i) /\ y[i] \in Limb
  BY <1>1, ExtendedLimbs
<1>3. r.at \in Nat /\ \A i \in 0 .. N - 1 : Get(m, a, i) \in Limb
  BY <1>1, AreaLimbs, LimbThere
<1>4. SumsAt(m, s, r, N, a, b, bn)
  BY <1>1, PaddLoop
<1> HIDE DEF N, M, y, s
<1>5. PICK c, x :
         /\ c \in [0 .. N -> {0, 1}] /\ c[0] = 0
         /\ \A i \in 0 .. N - 1 :
               /\ x[i] \in Limb
               /\ x[i] + Base * c[i + 1] = Get(m, a, i) + Operand(m, b, bn, i) + c[i]
         /\ Wrote(m, s.m, r, N, x)
         /\ s.c = c[N]
  BY <1>4 DEF SumsAt
<1>6. ASSUME NEW i \in 0 .. N - 1 PROVE AdcSbb("adc", Get(m, a, i), y[i], c[i]) = [x |-> x[i], c |-> c[i + 1]]
  <2>0. i \in 0 .. N /\ i + 1 \in 0 .. N /\ c \in [0 .. N -> {0, 1}]
    BY <1>1, <1>5
  <2>1. c[i] \in {0, 1} /\ c[i + 1] \in {0, 1}
    BY <2>0
  <2>2. x[i] \in Limb /\ x[i] + Base * c[i + 1] = Get(m, a, i) + y[i] + c[i]
    BY <1>2, <1>5
  <2>3. QED  BY <1>2, <1>3, <2>1, <2>2, AdcIs
<1>7. FlagTrace("adc", m, a, y, N, c, x)
  BY <1>2, <1>3, <1>5, <1>6 DEF FlagTrace
<1>8. Stored(Limb, m, s.m, r, 0 .. N - 1, x)
  BY <1>1, <1>3, <1>5, WroteStored
<1>9. QED  BY <1>5, <1>7, <1>8 DEF FlagResult, N, y, s

\* The portable difference is that of the flags of sbb.
LEMMA PsubFlags ==
    ASSUME NEW m, IsMemory(m), NEW r, NEW a, NEW b, NEW n \in Nat, NEW bn \in Nat, bn =< n,
           Area(m, r, 2 * n), Area(m, a, 2 * n), Area(m, b, 2 * bn), Follows(r, a, 2 * n), Follows(r, b, 2 * bn)
    PROVE  FlagResult("sbb", m, psub(m, r, a, b, n, bn), r, a, Extended(m, b, bn, 2 * n), 2 * n)
<1> DEFINE N == 2 * n
           M == 2 * bn
           y == Extended(m, b, bn, N)
           s == psub(m, r, a, b, n, bn)
<1>1. N \in Nat /\ M \in Nat /\ N = n * PacketLimbs /\ M = bn * PacketLimbs /\ M =< N
  BY PX86Assumption
<1>2. \A i \in 0 .. N - 1 : y[i] = Operand(m, b, bn, i) /\ y[i] \in Limb
  BY <1>1, ExtendedLimbs
<1>3. r.at \in Nat /\ \A i \in 0 .. N - 1 : Get(m, a, i) \in Limb
  BY <1>1, AreaLimbs, LimbThere
<1>4. DiffsAt(m, s, r, N, a, b, bn)
  BY <1>1, PsubLoop
<1> HIDE DEF N, M, y, s
<1>5. PICK c, x :
         /\ c \in [0 .. N -> {0, 1}] /\ c[0] = 0
         /\ \A i \in 0 .. N - 1 :
               /\ x[i] \in Limb
               /\ x[i] - Base * c[i + 1] = Get(m, a, i) - Operand(m, b, bn, i) - c[i]
         /\ Wrote(m, s.m, r, N, x)
         /\ s.c = c[N]
  BY <1>4 DEF DiffsAt
<1>6. ASSUME NEW i \in 0 .. N - 1 PROVE AdcSbb("sbb", Get(m, a, i), y[i], c[i]) = [x |-> x[i], c |-> c[i + 1]]
  <2>0. i \in 0 .. N /\ i + 1 \in 0 .. N /\ c \in [0 .. N -> {0, 1}]
    BY <1>1, <1>5
  <2>1. c[i] \in {0, 1} /\ c[i + 1] \in {0, 1}
    BY <2>0
  <2>2. x[i] \in Limb /\ x[i] - Base * c[i + 1] = Get(m, a, i) - y[i] - c[i]
    BY <1>2, <1>5
  <2>3. QED  BY <1>2, <1>3, <2>1, <2>2, SbbIs
<1>7. FlagTrace("sbb", m, a, y, N, c, x)
  BY <1>2, <1>3, <1>5, <1>6 DEF FlagTrace
<1>8. Stored(Limb, m, s.m, r, 0 .. N - 1, x)
  BY <1>1, <1>3, <1>5, WroteStored
<1>9. QED  BY <1>5, <1>7, <1>8 DEF FlagResult, N, y, s

\* A word as the first limb of an operand.
WordAlone(w, N) == [i \in 0 .. N - 1 |-> IF i = 0 THEN w ELSE 0]

\* The same flags whether the word is an operand or the first carry.
LEMMA WordFlags ==
    ASSUME NEW N \in Nat, N > 0, NEW w \in Limb, NEW op \in {"adc", "sbb"}, NEW m, NEW a, NEW x, NEW d,
           \A i \in 0 .. N - 1 : x[i] \in Limb /\ Get(m, a, i) \in Limb /\ d[i + 1] \in {0, 1},
           d[0] = w,
           op = "adc" => \A i \in 0 .. N - 1 : x[i] + Base * d[i + 1] = Get(m, a, i) + d[i],
           op = "sbb" => \A i \in 0 .. N - 1 : x[i] - Base * d[i + 1] = Get(m, a, i) - d[i]
    PROVE  \E c : FlagTrace(op, m, a, WordAlone(w, N), N, c, x) /\ c[N] = d[N]
<1> DEFINE y == WordAlone(w, N)
           c == [i \in 0 .. N |-> IF i = 0 THEN 0 ELSE d[i]]
<1>1. \A i \in 0 .. N - 1 : y[i] = IF i = 0 THEN w ELSE 0
  BY DEF WordAlone
<1>2. c \in [0 .. N -> {0, 1}]
  <2>1. ASSUME NEW i \in 0 .. N, i # 0 PROVE d[i] \in {0, 1}
    <3>1. i - 1 \in 0 .. N - 1 /\ (i - 1) + 1 = i
      BY <2>1
    <3>2. QED  BY <3>1
  <2>2. QED  BY <2>1
<1>3. c[0] = 0 /\ c[N] = d[N] /\ \A i \in 0 .. N - 1 : c[i + 1] = d[i + 1] /\ (i # 0 => c[i] = d[i])
  OBVIOUS
<1> HIDE DEF y, c
<1>4. ASSUME NEW i \in 0 .. N - 1
      PROVE  y[i] \in Limb /\ AdcSbb(op, Get(m, a, i), y[i], c[i]) = [x |-> x[i], c |-> c[i + 1]]
  <2> DEFINE g == Get(m, a, i)
  <2>1. y[i] \in Limb /\ c[i] \in {0, 1} /\ c[i + 1] \in {0, 1} /\ x[i] \in Limb /\ g \in Limb
    BY <1>1, <1>2, <1>3, BaseFacts
  <2>2. y[i] \in Int /\ c[i] \in Int /\ g \in Int /\ d[i] \in Int
    BY <1>1, <1>3, <2>1, LimbNumber
  <2>3. op = "adc" => x[i] + Base * c[i + 1] = g + d[i]
    BY <1>3
  <2>4. op = "sbb" => x[i] - Base * c[i + 1] = g - d[i]
    BY <1>3
  <2>5. (y[i] = d[i] /\ c[i] = 0) \/ (y[i] = 0 /\ c[i] = d[i])
    BY <1>1, <1>3
  <2> HIDE DEF g
  <2>6. g + y[i] + c[i] = g + d[i] /\ g - y[i] - c[i] = g - d[i]
    BY <2>2, <2>5
  <2>7. CASE op = "adc"
    BY <2>1, <2>3, <2>6, <2>7, AdcIs DEF g
  <2>8. CASE op = "sbb"
    BY <2>1, <2>4, <2>6, <2>8, SbbIs DEF g
  <2>9. QED  BY <2>1, <2>7, <2>8
<1>5. FlagTrace(op, m, a, y, N, c, x)
  BY <1>2, <1>3, <1>4 DEF FlagTrace
<1>6. QED  BY <1>3, <1>5 DEF y

\* The portable sum with a word is that of the flags of adc, the word being the other
\* operand.
LEMMA PadduFlags ==
    ASSUME NEW m, IsMemory(m), NEW r, NEW a, NEW n \in Nat, n > 0, NEW w \in Limb,
           Area(m, r, 2 * n), Area(m, a, 2 * n), Follows(r, a, 2 * n)
    PROVE  FlagResult("adc", m, paddu(m, r, a, w, n), r, a, WordAlone(w, 2 * n), 2 * n)
<1> DEFINE N == 2 * n
           s == paddu(m, r, a, w, n)
<1>1. N \in Nat /\ N > 0 /\ N = n * PacketLimbs
  BY PX86Assumption
<1>2. r.at \in Nat /\ \A i \in 0 .. N - 1 : Get(m, a, i) \in Limb
  BY <1>1, AreaLimbs, LimbThere
<1>3. WordSumsAt(m, s, r, N, a, w)
  BY <1>1, PadduLoop
<1> HIDE DEF N, s
<1>4. PICK d, x :
         /\ d \in [0 .. N -> Limb] /\ d[0] = w
         /\ \A i \in 0 .. N - 1 :
               /\ x[i] \in Limb /\ d[i + 1] \in {0, 1}
               /\ x[i] + Base * d[i + 1] = Get(m, a, i) + d[i]
         /\ Wrote(m, s.m, r, N, x)
         /\ s.c = d[N]
  BY <1>3 DEF WordSumsAt
<1>5. Stored(Limb, m, s.m, r, 0 .. N - 1, x)
  BY <1>1, <1>2, <1>4, WroteStored
<1>6. PICK c : FlagTrace("adc", m, a, WordAlone(w, N), N, c, x) /\ c[N] = d[N]
  <2>1. \A i \in 0 .. N - 1 : x[i] \in Limb /\ Get(m, a, i) \in Limb /\ d[i + 1] \in {0, 1}
    BY <1>2, <1>4
  <2>2. d[0] = w /\ \A i \in 0 .. N - 1 : x[i] + Base * d[i + 1] = Get(m, a, i) + d[i]
    BY <1>4
  <2> DEFINE op == "adc"
  <2>3. op \in {"adc", "sbb"} /\ op # "sbb"
    OBVIOUS
  <2> HIDE DEF op
  <2>4. \E c : FlagTrace(op, m, a, WordAlone(w, N), N, c, x) /\ c[N] = d[N]
    BY <1>1, <2>1, <2>2, <2>3, WordFlags
  <2>5. QED  BY <2>4 DEF op
<1>7. QED  BY <1>4, <1>5, <1>6 DEF FlagResult, N, s

\* The portable difference with a word likewise.
LEMMA PsubuFlags ==
    ASSUME NEW m, IsMemory(m), NEW r, NEW a, NEW n \in Nat, n > 0, NEW w \in Limb,
           Area(m, r, 2 * n), Area(m, a, 2 * n), Follows(r, a, 2 * n)
    PROVE  FlagResult("sbb", m, psubu(m, r, a, w, n), r, a, WordAlone(w, 2 * n), 2 * n)
<1> DEFINE N == 2 * n
           s == psubu(m, r, a, w, n)
<1>1. N \in Nat /\ N > 0 /\ N = n * PacketLimbs
  BY PX86Assumption
<1>2. r.at \in Nat /\ \A i \in 0 .. N - 1 : Get(m, a, i) \in Limb
  BY <1>1, AreaLimbs, LimbThere
<1>3. WordDiffsAt(m, s, r, N, a, w)
  BY <1>1, PsubuLoop
<1> HIDE DEF N, s
<1>4. PICK d, x :
         /\ d \in [0 .. N -> Limb] /\ d[0] = w
         /\ \A i \in 0 .. N - 1 :
               /\ x[i] \in Limb /\ d[i + 1] \in {0, 1}
               /\ x[i] - Base * d[i + 1] = Get(m, a, i) - d[i]
         /\ Wrote(m, s.m, r, N, x)
         /\ s.c = d[N]
  BY <1>3 DEF WordDiffsAt
<1>5. Stored(Limb, m, s.m, r, 0 .. N - 1, x)
  BY <1>1, <1>2, <1>4, WroteStored
<1>6. PICK c : FlagTrace("sbb", m, a, WordAlone(w, N), N, c, x) /\ c[N] = d[N]
  <2>1. \A i \in 0 .. N - 1 : x[i] \in Limb /\ Get(m, a, i) \in Limb /\ d[i + 1] \in {0, 1}
    BY <1>2, <1>4
  <2>2. d[0] = w /\ \A i \in 0 .. N - 1 : x[i] - Base * d[i + 1] = Get(m, a, i) - d[i]
    BY <1>4
  <2> DEFINE op == "sbb"
  <2>3. op \in {"adc", "sbb"} /\ op # "adc"
    OBVIOUS
  <2> HIDE DEF op
  <2>4. \E c : FlagTrace(op, m, a, WordAlone(w, N), N, c, x) /\ c[N] = d[N]
    BY <1>1, <2>1, <2>2, <2>3, WordFlags
  <2>5. QED  BY <2>4 DEF op
<1>7. QED  BY <1>4, <1>5, <1>6 DEF FlagResult, N, s

\* In turns behind limb lo, the operand at b, of bn packets, is read as y.
ReadsAs(m, r, x, N, y, lo, b, bn) ==
    \A t : \A i \in lo .. N - 1 : \A k \in 0 .. i :
        Stored(Limb, m, t, r, 0 .. k - 1, x) => Operand(t, b, bn, i) = y[i]

\* The states of the loops of a sum.
IsState(s) == s = [m |-> s.m, c |-> s.c, k |-> s.k]

\* The state of a sum that has reached packet s.k.
Reached(m, s, r, n, c, x) ==
    /\ IsState(s)
    /\ s.k \in 0 .. n /\ s.c = c[2 * s.k] /\ Stored(Limb, m, s.m, r, 0 .. 2 * s.k - 1, x)

\* What the result and the operands of a sum have in common.
SumOf(op, m, r, a, y, n, c, x) ==
    /\ FlagTrace(op, m, a, y, 2 * n, c, x)
    /\ \A i \in 0 .. 2 * n - 1 : HasLimb(m, r, i)
    /\ r.at \in Nat /\ Readable(m, r, a, 2 * n)

\* s has reached packet k, and w packets follow.
Ahead(op, m, r, a, y, n, c, x, b, bn, k, w, s) ==
    /\ SumOf(op, m, r, a, y, n, c, x)
    /\ k + w =< n /\ ReadsAs(m, r, x, 2 * (k + w), y, 2 * k, b, bn)
    /\ IsState(s) /\ s.c = c[2 * k] /\ Stored(Limb, m, s.m, r, 0 .. 2 * k - 1, x)

\* w packets of a sum are stored, and the flag is the one behind them.
LEMMA CarriedStores ==
    ASSUME NEW op, NEW m, NEW r, NEW a, NEW y, NEW n \in Nat, NEW c, NEW x, NEW b, NEW bn,
           NEW k \in Nat, NEW w \in Nat, NEW s, Ahead(op, m, r, a, y, n, c, x, b, bn, k, w, s)
    PROVE  \E t : /\ Carried(s, r, a, b, bn, k, w, op) = [m |-> t, c |-> c[2 * (k + w)], k |-> s.k]
                  /\ Stored(Limb, m, t, r, 0 .. 2 * (k + w) - 1, x)
<1> DEFINE N == 2 * w
           lo == 2 * k
           p == [i \in 0 .. N - 1 |-> lo + i]
           I == 0 .. lo - 1
<1>r. /\ SumOf(op, m, r, a, y, n, c, x) /\ k + w =< n /\ ReadsAs(m, r, x, 2 * (k + w), y, 2 * k, b, bn)
      /\ IsState(s) /\ s.c = c[2 * k] /\ Stored(Limb, m, s.m, r, 0 .. 2 * k - 1, x)
  BY DEF Ahead
<1>0. /\ N \in Nat /\ lo \in Nat /\ lo = 2 * k /\ 2 * (k + w) = lo + N /\ lo + N =< 2 * n
  BY <1>r
<1> HIDE DEF N, lo
<1>1. /\ N \in Nat /\ I \subseteq Nat /\ lo \in Nat
      /\ \A i \in 0 .. N - 1 : p[i] = lo + i /\ lo + i \in 0 .. 2 * n - 1
                               /\ lo + i \in lo .. (lo + N) - 1
  BY <1>0
<1>2. /\ c \in [0 .. 2 * n -> {0, 1}]
      /\ \A i \in 0 .. 2 * n - 1 :
          /\ x[i] \in Limb /\ HasLimb(m, r, i)
          /\ AdcSbb(op, Get(m, a, i), y[i], c[i]) = [x |-> x[i], c |-> c[i + 1]]
  BY <1>r DEF SumOf, FlagTrace
<1>3. \A i \in 0 .. N : I \union {p[j] : j \in 0 .. i - 1} = 0 .. (lo + i) - 1
  <2>1. ASSUME NEW i \in 0 .. N PROVE I \union {p[j] : j \in 0 .. i - 1} = 0 .. (lo + i) - 1
    <3>1. \A j \in 0 .. i - 1 : p[j] = lo + j /\ lo + j \in 0 .. (lo + i) - 1
      BY <1>1
    <3>2. ASSUME NEW q \in 0 .. (lo + i) - 1 PROVE q \in I \union {p[j] : j \in 0 .. i - 1}
      <4>0. q \in Int /\ 0 =< q /\ lo \in Int
        BY <1>1
      <4>1. CASE q < lo
        BY <1>1, <4>0, <4>1
      <4>2. CASE q >= lo
        <5>1. q - lo \in 0 .. i - 1 /\ q = lo + (q - lo)
          BY <1>1, <4>0, <4>2
        <5>2. q = p[q - lo]
          BY <3>1, <5>1
        <5>3. QED  BY <5>1, <5>2
      <4>3. QED  BY <4>0, <4>1, <4>2
    <3>3. I \subseteq 0 .. (lo + i) - 1
      BY <1>1
    <3> HIDE DEF p, I
    <3>4. QED  BY <3>1, <3>2, <3>3
  <2>2. QED  BY <2>1
<1> HIDE DEF p
<1>4. PICK g : PutTrace(Limb, m, r, I, x, N, p, s.m, g)
  <2>1. \A i \in 0 .. N - 1 : HasLimb(m, r, p[i]) /\ x[p[i]] \in Limb
    BY <1>1, <1>2
  <2>2. Stored(Limb, m, s.m, r, I, x)
    BY <1>r DEF lo
  <2> HIDE DEF I
  <2>3. QED  BY <1>1, <2>1, <2>2, PutLoop
<1>5. /\ g[0] = s.m /\ \A i \in 0 .. N - 1 : g[i + 1] = Put(g[i], r, p[i], x[p[i]])
  BY <1>4 DEF PutTrace
<1>6. \A i \in 0 .. N : Stored(Limb, m, g[i], r, 0 .. (lo + i) - 1, x)
  <2>1. ASSUME NEW i \in 0 .. N PROVE Stored(Limb, m, g[i], r, 0 .. (lo + i) - 1, x)
    <3>1. Stored(Limb, m, g[i], r, I \union {p[j] : j \in 0 .. i - 1}, x)
      BY <1>4 DEF PutTrace
    <3> HIDE DEF I, N
    <3>2. QED  BY <1>3, <3>1
  <2>2. QED  BY <2>1
<1> HIDE DEF I
<1> DEFINE f == [i \in 0 .. N |-> [m |-> g[i], c |-> c[lo + i], k |-> s.k]]
           X(t, i) == LET z == AdcSbb(op, Get(t.m, a, lo + i), Operand(t.m, b, bn, lo + i), t.c)
                      IN  [m |-> Put(t.m, r, lo + i, z.x), c |-> z.c, k |-> t.k]
<1>7. ASSUME NEW i \in 0 .. N - 1 PROVE f[i + 1] = X(f[i], i)
  <2> DEFINE q == lo + i
  <2>1. /\ q \in 0 .. 2 * n - 1 /\ q \in lo .. (lo + N) - 1 /\ q \in 0 .. q /\ lo + (i + 1) = q + 1
        /\ i \in 0 .. N /\ i + 1 \in 0 .. N /\ p[i] = q
    BY <1>0, <1>1
  <2>2. Stored(Limb, m, g[i], r, 0 .. q - 1, x)
    BY <1>6, <2>1
  <2>3. f[i] = [m |-> g[i], c |-> c[q], k |-> s.k] /\ f[i + 1] = [m |-> g[i + 1], c |-> c[q + 1], k |-> s.k]
    BY <2>1
  <2> HIDE DEF f
  <2>4. X(f[i], i) = LET z == AdcSbb(op, Get(g[i], a, q), Operand(g[i], b, bn, q), c[q])
                     IN  [m |-> Put(g[i], r, q, z.x), c |-> z.c, k |-> s.k]
    <3> DEFINE u == f[i]
    <3>1. u.m = g[i] /\ u.c = c[q] /\ u.k = s.k
      BY <2>3
    <3> HIDE DEF u
    <3>2. X(u, i) = LET z == AdcSbb(op, Get(u.m, a, q), Operand(u.m, b, bn, q), u.c)
                    IN  [m |-> Put(u.m, r, q, z.x), c |-> z.c, k |-> u.k]
      OBVIOUS
    <3> HIDE DEF X
    <3>3. QED  BY <3>1, <3>2 DEF u
  <2> HIDE DEF X, q
  <2>5. Operand(g[i], b, bn, q) = y[q]
    <3>1. q \in 2 * k .. 2 * (k + w) - 1
      BY <1>0, <2>1
    <3>2. QED  BY <1>r, <2>1, <2>2, <3>1 DEF ReadsAs
  <2>6. Get(g[i], a, q) = Get(m, a, q)
    <3>1. 2 * n \in Nat
      OBVIOUS
    <3>2. QED  BY <1>r, <2>1, <2>2, <3>1, ReadBehind DEF SumOf
  <2>7. AdcSbb(op, Get(m, a, q), y[q], c[q]) = [x |-> x[q], c |-> c[q + 1]]
    BY <1>2, <2>1
  <2>8. g[i + 1] = Put(g[i], r, q, x[q])
    BY <1>5, <2>1
  <2>9. QED  BY <2>3, <2>4, <2>5, <2>6, <2>7, <2>8
<1>8. f[0] = s /\ f = [i \in 0 .. N |-> f[i]]
  <2>1. lo + 0 = 2 * k /\ 0 \in 0 .. N
    BY <1>0
  <2>2. f[0] = [m |-> s.m, c |-> s.c, k |-> s.k]
    BY <1>5, <1>r, <2>1
  <2> HIDE DEF f
  <2>3. f[0] = s
    BY <1>r, <2>2 DEF IsState
  <2>4. QED  BY <2>3 DEF f
<1>9. f[N] = [m |-> g[N], c |-> c[2 * (k + w)], k |-> s.k]
  <2>1. lo + N = 2 * (k + w) /\ N \in 0 .. N
    BY <1>0
  <2>2. QED  BY <2>1
<1>10. Stored(Limb, m, g[N], r, 0 .. 2 * (k + w) - 1, x)
  <2>1. lo + N = 2 * (k + w) /\ N \in 0 .. N
    BY <1>0
  <2>2. QED  BY <1>6, <2>1
<1> HIDE DEF f
<1> HIDE DEF X
<1> DEFINE Bodya(t, i) == X(t, i)
           Qa(h, i) == Given(h[i - 1], LAMBDA t : Bodya(t, i - 1))
           Eqa(h) == h = [i \in 0 .. N |-> IF i = 0 THEN s ELSE Qa(h, i)]
           Fa == CHOOSE h : Eqa(h)
<1>a1. Carried(s, r, a, b, bn, k, w, op) = Fa[N]
  BY DEF Carried, N, lo, X, Loop, Given
<1>a2. \A h, i : Qa(h, i) = Bodya(h[i - 1], i - 1)
  BY DEF Given
<1>a3. \A i \in 0 .. N - 1 : f[i + 1] = Bodya(f[i], i)
  BY <1>7
<1> HIDE DEF Bodya, Qa
<1>a4. Eqa(Fa)
  <2>1. ASSUME NEW i \in 0 .. N, i # 0 PROVE f[i] = Qa(f, i)
    <3>1. i - 1 \in 0 .. N - 1 /\ (i - 1) + 1 = i
      BY <2>1, <1>1
    <3>2. QED  BY <1>a2, <1>a3, <3>1
  <2>2. Eqa(f)
    BY <1>8, <2>1
  <2>3. QED  BY <2>2
<1> HIDE DEF Fa
<1>a5. Fa[N] = f[N]
  <2>1. Fa[0] = f[0]
    BY <1>8, <1>a4, <1>1
  <2>2. ASSUME NEW i \in 0 .. N - 1, Fa[i] = f[i] PROVE Fa[i + 1] = f[i + 1]
    <3>1. i + 1 \in 0 .. N /\ i + 1 # 0 /\ (i + 1) - 1 = i
      BY <1>1
    <3>2. Fa[i + 1] = Bodya(Fa[i], i)
      BY <1>1, <1>a2, <1>a4, <3>1, SMTT(30)
    <3>3. QED  BY <1>a3, <2>2, <3>2
  <2>3. QED  BY <1>1, <2>1, <2>2, SameEnd
<1>11. QED  BY <1>9, <1>10, <1>a1, <1>a5

\* A turn of the part that only carries on.
Onward(op, m, r, a, y, n, c, x, s, w) ==
    /\ SumOf(op, m, r, a, y, n, c, x) /\ Reached(m, s, r, n, c, x)
    /\ s.k + w =< n /\ \A i \in 2 * s.k .. 2 * n - 1 : y[i] = 0

\* So a turn goes on from one packet that was reached to the next.
LEMMA CarriedOn ==
    ASSUME NEW op, NEW m, NEW r, NEW a, NEW y, NEW n \in Nat, NEW c, NEW x, NEW s, NEW w \in Nat,
           Onward(op, m, r, a, y, n, c, x, s, w)
    PROVE  LET z == [Carried(s, r, a, a, 0, s.k, w, op) EXCEPT !.k = s.k + w]
           IN  Reached(m, z, r, n, c, x) /\ z.k = s.k + w
<1> DEFINE k == s.k
           z == [Carried(s, r, a, a, 0, k, w, op) EXCEPT !.k = k + w]
<1>1. IsState(s) /\ k \in 0 .. n /\ k \in Nat /\ s.c = c[2 * k] /\ Stored(Limb, m, s.m, r, 0 .. 2 * k - 1, x)
  BY DEF Reached, Onward
<1>0. /\ SumOf(op, m, r, a, y, n, c, x)
      /\ k + w =< n /\ k = s.k /\ \A i \in 2 * k .. 2 * n - 1 : y[i] = 0
  BY DEF Onward
<1> HIDE DEF k
<1>2. k \in Nat /\ k =< n /\ k + w =< n /\ k + w \in 0 .. n
  BY <1>0, <1>1
<1>3. ReadsAs(m, r, x, 2 * (k + w), y, 2 * k, a, 0)
  <2>1. ASSUME NEW t, NEW i \in 2 * k .. 2 * (k + w) - 1 PROVE Operand(t, a, 0, i) = y[i]
    <3>1. i \in 2 * k .. 2 * n - 1 /\ ~(i < 0)
      BY <1>2
    <3>2. 0 * PacketLimbs = 0
      BY PX86Assumption
    <3>3. QED  BY <1>0, <3>1, <3>2 DEF Operand
  <2>2. QED  BY <2>1 DEF ReadsAs
<1>4. PICK t : /\ Carried(s, r, a, a, 0, k, w, op) = [m |-> t, c |-> c[2 * (k + w)], k |-> s.k]
               /\ Stored(Limb, m, t, r, 0 .. 2 * (k + w) - 1, x)
  <2>1. Ahead(op, m, r, a, y, n, c, x, a, 0, k, w, s)
    BY <1>0, <1>1, <1>2, <1>3 DEF Ahead
  <2>2. QED  BY <1>2, <2>1, CarriedStores
<1>5. z = [m |-> t, c |-> c[2 * (k + w)], k |-> k + w]
  BY <1>0, <1>4
<1> HIDE DEF z
<1>6. IsState(z) /\ z.m = t /\ z.c = c[2 * (k + w)] /\ z.k = k + w
  BY <1>5 DEF IsState
<1>7. Reached(m, z, r, n, c, x)
  BY <1>2, <1>4, <1>6 DEF Reached
<1>8. QED  BY <1>6, <1>7 DEF k, z

\* It ends with the carry, or with the last packet.
LEMMA PropagateReaches ==
    ASSUME NEW op, NEW m, NEW r, NEW a, NEW y, NEW n \in Nat, NEW c, NEW x, SumOf(op, m, r, a, y, n, c, x),
           NEW s, Reached(m, s, r, n, c, x), \A i \in 2 * s.k .. 2 * n - 1 : y[i] = 0
    PROVE  LET z == Propagate(s, r, a, n, op)
           IN  Reached(m, z, r, n, c, x) /\ z.k >= s.k /\ (z.c = 0 \/ z.k = n)
<1> DEFINE k0 == s.k
           T == (n - k0) \div 2
           Z == [m : Memory(m), c : {0, 1}, k : 0 .. n]
           X(t, j) == IF t.c = 0 THEN t ELSE [Carried(t, r, a, a, 0, t.k, 2, op) EXCEPT !.k = t.k + 2]
           J(t, j) == Reached(m, t, r, n, c, x) /\ t.k >= k0 /\ (t.c = 0 \/ t.k = k0 + 2 * j)
           B == [j \in 0 .. T - 1 |-> [t \in Z |-> IF X(t, j) \in Z THEN X(t, j) ELSE t]]
<1>1. k0 \in 0 .. n /\ n - k0 \in Nat
  BY DEF Reached
<1> HIDE DEF k0
<1>2. T \in Nat /\ (n - k0 = 2 * T \/ n - k0 = 2 * T + 1)
  BY <1>1, Halves
<1> HIDE DEF T
<1>3. ASSUME NEW t, Reached(m, t, r, n, c, x) PROVE t \in Z
  <2>1. t = [m |-> t.m, c |-> t.c, k |-> t.k]
    BY <1>3 DEF Reached, IsState
  <2>2. t.m \in Memory(m)
    BY <1>3, LimbMemory DEF Reached, Stored
  <2>3. t.k \in 0 .. n
    BY <1>3 DEF Reached
  <2>4. t.c \in {0, 1}
    <3>1. t.c = c[2 * t.k] /\ c \in [0 .. 2 * n -> {0, 1}]
      BY <1>3 DEF Reached, SumOf, FlagTrace
    <3>2. 2 * t.k \in 0 .. 2 * n
      BY <2>3
    <3>3. QED  BY <3>1, <3>2
  <2> DEFINE tm == t.m
             tc == t.c
             tk == t.k
  <2>5. tm \in Memory(m) /\ tc \in {0, 1} /\ tk \in 0 .. n /\ t = [m |-> tm, c |-> tc, k |-> tk]
    BY <2>1, <2>2, <2>3, <2>4
  <2> HIDE DEF tm, tc, tk
  <2>6. QED  BY <2>5
<1> HIDE DEF Z
<1>4. ASSUME NEW j \in 0 .. T - 1, NEW t, J(t, j) PROVE J(X(t, j), j + 1)
  <2>0. t.k \in 0 .. n
    BY <1>4 DEF Reached
  <2>1. CASE t.c = 0
    BY <1>4, <2>1
  <2>2. CASE t.c # 0
    <3>1. t.k = k0 + 2 * j /\ t.k + 2 =< n
      BY <1>1, <1>2, <1>4, <2>0, <2>2
    <3>2. \A i \in 2 * t.k .. 2 * n - 1 : y[i] = 0
      <4>1. 2 * k0 =< 2 * t.k
        BY <1>1, <3>1
      <4>2. \A i \in 2 * k0 .. 2 * n - 1 : y[i] = 0
        BY DEF k0
      <4>3. QED  BY <1>1, <2>0, <4>1, <4>2
    <3> DEFINE z == [Carried(t, r, a, a, 0, t.k, 2, op) EXCEPT !.k = t.k + 2]
    <3>3. Reached(m, z, r, n, c, x) /\ z.k = t.k + 2
      <4>1. Onward(op, m, r, a, y, n, c, x, t, 2)
        BY <1>4, <3>1, <3>2 DEF Onward
      <4> HIDE DEF X, J, B
      <4>2. QED  BY <4>1, CarriedOn
    <3>4. X(t, j) = z
      BY <2>2
    <3> HIDE DEF z, X
    <3>5. z.k >= k0 /\ z.k = k0 + 2 * (j + 1)
      BY <1>1, <3>1, <3>3
    <3>6. QED  BY <3>3, <3>4, <3>5
  <2>3. QED  BY <2>1, <2>2
<1>5. J(s, 0)
  BY <1>1 DEF k0
<1> HIDE DEF X
<1>6. PICK f : Steps(Z, B, s, T, f)
  <2>1. s \in Z
    BY <1>3
  <2>2. \A j \in 0 .. T - 1 : B[j] \in [Z -> Z]
    OBVIOUS
  <2> HIDE DEF B
  <2>3. QED  BY <1>2, <2>1, <2>2, StepsExist
<1>7. /\ f \in [0 .. T -> Z] /\ f[0] = s
      /\ \A j \in 0 .. T - 1 : X(f[j], j) \in Z => f[j + 1] = X(f[j], j)
  <2>2. \A j \in 0 .. T - 1 : \A t \in Z : B[j][t] = IF X(t, j) \in Z THEN X(t, j) ELSE t
    OBVIOUS
  <2> HIDE DEF B, J
  <2>1. f \in [0 .. T -> Z] /\ f[0] = s /\ \A j \in 0 .. T - 1 : f[j] \in Z /\ f[j + 1] = B[j][f[j]]
    <3>1. f \in [0 .. T -> Z] /\ f[0] = s /\ \A j \in 0 .. T - 1 : f[j + 1] = B[j][f[j]]
      BY <1>6 DEF Steps
    <3>2. \A j \in 0 .. T - 1 : j \in 0 .. T
      BY <1>2
    <3>3. QED  BY <3>1, <3>2
  <2>3. QED  BY <2>1, <2>2
<1> HIDE DEF B, J
<1>8. ASSUME NEW j \in 0 .. T - 1, J(f[j], j) PROVE f[j + 1] = X(f[j], j) /\ J(f[j + 1], j + 1)
  <2>1. J(X(f[j], j), j + 1)
    BY <1>4, <1>8
  <2>2. X(f[j], j) \in Z
    BY <1>3, <2>1 DEF J
  <2>3. QED  BY <1>7, <2>1, <2>2
<1> DEFINE S == {j \in Nat : j =< T => J(f[j], j)}
<1>9. \A j \in Nat : j \in S
  <2>1. 0 \in S
    BY <1>5, <1>7
  <2>2. ASSUME NEW j \in Nat, j \in S PROVE j + 1 \in S
    <3>1. SUFFICES ASSUME j + 1 =< T PROVE J(f[j + 1], j + 1)
      OBVIOUS
    <3>2. j \in 0 .. T - 1 /\ J(f[j], j)
      BY <1>2, <2>2, <3>1
    <3>3. QED  BY <1>8, <3>2
  <2> HIDE DEF S
  <2>3. QED  BY <2>1, <2>2, UpInduct
<1>10. \A j \in 0 .. T : J(f[j], j)
  BY <1>2, <1>9
<1> HIDE DEF S
<1> DEFINE twos == Loop(T, s, LAMBDA t, j : X(t, j))
<1> HIDE DEF twos
<1> DEFINE Bodya(t, i) == X(t, i)
           Qa(h, i) == Given(h[i - 1], LAMBDA t : Bodya(t, i - 1))
           Eqa(h) == h = [i \in 0 .. T |-> IF i = 0 THEN s ELSE Qa(h, i)]
           Fa == CHOOSE h : Eqa(h)
<1>a1. twos = Fa[T]
  BY DEF twos, Loop, Given
<1>a2. \A h, i : Qa(h, i) = Bodya(h[i - 1], i - 1)
  BY DEF Given
<1>a3. \A i \in 0 .. T - 1 : f[i + 1] = Bodya(f[i], i)
  <2>1. \A i \in 0 .. T - 1 : i \in 0 .. T
    BY <1>2
  <2>2. QED  BY <1>8, <1>10, <2>1
<1>a0. f[0] = s /\ f = [j \in 0 .. T |-> f[j]]
  BY <1>7
<1> HIDE DEF Bodya, Qa
<1>a4. Eqa(Fa)
  <2>1. ASSUME NEW i \in 0 .. T, i # 0 PROVE f[i] = Qa(f, i)
    <3>1. i - 1 \in 0 .. T - 1 /\ (i - 1) + 1 = i
      BY <2>1, <1>2
    <3>2. QED  BY <1>a2, <1>a3, <3>1
  <2>2. Eqa(f)
    BY <1>a0, <2>1
  <2>3. QED  BY <2>2
<1> HIDE DEF Fa
<1>a5. Fa[T] = f[T]
  <2>1. Fa[0] = f[0]
    BY <1>a0, <1>a4, <1>2
  <2>2. ASSUME NEW i \in 0 .. T - 1, Fa[i] = f[i] PROVE Fa[i + 1] = f[i + 1]
    <3>1. i + 1 \in 0 .. T /\ i + 1 # 0 /\ (i + 1) - 1 = i
      BY <1>2
    <3>2. Fa[i + 1] = Bodya(Fa[i], i)
      BY <1>2, <1>a2, <1>a4, <3>1
    <3>3. QED  BY <1>a3, <2>2, <3>2
  <2>3. QED  BY <1>2, <2>1, <2>2, SameEnd
<1> DEFINE one == [Carried(twos, r, a, a, 0, twos.k, 1, op) EXCEPT !.k = n]
           p == Propagate(s, r, a, n, op)
<1>11. p = IF OneLeft(twos, n - twos.k) THEN one ELSE twos
  BY DEF Propagate, twos, T, k0, X
<1>12. Reached(m, twos, r, n, c, x) /\ twos.k >= k0 /\ (twos.c = 0 \/ twos.k = k0 + 2 * T)
  <2>1. J(f[T], T)
    BY <1>2, <1>10
  <2>2. QED  BY <2>1, <1>a1, <1>a5 DEF J
<1>13. twos.k \in 0 .. n
  BY <1>12 DEF Reached
<1>14. CASE OneLeft(twos, n - twos.k)
  <2>1. twos.k + 1 = n
    BY <1>13, <1>14 DEF OneLeft
  <2>2. \A i \in 2 * twos.k .. 2 * n - 1 : y[i] = 0
    <3>1. 2 * k0 =< 2 * twos.k
      BY <1>1, <1>12, <1>13
    <3>2. \A i \in 2 * k0 .. 2 * n - 1 : y[i] = 0
      BY DEF k0
    <3>3. QED  BY <1>1, <1>13, <3>1, <3>2
  <2> DEFINE z == [Carried(twos, r, a, a, 0, twos.k, 1, op) EXCEPT !.k = twos.k + 1]
  <2>3. Reached(m, z, r, n, c, x) /\ z.k = twos.k + 1
    <3>1. Onward(op, m, r, a, y, n, c, x, twos, 1)
      BY <1>12, <1>13, <2>1, <2>2 DEF Onward
    <3> HIDE DEF one, p
    <3>2. QED  BY <3>1, CarriedOn
  <2>4. z = p
    BY <1>11, <1>14, <2>1
  <2> HIDE DEF z, p
  <2>5. QED  BY <1>1, <2>1, <2>3, <2>4 DEF p, k0
<1>15. CASE ~OneLeft(twos, n - twos.k)
  <2>1. twos.c = 0 \/ twos.k = n
    <3>1. twos.c \in {0, 1}
      <4>1. twos.c = c[2 * twos.k] /\ c \in [0 .. 2 * n -> {0, 1}]
        BY <1>12 DEF Reached, SumOf, FlagTrace
      <4>2. 2 * twos.k \in 0 .. 2 * n
        BY <1>13
      <4>3. QED  BY <4>1, <4>2
    <3>2. CASE twos.c = 1
      <4>1. n - twos.k # 1 /\ twos.k = k0 + 2 * T
        BY <1>12, <1>15, <3>2 DEF OneLeft
      <4>2. QED  BY <1>1, <1>2, <1>13, <4>1
    <3>3. QED  BY <3>1, <3>2
  <2>2. p = twos
    BY <1>11, <1>15
  <2>3. QED  BY <1>12, <2>1, <2>2 DEF k0
<1>16. QED  BY <1>14, <1>15

\* Without a carry, limbs stay as they are.
LEMMA NoCarry ==
    ASSUME NEW op, op \in {"adc", "sbb"}, NEW g \in Limb
    PROVE  AdcSbb(op, g, 0, 0) = [x |-> g, c |-> 0]
<1>1. 0 \in Limb /\ 0 \in {0, 1} /\ Base \in Int /\ g \in Int
  BY BaseFacts, LimbNumber
<1>2. g + Base * 0 = g + 0 + 0 /\ g - Base * 0 = g - 0 - 0
  BY <1>1
<1>3. AdcSbb("adc", g, 0, 0) = [x |-> g, c |-> 0]
  BY <1>1, <1>2, AdcIs
<1>4. AdcSbb("sbb", g, 0, 0) = [x |-> g, c |-> 0]
  BY <1>1, <1>2, SbbIs
<1>5. QED  BY <1>3, <1>4

\* Without a carry, and with zeros in one operand, the limbs are those of the other.
LEMMA Unchanged ==
    ASSUME NEW op, op \in {"adc", "sbb"}, NEW m, NEW a, NEW y, NEW N \in Nat, NEW c, NEW x,
           FlagTrace(op, m, a, y, N, c, x), NEW lo \in 0 .. N, c[lo] = 0, \A i \in lo .. N - 1 : y[i] = 0
    PROVE  c[N] = 0 /\ \A i \in lo .. N - 1 : x[i] = Get(m, a, i)
<1> DEFINE S == {i \in Nat : lo =< i /\ i =< N => c[i] = 0}
<1>1. ASSUME NEW i \in lo .. N - 1, c[i] = 0 PROVE c[i + 1] = 0 /\ x[i] = Get(m, a, i)
  <2>1. i \in 0 .. N - 1
    OBVIOUS
  <2>2. Get(m, a, i) \in Limb /\ AdcSbb(op, Get(m, a, i), y[i], c[i]) = [x |-> x[i], c |-> c[i + 1]]
    BY <2>1 DEF FlagTrace
  <2>3. AdcSbb(op, Get(m, a, i), 0, 0) = [x |-> Get(m, a, i), c |-> 0]
    BY <2>2, NoCarry
  <2>4. [x |-> x[i], c |-> c[i + 1]] = [x |-> Get(m, a, i), c |-> 0]
    BY <1>1, <2>2, <2>3
  <2>5. QED  BY <2>4
<1>2. 0 \in S
  OBVIOUS
<1>3. ASSUME NEW i \in Nat, i \in S PROVE i + 1 \in S
  <2>1. SUFFICES ASSUME lo =< i + 1, i + 1 =< N PROVE c[i + 1] = 0
    OBVIOUS
  <2>2. CASE i + 1 = lo
    BY <2>2
  <2>3. CASE i + 1 # lo
    <3>1. i \in lo .. N - 1 /\ c[i] = 0
      BY <1>3, <2>1, <2>3
    <3>2. QED  BY <1>1, <3>1
  <2>4. QED  BY <2>2, <2>3
<1> HIDE DEF S
<1>4. \A i \in Nat : i \in S
  BY <1>2, <1>3, UpInduct
<1>5. c[N] = 0 /\ \A i \in lo .. N - 1 : c[i] = 0
  BY <1>4 DEF S
<1>6. QED  BY <1>1, <1>5

\* Limbs stored behind limbs.
InTwo(m, t, u, r, q, p, N, x, z) ==
    /\ r.at \in Nat /\ p \in Nat /\ N \in Nat /\ p =< N /\ q.buf = r.buf /\ q.at = r.at + p
    /\ Stored(Limb, m, t, r, 0 .. p - 1, x) /\ Stored(Limb, t, u, q, 0 .. (N - p) - 1, z)
    /\ \A i \in 0 .. (N - p) - 1 : z[i] = x[p + i]

\* Limbs stored in two parts, below and from a limb on, are all stored.
LEMMA StoredAfter ==
    ASSUME NEW m, NEW t, NEW u, NEW r, NEW q, NEW p, NEW N, NEW x, NEW z, InTwo(m, t, u, r, q, p, N, x, z)
    PROVE  Stored(Limb, m, u, r, 0 .. N - 1, x)
<1>0. /\ r.at \in Nat /\ p \in Nat /\ N \in Nat /\ p =< N /\ q.buf = r.buf /\ q.at = r.at + p
      /\ Stored(Limb, m, t, r, 0 .. p - 1, x) /\ Stored(Limb, t, u, q, 0 .. (N - p) - 1, z)
      /\ \A i \in 0 .. (N - p) - 1 : z[i] = x[p + i]
  BY DEF InTwo
<1>1. t \in MemoryIn(Limb, m) /\ u \in MemoryIn(Limb, t)
  BY <1>0 DEF Stored
<1>2. DOMAIN t = DOMAIN m /\ \A b \in DOMAIN m : DOMAIN t[b] = DOMAIN m[b]
  BY <1>1 DEF MemoryIn
<1>3. u \in MemoryIn(Limb, m)
  <2>1. \A b \in DOMAIN m : u[b] \in [DOMAIN m[b] -> Limb]
    BY <1>1, <1>2 DEF MemoryIn
  <2>2. DOMAIN u = DOMAIN m /\ u = [b \in DOMAIN m |-> u[b]]
    BY <1>1, <1>2 DEF MemoryIn
  <2>3. QED  BY <2>1, <2>2 DEF MemoryIn
<1>4. ASSUME NEW b \in DOMAIN m, NEW k \in DOMAIN m[b]
      PROVE  u[b][k] = IF b = r.buf /\ k \in Int /\ k - r.at \in 0 .. N - 1 THEN x[k - r.at] ELSE m[b][k]
  <2>1. t[b][k] = IF b = r.buf /\ k \in Int /\ k - r.at \in 0 .. p - 1 THEN x[k - r.at] ELSE m[b][k]
    BY <1>0 DEF Stored
  <2>2. u[b][k] = IF b = q.buf /\ k \in Int /\ k - q.at \in 0 .. (N - p) - 1 THEN z[k - q.at] ELSE t[b][k]
    BY <1>0, <1>2 DEF Stored
  <2>3. CASE b = r.buf /\ k \in Int /\ k - r.at \in p .. N - 1
    <3>1. k - q.at \in 0 .. (N - p) - 1 /\ p + (k - q.at) = k - r.at /\ k - r.at \in 0 .. N - 1
      <4> DEFINE d == r.at
                 e == q.at
      <4>1. d \in Nat /\ e = d + p /\ k \in Int /\ k - d \in p .. N - 1 /\ p \in Nat /\ N \in Nat
        BY <1>0, <2>3
      <4> HIDE DEF d, e
      <4>2. k - e \in 0 .. (N - p) - 1 /\ p + (k - e) = k - d /\ k - d \in 0 .. N - 1
        BY <4>1
      <4>3. QED  BY <4>2 DEF d, e
    <3>2. z[k - q.at] = x[k - r.at]
      BY <1>0, <3>1
    <3>3. QED  BY <1>0, <2>2, <2>3, <3>1, <3>2
  <2>4. CASE ~(b = r.buf /\ k \in Int /\ k - r.at \in p .. N - 1)
    <3>1. ~(b = q.buf /\ k \in Int /\ k - q.at \in 0 .. (N - p) - 1)
      BY <1>0, <2>4, SMTT(30)
    <3>2. k \in Int => (k - r.at \in 0 .. p - 1 <=> k - r.at \in 0 .. N - 1) \/ b # r.buf
      BY <1>0, <2>4
    <3>3. QED  BY <2>1, <2>2, <3>1, <3>2
  <2>5. QED  BY <2>3, <2>4
<1>5. QED  BY <1>3, <1>4 DEF Stored

\* hebi_pcopy of n packets stores the limbs there are.
LEMMA CopyStores ==
    ASSUME NEW m, IsMemory(m), NEW r, r.at \in Nat, NEW a, NEW n \in Nat, NEW N \in Nat, N = 2 * n,
           \A i \in 0 .. N - 1 : HasLimb(m, r, i), Readable(m, r, a, N),
           NEW x, \A i \in 0 .. N - 1 : x[i] = Get(m, a, i)
    PROVE  Stored(Limb, m, PCOPY128(m, r, a, n), r, 0 .. N - 1, x)
<1>1. m \in MemoryIn(Limb, m)
  BY LimbMemory DEF IsMemory
<1>2. \A i \in 0 .. N - 1 : HasLimb(m, r, i) /\ x[i] \in Limb
  BY LimbThere DEF Readable
<1> DEFINE op == "copy"
<1>3. op \in Op /\ Operands(op, m, r, a, a, N) /\ \A i \in 0 .. N - 1 : x[i] = Limbwise(op, m, a, a, i)
  BY DEF Op, Operands, Limbwise
<1>4. PCOPY128(m, r, a, n) = Unrolled(op, m, r, a, a, n)
  BY DEF PCOPY128
<1> HIDE DEF op
<1>5. Follow(Limb, m, r, N, x, op, a, a)
  BY <1>3, OperandsFollow
<1>6. QED  BY <1>1, <1>2, <1>4, <1>5, UnrolledStores

\* The sum z that the x86-64 kernel has before it jumps, and s of the portable one:
\* the same, or hebi_pcopy makes them the same and there is no carry; in place,
\* nothing is left to copy.
Finished(z, s, r, a, n) ==
    /\ z.k = n => z.m = s.m /\ z.c = s.c
    /\ z.k # n => s.c = 0 /\ z.c = 0 /\ z.k \in 0 .. n - 1
                  /\ PCOPY128(z.m, Skip(r, z.k), Skip(a, z.k), n - z.k) = s.m
    /\ r = a => z.m = s.m /\ z.c = s.c

\* A sum that has no carry, or nothing left, is finished by a copy of what is left.
LEMMA SumFinished ==
    ASSUME NEW op, op \in {"adc", "sbb"}, NEW m, IsMemory(m), NEW r, NEW a, NEW y, NEW n \in Nat, NEW c, NEW x,
           SumOf(op, m, r, a, y, n, c, x),
           NEW s, Stored(Limb, m, s.m, r, 0 .. 2 * n - 1, x), s.c = c[2 * n],
           NEW z, Reached(m, z, r, n, c, x), z.c = 0 \/ z.k = n, \A i \in 2 * z.k .. 2 * n - 1 : y[i] = 0
    PROVE  Finished(z, s, r, a, n)
<1> DEFINE k == z.k
           N == 2 * n
           lo == 2 * k
           q == n - k
           R == Skip(r, k)
           A == Skip(a, k)
<1>1. /\ k \in 0 .. n /\ z.c = c[2 * k] /\ Stored(Limb, m, z.m, r, 0 .. lo - 1, x)
  BY DEF Reached
<1>2. /\ FlagTrace(op, m, a, y, N, c, x) /\ \A i \in 0 .. N - 1 : HasLimb(m, r, i) /\ HasLimb(m, a, i)
      /\ r.at \in Nat /\ Readable(m, r, a, N)
  BY DEF SumOf, Readable
<1>3. (\A i \in lo .. N - 1 : y[i] = 0) /\ s.c = c[N] /\ Stored(Limb, m, s.m, r, 0 .. N - 1, x)
  OBVIOUS
<1>4. /\ N \in Nat /\ lo \in 0 .. N /\ q \in Nat /\ N - lo = 2 * q /\ lo \in Nat /\ (k = n <=> lo = N)
      /\ N = lo + 2 * q
  <2>1. k \in Int /\ 0 =< k /\ k =< n
    BY <1>1
  <2> HIDE DEF k
  <2>2. QED  BY <2>1
<1>5. c[lo] = z.c
  BY <1>1
<1> HIDE DEF k, N, lo, q
<1>6. CASE k = n
  <2>1. z.m = s.m /\ z.c = s.c
    <3>1. lo = N
      BY <1>4, <1>6
    <3>2. Stored(Limb, m, z.m, r, 0 .. N - 1, x)
      BY <1>1, <3>1
    <3>3. z.m = s.m
      BY <1>3, <3>2, StoredSame
    <3>4. QED  BY <1>3, <1>5, <3>1, <3>3
  <2>2. QED  BY <1>6, <2>1 DEF Finished, k
<1>7. CASE k # n
  <2>1. c[lo] = 0
    BY <1>5, <1>7 DEF k
  <2>2. c[N] = 0 /\ \A i \in lo .. N - 1 : x[i] = Get(m, a, i)
    BY <1>2, <1>3, <1>4, <2>1, Unchanged
  <2>3. k \in 0 .. n - 1 /\ lo < N /\ a.at \in Nat
    <3>1. k \in 0 .. n - 1 /\ lo < N
      BY <1>1, <1>4, <1>7
    <3>2. HasLimb(m, a, lo)
      BY <1>2, <1>4, <3>1
    <3>3. QED  BY <3>1, <3>2 DEF HasLimb
  <2>4. R.buf = r.buf /\ R.at = r.at + lo /\ A.buf = a.buf /\ A.at = a.at + lo
    <3>1. k * PacketLimbs = lo
      BY <1>1, PX86Assumption DEF lo
    <3>2. QED  BY <1>2, <2>3, <3>1 DEF Skip
  <2> DEFINE x1 == [i \in 0 .. 2 * q - 1 |-> x[lo + i]]
             t == z.m
             u == PCOPY128(t, R, A, q)
  <2> HIDE DEF R, A, t
  <2>5. t \in Memory(m) /\ DOMAIN t = DOMAIN m /\ \A b \in DOMAIN m : DOMAIN t[b] = DOMAIN m[b]
    BY <1>1, LimbMemory DEF Stored, Memory, t
  <2>6. IsMemory(t)
    <3>1. \A b \in DOMAIN t : t[b] \in [DOMAIN t[b] -> Limb]
      BY <2>5 DEF Memory
    <3>2. t = [b \in DOMAIN t |-> t[b]]
      BY <2>5 DEF Memory
    <3>3. QED  BY <3>1, <3>2 DEF IsMemory, Memory
  <2>7. ASSUME NEW i \in 0 .. 2 * q - 1
        PROVE  /\ HasLimb(t, R, i) /\ HasLimb(t, A, i)
               /\ Get(t, A, i) = x1[i] /\ x1[i] = x[lo + i]
    <3>1. lo + i \in lo .. N - 1 /\ lo + i \in 0 .. N - 1 /\ lo \in 0 .. lo + i /\ i \in Nat
      <4>1. i \in Int /\ 0 =< i /\ i < 2 * q /\ lo \in Int /\ 0 =< lo
        BY <1>4
      <4>2. QED  BY <1>4, <4>1
    <3>2. HasLimb(m, r, lo + i) /\ HasLimb(m, a, lo + i)
      BY <1>2, <3>1
    <3>3. R.at + i = r.at + (lo + i) /\ A.at + i = a.at + (lo + i) /\ R.at \in Nat /\ A.at \in Nat
      <4> DEFINE d == r.at
                 e == a.at
      <4>1. d \in Nat /\ e \in Nat /\ lo \in Nat /\ i \in Nat
        BY <1>2, <1>4, <2>3
      <4> HIDE DEF d, e
      <4>2. (d + lo) + i = d + (lo + i) /\ (e + lo) + i = e + (lo + i) /\ d + lo \in Nat /\ e + lo \in Nat
        BY <4>1
      <4>3. QED  BY <2>4, <4>2 DEF d, e
    <3>4. HasLimb(t, R, i) /\ HasLimb(t, A, i)
      BY <2>4, <2>5, <3>1, <3>2, <3>3 DEF HasLimb
    <3>5. Get(t, A, i) = Get(t, a, lo + i)
      BY <2>4, <3>3 DEF Get
    <3>6. Get(t, a, lo + i) = Get(m, a, lo + i)
      BY <1>1, <1>2, <1>4, <3>1, ReadBehind DEF t
    <3>7. Get(m, a, lo + i) = x[lo + i]
      BY <2>2, <3>1
    <3>8. QED  BY <3>4, <3>5, <3>6, <3>7
  <2> HIDE DEF x1
  <2>8. Readable(t, R, A, 2 * q)
    <3>1. Follows(R, A, 2 * q)
      <4>1. r.buf # a.buf \/ r.at =< a.at \/ a.at + N =< r.at
        BY <1>2 DEF Readable, Follows
      <4>2. r.at =< a.at => R.at =< A.at
        BY <1>2, <1>4, <2>3, <2>4
      <4>3. a.at + N =< r.at => A.at + 2 * q =< R.at
        <5> DEFINE d == r.at
                   e == a.at
        <5>1. d \in Nat /\ e \in Nat
          BY <1>2, <2>3
        <5> HIDE DEF d, e
        <5>2. e + N =< d => (e + lo) + 2 * q =< d + lo
          BY <1>4, <5>1
        <5>3. QED  BY <2>4, <5>2 DEF d, e
      <4>4. QED  BY <2>4, <4>1, <4>2, <4>3 DEF Follows
    <3>2. QED  BY <2>7, <3>1 DEF Readable
  <2>9. Stored(Limb, t, u, R, 0 .. 2 * q - 1, x1)
    <3>1. 2 * q \in Nat /\ R.at \in Nat
      BY <1>2, <1>4, <2>4
    <3>2. \A i \in 0 .. 2 * q - 1 : HasLimb(t, R, i) /\ x1[i] = Get(t, A, i)
      BY <2>7
    <3>3. QED  BY <1>4, <2>6, <2>8, <3>1, <3>2, CopyStores
  <2>10. Stored(Limb, m, u, r, 0 .. N - 1, x)
    <3>1. Stored(Limb, m, t, r, 0 .. lo - 1, x)
      BY <1>1 DEF t
    <3>2. Stored(Limb, t, u, R, 0 .. (N - lo) - 1, x1) /\ \A i \in 0 .. (N - lo) - 1 : x1[i] = x[lo + i]
      BY <1>4, <2>7, <2>9
    <3>3. lo =< N
      BY <1>4
    <3> HIDE DEF u
    <3>4. InTwo(m, t, u, r, R, lo, N, x, x1)
      BY <1>2, <1>4, <2>4, <3>1, <3>2, <3>3 DEF InTwo
    <3>5. QED  BY <3>4, StoredAfter
  <2>11. u = s.m
    BY <1>3, <2>10, StoredSame
  <2>12. r = a => t = s.m
    <3>1. SUFFICES ASSUME r = a PROVE t = s.m
      OBVIOUS
    <3>2. ASSUME NEW b \in DOMAIN m, NEW j \in DOMAIN m[b] PROVE t[b][j] = s.m[b][j]
      <4>1. t[b][j] = IF b = r.buf /\ j \in Int /\ j - r.at \in 0 .. lo - 1 THEN x[j - r.at] ELSE m[b][j]
        BY <1>1 DEF Stored, t
      <4>2. s.m[b][j] = IF b = r.buf /\ j \in Int /\ j - r.at \in 0 .. N - 1 THEN x[j - r.at] ELSE m[b][j]
        BY <1>3 DEF Stored
      <4>3. CASE b = r.buf /\ j \in Int /\ j - r.at \in lo .. N - 1
        <5>1. x[j - r.at] = Get(m, a, j - r.at)
          BY <2>2, <4>3
        <5>2. Get(m, a, j - r.at) = m[b][j]
          <6>1. a.at + (j - r.at) = j
            BY <1>2, <3>1, <4>3
          <6>2. QED  BY <3>1, <4>3, <6>1 DEF Get
        <5>3. j - r.at \notin 0 .. lo - 1 /\ j - r.at \in 0 .. N - 1
          <6> DEFINE e == j - r.at
          <6>1. e \in lo .. N - 1
            BY <4>3
          <6> HIDE DEF e
          <6>2. e \notin 0 .. lo - 1 /\ e \in 0 .. N - 1
            BY <1>4, <6>1
          <6>3. QED  BY <6>2 DEF e
        <5>4. QED  BY <4>1, <4>2, <5>1, <5>2, <5>3
      <4>4. CASE ~(b = r.buf /\ j \in Int /\ j - r.at \in lo .. N - 1)
        <5>1. b = r.buf /\ j \in Int => (j - r.at \in 0 .. lo - 1 <=> j - r.at \in 0 .. N - 1)
          BY <1>2, <1>4, <4>4
        <5>2. QED  BY <4>1, <4>2, <5>1
      <4>5. QED  BY <4>3, <4>4
    <3>3. s.m \in Memory(m)
      BY <1>3, LimbMemory DEF Stored
    <3>4. \A b \in DOMAIN m : t[b] \in [DOMAIN m[b] -> Limb] /\ s.m[b] \in [DOMAIN m[b] -> Limb]
      BY <2>5, <3>3 DEF Memory
    <3>5. \A b \in DOMAIN m : t[b] = s.m[b]
      BY <3>2, <3>4
    <3>6. t = [b \in DOMAIN m |-> t[b]] /\ s.m = [b \in DOMAIN m |-> s.m[b]]
      BY <2>5, <3>3 DEF Memory
    <3>7. QED  BY <3>5, <3>6
  <2>13. s.c = 0 /\ z.c = 0
    BY <1>3, <1>5, <2>1, <2>2
  <2>14. QED  BY <1>7, <2>3, <2>11, <2>12, <2>13 DEF Finished, R, A, k, q, t
<1>8. QED  BY <1>6, <1>7

\* What the sums have: two operands of a memory of limbs, neither behind the result.
Summands(m, r, a, b, n, bn) ==
    /\ IsMemory(m) /\ n \in Nat /\ bn \in 0 .. n
    /\ Area(m, r, 2 * n) /\ Area(m, a, 2 * n) /\ Area(m, b, 2 * bn)
    /\ Follows(r, a, 2 * n) /\ Follows(r, b, 2 * bn)

\* The portable kernel of the instruction.
SumOrDifference(op, m, r, a, b, n, bn) ==
    IF op = "adc" THEN padd(m, r, a, b, n, bn) ELSE psub(m, r, a, b, n, bn)

\* hebi_padd and hebi_psub: two packets a turn and the flag give the sum of the portable
\* loop, and what is left is copied; hebi_padda and hebi_psuba leave nothing to copy.
THEOREM SumSame ==
    ASSUME NEW op \in {"adc", "sbb"}, NEW m, NEW r, NEW a, NEW b, NEW n, NEW bn, Summands(m, r, a, b, n, bn)
    PROVE  /\ Finished(PADDSUB(m, r, a, b, n, bn, op), SumOrDifference(op, m, r, a, b, n, bn), r, a, n)
           /\ PADDSUB(m, r, a, b, n, bn, op).k \in 0 .. n
<1> DEFINE s == SumOrDifference(op, m, r, a, b, n, bn)
           y == Extended(m, b, bn, 2 * n)
<1>1. /\ IsMemory(m) /\ n \in Nat /\ bn \in 0 .. n /\ bn \in Nat /\ bn =< n
      /\ Area(m, r, 2 * n) /\ Area(m, a, 2 * n) /\ Area(m, b, 2 * bn)
      /\ Follows(r, a, 2 * n) /\ Follows(r, b, 2 * bn) /\ 2 * n \in Nat /\ 2 * bn \in Nat
  BY DEF Summands
<1>2. FlagResult(op, m, s, r, a, y, 2 * n)
  <2>1. CASE op = "adc"
    <3>1. s = padd(m, r, a, b, n, bn)
      BY <2>1 DEF SumOrDifference
    <3> HIDE DEF s, y
    <3>2. QED  BY <1>1, <2>1, <3>1, PaddFlags DEF y
  <2>2. CASE op = "sbb"
    <3>1. s = psub(m, r, a, b, n, bn)
      BY <2>2 DEF SumOrDifference
    <3> HIDE DEF s, y
    <3>2. QED  BY <1>1, <2>2, <3>1, PsubFlags DEF y
  <2>3. QED  BY <2>1, <2>2
<1> HIDE DEF s, y
<1>3. PICK c, x : FlagTrace(op, m, a, y, 2 * n, c, x) /\ Stored(Limb, m, s.m, r, 0 .. 2 * n - 1, x) /\ s.c = c[2 * n]
  BY <1>2 DEF FlagResult
<1>4. r.at \in Nat /\ (\A i \in 0 .. 2 * n - 1 : HasLimb(m, r, i) /\ HasLimb(m, a, i))
      /\ \A i \in 0 .. 2 * bn - 1 : HasLimb(m, b, i)
  BY <1>1, AreaLimbs
<1>5. SumOf(op, m, r, a, y, n, c, x)
  BY <1>1, <1>3, <1>4 DEF SumOf, Readable
<1> DEFINE s0 == [m |-> m, c |-> 0, k |-> bn]
           both == Carried(s0, r, a, b, bn, 0, bn, op)
           z == PADDSUB(m, r, a, b, n, bn, op)
<1>6. ReadsAs(m, r, x, 2 * bn, y, 0, b, bn)
  <2>1. ASSUME NEW t, NEW i \in 0 .. 2 * bn - 1, NEW k \in 0 .. i, Stored(Limb, m, t, r, 0 .. k - 1, x)
        PROVE  Operand(t, b, bn, i) = y[i]
    <3>1. Get(t, b, i) = Get(m, b, i)
      <4>1. Readable(m, r, b, 2 * bn)
        BY <1>1, <1>4 DEF Readable
      <4>2. QED  BY <1>1, <1>4, <2>1, <4>1, ReadBehind
    <3>2. Operand(t, b, bn, i) = Operand(m, b, bn, i)
      BY <3>1 DEF Operand
    <3>3. i \in 0 .. 2 * n - 1
      BY <1>1
    <3>4. y[i] = Operand(m, b, bn, i)
      BY <3>3 DEF y, Extended
    <3>5. QED  BY <3>2, <3>4
  <2>2. QED  BY <2>1 DEF ReadsAs
<1>7. PICK t : /\ both = [m |-> t, c |-> c[2 * (0 + bn)], k |-> s0.k]
               /\ Stored(Limb, m, t, r, 0 .. 2 * (0 + bn) - 1, x)
  <2>1. Stored(Limb, m, m, r, 0 .. 2 * 0 - 1, x)
    <3>1. 0 .. 2 * 0 - 1 = {}
      OBVIOUS
    <3>2. m \in MemoryIn(Limb, m)
      BY <1>1, LimbMemory DEF IsMemory
    <3>3. QED  BY <3>1, <3>2, StoredNone
  <2>2. c[2 * 0] = 0
    BY <1>3 DEF FlagTrace
  <2>3. IsState(s0) /\ s0.m = m /\ s0.c = 0
    BY DEF IsState
  <2> HIDE DEF s0
  <2>4. 0 + bn =< n /\ 2 * (0 + bn) = 2 * bn /\ 2 * 0 = 0
    BY <1>1
  <2>5. Ahead(op, m, r, a, y, n, c, x, b, bn, 0, bn, s0)
    BY <1>5, <1>6, <2>1, <2>2, <2>3, <2>4 DEF Ahead
  <2>6. QED  BY <1>1, <2>5, CarriedStores
<1>8. Reached(m, both, r, n, c, x) /\ both.k = bn
  <2>1. both.k = bn /\ both.c = c[2 * bn] /\ both.m = t /\ IsState(both) /\ 2 * (0 + bn) = 2 * bn
    BY <1>1, <1>7 DEF IsState
  <2> HIDE DEF both
  <2>2. QED  BY <1>1, <1>7, <2>1 DEF Reached
<1>9. z = Propagate(both, r, a, n, op)
  BY DEF PADDSUB
<1> HIDE DEF both, z
<1>10. \A i \in 2 * bn .. 2 * n - 1 : y[i] = 0
  <2>1. ASSUME NEW i \in 2 * bn .. 2 * n - 1 PROVE y[i] = 0
    <3>1. i \in 0 .. 2 * n - 1 /\ ~(i < bn * 2)
      BY <1>1
    <3>2. y[i] = Operand(m, b, bn, i)
      BY <3>1 DEF y, Extended
    <3>3. QED  BY <3>1, <3>2, PX86Assumption DEF Operand
  <2>2. QED  BY <2>1
<1>11. Reached(m, z, r, n, c, x) /\ z.k >= bn /\ (z.c = 0 \/ z.k = n)
  BY <1>1, <1>5, <1>8, <1>9, <1>10, PropagateReaches
<1>12. z.k \in 0 .. n
  BY <1>11 DEF Reached
<1>13. \A i \in 2 * z.k .. 2 * n - 1 : y[i] = 0
  <2>1. 2 * bn =< 2 * z.k
    BY <1>1, <1>11, <1>12
  <2>2. QED  BY <1>1, <1>10, <1>12, <2>1
<1>14. Finished(z, s, r, a, n)
  BY <1>1, <1>3, <1>5, <1>11, <1>13, SumFinished
<1>15. QED  BY <1>12, <1>14 DEF z, s

\* The portable kernel of the instruction, with a word.
WordSumOrDifference(op, m, r, a, w, n) ==
    IF op = "adc" THEN paddu(m, r, a, w, n) ELSE psubu(m, r, a, w, n)

\* hebi_paddu and hebi_psubu: the word goes to the first quadword, and the flag on.
THEOREM WordSumSame ==
    ASSUME NEW op \in {"adc", "sbb"}, NEW m, IsMemory(m), NEW r, NEW a, NEW n \in Nat, n > 0, NEW w \in Limb,
           Area(m, r, 2 * n), Area(m, a, 2 * n), Follows(r, a, 2 * n)
    PROVE  /\ Finished(PADDSUBU(m, r, a, w, n, op), WordSumOrDifference(op, m, r, a, w, n), r, a, n)
           /\ PADDSUBU(m, r, a, w, n, op).k \in 0 .. n
<1> DEFINE s == WordSumOrDifference(op, m, r, a, w, n)
           y == WordAlone(w, 2 * n)
<1>1. 2 * n \in Nat /\ IsMemory(m) /\ Follows(r, a, 2 * n) /\ 0 \in 0 .. 2 * n - 1 /\ 1 \in 0 .. 2 * n - 1
  OBVIOUS
<1>2. FlagResult(op, m, s, r, a, y, 2 * n)
  <2>1. CASE op = "adc"
    <3>1. s = paddu(m, r, a, w, n)
      BY <2>1 DEF WordSumOrDifference
    <3> HIDE DEF s, y
    <3>2. QED  BY <1>1, <2>1, <3>1, PadduFlags DEF y
  <2>2. CASE op = "sbb"
    <3>1. s = psubu(m, r, a, w, n)
      BY <2>2 DEF WordSumOrDifference
    <3> HIDE DEF s, y
    <3>2. QED  BY <1>1, <2>2, <3>1, PsubuFlags DEF y
  <2>3. QED  BY <2>1, <2>2
<1> HIDE DEF s, y
<1>3. PICK c, x : FlagTrace(op, m, a, y, 2 * n, c, x) /\ Stored(Limb, m, s.m, r, 0 .. 2 * n - 1, x) /\ s.c = c[2 * n]
  BY <1>2 DEF FlagResult
<1>4. r.at \in Nat /\ (\A i \in 0 .. 2 * n - 1 : HasLimb(m, r, i) /\ HasLimb(m, a, i))
  BY <1>1, AreaLimbs
<1>5. SumOf(op, m, r, a, y, n, c, x)
  BY <1>1, <1>3, <1>4 DEF SumOf, Readable
<1> DEFINE low   == AdcSbb(op, Get(m, a, 0), w, 0)
           high  == AdcSbb(op, Get(m, a, 1), 0, low.c)
           first == [m |-> Put(Put(m, r, 0, low.x), r, 1, high.x), c |-> high.c, k |-> 1]
           z == PADDSUBU(m, r, a, w, n, op)
<1>6. z = Propagate(first, r, a, n, op)
  BY DEF PADDSUBU
<1>7. y[0] = w /\ \A i \in 1 .. 2 * n - 1 : y[i] = 0
  <2>1. \A i \in 0 .. 2 * n - 1 : y[i] = IF i = 0 THEN w ELSE 0
    BY DEF y, WordAlone
  <2>2. QED  BY <1>1, <2>1
<1>8. low = [x |-> x[0], c |-> c[1]] /\ high = [x |-> x[1], c |-> c[2]] /\ x[0] \in Limb /\ x[1] \in Limb
  <2>1. c[0] = 0 /\ 0 + 1 = 1 /\ 1 + 1 = 2
    BY <1>3 DEF FlagTrace
  <2>2. \A i \in 0 .. 2 * n - 1 : x[i] \in Limb /\ AdcSbb(op, Get(m, a, i), y[i], c[i]) = [x |-> x[i], c |-> c[i + 1]]
    BY <1>3 DEF FlagTrace
  <2>3. AdcSbb(op, Get(m, a, 0), y[0], c[0]) = [x |-> x[0], c |-> c[1]] /\ x[0] \in Limb
    BY <1>1, <2>1, <2>2
  <2>4. AdcSbb(op, Get(m, a, 1), y[1], c[1]) = [x |-> x[1], c |-> c[2]] /\ x[1] \in Limb
    BY <1>1, <2>1, <2>2
  <2>5. y[1] = 0
    BY <1>1, <1>7
  <2>6. low = [x |-> x[0], c |-> c[1]]
    BY <1>7, <2>1, <2>3
  <2> HIDE DEF low
  <2>7. low.c = c[1]
    BY <2>6
  <2>8. QED  BY <2>3, <2>4, <2>5, <2>6, <2>7
<1>9. first = [m |-> Put(Put(m, r, 0, x[0]), r, 1, x[1]), c |-> c[2], k |-> 1]
  BY <1>8
<1> HIDE DEF low, high, first, z
<1>10. Stored(Limb, m, first.m, r, 0 .. 1, x)
  <2>0. m \in MemoryIn(Limb, m)
    BY LimbMemory DEF IsMemory
  <2>1. Stored(Limb, m, m, r, {}, x)
    BY <2>0, StoredNone
  <2>2. Stored(Limb, m, Put(m, r, 0, x[0]), r, {} \union {0}, x)
    BY <1>1, <1>4, <1>8, <2>1, StoredMore
  <2>3. {} \union {0} = {0}
    OBVIOUS
  <2>4. Stored(Limb, m, Put(m, r, 0, x[0]), r, {0}, x) /\ {0} \subseteq Nat
    BY <2>2, <2>3
  <2>5. Stored(Limb, m, Put(Put(m, r, 0, x[0]), r, 1, x[1]), r, {0} \union {1}, x)
    BY <1>1, <1>4, <1>8, <2>4, StoredMore
  <2>6. {0} \union {1} = 0 .. 1
    OBVIOUS
  <2>7. QED  BY <1>9, <2>5, <2>6
<1>11. Reached(m, first, r, n, c, x) /\ first.k = 1
  <2>1. first.k = 1 /\ first.c = c[2] /\ IsState(first)
    BY <1>9 DEF IsState
  <2>2. 2 * 1 - 1 = 1 /\ 2 * 1 = 2 /\ 1 \in 0 .. n
    OBVIOUS
  <2>3. QED  BY <1>10, <2>1, <2>2 DEF Reached
<1>12. \A i \in 2 * first.k .. 2 * n - 1 : y[i] = 0
  BY <1>7, <1>11
<1>13. Reached(m, z, r, n, c, x) /\ z.k >= 1 /\ (z.c = 0 \/ z.k = n)
  BY <1>1, <1>5, <1>6, <1>11, <1>12, PropagateReaches
<1>14. z.k \in 0 .. n
  BY <1>13 DEF Reached
<1>15. \A i \in 2 * z.k .. 2 * n - 1 : y[i] = 0
  BY <1>7, <1>13, <1>14
<1>16. Finished(z, s, r, a, n)
  BY <1>1, <1>3, <1>5, <1>13, <1>15, SumFinished
<1>17. QED  BY <1>14, <1>16 DEF z, s

-----------------------------------------------------------------------------
(* Products *)

\* Storing what is there changes nothing.
LEMMA PutSame ==
    ASSUME NEW m, NEW t \in Memory(m), NEW p, NEW i, HasLimb(m, p, i)
    PROVE  Put(t, p, i, Get(t, p, i)) = t
<1>1. Get(t, p, i) \in Limb /\ Get(t, p, i) = t[p.buf][p.at + i]
  BY DEF Memory, HasLimb, Get
<1> DEFINE u == Put(t, p, i, Get(t, p, i))
<1>2. u \in Memory(m) /\ \A b \in DOMAIN m : \A k \in DOMAIN m[b] : u[b][k] = t[b][k]
  BY <1>1, PutMemory DEF HasLimb
<1> HIDE DEF u
<1>3. \A b \in DOMAIN m : u[b] = t[b]
  BY <1>2 DEF Memory
<1>4. u = [b \in DOMAIN m |-> u[b]] /\ t = [b \in DOMAIN m |-> t[b]]
  BY <1>2 DEF Memory
<1>5. QED  BY <1>3, <1>4 DEF u

\* The row of a limb a_i at r in memories of m: n limbs of b, and a carry above.
RowFits(m, r, a, b, n, i) ==
    /\ n \in Nat /\ i \in Nat /\ HasLimb(m, a, i)
    /\ (\A j \in 0 .. n - 1 : HasLimb(m, b, j)) /\ \A j \in 0 .. n : HasLimb(m, r, i + j)

\* A row stays within the memory, and the row of a zero stores the zeros that are there.
LEMMA RowIn ==
    ASSUME NEW m, NEW r, NEW a, NEW b, NEW n, NEW i, RowFits(m, r, a, b, n, i), NEW t \in Memory(m)
    PROVE  /\ MulRow(t, r, a, b, n, i) \in Memory(m)
           /\ i > 0 /\ Get(t, a, i) = 0 => MulRow(t, r, a, b, n, i) = ZeroRow(t, r, i + n)
<1> DEFINE Z == [m : Memory(m), c : Limb]
           s0 == [m |-> t, c |-> 0]
           X(s, j) == LET p == Get(s.m, b, j) * Get(t, a, i) + (IF i = 0 THEN 0 ELSE Get(s.m, r, i + j)) + s.c
                      IN  [m |-> Put(s.m, r, i + j, p % Base), c |-> p \div Base]
           B == [j \in 0 .. n - 1 |-> [s \in Z |-> X(s, j)]]
<1>0. /\ n \in Nat /\ i \in Nat /\ Get(t, a, i) \in Limb
      /\ \A j \in 0 .. n - 1 : HasLimb(m, b, j) /\ HasLimb(m, r, i + j)
      /\ HasLimb(m, r, i + n)
  <2>1. /\ n \in Nat /\ i \in Nat /\ HasLimb(m, a, i)
        /\ (\A j \in 0 .. n - 1 : HasLimb(m, b, j)) /\ \A j \in 0 .. n : HasLimb(m, r, i + j)
    BY DEF RowFits
  <2>2. Get(t, a, i) \in Limb
    BY <2>1 DEF HasLimb, Memory, Get
  <2>3. QED  BY <2>1, <2>2
<1>1. ASSUME NEW j \in 0 .. n - 1, NEW s \in Z
      PROVE  /\ X(s, j) \in Z
             /\ i > 0 /\ Get(t, a, i) = 0 /\ s = s0 => X(s, j) = s0
  <2> DEFINE x == Get(s.m, b, j)
             y == Get(t, a, i)
             z == IF i = 0 THEN 0 ELSE Get(s.m, r, i + j)
             p == x * y + z + s.c
  <2>1. s.m \in Memory(m) /\ s.c \in Limb /\ s = [m |-> s.m, c |-> s.c]
    OBVIOUS
  <2>2. x \in Limb /\ y \in Limb /\ Get(s.m, r, i + j) \in Limb
    BY <1>0, <2>1 DEF HasLimb, Memory, Get
  <2>3. z \in Limb
    BY <2>2, BaseFacts
  <2>4. p % Base \in Limb /\ p \div Base \in Limb
    <3> HIDE DEF x, y, z
    <3>1. QED  BY <2>1, <2>2, <2>3, RowTerms
  <2>5. X(s, j) = [m |-> Put(s.m, r, i + j, p % Base), c |-> p \div Base]
    OBVIOUS
  <2>6. Put(s.m, r, i + j, p % Base) \in Memory(m)
    <3> HIDE DEF p, Z
    <3>1. QED  BY <1>0, <2>1, <2>4, PutMemory DEF HasLimb
  <2>7. ASSUME i > 0, Get(t, a, i) = 0, s = s0 PROVE X(s, j) = s0
    <3>1. s.c = 0 /\ s.m = t /\ y = 0 /\ z = Get(t, r, i + j)
      BY <1>0, <2>7
    <3> HIDE DEF x, y, z
    <3>2. x \in Int /\ z \in 0 .. Base - 1 /\ Base \in Nat \ {0}
      BY <2>2, <2>3, BaseFacts, LimbNumber DEF Limb
    <3>3. p = z /\ z = Base * 0 + z
      BY <3>1, <3>2
    <3>4. p % Base = z /\ p \div Base = 0
      BY <3>2, <3>3, DivIs
    <3>5. Put(t, r, i + j, z) = t
      BY <1>0, <3>1, PutSame
    <3>6. QED  BY <2>5, <3>1, <3>4, <3>5
  <2> HIDE DEF p, X, Z, s0
  <2>8. X(s, j) \in Z
    BY <2>4, <2>5, <2>6 DEF Z
  <2>9. QED  BY <2>7, <2>8
<1> HIDE DEF X
<1>2. s0 \in Z
  BY BaseFacts
<1> HIDE DEF Z, s0
<1>3. PICK f : Steps(Z, B, s0, n, f)
  <2>1. \A j \in 0 .. n - 1 : B[j] \in [Z -> Z]
    BY <1>1
  <2> HIDE DEF B
  <2>2. QED  BY <1>0, <1>2, <2>1, StepsExist
<1>4. f[0] = s0 /\ f = [j \in 0 .. n |-> f[j]] /\ f \in [0 .. n -> Z]
  BY <1>3 DEF Steps
<1>P3. \A j \in 0 .. n - 1 : f[j + 1] = X(f[j], j)
  <2>1. \A j \in 0 .. n - 1 : f[j] \in Z /\ f[j + 1] = B[j][f[j]]
    BY <1>0, <1>3 DEF Steps
  <2>2. QED  BY <2>1
<1> HIDE DEF B
<1> DEFINE row == Loop(n, s0, LAMBDA s, j : X(s, j))
<1>5. MulRow(t, r, a, b, n, i) = Put(row.m, r, i + n, row.c)
  BY DEF MulRow, X, s0
<1> HIDE DEF row
<1> DEFINE Bodya(u, j) == X(u, j)
           Qa(h, j) == Given(h[j - 1], LAMBDA u : Bodya(u, j - 1))
           Eqa(h) == h = [j \in 0 .. n |-> IF j = 0 THEN s0 ELSE Qa(h, j)]
           Fa == CHOOSE h : Eqa(h)
<1>a1. row = Fa[n]
  BY DEF row, Loop, Given
<1>a2. \A h, j : Qa(h, j) = Bodya(h[j - 1], j - 1)
  BY DEF Given
<1>a3. \A j \in 0 .. n - 1 : f[j + 1] = Bodya(f[j], j)
  BY <1>P3
<1> HIDE DEF Bodya, Qa
<1>a4. Eqa(Fa)
  <2>1. ASSUME NEW j \in 0 .. n, j # 0 PROVE f[j] = Qa(f, j)
    <3>1. j - 1 \in 0 .. n - 1 /\ (j - 1) + 1 = j
      BY <2>1, <1>0
    <3>2. QED  BY <1>a2, <1>a3, <3>1
  <2>2. Eqa(f)
    BY <1>4, <2>1
  <2>3. QED  BY <2>2
<1> HIDE DEF Fa
<1>a5. Fa[n] = f[n]
  <2>1. Fa[0] = f[0]
    BY <1>4, <1>a4, <1>0
  <2>2. ASSUME NEW j \in 0 .. n - 1, Fa[j] = f[j] PROVE Fa[j + 1] = f[j + 1]
    <3>1. j + 1 \in 0 .. n /\ j + 1 # 0 /\ (j + 1) - 1 = j
      BY <1>0
    <3>2. Fa[j + 1] = Bodya(Fa[j], j)
      BY <1>0, <1>a2, <1>a4, <3>1
    <3>3. QED  BY <1>a3, <2>2, <3>2
  <2>3. QED  BY <1>0, <2>1, <2>2, SameEnd
<1>6. row = f[n] /\ f[n] \in Z
  BY <1>0, <1>4, <1>a1, <1>a5
<1>7. row.m \in Memory(m) /\ row.c \in Limb
  BY <1>6 DEF Z
<1>8. MulRow(t, r, a, b, n, i) \in Memory(m)
  BY <1>0, <1>5, <1>7, PutMemory DEF HasLimb
<1>9. ASSUME i > 0, Get(t, a, i) = 0 PROVE MulRow(t, r, a, b, n, i) = ZeroRow(t, r, i + n)
  <2> DEFINE g == [j \in 0 .. n |-> s0]
  <2>1. \A j \in 0 .. n - 1 : X(s0, j) = s0
    BY <1>1, <1>2, <1>9
  <2>2. f[n] = s0
    <3> DEFINE S == {j \in Nat : j =< n => f[j] = s0}
    <3>1. 0 \in S
      BY <1>4
    <3>2. ASSUME NEW j \in Nat, j \in S PROVE j + 1 \in S
      <4>1. SUFFICES ASSUME j + 1 =< n PROVE f[j + 1] = s0
        OBVIOUS
      <4>2. j \in 0 .. n - 1 /\ f[j] = s0
        BY <1>0, <3>2, <4>1
      <4>3. QED  BY <1>P3, <2>1, <4>2
    <3> HIDE DEF S
    <3>3. \A j \in Nat : j \in S
      BY <3>1, <3>2, UpInduct
    <3>4. QED  BY <1>0, <3>3 DEF S
  <2>3. row.m = t /\ row.c = 0
    BY <1>6, <2>2 DEF s0
  <2>4. QED  BY <1>5, <2>3 DEF ZeroRow
<1>10. QED  BY <1>8, <1>9

\* hebi_pmul and hebi_psqr: a row of zeros changes no limb but the one above it.
THEOREM ProductSame ==
    ASSUME NEW m, IsMemory(m), NEW r, NEW a, NEW b, NEW an \in Nat, NEW bn \in Nat,
           \A i \in 0 .. 2 * an - 1 : HasLimb(m, a, i), \A i \in 0 .. 2 * bn - 1 : HasLimb(m, b, i),
           \A i \in 0 .. 2 * (an + bn) - 1 : HasLimb(m, r, i)
    PROVE  pmul_x86(m, r, a, b, an, bn) = pmul(m, r, a, b, an, bn)
<1> DEFINE N == 2 * an
           M == 2 * bn
           X(t, i) == MulRow(t, r, a, b, M, i)
           Y(t, i) == IF i > 0 /\ Get(t, a, i) = 0 THEN ZeroRow(t, r, i + M) ELSE MulRow(t, r, a, b, M, i)
           B == [i \in 0 .. N - 1 |-> [t \in Memory(m) |-> X(t, i)]]
<1>1. N \in Nat /\ M \in Nat /\ N = an * PacketLimbs /\ M = bn * PacketLimbs
  BY PX86Assumption
<1>2. ASSUME NEW i \in 0 .. N - 1, NEW t \in Memory(m) PROVE X(t, i) \in Memory(m) /\ X(t, i) = Y(t, i)
  <2>1. RowFits(m, r, a, b, M, i)
    <3>1. \A j \in 0 .. M : i + j \in 0 .. 2 * (an + bn) - 1
      OBVIOUS
    <3>2. QED  BY <1>1, <3>1 DEF RowFits
  <2> HIDE DEF M, N
  <2>2. QED  BY <2>1, RowIn
<1> HIDE DEF X, Y, M, N
<1>3. PICK f : Steps(Memory(m), B, m, N, f)
  <2>1. \A i \in 0 .. N - 1 : B[i] \in [Memory(m) -> Memory(m)]
    BY <1>2
  <2> HIDE DEF B
  <2>2. QED  BY <1>1, <2>1, StepsExist DEF IsMemory
<1>4. f[0] = m /\ f = [i \in 0 .. N |-> f[i]]
  BY <1>3 DEF Steps
<1>5. \A i \in 0 .. N - 1 : f[i + 1] = X(f[i], i) /\ f[i + 1] = Y(f[i], i)
  <2>1. \A i \in 0 .. N - 1 : f[i] \in Memory(m) /\ f[i + 1] = B[i][f[i]]
    BY <1>1, <1>3 DEF Steps
  <2>2. QED  BY <1>2, <2>1
<1> HIDE DEF B
<1> DEFINE Bodya(t, i) == X(t, i)
           Qa(h, i) == Given(h[i - 1], LAMBDA t : Bodya(t, i - 1))
           Eqa(h) == h = [i \in 0 .. N |-> IF i = 0 THEN m ELSE Qa(h, i)]
           Fa == CHOOSE h : Eqa(h)
<1>a1. pmul(m, r, a, b, an, bn) = Fa[N]
  BY <1>1 DEF  pmul, X, Loop, Given
<1>a2. \A h, i : Qa(h, i) = Bodya(h[i - 1], i - 1)
  BY DEF Given
<1>a3. \A i \in 0 .. N - 1 : f[i + 1] = Bodya(f[i], i)
  BY <1>5
<1> HIDE DEF Bodya, Qa
<1>a4. Eqa(Fa)
  <2>1. ASSUME NEW i \in 0 .. N, i # 0 PROVE f[i] = Qa(f, i)
    <3>1. i - 1 \in 0 .. N - 1 /\ (i - 1) + 1 = i
      BY <2>1, <1>1
    <3>2. QED  BY <1>a2, <1>a3, <3>1
  <2>2. Eqa(f)
    BY <1>4, <2>1
  <2>3. QED  BY <2>2
<1> HIDE DEF Fa
<1>a5. Fa[N] = f[N]
  <2>1. Fa[0] = f[0]
    BY <1>4, <1>a4, <1>1
  <2>2. ASSUME NEW i \in 0 .. N - 1, Fa[i] = f[i] PROVE Fa[i + 1] = f[i + 1]
    <3>1. i + 1 \in 0 .. N /\ i + 1 # 0 /\ (i + 1) - 1 = i
      BY <1>1
    <3>2. Fa[i + 1] = Bodya(Fa[i], i)
      BY <1>1, <1>a2, <1>a4, <3>1
    <3>3. QED  BY <1>a3, <2>2, <3>2
  <2>3. QED  BY <1>1, <2>1, <2>2, SameEnd
<1> DEFINE Bodyb(t, i) == Y(t, i)
           Qb(h, i) == Given(h[i - 1], LAMBDA t : Bodyb(t, i - 1))
           Eqb(h) == h = [i \in 0 .. N |-> IF i = 0 THEN m ELSE Qb(h, i)]
           Fb == CHOOSE h : Eqb(h)
<1>b1. pmul_x86(m, r, a, b, an, bn) = Fb[N]
  BY DEF pmul_x86, N, M, Y, Loop, Given
<1>b2. \A h, i : Qb(h, i) = Bodyb(h[i - 1], i - 1)
  BY DEF Given
<1>b3. \A i \in 0 .. N - 1 : f[i + 1] = Bodyb(f[i], i)
  BY <1>5
<1> HIDE DEF Bodyb, Qb
<1>b4. Eqb(Fb)
  <2>1. ASSUME NEW i \in 0 .. N, i # 0 PROVE f[i] = Qb(f, i)
    <3>1. i - 1 \in 0 .. N - 1 /\ (i - 1) + 1 = i
      BY <2>1, <1>1
    <3>2. QED  BY <1>b2, <1>b3, <3>1
  <2>2. Eqb(f)
    BY <1>4, <2>1
  <2>3. QED  BY <2>2
<1> HIDE DEF Fb
<1>b5. Fb[N] = f[N]
  <2>1. Fb[0] = f[0]
    BY <1>4, <1>b4, <1>1
  <2>2. ASSUME NEW i \in 0 .. N - 1, Fb[i] = f[i] PROVE Fb[i + 1] = f[i + 1]
    <3>1. i + 1 \in 0 .. N /\ i + 1 # 0 /\ (i + 1) - 1 = i
      BY <1>1
    <3>2. Fb[i + 1] = Bodyb(Fb[i], i)
      BY <1>1, <1>b2, <1>b4, <3>1
    <3>3. QED  BY <1>b3, <2>2, <3>2
  <2>3. QED  BY <1>1, <2>1, <2>2, SameEnd
<1>6. QED  BY <1>a1, <1>a5, <1>b1, <1>b5

-----------------------------------------------------------------------------
(* Shifts *)

\* x * p without the part above p * q, and the part of y above q, fit in p * q.
LEMMA PartsFit ==
    ASSUME NEW p \in Nat, NEW q \in Nat, p * q = Base, NEW x \in Limb, NEW y \in Limb
    PROVE  /\ (x * p) % Base \in Limb /\ y \div q \in Limb
           /\ ((x * p) % Base) + (y \div q) \in Limb
<1>1. /\ Base \in Nat \ {0} /\ Base >= 2 /\ x \in Nat /\ y \in Nat /\ y \in 0 .. Base - 1
  BY BaseFacts, LimbNumber DEF Limb
<1>2. p \in Nat \ {0} /\ q \in Nat \ {0}
  <2>1. p # 0 /\ q # 0
    BY <1>1
  <2>2. QED  BY <2>1
<1> DEFINE u == x \div q
           v == x % q
           h == y \div q
           e == y % q
<1>3. u \in Nat /\ v \in 0 .. q - 1 /\ x = q * u + v /\ h \in Nat /\ e \in 0 .. q - 1 /\ y = q * h + e
  <2>1. u \in Nat /\ v \in 0 .. q - 1 /\ x = q * u + v
    BY <1>1, <1>2, DivMod
  <2>2. h \in Nat /\ e \in 0 .. q - 1 /\ y = q * h + e
    BY <1>1, <1>2, DivMod
  <2>3. QED  BY <2>1, <2>2
<1> HIDE DEF u, v, h, e
<1>4. p * v \in Nat /\ p * v =< Base - p
  <2>1. p * v >= 0 /\ p * ((q - 1) - v) >= 0
    <3> DEFINE d == (q - 1) - v
    <3>1. d \in Nat /\ p \in Nat /\ v \in Nat
      BY <1>2, <1>3
    <3> HIDE DEF d
    <3>2. p * v >= 0 /\ p * d >= 0
      BY <3>1
    <3>3. QED  BY <3>2 DEF d
  <2>2. p * ((q - 1) - v) = p * q - p - p * v
    BY <1>2, <1>3
  <2> DEFINE w == p * v
  <2>3. w \in Int /\ w >= 0 /\ Base - p - w >= 0
    BY <1>2, <1>3, <2>1, <2>2
  <2> HIDE DEF w
  <2>4. w \in Nat /\ w =< Base - p
    BY <1>1, <2>3
  <2>5. QED  BY <2>4 DEF w
<1>5. (x * p) % Base = p * v
  <2>1. x * p = Base * u + p * v
    <3>1. x * p = (p * q) * u + p * v
      BY <1>2, <1>3
    <3>2. QED  BY <3>1
  <2> DEFINE w == p * v
             z == x * p
  <2>2. w \in 0 .. Base - 1 /\ z = Base * u + w /\ z \in Nat
    <3>1. Base * u \in Nat
      BY <1>1, <1>3
    <3>2. w \in Nat /\ w =< Base - p /\ z = Base * u + w
      BY <1>4, <2>1
    <3> HIDE DEF w, z
    <3>3. QED  BY <1>1, <1>2, <3>1, <3>2
  <2> HIDE DEF w, z
  <2>3. z % Base = w
    BY <1>1, <1>3, <2>2, DivIs
  <2>4. QED  BY <2>3 DEF w, z
<1>6. h =< p - 1
  <2>1. SUFFICES ASSUME h >= p PROVE FALSE
    BY <1>2, <1>3
  <2>2. q * (h - p) >= 0
    <3> DEFINE d == h - p
    <3>1. d \in Nat /\ q \in Nat
      BY <1>2, <1>3, <2>1
    <3> HIDE DEF d
    <3>2. q * d >= 0
      BY <3>1
    <3>3. QED  BY <3>2 DEF d
  <2>3. q * (h - p) = q * h - p * q
    BY <1>2, <1>3
  <2>4. QED  BY <1>1, <1>3, <2>2, <2>3
<1>7. p =< Base
  <2>1. p * (q - 1) >= 0
    <3> DEFINE d == q - 1
    <3>1. d \in Nat /\ p \in Nat
      BY <1>2
    <3> HIDE DEF d
    <3>2. p * d >= 0
      BY <3>1
    <3>3. QED  BY <3>2 DEF d
  <2>2. p * (q - 1) = p * q - p
    BY <1>2
  <2>3. QED  BY <1>1, <1>2, <2>1, <2>2
<1> DEFINE w == p * v
<1>8. w \in Nat /\ w =< Base - p /\ (x * p) % Base = w
  BY <1>4, <1>5
<1> HIDE DEF w
<1>9. w \in Limb /\ h \in Limb /\ w + h \in Limb
  BY <1>1, <1>2, <1>3, <1>6, <1>7, <1>8 DEF Limb
<1>10. QED  BY <1>8, <1>9 DEF h

\* The two parts of a shifted limb: the part below is stored with the high part
\* of the limb under it.
LEMMA ShiftFits ==
    ASSUME NEW k \in 1 .. LimbBit - 1, NEW x \in Limb, NEW y \in Limb
    PROVE  /\ Shl(x, k) \in Limb /\ High(y, k) \in Limb /\ Shl(x, k) + High(y, k) \in Limb
           /\ Shr(y, k) \in Limb /\ Shl(x, LimbBit - k) \in Limb /\ Shl(x, LimbBit - k) + Shr(y, k) \in Limb
<1> DEFINE p == 2 ^ k
           q == 2 ^ (LimbBit - k)
<1>1. p \in Nat /\ q \in Nat /\ p * q = Base
  BY PacketsAssumption, PowerSplit
<1>2. k # 0
  OBVIOUS
<1>3. /\ Shl(x, k) = (x * p) % Base /\ High(y, k) = y \div q
      /\ Shr(y, k) = y \div p /\ Shl(x, LimbBit - k) = (x * q) % Base
  BY <1>2 DEF Shl, High, Shr
<1> HIDE DEF p, q
<1>4. q * p = Base
  BY <1>1
<1>5. (x * p) % Base \in Limb /\ y \div q \in Limb /\ ((x * p) % Base) + (y \div q) \in Limb
  BY <1>1, PartsFit
<1>6. (x * q) % Base \in Limb /\ y \div p \in Limb /\ ((x * q) % Base) + (y \div p) \in Limb
  BY <1>1, <1>4, PartsFit
<1>7. QED  BY <1>3, <1>5, <1>6

\* A shift by no bits.
LEMMA ShiftNone ==
    ASSUME NEW x \in Limb
    PROVE  Shl(x, 0) = x /\ Shr(x, 0) = x /\ High(x, 0) = 0
<1>1. Base \in Nat \ {0} /\ x \in 0 .. Base - 1 /\ 2 ^ 0 = 1
  BY BaseFacts DEF Limb
<1>2. x * 1 = x /\ x = 1 * x + 0 /\ x = Base * 0 + x
  BY <1>1
<1>3. x % Base = x /\ x \div 1 = x
  BY <1>1, <1>2, DivIs
<1>4. QED  BY <1>1, <1>2, <1>3 DEF Shl, Shr, High

\* The memory has the buffers it had.
LEMMA SameShape ==
    ASSUME NEW m, NEW t, NEW r, NEW I, NEW x, Stored(Limb, m, t, r, I, x)
    PROVE  /\ IsMemory(t) /\ t \in MemoryIn(Limb, t) /\ t \in Memory(m)
           /\ \A p, i : HasLimb(t, p, i) <=> HasLimb(m, p, i)
<1>1. t \in Memory(m) /\ DOMAIN t = DOMAIN m /\ \A b \in DOMAIN m : DOMAIN t[b] = DOMAIN m[b]
  BY LimbMemory DEF Stored, Memory
<1>2. \A b \in DOMAIN t : t[b] \in [DOMAIN t[b] -> Limb]
  BY <1>1 DEF Memory
<1>3. t = [b \in DOMAIN t |-> t[b]]
  BY <1>1 DEF Memory
<1>4. IsMemory(t)
  BY <1>2, <1>3 DEF IsMemory, Memory
<1>5. t \in MemoryIn(Limb, t)
  BY <1>4, LimbMemory DEF IsMemory
<1>6. QED  BY <1>1, <1>4, <1>5 DEF HasLimb

\* Limbs stored over limbs.
LEMMA StoredOver ==
    ASSUME NEW m, NEW t, NEW u, NEW r, NEW I, NEW J, NEW x, NEW z,
           Stored(Limb, m, t, r, I, x), Stored(Limb, t, u, r, J, z), \A i \in I : i \in J \/ x[i] = z[i]
    PROVE  Stored(Limb, m, u, r, I \union J, z)
<1>1. t \in MemoryIn(Limb, m) /\ u \in MemoryIn(Limb, t)
  BY DEF Stored
<1>2. DOMAIN t = DOMAIN m /\ \A b \in DOMAIN m : DOMAIN t[b] = DOMAIN m[b]
  BY <1>1 DEF MemoryIn
<1>3. u \in MemoryIn(Limb, m)
  <2>1. \A b \in DOMAIN m : u[b] \in [DOMAIN m[b] -> Limb]
    BY <1>1, <1>2 DEF MemoryIn
  <2>2. DOMAIN u = DOMAIN m /\ u = [b \in DOMAIN m |-> u[b]]
    BY <1>1, <1>2 DEF MemoryIn
  <2>3. QED  BY <2>1, <2>2 DEF MemoryIn
<1>4. ASSUME NEW b \in DOMAIN m, NEW k \in DOMAIN m[b]
      PROVE  u[b][k] = IF b = r.buf /\ k \in Int /\ k - r.at \in I \union J THEN z[k - r.at] ELSE m[b][k]
  <2>1. t[b][k] = IF b = r.buf /\ k \in Int /\ k - r.at \in I THEN x[k - r.at] ELSE m[b][k]
    BY DEF Stored
  <2>2. u[b][k] = IF b = r.buf /\ k \in Int /\ k - r.at \in J THEN z[k - r.at] ELSE t[b][k]
    BY <1>2 DEF Stored
  <2>3. QED  BY <2>1, <2>2
<1>5. QED  BY <1>3, <1>4 DEF Stored

\* The same limbs in another order.
LEMMA StoredAs ==
    ASSUME NEW m, NEW t, NEW r, NEW I, NEW J, NEW x, Stored(Limb, m, t, r, I, x), \A i : i \in I <=> i \in J
    PROVE  Stored(Limb, m, t, r, J, x)
<1>1. I = J
  OBVIOUS
<1>2. QED  BY <1>1

\* q is r and w limbs more.
Behind(q, r, w) == q.buf = r.buf /\ r.at \in Nat /\ w \in Nat /\ q.at = r.at + w

\* Limb w + i at r is limb i at a pointer that is w limbs behind r.
LEMMA PutAt ==
    ASSUME NEW q, NEW r, NEW w, Behind(q, r, w), NEW i \in Nat, NEW t
    PROVE  /\ Get(t, r, w + i) = Get(t, q, i) /\ (HasLimb(t, r, w + i) => HasLimb(t, q, i))
           /\ \A v : Put(t, r, w + i, v) = Put(t, q, i, v)
<1> DEFINE d == r.at
           e == q.at
<1>1. d \in Nat /\ w \in Nat /\ e = d + w /\ q.buf = r.buf
  BY DEF Behind
<1> HIDE DEF d, e
<1>2. d + (w + i) = e + i /\ e \in Nat
  BY <1>1
<1>3. r.at + (w + i) = q.at + i /\ q.at \in Nat
  BY <1>2 DEF d, e
<1> HIDE DEF d, e
<1>4. QED  BY <1>1, <1>3 DEF Put, Get, HasLimb

\* Is the result at q above the operand, or elsewhere?
Over(q, a) == a.buf # q.buf \/ (q.at \in Nat /\ q.at >= a.at)

\* The limbs stored above limb j of an operand that is not above the result.
Under(m, t, q, I, z, a, j) ==
    I \subseteq Nat /\ Stored(Limb, m, t, q, I, z) /\ Over(q, a) /\ HasLimb(m, a, j) /\ \A i \in I : i > j

\* Limb j is what it was before the call.
LEMMA ReadUnder ==
    ASSUME NEW m, NEW t, NEW q, NEW I, NEW z, NEW a, NEW j, Under(m, t, q, I, z, a, j)
    PROVE  Get(t, a, j) = Get(m, a, j)
<1>0. I \subseteq Nat /\ Stored(Limb, m, t, q, I, z) /\ Over(q, a) /\ HasLimb(m, a, j) /\ \A i \in I : i > j
  BY DEF Under
<1>1. a.at \in Nat /\ j \in Nat
  BY <1>0 DEF HasLimb
<1>2. a.buf # q.buf \/ (a.at + j) - q.at \notin I
  <2>1. SUFFICES ASSUME a.buf = q.buf, (a.at + j) - q.at \in I PROVE FALSE
    OBVIOUS
  <2> DEFINE d == a.at
             e == q.at
  <2>2. d \in Nat /\ e \in Nat /\ e >= d /\ (d + j) - e > j
    BY <1>0, <1>1, <2>1 DEF Over
  <2> HIDE DEF d, e
  <2>3. QED  BY <1>1, <2>2
<1>3. QED  BY <1>0, <1>2, StoredRead

\* Zeros below the shifted limbs.
Zeroed(m, r, N) == Loop(N, m, LAMBDA t, i : Put(t, r, i, 0))

\* The loop that clears the limbs below the shifted ones.
LEMMA ZerosBelow ==
    ASSUME NEW m, IsMemory(m), NEW r, NEW N \in Nat, \A i \in 0 .. N - 1 : HasLimb(m, r, i),
           NEW x, \A i \in 0 .. N - 1 : x[i] = 0
    PROVE  Stored(Limb, m, Zeroed(m, r, N), r, 0 .. N - 1, x)
<1> DEFINE p == [i \in 0 .. N - 1 |-> i]
           loop == Zeroed(m, r, N)
<1>1. \A i \in 0 .. N - 1 : p[i] = i
  OBVIOUS
<1> HIDE DEF p
<1>2. PICK g : PutTrace(Limb, m, r, {}, x, N, p, m, g)
  <2>1. Stored(Limb, m, m, r, {}, x)
    BY StoredNone, LimbMemory DEF IsMemory
  <2>2. \A i \in 0 .. N - 1 : HasLimb(m, r, p[i]) /\ x[p[i]] \in Limb
    BY <1>1, BaseFacts
  <2>3. QED  BY <2>1, <2>2, PutLoop
<1>3. g[0] = m /\ g = [i \in 0 .. N |-> g[i]] /\ Stored(Limb, m, g[N], r, {} \union {p[j] : j \in 0 .. N - 1}, x)
      /\ \A i \in 0 .. N - 1 : g[i + 1] = Put(g[i], r, p[i], x[p[i]])
  BY <1>2 DEF PutTrace
<1>4. \A j : j \in {} \union {p[i] : i \in 0 .. N - 1} <=> j \in 0 .. N - 1
  BY <1>1
<1> HIDE DEF loop
<1> DEFINE Bodya(t, i) == Put(t, r, i, 0)
           Qa(h, i) == Given(h[i - 1], LAMBDA t : Bodya(t, i - 1))
           Eqa(h) == h = [i \in 0 .. N |-> IF i = 0 THEN m ELSE Qa(h, i)]
           Fa == CHOOSE h : Eqa(h)
<1>a1. loop = Fa[N]
  BY DEF loop, Zeroed, Loop, Given
<1>a2. \A h, i : Qa(h, i) = Bodya(h[i - 1], i - 1)
  BY DEF Given
<1>a3. \A i \in 0 .. N - 1 : g[i + 1] = Bodya(g[i], i)
  BY <1>1, <1>3
<1> HIDE DEF Bodya, Qa
<1>a4. Eqa(Fa)
  <2>1. ASSUME NEW i \in 0 .. N, i # 0 PROVE g[i] = Qa(g, i)
    <3>1. i - 1 \in 0 .. N - 1 /\ (i - 1) + 1 = i
      BY <2>1, <1>3
    <3>2. QED  BY <1>a2, <1>a3, <3>1
  <2>2. Eqa(g)
    BY <1>3, <2>1
  <2>3. QED  BY <2>2
<1> HIDE DEF Fa
<1>a5. Fa[N] = g[N]
  <2>1. Fa[0] = g[0]
    BY <1>3, <1>a4, <1>3
  <2>2. ASSUME NEW i \in 0 .. N - 1, Fa[i] = g[i] PROVE Fa[i + 1] = g[i + 1]
    <3>1. i + 1 \in 0 .. N /\ i + 1 # 0 /\ (i + 1) - 1 = i
      BY <1>3
    <3>2. Fa[i + 1] = Bodya(Fa[i], i)
      BY <1>3, <1>a2, <1>a4, <3>1
    <3>3. QED  BY <1>a3, <2>2, <3>2
  <2>3. QED  BY <1>3, <2>1, <2>2, SameEnd
<1>5. Stored(Limb, m, loop, r, {} \union {p[j] : j \in 0 .. N - 1}, x)
  BY <1>3, <1>a1, <1>a5
<1>6. QED  BY <1>4, <1>5, StoredAs DEF loop

\* Zeros above them.
ZeroedAbove(m, r, lo, hi, N) == Loop(N, m, LAMBDA t, i : Put(t, r, lo + (hi + i), 0))

\* The loop that clears the limbs above the shifted ones.
LEMMA ZerosAbove ==
    ASSUME NEW m, IsMemory(m), NEW r, NEW lo \in Nat, NEW hi \in Nat, NEW N \in Nat, NEW q, Behind(q, r, lo),
           \A i \in 0 .. N - 1 : HasLimb(m, q, hi + i), NEW x, \A i \in 0 .. N - 1 : x[hi + i] = 0
    PROVE  Stored(Limb, m, ZeroedAbove(m, r, lo, hi, N), q, hi .. (hi + N) - 1, x)
<1> DEFINE p == [i \in 0 .. N - 1 |-> hi + i]
           loop == ZeroedAbove(m, r, lo, hi, N)
<1>1. \A i \in 0 .. N - 1 : p[i] = hi + i /\ hi + i \in Nat
  OBVIOUS
<1> HIDE DEF p
<1>2. PICK g : PutTrace(Limb, m, q, {}, x, N, p, m, g)
  <2>1. Stored(Limb, m, m, q, {}, x)
    BY StoredNone, LimbMemory DEF IsMemory
  <2>2. \A i \in 0 .. N - 1 : HasLimb(m, q, p[i]) /\ x[p[i]] \in Limb
    BY <1>1, BaseFacts
  <2>3. QED  BY <2>1, <2>2, PutLoop
<1>3. g[0] = m /\ g = [i \in 0 .. N |-> g[i]] /\ Stored(Limb, m, g[N], q, {} \union {p[j] : j \in 0 .. N - 1}, x)
      /\ \A i \in 0 .. N - 1 : g[i + 1] = Put(g[i], q, p[i], x[p[i]])
  BY <1>2 DEF PutTrace
<1>4. ASSUME NEW j PROVE j \in {} \union {p[i] : i \in 0 .. N - 1} <=> j \in hi .. (hi + N) - 1
  <2>1. ASSUME j \in hi .. (hi + N) - 1 PROVE j \in {p[i] : i \in 0 .. N - 1}
    <3>1. j - hi \in 0 .. N - 1 /\ j = hi + (j - hi)
      BY <2>1
    <3>2. j = p[j - hi]
      BY <1>1, <3>1
    <3>3. QED  BY <3>1, <3>2
  <2>2. ASSUME NEW i \in 0 .. N - 1 PROVE p[i] \in hi .. (hi + N) - 1
    BY <1>1
  <2>3. QED  BY <2>1, <2>2
<1>5. ASSUME NEW i \in 0 .. N - 1 PROVE g[i + 1] = Put(g[i], r, lo + (hi + i), 0)
  <2>1. g[i + 1] = Put(g[i], q, hi + i, 0)
    BY <1>1, <1>3, ZenonT(30)
  <2> DEFINE e == hi + i
  <2>2. e \in Nat
    BY <1>1
  <2> HIDE DEF e
  <2>3. Put(g[i], r, lo + e, 0) = Put(g[i], q, e, 0)
    BY <2>2, PutAt
  <2>4. QED  BY <2>1, <2>3 DEF e
<1> HIDE DEF loop
<1> DEFINE Bodya(t, i) == Put(t, r, lo + (hi + i), 0)
           Qa(h, i) == Given(h[i - 1], LAMBDA t : Bodya(t, i - 1))
           Eqa(h) == h = [i \in 0 .. N |-> IF i = 0 THEN m ELSE Qa(h, i)]
           Fa == CHOOSE h : Eqa(h)
<1>a1. loop = Fa[N]
  BY DEF loop, ZeroedAbove, Loop, Given
<1>a2. \A h, i : Qa(h, i) = Bodya(h[i - 1], i - 1)
  BY DEF Given
<1>a3. \A i \in 0 .. N - 1 : g[i + 1] = Bodya(g[i], i)
  BY <1>5
<1> HIDE DEF Bodya, Qa
<1>a4. Eqa(Fa)
  <2>1. ASSUME NEW i \in 0 .. N, i # 0 PROVE g[i] = Qa(g, i)
    <3>1. i - 1 \in 0 .. N - 1 /\ (i - 1) + 1 = i
      BY <2>1, <1>3
    <3>2. QED  BY <1>a2, <1>a3, <3>1
  <2>2. Eqa(g)
    BY <1>3, <2>1
  <2>3. QED  BY <2>2
<1> HIDE DEF Fa
<1>a5. Fa[N] = g[N]
  <2>1. Fa[0] = g[0]
    BY <1>3, <1>a4, <1>3
  <2>2. ASSUME NEW i \in 0 .. N - 1, Fa[i] = g[i] PROVE Fa[i + 1] = g[i + 1]
    <3>1. i + 1 \in 0 .. N /\ i + 1 # 0 /\ (i + 1) - 1 = i
      BY <1>3
    <3>2. Fa[i + 1] = Bodya(Fa[i], i)
      BY <1>3, <1>a2, <1>a4, <3>1
    <3>3. QED  BY <1>a3, <2>2, <3>2
  <2>3. QED  BY <1>3, <2>1, <2>2, SameEnd
<1>6. Stored(Limb, m, loop, q, {} \union {p[j] : j \in 0 .. N - 1}, x)
  BY <1>3, <1>a1, <1>a5
<1>7. QED  BY <1>4, <1>6, StoredAs DEF loop

\* The quadwords that move up by whole quadwords.
MovedUp(m, r, lo, a, N) ==
    Loop(N, m, LAMBDA t, k : LET i == ShlOrder(k, N) IN Put(t, r, lo + i, Get(t, a, i)))

\* The portable loop for whole limbs.
LEMMA WordsUp ==
    ASSUME NEW m, IsMemory(m), NEW r, NEW lo, NEW q, Behind(q, r, lo), NEW a, Over(q, a), NEW N \in Nat,
           \A i \in 0 .. N - 1 : HasLimb(m, q, i) /\ HasLimb(m, a, i),
           NEW z, \A i \in 0 .. N - 1 : z[i] = Get(m, a, i)
    PROVE  Stored(Limb, m, MovedUp(m, r, lo, a, N), q, 0 .. N - 1, z)
<1> DEFINE p == [i \in 0 .. N - 1 |-> (N - 1) - i]
           X(t, k) == LET i == ShlOrder(k, N) IN Put(t, r, lo + i, Get(t, a, i))
           loop == MovedUp(m, r, lo, a, N)
<1>1. \A i \in 0 .. N - 1 : p[i] = (N - 1) - i /\ p[i] \in 0 .. N - 1 /\ ShlOrder(i, N) = p[i]
  BY DEF ShlOrder
<1> HIDE DEF p
<1>2. PICK g : PutTrace(Limb, m, q, {}, z, N, p, m, g)
  <2>1. Stored(Limb, m, m, q, {}, z)
    BY StoredNone, LimbMemory DEF IsMemory
  <2>2. \A i \in 0 .. N - 1 : HasLimb(m, q, p[i]) /\ z[p[i]] \in Limb
    BY <1>1, LimbThere
  <2>3. QED  BY <2>1, <2>2, PutLoop
<1>3. g[0] = m /\ g = [i \in 0 .. N |-> g[i]] /\ Stored(Limb, m, g[N], q, {} \union {p[j] : j \in 0 .. N - 1}, z)
      /\ \A i \in 0 .. N - 1 : g[i + 1] = Put(g[i], q, p[i], z[p[i]])
  BY <1>2 DEF PutTrace
<1>4. ASSUME NEW j PROVE j \in {} \union {p[i] : i \in 0 .. N - 1} <=> j \in 0 .. N - 1
  <2>1. ASSUME j \in 0 .. N - 1 PROVE j \in {p[i] : i \in 0 .. N - 1}
    <3>1. (N - 1) - j \in 0 .. N - 1 /\ j = (N - 1) - ((N - 1) - j)
      BY <2>1
    <3>2. j = p[(N - 1) - j]
      BY <1>1, <3>1
    <3>3. QED  BY <3>1, <3>2
  <2>2. ASSUME NEW i \in 0 .. N - 1 PROVE p[i] \in 0 .. N - 1
    BY <1>1
  <2>3. QED  BY <2>1, <2>2
<1>5. ASSUME NEW i \in 0 .. N - 1 PROVE g[i + 1] = X(g[i], i)
  <2>1. X(g[i], i) = Put(g[i], r, lo + p[i], Get(g[i], a, p[i]))
    BY <1>1
  <2> HIDE DEF X
  <2>2. Put(g[i], r, lo + p[i], Get(g[i], a, p[i])) = Put(g[i], q, p[i], Get(g[i], a, p[i]))
    BY <1>1, PutAt
  <2>3. Get(g[i], a, p[i]) = Get(m, a, p[i])
    <3>1. Stored(Limb, m, g[i], q, {} \union {p[j] : j \in 0 .. i - 1}, z) /\ i \in 0 .. N
      BY <1>2 DEF PutTrace
    <3> DEFINE I == {} \union {p[j] : j \in 0 .. i - 1}
    <3>2. I \subseteq Nat /\ \A j \in I : j > p[i]
      BY <1>1
    <3> HIDE DEF I
    <3>3. HasLimb(m, a, p[i]) /\ Stored(Limb, m, g[i], q, I, z)
      BY <1>1, <3>1 DEF I
    <3>4. Under(m, g[i], q, I, z, a, p[i])
      BY <3>2, <3>3 DEF Under
    <3>5. QED  BY <3>4, ReadUnder
  <2>4. z[p[i]] = Get(m, a, p[i])
    BY <1>1
  <2>5. QED  BY <1>3, <2>1, <2>2, <2>3, <2>4
<1> HIDE DEF X, loop
<1> DEFINE Bodya(t, i) == X(t, i)
           Qa(h, i) == Given(h[i - 1], LAMBDA t : Bodya(t, i - 1))
           Eqa(h) == h = [i \in 0 .. N |-> IF i = 0 THEN m ELSE Qa(h, i)]
           Fa == CHOOSE h : Eqa(h)
<1>a1. loop = Fa[N]
  BY DEF loop, MovedUp, X, Loop, Given
<1>a2. \A h, i : Qa(h, i) = Bodya(h[i - 1], i - 1)
  BY DEF Given
<1>a3. \A i \in 0 .. N - 1 : g[i + 1] = Bodya(g[i], i)
  BY <1>5
<1> HIDE DEF Bodya, Qa
<1>a4. Eqa(Fa)
  <2>1. ASSUME NEW i \in 0 .. N, i # 0 PROVE g[i] = Qa(g, i)
    <3>1. i - 1 \in 0 .. N - 1 /\ (i - 1) + 1 = i
      BY <2>1, <1>3
    <3>2. QED  BY <1>a2, <1>a3, <3>1
  <2>2. Eqa(g)
    BY <1>3, <2>1
  <2>3. QED  BY <2>2
<1> HIDE DEF Fa
<1>a5. Fa[N] = g[N]
  <2>1. Fa[0] = g[0]
    BY <1>3, <1>a4, <1>3
  <2>2. ASSUME NEW i \in 0 .. N - 1, Fa[i] = g[i] PROVE Fa[i + 1] = g[i + 1]
    <3>1. i + 1 \in 0 .. N /\ i + 1 # 0 /\ (i + 1) - 1 = i
      BY <1>3
    <3>2. Fa[i + 1] = Bodya(Fa[i], i)
      BY <1>3, <1>a2, <1>a4, <3>1
    <3>3. QED  BY <1>a3, <2>2, <3>2
  <2>3. QED  BY <1>3, <2>1, <2>2, SameEnd
<1>6. Stored(Limb, m, loop, q, {} \union {p[j] : j \in 0 .. N - 1}, z)
  BY <1>3, <1>a1, <1>a5
<1>7. Stored(Limb, m, loop, q, 0 .. N - 1, z)
  BY <1>4, <1>6, StoredAs
<1>8. QED  BY <1>7 DEF loop, X

\* The limbs z of a shift up by k bits less than a limb, and the parts c that are
\* handed down from turn to turn.
UpParts(m, a, N, k, c, z) ==
    /\ c[0] = 0 /\ z[0] = c[N]
    /\ \A i \in 0 .. N - 1 : /\ c[i + 1] = Shl(Get(m, a, (N - 1) - i), k)
                             /\ z[N - i] = High(Get(m, a, (N - 1) - i), k) + c[i]

\* A shift of n packets of a up by k bits to q.
UpShift(m, a, q, n, k, c, z) ==
    /\ IsMemory(m) /\ n \in Nat /\ n > 0 /\ k \in 1 .. LimbBit - 1 /\ Over(q, a)
    /\ \A i \in 0 .. 2 * n : HasLimb(m, q, i)
    /\ \A i \in 0 .. 2 * n - 1 : HasLimb(m, a, i)
    /\ UpParts(m, a, 2 * n, k, c, z)

\* The limbs of a shift up, and the parts that go on to the next, are limbs.
LEMMA UpLimbs ==
    ASSUME NEW m, NEW a, NEW q, NEW n, NEW k, NEW c, NEW z, UpShift(m, a, q, n, k, c, z)
    PROVE  /\ \A i \in 0 .. 2 * n : z[i] \in Limb
           /\ \A i \in 0 .. 2 * n : c[i] \in Limb
           /\ \A i \in 0 .. 2 * n - 2 :
                 z[(2 * n - 1) - i] = Shifted(Get(m, a, (2 * n - 1) - i), Get(m, a, (2 * n - 2) - i), k)
<1> DEFINE N == 2 * n
<1>1. /\ N \in Nat /\ N > 1 /\ k \in 1 .. LimbBit - 1 /\ c[0] = 0 /\ z[0] = c[N]
      /\ (\A i \in 0 .. N - 1 : Get(m, a, i) \in Limb)
      /\ \A i \in 0 .. N - 1 : /\ c[i + 1] = Shl(Get(m, a, (N - 1) - i), k)
                               /\ z[N - i] = High(Get(m, a, (N - 1) - i), k) + c[i]
  BY LimbThere DEF UpShift, UpParts
<1> HIDE DEF N
<1>2. ASSUME NEW i \in 0 .. N - 1
      PROVE  (N - 1) - i \in 0 .. N - 1 /\ Get(m, a, (N - 1) - i) \in Limb /\ c[i + 1] \in Limb
  <2>1. (N - 1) - i \in 0 .. N - 1
    BY <1>1
  <2>2. QED  BY <1>1, <2>1, ShiftFits
<1>3. ASSUME NEW i \in 0 .. N - 2
      PROVE  /\ z[(N - 1) - i] \in Limb
             /\ z[(N - 1) - i] = Shifted(Get(m, a, (N - 1) - i), Get(m, a, (N - 2) - i), k)
  <2> DEFINE x == Get(m, a, (N - 1) - i)
             y == Get(m, a, (N - 2) - i)
  <2>1. /\ i \in 0 .. N - 1 /\ i + 1 \in 0 .. N - 1 /\ (N - 1) - (i + 1) = (N - 2) - i
        /\ N - (i + 1) = (N - 1) - i /\ (N - 1) - i \in 0 .. N - 1 /\ (N - 2) - i \in 0 .. N - 1
    BY <1>1
  <2>2. x \in Limb /\ y \in Limb
    BY <1>1, <2>1
  <2>3. z[(N - 1) - i] = High(y, k) + Shl(x, k)
    BY <1>1, <2>1
  <2> HIDE DEF x, y
  <2>4. Shl(x, k) \in Limb /\ High(y, k) \in Limb /\ Shl(x, k) + High(y, k) \in Limb
    BY <1>1, <2>2, ShiftFits
  <2>5. High(y, k) + Shl(x, k) = Shl(x, k) + High(y, k)
    BY <2>4, LimbNumber
  <2> DEFINE w == Shl(x, k) + High(y, k)
  <2>6. w % Base = w
    <3>1. w \in 0 .. Base - 1 /\ Base \in Nat \ {0}
      BY <2>4, BaseFacts DEF Limb
    <3> HIDE DEF w
    <3>2. w \in Nat /\ w = Base * 0 + w
      BY <3>1
    <3>3. QED  BY <3>1, <3>2, DivIs
  <2>7. QED  BY <2>3, <2>4, <2>5, <2>6 DEF Shifted, x, y
<1>4. ASSUME NEW i \in 0 .. N PROVE z[i] \in Limb
  <2>1. CASE i = 0
    <3>1. N - 1 \in 0 .. N - 1 /\ (N - 1) + 1 = N
      BY <1>1
    <3>2. QED  BY <1>1, <1>2, <2>1, <3>1
  <2>2. CASE i = N
    <3>1. z[N - 0] = High(Get(m, a, (N - 1) - 0), k) + 0 /\ N - 0 = N /\ (N - 1) - 0 \in 0 .. N - 1
      BY <1>1
    <3>2. High(Get(m, a, (N - 1) - 0), k) \in Limb
      BY <1>1, <3>1, ShiftFits
    <3>3. QED  BY <2>2, <3>1, <3>2, LimbNumber
  <2>3. CASE i \in 1 .. N - 1
    <3>1. (N - 1) - i \in 0 .. N - 2 /\ (N - 1) - ((N - 1) - i) = i
      BY <1>1, <2>3
    <3>2. QED  BY <1>3, <3>1
  <2>4. QED  BY <1>1, <2>1, <2>2, <2>3
<1>5. ASSUME NEW i \in 0 .. N PROVE c[i] \in Limb
  <2>1. CASE i = 0
    BY <1>1, <2>1, BaseFacts
  <2>2. CASE i # 0
    <3>1. i - 1 \in 0 .. N - 1 /\ (i - 1) + 1 = i
      BY <1>1, <2>2
    <3>2. QED  BY <1>2, <3>1
  <2>3. QED  BY <2>1, <2>2
<1>6. QED  BY <1>3, <1>4, <1>5 DEF N

\* The memories of such a shift: limbs N, N - 1, ..., 0 are stored, and what is not
\* yet shifted is still there.
UpTrace(m, a, q, N, z, g) ==
    /\ g[0] = m /\ Stored(Limb, m, g[N + 1], q, 0 .. N, z)
    /\ \A i \in 0 .. N : g[i + 1] = Put(g[i], q, N - i, z[N - i])
    /\ \A i \in 0 .. N - 1 : \A j \in 0 .. (N - 1) - i : Get(g[i], a, j) = Get(m, a, j)

\* The trace of a loop that stores them from the top down.
LEMMA UpStores ==
    ASSUME NEW m, NEW a, NEW q, NEW n, NEW k, NEW c, NEW z, UpShift(m, a, q, n, k, c, z)
    PROVE  \E g : UpTrace(m, a, q, 2 * n, z, g)
<1> DEFINE N == 2 * n
           p == [i \in 0 .. N |-> N - i]
<1>1. /\ IsMemory(m) /\ N \in Nat /\ N + 1 \in Nat /\ (N + 1) - 1 = N /\ Over(q, a)
      /\ (\A i \in 0 .. N : HasLimb(m, q, i)) /\ (\A i \in 0 .. N - 1 : HasLimb(m, a, i))
      /\ \A i \in 0 .. N : z[i] \in Limb
  BY UpLimbs DEF UpShift
<1> HIDE DEF N
<1>2. \A i \in 0 .. N : p[i] = N - i /\ p[i] \in 0 .. N
  BY <1>1
<1> HIDE DEF p
<1>3. PICK g : PutTrace(Limb, m, q, {}, z, N + 1, p, m, g)
  <2>1. Stored(Limb, m, m, q, {}, z)
    BY <1>1, StoredNone, LimbMemory DEF IsMemory
  <2>2. \A i \in 0 .. (N + 1) - 1 : HasLimb(m, q, p[i]) /\ z[p[i]] \in Limb
    BY <1>1, <1>2
  <2>3. QED  BY <1>1, <2>1, <2>2, PutLoop
<1>4. /\ g[0] = m /\ \A i \in 0 .. N : g[i + 1] = Put(g[i], q, p[i], z[p[i]])
      /\ \A i \in 0 .. N + 1 : Stored(Limb, m, g[i], q, {} \union {p[j] : j \in 0 .. i - 1}, z)
  BY <1>1, <1>3 DEF PutTrace
<1>5. Stored(Limb, m, g[N + 1], q, 0 .. N, z)
  <2> DEFINE I == {} \union {p[j] : j \in 0 .. (N + 1) - 1}
  <2>1. ASSUME NEW j PROVE j \in I <=> j \in 0 .. N
    <3>1. ASSUME j \in 0 .. N PROVE j \in {p[i] : i \in 0 .. N}
      <4>1. N - j \in 0 .. N /\ j = N - (N - j)
        BY <1>1, <3>1
      <4>2. j = p[N - j]
        BY <1>2, <4>1
      <4>3. QED  BY <4>1, <4>2
    <3>2. ASSUME NEW i \in 0 .. N PROVE p[i] \in 0 .. N
      BY <1>2
    <3>3. QED  BY <1>1, <3>1, <3>2
  <2>2. Stored(Limb, m, g[N + 1], q, I, z)
    <3> DEFINE M == N + 1
    <3>1. M \in 0 .. N + 1
      BY <1>1
    <3> HIDE DEF M
    <3>2. Stored(Limb, m, g[M], q, {} \union {p[j] : j \in 0 .. M - 1}, z)
      BY <1>4, <3>1
    <3>3. QED  BY <3>2 DEF M
  <2> HIDE DEF I
  <2>3. QED  BY <2>1, <2>2, StoredAs
<1>6. ASSUME NEW i \in 0 .. N - 1, NEW j \in 0 .. (N - 1) - i PROVE Get(g[i], a, j) = Get(m, a, j)
  <2> DEFINE I == {} \union {p[h] : h \in 0 .. i - 1}
  <2>1. I \subseteq Nat /\ (\A h \in I : h > j) /\ j \in 0 .. N - 1 /\ i \in 0 .. N + 1
    BY <1>1, <1>2
  <2>2. Stored(Limb, m, g[i], q, I, z)
    BY <1>4, <2>1
  <2> HIDE DEF I
  <2>3. Under(m, g[i], q, I, z, a, j)
    BY <1>1, <2>1, <2>2 DEF Under
  <2>4. QED  BY <2>3, ReadUnder
<1>7. \A i \in 0 .. N : g[i + 1] = Put(g[i], q, N - i, z[N - i])
  BY <1>2, <1>4
<1>8. QED  BY <1>4, <1>5, <1>6, <1>7 DEF UpTrace, N

\* The loop of hebi_pshl, with a limb stored for each turn.
PartsTurned(m, r, lo, a, N, b) ==
    Loop(N, [m |-> m, q |-> 0], LAMBDA t, k :
        LET i == ShlOrder(k, N)
            x == Get(t.m, a, i)
        IN  [m |-> Put(t.m, r, lo + (i + 1), High(x, b) + t.q), q |-> Shl(x, b)])

\* The portable loop stores the limbs of the shift up.
LEMMA PartsUp ==
    ASSUME NEW m, NEW a, NEW q, NEW n, NEW k, NEW c, NEW z, UpShift(m, a, q, n, k, c, z),
           NEW r, NEW lo, Behind(q, r, lo), NEW N, N = 2 * n
    PROVE  LET s == PartsTurned(m, r, lo, a, N, k)
           IN  Stored(Limb, m, Put(s.m, r, lo + 0, s.q), q, 0 .. N, z)
<1> DEFINE s0 == [m |-> m, q |-> 0]
           X(t, j) == LET i == ShlOrder(j, N)
                          x == Get(t.m, a, i)
                      IN  [m |-> Put(t.m, r, lo + (i + 1), High(x, k) + t.q), q |-> Shl(x, k)]
           s == PartsTurned(m, r, lo, a, N, k)
<1>1. PICK g : UpTrace(m, a, q, N, z, g)
  BY UpStores
<1>2. /\ g[0] = m /\ Stored(Limb, m, g[N + 1], q, 0 .. N, z)
      /\ (\A i \in 0 .. N : g[i + 1] = Put(g[i], q, N - i, z[N - i]))
      /\ \A i \in 0 .. N - 1 : \A j \in 0 .. (N - 1) - i : Get(g[i], a, j) = Get(m, a, j)
  BY <1>1 DEF UpTrace
<1>3. /\ N \in Nat /\ c[0] = 0 /\ z[0] = c[N]
      /\ \A i \in 0 .. N - 1 : /\ c[i + 1] = Shl(Get(m, a, (N - 1) - i), k)
                               /\ z[N - i] = High(Get(m, a, (N - 1) - i), k) + c[i]
  BY DEF UpShift, UpParts
<1> DEFINE f == [i \in 0 .. N |-> [m |-> g[i], q |-> c[i]]]
<1>4. ASSUME NEW i \in 0 .. N - 1 PROVE f[i + 1] = X(f[i], i)
  <2> DEFINE e == (N - 1) - i
             u == f[i]
  <2>1. i \in 0 .. N /\ i + 1 \in 0 .. N /\ e \in 0 .. (N - 1) - i /\ e + 1 = N - i /\ e + 1 \in Nat
    BY <1>3
  <2>2. u.m = g[i] /\ u.q = c[i] /\ f[i + 1] = [m |-> g[i + 1], q |-> c[i + 1]]
    BY <2>1
  <2>3. ShlOrder(i, N) = e
    BY DEF ShlOrder
  <2> HIDE DEF u, f, e
  <2>4. X(u, i) = [m |-> Put(g[i], r, lo + (e + 1), High(Get(g[i], a, e), k) + c[i]), q |-> Shl(Get(g[i], a, e), k)]
    BY <2>2, <2>3
  <2>5. Get(g[i], a, e) = Get(m, a, e)
    BY <1>2, <2>1
  <2>6. c[i + 1] = Shl(Get(m, a, e), k) /\ z[N - i] = High(Get(m, a, e), k) + c[i]
    BY <1>3 DEF e
  <2> DEFINE d == e + 1
  <2>7. d \in Nat /\ d = N - i
    BY <2>1
  <2> HIDE DEF d
  <2>8. Put(g[i], r, lo + d, z[N - i]) = Put(g[i], q, d, z[N - i])
    BY <2>7, PutAt
  <2>9. g[i + 1] = Put(g[i], q, d, z[N - i])
    BY <1>2, <2>1, <2>7
  <2> HIDE DEF X
  <2>10. X(u, i) = [m |-> g[i + 1], q |-> c[i + 1]]
    BY <2>4, <2>5, <2>6, <2>8, <2>9 DEF d
  <2>11. QED  BY <2>2, <2>10 DEF u
<1>5. f[0] = s0 /\ f = [i \in 0 .. N |-> f[i]]
  BY <1>2, <1>3
<1>6. f[N] = [m |-> g[N], q |-> c[N]]
  BY <1>3
<1> HIDE DEF f, X, s, s0
<1> DEFINE Bodya(t, i) == X(t, i)
           Qa(h, i) == Given(h[i - 1], LAMBDA t : Bodya(t, i - 1))
           Eqa(h) == h = [i \in 0 .. N |-> IF i = 0 THEN s0 ELSE Qa(h, i)]
           Fa == CHOOSE h : Eqa(h)
<1>a1. s = Fa[N]
  BY DEF s, s0, X, PartsTurned, Loop, Given
<1>a2. \A h, i : Qa(h, i) = Bodya(h[i - 1], i - 1)
  BY DEF Given
<1>a3. \A i \in 0 .. N - 1 : f[i + 1] = Bodya(f[i], i)
  BY <1>4
<1> HIDE DEF Bodya, Qa
<1>a4. Eqa(Fa)
  <2>1. ASSUME NEW i \in 0 .. N, i # 0 PROVE f[i] = Qa(f, i)
    <3>1. i - 1 \in 0 .. N - 1 /\ (i - 1) + 1 = i
      BY <2>1, <1>3
    <3>2. QED  BY <1>a2, <1>a3, <3>1
  <2>2. Eqa(f)
    BY <1>5, <2>1
  <2>3. QED  BY <2>2
<1> HIDE DEF Fa
<1>a5. Fa[N] = f[N]
  <2>1. Fa[0] = f[0]
    BY <1>5, <1>a4, <1>3
  <2>2. ASSUME NEW i \in 0 .. N - 1, Fa[i] = f[i] PROVE Fa[i + 1] = f[i + 1]
    <3>1. i + 1 \in 0 .. N /\ i + 1 # 0 /\ (i + 1) - 1 = i
      BY <1>3
    <3>2. Fa[i + 1] = Bodya(Fa[i], i)
      BY <1>3, <1>a2, <1>a4, <3>1
    <3>3. QED  BY <1>a3, <2>2, <3>2
  <2>3. QED  BY <1>3, <2>1, <2>2, SameEnd
<1>7. s.m = g[N] /\ s.q = z[0]
  BY <1>3, <1>6, <1>a1, <1>a5
<1>8. Put(s.m, r, lo + 0, s.q) = g[N + 1]
  <2> DEFINE o == 0
  <2>1. o \in Nat /\ N - N = o /\ N \in 0 .. N
    BY <1>3
  <2>2. g[N + 1] = Put(g[N], q, o, z[o])
    BY <1>2, <2>1
  <2>3. s.q = z[o]
    BY <1>7
  <2> HIDE DEF o
  <2>4. Put(s.m, r, lo + o, s.q) = Put(s.m, q, o, s.q)
    BY <2>1, PutAt
  <2>5. Put(s.m, r, lo + o, s.q) = g[N + 1]
    BY <1>7, <2>2, <2>3, <2>4
  <2>6. QED  BY <2>5 DEF o
<1>9. Stored(Limb, m, Put(s.m, r, lo + 0, s.q), q, 0 .. N, z)
  BY <1>2, <1>8
<1>10. QED  BY <1>9 DEF s

\* The loop of the x86-64 version, with two quadwords for each turn.
PairsTurned(m, q, a, n, b) ==
    Loop(n, [m |-> m, q |-> 0], LAMBDA t, j :
        LET k  == n - 1 - j
            lo == Get(t.m, a, 2 * k)
            hi == Get(t.m, a, 2 * k + 1)
            up == Put(t.m, q, 2 * k + 2, High(hi, b) + t.q)
        IN  [m |-> Put(up, q, 2 * k + 1, Shifted(hi, lo, b)), q |-> Shl(lo, b)])

\* So does the x86-64 loop, two limbs each turn.
LEMMA PairsUp ==
    ASSUME NEW m, NEW a, NEW q, NEW n, NEW b, NEW c, NEW z, UpShift(m, a, q, n, b, c, z)
    PROVE  LET s == PairsTurned(m, q, a, n, b)
           IN  Stored(Limb, m, Put(s.m, q, 0, s.q), q, 0 .. 2 * n, z)
<1> DEFINE N == 2 * n
           s0 == [m |-> m, q |-> 0]
           X(t, j) == LET k  == n - 1 - j
                          lo == Get(t.m, a, 2 * k)
                          hi == Get(t.m, a, 2 * k + 1)
                          up == Put(t.m, q, 2 * k + 2, High(hi, b) + t.q)
                      IN  [m |-> Put(up, q, 2 * k + 1, Shifted(hi, lo, b)), q |-> Shl(lo, b)]
           s == PairsTurned(m, q, a, n, b)
<1>1. PICK g : UpTrace(m, a, q, N, z, g)
  BY UpStores
<1>2. /\ g[0] = m /\ Stored(Limb, m, g[N + 1], q, 0 .. N, z)
      /\ (\A i \in 0 .. N : g[i + 1] = Put(g[i], q, N - i, z[N - i]))
      /\ \A i \in 0 .. N - 1 : \A j \in 0 .. (N - 1) - i : Get(g[i], a, j) = Get(m, a, j)
  BY <1>1 DEF UpTrace
<1>3. /\ n \in Nat /\ N \in Nat /\ c[0] = 0 /\ z[0] = c[N]
      /\ \A i \in 0 .. N - 1 : /\ c[i + 1] = Shl(Get(m, a, (N - 1) - i), b)
                               /\ z[N - i] = High(Get(m, a, (N - 1) - i), b) + c[i]
  BY DEF UpShift, UpParts
<1>u. \A i \in 0 .. N - 2 : z[(N - 1) - i] = Shifted(Get(m, a, (N - 1) - i), Get(m, a, (N - 2) - i), b)
  BY UpLimbs
<1> DEFINE f == [i \in 0 .. n |-> [m |-> g[2 * i], q |-> c[2 * i]]]
<1>4. ASSUME NEW i \in 0 .. n - 1 PROVE f[i + 1] = X(f[i], i)
  <2> DEFINE k == n - 1 - i
             e == 2 * i
             u == f[i]
             lo == 2 * k
             h == 2 * k + 1
             top == 2 * k + 2
  <2>1. /\ e \in 0 .. N - 1 /\ e + 1 \in 0 .. N - 1 /\ e \in 0 .. N - 2 /\ e \in 0 .. N /\ e + 1 \in 0 .. N
        /\ lo = (N - 2) - e /\ h = (N - 1) - e /\ top = N - e /\ h = N - (e + 1) /\ lo = (N - 1) - (e + 1)
        /\ lo \in 0 .. (N - 1) - e /\ h \in 0 .. (N - 1) - e
        /\ 2 * (i + 1) = e + 1 + 1 /\ i \in 0 .. n /\ i + 1 \in 0 .. n
    BY <1>3
  <2>2. u.m = g[e] /\ u.q = c[e] /\ f[i + 1] = [m |-> g[e + 1 + 1], q |-> c[e + 1 + 1]]
    BY <2>1
  <2>4. X(u, i) = [m |-> Put(Put(u.m, q, top, High(Get(u.m, a, h), b) + u.q), q, h,
                             Shifted(Get(u.m, a, h), Get(u.m, a, lo), b)),
                   q |-> Shl(Get(u.m, a, lo), b)]
    OBVIOUS
  <2> HIDE DEF u, f, e, k, lo, h, top, N, X
  <2>5. Get(g[e], a, h) = Get(m, a, h) /\ Get(g[e], a, lo) = Get(m, a, lo)
    BY <1>2, <2>1
  <2>6. /\ c[e + 1 + 1] = Shl(Get(m, a, lo), b) /\ z[top] = High(Get(m, a, h), b) + c[e]
        /\ z[h] = Shifted(Get(m, a, h), Get(m, a, lo), b)
    <3>1. c[(e + 1) + 1] = Shl(Get(m, a, (N - 1) - (e + 1)), b)
      BY <1>3, <2>1
    <3>2. z[N - e] = High(Get(m, a, (N - 1) - e), b) + c[e]
      BY <1>3, <2>1
    <3>3. z[(N - 1) - e] = Shifted(Get(m, a, (N - 1) - e), Get(m, a, (N - 2) - e), b)
      BY <1>u, <2>1 DEF N
    <3>4. QED  BY <2>1, <3>1, <3>2, <3>3
  <2>7. g[e + 1] = Put(g[e], q, top, z[top]) /\ g[e + 1 + 1] = Put(g[e + 1], q, h, z[h])
    <3>1. g[e + 1] = Put(g[e], q, N - e, z[N - e])
      BY <1>2, <2>1
    <3>2. g[(e + 1) + 1] = Put(g[e + 1], q, N - (e + 1), z[N - (e + 1)])
      BY <1>2, <2>1
    <3>3. QED  BY <2>1, <3>1, <3>2
  <2>10. X(u, i) = [m |-> g[e + 1 + 1], q |-> c[e + 1 + 1]]
    BY <2>2, <2>4, <2>5, <2>6, <2>7
  <2>11. QED  BY <2>2, <2>10 DEF u
<1>5. f[0] = s0 /\ f = [i \in 0 .. n |-> f[i]]
  BY <1>2, <1>3
<1>6. f[n] = [m |-> g[N], q |-> c[N]]
  BY <1>3
<1> HIDE DEF f, X, s, s0, N
<1> DEFINE Bodya(t, i) == X(t, i)
           Qa(h, i) == Given(h[i - 1], LAMBDA t : Bodya(t, i - 1))
           Eqa(h) == h = [i \in 0 .. n |-> IF i = 0 THEN s0 ELSE Qa(h, i)]
           Fa == CHOOSE h : Eqa(h)
<1>a1. s = Fa[n]
  BY DEF s, s0, X, PairsTurned, Loop, Given
<1>a2. \A h, i : Qa(h, i) = Bodya(h[i - 1], i - 1)
  BY DEF Given
<1>a3. \A i \in 0 .. n - 1 : f[i + 1] = Bodya(f[i], i)
  BY <1>4
<1> HIDE DEF Bodya, Qa
<1>a4. Eqa(Fa)
  <2>1. ASSUME NEW i \in 0 .. n, i # 0 PROVE f[i] = Qa(f, i)
    <3>1. i - 1 \in 0 .. n - 1 /\ (i - 1) + 1 = i
      BY <2>1, <1>3
    <3>2. QED  BY <1>a2, <1>a3, <3>1
  <2>2. Eqa(f)
    BY <1>5, <2>1
  <2>3. QED  BY <2>2
<1> HIDE DEF Fa
<1>a5. Fa[n] = f[n]
  <2>1. Fa[0] = f[0]
    BY <1>5, <1>a4, <1>3
  <2>2. ASSUME NEW i \in 0 .. n - 1, Fa[i] = f[i] PROVE Fa[i + 1] = f[i + 1]
    <3>1. i + 1 \in 0 .. n /\ i + 1 # 0 /\ (i + 1) - 1 = i
      BY <1>3
    <3>2. Fa[i + 1] = Bodya(Fa[i], i)
      BY <1>3, <1>a2, <1>a4, <3>1
    <3>3. QED  BY <1>a3, <2>2, <3>2
  <2>3. QED  BY <1>3, <2>1, <2>2, SameEnd
<1>7. s.m = g[N] /\ s.q = z[0]
  BY <1>3, <1>6, <1>a1, <1>a5
<1>8. Put(s.m, q, 0, s.q) = g[N + 1]
  <2>1. N - N = 0 /\ N \in 0 .. N
    BY <1>3
  <2>2. g[N + 1] = Put(g[N], q, 0, z[0])
    BY <1>2, <2>1
  <2>3. QED  BY <1>7, <2>2
<1>9. Stored(Limb, m, Put(s.m, q, 0, s.q), q, 0 .. N, z)
  BY <1>2, <1>8
<1>10. QED  BY <1>9 DEF s, N

\* A shift up of n packets at a: T limbs change at q, which is r and some words more.
UpCall(m, r, a, q, n, words, T) ==
    /\ IsMemory(m) /\ n \in Nat /\ n > 0 /\ Behind(q, r, words) /\ Over(q, a) /\ T \in Nat /\ T >= 2 * n
    /\ \A i \in 0 .. T - 1 : HasLimb(m, q, i)
    /\ \A i \in 0 .. 2 * n - 1 : HasLimb(m, a, i)

\* The N limbs of n packets, S behind those that a shift by bits leaves, and T with
\* the limbs above that it clears.
UpEnds(n, N, odd, bits, S, T) ==
    /\ N = 2 * n /\ odd \in {0, 1} /\ bits \in Nat
    /\ bits = 0 => S = N /\ T = N + odd
    /\ bits # 0 => S = N + 1 /\ T = (N + 2) - odd

\* Whole quadwords: turns of the portable loop, and hebi_pmove below the top packet.
LEMMA WordsUpSame ==
    ASSUME NEW m, NEW r, NEW a, NEW q, NEW n, NEW words, NEW T, UpCall(m, r, a, q, n, words, T),
           NEW N, NEW odd, NEW bits, NEW S, UpEnds(n, N, odd, bits, S, T), bits = 0
    PROVE  LET zeros == ZeroedAbove(m, r, words, N, T - N)
               moved == MovedUp(zeros, r, words, a, N)
               above == IF odd = 1 THEN Put(m, q, N, 0) ELSE m
               top   == Turn("copy", above, q, a, a, n - 1, 1)
               store == IF n = 1 THEN top ELSE PMOVE128(top, q, a, n - 1)
           IN  /\ moved = store
               /\ \E z : Stored(Limb, m, store, q, 0 .. T - 1, z) /\ \A i \in N .. T - 1 : z[i] = 0
<1> DEFINE z == [i \in 0 .. T - 1 |-> IF i < N THEN Get(m, a, i) ELSE 0]
           zeros == ZeroedAbove(m, r, words, N, T - N)
           moved == MovedUp(zeros, r, words, a, N)
           above == IF odd = 1 THEN Put(m, q, N, 0) ELSE m
           top   == Turn("copy", above, q, a, a, n - 1, 1)
           store == IF n = 1 THEN top ELSE PMOVE128(top, q, a, n - 1)
<1>1. /\ IsMemory(m) /\ n \in Nat /\ n > 0 /\ Behind(q, r, words) /\ Over(q, a) /\ words \in Nat
      /\ (\A i \in 0 .. T - 1 : HasLimb(m, q, i)) /\ (\A i \in 0 .. N - 1 : HasLimb(m, a, i))
      /\ N \in Nat /\ T \in Nat /\ T - N = odd /\ odd \in Nat /\ odd \in {0, 1} /\ N = 2 * n /\ N >= 2 /\ N =< T
  BY DEF UpCall, Behind, UpEnds
<1>2. /\ \A i \in 0 .. N - 1 : z[i] = Get(m, a, i) /\ z[i] \in Limb
      /\ \A i \in N .. T - 1 : z[i] = 0
  <2>1. ASSUME NEW i \in 0 .. N - 1 PROVE z[i] = Get(m, a, i) /\ z[i] \in Limb
    <3>1. i \in 0 .. T - 1 /\ i < N
      BY <1>1
    <3>2. Get(m, a, i) \in Limb
      BY <1>1, LimbThere
    <3>3. QED  BY <3>1, <3>2
  <2>2. ASSUME NEW i \in N .. T - 1 PROVE z[i] = 0
    <3>1. i \in 0 .. T - 1 /\ ~(i < N)
      BY <1>1
    <3>2. QED  BY <3>1
  <2>3. QED  BY <2>1, <2>2
<1> HIDE DEF z
<1>3. Stored(Limb, m, zeros, q, N .. T - 1, z)
  <2> DEFINE k == T - N
  <2>1. k \in Nat /\ (N + k) - 1 = T - 1 /\ \A i \in 0 .. k - 1 : HasLimb(m, q, N + i) /\ z[N + i] = 0
    <3>1. \A i \in 0 .. k - 1 : N + i \in N .. T - 1 /\ N + i \in 0 .. T - 1
      BY <1>1
    <3>2. QED  BY <1>1, <1>2, <3>1
  <2> HIDE DEF k, zeros
  <2>2. Stored(Limb, m, ZeroedAbove(m, r, words, N, k), q, N .. (N + k) - 1, z)
    BY <1>1, <2>1, ZerosAbove
  <2>3. zeros = ZeroedAbove(m, r, words, N, k)
    BY DEF zeros, k
  <2>4. QED  BY <2>1, <2>2, <2>3
<1> HIDE DEF zeros
<1>4. Stored(Limb, m, moved, q, 0 .. T - 1, z)
  <2>1. IsMemory(zeros) /\ \A p, i : HasLimb(zeros, p, i) <=> HasLimb(m, p, i)
    BY <1>3, SameShape
  <2>2. ASSUME NEW i \in 0 .. N - 1 PROVE HasLimb(zeros, q, i) /\ HasLimb(zeros, a, i) /\ z[i] = Get(zeros, a, i)
    <3>1. HasLimb(m, q, i) /\ HasLimb(m, a, i)
      BY <1>1
    <3>2. Under(m, zeros, q, N .. T - 1, z, a, i)
      BY <1>1, <1>3, <3>1 DEF Under
    <3>3. Get(zeros, a, i) = Get(m, a, i)
      BY <3>2, ReadUnder
    <3>4. QED  BY <1>2, <2>1, <3>1, <3>3
  <2>3. Stored(Limb, zeros, moved, q, 0 .. N - 1, z)
    BY <1>1, <2>1, <2>2, WordsUp
  <2> HIDE DEF moved
  <2>4. Stored(Limb, m, moved, q, (N .. T - 1) \union (0 .. N - 1), z)
    BY <1>3, <2>3, StoredOver
  <2>5. \A i : i \in (N .. T - 1) \union (0 .. N - 1) <=> i \in 0 .. T - 1
    BY <1>1
  <2>6. QED  BY <2>4, <2>5, StoredAs
<1> HIDE DEF moved
<1>5. Stored(Limb, m, above, q, N .. T - 1, z)
  <2>0. Stored(Limb, m, m, q, {}, z)
    BY <1>1, StoredNone, LimbMemory DEF IsMemory
  <2>1. CASE odd = 1
    <3>1. N \in 0 .. T - 1 /\ N \in N .. T - 1 /\ z[N] = 0
      BY <1>1, <1>2, <2>1
    <3>2. HasLimb(m, q, N) /\ z[N] \in Limb /\ {} \subseteq Nat
      BY <1>1, <3>1, BaseFacts
    <3>3. Stored(Limb, m, Put(m, q, N, z[N]), q, {} \union {N}, z)
      BY <2>0, <3>2, StoredMore
    <3>4. above = Put(m, q, N, z[N])
      BY <2>1, <3>1
    <3> HIDE DEF above
    <3>5. \A i : i \in {} \union {N} <=> i \in N .. T - 1
      BY <1>1, <2>1
    <3>6. QED  BY <3>3, <3>4, <3>5, StoredAs
  <2>2. CASE odd = 0
    <3>1. above = m
      BY <2>2
    <3> HIDE DEF above
    <3>2. \A i : i \in {} <=> i \in N .. T - 1
      BY <1>1, <2>2
    <3>3. QED  BY <2>0, <3>1, <3>2, StoredAs
  <2>3. odd = 0 \/ odd = 1
    BY <1>1
  <2>4. QED  BY <2>1, <2>2, <2>3
<1> HIDE DEF above
<1>6. /\ IsMemory(above) /\ (\A p, i : HasLimb(above, p, i) <=> HasLimb(m, p, i))
      /\ above \in MemoryIn(Limb, above)
      /\ \A i \in 0 .. N - 1 : Get(above, a, i) = Get(m, a, i)
  <2>1. ASSUME NEW i \in 0 .. N - 1 PROVE Get(above, a, i) = Get(m, a, i)
    <3>1. Under(m, above, q, N .. T - 1, z, a, i)
      BY <1>1, <1>5 DEF Under
    <3>2. QED  BY <3>1, ReadUnder
  <2>2. QED  BY <1>5, <2>1, SameShape
<1>7. Stored(Limb, above, top, q, N - 2 .. N - 1, z)
  <2> DEFINE k == n - 1
             w == 1
             op == "copy"
  <2>1. /\ k \in Nat /\ w \in Nat /\ 2 * k = N - 2 /\ 2 * (k + w) - 1 = N - 1
        /\ \A i \in 0 .. 2 * w - 1 : 2 * k + i \in 0 .. N - 1 /\ 2 * k + i \in 0 .. T - 1
    BY <1>1
  <2>2. Stored(Limb, above, above, q, {}, z) /\ {} \subseteq Nat
    BY <1>6, StoredNone
  <2>3. \A i \in 0 .. N - 1 : Limbwise(op, above, a, a, i) = Get(above, a, i)
    BY DEF Limbwise
  <2>4. \A i \in 0 .. 2 * w - 1 : /\ HasLimb(above, q, 2 * k + i) /\ z[2 * k + i] \in Limb
                                  /\ z[2 * k + i] = Limbwise(op, above, a, a, 2 * k + i)
    BY <1>1, <1>2, <1>6, <2>1, <2>3
  <2>5. top = Turn(op, above, q, a, a, k, w)
    OBVIOUS
  <2> HIDE DEF k, w, op, top
  <2>6. Stored(Limb, above, Turn(op, above, q, a, a, k, w), q, {} \union (2 * k .. 2 * (k + w) - 1), z)
    BY <2>1, <2>2, <2>4, TurnStores
  <2>7. {} \union (2 * k .. 2 * (k + w) - 1) = N - 2 .. N - 1
    BY <2>1
  <2>8. QED  BY <2>5, <2>6, <2>7
<1> HIDE DEF top
<1>8. Stored(Limb, m, top, q, N - 2 .. T - 1, z)
  <2>1. Stored(Limb, m, top, q, (N .. T - 1) \union (N - 2 .. N - 1), z)
    BY <1>5, <1>7, StoredOver
  <2>2. \A i : i \in (N .. T - 1) \union (N - 2 .. N - 1) <=> i \in N - 2 .. T - 1
    BY <1>1
  <2>3. QED  BY <2>1, <2>2, StoredAs
<1>9. Stored(Limb, m, store, q, 0 .. T - 1, z)
  <2>1. CASE n = 1
    <3>1. store = top /\ N - 2 .. T - 1 = 0 .. T - 1
      BY <1>1, <2>1
    <3> HIDE DEF store
    <3>2. QED  BY <1>8, <3>1
  <2>2. CASE n # 1
    <3> DEFINE k == n - 1
    <3>1. k \in Nat /\ k > 0 /\ 2 * k = N - 2 /\ 2 * k \in Nat
      BY <1>1, <2>2
    <3>2. IsMemory(top) /\ \A p, i : HasLimb(top, p, i) <=> HasLimb(m, p, i)
      BY <1>8, SameShape
    <3>3. ASSUME NEW i \in 0 .. 2 * k - 1
          PROVE  HasLimb(top, q, i) /\ HasLimb(top, a, i) /\ z[i] \in Limb /\ z[i] = Get(top, a, i)
      <4>1. i \in 0 .. N - 1 /\ i \in 0 .. T - 1 /\ i < N - 2
        BY <1>1, <3>1
      <4>2. Under(m, top, q, N - 2 .. T - 1, z, a, i)
        BY <1>1, <1>8, <4>1 DEF Under
      <4>3. Get(top, a, i) = Get(m, a, i)
        BY <4>2, ReadUnder
      <4>4. QED  BY <1>1, <1>2, <3>2, <4>1, <4>3
    <3>4. store = PMOVE128(top, q, a, k)
      BY <2>2
    <3> HIDE DEF k, store
    <3>5. Stored(Limb, top, store, q, 0 .. 2 * k - 1, z)
      BY <3>1, <3>2, <3>3, <3>4, MoveStores
    <3>6. Stored(Limb, m, store, q, (N - 2 .. T - 1) \union (0 .. 2 * k - 1), z)
      BY <1>8, <3>5, StoredOver
    <3>7. \A i : i \in (N - 2 .. T - 1) \union (0 .. 2 * k - 1) <=> i \in 0 .. T - 1
      BY <1>1, <3>1
    <3>8. QED  BY <3>6, <3>7, StoredAs
  <2>3. QED  BY <2>1, <2>2
<1>10. moved = store
  <2> HIDE DEF store
  <2>1. QED  BY <1>4, <1>9, StoredSame
<1>11. QED  BY <1>2, <1>9, <1>10 DEF moved, store, zeros, top, above

\* Whole quadwords and some bits: a limb each turn, and a pair of limbs each turn.
LEMMA PartsUpSame ==
    ASSUME NEW m, NEW r, NEW a, NEW q, NEW n, NEW words, NEW T, UpCall(m, r, a, q, n, words, T),
           NEW N, NEW odd, NEW k, NEW S, UpEnds(n, N, odd, k, S, T), k \in 1 .. LimbBit - 1
    PROVE  LET zeros == ZeroedAbove(m, r, words, N, T - N)
               s     == PartsTurned(zeros, r, words, a, N, k)
               moved == Put(s.m, r, words + 0, s.q)
               above == IF odd = 1 THEN m ELSE Put(m, q, N + 1, 0)
               down  == PairsTurned(above, q, a, n, k)
               store == Put(down.m, q, 0, down.q)
           IN  /\ moved = store
               /\ \E z : Stored(Limb, m, store, q, 0 .. T - 1, z) /\ \A i \in N + 1 .. T - 1 : z[i] = 0
<1> DEFINE c == [i \in 0 .. N |-> IF i = 0 THEN 0 ELSE Shl(Get(m, a, N - i), k)]
           z == [i \in 0 .. T - 1 |->
                    IF i = 0 THEN c[N] ELSE IF i =< N THEN High(Get(m, a, i - 1), k) + c[N - i] ELSE 0]
           zf == [i \in 0 .. T - 1 |-> 0]
           zeros == ZeroedAbove(m, r, words, N, T - N)
           s     == PartsTurned(zeros, r, words, a, N, k)
           moved == Put(s.m, r, words + 0, s.q)
           above == IF odd = 1 THEN m ELSE Put(m, q, N + 1, 0)
           down  == PairsTurned(above, q, a, n, k)
           store == Put(down.m, q, 0, down.q)
<1>1. /\ IsMemory(m) /\ n \in Nat /\ n > 0 /\ Behind(q, r, words) /\ Over(q, a) /\ words \in Nat
      /\ (\A i \in 0 .. T - 1 : HasLimb(m, q, i)) /\ (\A i \in 0 .. N - 1 : HasLimb(m, a, i))
      /\ N \in Nat /\ T \in Nat /\ T - N = 2 - odd /\ odd \in Nat /\ odd \in {0, 1} /\ N = 2 * n /\ N >= 2 /\ N + 1 =< T /\ T =< N + 2
  BY DEF UpCall, Behind, UpEnds
<1>2. /\ c[0] = 0 /\ z[0] = c[N]
      /\ \A i \in 0 .. N - 1 : /\ c[i + 1] = Shl(Get(m, a, (N - 1) - i), k)
                               /\ z[N - i] = High(Get(m, a, (N - 1) - i), k) + c[i]
  <2>1. c[0] = 0 /\ z[0] = c[N]
    BY <1>1
  <2>2. ASSUME NEW i \in 0 .. N - 1 PROVE c[i + 1] = Shl(Get(m, a, (N - 1) - i), k)
    <3>1. i + 1 \in 0 .. N /\ i + 1 # 0 /\ N - (i + 1) = (N - 1) - i
      BY <1>1
    <3>2. QED  BY <3>1
  <2> HIDE DEF c
  <2>3. ASSUME NEW i \in 0 .. N - 1 PROVE z[N - i] = High(Get(m, a, (N - 1) - i), k) + c[i]
    <3>1. N - i \in 0 .. T - 1 /\ N - i # 0 /\ N - i =< N /\ (N - i) - 1 = (N - 1) - i /\ N - (N - i) = i
      BY <1>1
    <3>2. QED  BY <3>1
  <2>4. QED  BY <2>1, <2>2, <2>3
<1>3. \A i \in N + 1 .. T - 1 : z[i] = 0
  <2> HIDE DEF c
  <2>1. ASSUME NEW i \in N + 1 .. T - 1 PROVE z[i] = 0
    <3>1. i \in 0 .. T - 1 /\ i # 0 /\ ~(i =< N)
      BY <1>1
    <3>2. QED  BY <3>1
  <2>2. QED  BY <2>1
<1>4. \A i \in 0 .. T - 1 : zf[i] = 0
  OBVIOUS
<1> HIDE DEF c, z, zf
<1>5. Stored(Limb, m, zeros, q, N .. T - 1, zf)
  <2> DEFINE e == T - N
  <2>1. e \in Nat /\ (N + e) - 1 = T - 1 /\ \A i \in 0 .. e - 1 : HasLimb(m, q, N + i) /\ zf[N + i] = 0
    <3>1. \A i \in 0 .. e - 1 : N + i \in 0 .. T - 1
      BY <1>1
    <3>2. QED  BY <1>1, <1>4, <3>1
  <2> HIDE DEF e, zeros
  <2>2. Stored(Limb, m, ZeroedAbove(m, r, words, N, e), q, N .. (N + e) - 1, zf)
    BY <1>1, <2>1, ZerosAbove
  <2>3. zeros = ZeroedAbove(m, r, words, N, e)
    BY DEF zeros, e
  <2>4. QED  BY <2>1, <2>2, <2>3
<1> HIDE DEF zeros
<1>6. Stored(Limb, m, above, q, N + 1 .. T - 1, z)
  <2>0. Stored(Limb, m, m, q, {}, z)
    BY <1>1, StoredNone, LimbMemory DEF IsMemory
  <2>1. CASE odd = 0
    <3>1. N + 1 \in 0 .. T - 1 /\ N + 1 \in N + 1 .. T - 1 /\ z[N + 1] = 0
      BY <1>1, <1>3, <2>1
    <3>2. HasLimb(m, q, N + 1) /\ z[N + 1] \in Limb /\ {} \subseteq Nat
      BY <1>1, <3>1, BaseFacts
    <3>3. Stored(Limb, m, Put(m, q, N + 1, z[N + 1]), q, {} \union {N + 1}, z)
      <4> DEFINE e == N + 1
      <4>1. HasLimb(m, q, e) /\ z[e] \in Limb
        BY <3>2
      <4> HIDE DEF e
      <4>2. Stored(Limb, m, Put(m, q, e, z[e]), q, {} \union {e}, z)
        BY <2>0, <3>2, <4>1, StoredMore
      <4>3. QED  BY <4>2 DEF e
    <3>4. above = Put(m, q, N + 1, z[N + 1])
      BY <2>1, <3>1
    <3> HIDE DEF above
    <3>5. \A i : i \in {} \union {N + 1} <=> i \in N + 1 .. T - 1
      BY <1>1, <2>1
    <3>6. QED  BY <3>3, <3>4, <3>5, StoredAs
  <2>2. CASE odd = 1
    <3>1. above = m
      BY <2>2
    <3> HIDE DEF above
    <3>2. \A i : i \in {} <=> i \in N + 1 .. T - 1
      BY <1>1, <2>2
    <3>3. QED  BY <2>0, <3>1, <3>2, StoredAs
  <2>3. odd = 0 \/ odd = 1
    BY <1>1
  <2>4. QED  BY <2>1, <2>2, <2>3
<1> HIDE DEF above
<1>7. ASSUME NEW t, NEW y, NEW l, l \in {N, N + 1}, Stored(Limb, m, t, q, l .. T - 1, y)
      PROVE  UpShift(t, a, q, n, k, c, z)
  <2>1. IsMemory(t) /\ \A p, i : HasLimb(t, p, i) <=> HasLimb(m, p, i)
    BY <1>7, SameShape
  <2>2. ASSUME NEW i \in 0 .. N - 1 PROVE Get(t, a, i) = Get(m, a, i)
    <3>1. l .. T - 1 \subseteq Nat /\ HasLimb(m, a, i) /\ \A j \in l .. T - 1 : j > i
      BY <1>1, <1>7
    <3>2. Under(m, t, q, l .. T - 1, y, a, i)
      BY <1>1, <1>7, <3>1 DEF Under
    <3>3. QED  BY <3>2, ReadUnder
  <2>3. \A i \in 0 .. N - 1 : Get(t, a, (N - 1) - i) = Get(m, a, (N - 1) - i)
    <3>1. \A i \in 0 .. N - 1 : (N - 1) - i \in 0 .. N - 1
      BY <1>1
    <3>2. QED  BY <2>2, <3>1
  <2>4. UpParts(t, a, N, k, c, z)
    BY <1>2, <2>3 DEF UpParts
  <2>5. \A i \in 0 .. N : HasLimb(t, q, i)
    <3>1. \A i \in 0 .. N : i \in 0 .. T - 1
      BY <1>1
    <3>2. QED  BY <1>1, <2>1, <3>1
  <2>6. QED  BY <1>1, <2>1, <2>4, <2>5 DEF UpShift
<1>8. Stored(Limb, m, moved, q, 0 .. T - 1, z)
  <2>1. UpShift(zeros, a, q, n, k, c, z)
    BY <1>5, <1>7
  <2>2. Stored(Limb, zeros, moved, q, 0 .. N, z)
    BY <1>1, <2>1, PartsUp
  <2> HIDE DEF moved
  <2>3. \A i \in N .. T - 1 : i \in 0 .. N \/ zf[i] = z[i]
    <3>1. ASSUME NEW i \in N .. T - 1 PROVE i \in 0 .. N \/ (i \in N + 1 .. T - 1 /\ i \in 0 .. T - 1)
      BY <1>1
    <3>2. QED  BY <1>3, <1>4, <3>1
  <2>4. Stored(Limb, m, moved, q, (N .. T - 1) \union (0 .. N), z)
    BY <1>5, <2>2, <2>3, StoredOver
  <2>5. \A i : i \in (N .. T - 1) \union (0 .. N) <=> i \in 0 .. T - 1
    BY <1>1
  <2>6. QED  BY <2>4, <2>5, StoredAs
<1>9. Stored(Limb, m, store, q, 0 .. T - 1, z)
  <2>1. UpShift(above, a, q, n, k, c, z)
    BY <1>6, <1>7
  <2>2. Stored(Limb, above, store, q, 0 .. N, z)
    <3>1. N = 2 * n
      BY <1>1
    <3>2. QED  BY <2>1, <3>1, PairsUp
  <2> HIDE DEF store
  <2>4. Stored(Limb, m, store, q, (N + 1 .. T - 1) \union (0 .. N), z)
    BY <1>6, <2>2, StoredOver
  <2>5. \A i : i \in (N + 1 .. T - 1) \union (0 .. N) <=> i \in 0 .. T - 1
    BY <1>1
  <2>6. QED  BY <2>4, <2>5, StoredAs
<1>10. moved = store
  <2> HIDE DEF store, moved
  <2>1. QED  BY <1>8, <1>9, StoredSame
<1>11. QED  BY <1>3, <1>9, <1>10 DEF moved, store, zeros, s, above, down

\* The packets that b bits need, in whole quadwords and the bits left over.
LEMMA UpRoom ==
    ASSUME NEW b \in Nat
    PROVE  LET words == b \div LimbBit
               bits  == b % LimbBit
               odd   == words % 2
           IN  /\ words \in Nat /\ bits \in 0 .. LimbBit - 1 /\ odd \in {0, 1} /\ words = 2 * (words \div 2) + odd
               /\ DivUp(b, PacketBit) \in Nat
               /\ 2 * DivUp(b, PacketBit) = words + (IF bits = 0 THEN odd ELSE 2 - odd)
<1> DEFINE L == LimbBit
           words == b \div L
           bits == b % L
           v == words \div 2
           odd == words % 2
           P == 2 * L
           e == L * odd + bits
<1>1. L \in Nat \ {0} /\ PacketBit = P /\ P \in Nat \ {0}
  BY PacketsAssumption, PX86Assumption DEF PacketBit
<1>2. words \in Nat /\ bits \in 0 .. L - 1 /\ b = L * words + bits
  BY <1>1, DivMod
<1>3. v \in Nat /\ odd \in 0 .. 1 /\ words = 2 * v + odd
  <2> HIDE DEF words
  <2>1. 2 \in Nat \ {0}
    OBVIOUS
  <2>2. v \in Nat /\ odd \in 0 .. 2 - 1 /\ words = 2 * v + odd
    BY <1>2, <2>1, DivMod
  <2>3. QED  BY <2>2
<1>4. DivUp(b, PacketBit) = (b + (P - 1)) \div P
  <2>1. b + P - 1 = b + (P - 1)
    BY <1>1
  <2>2. QED  BY <1>1, <2>1 DEF DivUp
<1> HIDE DEF words, bits, v, odd, L
<1>5. odd = 0 \/ odd = 1
  BY <1>3
<1>6. e \in 0 .. P - 1 /\ b = P * v + e /\ (e = 0 <=> (odd = 0 /\ bits = 0))
  <2>1. CASE odd = 0
    BY <1>1, <1>2, <1>3, <2>1
  <2>2. CASE odd = 1
    BY <1>1, <1>2, <1>3, <2>2
  <2>3. QED  BY <1>5, <2>1, <2>2
<1> HIDE DEF e, P
<1>7. b + (P - 1) \in Nat
  BY <1>1
<1>8. (b + (P - 1)) \div P = IF e = 0 THEN v ELSE v + 1
  <2> DEFINE x == b + (P - 1)
  <2>0. x \in Nat
    BY <1>7
  <2>1. CASE e = 0
    <3>1. x = P * v + (P - 1) /\ P - 1 \in 0 .. P - 1
      BY <1>1, <1>3, <1>6, <2>1
    <3> HIDE DEF x
    <3>2. x \div P = v
      BY <1>1, <1>3, <2>0, <3>1, DivIs
    <3>3. QED  BY <2>1, <3>2 DEF x
  <2>2. CASE e # 0
    <3>1. P * (v + 1) = P * v + P
      BY <1>1, <1>3
    <3>2. x = P * (v + 1) + (e - 1) /\ e - 1 \in 0 .. P - 1
      <4> DEFINE y == P * v
      <4>1. y \in Nat /\ b = y + e
        BY <1>1, <1>3, <1>6
      <4> HIDE DEF y
      <4>2. b + (P - 1) = (y + P) + (e - 1) /\ e - 1 \in 0 .. P - 1
        BY <1>1, <1>6, <2>2, <4>1
      <4>3. QED  BY <3>1, <4>2 DEF y
    <3> HIDE DEF x
    <3>3. x \div P = v + 1
      BY <1>1, <1>3, <2>0, <3>2, DivIs
    <3>4. QED  BY <2>2, <3>3 DEF x
  <2>3. QED  BY <2>1, <2>2
<1>9. 2 * ((b + (P - 1)) \div P) = words + (IF bits = 0 THEN odd ELSE 2 - odd) /\ (b + (P - 1)) \div P \in Nat
  BY <1>2, <1>3, <1>5, <1>6, <1>8
<1>10. QED  BY <1>1, <1>2, <1>3, <1>4, <1>5, <1>9 DEF words, bits, odd, v, L

\* The limbs of a shifted up to r, in the portable version and in the x86-64 version.
UpMoved(m, r, a, bits, words, N, k) ==
    LET zeros == ZeroedAbove(m, r, words, N, k)
    IN  IF bits = 0 THEN MovedUp(zeros, r, words, a, N)
        ELSE LET s == PartsTurned(zeros, r, words, a, N, bits) IN Put(s.m, r, words + 0, s.q)

\* The part of pshl_x86 that stores the shifted quadwords.
UpPairs(m, a, q, n, bits, odd) ==
    IF bits = 0
    THEN LET above == IF odd THEN Put(m, q, 2 * n, 0) ELSE m
             top   == Turn("copy", above, q, a, a, n - 1, 1)
         IN  IF n = 1 THEN top ELSE PMOVE128(top, q, a, n - 1)
    ELSE LET above == IF odd THEN m ELSE Put(m, q, 2 * n + 1, 0)
             down  == PairsTurned(above, q, a, n, bits)
         IN  Put(down.m, q, 0, down.q)

\* The length behind a shift up.
UpLength(v, r, words, bits, off, nl, rn) ==
    LET seen == IF bits # 0 THEN nl - off .. nl
                ELSE (nl - (IF off = 0 THEN PacketLimbs ELSE off)) .. nl - 1
    IN  IF \E i \in seen : Get(v, r, words + i) # 0 THEN rn ELSE rn - 1

\* pshl in these parts.
LEMMA PshlIs ==
    ASSUME NEW m, NEW r, NEW a, NEW b, NEW n, n # 0
    PROVE  LET bits  == b % LimbBit
               words == b \div LimbBit
               rn    == n + DivUp(b, PacketBit)
               nl    == n * PacketLimbs
               v     == UpMoved(m, r, a, bits, words, nl, rn * PacketLimbs - words - nl)
           IN  pshl(m, r, a, b, n) = [m |-> Zeroed(v, r, words),
                                      n |-> UpLength(v, r, words, bits, words % PacketLimbs, nl, rn)]
  BY DEF pshl, UpMoved, UpLength, Zeroed, ZeroedAbove, MovedUp, PartsTurned

\* pshl_x86 in these parts.
LEMMA PshlX86Is ==
    ASSUME NEW m, NEW r, NEW a, NEW b, NEW n
    PROVE  LET bits  == b % LimbBit
               words == b \div LimbBit
               odd   == words % 2 = 1
               rn    == n + DivUp(b, PacketBit)
               v     == UpPairs(m, a, [r EXCEPT !.at = @ + words], n, bits, odd)
               low   == IF odd THEN Put(v, r, words - 1, 0) ELSE v
           IN  pshl_x86(m, r, a, b, n) = [m |-> IF words \div 2 = 0 THEN low ELSE PZERO128(low, r, words \div 2),
                                          n |-> rn - Bit(TopClear(v, r, rn))]
  BY DEF pshl_x86, UpPairs, PairsTurned

\* The quadwords below the shifted ones: the odd one first, then whole packets.
LEMMA ZerosSame ==
    ASSUME NEW m, IsMemory(m), NEW r, r.at \in Nat, NEW words \in Nat, NEW h \in Nat, NEW odd \in {0, 1},
           words = 2 * h + odd, \A i \in 0 .. words - 1 : HasLimb(m, r, i)
    PROVE  LET low == IF odd = 1 THEN Put(m, r, words - 1, 0) ELSE m
           IN  Zeroed(m, r, words) = IF h = 0 THEN low ELSE PZERO128(low, r, h)
<1> DEFINE low == IF odd = 1 THEN Put(m, r, words - 1, 0) ELSE m
           u == IF h = 0 THEN low ELSE PZERO128(low, r, h)
           x == [i \in 0 .. words - 1 |-> 0]
<1>1. \A i \in 0 .. words - 1 : x[i] = 0
  OBVIOUS
<1> HIDE DEF x
<1>2. Stored(Limb, m, Zeroed(m, r, words), r, 0 .. words - 1, x)
  BY <1>1, ZerosBelow
<1>3. Stored(Limb, m, low, r, words - odd .. words - 1, x)
  <2>0. Stored(Limb, m, m, r, {}, x)
    BY StoredNone, LimbMemory DEF IsMemory
  <2>1. CASE odd = 1
    <3> DEFINE e == words - 1
    <3>1. e \in 0 .. words - 1 /\ {} \union {e} = words - odd .. words - 1
      BY <2>1
    <3>2. low = Put(m, r, e, x[e])
      BY <1>1, <2>1, <3>1
    <3>3. HasLimb(m, r, e) /\ x[e] \in Limb
      BY <1>1, <3>1, BaseFacts
    <3> HIDE DEF e, low
    <3>4. Stored(Limb, m, Put(m, r, e, x[e]), r, {} \union {e}, x)
      BY <2>0, <3>3, StoredMore
    <3>5. QED  BY <3>1, <3>2, <3>4
  <2>2. CASE odd = 0
    <3>1. low = m /\ words - odd .. words - 1 = {}
      BY <2>2
    <3> HIDE DEF low
    <3>2. QED  BY <2>0, <3>1
  <2>3. QED  BY <2>1, <2>2
<1> HIDE DEF low
<1>4. IsMemory(low) /\ \A i \in 0 .. 2 * h - 1 : HasLimb(low, r, i)
  <2>1. \A i \in 0 .. 2 * h - 1 : i \in 0 .. words - 1
    OBVIOUS
  <2>2. QED  BY <1>3, <2>1, SameShape
<1>5. Stored(Limb, m, u, r, 0 .. words - 1, x)
  <2>1. CASE h = 0
    <3>1. words - odd .. words - 1 = 0 .. words - 1 /\ u = low
      BY <2>1
    <3> HIDE DEF u
    <3>2. QED  BY <1>3, <3>1
  <2>2. CASE h # 0
    <3> DEFINE N == 2 * h
    <3>1. u = PZERO128(low, r, h) /\ N \in Nat /\ h * PacketLimbs = N
      BY <2>2, PX86Assumption
    <3>2. PZERO128(low, r, h) = pzero(low, r, h)
      <4> DEFINE op == "zero"
      <4>1. op \in Op /\ Operands(op, low, r, r, r, 2 * h)
        BY DEF Op, Operands
      <4>2. Unrolled("zero", low, r, r, r, h) = pzero(low, r, h)
        BY <1>4, <4>1, UnrolledSame
      <4>3. QED  BY <4>2 DEF PZERO128
    <3>3. pzero(low, r, h) = Zeroed(low, r, N)
      <4>1. pzero(low, r, h) = Zeroed(low, r, h * PacketLimbs)
        BY DEF pzero, Zeroed
      <4>2. QED  BY <3>1, <4>1
    <3>4. \A i \in 0 .. N - 1 : x[i] = 0 /\ HasLimb(low, r, i)
      <4>1. \A i \in 0 .. N - 1 : i \in 0 .. words - 1
        OBVIOUS
      <4>2. QED  BY <1>1, <1>4, <4>1
    <3> HIDE DEF N, u
    <3>5. Stored(Limb, low, u, r, 0 .. N - 1, x)
      BY <1>4, <3>1, <3>2, <3>3, <3>4, ZerosBelow
    <3>6. Stored(Limb, m, u, r, (words - odd .. words - 1) \union (0 .. N - 1), x)
      BY <1>3, <3>5, StoredOver
    <3>7. \A i : i \in (words - odd .. words - 1) \union (0 .. N - 1) <=> i \in 0 .. words - 1
      BY DEF N
    <3>8. QED  BY <3>6, <3>7, StoredAs
  <2>3. QED  BY <2>1, <2>2
<1> HIDE DEF u
<1>6. Zeroed(m, r, words) = u
  BY <1>2, <1>5, StoredSame
<1>7. QED  BY <1>6 DEF u, low

\* The top limbs of a shift up, which are zero from the limb S on.
UpTop(m, v, r, q, words, S, T, z) ==
    /\ Behind(q, r, words) /\ Stored(Limb, m, v, q, 0 .. T - 1, z) /\ T \in Nat /\ S \in Nat
    /\ \A i \in 0 .. T - 1 : HasLimb(m, q, i)
    /\ \A i \in S .. T - 1 : z[i] = 0

\* The length depends on the highest packet in both versions.
LEMMA UpLengthSame ==
    ASSUME NEW m, NEW v, NEW r, NEW q, NEW words \in Nat, NEW S, NEW T, NEW z, UpTop(m, v, r, q, words, S, T, z),
           NEW n \in Nat, n > 0, NEW N, NEW odd, NEW bits, NEW rn \in Nat, UpEnds(n, N, odd, bits, S, T),
           2 * rn = words + T
    PROVE  UpLength(v, r, words, bits, odd, N, rn) = rn - Bit(TopClear(v, r, rn))
<1>1. Behind(q, r, words) /\ Stored(Limb, m, v, q, 0 .. T - 1, z) /\ T \in Nat /\ S \in Nat
      /\ (\A i \in 0 .. T - 1 : HasLimb(m, q, i)) /\ (\A i \in S .. T - 1 : z[i] = 0)
      /\ N \in Nat /\ N >= 2 /\ T >= N /\ odd \in {0, 1} /\ bits \in Nat
      /\ (bits = 0 => S = N /\ T = N + odd) /\ (bits # 0 => S = N + 1 /\ T = (N + 2) - odd)
  BY DEF UpTop, UpEnds
<1>2. ASSUME NEW i \in 0 .. T - 1 PROVE Get(v, r, words + i) = z[i]
  <2>1. Get(v, q, i) = z[i]
    <3>1. i \in 0 .. T - 1 /\ HasLimb(m, q, i)
      BY <1>1
    <3>2. QED  BY <1>1, <3>1, StoredThere
  <2>2. i \in Nat
    OBVIOUS
  <2>3. Get(v, r, words + i) = Get(v, q, i)
    BY <1>1, <2>2, PutAt
  <2>4. QED  BY <2>1, <2>3
<1> DEFINE seen == IF bits # 0 THEN N - odd .. N ELSE (N - (IF odd = 0 THEN 2 ELSE odd)) .. N - 1
           full == \E i \in seen : Get(v, r, words + i) # 0
           some == z[T - 2] # 0 \/ z[T - 1] # 0
<1>3. TopClear(v, r, rn) <=> ~some
  <2>1. 2 * (rn - 1) = words + (T - 2) /\ 2 * (rn - 1) + 1 = words + (T - 1) /\ T - 2 \in 0 .. T - 1 /\ T - 1 \in 0 .. T - 1
    BY <1>1
  <2>2. TopClear(v, r, rn) <=> (Get(v, r, 2 * (rn - 1)) = 0 /\ Get(v, r, 2 * (rn - 1) + 1) = 0)
    BY DEF TopClear, Clear
  <2> DEFINE e == T - 2
             f == T - 1
  <2>3. Get(v, r, words + e) = z[e] /\ Get(v, r, words + f) = z[f]
    BY <1>2, <2>1
  <2>4. QED  BY <2>1, <2>2, <2>3
<1>4. full <=> some
  <2>0. \A i \in seen : i \in 0 .. T - 1 /\ (i = T - 2 \/ i = T - 1)
    BY <1>1
  <2>1. full => some
    BY <1>2, <2>0
  <2>2. ASSUME NEW i \in {T - 2, T - 1}, z[i] # 0 PROVE i \in seen
    <3>1. i \in 0 .. T - 1 /\ i < S
      BY <1>1, <2>2
    <3>2. QED  BY <1>1, <2>2, <3>1
  <2> HIDE DEF seen
  <2>3. some => full
    BY <1>2, <2>0, <2>2
  <2>4. QED  BY <2>1, <2>3
<1>5. UpLength(v, r, words, bits, odd, N, rn) = IF full THEN rn ELSE rn - 1
  <2>1. seen = IF bits # 0 THEN N - odd .. N ELSE (N - (IF odd = 0 THEN PacketLimbs ELSE odd)) .. N - 1
    BY PX86Assumption
  <2> HIDE DEF seen
  <2>2. QED  BY <2>1 DEF UpLength
<1> HIDE DEF full, some
<1>6. QED  BY <1>3, <1>4, <1>5 DEF Bit

\* A pointer to a limb.
Pointer(p) == \E b : \E i \in Nat : p = [buf |-> b, at |-> i]

\* A shift up of the n packets at a by b bits has room at r, which is not below a
\* in its buffer.
RoomUp(m, r, a, b, n) ==
    /\ IsMemory(m) /\ n \in Nat /\ n > 0 /\ b \in Nat /\ Pointer(r) /\ Pointer(a) /\ Over(r, a)
    /\ \A i \in 0 .. 2 * (n + DivUp(b, PacketBit)) - 1 : HasLimb(m, r, i)
    /\ \A i \in 0 .. 2 * n - 1 : HasLimb(m, a, i)

\* hebi_pshl of the x86-64 driver, which shifts a pair of quadwords each turn,
\* leaves the memory and returns the length that the portable one does.
THEOREM ShiftUpSame ==
    ASSUME NEW m, NEW r, NEW a, NEW b, NEW n, RoomUp(m, r, a, b, n)
    PROVE  pshl_x86(m, r, a, b, n) = pshl(m, r, a, b, n)
<1> DEFINE words == b \div LimbBit
           bits  == b % LimbBit
           odd   == words % 2
           h     == words \div 2
           up    == DivUp(b, PacketBit)
           rn    == n + up
           N     == 2 * n
           T     == 2 * rn - words
           S     == IF bits = 0 THEN N ELSE N + 1
           q     == [r EXCEPT !.at = @ + words]
           v     == UpMoved(m, r, a, bits, words, N, T - N)
           u     == UpPairs(m, a, q, n, bits, odd = 1)
           low   == IF odd = 1 THEN Put(u, r, words - 1, 0) ELSE u
<1>1. /\ words \in Nat /\ bits \in 0 .. LimbBit - 1 /\ odd \in {0, 1} /\ words = 2 * h + odd
      /\ up \in Nat /\ 2 * up = words + (IF bits = 0 THEN odd ELSE 2 - odd) /\ h \in Nat
  <2>1. b \in Nat
    BY DEF RoomUp
  <2>2. words \in Nat /\ bits \in 0 .. LimbBit - 1 /\ odd \in {0, 1} /\ words = 2 * h + odd
        /\ up \in Nat /\ 2 * up = words + (IF bits = 0 THEN odd ELSE 2 - odd)
    BY <2>1, UpRoom
  <2> HIDE DEF words
  <2>3. h \in Nat
    BY <2>2
  <2>4. QED  BY <2>2, <2>3
<1>2. /\ IsMemory(m) /\ n \in Nat /\ n > 0 /\ Pointer(r) /\ Over(r, a)
      /\ (\A i \in 0 .. 2 * rn - 1 : HasLimb(m, r, i)) /\ \A i \in 0 .. N - 1 : HasLimb(m, a, i)
  BY DEF RoomUp
<1> HIDE DEF words, bits, odd, h, up
<1>3. /\ rn \in Nat /\ N \in Nat /\ T \in Nat /\ 2 * rn = words + T /\ T >= N /\ n # 0
      /\ (bits = 0 => S = N /\ T = N + odd) /\ (bits # 0 => S = N + 1 /\ T = (N + 2) - odd)
      /\ N = 2 * n /\ S \in Nat
  <2>1. 2 * rn = N + 2 * up
    BY <1>1, <1>2
  <2>2. CASE bits = 0
    BY <1>1, <1>2, <2>1, <2>2
  <2>3. CASE bits # 0
    BY <1>1, <1>2, <2>1, <2>3
  <2>4. QED  BY <2>2, <2>3
<1>4. Behind(q, r, words) /\ Over(q, a) /\ r.at \in Nat
  <2>1. PICK c : \E e \in Nat : r = [buf |-> c, at |-> e]
    BY <1>2 DEF Pointer
  <2>1a. PICK e \in Nat : r = [buf |-> c, at |-> e]
    BY <2>1
  <2>2. q = [buf |-> c, at |-> e + words]
    BY <2>1a
  <2> HIDE DEF q
  <2>3. r.buf = c /\ r.at = e /\ q.buf = c /\ q.at = e + words
    BY <2>1a, <2>2
  <2>4. Behind(q, r, words)
    BY <1>1, <2>3 DEF Behind
  <2>5. a.buf # c \/ (e \in Nat /\ e >= a.at)
    BY <1>2, <2>3 DEF Over
  <2>6. a.at \in Nat
    BY DEF RoomUp, Pointer
  <2>8. Over(q, a)
    BY <1>1, <2>3, <2>5, <2>6 DEF Over
  <2>9. QED  BY <2>3, <2>4, <2>8
<1>4a. UpEnds(n, N, odd, bits, S, T)
  <2> HIDE DEF S, T, N
  <2>1. QED  BY <1>1, <1>3 DEF UpEnds
<1>5. pshl(m, r, a, b, n) = [m |-> Zeroed(v, r, words), n |-> UpLength(v, r, words, bits, odd, N, rn)]
  <2> DEFINE nl == n * PacketLimbs
             k  == rn * PacketLimbs - words - nl
             o  == words % PacketLimbs
  <2>1. nl = N /\ k = T - N /\ o = odd
    BY <1>1, <1>2, <1>3, PX86Assumption DEF odd
  <2> HIDE DEF T, N
  <2>2. pshl(m, r, a, b, n) = [m |-> Zeroed(UpMoved(m, r, a, bits, words, nl, k), r, words),
                               n |-> UpLength(UpMoved(m, r, a, bits, words, nl, k), r, words, bits, o, nl, rn)]
    BY <1>3, PshlIs DEF words, bits, up
  <2> HIDE DEF nl, k, o
  <2>3. QED  BY <2>1, <2>2
<1>6. pshl_x86(m, r, a, b, n) = [m |-> IF h = 0 THEN low ELSE PZERO128(low, r, h), n |-> rn - Bit(TopClear(u, r, rn))]
  BY PshlX86Is DEF words, bits, odd, h, up
<1> HIDE DEF q, T, rn, N
<1>7. v = u /\ \E z : Stored(Limb, m, u, q, 0 .. T - 1, z) /\ \A i \in S .. T - 1 : z[i] = 0
  <2>1. UpCall(m, r, a, q, n, words, T)
    <3>1. ASSUME NEW i \in 0 .. T - 1 PROVE HasLimb(m, q, i)
      <4>1. words + i \in 0 .. 2 * rn - 1 /\ i \in Nat
        BY <1>1, <1>3
      <4>2. HasLimb(m, r, words + i)
        BY <1>2, <4>1
      <4>3. QED  BY <1>4, <4>1, <4>2, PutAt
    <3>2. QED  BY <1>2, <1>3, <1>4, <3>1 DEF UpCall
  <2>2. CASE bits = 0
    <3> DEFINE zeros == ZeroedAbove(m, r, words, N, T - N)
               moved == MovedUp(zeros, r, words, a, N)
               above == IF odd = 1 THEN Put(m, q, N, 0) ELSE m
               top   == Turn("copy", above, q, a, a, n - 1, 1)
               store == IF n = 1 THEN top ELSE PMOVE128(top, q, a, n - 1)
    <3>1. /\ moved = store
          /\ \E z : Stored(Limb, m, store, q, 0 .. T - 1, z) /\ \A i \in N .. T - 1 : z[i] = 0
      BY <1>4a, <2>1, <2>2, WordsUpSame
    <3>2. v = moved
      BY <2>2 DEF UpMoved
    <3>3. u = store
      BY <1>3, <2>2 DEF UpPairs
    <3>4. S = N
      BY <1>3, <2>2
    <3> HIDE DEF moved, store, u, v
    <3>5. QED  BY <3>1, <3>2, <3>3, <3>4
  <2>3. CASE bits # 0
    <3> DEFINE zeros == ZeroedAbove(m, r, words, N, T - N)
               s     == PartsTurned(zeros, r, words, a, N, bits)
               moved == Put(s.m, r, words + 0, s.q)
               above == IF odd = 1 THEN m ELSE Put(m, q, N + 1, 0)
               down  == PairsTurned(above, q, a, n, bits)
               store == Put(down.m, q, 0, down.q)
    <3>0. bits \in 1 .. LimbBit - 1
      BY <1>1, <2>3, PacketsAssumption
    <3>1. /\ moved = store
          /\ \E z : Stored(Limb, m, store, q, 0 .. T - 1, z) /\ \A i \in N + 1 .. T - 1 : z[i] = 0
      BY <1>4a, <2>1, <3>0, PartsUpSame
    <3>2. v = moved
      BY <2>3 DEF UpMoved
    <3>3. u = store
      BY <1>3, <2>3 DEF UpPairs
    <3>4. S = N + 1
      BY <1>3, <2>3
    <3> HIDE DEF moved, store, u, v
    <3>5. QED  BY <3>1, <3>2, <3>3, <3>4
  <2>4. QED  BY <2>2, <2>3
<1>8. PICK z : Stored(Limb, m, u, q, 0 .. T - 1, z) /\ \A i \in S .. T - 1 : z[i] = 0
  BY <1>7
<1> HIDE DEF u, v, S
<1>9. Zeroed(u, r, words) = IF h = 0 THEN low ELSE PZERO128(low, r, h)
  <2>1. IsMemory(u)
    BY <1>8, SameShape
  <2>2. ASSUME NEW i \in 0 .. words - 1 PROVE HasLimb(u, r, i)
    <3>1. i \in 0 .. 2 * rn - 1
      BY <1>1, <1>3
    <3>2. HasLimb(m, r, i)
      BY <1>2, <3>1 DEF rn
    <3>3. QED  BY <1>8, <3>2, SameShape
  <2>3. QED  BY <1>1, <1>4, <2>1, <2>2, ZerosSame
<1>10. UpLength(u, r, words, bits, odd, N, rn) = rn - Bit(TopClear(u, r, rn))
  <2>1. UpTop(m, u, r, q, words, S, T, z)
    <3>1. ASSUME NEW i \in 0 .. T - 1 PROVE HasLimb(m, q, i)
      <4>1. words + i \in 0 .. 2 * rn - 1 /\ i \in Nat
        BY <1>1, <1>3
      <4>2. HasLimb(m, r, words + i)
        BY <1>2, <4>1 DEF rn
      <4>3. QED  BY <1>4, <4>1, <4>2, PutAt
    <3>2. QED  BY <1>3, <1>4, <1>8, <3>1 DEF UpTop
  <2>2. words \in Nat /\ rn \in Nat /\ 2 * rn = words + T /\ n \in Nat /\ n > 0
    BY <1>1, <1>2, <1>3
  <2>3. QED  BY <1>4a, <2>1, <2>2, UpLengthSame
<1>11. QED  BY <1>5, <1>6, <1>7, <1>9, <1>10

\* What the low part of limb x leaves in the limb below it.
Lower(x, k) == IF k = 0 THEN 0 ELSE Shl(x, LimbBit - k)

\* The two parts of a limb of a shift down do not overlap.
LEMMA LowerFits ==
    ASSUME NEW k \in 0 .. LimbBit - 1, NEW x \in Limb, NEW y \in Limb
    PROVE  Shr(y, k) \in Limb /\ Lower(x, k) \in Limb /\ Lower(x, k) + Shr(y, k) \in Limb /\ Lower(0, k) = 0
<1>1. Base \in Nat \ {0} /\ 0 \in 0 .. Base - 1 /\ y \in 0 .. Base - 1 /\ LimbBit \in Nat
  BY BaseFacts, PacketsAssumption DEF Limb
<1>2. CASE k = 0
  <2>1. Shr(y, 0) = y
    BY ShiftNone
  <2>2. Lower(x, k) = 0 /\ Lower(0, k) = 0 /\ 0 + y = y
    BY <1>1, <1>2 DEF Lower
  <2>3. QED  BY <1>1, <1>2, <2>1, <2>2 DEF Limb
<1>3. CASE k # 0
  <2>1. k \in 1 .. LimbBit - 1
    BY <1>1, <1>3
  <2>2. Shr(y, k) \in Limb /\ Shl(x, LimbBit - k) \in Limb /\ Shl(x, LimbBit - k) + Shr(y, k) \in Limb
    BY <2>1, ShiftFits
  <2>3. Shl(0, LimbBit - k) = 0
    <3> DEFINE p == 2 ^ (LimbBit - k)
    <3>1. p \in Nat
      BY <2>1, PacketsAssumption, PowerSplit
    <3> HIDE DEF p
    <3>2. 0 * p = 0 /\ 0 = Base * 0 + 0
      BY <1>1, <3>1
    <3>3. 0 % Base = 0
      BY <1>1
    <3>4. QED  BY <3>2, <3>3 DEF Shl, p
  <2>4. QED  BY <1>3, <2>2, <2>3 DEF Lower
<1>4. QED  BY <1>2, <1>3

\* The limbs z of a shift down of k limbs by some bits less than a limb, and the
\* parts c that are handed on from turn to turn.
DownParts(m, a, words, k, R, bits, c, z) ==
    /\ \A i \in 0 .. k - 1 : c[i] = Shr(Get(m, a, words + i), bits)
    /\ \A i \in 0 .. k - 2 : z[i] = Lower(Get(m, a, words + (i + 1)), bits) + c[i]
    /\ z[k - 1] = c[k - 1]
    /\ \A i \in k .. R - 1 : z[i] = 0

\* A shift of the k limbs behind words limbs of a, down to r, which gets R limbs.
DownShift(m, r, a, words, k, R, bits, c, z) ==
    /\ IsMemory(m) /\ r.at \in Nat /\ words \in Nat /\ k \in Nat /\ k > 0 /\ R \in {k, k + 1}
    /\ bits \in 0 .. LimbBit - 1
    /\ Readable(m, r, a, words + k) /\ \A i \in 0 .. R - 1 : HasLimb(m, r, i)
    /\ DownParts(m, a, words, k, R, bits, c, z)

\* The memories of such a shift: limbs 0, 1, ..., R - 1 are stored, and what is not
\* yet shifted is still there.
DownTrace(m, r, a, words, k, R, z, g) ==
    /\ g[0] = m
    /\ \A i \in 0 .. R : Stored(Limb, m, g[i], r, 0 .. i - 1, z)
    /\ \A i \in 0 .. R - 1 : g[i + 1] = Put(g[i], r, i, z[i])
    /\ \A i \in 0 .. k - 1 : \A j \in i .. k - 1 : Get(g[i], a, words + j) = Get(m, a, words + j)

\* The limbs of a shift down are limbs.
LEMMA DownLimbs ==
    ASSUME NEW m, NEW r, NEW a, NEW words, NEW k, NEW R, NEW bits, NEW c, NEW z,
           DownShift(m, r, a, words, k, R, bits, c, z)
    PROVE  \A i \in 0 .. R - 1 : z[i] \in Limb
<1>1. /\ words \in Nat /\ k \in Nat /\ k > 0 /\ bits \in 0 .. LimbBit - 1 /\ R \in {k, k + 1}
      /\ Readable(m, r, a, words + k) /\ IsMemory(m)
  BY DEF DownShift
<1>2. ASSUME NEW i \in 0 .. k - 1 PROVE Get(m, a, words + i) \in Limb
  <2>1. words + i \in 0 .. (words + k) - 1
    BY <1>1
  <2>2. HasLimb(m, a, words + i)
    BY <1>1, <2>1 DEF Readable
  <2>3. QED  BY <1>1, <2>2, LimbThere
<1>3. ASSUME NEW i \in 0 .. R - 1 PROVE z[i] \in Limb
  <2>0. 0 \in Limb
    BY BaseFacts
  <2>1. CASE i \in k .. R - 1
    BY <2>0, <2>1 DEF DownShift, DownParts
  <2>2. CASE i = k - 1
    <3>1. k - 1 \in 0 .. k - 1
      BY <1>1
    <3>2. Get(m, a, words + (k - 1)) \in Limb
      BY <1>2, <3>1
    <3>3. z[k - 1] = Shr(Get(m, a, words + (k - 1)), bits)
      BY <3>1 DEF DownShift, DownParts
    <3>4. QED  BY <1>1, <2>2, <3>2, <3>3, LowerFits
  <2>3. CASE i \in 0 .. k - 2
    <3>1. i \in 0 .. k - 1 /\ i + 1 \in 0 .. k - 1
      BY <1>1, <2>3
    <3>2. Get(m, a, words + i) \in Limb /\ Get(m, a, words + (i + 1)) \in Limb
      BY <1>2, <3>1
    <3>3. z[i] = Lower(Get(m, a, words + (i + 1)), bits) + Shr(Get(m, a, words + i), bits)
      BY <2>3, <3>1 DEF DownShift, DownParts
    <3>4. QED  BY <1>1, <3>2, <3>3, LowerFits
  <2>4. i \in k .. R - 1 \/ i = k - 1 \/ i \in 0 .. k - 2
    BY <1>1
  <2>5. QED  BY <2>1, <2>2, <2>3, <2>4
<1>4. QED  BY <1>3

\* The trace of a loop that stores them from the lowest on.
LEMMA DownStores ==
    ASSUME NEW m, NEW r, NEW a, NEW words, NEW k, NEW R, NEW bits, NEW c, NEW z,
           DownShift(m, r, a, words, k, R, bits, c, z)
    PROVE  \E g : DownTrace(m, r, a, words, k, R, z, g)
<1> DEFINE p == [i \in 0 .. R - 1 |-> i]
<1>1. /\ IsMemory(m) /\ r.at \in Nat /\ words \in Nat /\ k \in Nat /\ R \in Nat /\ k =< R
      /\ Readable(m, r, a, words + k) /\ (\A i \in 0 .. R - 1 : HasLimb(m, r, i))
      /\ \A i \in 0 .. R - 1 : z[i] \in Limb
  <2>1. \A i \in 0 .. R - 1 : z[i] \in Limb
    BY DownLimbs
  <2>2. QED  BY <2>1 DEF DownShift
<1>2. \A i \in 0 .. R - 1 : p[i] = i
  OBVIOUS
<1> HIDE DEF p
<1>3. PICK g : PutTrace(Limb, m, r, {}, z, R, p, m, g)
  <2>1. Stored(Limb, m, m, r, {}, z)
    BY <1>1, StoredNone, LimbMemory DEF IsMemory
  <2>2. \A i \in 0 .. R - 1 : HasLimb(m, r, p[i]) /\ z[p[i]] \in Limb
    BY <1>1, <1>2
  <2>3. QED  BY <1>1, <2>1, <2>2, PutLoop
<1>4. /\ g[0] = m /\ \A i \in 0 .. R - 1 : g[i + 1] = Put(g[i], r, p[i], z[p[i]])
      /\ \A i \in 0 .. R : Stored(Limb, m, g[i], r, {} \union {p[j] : j \in 0 .. i - 1}, z)
  BY <1>3 DEF PutTrace
<1>5. ASSUME NEW i \in 0 .. R PROVE Stored(Limb, m, g[i], r, 0 .. i - 1, z)
  <2>1. \A j : j \in {} \union {p[h] : h \in 0 .. i - 1} <=> j \in 0 .. i - 1
    BY <1>1, <1>2
  <2>2. QED  BY <1>4, <2>1, StoredAs
<1>6. ASSUME NEW i \in 0 .. k - 1, NEW j \in i .. k - 1 PROVE Get(g[i], a, words + j) = Get(m, a, words + j)
  <2> DEFINE N == words + k
             e == words + j
  <2>1. N \in Nat /\ e \in 0 .. N - 1 /\ i \in 0 .. e /\ i \in 0 .. R
    BY <1>1
  <2>2. Readable(m, r, a, N) /\ Stored(Limb, m, g[i], r, 0 .. i - 1, z)
    BY <1>1, <1>5, <2>1
  <2> HIDE DEF N, e
  <2>3. Get(g[i], a, e) = Get(m, a, e)
    BY <1>1, <2>1, <2>2, ReadBehind
  <2>4. QED  BY <2>3 DEF e
<1>7. \A i \in 0 .. R - 1 : g[i + 1] = Put(g[i], r, i, z[i])
  BY <1>2, <1>4
<1>8. QED  BY <1>4, <1>5, <1>6, <1>7 DEF DownTrace

\* The loop of hebi_pshr, and its zeros above.
DownTurned(m, r, a, limbs, k, bits) ==
    Loop(k, [m |-> m, q |-> Shr(Get(m, a, limbs + 0), bits)], LAMBDA t, i :
        LET x == IF i + 1 < k THEN Get(t.m, a, limbs + i + 1) ELSE 0
            up == IF bits = 0 THEN 0 ELSE Shl(x, LimbBit - bits)
        IN  [m |-> Put(t.m, r, i, up + t.q), q |-> Shr(x, bits)])

\* The limbs that fill up the last packet.
ZeroedFrom(m, r, k, pad) == Loop(pad, m, LAMBDA t, i : Put(t, r, k + i, 0))

\* The loop of the x86-64 version, with two quadwords for each turn, and what follows it.
DownPairs(m, r, a, words, k, bits) ==
    LET al(t, i) == Get(t, a, words + i)
        up(x) == IF bits = 0 THEN 0 ELSE Shl(x, LimbBit - bits)
    IN  Loop((k - 1) \div 2, [m |-> m, q |-> Shr(al(m, 0), bits)], LAMBDA t, j :
            LET lo == al(t.m, 2 * j + 1)
                hi == al(t.m, 2 * j + 2)
                low == Put(t.m, r, 2 * j, up(lo) + t.q)
            IN  [m |-> Put(low, r, 2 * j + 1, up(hi) + Shr(lo, bits)), q |-> Shr(hi, bits)])

\* The quadword that is left over, or the zero that fills up the last packet.
DownLast(s, r, a, words, k, bits) ==
    LET i == 2 * ((k + 1) \div 2 - 1)
        x == Get(s.m, a, words + (k - 1))
    IN  IF QuadLeft(k) THEN Put(Put(s.m, r, i, s.q + Lower(x, bits)), r, i + 1, Shr(x, bits))
        ELSE Put(Put(s.m, r, i, s.q), r, i + 1, 0)

\* The portable loop goes through the trace.
LEMMA LimbsDown ==
    ASSUME NEW m, NEW r, NEW a, NEW words, NEW k, NEW R, NEW bits, NEW c, NEW z,
           DownShift(m, r, a, words, k, R, bits, c, z), NEW g, DownTrace(m, r, a, words, k, R, z, g)
    PROVE  DownTurned(m, r, a, words, k, bits).m = g[k]
<1> DEFINE s0 == [m |-> m, q |-> Shr(Get(m, a, words + 0), bits)]
           X(t, i) == LET x == IF i + 1 < k THEN Get(t.m, a, words + i + 1) ELSE 0
                          up == IF bits = 0 THEN 0 ELSE Shl(x, LimbBit - bits)
                      IN  [m |-> Put(t.m, r, i, up + t.q), q |-> Shr(x, bits)]
           s == DownTurned(m, r, a, words, k, bits)
           f == [i \in 0 .. k |-> [m |-> g[i], q |-> IF i < k THEN c[i] ELSE Shr(0, bits)]]
<1>1. /\ words \in Nat /\ k \in Nat /\ k > 0 /\ R \in {k, k + 1} /\ bits \in 0 .. LimbBit - 1
      /\ (\A i \in 0 .. k - 1 : c[i] = Shr(Get(m, a, words + i), bits))
      /\ (\A i \in 0 .. k - 2 : z[i] = Lower(Get(m, a, words + (i + 1)), bits) + c[i])
      /\ z[k - 1] = c[k - 1]
  BY DEF DownShift, DownParts
<1>2. /\ g[0] = m /\ (\A i \in 0 .. R - 1 : g[i + 1] = Put(g[i], r, i, z[i]))
      /\ \A i \in 0 .. k - 1 : \A j \in i .. k - 1 : Get(g[i], a, words + j) = Get(m, a, words + j)
  BY DEF DownTrace
<1>3. \A i \in 0 .. R - 1 : z[i] \in Limb
  BY DownLimbs
<1>4. ASSUME NEW i \in 0 .. k - 1 PROVE f[i + 1] = X(f[i], i)
  <2> DEFINE u == f[i]
  <2>1. u.m = g[i] /\ u.q = c[i] /\ i \in 0 .. R - 1 /\ i + 1 \in 0 .. k /\ words + i + 1 = words + (i + 1)
    BY <1>1
  <2>2. f[i + 1] = [m |-> g[i + 1], q |-> IF i + 1 < k THEN c[i + 1] ELSE Shr(0, bits)]
    BY <2>1
  <2> HIDE DEF f
  <2>3. CASE i + 1 < k
    <3>1. i \in 0 .. k - 2 /\ i + 1 \in 0 .. k - 1 /\ i + 1 \in i .. k - 1
      BY <1>1, <2>3
    <3> DEFINE y == Get(m, a, words + (i + 1))
    <3>2. Get(u.m, a, words + i + 1) = y
      BY <1>2, <2>1, <3>1
    <3>3. z[i] = Lower(y, bits) + c[i] /\ c[i + 1] = Shr(y, bits)
      BY <1>1, <3>1
    <3> HIDE DEF y, u
    <3>4. X(u, i) = [m |-> Put(u.m, r, i, Lower(y, bits) + u.q), q |-> Shr(y, bits)]
      BY <2>3, <3>2 DEF Lower
    <3> HIDE DEF X
    <3>5. X(u, i) = [m |-> g[i + 1], q |-> c[i + 1]]
      BY <1>2, <2>1, <3>3, <3>4
    <3>6. QED  BY <2>2, <2>3, <3>5 DEF u
  <2>4. CASE ~(i + 1 < k)
    <3>1. i = k - 1 /\ z[i] = c[i] /\ z[i] \in Limb
      BY <1>1, <1>3, <2>1, <2>4
    <3>2. Lower(0, bits) = 0 /\ 0 + z[i] = z[i]
      <4>1. 0 \in Limb /\ z[i] \in Nat
        BY <3>1, BaseFacts, LimbNumber
      <4>2. Shr(0, bits) \in Limb /\ Lower(0, bits) = 0
        <5> DEFINE o == 0
        <5>1. o \in Limb /\ bits \in 0 .. LimbBit - 1
          BY <1>1, <4>1
        <5> HIDE DEF o
        <5>2. Shr(o, bits) \in Limb /\ Lower(o, bits) \in Limb /\ Lower(0, bits) = 0
          BY <5>1, LowerFits
        <5>3. QED  BY <5>2 DEF o
      <4>3. QED  BY <4>1, <4>2
    <3> HIDE DEF u
    <3>3. X(u, i) = [m |-> Put(u.m, r, i, Lower(0, bits) + u.q), q |-> Shr(0, bits)]
      BY <2>4 DEF Lower
    <3> HIDE DEF X
    <3>4. X(u, i) = [m |-> g[i + 1], q |-> Shr(0, bits)]
      BY <1>2, <2>1, <3>1, <3>2, <3>3
    <3>5. QED  BY <2>2, <2>4, <3>4 DEF u
  <2>5. QED  BY <2>3, <2>4
<1>5. f[0] = s0 /\ f = [i \in 0 .. k |-> f[i]]
  <2>1. 0 \in 0 .. k /\ 0 \in 0 .. k - 1 /\ 0 < k
    BY <1>1
  <2>2. QED  BY <1>1, <1>2, <2>1
<1>6. f[k].m = g[k]
  BY <1>1
<1> HIDE DEF f, X, s, s0
<1> DEFINE Bodya(t, i) == X(t, i)
           Qa(h, i) == Given(h[i - 1], LAMBDA t : Bodya(t, i - 1))
           Eqa(h) == h = [i \in 0 .. k |-> IF i = 0 THEN s0 ELSE Qa(h, i)]
           Fa == CHOOSE h : Eqa(h)
<1>a1. s = Fa[k]
  BY DEF s, s0, X, DownTurned, Loop, Given
<1>a2. \A h, i : Qa(h, i) = Bodya(h[i - 1], i - 1)
  BY DEF Given
<1>a3. \A i \in 0 .. k - 1 : f[i + 1] = Bodya(f[i], i)
  BY <1>4
<1> HIDE DEF Bodya, Qa
<1>a4. Eqa(Fa)
  <2>1. ASSUME NEW i \in 0 .. k, i # 0 PROVE f[i] = Qa(f, i)
    <3>1. i - 1 \in 0 .. k - 1 /\ (i - 1) + 1 = i
      BY <2>1, <1>1
    <3>2. QED  BY <1>a2, <1>a3, <3>1
  <2>2. Eqa(f)
    BY <1>5, <2>1
  <2>3. QED  BY <2>2
<1> HIDE DEF Fa
<1>a5. Fa[k] = f[k]
  <2>1. Fa[0] = f[0]
    BY <1>5, <1>a4, <1>1
  <2>2. ASSUME NEW i \in 0 .. k - 1, Fa[i] = f[i] PROVE Fa[i + 1] = f[i + 1]
    <3>1. i + 1 \in 0 .. k /\ i + 1 # 0 /\ (i + 1) - 1 = i
      BY <1>1
    <3>2. Fa[i + 1] = Bodya(Fa[i], i)
      BY <1>1, <1>a2, <1>a4, <3>1
    <3>3. QED  BY <1>a3, <2>2, <3>2
  <2>3. QED  BY <1>1, <2>1, <2>2, SameEnd
<1>7. QED  BY <1>6, <1>a1, <1>a5 DEF s

\* The zeros end it.
LEMMA ZerosFrom ==
    ASSUME NEW m, NEW r, NEW a, NEW words, NEW k, NEW R, NEW bits, NEW c, NEW z,
           DownShift(m, r, a, words, k, R, bits, c, z), NEW g, DownTrace(m, r, a, words, k, R, z, g)
    PROVE  ZeroedFrom(g[k], r, k, R - k) = g[R]
<1> DEFINE N == R - k
           f == [i \in 0 .. N |-> g[k + i]]
           s == ZeroedFrom(g[k], r, k, N)
           s0 == g[k]
<1>1. /\ k \in Nat /\ R \in Nat /\ N \in Nat /\ k + N = R /\ k + 0 = k
      /\ \A i \in k .. R - 1 : z[i] = 0
  BY DEF DownShift, DownParts
<1>2. \A i \in 0 .. R - 1 : g[i + 1] = Put(g[i], r, i, z[i])
  BY DEF DownTrace
<1>3. f[0] = s0 /\ f = [i \in 0 .. N |-> f[i]] /\ f[N] = g[R]
  BY <1>1
<1>4. ASSUME NEW i \in 0 .. N - 1 PROVE f[i + 1] = Put(f[i], r, k + i, 0)
  <2>1. i \in 0 .. N /\ i + 1 \in 0 .. N /\ k + i \in 0 .. R - 1 /\ k + i \in k .. R - 1 /\ k + (i + 1) = (k + i) + 1
    BY <1>1
  <2>2. f[i] = g[k + i] /\ f[i + 1] = g[(k + i) + 1]
    BY <2>1
  <2>3. QED  BY <1>1, <1>2, <2>1, <2>2
<1> HIDE DEF f, s, s0, N
<1> DEFINE Bodya(t, i) == Put(t, r, k + i, 0)
           Qa(h, i) == Given(h[i - 1], LAMBDA t : Bodya(t, i - 1))
           Eqa(h) == h = [i \in 0 .. N |-> IF i = 0 THEN s0 ELSE Qa(h, i)]
           Fa == CHOOSE h : Eqa(h)
<1>a1. s = Fa[N]
  BY DEF s, s0, ZeroedFrom, Loop, Given
<1>a2. \A h, i : Qa(h, i) = Bodya(h[i - 1], i - 1)
  BY DEF Given
<1>a3. \A i \in 0 .. N - 1 : f[i + 1] = Bodya(f[i], i)
  BY <1>4
<1> HIDE DEF Bodya, Qa
<1>a4. Eqa(Fa)
  <2>1. ASSUME NEW i \in 0 .. N, i # 0 PROVE f[i] = Qa(f, i)
    <3>1. i - 1 \in 0 .. N - 1 /\ (i - 1) + 1 = i
      BY <2>1, <1>1
    <3>2. QED  BY <1>a2, <1>a3, <3>1
  <2>2. Eqa(f)
    BY <1>3, <2>1
  <2>3. QED  BY <2>2
<1> HIDE DEF Fa
<1>a5. Fa[N] = f[N]
  <2>1. Fa[0] = f[0]
    BY <1>3, <1>a4, <1>1
  <2>2. ASSUME NEW i \in 0 .. N - 1, Fa[i] = f[i] PROVE Fa[i + 1] = f[i + 1]
    <3>1. i + 1 \in 0 .. N /\ i + 1 # 0 /\ (i + 1) - 1 = i
      BY <1>1
    <3>2. Fa[i + 1] = Bodya(Fa[i], i)
      BY <1>1, <1>a2, <1>a4, <3>1
    <3>3. QED  BY <1>a3, <2>2, <3>2
  <2>3. QED  BY <1>1, <2>1, <2>2, SameEnd
<1>5. QED  BY <1>3, <1>a1, <1>a5 DEF s, N

\* The x86-64 loop goes through every second memory of the trace.
LEMMA PairsDown ==
    ASSUME NEW m, NEW r, NEW a, NEW words, NEW k, NEW R, NEW bits, NEW c, NEW z,
           DownShift(m, r, a, words, k, R, bits, c, z), NEW g, DownTrace(m, r, a, words, k, R, z, g)
    PROVE  LET s == DownPairs(m, r, a, words, k, bits)
           IN  s.m = g[2 * ((k - 1) \div 2)] /\ s.q = c[2 * ((k - 1) \div 2)]
<1> DEFINE N == (k - 1) \div 2
           s0 == [m |-> m, q |-> Shr(Get(m, a, words + 0), bits)]
           X(t, j) == LET lo == Get(t.m, a, words + (2 * j + 1))
                          hi == Get(t.m, a, words + (2 * j + 2))
                          low == Put(t.m, r, 2 * j, Lower(lo, bits) + t.q)
                      IN  [m |-> Put(low, r, 2 * j + 1, Lower(hi, bits) + Shr(lo, bits)), q |-> Shr(hi, bits)]
           s == DownPairs(m, r, a, words, k, bits)
           f == [j \in 0 .. N |-> [m |-> g[2 * j], q |-> c[2 * j]]]
<1>1. /\ words \in Nat /\ k \in Nat /\ k > 0 /\ R \in {k, k + 1} /\ k - 1 \in Nat
      /\ (\A i \in 0 .. k - 1 : c[i] = Shr(Get(m, a, words + i), bits))
      /\ (\A i \in 0 .. k - 2 : z[i] = Lower(Get(m, a, words + (i + 1)), bits) + c[i])
  BY DEF DownShift, DownParts
<1>2. /\ g[0] = m /\ (\A i \in 0 .. R - 1 : g[i + 1] = Put(g[i], r, i, z[i]))
      /\ \A i \in 0 .. k - 1 : \A j \in i .. k - 1 : Get(g[i], a, words + j) = Get(m, a, words + j)
  BY DEF DownTrace
<1>3. N \in Nat /\ 2 * N =< k - 1
  <2> DEFINE e == k - 1
  <2>1. e \in Nat
    BY <1>1
  <2> HIDE DEF e
  <2>2. e \div 2 \in Nat /\ 2 * (e \div 2) =< e
    BY <2>1
  <2>3. QED  BY <2>2 DEF e
<1> HIDE DEF N
<1>4. ASSUME NEW j \in 0 .. N - 1 PROVE f[j + 1] = X(f[j], j)
  <2> DEFINE u == f[j]
             e == 2 * j
             l == 2 * j + 1
             h == 2 * j + 2
             lo == Get(m, a, words + l)
             hi == Get(m, a, words + h)
  <2>1. /\ e \in Nat /\ l = e + 1 /\ h = l + 1 /\ h =< k - 1 /\ 2 * (j + 1) = h /\ j \in 0 .. N /\ j + 1 \in 0 .. N
        /\ e \in 0 .. k - 1 /\ l \in 0 .. k - 1 /\ h \in 0 .. k - 1 /\ e \in 0 .. k - 2 /\ l \in 0 .. k - 2
        /\ e \in 0 .. R - 1 /\ l \in 0 .. R - 1 /\ l \in e .. k - 1 /\ h \in e .. k - 1
    BY <1>1, <1>3
  <2>2. u.m = g[e] /\ u.q = c[e] /\ f[j + 1] = [m |-> g[h], q |-> c[h]]
    BY <2>1
  <2> HIDE DEF f, u
  <2>3. X(u, j) = [m |-> Put(Put(u.m, r, e, Lower(Get(u.m, a, words + l), bits) + u.q), r, l,
                             Lower(Get(u.m, a, words + h), bits) + Shr(Get(u.m, a, words + l), bits)),
                   q |-> Shr(Get(u.m, a, words + h), bits)]
    OBVIOUS
  <2> HIDE DEF X, e, l, h
  <2>4. Get(g[e], a, words + l) = lo /\ Get(g[e], a, words + h) = hi
    BY <1>2, <2>1
  <2>5. z[e] = Lower(lo, bits) + c[e] /\ z[l] = Lower(hi, bits) + c[l] /\ c[l] = Shr(lo, bits) /\ c[h] = Shr(hi, bits)
    BY <1>1, <2>1
  <2>6. g[l] = Put(g[e], r, e, z[e]) /\ g[h] = Put(g[l], r, l, z[l])
    <3>1. g[e + 1] = Put(g[e], r, e, z[e]) /\ g[l + 1] = Put(g[l], r, l, z[l])
      BY <1>2, <2>1
    <3>2. QED  BY <2>1, <3>1
  <2> HIDE DEF lo, hi
  <2>7. X(u, j) = [m |-> g[h], q |-> c[h]]
    BY <2>2, <2>3, <2>4, <2>5, <2>6
  <2>8. QED  BY <2>2, <2>7 DEF u
<1>5. f[0] = s0 /\ f = [i \in 0 .. N |-> f[i]]
  <2>1. 2 * 0 = 0 /\ 0 \in 0 .. k - 1 /\ 0 \in 0 .. N
    BY <1>1, <1>3
  <2>2. QED  BY <1>1, <1>2, <2>1
<1>6. f[N].m = g[2 * N] /\ f[N].q = c[2 * N]
  BY <1>3
<1>7. s = Loop(N, s0, LAMBDA t, j : X(t, j))
  BY DEF s, N, DownPairs, Lower
<1> HIDE DEF f, X, s, s0
<1> DEFINE Bodya(t, i) == X(t, i)
           Qa(h, i) == Given(h[i - 1], LAMBDA t : Bodya(t, i - 1))
           Eqa(h) == h = [i \in 0 .. N |-> IF i = 0 THEN s0 ELSE Qa(h, i)]
           Fa == CHOOSE h : Eqa(h)
<1>a1. s = Fa[N]
  BY <1>7 DEF  Loop, Given, Loop, Given
<1>a2. \A h, i : Qa(h, i) = Bodya(h[i - 1], i - 1)
  BY DEF Given
<1>a3. \A i \in 0 .. N - 1 : f[i + 1] = Bodya(f[i], i)
  BY <1>4
<1> HIDE DEF Bodya, Qa
<1>a4. Eqa(Fa)
  <2>1. ASSUME NEW i \in 0 .. N, i # 0 PROVE f[i] = Qa(f, i)
    <3>1. i - 1 \in 0 .. N - 1 /\ (i - 1) + 1 = i
      BY <2>1, <1>3
    <3>2. QED  BY <1>a2, <1>a3, <3>1
  <2>2. Eqa(f)
    BY <1>5, <2>1
  <2>3. QED  BY <2>2
<1> HIDE DEF Fa
<1>a5. Fa[N] = f[N]
  <2>1. Fa[0] = f[0]
    BY <1>5, <1>a4, <1>3
  <2>2. ASSUME NEW i \in 0 .. N - 1, Fa[i] = f[i] PROVE Fa[i + 1] = f[i + 1]
    <3>1. i + 1 \in 0 .. N /\ i + 1 # 0 /\ (i + 1) - 1 = i
      BY <1>3
    <3>2. Fa[i + 1] = Bodya(Fa[i], i)
      BY <1>3, <1>a2, <1>a4, <3>1
    <3>3. QED  BY <1>a3, <2>2, <3>2
  <2>3. QED  BY <1>3, <2>1, <2>2, SameEnd
<1>8. QED  BY <1>6, <1>a1, <1>a5 DEF s, N

\* The quadword behind the pairs, or the zero, ends it.
LEMMA LastDown ==
    ASSUME NEW m, NEW r, NEW a, NEW words, NEW k, NEW R, NEW bits, NEW c, NEW z,
           DownShift(m, r, a, words, k, R, bits, c, z), NEW g, DownTrace(m, r, a, words, k, R, z, g),
           NEW h \in Nat, R = 2 * h
    PROVE  /\ DownLast(DownPairs(m, r, a, words, k, bits), r, a, words, k, bits) = g[R]
           /\ (k + 1) \div 2 = h
<1> DEFINE s == DownPairs(m, r, a, words, k, bits)
           N == (k - 1) \div 2
           e == R - 2
           f == R - 1
           x == Get(s.m, a, words + (k - 1))
<1>1. /\ words \in Nat /\ k \in Nat /\ k > 0 /\ R \in {k, k + 1} /\ k - 1 \in Nat /\ R \in Nat
      /\ (\A i \in 0 .. k - 1 : c[i] = Shr(Get(m, a, words + i), bits))
      /\ (\A i \in 0 .. k - 2 : z[i] = Lower(Get(m, a, words + (i + 1)), bits) + c[i])
      /\ z[k - 1] = c[k - 1] /\ \A i \in k .. R - 1 : z[i] = 0
  BY DEF DownShift, DownParts
<1>2. /\ (\A i \in 0 .. R - 1 : g[i + 1] = Put(g[i], r, i, z[i]))
      /\ \A i \in 0 .. k - 1 : \A j \in i .. k - 1 : Get(g[i], a, words + j) = Get(m, a, words + j)
  BY DEF DownTrace
<1>3. s.m = g[2 * N] /\ s.q = c[2 * N]
  BY PairsDown
<1>4. 2 * N = e /\ (k + 1) \div 2 = h /\ (QuadLeft(k) <=> k = R)
  <2> DEFINE u == k - 1
             v == k + 1
  <2>1. u \in Nat /\ v \in Nat /\ (u = 2 * (h - 1) \/ u = 2 * (h - 1) + 1) /\ h - 1 \in Nat
        /\ (k = R <=> u = 2 * (h - 1) + 1) /\ (v = 2 * h \/ v = 2 * h + 1)
    BY <1>1
  <2> HIDE DEF u, v
  <2>2. u \div 2 = h - 1 /\ (u % 2 = 1 <=> u = 2 * (h - 1) + 1) /\ v \div 2 = h
    BY <2>1
  <2>3. 2 * (h - 1) = e
    BY <1>1
  <2>4. QED  BY <2>1, <2>2, <2>3 DEF u, v, QuadLeft
<1>5. DownLast(s, r, a, words, k, bits) =
        IF k = R THEN Put(Put(s.m, r, e, s.q + Lower(x, bits)), r, e + 1, Shr(x, bits))
        ELSE Put(Put(s.m, r, e, s.q), r, e + 1, 0)
  <2>1. 2 * (h - 1) = e
    BY <1>1
  <2> HIDE DEF e
  <2>2. QED  BY <1>4, <2>1 DEF DownLast
<1> HIDE DEF s, N
<1>6. /\ e \in Nat /\ f = e + 1 /\ f + 1 = R /\ e \in 0 .. R - 1 /\ f \in 0 .. R - 1
      /\ e \in 0 .. k - 1 /\ k - 1 \in e .. k - 1 /\ k - 1 \in 0 .. k - 1
      /\ (k = R => e \in 0 .. k - 2 /\ f = k - 1 /\ e + 1 = k - 1) /\ (k # R => e = k - 1 /\ f = k /\ f \in k .. R - 1)
  BY <1>1
<1>7. g[R] = Put(Put(g[e], r, e, z[e]), r, f, z[f])
  <2> HIDE DEF e, f
  <2>1. g[e + 1] = Put(g[e], r, e, z[e]) /\ g[f + 1] = Put(g[f], r, f, z[f])
    BY <1>2, <1>6
  <2>2. QED  BY <1>6, <2>1
<1>8. x = Get(m, a, words + (k - 1))
  <2> HIDE DEF e, f
  <2>1. QED  BY <1>2, <1>3, <1>4, <1>6
<1> HIDE DEF e, f, x
<1>9. CASE k = R
  <2>1. c[e] + Lower(x, bits) = z[e]
    <3> DEFINE y == Get(m, a, words + e)
    <3>1. z[e] = Lower(x, bits) + c[e] /\ c[e] = Shr(y, bits)
      BY <1>1, <1>6, <1>8, <1>9
    <3>2. x \in Limb /\ y \in Limb /\ bits \in 0 .. LimbBit - 1
      <4>1. words + e \in 0 .. (words + k) - 1 /\ words + (k - 1) \in 0 .. (words + k) - 1
        BY <1>1, <1>6
      <4>2. HasLimb(m, a, words + e) /\ HasLimb(m, a, words + (k - 1)) /\ IsMemory(m)
        BY <4>1 DEF DownShift, Readable
      <4>3. Get(m, a, words + e) \in Limb /\ Get(m, a, words + (k - 1)) \in Limb
        BY <4>2, LimbThere
      <4>4. QED  BY <1>8, <4>3 DEF DownShift
    <3> HIDE DEF y
    <3>3. Shr(y, bits) \in Limb /\ Lower(x, bits) \in Limb
      BY <3>2, LowerFits
    <3>4. c[e] \in Nat /\ Lower(x, bits) \in Nat
      BY <3>1, <3>3, LimbNumber
    <3>5. QED  BY <3>1, <3>4
  <2>2. z[f] = Shr(x, bits)
    BY <1>1, <1>6, <1>8, <1>9
  <2>3. QED  BY <1>3, <1>4, <1>5, <1>6, <1>7, <1>9, <2>1, <2>2 DEF s
<1>10. CASE k # R
  <2>1. z[e] = c[e] /\ z[f] = 0
    BY <1>1, <1>6, <1>10
  <2>2. QED  BY <1>3, <1>4, <1>5, <1>6, <1>7, <1>10, <2>1 DEF s
<1>11. QED  BY <1>9, <1>10

\* The length behind a shift down.
DownLength(m, r, k, pad) ==
    LET rn == (k + pad) \div PacketLimbs
    IN  IF \E i \in (k - PacketLimbs + pad) .. k - 1 : Get(m, r, i) # 0 THEN rn ELSE rn - 1

\* pshr in these parts.
LEMMA PshrIs ==
    ASSUME NEW m, NEW r, NEW a, NEW b, NEW n
    PROVE  LET bits  == b % LimbBit
               words == b \div LimbBit
               k     == n * PacketLimbs - words
               pad   == words % PacketLimbs
               out   == ZeroedFrom(DownTurned(m, r, a, words, k, bits).m, r, k, pad)
           IN  pshr(m, r, a, b, n) = IF n * PacketLimbs =< words THEN [m |-> m, n |-> 0]
                                     ELSE [m |-> out, n |-> DownLength(out, r, k, pad)]
  BY DEF pshr, ZeroedFrom, DownTurned, DownLength

\* pshr_x86 in these parts.
LEMMA PshrX86Is ==
    ASSUME NEW m, NEW r, NEW a, NEW b, NEW n
    PROVE  LET bits  == b % LimbBit
               words == b \div LimbBit
               k     == 2 * n - words
               last  == DownLast(DownPairs(m, r, a, words, k, bits), r, a, words, k, bits)
           IN  pshr_x86(m, r, a, b, n) = IF k =< 0 THEN [m |-> m, n |-> 0]
                                         ELSE [m |-> last, n |-> (k + 1) \div 2 - Bit(TopClear(last, r, (k + 1) \div 2))]
  BY DEF pshr_x86, DownLast, DownPairs, Lower

\* A shift down of the n packets at a by b bits has room at r, which does not run
\* into a before a is read.
RoomDown(m, r, a, b, n) ==
    /\ IsMemory(m) /\ n \in Nat /\ b \in Nat /\ r.at \in Nat /\ Readable(m, r, a, 2 * n)
    /\ \A i \in 0 .. 2 * (n - (b \div LimbBit) \div 2) - 1 : HasLimb(m, r, i)

\* hebi_pshr of the x86-64 driver, whose pairs of quadwords straddle the packets,
\* leaves the memory and returns the length that the portable one does.
THEOREM ShiftDownSame ==
    ASSUME NEW m, NEW r, NEW a, NEW b, NEW n, RoomDown(m, r, a, b, n)
    PROVE  pshr_x86(m, r, a, b, n) = pshr(m, r, a, b, n)
<1> DEFINE words == b \div LimbBit
           bits  == b % LimbBit
           pad   == words % 2
           v     == words \div 2
           h     == n - v
           N     == 2 * n
           k     == N - words
           R     == k + pad
           out   == ZeroedFrom(DownTurned(m, r, a, words, k, bits).m, r, k, pad)
           last  == DownLast(DownPairs(m, r, a, words, k, bits), r, a, words, k, bits)
           z     == [i \in 0 .. R - 1 |->
                        IF i < k - 1 THEN Lower(Get(m, a, words + (i + 1)), bits) + Shr(Get(m, a, words + i), bits)
                        ELSE IF i = k - 1 THEN Shr(Get(m, a, words + i), bits) ELSE 0]
           c     == [i \in 0 .. k - 1 |-> Shr(Get(m, a, words + i), bits)]
<1>1. /\ words \in Nat /\ bits \in 0 .. LimbBit - 1 /\ pad \in {0, 1} /\ words = 2 * v + pad /\ v \in Nat
      /\ n \in Nat /\ b \in Nat
  <2>1. b \in Nat /\ n \in Nat
    BY DEF RoomDown
  <2>2. words \in Nat /\ bits \in 0 .. LimbBit - 1 /\ pad \in {0, 1} /\ words = 2 * v + pad
    BY <2>1, UpRoom
  <2> HIDE DEF words
  <2>3. v \in Nat
    BY <2>2
  <2>4. QED  BY <2>1, <2>2, <2>3
<1>2. /\ IsMemory(m) /\ r.at \in Nat /\ Readable(m, r, a, N) /\ \A i \in 0 .. 2 * h - 1 : HasLimb(m, r, i)
  BY DEF RoomDown
<1>3. pshr(m, r, a, b, n) = IF N =< words THEN [m |-> m, n |-> 0] ELSE [m |-> out, n |-> DownLength(out, r, k, pad)]
  <2> DEFINE nl == n * PacketLimbs
             l  == nl - words
             o  == words % PacketLimbs
  <2>1. nl = N /\ l = k /\ o = pad
    BY <1>1, PX86Assumption
  <2> HIDE DEF N
  <2>2. pshr(m, r, a, b, n) =
          IF nl =< words THEN [m |-> m, n |-> 0]
          ELSE [m |-> ZeroedFrom(DownTurned(m, r, a, words, l, bits).m, r, l, o),
                n |-> DownLength(ZeroedFrom(DownTurned(m, r, a, words, l, bits).m, r, l, o), r, l, o)]
    BY PshrIs
  <2> HIDE DEF nl, l, o
  <2>3. QED  BY <2>1, <2>2
<1>4. pshr_x86(m, r, a, b, n) = IF k =< 0 THEN [m |-> m, n |-> 0]
                                ELSE [m |-> last, n |-> (k + 1) \div 2 - Bit(TopClear(last, r, (k + 1) \div 2))]
  BY PshrX86Is
<1> HIDE DEF words, bits, pad, v
<1>5. k \in Int /\ (k =< 0 <=> N =< words) /\ R = 2 * h /\ h \in Int
  BY <1>1
<1>6. CASE k =< 0
  <2> HIDE DEF k, N, last, out
  <2>1. QED  BY <1>3, <1>4, <1>5, <1>6
<1>7. CASE ~(k =< 0)
  <2>1. /\ k \in Nat /\ k > 0 /\ R \in Nat /\ R \in {k, k + 1} /\ words + k = N /\ h \in Nat /\ R - k = pad
        /\ R >= 2 /\ h > 0
    BY <1>1, <1>5, <1>7
  <2>2. DownParts(m, a, words, k, R, bits, c, z)
    <3> HIDE DEF k, R
    <3>1. \A i \in 0 .. k - 1 : c[i] = Shr(Get(m, a, words + i), bits)
      OBVIOUS
    <3> HIDE DEF c
    <3>2. ASSUME NEW i \in 0 .. k - 2 PROVE z[i] = Lower(Get(m, a, words + (i + 1)), bits) + c[i]
      <4>1. i \in 0 .. R - 1 /\ i < k - 1 /\ i \in 0 .. k - 1
        BY <2>1
      <4>2. QED  BY <3>1, <4>1
    <3>3. z[k - 1] = c[k - 1]
      <4>1. k - 1 \in 0 .. R - 1 /\ ~(k - 1 < k - 1) /\ k - 1 \in 0 .. k - 1
        BY <2>1
      <4>2. QED  BY <3>1, <4>1
    <3>4. ASSUME NEW i \in k .. R - 1 PROVE z[i] = 0
      <4>1. i \in 0 .. R - 1 /\ ~(i < k - 1) /\ i # k - 1
        BY <2>1
      <4>2. QED  BY <4>1
    <3> HIDE DEF z
    <3>5. QED  BY <3>1, <3>2, <3>3, <3>4 DEF DownParts
  <2> HIDE DEF z, c
  <2>3. \A i \in 0 .. R - 1 : HasLimb(m, r, i)
    BY <1>2, <1>5
  <2> HIDE DEF R, k, N, h
  <2>4. DownShift(m, r, a, words, k, R, bits, c, z)
    BY <1>1, <1>2, <2>1, <2>2, <2>3 DEF DownShift
  <2>5. PICK g : DownTrace(m, r, a, words, k, R, z, g)
    BY <2>4, DownStores
  <2>6. last = g[R] /\ (k + 1) \div 2 = h
    BY <1>5, <2>1, <2>4, <2>5, LastDown
  <2>7. out = g[R]
    <3>1. DownTurned(m, r, a, words, k, bits).m = g[k]
      BY <2>4, <2>5, LimbsDown
    <3>2. ZeroedFrom(g[k], r, k, R - k) = g[R]
      BY <2>4, <2>5, ZerosFrom
    <3>3. QED  BY <2>1, <3>1, <3>2
  <2>8. DownLength(out, r, k, pad) = h - Bit(TopClear(last, r, h))
    <3> DEFINE t == g[R]
               full == \E i \in (k - 2 + pad) .. k - 1 : Get(t, r, i) # 0
               e == R - 2
               f == R - 1
    <3>1. Stored(Limb, m, t, r, 0 .. R - 1, z)
      BY <2>1, <2>5 DEF DownTrace
    <3>2. k # R => Get(t, r, f) = 0
      <4>1. SUFFICES ASSUME k # R PROVE Get(t, r, f) = 0
        OBVIOUS
      <4>2. f \in 0 .. R - 1 /\ f \in k .. R - 1
        BY <2>1, <4>1
      <4>3. z[f] = 0 /\ HasLimb(m, r, f)
        BY <2>2, <2>3, <4>2 DEF DownParts
      <4> HIDE DEF t, f
      <4>4. Get(t, r, f) = z[f]
        <5> DEFINE J == 0 .. R - 1
        <5>1. Stored(Limb, m, t, r, J, z) /\ f \in J /\ HasLimb(m, r, f)
          BY <3>1, <4>2, <4>3
        <5> HIDE DEF J
        <5>2. QED  BY <5>1, StoredThere
      <4>5. QED  BY <4>3, <4>4
    <3>3. TopClear(t, r, h) <=> (Get(t, r, e) = 0 /\ Get(t, r, f) = 0)
      <4>1. 2 * (h - 1) = e /\ 2 * (h - 1) + 1 = f
        BY <1>5, <2>1
      <4> HIDE DEF e, f, t
      <4>2. QED  BY <4>1 DEF TopClear, Clear
    <3>4. full <=> ~TopClear(t, r, h)
      <4>1. CASE k = R
        <5>1. \A i : i \in (k - 2 + pad) .. k - 1 <=> (i = e \/ i = f)
          BY <2>1, <4>1
        <5> HIDE DEF t, e, f
        <5>2. QED  BY <3>3, <5>1
      <4>2. CASE k # R
        <5>1. \A i : i \in (k - 2 + pad) .. k - 1 <=> i = e
          BY <2>1, <4>2
        <5> HIDE DEF t, e, f
        <5>2. QED  BY <3>2, <3>3, <4>2, <5>1
      <4>3. QED  BY <4>1, <4>2
    <3>5. (k + pad) \div 2 = h
      <4>1. k + pad = 2 * h /\ k + pad \in Nat
        BY <1>1, <1>5, <2>1
      <4>2. QED  BY <2>1, <4>1
    <3>6. DownLength(t, r, k, pad) = IF full THEN h ELSE h - 1
      <4> HIDE DEF t
      <4>1. QED  BY <3>5, PX86Assumption DEF DownLength
    <3> HIDE DEF t, full
    <3>7. DownLength(t, r, k, pad) = h - Bit(TopClear(t, r, h))
      BY <2>1, <3>4, <3>6 DEF Bit
    <3>8. QED  BY <2>6, <2>7, <3>7 DEF t
  <2> HIDE DEF last, out
  <2>9. QED  BY <1>3, <1>4, <1>5, <1>7, <2>6, <2>7, <2>8
<1>8. QED  BY <1>6, <1>7

=============================================================================
