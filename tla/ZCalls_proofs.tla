--------------------------- MODULE ZCalls_proofs ---------------------------
(***************************************************************************)
(* Every program of ZCalls is good: claims lead through it from what is    *)
(* true when the call starts to the end of its temporaries.  So every step *)
(* of Runtime, of ZCalls' aliases and of hebi_error_raise keeps the        *)
(* invariant of ZCallsInv; it holds from the start of a thread to its end, *)
(* whatever its client calls, and what ZCalls promises follows from it.    *)
(***************************************************************************)
EXTENDS ZCallsInv, SequenceTheorems, TLAPS

-----------------------------------------------------------------------------
(* Runs of steps *)

\* A sequence has a length, and the first of its steps can be taken off.
LEMMA SeqFacts ==
    ASSUME NEW p, IsSeq(p)
    PROVE  /\ Len(p) \in Nat
           /\ p # <<>> => /\ IsSeq(Tail(p)) /\ Len(Tail(p)) = Len(p) - 1 /\ Len(p) > 0
                          /\ Head(p) = p[1]
                          /\ \A i \in 1 .. Len(p) - 1 : Tail(p)[i] = p[i + 1]
<1>1. PICK S : p \in Seq(S)
  BY DEF IsSeq
<1>2. Len(p) \in Nat
  BY <1>1
<1>3. ASSUME p # <<>>
      PROVE  /\ Tail(p) \in Seq(S) /\ Len(Tail(p)) = Len(p) - 1 /\ Len(p) > 0 /\ Head(p) = p[1]
             /\ \A i \in 1 .. Len(p) - 1 : Tail(p)[i] = p[i + 1]
  BY <1>1, <1>3
<1>. QED BY <1>2, <1>3 DEF IsSeq

\* Nothing to do, nothing changed.
LEMMA RunsNone == ASSUME NEW A PROVE Runs(<<>>, A, A)
<1>. DEFINE T == <<A>>
<1>1. IsSeq(<<>>) /\ Len(<<>>) = 0
  BY EmptySeq DEF IsSeq
<1>2. T[1] = A /\ T[Len(<<>>) + 1] = A /\ \A i \in 1 .. Len(<<>>) : Choice(T[i], <<>>[i], T[i + 1])
  BY <1>1
<1>. QED BY <1>1, <1>2 DEF Runs

LEMMA NoneRuns == ASSUME NEW A, NEW B, Runs(<<>>, A, B) PROVE A = B
BY EmptySeq DEF Runs

\* The first step of a run, and the rest.
LEMMA RunsFirst ==
    ASSUME NEW p, NEW A, NEW C, Runs(p, A, C), p # <<>>
    PROVE  \E B : Choice(A, Head(p), B) /\ Runs(Tail(p), B, C)
<1>1. PICK T : /\ T[1] = A /\ T[Len(p) + 1] = C
               /\ \A i \in 1 .. Len(p) : Choice(T[i], p[i], T[i + 1])
  BY DEF Runs
<1>2. /\ Len(p) \in Nat /\ Len(p) > 0 /\ IsSeq(Tail(p)) /\ Len(Tail(p)) = Len(p) - 1
      /\ Head(p) = p[1] /\ \A i \in 1 .. Len(p) - 1 : Tail(p)[i] = p[i + 1]
  BY SeqFacts DEF Runs
<1>. DEFINE U == [i \in 1 .. Len(p) |-> T[i + 1]]
<1>3. Choice(A, Head(p), T[2])
  <2>1. 1 \in 1 .. Len(p) /\ 1 + 1 = 2
    BY <1>2
  <2>. QED BY <1>1, <1>2, <2>1
<1>4. U[1] = T[2] /\ U[Len(Tail(p)) + 1] = C
  BY <1>1, <1>2
<1>5. ASSUME NEW i \in 1 .. Len(Tail(p))
      PROVE  Choice(U[i], Tail(p)[i], U[i + 1])
  <2>1. i \in 1 .. Len(p) - 1 /\ i + 1 \in 1 .. Len(p) /\ i \in 1 .. Len(p)
    BY <1>2
  <2>2. U[i] = T[i + 1] /\ U[i + 1] = T[(i + 1) + 1] /\ Tail(p)[i] = p[i + 1]
    BY <1>2, <2>1
  <2>. QED BY <1>1, <2>1, <2>2
<1>. HIDE DEF U
<1>6. Runs(Tail(p), T[2], C)
  BY <1>2, <1>4, <1>5 DEF Runs
<1>. QED BY <1>3, <1>6

\* One step is a run.
LEMMA RunsOne ==
    ASSUME NEW A, NEW B, NEW s, Choice(A, s, B)
    PROVE  Runs(<<s>>, A, B)
<1>. DEFINE T == <<A, B>>
<1>1. IsSeq(<<s>>) /\ Len(<<s>>) = 1 /\ <<s>>[1] = s
  <2>1. <<s>> \in Seq({s})
    OBVIOUS
  <2>. QED BY <2>1 DEF IsSeq
<1>2. T[1] = A /\ T[Len(<<s>>) + 1] = B
  BY <1>1
<1>3. ASSUME NEW i \in 1 .. Len(<<s>>) PROVE Choice(T[i], <<s>>[i], T[i + 1])
  BY <1>1
<1>. HIDE DEF T
<1>. QED BY <1>1, <1>2, <1>3 DEF Runs

\* Two runs make one.
LEMMA RunsBoth ==
    ASSUME NEW p, NEW q, NEW A, NEW B, NEW C, Runs(p, A, B), Runs(q, B, C)
    PROVE  Runs(p \o q, A, C)
<1>1. PICK S : p \in Seq(S)
  BY DEF Runs, IsSeq
<1>2. PICK R : q \in Seq(R)
  BY DEF Runs, IsSeq
<1>3. p \in Seq(S \cup R) /\ q \in Seq(S \cup R)
  BY <1>1, <1>2, SeqMonotonic
<1>. DEFINE m == Len(p)
            n == Len(q)
<1>4. /\ IsSeq(p \o q) /\ m \in Nat /\ n \in Nat /\ Len(p \o q) = m + n
      /\ \A i \in 1 .. m + n : (p \o q)[i] = IF i <= m THEN p[i] ELSE q[i - m]
  BY <1>3, ConcatProperties DEF IsSeq
<1>5. PICK T : /\ T[1] = A /\ T[m + 1] = B
               /\ \A i \in 1 .. m : Choice(T[i], p[i], T[i + 1])
  BY DEF Runs
<1>6. PICK U : /\ U[1] = B /\ U[n + 1] = C
               /\ \A i \in 1 .. n : Choice(U[i], q[i], U[i + 1])
  BY DEF Runs
<1>. DEFINE W == [i \in 1 .. m + n + 1 |-> IF i <= m THEN T[i] ELSE U[i - m]]
<1>7. W[1] = A /\ W[m + n + 1] = C
  <2>1. W[1] = IF 1 <= m THEN T[1] ELSE U[1 - m]
    BY <1>4
  <2>2. ~(1 <= m) => m = 0
    BY <1>4
  <2>3. W[1] = A
    BY <1>5, <1>6, <2>1, <2>2
  <2>4. W[m + n + 1] = U[(m + n + 1) - m] /\ (m + n + 1) - m = n + 1
    BY <1>4
  <2>. QED BY <1>6, <2>3, <2>4
<1>8. ASSUME NEW i \in 1 .. m + n
      PROVE  Choice(W[i], (p \o q)[i], W[i + 1])
  <2>1. CASE i + 1 <= m
    <3>1. W[i] = T[i] /\ W[i + 1] = T[i + 1] /\ (p \o q)[i] = p[i] /\ i \in 1 .. m
      BY <1>4, <2>1
    <3>. QED BY <1>5, <3>1
  <2>2. CASE i = m
    <3>1. W[i] = T[i] /\ W[i + 1] = U[(i + 1) - m] /\ (i + 1) - m = 1
      BY <1>4, <2>2
    <3>2. (p \o q)[i] = p[i] /\ i \in 1 .. m /\ T[i + 1] = B
      BY <1>4, <1>5, <2>2
    <3>. QED BY <1>5, <1>6, <3>1, <3>2
  <2>3. CASE i > m
    <3>1. W[i] = U[i - m] /\ W[i + 1] = U[(i - m) + 1] /\ (p \o q)[i] = q[i - m] /\ i - m \in 1 .. n
      <4>1. (i + 1) - m = (i - m) + 1
        BY <1>4
      <4>. QED BY <1>4, <2>3, <4>1
    <3>. QED BY <1>6, <3>1
  <2>. QED BY <1>4, <2>1, <2>2, <2>3
<1>. HIDE DEF W
<1>. QED BY <1>4, <1>7, <1>8 DEF Runs

\* A program without a choice of programs is a run.
LEMMA StraightRuns == ASSUME NEW p, NEW A, NEW B, Straight(p, A, B) PROVE Runs(p, A, B)
<1>1. PICK T : /\ T[1] = A /\ T[Len(p) + 1] = B
               /\ \A i \in 1 .. Len(p) : Edge(T[i], p[i], T[i + 1])
  BY DEF Straight
<1>2. \A i \in 1 .. Len(p) : Choice(T[i], p[i], T[i + 1])
  BY <1>1 DEF Choice
<1>. QED BY <1>1, <1>2 DEF Straight, Runs

LEMMA StraightOne ==
    ASSUME NEW A, NEW B, NEW s, Edge(A, s, B)
    PROVE  Straight(<<s>>, A, B)
<1>. DEFINE T == <<A, B>>
<1>1. IsSeq(<<s>>) /\ Len(<<s>>) = 1 /\ <<s>>[1] = s
  <2>1. <<s>> \in Seq({s})
    OBVIOUS
  <2>. QED BY <2>1 DEF IsSeq
<1>2. T[1] = A /\ T[Len(<<s>>) + 1] = B
  BY <1>1
<1>3. ASSUME NEW i \in 1 .. Len(<<s>>) PROVE Edge(T[i], <<s>>[i], T[i + 1])
  BY <1>1
<1>. HIDE DEF T
<1>. QED BY <1>1, <1>2, <1>3 DEF Straight

LEMMA StraightTwo ==
    ASSUME NEW A, NEW B, NEW C, NEW s, NEW t, Edge(A, s, B), Edge(B, t, C)
    PROVE  Straight(<<s, t>>, A, C)
<1>. DEFINE T == <<A, B, C>>
<1>1. IsSeq(<<s, t>>) /\ Len(<<s, t>>) = 2 /\ <<s, t>>[1] = s /\ <<s, t>>[2] = t
  <2>1. <<s, t>> \in Seq({s, t})
    OBVIOUS
  <2>. QED BY <2>1 DEF IsSeq
<1>2. T[1] = A /\ T[Len(<<s, t>>) + 1] = C
  BY <1>1
<1>3. ASSUME NEW i \in 1 .. Len(<<s, t>>) PROVE Edge(T[i], <<s, t>>[i], T[i + 1])
  <2>1. i = 1 \/ i = 2
    BY <1>1
  <2>. QED BY <1>1, <2>1
<1>. HIDE DEF T
<1>. QED BY <1>1, <1>2, <1>3 DEF Straight

LEMMA StraightThree ==
    ASSUME NEW A, NEW B, NEW C, NEW D, NEW s, NEW t, NEW u,
           Edge(A, s, B), Edge(B, t, C), Edge(C, u, D)
    PROVE  Straight(<<s, t, u>>, A, D)
<1>. DEFINE T == <<A, B, C, D>>
            p == <<s, t, u>>
<1>1. IsSeq(p) /\ Len(p) = 3 /\ p[1] = s /\ p[2] = t /\ p[3] = u
  <2>1. p \in Seq({s, t, u})
    OBVIOUS
  <2>. QED BY <2>1 DEF IsSeq
<1>2. T[1] = A /\ T[Len(p) + 1] = D
  BY <1>1
<1>3. ASSUME NEW i \in 1 .. Len(p) PROVE Edge(T[i], p[i], T[i + 1])
  <2>1. i = 1 \/ i = 2 \/ i = 3
    BY <1>1
  <2>2. T[1] = A /\ T[1 + 1] = B /\ T[2 + 1] = C /\ T[3 + 1] = D /\ T[2] = B /\ T[3] = C
    OBVIOUS
  <2>. QED BY <1>1, <2>1, <2>2
<1>. HIDE DEF T
<1>. QED BY <1>1, <1>2, <1>3 DEF Straight

-----------------------------------------------------------------------------
(* What each step needs and leaves *)

\* In claim B the buffer of z has room for n packets, and the others for what
\* they had in claim A; or z and r have exchanged theirs.
RoomFor(B, A, z, n) == B.room[z] = n /\ \A o \in Object \ {z} : B.room[o] = A.room[o]

RoomSwapped(B, A, z, r) ==
    /\ B.room[z] = A.room[r] /\ B.room[r] = A.room[z]
    /\ \A o \in Object \ {z, r} : B.room[o] = A.room[o]

LEMMA LeavesEdge ==
    ASSUME NEW A, NEW s, NEW B \in Claim, Needs(A, s), Leaves(A, s) = B
    PROVE  Edge(A, s, B)
<1>1. Below(B, B)
  BY DEF Below, Claim
<1>. QED BY <1>1 DEF Edge

\* hebi_zsetzero and the results of a kernel: nothing can fail.
LEMMA ZeroRule ==
    ASSUME NEW A \in Claim, NEW z \in Object
    PROVE  \E B \in Claim : /\ Edge(A, Zero(z), B)
                            /\ B.live = A.live /\ B.bare = A.bare /\ B.stk = A.stk
                            /\ B.kept = A.kept \ {z} /\ B.room = A.room
<1>. DEFINE B == [A EXCEPT !.kept = @ \ {z}]
<1>1. B \in Claim /\ Leaves(A, Zero(z)) = B
  BY DEF Claim, Zero, Leaves
<1>2. Needs(A, Zero(z))
  BY DEF Needs, Zero
<1>3. Edge(A, Zero(z), B)
  BY <1>1, <1>2, LeavesEdge
<1>4. /\ B.live = A.live /\ B.bare = A.bare /\ B.stk = A.stk
      /\ B.kept = A.kept \ {z} /\ B.room = A.room
  BY DEF Claim
<1>. HIDE DEF B
<1>. QED BY <1>1, <1>2, <1>3, <1>4

LEMMA KernelRule ==
    ASSUME NEW A \in Claim, NEW outs \in SUBSET Object, NEW reads \in SUBSET A.kept
    PROVE  \E B \in Claim : /\ Edge(A, Kernel(outs, reads), B)
                            /\ B.live = A.live /\ B.bare = A.bare /\ B.stk = A.stk
                            /\ B.kept = A.kept \ outs /\ B.room = A.room
<1>. DEFINE B == [A EXCEPT !.kept = @ \ outs]
<1>1. B \in Claim /\ Leaves(A, Kernel(outs, reads)) = B
  BY DEF Claim, Kernel, Leaves
<1>2. Needs(A, Kernel(outs, reads))
  BY DEF Needs, Kernel
<1>3. Edge(A, Kernel(outs, reads), B)
  BY <1>1, <1>2, LeavesEdge
<1>4. /\ B.live = A.live /\ B.bare = A.bare /\ B.stk = A.stk
      /\ B.kept = A.kept \ outs /\ B.room = A.room
  BY DEF Claim
<1>. HIDE DEF B
<1>. QED BY <1>1, <1>2, <1>3, <1>4

\* A value of as many packets as one of ns fits the buffer of z.
Fits(ns, A, z) == \A n \in ns : n \in Nat /\ n =< A.room[z]

LEMMA PublishRule ==
    ASSUME NEW A \in Claim, NEW z \in Object, NEW ns, Fits(ns, A, z)
    PROVE  \E B \in Claim : /\ Edge(A, Publish(z, ns), B)
                            /\ B.live = A.live /\ B.bare = A.bare /\ B.stk = A.stk
                            /\ B.kept = A.kept \ {z} /\ B.room = A.room
<1>. DEFINE B == [A EXCEPT !.kept = @ \ {z}]
<1>1. B \in Claim /\ Leaves(A, Publish(z, ns)) = B
  BY DEF Claim, Publish, Leaves
<1>2. Needs(A, Publish(z, ns))
  BY DEF Needs, Publish, Fits
<1>3. Edge(A, Publish(z, ns), B)
  BY <1>1, <1>2, LeavesEdge
<1>4. /\ B.live = A.live /\ B.bare = A.bare /\ B.stk = A.stk
      /\ B.kept = A.kept \ {z} /\ B.room = A.room
  BY DEF Claim
<1>. HIDE DEF B
<1>. QED BY <1>1, <1>2, <1>3, <1>4

LEMMA SwapRule ==
    ASSUME NEW A \in Claim, NEW z \in A.live, NEW r \in A.live
    PROVE  \E B \in Claim : /\ Edge(A, Swap(z, r), B)
                            /\ B.live = A.live /\ B.bare = A.bare \ {z, r} /\ B.stk = A.stk
                            /\ B.kept = A.kept \ {z, r}
                            /\ RoomSwapped(B, A, z, r)
<1>. DEFINE B == [A EXCEPT !.bare = @ \ {z, r}, !.kept = @ \ {z, r}, !.idle = {},
                           !.room = [A.room EXCEPT ![z] = A.room[r], ![r] = A.room[z]]]
<1>0. z \in Object /\ r \in Object
  BY DEF Claim
<1>1. Leaves(A, Swap(z, r)) = B
  BY DEF Swap, Leaves
<1>2. B \in Claim
  BY <1>0 DEF Claim
<1>3. Needs(A, Swap(z, r))
  BY DEF Needs, Swap
<1>4. Edge(A, Swap(z, r), B)
  BY <1>1, <1>2, <1>3, LeavesEdge
<1>5. /\ B.live = A.live /\ B.bare = A.bare \ {z, r} /\ B.stk = A.stk
      /\ B.kept = A.kept \ {z, r}
      /\ RoomSwapped(B, A, z, r)
  BY <1>0 DEF Claim, RoomSwapped
<1>. HIDE DEF B
<1>. QED BY <1>1, <1>2, <1>3, <1>4, <1>5

LEMMA MakeRule ==
    ASSUME NEW A \in Claim, NEW t \in A.bare \cap Tmp, NEW id \in AllocId
    PROVE  \E B \in Claim : /\ Edge(A, Make(t, id), B)
                            /\ B.live = A.live \cup {t} /\ B.bare = A.bare /\ B.stk = A.stk
                            /\ B.kept = A.kept /\ RoomFor(B, A, t, 0)
<1>. DEFINE B == [A EXCEPT !.live = @ \cup {t}, !.room = [A.room EXCEPT ![t] = 0]]
<1>0. t \in Object
  BY DEF Claim
<1>1. Leaves(A, Make(t, id)) = B
  BY DEF Make, Leaves
<1>2. B \in Claim
  BY <1>0 DEF Claim
<1>3. Needs(A, Make(t, id))
  BY DEF Needs, Make
<1>4. Edge(A, Make(t, id), B)
  BY <1>1, <1>2, <1>3, LeavesEdge
<1>5. /\ B.live = A.live \cup {t} /\ B.bare = A.bare /\ B.stk = A.stk
      /\ B.kept = A.kept /\ RoomFor(B, A, t, 0)
  BY <1>0 DEF Claim, RoomFor
<1>. HIDE DEF B
<1>. QED BY <1>1, <1>2, <1>3, <1>4, <1>5

\* The steps that allocate may raise, so they come before anything is lost.
LEMMA GrowRule ==
    ASSUME NEW A \in Claim, MayRaise(A), NEW z \in A.live, NEW n \in Nat, NEW copy
    PROVE  \E B \in Claim : /\ Edge(A, Grow(z, n, copy), B)
                            /\ B.live = A.live /\ B.bare = A.bare \ {z} /\ B.stk = A.stk
                            /\ B.kept = (IF copy THEN A.kept ELSE A.kept \ {z})
                            /\ RoomFor(B, A, z, n)
<1>. DEFINE B == [A EXCEPT !.bare = @ \ {z}, !.kept = IF copy THEN @ ELSE @ \ {z}, !.idle = {},
                           !.room = [A.room EXCEPT ![z] = n]]
<1>0. z \in Object
  BY DEF Claim
<1>1. Leaves(A, Grow(z, n, copy)) = B
  BY DEF Grow, Leaves
<1>2. B \in Claim
  BY <1>0 DEF Claim
<1>3. Needs(A, Grow(z, n, copy))
  BY DEF Needs, Grow
<1>4. Edge(A, Grow(z, n, copy), B)
  BY <1>1, <1>2, <1>3, LeavesEdge
<1>5. /\ B.live = A.live /\ B.bare = A.bare \ {z} /\ B.stk = A.stk
      /\ B.kept = (IF copy THEN A.kept ELSE A.kept \ {z})
      /\ RoomFor(B, A, z, n)
  BY <1>0 DEF Claim, RoomFor
<1>. HIDE DEF B
<1>. QED BY <1>1, <1>2, <1>3, <1>4, <1>5

LEMMA ReallocRule ==
    ASSUME NEW A \in Claim, MayRaise(A), NEW z \in A.live, NEW n \in Nat, NEW keep
    PROVE  \E B \in Claim : /\ Edge(A, Realloc(z, n, keep), B)
                            /\ B.live = A.live /\ B.bare = A.bare \ {z} /\ B.stk = A.stk
                            /\ B.kept = A.kept \ {z}
                            /\ RoomFor(B, A, z, n)
<1>. DEFINE B == [A EXCEPT !.bare = @ \ {z}, !.kept = @ \ {z}, !.idle = {},
                           !.room = [A.room EXCEPT ![z] = n]]
<1>0. z \in Object
  BY DEF Claim
<1>1. Leaves(A, Realloc(z, n, keep)) = B
  BY DEF Realloc, Leaves
<1>2. B \in Claim
  BY <1>0 DEF Claim
<1>3. Needs(A, Realloc(z, n, keep))
  BY DEF Needs, Realloc
<1>4. Edge(A, Realloc(z, n, keep), B)
  BY <1>1, <1>2, <1>3, LeavesEdge
<1>5. /\ B.live = A.live /\ B.bare = A.bare \ {z} /\ B.stk = A.stk
      /\ B.kept = A.kept \ {z}
      /\ RoomFor(B, A, z, n)
  BY <1>0 DEF Claim, RoomFor
<1>. HIDE DEF B
<1>. QED BY <1>1, <1>2, <1>3, <1>4, <1>5

LEMMA ConstructRule ==
    ASSUME NEW A \in Claim, MayRaise(A), NEW z \in A.bare, NEW id \in AllocId, NEW n \in Nat,
           NEW used \in Nat, used =< n, NEW nz \in BOOLEAN, nz => used > 0,
           NEW reads \in SUBSET A.kept, \A a \in reads : used =< A.room[a]
    PROVE  \E B \in Claim : /\ Edge(A, Construct(z, id, n, used, nz, reads), B)
                            /\ B.bare = A.bare \ {z} /\ B.stk = A.stk
<1>. DEFINE B == [A EXCEPT !.live = @ \cup {z}, !.bare = @ \ {z}, !.kept = @ \ {z}, !.idle = {},
                           !.room = [A.room EXCEPT ![z] = n]]
            s == Construct(z, id, n, used, nz, reads)
<1>0. z \in Object
  BY DEF Claim
<1>1. Leaves(A, s) = B
  BY DEF Construct, Leaves
<1>2. B \in Claim
  BY <1>0 DEF Claim
<1>3. Needs(A, s)
  BY DEF Needs, Construct
<1>4. Edge(A, s, B)
  BY <1>1, <1>2, <1>3, LeavesEdge
<1>5. /\ B.bare = A.bare \ {z} /\ B.stk = A.stk
  BY DEF Claim
<1>. HIDE DEF B
<1>. QED BY <1>1, <1>2, <1>3, <1>4, <1>5

LEMMA DestroyRule ==
    ASSUME NEW A \in Claim, NEW z \in A.live
    PROVE  \E B \in Claim : /\ Edge(A, Destroy(z), B)
                            /\ B.live = A.live \ {z} /\ B.bare = A.bare \cup {z} /\ B.stk = A.stk
                            /\ B.kept = A.kept \ {z}
<1>. DEFINE B == [A EXCEPT !.live = @ \ {z}, !.bare = @ \cup {z}, !.kept = @ \ {z},
                           !.room = [A.room EXCEPT ![z] = 0]]
<1>0. z \in Object
  BY DEF Claim
<1>1. Leaves(A, Destroy(z)) = B
  BY DEF Destroy, Leaves
<1>2. B \in Claim
  BY <1>0 DEF Claim
<1>3. Needs(A, Destroy(z))
  BY DEF Needs, Destroy
<1>4. Edge(A, Destroy(z), B)
  BY <1>1, <1>2, <1>3, LeavesEdge
<1>5. /\ B.live = A.live \ {z} /\ B.bare = A.bare \cup {z} /\ B.stk = A.stk
      /\ B.kept = A.kept \ {z}
  BY DEF Claim
<1>. HIDE DEF B
<1>. QED BY <1>1, <1>2, <1>3, <1>4, <1>5

LEMMA FrontOfAppend ==
    ASSUME NEW S, NEW u \in Seq(S), NEW e \in S
    PROVE  /\ Len(Append(u, e)) = Len(u) + 1
           /\ SubSeq(Append(u, e), 1, Len(Append(u, e)) - 1) = u
<1>. DEFINE v == Append(u, e)
<1>1. v \in Seq(S) /\ Len(v) = Len(u) + 1 /\ \A i \in 1 .. Len(u) : v[i] = u[i]
  BY AppendProperties
<1>2. Len(u) \in Nat
  BY LenProperties
<1>. HIDE DEF v
<1>3. Len(v) - 1 = Len(u) /\ Len(u) \in 1 - 1 .. Len(v) /\ 1 \in 1 .. Len(v) + 1
  BY <1>1, <1>2
<1>4. Len(SubSeq(v, 1, Len(u))) = Len(u) /\ SubSeq(v, 1, Len(u)) \in Seq(S)
      /\ \A i \in 1 .. Len(u) : SubSeq(v, 1, Len(u))[i] = v[i]
  BY <1>1, <1>2, SubSeqProperties
<1>5. SubSeq(v, 1, Len(u)) = u
  BY <1>1, <1>4, SeqEqual
<1>. QED BY <1>1, <1>3, <1>5 DEF v

\* A temporary goes on the stack, and comes off it from the top.
LEMMA PushRule ==
    ASSUME NEW A \in Claim, MayRaise(A), NEW t \in A.bare \cap Tmp, NEW id \in AllocId
    PROVE  \E B \in Claim : /\ Edge(A, Push(t, id), B)
                            /\ B.live = A.live \cup {t} /\ B.bare = A.bare
                            /\ B.stk = Append(A.stk, t)
                            /\ B.kept = A.kept /\ RoomFor(B, A, t, 0)
<1>. DEFINE B == [A EXCEPT !.live = @ \cup {t}, !.stk = Append(@, t),
                           !.room = [A.room EXCEPT ![t] = 0]]
<1>0. t \in Object /\ t \in Tmp /\ Append(A.stk, t) \in Seq(Tmp)
  BY AppendProperties DEF Claim
<1>1. Leaves(A, Push(t, id)) = B
  BY DEF Push, Leaves
<1>2. B \in Claim
  BY <1>0 DEF Claim
<1>3. Needs(A, Push(t, id))
  BY DEF Needs, Push
<1>4. Edge(A, Push(t, id), B)
  BY <1>1, <1>2, <1>3, LeavesEdge
<1>5. /\ B.live = A.live \cup {t} /\ B.bare = A.bare
      /\ B.stk = Append(A.stk, t)
      /\ B.kept = A.kept /\ RoomFor(B, A, t, 0)
  BY <1>0 DEF Claim, RoomFor
<1>. HIDE DEF B
<1>. QED BY <1>1, <1>2, <1>3, <1>4, <1>5

LEMMA PopRule ==
    ASSUME NEW A \in Claim, NEW t \in A.live \cap Tmp, NEW under \in Seq(Tmp), A.stk = Append(under, t)
    PROVE  \E B \in Claim : /\ Edge(A, Pop(t), B)
                            /\ B.live = A.live \ {t} /\ B.bare = A.bare \cup {t}
                            /\ B.stk = under /\ B.kept = A.kept
                            /\ RoomFor(B, A, t, 0)
<1>. DEFINE B == [A EXCEPT !.live = @ \ {t}, !.bare = @ \cup {t},
                           !.stk = SubSeq(@, 1, Len(@) - 1), !.room = [A.room EXCEPT ![t] = 0]]
<1>0. t \in Object /\ t \in Tmp
  BY DEF Claim
<1>1. A.stk # <<>> /\ A.stk[Len(A.stk)] = t /\ SubSeq(A.stk, 1, Len(A.stk) - 1) = under
  BY <1>0, AppendProperties, FrontOfAppend
<1>2. Leaves(A, Pop(t)) = B
  BY DEF Pop, Leaves
<1>3. B \in Claim
  BY <1>0, <1>1 DEF Claim
<1>4. Needs(A, Pop(t))
  BY <1>1 DEF Needs, Pop
<1>5. Edge(A, Pop(t), B)
  BY <1>1, <1>2, <1>3, <1>4, LeavesEdge
<1>6. /\ B.live = A.live \ {t} /\ B.bare = A.bare \cup {t}
      /\ B.stk = under /\ B.kept = A.kept
      /\ RoomFor(B, A, t, 0)
  BY <1>0 DEF Claim, RoomFor
<1>. HIDE DEF B
<1>. QED BY <1>1, <1>2, <1>3, <1>4, <1>5, <1>6

\* A call for the scratch buffer moves no integer.
LEMMA ScratchRule ==
    ASSUME NEW A \in Claim, MayRaise(A), NEW n \in Nat
    PROVE  Edge(A, Scratch(n), A)
<1>1. Leaves(A, Scratch(n)) = A
  BY DEF Scratch, Leaves
<1>2. Needs(A, Scratch(n))
  BY DEF Needs, Scratch
<1>. QED BY <1>1, <1>2, LeavesEdge

LEMMA UnscratchRule == ASSUME NEW A \in Claim PROVE Edge(A, Unscratch, A)
<1>1. Leaves(A, Unscratch) = A
  BY DEF Unscratch, Leaves
<1>2. Needs(A, Unscratch)
  BY DEF Needs, Unscratch
<1>. QED BY <1>1, <1>2, LeavesEdge

\* An error ends the call: whatever was to follow holds.
LEMMA ErrorRule ==
    ASSUME NEW A \in Claim, MayRaise(A), NEW B \in Claim
    PROVE  Edge(A, Error, B)
BY DEF Edge, Needs, Error

LEMMA AliasRule ==
    ASSUME NEW A \in Claim, MayRaise(A), NEW a \in Alias, NEW id \in AllocId \cup {"INVALID"},
           ~Rebinds => a \in A.idle
    PROVE  \E B \in Claim : /\ Edge(A, SetAlias(a, id), B)
                            /\ B.bare = A.bare /\ B.stk = A.stk
<1>. DEFINE B == [A EXCEPT !.idle = {}]
<1>1. B \in Claim /\ Leaves(A, SetAlias(a, id)) = B
  BY DEF Claim, SetAlias, Leaves
<1>2. Needs(A, SetAlias(a, id))
  BY DEF Needs, SetAlias
<1>3. Edge(A, SetAlias(a, id), B)
  BY <1>1, <1>2, LeavesEdge
<1>4. B.bare = A.bare /\ B.stk = A.stk
  BY DEF Claim
<1>. HIDE DEF B
<1>. QED BY <1>1, <1>2, <1>3, <1>4

-----------------------------------------------------------------------------
(* The start of a call *)

\* What the client has when it calls.
Begin ==
    [live |-> Ready, bare |-> {z \in Object : obj[z].blk = NoBlock}, stk |-> <<>>, kept |-> Zvar,
     idle |-> {a \in Alias : IdleAlias(a)}, room |-> [z \in Object |-> obj[z].cap]]

Starts(A) ==
    /\ A \in Claim /\ MayRaise(A) /\ Final(A)
    /\ A.live = Ready /\ A.stk = <<>> /\ A.kept = Zvar
    /\ \A z \in Object : A.room[z] = obj[z].cap /\ (obj[z].blk = NoBlock <=> z \in A.bare)
    /\ \A a \in Alias : IdleAlias(a) => a \in A.idle
    /\ \A z \in Object : /\ obj[z] \in Number /\ obj[z].used =< obj[z].cap
                         /\ obj[z].nz => obj[z].used > 0
                         /\ obj[z].id = "INVALID" => obj[z].blk = NoBlock

Ends(p, A) == \E B \in Claim : Runs(p, A, B) /\ Final(B)

LEMMA BeginStarts == ASSUME Inv, pc = "client", NEW A, A = Begin PROVE Starts(A)
<1>1. obj \in [Object -> Number] /\ InvShape /\ \A t \in Tmp : obj[t].blk = NoBlock
  BY DEF Inv, Memory_z, InvTypes, Places, InvClient, Dead
<1>2. Tmp \subseteq Object /\ Zvar \subseteq Object /\ Ready \subseteq Zvar
  BY DEF Object, Ready
<1>3. <<>> \in Seq(Tmp)
  BY EmptySeq
<1>4. A \in Claim
  BY <1>1, <1>2, <1>3 DEF Claim, Begin, Number
<1>5. /\ A.live = Ready /\ A.stk = <<>> /\ A.kept = Zvar
      /\ A.bare = {z \in Object : obj[z].blk = NoBlock}
      /\ A.idle = {a \in Alias : IdleAlias(a)}
      /\ A.room = [z \in Object |-> obj[z].cap]
  BY DEF Begin
<1>6. Tmp \subseteq A.bare
  BY <1>1, <1>2, <1>5
<1>7. MayRaise(A) /\ Final(A)
  BY <1>4, <1>5, <1>6 DEF MayRaise, Final
<1>8. \A z \in Object : A.room[z] = obj[z].cap /\ (obj[z].blk = NoBlock <=> z \in A.bare)
  BY <1>5
<1>9. \A z \in Object : /\ obj[z] \in Number /\ obj[z].used =< obj[z].cap
                        /\ obj[z].nz => obj[z].used > 0
                        /\ obj[z].id = "INVALID" => obj[z].blk = NoBlock
  BY <1>1 DEF InvShape
<1>. QED BY <1>4, <1>5, <1>7, <1>8, <1>9 DEF Starts

\* What Starts says of an integer that the client passes.
LEMMA ReadyFacts ==
    ASSUME NEW A, Starts(A), NEW z \in Ready
    PROVE  /\ z \in Zvar /\ z \in Object /\ z \notin Tmp /\ z \in A.live /\ z # Null
           /\ obj[z].used \in Nat /\ obj[z].cap \in Nat /\ obj[z].used =< obj[z].cap
           /\ obj[z].nz \in BOOLEAN /\ (obj[z].nz => obj[z].used > 0)
           /\ obj[z].id \in AllocId /\ A.room[z] = obj[z].cap
<1>1. z \in Zvar /\ z \in Object /\ obj[z] \in Number /\ obj[z].id # "INVALID"
  BY DEF Starts, Ready, Object, Live
<1>2. z \notin Tmp /\ z # Null
  BY <1>1, RuntimeAssumption DEF Null
<1>. QED BY <1>1, <1>2 DEF Starts, Number

LEMMA StepEnds == ASSUME NEW A, NEW s, NEW B \in Claim, Edge(A, s, B), Final(B) PROVE Ends(<<s>>, A)
BY StraightOne, StraightRuns DEF Ends

LEMMA NoneEnds == ASSUME NEW A, Final(A) PROVE Ends(<<>>, A)
BY RunsNone DEF Ends, Final

LEMMA RunsThenEnds ==
    ASSUME NEW A, NEW p, NEW q, NEW B, Runs(p, A, B), Ends(q, B)
    PROVE  Ends(p \o q, A)
BY RunsBoth DEF Ends

-----------------------------------------------------------------------------
(* The programs *)

\* What a kernel reads is as the call found it; it is not in the buffer of t.
Intact(A, reads) == reads \subseteq A.kept
Apart(reads, t) == reads \subseteq Zvar \ {t}

\* A kernel stores in the buffer of r, and the result is published.
Compute(r, reads, ns) == <<Kernel({r}, reads), Publish(r, ns)>>

LEMMA ComputeRuns ==
    ASSUME NEW A \in Claim, NEW r \in Object, NEW reads, Intact(A, reads),
           NEW ns, Fits(ns, A, r)
    PROVE  \E B \in Claim : /\ Straight(Compute(r, reads, ns), A, B)
                            /\ B.live = A.live /\ B.bare = A.bare /\ B.stk = A.stk
                            /\ B.kept = A.kept \ {r}
<1>. DEFINE outs == {r}
<1>0. outs \in SUBSET Object /\ reads \in SUBSET A.kept
  BY DEF Intact
<1>. HIDE DEF outs
<1>1. PICK B \in Claim : /\ Edge(A, Kernel(outs, reads), B)
                         /\ B.live = A.live /\ B.bare = A.bare /\ B.stk = A.stk
                         /\ B.kept = A.kept \ outs /\ B.room = A.room
  BY <1>0, KernelRule
<1>2. PICK C \in Claim : /\ Edge(B, Publish(r, ns), C)
                         /\ C.live = B.live /\ C.bare = B.bare /\ C.stk = B.stk
                         /\ C.kept = B.kept \ {r}
  <2>1. Fits(ns, B, r)
    BY <1>1 DEF Fits
  <2>. QED BY <1>1, <2>1, PublishRule
<1>3. Straight(<<Kernel(outs, reads), Publish(r, ns)>>, A, C)
  BY <1>1, <1>2, StraightTwo
<1>4. Straight(Compute(r, reads, ns), A, C)
  BY <1>3 DEF Compute, outs
<1>. QED BY <1>1, <1>2, <1>4 DEF outs

LEMMA ZeroEnds == ASSUME NEW A, Final(A), NEW z \in Object PROVE Ends(<<Zero(z)>>, A)
<1>1. A \in Claim
  BY DEF Final
<1>2. PICK B \in Claim : /\ Edge(A, Zero(z), B)
                         /\ B.bare = A.bare /\ B.stk = A.stk
  BY <1>1, ZeroRule
<1>. QED BY <1>2, StepEnds DEF Final

LEMMA ReallocEnds ==
    ASSUME NEW A, Starts(A), NEW z \in Ready, NEW n \in Nat, NEW keep
    PROVE  Ends(<<Realloc(z, n, keep)>>, A)
<1>1. A \in Claim /\ MayRaise(A) /\ Final(A) /\ z \in A.live /\ z \notin Tmp
  BY ReadyFacts DEF Starts
<1>2. PICK B \in Claim : /\ Edge(A, Realloc(z, n, keep), B)
                         /\ B.bare = A.bare \ {z} /\ B.stk = A.stk
  BY <1>1, ReallocRule
<1>. QED BY <1>1, <1>2, StepEnds DEF Final

\* The buffer of r is made large enough, if it is not, and filled.
LEMMA FillEnds ==
    ASSUME NEW A, Starts(A), NEW r \in Ready, NEW reads \in SUBSET (Zvar \ {r}), NEW n \in Nat,
           NEW small \in BOOLEAN, ~small => n =< obj[r].cap
    PROVE  Ends((IF small THEN <<Realloc(r, n, FALSE)>> ELSE NoStep)
                \o Compute(r, reads, {n}), A)
<1>. DEFINE work == Compute(r, reads, {n})
<1>1. /\ A \in Claim /\ MayRaise(A) /\ Final(A) /\ A.kept = Zvar
      /\ r \in A.live /\ r \notin Tmp /\ r \in Object /\ A.room[r] = obj[r].cap
  BY ReadyFacts DEF Starts
<1>2. ASSUME NEW M \in Claim, M.bare \cup {r} = A.bare \cup {r}, M.stk = A.stk,
             M.kept \cup {r} = Zvar \cup {r}, n =< M.room[r]
      PROVE  Ends(work, M)
  <2>. DEFINE ns == {n}
  <2>1. Intact(M, reads) /\ Fits(ns, M, r)
    BY <1>2 DEF Fits, Intact
  <2>. HIDE DEF ns
  <2>2. PICK B \in Claim : /\ Straight(Compute(r, reads, ns), M, B)
                           /\ B.bare = M.bare /\ B.stk = M.stk
    BY <1>1, <2>1, ComputeRuns
  <2>3. Final(B)
    BY <1>1, <1>2, <2>2 DEF Final
  <2>. QED BY <2>2, <2>3, StraightRuns DEF Ends, ns
<1>3. CASE small
  <2>1. PICK M \in Claim : /\ Edge(A, Realloc(r, n, FALSE), M)
                           /\ M.bare = A.bare \ {r} /\ M.stk = A.stk /\ M.kept = A.kept \ {r}
                           /\ RoomFor(M, A, r, n)
    BY <1>1, ReallocRule
  <2>2. n =< M.room[r]
    BY <2>1 DEF RoomFor
  <2>3. Ends(work, M)
    BY <1>1, <1>2, <2>1, <2>2
  <2>4. Runs(<<Realloc(r, n, FALSE)>>, A, M)
    BY <2>1, StraightOne, StraightRuns
  <2>. QED BY <1>3, <2>3, <2>4, RunsThenEnds
<1>4. CASE ~small
  <2>1. Ends(work, A)
    BY <1>1, <1>2, <1>4
  <2>. QED BY <1>4, <2>1, RunsNone, RunsThenEnds DEF NoStep
<1>. QED BY <1>3, <1>4

\* hebi_zset
LEMMA SetToEnds ==
    ASSUME NEW A, Starts(A), NEW r \in Ready, NEW a \in Ready
    PROVE  Ends(SetTo(r, a), A)
<1>1. Final(A) /\ r \in Object /\ a \in Zvar /\ obj[a].used \in Nat
      /\ obj[r].cap \in Nat
  BY ReadyFacts DEF Starts
<1>2. CASE r = a
  BY <1>1, <1>2, NoneEnds DEF SetTo, NoStep
<1>3. CASE r # a /\ ~obj[a].nz
  BY <1>1, <1>3, ZeroEnds DEF SetTo
<1>4. CASE r # a /\ obj[a].nz
  <2>. DEFINE small == obj[a].used > obj[r].cap
  <2>1. small \in BOOLEAN /\ (~small => obj[a].used =< obj[r].cap) /\ {a} \in SUBSET (Zvar \ {r})
    BY <1>1, <1>4
  <2>. HIDE DEF small
  <2>2. Ends((IF small THEN <<Realloc(r, obj[a].used, FALSE)>> ELSE NoStep)
             \o Compute(r, {a}, {obj[a].used}), A)
    BY <1>1, <2>1, FillEnds
  <2>. QED BY <1>4, <2>2 DEF SetTo, Compute, small
<1>. QED BY <1>2, <1>3, <1>4

\* hebi_zseti and hebi_zsetu
LEMMA SetWordEnds == ASSUME NEW A, Starts(A), NEW r \in Ready PROVE Ends(SetWord(r), A)
<1>1. obj[r].cap \in Nat
  BY ReadyFacts
<1>. DEFINE small == obj[r].cap = 0
<1>2. small \in BOOLEAN /\ (~small => 1 =< obj[r].cap)
  BY <1>1
<1>. HIDE DEF small
<1>3. Ends((IF small THEN <<Realloc(r, 1, FALSE)>> ELSE NoStep)
           \o Compute(r, {}, {1}), A)
  BY <1>2, FillEnds
<1>. QED BY <1>3 DEF SetWord, Compute, small

\* hebi_zreserve and hebi_zshrink
LEMMA ResizeEnds ==
    ASSUME NEW A, Starts(A), NEW z \in Ready
    PROVE  Ends(Shrink(z), A) /\ \A n \in Nat : Ends(Reserve(z, n), A)
<1>1. Final(A) /\ obj[z].used \in Nat
  BY ReadyFacts DEF Starts
<1>. QED BY <1>1, NoneEnds, ReallocEnds DEF Shrink, Reserve, NoStep

\* The arithmetic that works in the buffer of its result.
LEMMA InPlaceEnds ==
    ASSUME NEW A, Starts(A), NEW r \in Ready, NEW operands \in SUBSET Ready, NEW n \in Nat
    PROVE  Ends(InPlace(r, operands, n), A)
<1>1. /\ A \in Claim /\ MayRaise(A) /\ Final(A) /\ A.kept = Zvar /\ operands \subseteq Zvar
      /\ r \in A.live /\ r \notin Tmp /\ r \in Object
  BY ReadyFacts DEF Starts
<1>. DEFINE copy == r \in operands
<1>2. PICK B \in Claim : /\ Edge(A, Grow(r, n, copy), B)
                         /\ B.bare = A.bare \ {r} /\ B.stk = A.stk
                         /\ B.kept = (IF copy THEN A.kept ELSE A.kept \ {r})
                         /\ RoomFor(B, A, r, n)
  <2>. HIDE DEF copy
  <2>. QED BY <1>1, GrowRule
<1>3. B.room[r] = n /\ operands \subseteq B.kept
  BY <1>1, <1>2 DEF RoomFor
<1>4. PICK C \in Claim : /\ Edge(B, Kernel({r}, operands), C)
                         /\ C.bare = B.bare /\ C.stk = B.stk /\ C.room = B.room
  BY <1>1, <1>3, KernelRule
<1>5. PICK D \in Claim : /\ Edge(C, Publish(r, {0, n}), D)
                         /\ D.bare = C.bare /\ D.stk = C.stk
  <2>. DEFINE ns == {0, n}
  <2>1. Fits(ns, C, r)
    BY <1>3, <1>4 DEF Fits
  <2>. HIDE DEF ns
  <2>2. \E D \in Claim : Edge(C, Publish(r, ns), D) /\ D.bare = C.bare /\ D.stk = C.stk
    BY <1>1, <2>1, PublishRule
  <2>. QED BY <2>2 DEF ns
<1>6. Straight(InPlace(r, operands, n), A, D)
  BY <1>2, <1>4, <1>5, StraightThree DEF InPlace
<1>. QED BY <1>1, <1>2, <1>4, <1>5, <1>6, StraightRuns DEF Ends, Final

\* A product goes to the buffer of t, made large enough for it.
Within(ns, n) == \A i \in ns : i \in Nat /\ i =< n

\* The buffer of t was used, and no integer made or destroyed.
Worked(A, t, B) == B.live = A.live /\ B.bare = A.bare \ {t} /\ B.stk = A.stk

Product(t, large, n, space, reads, ns) ==
    MulMemory(t, large, n, space) \o Compute(t, reads, ns)

LEMMA ProductRuns ==
    ASSUME NEW A \in Claim, MayRaise(A), NEW t \in A.live, NEW reads, Apart(reads, t),
           NEW large, NEW n \in Nat, NEW space \in Nat, NEW ns, Within(ns, n)
    PROVE  \E B \in Claim : Runs(Product(t, large, n, space, reads, ns), A, B) /\ Worked(A, t, B)
<1>. DEFINE k == IF large THEN n + 1 ELSE n
<1>1. k \in Nat /\ n =< k /\ t \in Object /\ A.kept = Zvar
  BY DEF MayRaise, Claim
<1>. HIDE DEF k
<1>2. PICK M \in Claim : /\ Edge(A, Grow(t, k, FALSE), M)
                         /\ M.live = A.live /\ M.bare = A.bare \ {t} /\ M.stk = A.stk
                         /\ M.kept = A.kept \ {t} /\ RoomFor(M, A, t, k)
  BY <1>1, GrowRule
<1>3. Runs(MulMemory(t, large, n, space), A, M)
  <2>1. CASE large
    <3>1. Edge(A, Scratch(space), A)
      BY ScratchRule
    <3>2. MulMemory(t, large, n, space) = <<Scratch(space), Grow(t, k, FALSE)>>
      BY <2>1 DEF MulMemory, k
    <3>3. Straight(<<Scratch(space), Grow(t, k, FALSE)>>, A, M)
      BY <1>2, <3>1, StraightTwo
    <3>. QED BY <3>2, <3>3, StraightRuns
  <2>2. CASE ~large
    <3>1. MulMemory(t, large, n, space) = <<Grow(t, k, FALSE)>>
      BY <2>2 DEF MulMemory, k
    <3>2. Straight(<<Grow(t, k, FALSE)>>, A, M)
      BY <1>2, StraightOne
    <3>. QED BY <3>1, <3>2, StraightRuns
  <2>. QED BY <2>1, <2>2
<1>4. Fits(ns, M, t) /\ Intact(M, reads)
  BY <1>1, <1>2 DEF Fits, RoomFor, Within, Intact, Apart
<1>5. PICK B \in Claim : /\ Straight(Compute(t, reads, ns), M, B)
                         /\ B.live = M.live /\ B.bare = M.bare /\ B.stk = M.stk
  BY <1>1, <1>4, ComputeRuns
<1>6. Runs(Product(t, large, n, space, reads, ns), A, B)
  BY <1>3, <1>5, StraightRuns, RunsBoth DEF Product
<1>. QED BY <1>2, <1>5, <1>6 DEF Worked

\* hebi_zmul: an operand is the result, so the product is made in a temporary,
\* which goes on the stack before anything can fail.
LEMMA MulEnds ==
    ASSUME NEW A, Starts(A), NEW r \in Ready, NEW a \in Ready, NEW b \in Ready, NEW space \in Nat
    PROVE  Ends(Mul(r, a, b, space, obj[a].used + obj[b].used), A)
<1>. DEFINE t    == MulTarget(r, a, b)
            an   == Larger(obj[a].used, obj[b].used)
            n    == obj[a].used + obj[b].used
            reads == {a, b}
            ns   == {n}
            large == an > MulCutoff
            body == Product(t, large, n, space, reads, ns)
<1>. SUFFICES Ends(Mul(r, a, b, space, n), A)
  OBVIOUS
<1>1. /\ A \in Claim /\ MayRaise(A) /\ Final(A) /\ A.kept = Zvar /\ A.stk = <<>>
      /\ r \in A.live /\ r \in Object /\ r \notin Tmp /\ r \in Zvar /\ obj[r].id \in AllocId
      /\ n \in Nat /\ Within(ns, n) /\ reads \subseteq Zvar /\ Tmp \subseteq A.bare
      /\ reads \cap Tmp = {}
  BY ReadyFacts DEF Starts, Final, Within
<1>2. t = (IF r \in reads THEN "rtmp" ELSE r)
  BY DEF MulTarget
<1>3. Mul(r, a, b, space, n) =
         IF ~obj[a].nz \/ ~obj[b].nz THEN <<Zero(r)>>
         ELSE IF t = r THEN body
         ELSE <<Push(t, obj[r].id)>> \o body \o <<Swap(t, r), Pop(t)>>
  BY DEF Mul, Product, Compute
<1>. HIDE DEF n, t, reads, ns, large, body
<1>4. CASE ~obj[a].nz \/ ~obj[b].nz
  BY <1>1, <1>3, <1>4, ZeroEnds
<1>5. CASE ~(~obj[a].nz \/ ~obj[b].nz) /\ t = r
  <2>1. t \in A.live /\ Apart(reads, t)
    BY <1>1, <1>2, <1>5, RuntimeAssumption DEF Tmp, Apart
  <2>2. PICK B \in Claim : Runs(body, A, B) /\ Worked(A, t, B)
    BY <1>1, <2>1, ProductRuns DEF body
  <2>. QED BY <1>1, <1>3, <1>5, <2>2 DEF Ends, Final, Worked
<1>6. CASE ~(~obj[a].nz \/ ~obj[b].nz) /\ t # r
  <2>1. t = "rtmp" /\ t \in A.bare \cap Tmp
    BY <1>1, <1>2, <1>6 DEF Tmp
  <2>2. PICK B \in Claim : /\ Edge(A, Push(t, obj[r].id), B)
                           /\ B.live = A.live \cup {t} /\ B.bare = A.bare
                           /\ B.stk = Append(A.stk, t) /\ B.kept = A.kept
    BY <1>1, <2>1, PushRule
  <2>3. MayRaise(B) /\ t \in B.live /\ Apart(reads, t)
    BY <1>1, <2>1, <2>2 DEF MayRaise, Apart
  <2>4. PICK C \in Claim : /\ Runs(body, B, C)
                           /\ C.live = B.live /\ C.bare = B.bare \ {t} /\ C.stk = B.stk
    <3>1. \E C \in Claim : Runs(body, B, C) /\ Worked(B, t, C)
      BY <1>1, <2>3, ProductRuns DEF body
    <3>. QED BY <3>1 DEF Worked
  <2>5. PICK D \in Claim : /\ Edge(C, Swap(t, r), D)
                           /\ D.live = C.live /\ D.bare = C.bare \ {t, r} /\ D.stk = C.stk
    <3>1. t \in C.live /\ r \in C.live
      BY <1>1, <2>2, <2>4
    <3>. QED BY <3>1, SwapRule
  <2>6. PICK E \in Claim : /\ Edge(D, Pop(t), E)
                           /\ E.bare = D.bare \cup {t} /\ E.stk = <<>>
    <3>. DEFINE under == <<>>
    <3>1. under \in Seq(Tmp) /\ D.stk = Append(under, t) /\ t \in D.live \cap Tmp
      BY <1>1, <2>1, <2>2, <2>4, <2>5, EmptySeq
    <3>. HIDE DEF under
    <3>2. \E E \in Claim : Edge(D, Pop(t), E) /\ E.bare = D.bare \cup {t} /\ E.stk = under
      BY <3>1, PopRule
    <3>. QED BY <3>2 DEF under
  <2>7. Final(E)
    BY <1>1, <2>1, <2>2, <2>4, <2>5, <2>6 DEF Final
  <2>8. Runs(<<Push(t, obj[r].id)>>, A, B) /\ Runs(<<Swap(t, r), Pop(t)>>, C, E)
    BY <2>2, <2>5, <2>6, StraightOne, StraightTwo, StraightRuns
  <2>9. Runs(<<Push(t, obj[r].id)>> \o body, A, C)
    BY <2>4, <2>8, RunsBoth
  <2>10. Runs(<<Push(t, obj[r].id)>> \o body \o <<Swap(t, r), Pop(t)>>, A, E)
    BY <2>8, <2>9, RunsBoth
  <2>. QED BY <1>3, <1>6, <2>7, <2>10 DEF Ends
<1>. QED BY <1>4, <1>5, <1>6

\* hebi_zsqr: the same, but the temporary is not on the stack; it has no buffer
\* when the scratch buffer or its own is asked for.
LEMMA SqrEnds ==
    ASSUME NEW A, Starts(A), NEW r \in Ready, NEW a \in Ready, NEW space \in Nat
    PROVE  Ends(Sqr(r, a, space, 2 * obj[a].used), A)
<1>. DEFINE t    == MulTarget(r, a, a)
            n    == 2 * obj[a].used
            reads == {a}
            ns   == {n}
            large == obj[a].used > SqrCutoff
            body == Product(t, large, n, space, reads, ns)
<1>. SUFFICES Ends(Sqr(r, a, space, n), A)
  OBVIOUS
<1>1. /\ A \in Claim /\ MayRaise(A) /\ Final(A) /\ A.kept = Zvar /\ A.stk = <<>>
      /\ r \in A.live /\ r \in Object /\ r \notin Tmp /\ r \in Zvar /\ obj[r].id \in AllocId
      /\ n \in Nat /\ Within(ns, n) /\ reads \subseteq Zvar /\ Tmp \subseteq A.bare
      /\ reads \cap Tmp = {}
  BY ReadyFacts DEF Starts, Final, Within
<1>2. t = (IF r \in reads THEN "rtmp" ELSE r)
  BY DEF MulTarget
<1>3. Sqr(r, a, space, n) =
         IF ~obj[a].nz THEN <<Zero(r)>>
         ELSE IF t = r THEN body
         ELSE <<Make(t, obj[r].id)>> \o body \o <<Swap(r, t), Destroy(t)>>
  BY DEF Sqr, Product, Compute
<1>. HIDE DEF n, t, reads, ns, large, body
<1>4. CASE ~obj[a].nz
  BY <1>1, <1>3, <1>4, ZeroEnds
<1>5. CASE obj[a].nz /\ t = r
  <2>1. t \in A.live /\ Apart(reads, t)
    BY <1>1, <1>2, <1>5, RuntimeAssumption DEF Tmp, Apart
  <2>2. PICK B \in Claim : Runs(body, A, B) /\ Worked(A, t, B)
    BY <1>1, <2>1, ProductRuns DEF body
  <2>. QED BY <1>1, <1>3, <1>5, <2>2 DEF Ends, Final, Worked
<1>6. CASE obj[a].nz /\ t # r
  <2>1. t = "rtmp" /\ t \in A.bare \cap Tmp
    BY <1>1, <1>2, <1>6 DEF Tmp
  <2>2. PICK B \in Claim : /\ Edge(A, Make(t, obj[r].id), B)
                           /\ B.live = A.live \cup {t} /\ B.bare = A.bare
                           /\ B.stk = A.stk /\ B.kept = A.kept
    BY <1>1, <2>1, MakeRule
  <2>3. MayRaise(B) /\ t \in B.live /\ Apart(reads, t)
    BY <1>1, <2>1, <2>2 DEF MayRaise, Apart
  <2>4. PICK C \in Claim : /\ Runs(body, B, C)
                           /\ C.live = B.live /\ C.bare = B.bare \ {t} /\ C.stk = B.stk
    <3>1. \E C \in Claim : Runs(body, B, C) /\ Worked(B, t, C)
      BY <1>1, <2>3, ProductRuns DEF body
    <3>. QED BY <3>1 DEF Worked
  <2>5. PICK D \in Claim : /\ Edge(C, Swap(r, t), D)
                           /\ D.live = C.live /\ D.bare = C.bare \ {r, t} /\ D.stk = C.stk
    <3>1. t \in C.live /\ r \in C.live
      BY <1>1, <2>2, <2>4
    <3>. QED BY <3>1, SwapRule
  <2>6. PICK E \in Claim : /\ Edge(D, Destroy(t), E)
                           /\ E.bare = D.bare \cup {t} /\ E.stk = D.stk
    <3>1. t \in D.live
      BY <2>2, <2>4, <2>5
    <3>. QED BY <3>1, DestroyRule
  <2>7. Final(E)
    BY <1>1, <2>1, <2>2, <2>4, <2>5, <2>6 DEF Final
  <2>8. Runs(<<Make(t, obj[r].id)>>, A, B) /\ Runs(<<Swap(r, t), Destroy(t)>>, C, E)
    BY <2>2, <2>5, <2>6, StraightOne, StraightTwo, StraightRuns
  <2>9. Runs(<<Make(t, obj[r].id)>> \o body, A, C)
    BY <2>4, <2>8, RunsBoth
  <2>10. Runs(<<Make(t, obj[r].id)>> \o body \o <<Swap(r, t), Destroy(t)>>, A, E)
    BY <2>8, <2>9, RunsBoth
  <2>. QED BY <1>3, <1>6, <2>7, <2>10 DEF Ends
<1>. QED BY <1>4, <1>5, <1>6

\* What hebi_zdivrem makes for a result that is wanted: a temporary on the
\* stack, with room for n packets.
Pushed(A, t, n, B) ==
    /\ B.live = A.live \cup {t} /\ B.bare = A.bare \ {t} /\ B.stk = Append(A.stk, t)
    /\ B.kept = A.kept /\ RoomFor(B, A, t, n)

LEMMA DivTmpRuns ==
    ASSUME NEW A \in Claim, MayRaise(A), NEW t \in A.bare \cap Tmp, NEW n \in Nat, NEW z,
           z # Null => obj[z].id \in AllocId
    PROVE  \E B \in Claim :
              /\ Runs(DivTmp(t, z, n), A, B) /\ MayRaise(B)
              /\ z = Null => B = A
              /\ z # Null => Pushed(A, t, n, B)
<1>1. CASE z = Null
  BY <1>1, RunsNone DEF DivTmp, NoStep
<1>2. CASE z # Null
  <2>0. t \in Object /\ t \in Tmp /\ t \notin Zvar /\ A.kept = Zvar /\ A.stk \in Seq(Tmp)
    BY RuntimeAssumption DEF Claim, MayRaise
  <2>1. PICK M \in Claim : /\ Edge(A, Push(t, obj[z].id), M)
                           /\ M.live = A.live \cup {t} /\ M.bare = A.bare
                           /\ M.stk = Append(A.stk, t)
                           /\ M.kept = A.kept /\ RoomFor(M, A, t, 0)
    BY <1>2, PushRule
  <2>2. \A u \in Tmp : u = t \/ u \in A.bare \/ (\E i \in 1 .. Len(A.stk) : A.stk[i] = u)
    BY DEF MayRaise
  <2>3. \A u \in Tmp : (u = t \/ \E i \in 1 .. Len(A.stk) : A.stk[i] = u)
                       => \E i \in 1 .. Len(M.stk) : M.stk[i] = u
    <3>1. Len(A.stk) \in Nat
      BY <2>0
    <3>2. /\ Len(M.stk) = Len(A.stk) + 1 /\ M.stk[Len(A.stk) + 1] = t
          /\ \A i \in 1 .. Len(A.stk) : M.stk[i] = A.stk[i]
      BY <2>0, <2>1, AppendProperties
    <3>3. Len(A.stk) + 1 \in 1 .. Len(M.stk) /\ \A i \in 1 .. Len(A.stk) : i \in 1 .. Len(M.stk)
      BY <3>1, <3>2
    <3>. QED BY <3>2, <3>3
  <2>4. MayRaise(M)
    BY <2>0, <2>1, <2>2, <2>3 DEF MayRaise
  <2>5. PICK B \in Claim : /\ Edge(M, Grow(t, n, FALSE), B)
                           /\ B.live = M.live /\ B.bare = M.bare \ {t} /\ B.stk = M.stk
                           /\ B.kept = M.kept \ {t} /\ RoomFor(B, M, t, n)
    BY <2>1, <2>4, GrowRule
  <2>6. B.kept = A.kept
    BY <2>0, <2>1, <2>5
  <2>7. RoomFor(B, A, t, n)
    BY <2>1, <2>5 DEF RoomFor
  <2>8. MayRaise(B)
    BY <2>0, <2>1, <2>2, <2>3, <2>5, <2>6 DEF MayRaise
  <2>9. Runs(DivTmp(t, z, n), A, B)
    BY <1>2, <2>1, <2>5, StraightTwo, StraightRuns DEF DivTmp
  <2>. QED BY <1>2, <2>1, <2>5, <2>6, <2>7, <2>8, <2>9 DEF Pushed
<1>. QED BY <1>1, <1>2

\* And how a wanted result leaves it, if the temporary is on top of the stack.
OnTop(A, t, z, under, ns) ==
    IF z = Null THEN A.stk = under
    ELSE z \in A.live /\ z \in Zvar /\ t \in A.live /\ A.stk = Append(under, t) /\ Fits(ns, A, t)

Moved(A, t, z, under, B) ==
    /\ B.live = A.live \ {t} /\ B.bare = (A.bare \ {t, z}) \cup {t} /\ B.stk = under
    /\ \A o \in Object \ {t, z} : B.room[o] = A.room[o]

LEMMA DivResultRuns ==
    ASSUME NEW A \in Claim, NEW t \in Tmp, NEW z, NEW under \in Seq(Tmp), NEW ns,
           OnTop(A, t, z, under, ns)
    PROVE  \E B \in Claim :
              /\ Runs(DivResult(t, z, ns), A, B)
              /\ z = Null => B = A
              /\ z # Null => Moved(A, t, z, under, B)
<1>1. CASE z = Null
  BY <1>1, RunsNone DEF DivResult, NoStep
<1>2. CASE z # Null
  <2>1. /\ z \in Object /\ t \in Object /\ t # z /\ z \in A.live /\ t \in A.live
        /\ A.stk = Append(under, t) /\ Fits(ns, A, t)
    BY <1>2, RuntimeAssumption DEF Object, OnTop
  <2>2. PICK C \in Claim : /\ Edge(A, Swap(t, z), C)
                           /\ C.live = A.live /\ C.bare = A.bare \ {t, z} /\ C.stk = A.stk
                           /\ RoomSwapped(C, A, t, z)
    BY <2>1, SwapRule
  <2>3. PICK D \in Claim : /\ Edge(C, Pop(t), D)
                           /\ D.live = C.live \ {t} /\ D.bare = C.bare \cup {t} /\ D.stk = under
                           /\ RoomFor(D, C, t, 0)
    <3>1. t \in C.live \cap Tmp /\ C.stk = Append(under, t)
      BY <2>1, <2>2
    <3>. QED BY <3>1, PopRule
  <2>4. D.room[z] = A.room[t] /\ \A o \in Object \ {t, z} : D.room[o] = A.room[o]
    BY <2>1, <2>2, <2>3 DEF RoomSwapped, RoomFor
  <2>5. Fits(ns, D, z)
    BY <2>1, <2>4 DEF Fits
  <2>6. PICK B \in Claim : /\ Edge(D, Publish(z, ns), B)
                           /\ B.live = D.live /\ B.bare = D.bare /\ B.stk = D.stk
                           /\ B.room = D.room
    BY <2>1, <2>5, PublishRule
  <2>7. Runs(DivResult(t, z, ns), A, B)
    BY <1>2, <2>2, <2>3, <2>6, StraightThree, StraightRuns DEF DivResult
  <2>8. Moved(A, t, z, under, B)
    BY <2>2, <2>3, <2>4, <2>6 DEF Moved
  <2>. QED BY <1>2, <2>7, <2>8
<1>. QED BY <1>1, <1>2

\* hebi_zdivrem, when both numbers have packets to divide: the temporaries are
\* pushed one upon the other, and popped in reverse.
LEMMA DivisionEnds ==
    ASSUME NEW A, Starts(A), NEW q \in Ready \cup {Null}, NEW r \in Ready \cup {Null}, q # r,
           NEW a \in Ready, NEW b \in Ready, NEW space \in Nat, NEW n \in Nat, NEW bn \in Nat,
           NEW qn, Within(qn, n), NEW rn, Within(rn, bn)
    PROVE  Ends(<<Scratch(space)>> \o DivTmp("qtmp", q, n) \o DivTmp("rtmp", r, bn)
                \o <<Kernel({"qtmp", "rtmp"}, {a, b})>> \o DivResults(q, r, qn, rn), A)
<1>. DEFINE qt == "qtmp"
            rt == "rtmp"
            reads == {a, b}
            outs == {"qtmp", "rtmp"}
            none == <<>>
<1>1. /\ A \in Claim /\ MayRaise(A) /\ Final(A) /\ A.kept = Zvar /\ A.stk = none
      /\ qt \in A.bare \cap Tmp /\ rt \in A.bare \cap Tmp /\ qt # rt /\ Tmp = {qt, rt}
      /\ outs = Tmp /\ Tmp \subseteq Object /\ Tmp \cap Zvar = {}
      /\ reads \subseteq Zvar /\ none \in Seq(Tmp)
  BY ReadyFacts, RuntimeAssumption, EmptySeq DEF Starts, Final, Tmp, Object
<1>2. /\ q # Null => q \in A.live /\ q \in Zvar /\ q \in Object /\ obj[q].id \in AllocId
      /\ r # Null => r \in A.live /\ r \in Zvar /\ r \in Object /\ obj[r].id \in AllocId
  BY ReadyFacts
<1>. HIDE DEF qt, rt, reads, outs, none
<1>3. Runs(<<Scratch(space)>>, A, A)
  BY <1>1, ScratchRule, StraightOne, StraightRuns
<1>4. PICK B \in Claim : /\ Runs(DivTmp(qt, q, n), A, B) /\ MayRaise(B)
                         /\ q = Null => B = A
                         /\ q # Null => Pushed(A, qt, n, B)
  BY <1>1, <1>2, DivTmpRuns
<1>5. rt \in B.bare \cap Tmp /\ B.kept = Zvar /\ A.live \subseteq B.live
  BY <1>1, <1>4 DEF Pushed, MayRaise
<1>6. PICK C \in Claim : /\ Runs(DivTmp(rt, r, bn), B, C) /\ MayRaise(C)
                         /\ r = Null => C = B
                         /\ r # Null => Pushed(B, rt, bn, C)
  BY <1>1, <1>2, <1>4, <1>5, DivTmpRuns
<1>. DEFINE qstk == IF q = Null THEN none ELSE Append(none, qt)
<1>7. /\ B.stk = qstk /\ qstk \in Seq(Tmp)
      /\ C.stk = IF r = Null THEN qstk ELSE Append(qstk, rt)
  BY <1>1, <1>4, <1>6 DEF Pushed, Claim
<1>. HIDE DEF qstk
<1>8. /\ C.kept = Zvar /\ A.live \subseteq C.live
      /\ q # Null => qt \in C.live /\ C.room[qt] = n
      /\ r # Null => rt \in C.live /\ C.room[rt] = bn
      /\ q = Null => qt \in C.bare
      /\ r = Null => rt \in C.bare
  BY <1>1, <1>4, <1>5, <1>6 DEF Pushed, RoomFor, MayRaise
<1>9. PICK D \in Claim : /\ Edge(C, Kernel(outs, reads), D)
                         /\ D.live = C.live /\ D.bare = C.bare /\ D.stk = C.stk
                         /\ D.room = C.room
  <2>1. outs \in SUBSET Object /\ reads \in SUBSET C.kept
    BY <1>1, <1>8
  <2>. QED BY <2>1, KernelRule
<1>10. PICK E \in Claim : /\ Runs(DivResult(rt, r, rn), D, E)
                          /\ r = Null => E = D
                          /\ r # Null => Moved(D, rt, r, qstk, E)
  <2>1. OnTop(D, rt, r, qstk, rn)
    BY <1>2, <1>7, <1>8, <1>9 DEF Fits, Within, OnTop
  <2>2. rt \in Tmp
    BY <1>1
  <2>. QED BY <1>7, <2>1, <2>2, DivResultRuns
<1>11. /\ E.stk = qstk /\ rt \in E.bare
       /\ q = Null => qt \in E.bare
       /\ q # Null => qt \in E.live /\ q \in E.live /\ E.room[qt] = n
  BY <1>1, <1>2, <1>7, <1>8, <1>9, <1>10 DEF Moved
<1>12. PICK F \in Claim : /\ Runs(DivResult(qt, q, qn), E, F)
                          /\ q = Null => F = E
                          /\ q # Null => Moved(E, qt, q, none, F)
  <2>1. OnTop(E, qt, q, none, qn)
    BY <1>2, <1>11 DEF Fits, Within, OnTop, qstk
  <2>2. qt \in Tmp
    BY <1>1
  <2>. QED BY <1>1, <2>1, <2>2, DivResultRuns
<1>13. Final(F)
  <2>1. F.stk = none
    BY <1>11, <1>12 DEF Moved, qstk
  <2>2. qt \in F.bare /\ rt \in F.bare
    BY <1>1, <1>2, <1>11, <1>12 DEF Moved
  <2>. QED BY <1>1, <2>1, <2>2 DEF Final, none
<1>14. Runs(<<Scratch(space)>> \o DivTmp(qt, q, n), A, B)
  BY <1>3, <1>4, RunsBoth
<1>15. Runs(<<Scratch(space)>> \o DivTmp(qt, q, n) \o DivTmp(rt, r, bn), A, C)
  BY <1>6, <1>14, RunsBoth
<1>16. Runs(<<Scratch(space)>> \o DivTmp(qt, q, n) \o DivTmp(rt, r, bn)
            \o <<Kernel(outs, reads)>>, A, D)
  BY <1>9, <1>15, StraightOne, StraightRuns, RunsBoth
<1>17. Runs(DivResults(q, r, qn, rn), D, F)
  BY <1>10, <1>12, RunsBoth DEF DivResults, qt, rt
<1>18. Runs(<<Scratch(space)>> \o DivTmp(qt, q, n) \o DivTmp(rt, r, bn)
            \o <<Kernel(outs, reads)>> \o DivResults(q, r, qn, rn), A, F)
  BY <1>16, <1>17, RunsBoth
<1>. QED BY <1>13, <1>18 DEF Ends, qt, rt, outs, reads

\* hebi_zdivrem
LEMMA DivRemEnds ==
    ASSUME NEW A, Starts(A), NEW q \in Ready \cup {Null}, NEW r \in Ready \cup {Null}, q # r,
           NEW a \in Ready, NEW b \in Ready
    PROVE  Ends(DivRem(q, r, a, b), A)
<1>. DEFINE an == obj[a].used
            bn == obj[b].used
            n  == an - bn + 1
            space == an + bn + 2 + (IF q = Null THEN n ELSE 0)
<1>1. A \in Claim /\ MayRaise(A) /\ Final(A) /\ an \in Nat /\ bn \in Nat
  BY ReadyFacts DEF Starts
<1>2. (q # Null => q \in Ready /\ q \in Object) /\ (r # Null => r \in Ready /\ r \in Object)
  BY ReadyFacts
<1>3. ASSUME NEW M, Final(M)
      PROVE  \A z : (z # Null => z \in Object) => Ends(IfWanted(z, <<Zero(z)>>), M)
  BY <1>3, NoneEnds, ZeroEnds DEF IfWanted, NoStep
<1>4. CASE ~obj[b].nz
  <2>1. Ends(<<Error>>, A)
    BY <1>1, ErrorRule, StepEnds
  <2>. QED BY <1>4, <2>1 DEF DivRem
<1>5. CASE obj[b].nz /\ ~obj[a].nz
  <2>1. PICK B \in Claim : Runs(IfWanted(r, <<Zero(r)>>), A, B) /\ Final(B)
    BY <1>1, <1>2, <1>3 DEF Ends
  <2>2. Ends(IfWanted(q, <<Zero(q)>>), B)
    BY <1>2, <1>3, <2>1
  <2>3. Ends(IfWanted(r, <<Zero(r)>>) \o IfWanted(q, <<Zero(q)>>), A)
    BY <2>1, <2>2, RunsThenEnds
  <2>. QED BY <1>5, <2>3 DEF DivRem
<1>6. CASE obj[b].nz /\ obj[a].nz /\ an < bn
  <2>0. Ends(IfWanted(r, SetTo(r, a)), A)
    BY <1>1, <1>2, SetToEnds, NoneEnds DEF IfWanted, NoStep
  <2>1. PICK B \in Claim : Runs(IfWanted(r, SetTo(r, a)), A, B) /\ Final(B)
    BY <2>0 DEF Ends
  <2>2. Ends(IfWanted(q, <<Zero(q)>>), B)
    BY <1>2, <1>3, <2>1
  <2>3. Ends(IfWanted(r, SetTo(r, a)) \o IfWanted(q, <<Zero(q)>>), A)
    BY <2>1, <2>2, RunsThenEnds
  <2>. QED BY <1>6, <2>3 DEF DivRem
<1>7. CASE obj[b].nz /\ obj[a].nz /\ ~(an < bn)
  <2>. DEFINE qn == {n - 1, n}
              rn == {0, bn}
  <2>1. n \in Nat /\ space \in Nat /\ Within(qn, n) /\ Within(rn, bn)
    BY <1>1, <1>7 DEF Within
  <2>2. DivRem(q, r, a, b) =
           <<Scratch(space)>> \o DivTmp("qtmp", q, n) \o DivTmp("rtmp", r, bn)
           \o <<Kernel({"qtmp", "rtmp"}, {a, b})>> \o DivResults(q, r, qn, rn)
    BY <1>7 DEF DivRem
  <2>3. bn \in Nat
    BY <1>1
  <2>. HIDE DEF n, space, qn, rn, bn
  <2>4. Ends(<<Scratch(space)>> \o DivTmp("qtmp", q, n) \o DivTmp("rtmp", r, bn)
             \o <<Kernel({"qtmp", "rtmp"}, {a, b})>> \o DivResults(q, r, qn, rn), A)
    BY <2>1, <2>3, DivisionEnds
  <2>. QED BY <2>2, <2>4
<1>. QED BY <1>4, <1>5, <1>6, <1>7

\* The calls that work on a in the scratch buffer.
LEMMA ReadInScratchEnds == ASSUME NEW A, Starts(A), NEW a \in Ready PROVE Ends(ReadInScratch(a), A)
<1>. DEFINE reads == {a}
            outs  == {}
<1>1. /\ A \in Claim /\ MayRaise(A) /\ Final(A) /\ obj[a].used \in Nat
      /\ outs \in SUBSET Object /\ reads \in SUBSET A.kept
  BY ReadyFacts DEF Starts
<1>. HIDE DEF reads, outs
<1>2. Edge(A, Scratch(obj[a].used), A)
  BY <1>1, ScratchRule
<1>3. PICK B \in Claim : Edge(A, Kernel(outs, reads), B) /\ B.bare = A.bare /\ B.stk = A.stk
  BY <1>1, KernelRule
<1>4. Runs(<<Scratch(obj[a].used), Kernel(outs, reads)>>, A, B)
  BY <1>2, <1>3, StraightTwo, StraightRuns
<1>5. Ends(<<Scratch(obj[a].used), Kernel(outs, reads)>>, A)
  BY <1>1, <1>3, <1>4 DEF Ends, Final
<1>. QED BY <1>1, <1>5, NoneEnds DEF ReadInScratch, NoStep, outs, reads

\* hebi_zsetstr: whatever the string turns out to be, the temporary ends.
LEMMA SetStrEnds ==
    ASSUME NEW A, Starts(A), NEW r \in Ready, NEW space \in Nat
    PROVE  Ends(SetStr(r, space), A)
<1>. DEFINE t      == "qtmp"
            none   == <<>>
            outs   == {t}
            reads  == {}
            ns     == {0, space}
            parse  == IF space = 0 THEN NoStep ELSE <<Grow(t, space, FALSE), Kernel(outs, reads)>>
            value  == <<Publish(t, ns), Swap(t, r), Pop(t)>>
            syntax == <<Zero(r), Pop(t)>>
            last   == Either({value, syntax, <<Error>>})
<1>1. /\ A \in Claim /\ MayRaise(A) /\ Final(A) /\ A.kept = Zvar /\ A.stk = none
      /\ r \in A.live /\ r \in Object /\ r \notin Tmp /\ r \in Zvar /\ obj[r].id \in AllocId
      /\ Tmp \subseteq A.bare /\ t \in Tmp /\ t \in A.bare \cap Tmp /\ t \in Object /\ none \in Seq(Tmp)
      /\ outs \in SUBSET Object /\ t \notin Zvar /\ r # t
  BY ReadyFacts, RuntimeAssumption, EmptySeq DEF Starts, Final, Tmp, Object
<1>2. SetStr(r, space) = <<Push(t, obj[r].id)>> \o parse \o <<last>>
  BY DEF SetStr
<1>. HIDE DEF t, none, outs, ns, parse, value, syntax
<1>3. PICK B \in Claim : /\ Edge(A, Push(t, obj[r].id), B)
                         /\ B.live = A.live \cup {t} /\ B.bare = A.bare
                         /\ B.stk = Append(A.stk, t) /\ B.kept = A.kept /\ RoomFor(B, A, t, 0)
  BY <1>1, PushRule
<1>4. /\ Len(B.stk) = 1 /\ B.stk[1] = t
  BY <1>1, <1>3, AppendProperties DEF none
<1>5. MayRaise(B)
  BY <1>1, <1>3 DEF MayRaise
<1>6. PICK C \in Claim : /\ Runs(parse, B, C)
                         /\ C.live = B.live /\ C.stk = B.stk /\ C.kept = Zvar
                         /\ (Tmp \ {t}) \subseteq C.bare /\ C.room[t] = space
  <2>1. CASE space = 0
    <3>1. B.room[t] = space
      BY <1>3, <2>1 DEF RoomFor
    <3>. QED BY <1>1, <1>3, <2>1, <3>1, RunsNone DEF parse, NoStep
  <2>2. CASE space # 0
    <3>1. t \in B.live
      BY <1>3
    <3>2. PICK M \in Claim : /\ Edge(B, Grow(t, space, FALSE), M)
                             /\ M.live = B.live /\ M.bare = B.bare \ {t} /\ M.stk = B.stk
                             /\ M.kept = B.kept \ {t} /\ RoomFor(M, B, t, space)
      BY <1>5, <3>1, GrowRule
    <3>3. reads \in SUBSET M.kept
      OBVIOUS
    <3>. HIDE DEF reads
    <3>4. PICK D \in Claim : /\ Edge(M, Kernel(outs, reads), D)
                             /\ D.live = M.live /\ D.bare = M.bare /\ D.stk = M.stk
                             /\ D.kept = M.kept \ outs /\ D.room = M.room
      BY <1>1, <3>3, KernelRule
    <3>5. D.kept = Zvar
      BY <1>1, <1>3, <3>2, <3>4 DEF outs
    <3>6. Runs(parse, B, D)
      BY <2>2, <3>2, <3>4, StraightTwo, StraightRuns DEF parse
    <3>. QED BY <1>1, <1>3, <3>2, <3>4, <3>5, <3>6 DEF RoomFor
  <2>. QED BY <2>1, <2>2
<1>7. MayRaise(C)
  BY <1>4, <1>6 DEF MayRaise
<1>8. C.stk = Append(none, t) /\ t \in C.live /\ r \in C.live
  BY <1>1, <1>3, <1>6
<1>9. \E F \in Claim : Straight(value, C, F) /\ Final(F)
  <2>1. PICK D \in Claim : /\ Edge(C, Publish(t, ns), D)
                           /\ D.live = C.live /\ D.bare = C.bare /\ D.stk = C.stk
    <3>1. Fits(ns, C, t)
      BY <1>6 DEF Fits, ns
    <3>. QED BY <1>1, <3>1, PublishRule
  <2>2. PICK E \in Claim : /\ Edge(D, Swap(t, r), E)
                           /\ E.live = D.live /\ E.bare = D.bare \ {t, r} /\ E.stk = D.stk
    <3>1. t \in D.live /\ r \in D.live
      BY <1>8, <2>1
    <3>. QED BY <3>1, SwapRule
  <2>3. PICK F \in Claim : /\ Edge(E, Pop(t), F)
                           /\ F.bare = E.bare \cup {t} /\ F.stk = none
    <3>1. t \in E.live \cap Tmp /\ E.stk = Append(none, t) /\ none \in Seq(Tmp)
      BY <1>1, <1>8, <2>1, <2>2
    <3>. QED BY <3>1, PopRule
  <2>4. Final(F)
    BY <1>1, <1>6, <2>1, <2>2, <2>3 DEF Final, none
  <2>. QED BY <2>1, <2>2, <2>3, <2>4, StraightThree DEF value
<1>10. \E F \in Claim : Straight(syntax, C, F) /\ Final(F)
  <2>1. PICK D \in Claim : /\ Edge(C, Zero(r), D)
                           /\ D.live = C.live /\ D.bare = C.bare /\ D.stk = C.stk
    BY <1>1, ZeroRule
  <2>2. PICK F \in Claim : /\ Edge(D, Pop(t), F)
                           /\ F.bare = D.bare \cup {t} /\ F.stk = none
    <3>1. t \in D.live \cap Tmp /\ D.stk = Append(none, t) /\ none \in Seq(Tmp)
      BY <1>1, <1>8, <2>1
    <3>. QED BY <3>1, PopRule
  <2>3. Final(F)
    BY <1>1, <1>6, <2>1, <2>2 DEF Final, none
  <2>. QED BY <2>1, <2>2, <2>3, StraightTwo DEF syntax
<1>11. Straight(<<Error>>, C, A)
  BY <1>1, <1>7, ErrorRule, StraightOne
<1>12. Choice(C, last, A)
  BY <1>1, <1>9, <1>10, <1>11 DEF Choice, Either
<1>. HIDE DEF last
<1>13. Runs(<<Push(t, obj[r].id)>>, A, B) /\ Runs(<<last>>, C, A)
  BY <1>3, <1>12, StraightOne, StraightRuns, RunsOne
<1>14. Runs(<<Push(t, obj[r].id)>> \o parse, A, C)
  BY <1>6, <1>13, RunsBoth
<1>15. Runs(<<Push(t, obj[r].id)>> \o parse \o <<last>>, A, A)
  BY <1>13, <1>14, RunsBoth
<1>. QED BY <1>1, <1>2, <1>15 DEF Ends

\* The zinit functions, hebi_zdestroy and the calls that raise at once.
LEMMA ConstructEnds ==
    ASSUME NEW A, Starts(A), NEW z \in Unmade, NEW id \in AllocId, NEW n \in Nat,
           NEW used \in Nat, used =< n, NEW nz \in BOOLEAN, nz => used > 0,
           NEW reads \in SUBSET Zvar, \A a \in reads : used =< obj[a].cap
    PROVE  Ends(<<Construct(z, id, n, used, nz, reads)>>, A)
<1>1. z \in A.bare /\ z \in Zvar /\ z \notin Tmp
  BY RuntimeAssumption DEF Starts, Unmade, Live, Object
<1>2. /\ A \in Claim /\ MayRaise(A) /\ Final(A) /\ reads \in SUBSET A.kept
      /\ \A a \in reads : used =< A.room[a]
  BY DEF Starts, Object
<1>3. PICK B \in Claim : /\ Edge(A, Construct(z, id, n, used, nz, reads), B)
                         /\ B.bare = A.bare \ {z} /\ B.stk = A.stk
  BY <1>1, <1>2, ConstructRule
<1>. QED BY <1>1, <1>2, <1>3, StepEnds DEF Final

LEMMA InitEnds ==
    ASSUME NEW A, Starts(A), NEW z \in Unmade, NEW a \in Ready, NEW n \in Nat, NEW id \in AllocId
    PROVE  /\ Ends(InitReserve(z, n, id), A)
           /\ Ends(InitCopy(z, a), A)
           /\ Ends(InitCopyReserve(z, a, n, id), A)
<1>. DEFINE none  == {}
            reads == {a}
            u     == Used(a)
            m     == Larger(n, u)
            len   == obj[a].used
            nz    == obj[a].nz
            zero  == 0
            no    == FALSE
<1>1. /\ len \in Nat /\ len =< obj[a].cap /\ nz \in BOOLEAN /\ (nz => len > 0)
      /\ obj[a].cap \in Nat /\ reads \in SUBSET Zvar /\ none \in SUBSET Zvar
  BY ReadyFacts
<1>2. /\ u \in Nat /\ m \in Nat /\ u =< m /\ (nz => u > 0) /\ u =< obj[a].cap
  BY <1>1 DEF Used, Larger
<1>3. /\ zero \in Nat /\ zero =< n /\ no \in BOOLEAN /\ (no => zero > 0)
      /\ \A i \in none : zero =< obj[i].cap
      /\ \A i \in reads : len =< obj[i].cap /\ u =< obj[i].cap
  BY <1>1, <1>2
<1>4. "DEFAULT" \in AllocId
  BY DEF AllocId, Alias
<1>. HIDE DEF none, reads, u, m, len, nz, zero, no
<1>5. Ends(<<Construct(z, id, n, zero, no, none)>>, A)
  BY <1>1, <1>3, ConstructEnds
<1>6. Ends(<<Construct(z, "DEFAULT", len, len, nz, reads)>>, A)
  BY <1>1, <1>3, <1>4, ConstructEnds
<1>7. Ends(<<Construct(z, id, m, u, nz, reads)>>, A)
  BY <1>1, <1>2, <1>3, ConstructEnds
<1>8. Ends(InitReserve(z, n, id), A)
  BY <1>5 DEF InitReserve, none, zero, no
<1>9. Ends(InitCopy(z, a), A)
  BY <1>6 DEF InitCopy, len, nz, reads
<1>10. Ends(InitCopyReserve(z, a, n, id), A)
  BY <1>7 DEF InitCopyReserve, u, m, nz, reads
<1>. QED BY <1>8, <1>9, <1>10

LEMMA DestroyEnds == ASSUME NEW A, Starts(A), NEW z \in Ready PROVE Ends(<<Destroy(z)>>, A)
<1>1. A \in Claim /\ Final(A) /\ z \in A.live
  BY ReadyFacts DEF Starts
<1>2. PICK B \in Claim : /\ Edge(A, Destroy(z), B)
                         /\ B.bare = A.bare \cup {z} /\ B.stk = A.stk
  BY <1>1, DestroyRule
<1>. QED BY <1>1, <1>2, StepEnds DEF Final

LEMMA ErrorEnds == ASSUME NEW A, Starts(A) PROVE Ends(<<Error>>, A)
<1>1. A \in Claim /\ MayRaise(A) /\ Final(A)
  BY DEF Starts
<1>. QED BY <1>1, ErrorRule, StepEnds

\* The scratch buffer goes back, and the allocator of an alias is exchanged that
\* no integer has memory from.
LEMMA UnscratchEnds == ASSUME NEW A, Starts(A) PROVE Ends(<<Unscratch>>, A)
<1>1. A \in Claim /\ Final(A)
  BY DEF Starts
<1>. QED BY <1>1, UnscratchRule, StepEnds

LEMMA SetAliasEnds ==
    ASSUME NEW A, Starts(A), NEW a \in Alias, NEW id \in AllocId \cup {"INVALID"},
           Rebinds \/ ~Owns(a)
    PROVE  Ends((IF a = "SCRATCH" THEN <<Unscratch>> ELSE NoStep) \o <<SetAlias(a, id)>>, A)
<1>. DEFINE first == IF a = "SCRATCH" THEN <<Unscratch>> ELSE NoStep
<1>1. A \in Claim /\ MayRaise(A) /\ Final(A)
  BY DEF Starts
<1>2. ~Rebinds => a \in A.idle
  <2>1. \A t \in Tmp : obj[t].blk = NoBlock
    BY <1>1 DEF Starts, Final, Object
  <2>2. ~Owns(a) => IdleAlias(a)
    BY <2>1 DEF Owns, IdleAlias, Object
  <2>. QED BY <2>2 DEF Starts
<1>3. PICK B \in Claim : Edge(A, SetAlias(a, id), B) /\ B.bare = A.bare /\ B.stk = A.stk
  BY <1>1, <1>2, AliasRule
<1>4. Ends(<<SetAlias(a, id)>>, A)
  BY <1>1, <1>3, StepEnds DEF Final
<1>5. Runs(first, A, A)
  BY <1>1, UnscratchRule, StraightOne, StraightRuns, RunsNone DEF NoStep
<1>. HIDE DEF first
<1>6. Ends(first \o <<SetAlias(a, id)>>, A)
  BY <1>4, <1>5, RunsThenEnds
<1>. QED BY <1>6 DEF first

-----------------------------------------------------------------------------
(* Allocators and blocks *)

\* An id of an allocator stands for one allocator, whichever of its names the
\* query hands back.
LEMMA ResolveFacts ==
    ASSUME InvTypes, NEW id \in AllocId
    PROVE  /\ Resolve(id) \in Key /\ Returned(id) \in AllocId
           /\ Resolve(Returned(id)) = Resolve(id)
           /\ Resolve(id) = "FIXED" => id = "FIXED"
<1>1. alias \in [Alias -> {"STDLIB"} \cup Custom]
  BY DEF InvTypes
<1>2. Custom \cap ({"STDLIB", "FIXED", "INVALID", "none"} \cup Alias) = {}
  BY RuntimeAssumption
<1>3. CASE id \in Alias
  <2>1. Resolve(id) = alias[id] /\ alias[id] \in {"STDLIB"} \cup Custom
    BY <1>1, <1>3 DEF Resolve
  <2>2. alias[id] # "FIXED" /\ alias[id] \in Key /\ alias[id] \notin Alias
    BY <1>2, <2>1 DEF Key, Alias
  <2>3. CASE alias[id] = "STDLIB"
    <3>1. Returned(id) = "STDLIB"
      BY <2>1, <2>3 DEF Returned
    <3>2. Resolve("STDLIB") = "STDLIB" /\ "STDLIB" \in AllocId
      BY DEF Resolve, Alias, AllocId, Key
    <3>. QED BY <2>1, <2>2, <2>3, <3>1, <3>2
  <2>4. CASE alias[id] # "STDLIB"
    <3>1. Returned(id) = id
      BY <2>1, <2>2, <2>4 DEF Returned
    <3>. QED BY <2>1, <2>2, <3>1
  <2>. QED BY <2>3, <2>4
<1>4. CASE id \notin Alias
  <2>1. Resolve(id) = id /\ id \in Key
    BY <1>4 DEF Resolve, AllocId
  <2>2. Returned(id) = id
    BY <2>1 DEF Returned
  <2>. QED BY <2>1, <2>2
<1>. QED BY <1>3, <1>4

LEMMA KeyFacts ==
    /\ "none" \notin Key /\ "FIXED" \in AllocId /\ "INVALID" \notin AllocId /\ "INVALID" \notin Key
    /\ Alias \cap Key = {} /\ Alias \subseteq AllocId /\ Key \subseteq AllocId
<1>1. Custom \cap ({"STDLIB", "FIXED", "INVALID", "none"} \cup Alias) = {}
  BY RuntimeAssumption
<1>. QED BY <1>1 DEF Key, AllocId, Alias

LEMMA BlockFacts ==
    /\ NoBlock \notin Heap /\ NoBlock \notin Zvar /\ Heap \cap Zvar = {}
    /\ Zvar \subseteq Object /\ Tmp \subseteq Object /\ Zvar \cap Tmp = {}
BY RuntimeAssumption DEF Block, Object

\* The block an allocator hands out was in nobody's hands.
LEMMA FreshUnused ==
    ASSUME NEW f, Unused(f) # {}
    PROVE  Fresh(f) \in Heap /\ f[Fresh(f)] = "none"
<1>1. Fresh(f) \in Unused(f)
  BY DEF Fresh
<1>. QED BY <1>1 DEF Unused

LEMMA FreedFacts ==
    ASSUME NEW S, NEW f \in [Heap -> S], "none" \in S, NEW k, NEW c
    PROVE  /\ Freed(f, k, c) \in [Heap -> S]
           /\ \A b \in Heap : b # c => Freed(f, k, c)[b] = f[b]
           /\ c \in Heap /\ f[c] = k => Freed(f, k, c)[c] = "none"
           /\ c \notin Heap => Freed(f, k, c) = f
BY DEF Freed

-----------------------------------------------------------------------------
(* What a step changes in memory *)

Active == {"client", "call", "raise", "unwind", "failed"}

\* Nobody gets or gives a buffer, and no value changes.
LEMMA SameMemory ==
    ASSUME Memory_z, pc \in Active, pc' \in Active \cup {"abort"},
           UNCHANGED <<obj, alias, scratch, shadow, own>>,
           tag' \in [Block -> Zvar \cup {"junk", "new"}],
           before' \in [Zvar -> [live : BOOLEAN, used : Nat, nz : BOOLEAN]],
           zstack' \in Seq(Tmp), level' \in Nat
    PROVE  Memory_z'
<1>. USE DEF Memory_z
<1>1. InvTypes'
  BY DEF InvTypes, Active, Place
<1>2. InvShape' /\ InvHolders'
  BY DEF InvShape, InvHolders
<1>3. InvOwners'
  BY DEF InvOwners, Resolve
<1>4. InvScratch' /\ InvHeld'
  BY DEF InvScratch, InvHeld, Active, Over
<1>5. InvShadow'
  BY DEF InvShadow, ShadowMirrors, Active
<1>. QED BY <1>1, <1>2, <1>3, <1>4, <1>5

\* Buffers change hands, and values; x has now what g[x] had.
LEMMA Reheld ==
    ASSUME Memory_z, pc \in Active, pc' \in Active, NEW g \in [Object -> Object],
           obj' \in [Object -> Number], InvShape',
           \A x \in Object : obj'[x].blk # NoBlock =>
               obj'[x].blk = obj[g[x]].blk /\ obj'[x].id = obj[g[x]].id,
           \A x, y \in Object : x # y /\ obj'[x].blk # NoBlock => g[x] # g[y],
           \A x \in Object : obj[x].blk # NoBlock => \E y \in Object : obj'[y].blk = obj[x].blk,
           UNCHANGED <<alias, scratch, shadow, own>>,
           before' \in [Zvar -> [live : BOOLEAN, used : Nat, nz : BOOLEAN]],
           tag' \in [Block -> Zvar \cup {"junk", "new"}], zstack' \in Seq(Tmp), level' \in Nat
    PROVE  Memory_z'
<1>. USE DEF Memory_z
<1>1. InvTypes'
  BY DEF InvTypes, Active, Place
<1>2. InvHolders'
  <2>. SUFFICES ASSUME NEW x \in Object, NEW y \in Object, obj'[x].blk # NoBlock
                PROVE  /\ x # y => obj'[x].blk # obj'[y].blk
                       /\ obj'[x].blk # scratch'.blk
    BY DEF InvHolders
  <2>1. g[x] \in Object /\ g[y] \in Object /\ obj'[x].blk = obj[g[x]].blk
    OBVIOUS
  <2>2. obj'[x].blk # scratch.blk
    BY <2>1 DEF InvHolders
  <2>3. ASSUME x # y PROVE obj'[x].blk # obj'[y].blk
    <3>1. g[x] # g[y] /\ obj[g[x]].blk # obj[g[y]].blk
      BY <2>1, <2>3 DEF InvHolders
    <3>. QED BY <2>1, <3>1
  <2>. QED BY <2>2, <2>3
<1>3. InvOwners'
  <2>. SUFFICES ASSUME NEW x \in Object
                PROVE  (/\ obj[x].blk \in Heap => /\ own[obj[x].blk] # "none"
                                                  /\ ~Rebinds => own[obj[x].blk] = Resolve(obj[x].id)
                        /\ obj[x].blk \in Zvar => obj[x].id = "FIXED")'
    BY DEF InvOwners
  <2>1. \A i : Resolve(i)' = Resolve(i)
    BY DEF Resolve
  <2>2. CASE obj'[x].blk = NoBlock
    BY <2>2, BlockFacts
  <2>3. CASE obj'[x].blk # NoBlock
    <3>1. g[x] \in Object /\ obj'[x].blk = obj[g[x]].blk /\ obj'[x].id = obj[g[x]].id
      BY <2>3
    <3>. QED BY <2>1, <3>1 DEF InvOwners
  <2>. QED BY <2>2, <2>3
<1>4. InvScratch'
  BY DEF InvScratch, Active, Over
<1>5. InvShadow'
  BY DEF InvShadow, ShadowMirrors, Active
<1>6. InvHeld'
  <2>. SUFFICES ASSUME ~Rebinds, NEW b \in Heap, own[b] # "none"
                PROVE  (\E y \in Object : obj'[y].blk = b) \/ scratch.blk = b
    BY DEF InvHeld, Active, Over
  <2>1. (\E x \in Object : obj[x].blk = b) \/ scratch.blk = b
    BY DEF InvHeld
  <2>. QED BY <2>1, BlockFacts
<1>. QED BY <1>1, <1>2, <1>3, <1>4, <1>5, <1>6

\* The buffers stay where they are.
LEMMA SameBuffers ==
    ASSUME Memory_z, pc \in Active, pc' \in Active,
           obj' \in [Object -> Number], InvShape',
           \A x \in Object : obj'[x].blk = obj[x].blk,
           \A x \in Object : obj[x].blk # NoBlock => obj'[x].id = obj[x].id,
           UNCHANGED <<alias, scratch, shadow, own>>,
           before' \in [Zvar -> [live : BOOLEAN, used : Nat, nz : BOOLEAN]],
           tag' \in [Block -> Zvar \cup {"junk", "new"}], zstack' \in Seq(Tmp), level' \in Nat
    PROVE  Memory_z'
<1>. DEFINE g == [x \in Object |-> x]
<1>1. /\ g \in [Object -> Object]
      /\ \A x \in Object : obj'[x].blk # NoBlock =>
             obj'[x].blk = obj[g[x]].blk /\ obj'[x].id = obj[g[x]].id
      /\ \A x, y \in Object : x # y /\ obj'[x].blk # NoBlock => g[x] # g[y]
      /\ \A x \in Object : obj[x].blk # NoBlock => \E y \in Object : obj'[y].blk = obj[x].blk
  OBVIOUS
<1>. HIDE DEF g
<1>. QED BY <1>1, Reheld

\* Integer z has its buffer exchanged for block b, fresh from allocator k, or
\* for none, and k gets the old one.
LEMMA Exchanged ==
    ASSUME Memory_z, pc \in Active, pc' \in Active, NEW z \in Object, NEW o \in Number,
           NEW k \in Key, NEW f,
           obj' = [obj EXCEPT ![z] = o],
           own' = Freed(f, k, obj[z].blk),
           f = IF o.blk = NoBlock THEN own ELSE Granted(own, k, o.blk),
           o.blk = NoBlock \/ (o.blk \in Heap /\ own[o.blk] = "none" /\ Resolve(o.id) = k),
           obj[z].blk = NoBlock \/ k = Resolve(obj[z].id),
           o.id = "INVALID" => o.blk = NoBlock, o.blk = NoBlock => o.cap = 0,
           o.used =< o.cap, o.nz => o.used > 0,
           UNCHANGED <<alias, scratch, shadow, before>>,
           tag' \in [Block -> Zvar \cup {"junk", "new"}], zstack' \in Seq(Tmp), level' \in Nat
    PROVE  Memory_z'
<1>. USE DEF Memory_z
<1>. DEFINE b == o.blk
            c == obj[z].blk
            S == Key \cup {"none"}
<1>0. /\ obj \in [Object -> Number] /\ own \in [Heap -> S] /\ scratch \in Buffer
      /\ "none" \in S /\ "none" \notin Key
  BY KeyFacts DEF InvTypes
<1>1. /\ obj' \in [Object -> Number] /\ obj'[z] = o
      /\ \A x \in Object : x # z => obj'[x] = obj[x]
  BY <1>0
<1>2. f \in [Heap -> S] /\ (\A d \in Heap : d # b => f[d] = own[d]) /\ (b # NoBlock => f[b] = k)
  BY <1>0 DEF Granted
<1>3. /\ own' \in [Heap -> S]
      /\ \A d \in Heap : d # c => own'[d] = f[d]
      /\ c \in Heap /\ f[c] = k => own'[c] = "none"
      /\ c \notin Heap => own' = f
  <2>. HIDE DEF S
  <2>. QED BY <1>0, <1>2, FreedFacts
<1>4. \A d \in Heap : d # c /\ d # b => own'[d] = own[d]
  BY <1>2, <1>3
<1>5. \A x \in Object : obj[x].blk \in Heap => own[obj[x].blk] # "none" /\ obj[x].blk # b
  BY <1>0, BlockFacts DEF InvOwners
<1>6. b # NoBlock => b # c /\ own'[b] = k
  BY <1>2, <1>3, <1>5
<1>7. scratch.blk # NoBlock => /\ scratch.blk \in Heap /\ scratch.blk # b /\ scratch.blk # c
                               /\ own'[scratch.blk] = own[scratch.blk]
  <2>1. scratch.blk # NoBlock => scratch.blk \in Heap /\ own[scratch.blk] \in Key
    BY <1>0 DEF InvScratch, Active, Over, Buffer
  <2>2. scratch.blk # NoBlock => scratch.blk # c
    BY DEF InvHolders
  <2>. QED BY <1>0, <1>4, <2>1, <2>2
<1>8. \A x \in Object : x # z /\ obj[x].blk # NoBlock => obj[x].blk # c
  BY DEF InvHolders
<1>9. InvTypes'
  BY <1>1, <1>3 DEF InvTypes, Active, Place
<1>10. InvShape'
  <2>. SUFFICES ASSUME NEW x \in Object
                PROVE  (/\ obj[x].id = "INVALID" => obj[x].blk = NoBlock
                        /\ obj[x].blk = NoBlock => obj[x].cap = 0
                        /\ obj[x].used =< obj[x].cap
                        /\ obj[x].nz => obj[x].used > 0)'
    BY DEF InvShape
  <2>1. CASE x = z
    BY <1>1, <2>1
  <2>2. CASE x # z
    BY <1>1, <2>2 DEF InvShape
  <2>. QED BY <2>1, <2>2
<1>11. InvOwners'
  <2>. SUFFICES ASSUME NEW x \in Object
                PROVE  (/\ obj[x].blk \in Heap => /\ own[obj[x].blk] # "none"
                                                  /\ ~Rebinds => own[obj[x].blk] = Resolve(obj[x].id)
                        /\ obj[x].blk \in Zvar => obj[x].id = "FIXED")'
    BY DEF InvOwners
  <2>1. \A i : Resolve(i)' = Resolve(i)
    BY DEF Resolve
  <2>2. CASE x = z
    BY <1>0, <1>1, <1>6, <2>1, <2>2, BlockFacts
  <2>3. CASE x # z
    <3>1. obj'[x] = obj[x]
      BY <1>1, <2>3
    <3>2. obj[x].blk \in Heap => own'[obj[x].blk] = own[obj[x].blk]
      BY <1>4, <1>5, <1>8, <2>3, BlockFacts
    <3>. QED BY <2>1, <3>1, <3>2 DEF InvOwners
  <2>. QED BY <2>2, <2>3
<1>12. InvHolders'
  <2>. SUFFICES ASSUME NEW x \in Object, NEW y \in Object, obj'[x].blk # NoBlock
                PROVE  /\ x # y => obj'[x].blk # obj'[y].blk
                       /\ obj'[x].blk # scratch'.blk
    BY DEF InvHolders
  <2>1. obj'[x].blk # scratch.blk
    BY <1>1, <1>7 DEF InvHolders
  <2>2. ASSUME x # y PROVE obj'[x].blk # obj'[y].blk
    <3>1. CASE x = z
      BY <1>1, <1>5, <2>2, <3>1
    <3>2. CASE y = z
      BY <1>1, <1>5, <2>2, <3>2
    <3>3. CASE x # z /\ y # z
      BY <1>1, <2>2, <3>3 DEF InvHolders
    <3>. QED BY <3>1, <3>2, <3>3
  <2>. QED BY <2>1, <2>2
<1>13. InvScratch'
  BY <1>7 DEF InvScratch, Active, Over
<1>14. InvShadow'
  BY DEF InvShadow, ShadowMirrors, Active
<1>15. InvHeld'
  <2>. SUFFICES ASSUME ~Rebinds, NEW d \in Heap, own'[d] # "none"
                PROVE  (\E x \in Object : obj'[x].blk = d) \/ scratch'.blk = d
    BY DEF InvHeld, Active, Over
  <2>1. CASE d = b
    BY <1>1, <2>1
  <2>2. CASE d = c /\ d # b
    <3>1. own[c] = Resolve(obj[z].id) /\ obj[z].blk # NoBlock
      BY <2>2, BlockFacts DEF InvOwners
    <3>2. f[c] = k
      BY <1>2, <2>2, <3>1
    <3>. QED BY <1>3, <2>2, <3>2
  <2>3. CASE d # b /\ d # c
    <3>1. own[d] # "none"
      BY <1>4, <2>3
    <3>2. (\E x \in Object : obj[x].blk = d) \/ scratch.blk = d
      BY <3>1 DEF InvHeld
    <3>3. ASSUME NEW x \in Object, obj[x].blk = d PROVE obj'[x].blk = d
      BY <1>1, <2>3, <3>3
    <3>. QED BY <3>2, <3>3
  <2>. QED BY <2>1, <2>2, <2>3
<1>. QED BY <1>9, <1>10, <1>11, <1>12, <1>13, <1>14, <1>15

-----------------------------------------------------------------------------
(* A call goes on, or raises *)

\* A step starts where claim A holds, and leads to claim B; the rest of the call
\* leads from there to its end.
Started(A, s, B, C) ==
    /\ pc = "call" /\ todo # <<>> /\ s = Head(todo)
    /\ Holds(A) /\ Choice(A, s, B) /\ Runs(Tail(todo), B, C) /\ Final(C)

LEMMA CallStarted ==
    ASSUME Inv, pc = "call", todo # <<>>
    PROVE  \E A, s, B, C : Started(A, s, B, C)
<1>1. PICK A, C : Holds(A) /\ Runs(todo, A, C) /\ Final(C)
  BY DEF Inv, Places, InvCall
<1>2. PICK B : Choice(A, Head(todo), B) /\ Runs(Tail(todo), B, C)
  BY <1>1, RunsFirst
<1>. QED BY <1>1, <1>2 DEF Started

\* A step other than a choice of programs.
LEMMA StartedEdge ==
    ASSUME NEW A, NEW s, NEW B, NEW C, Started(A, s, B, C), s.op # "either"
    PROVE  /\ A \in Claim /\ B \in Claim /\ Needs(A, s)
           /\ s.op # "error" => Below(B, Leaves(A, s))
BY DEF Started, Choice, Edge, Holds

\* What a step does when it is done.
LEMMA GoesOn ==
    ASSUME NEW A, NEW s, NEW B, NEW C, Started(A, s, B, C), Holds(B)', Continue
    PROVE  Places' /\ pc' = "call"
<1>1. pc' = "call" /\ todo' = Tail(todo)
  BY DEF Started, Continue
<1>2. InvCall'
  BY <1>1 DEF Started, InvCall
<1>. QED BY <1>1, <1>2 DEF Places, InvRaise, InvRaised, InvFailed, InvClient, InvOver, Over

\* Nothing is lost when a step that may raise does.
LEMMA GoesWrong ==
    ASSUME InvTypes, NEW A, Holds(A), MayRaise(A), Raise, UNCHANGED <<obj, before, zstack, tag>>
    PROVE  Places' /\ pc' = "raise" /\ level' \in Nat
<1>1. pc' = "raise" /\ level' = Len(zstack) /\ Len(zstack) \in Nat /\ zstack' = zstack
  BY DEF Raise, InvTypes
<1>2. \A z \in Zvar : Kept(z)'
  BY DEF MayRaise, Holds, Kept, Live, Original, TagOf
<1>3. OnStack(level)'
  <2>1. \A t \in Tmp : obj[t].blk = NoBlock \/ \E i \in 1 .. Len(zstack) : zstack[i] = t
    BY DEF MayRaise, Holds
  <2>. QED BY <1>1, <2>1 DEF OnStack
<1>4. InvRaise' /\ InvRaised'
  BY <1>1, <1>2, <1>3 DEF InvRaise, InvRaised, AllKept
<1>. QED BY <1>1, <1>4 DEF Places, InvCall, InvFailed, InvClient, InvOver, Over

\* An integer of the client that a step leaves alone.
LEMMA KeptStays ==
    ASSUME NEW z, Kept(z), obj'[z] = obj[z], before' = before, TagOf(obj[z].blk)' = TagOf(obj[z].blk)
    PROVE  Kept(z)'
BY DEF Kept, Live, Original, TagOf

-----------------------------------------------------------------------------
(* The steps that move values *)

LEMMA DoErrorKeeps ==
    ASSUME Inv, NEW A, NEW s, NEW B, NEW C, Started(A, s, B, C), DoError
    PROVE  Inv'
<1>1. s.op = "error" /\ pc = "call"
  BY DEF DoError, At, Started
<1>2. MayRaise(A) /\ Holds(A)
  BY <1>1, StartedEdge DEF Needs, Started
<1>3. Places' /\ pc' = "raise" /\ level' \in Nat
  BY <1>2, GoesWrong DEF DoError, Inv, Memory_z, hist
<1>4. Memory_z'
  BY <1>1, <1>3, SameMemory DEF DoError, Inv, Memory_z, InvTypes, hist, Active
<1>. QED BY <1>3, <1>4 DEF Inv, InvMisuse, DoError, hist

\* The program that is chosen is good, whichever it is.
LEMMA DoEitherKeeps ==
    ASSUME Inv, NEW A, NEW s, NEW B, NEW C, Started(A, s, B, C), DoEither
    PROVE  Inv'
<1>1. s.op = "either" /\ pc = "call" /\ pc' = "call" /\ s = Head(todo) /\ Holds(A)
  BY DEF DoEither, At, Started
<1>2. PICK p \in s.programs : todo' = p
  BY <1>1 DEF DoEither
<1>3. PICK D : Straight(p, A, D) /\ Final(D)
  <2>1. ~Edge(A, s, B)
    BY <1>1 DEF Edge, Needs
  <2>. QED BY <1>1, <2>1 DEF Started, Choice
<1>4. Runs(p, A, D)
  BY <1>3, StraightRuns
<1>5. Holds(A)'
  BY <1>1 DEF DoEither, Holds, Live, Kept, Original, TagOf, IdleAlias, hist
<1>6. Places'
  BY <1>1, <1>2, <1>3, <1>4, <1>5
     DEF Places, InvCall, InvRaise, InvRaised, InvFailed, InvClient, InvOver, Over
<1>7. Memory_z'
  BY <1>1, SameMemory DEF DoEither, Inv, Memory_z, InvTypes, hist, Active
<1>. QED BY <1>6, <1>7 DEF Inv, InvMisuse, DoEither, hist

\* hz_used and hz_sign of an integer get values that fit its buffer.
LEMMA ValueKeeps ==
    ASSUME Inv, NEW A, NEW s, NEW B, NEW C, Started(A, s, B, C), s.op \in {"zero", "publish"},
           NEW used \in Nat, NEW nz, nz \in BOOLEAN,
           s.z \in Object, used =< obj[s.z].cap, nz => used > 0,
           obj' = [obj EXCEPT ![s.z].used = used, ![s.z].nz = nz], Continue,
           UNCHANGED <<alias, scratch, shadow, zstack, own, before, hist>>
    PROVE  Inv'
<1>. DEFINE z == s.z
            L == [A EXCEPT !.kept = @ \ {z}]
<1>1. pc = "call" /\ A \in Claim /\ B \in Claim /\ Below(B, L) /\ Holds(A)
  <2>1. Leaves(A, s) = L
    BY DEF Leaves
  <2>. HIDE DEF L
  <2>. QED BY <2>1, StartedEdge DEF Started
<1>2. /\ B.live \subseteq A.live /\ B.bare \subseteq A.bare /\ B.stk = A.stk
      /\ B.kept \subseteq A.kept \ {z} /\ B.idle \subseteq A.idle
      /\ \A x \in Object : B.room[x] =< A.room[x]
  BY <1>1 DEF Below, Claim
<1>3. obj \in [Object -> Number] /\ InvShape /\ z \in Object
  BY DEF Inv, Memory_z, InvTypes
<1>4. /\ obj' \in [Object -> Number]
      /\ obj'[z].used = used /\ obj'[z].nz = nz
      /\ \A x \in Object : /\ obj'[x].blk = obj[x].blk /\ obj'[x].cap = obj[x].cap
                           /\ obj'[x].id = obj[x].id
                           /\ x # z => obj'[x] = obj[x]
  BY <1>3 DEF Number
<1>5. InvShape'
  <2>. SUFFICES ASSUME NEW x \in Object
                PROVE  (/\ obj[x].id = "INVALID" => obj[x].blk = NoBlock
                        /\ obj[x].blk = NoBlock => obj[x].cap = 0
                        /\ obj[x].used =< obj[x].cap
                        /\ obj[x].nz => obj[x].used > 0)'
    BY DEF InvShape
  <2>1. CASE x = z
    BY <1>3, <1>4, <2>1 DEF InvShape
  <2>2. CASE x # z
    BY <1>3, <1>4, <2>2 DEF InvShape
  <2>. QED BY <2>1, <2>2
<1>6. Memory_z'
  BY <1>1, <1>4, <1>5, SameBuffers DEF Inv, Memory_z, InvTypes, Active, Continue, hist
<1>7. Holds(B)'
  <2>1. \A x \in B.live : Live(x)'
    BY <1>1, <1>2, <1>4 DEF Holds, Live, Claim
  <2>2. \A x \in B.bare : obj'[x].blk = NoBlock
    BY <1>1, <1>2, <1>4 DEF Holds, Claim
  <2>3. \A x \in B.kept : Kept(x)'
    <3>1. ASSUME NEW x \in B.kept PROVE Kept(x)'
      <4>1. x \in A.kept /\ x # z /\ x \in Object /\ Kept(x)
        BY <1>1, <1>2, BlockFacts DEF Holds, Claim
      <4>2. obj'[x] = obj[x]
        BY <1>4, <4>1
      <4>3. TagOf(obj[x].blk)' = TagOf(obj[x].blk)
        BY <4>2 DEF TagOf, hist
      <4>. QED BY <4>1, <4>2, <4>3, KeptStays
    <3>. QED BY <3>1
  <2>4. \A a \in B.idle : IdleAlias(a)'
    BY <1>1, <1>2, <1>4 DEF Holds, IdleAlias
  <2>5. \A x \in Object : B.room[x] =< obj'[x].cap
    BY <1>1, <1>2, <1>3, <1>4 DEF Holds, Claim, Number
  <2>. QED BY <1>1, <1>2, <2>1, <2>2, <2>3, <2>4, <2>5 DEF Holds
<1>8. Places'
  BY <1>7, GoesOn
<1>. QED BY <1>6, <1>8 DEF Inv, InvMisuse, hist

LEMMA DoZeroKeeps ==
    ASSUME Inv, NEW A, NEW s, NEW B, NEW C, Started(A, s, B, C), DoZero
    PROVE  Inv'
<1>1. s.op = "zero" /\ s = Head(todo)
  BY DEF DoZero, At, Started
<1>2. s.z \in Object
  BY <1>1, StartedEdge DEF Needs
<1>3. obj \in [Object -> Number] /\ obj[s.z].used \in Nat /\ obj[s.z].used =< obj[s.z].cap
  BY <1>2 DEF Inv, Memory_z, InvTypes, InvShape, Number
<1>4. obj' = [obj EXCEPT ![s.z].used = obj[s.z].used, ![s.z].nz = FALSE]
  BY <1>1, <1>2, <1>3 DEF DoZero, Number
<1>. QED BY <1>1, <1>2, <1>3, <1>4, ValueKeeps DEF DoZero

LEMMA DoPublishKeeps ==
    ASSUME Inv, NEW A, NEW s, NEW B, NEW C, Started(A, s, B, C), DoPublish
    PROVE  Inv'
<1>1. s.op = "publish" /\ s = Head(todo) /\ Holds(A) /\ A \in Claim
  BY DEF DoPublish, At, Started, Holds
<1>2. s.z \in Object /\ \A n \in s.ns : n \in Nat /\ n =< A.room[s.z]
  BY <1>1, StartedEdge DEF Needs
<1>3. PICK n \in s.ns : obj' = [obj EXCEPT ![s.z].used = n, ![s.z].nz = n > 0]
  BY <1>1 DEF DoPublish
<1>4. n \in Nat /\ n =< obj[s.z].cap
  <2>1. obj[s.z].cap \in Nat /\ A.room[s.z] \in Nat /\ A.room[s.z] =< obj[s.z].cap
    BY <1>1, <1>2 DEF Holds, Claim, Inv, Memory_z, InvTypes, Number
  <2>. QED BY <1>2, <2>1
<1>. DEFINE nz == n > 0
<1>5. nz \in BOOLEAN /\ (nz => n > 0)
  BY <1>4
<1>6. obj' = [obj EXCEPT ![s.z].used = n, ![s.z].nz = nz]
  BY <1>3
<1>. HIDE DEF nz
<1>. QED BY <1>1, <1>2, <1>4, <1>5, <1>6, ValueKeeps DEF DoPublish

\* A kernel marks the buffers it stores in, and reads what the caller passed.
LEMMA DoKernelKeeps ==
    ASSUME Inv, NEW A, NEW s, NEW B, NEW C, Started(A, s, B, C), DoKernel
    PROVE  Inv'
<1>. DEFINE L == [A EXCEPT !.kept = @ \ s.outs]
<1>1. s.op = "kernel" /\ s = Head(todo) /\ pc = "call" /\ Holds(A)
  BY DEF DoKernel, At, Started
<1>2. A \in Claim /\ B \in Claim /\ s.outs \subseteq Object /\ s.reads \subseteq A.kept /\ Below(B, L)
  <2>1. Leaves(A, s) = L
    BY <1>1 DEF Leaves
  <2>. HIDE DEF L
  <2>2. A \in Claim /\ B \in Claim /\ Needs(A, s) /\ Below(B, L)
    BY <1>1, <2>1, StartedEdge
  <2>. QED BY <1>1, <2>2 DEF Needs
<1>3. /\ B.live \subseteq A.live /\ B.bare \subseteq A.bare /\ B.stk = A.stk
      /\ B.kept \subseteq A.kept \ s.outs /\ B.idle \subseteq A.idle
      /\ \A x \in Object : B.room[x] =< A.room[x]
  BY <1>2 DEF Below, Claim
<1>4. misuse' = misuse
  <2>1. \A a \in s.reads : Original(a)
    BY <1>1, <1>2 DEF Holds, Kept
  <2>. QED BY <1>1, <2>1 DEF DoKernel, Noted
<1>5. tag' = [b \in Block |-> IF \E r \in s.outs : obj[r].blk = b THEN "new" ELSE tag[b]]
  BY <1>1 DEF DoKernel
<1>6. tag' \in [Block -> Zvar \cup {"junk", "new"}]
  BY <1>5 DEF Inv, Memory_z, InvTypes
<1>7. Memory_z'
  BY <1>1, <1>6, SameMemory DEF Inv, Memory_z, InvTypes, Active, DoKernel, Continue
<1>8. Holds(B)'
  <2>1. obj' = obj /\ zstack' = zstack /\ before' = before
    BY DEF DoKernel
  <2>2. \A x \in B.live : Live(x)'
    BY <1>1, <1>3, <2>1 DEF Holds, Live
  <2>3. \A x \in B.bare : obj'[x].blk = NoBlock
    BY <1>1, <1>3, <2>1 DEF Holds
  <2>4. \A x \in B.kept : Kept(x)'
    <3>1. ASSUME NEW x \in B.kept PROVE Kept(x)'
      <4>1. x \in A.kept /\ x \notin s.outs /\ x \in Object /\ Kept(x)
        BY <1>1, <1>2, <1>3, BlockFacts DEF Holds, Claim
      <4>2. obj[x].blk \in Block => \A r \in s.outs : obj[r].blk # obj[x].blk
        <5>1. NoBlock \notin Block
          BY RuntimeAssumption
        <5>. QED BY <1>2, <4>1, <5>1 DEF Inv, Memory_z, InvHolders
      <4>3. TagOf(obj[x].blk)' = TagOf(obj[x].blk)
        BY <1>5, <2>1, <4>2 DEF TagOf
      <4>. QED BY <2>1, <4>1, <4>3, KeptStays
    <3>. QED BY <3>1
  <2>5. \A a \in B.idle : IdleAlias(a)'
    BY <1>1, <1>3, <2>1 DEF Holds, IdleAlias
  <2>6. \A x \in Object : B.room[x] =< obj'[x].cap
    BY <1>1, <1>2, <1>3, <2>1 DEF Holds, Claim, Inv, Memory_z, InvTypes, Number
  <2>. QED BY <1>1, <1>2, <1>3, <2>1, <2>2, <2>3, <2>4, <2>5, <2>6 DEF Holds
<1>9. Places'
  BY <1>8, GoesOn DEF DoKernel
<1>. QED BY <1>4, <1>7, <1>9 DEF Inv, InvMisuse

-----------------------------------------------------------------------------
(* The steps that move buffers *)

\* A claim after a step that changes the integers of Z only.
LEMMA FrameHolds ==
    ASSUME InvTypes, NEW A, Holds(A), NEW B \in Claim, NEW Z,
           \A x \in Object : x \notin Z => obj'[x] = obj[x],
           before' = before,
           \A x \in Zvar : x \notin Z => TagOf(obj[x].blk)' = TagOf(obj[x].blk),
           \A x \in B.live : x \in A.live \/ Live(x)',
           \A x \in B.bare : (x \in A.bare /\ x \notin Z) \/ obj'[x].blk = NoBlock,
           \A x \in B.kept : (x \in A.kept /\ x \notin Z) \/ Kept(x)',
           \A x \in Z : x \in B.live => Live(x)',
           zstack' = B.stk,
           \A a \in B.idle : IdleAlias(a)',
           \A x \in Object : x \notin Z => B.room[x] =< A.room[x],
           \A x \in Object : x \in Z => B.room[x] =< obj'[x].cap
    PROVE  Holds(B)'
<1>1. A \in Claim /\ obj \in [Object -> Number]
  BY DEF Holds, InvTypes
<1>2. \A x \in B.live : Live(x)'
  BY <1>1 DEF Holds, Live, Claim
<1>3. \A x \in B.bare : obj'[x].blk = NoBlock
  BY <1>1 DEF Holds, Claim
<1>4. \A x \in B.kept : Kept(x)'
  <2>1. ASSUME NEW x \in B.kept PROVE Kept(x)'
    <3>1. CASE x \in A.kept /\ x \notin Z
      <4>1. x \in Zvar /\ x \in Object /\ Kept(x)
        BY <1>1, <3>1, BlockFacts DEF Holds, Claim
      <4>. QED BY <3>1, <4>1, KeptStays
    <3>. QED BY <3>1
  <2>. QED BY <2>1
<1>5. \A x \in Object : B.room[x] =< obj'[x].cap
  <2>1. ASSUME NEW x \in Object, x \notin Z PROVE B.room[x] =< obj'[x].cap
    BY <1>1, <2>1 DEF Holds, Claim, Number
  <2>. QED BY <2>1
<1>. QED BY <1>2, <1>3, <1>4, <1>5 DEF Holds

LEMMA DoSwapKeeps ==
    ASSUME Inv, NEW A, NEW s, NEW B, NEW C, Started(A, s, B, C), DoSwap
    PROVE  Inv'
<1>. DEFINE z == s.z
            r == s.r
            L == [A EXCEPT !.bare = @ \ {z, r}, !.kept = @ \ {z, r}, !.idle = {},
                           !.room = [A.room EXCEPT ![z] = A.room[r], ![r] = A.room[z]]]
            g == [x \in Object |-> IF x = z THEN r ELSE IF x = r THEN z ELSE x]
<1>1. s.op = "swap" /\ s = Head(todo) /\ pc = "call" /\ Holds(A)
  BY DEF DoSwap, At, Started
<1>2. A \in Claim /\ B \in Claim /\ z \in A.live /\ r \in A.live /\ Below(B, L)
  <2>1. Leaves(A, s) = L
    BY <1>1 DEF Leaves
  <2>. HIDE DEF L
  <2>2. A \in Claim /\ B \in Claim /\ Needs(A, s) /\ Below(B, L)
    BY <1>1, <2>1, StartedEdge
  <2>. QED BY <1>1, <2>2 DEF Needs
<1>3. /\ B.live \subseteq A.live /\ B.bare \subseteq A.bare \ {z, r} /\ B.stk = A.stk
      /\ B.kept \subseteq A.kept \ {z, r} /\ B.idle = {}
      /\ B.room[z] =< A.room[r] /\ B.room[r] =< A.room[z]
      /\ \A x \in Object \ {z, r} : B.room[x] =< A.room[x]
      /\ z \in Object /\ r \in Object
  <2>1. z \in Object /\ r \in Object /\ A.room \in [Object -> Nat]
    BY <1>2 DEF Claim
  <2>2. /\ L.live = A.live /\ L.bare = A.bare \ {z, r} /\ L.stk = A.stk
        /\ L.kept = A.kept \ {z, r} /\ L.idle = {}
        /\ L.room = [A.room EXCEPT ![z] = A.room[r], ![r] = A.room[z]]
    BY <1>2 DEF Claim
  <2>3. Below(B, L)
    BY <1>2
  <2>. HIDE DEF L, z, r
  <2>4. L.room[z] = A.room[r] /\ L.room[r] = A.room[z] /\ \A x \in Object \ {z, r} : L.room[x] = A.room[x]
    BY <2>1, <2>2
  <2>5. \A x \in Object : B.room[x] =< L.room[x]
    BY <2>3 DEF Below
  <2>. QED BY <2>1, <2>2, <2>3, <2>4, <2>5 DEF Below
<1>4. obj \in [Object -> Number] /\ InvShape
  BY DEF Inv, Memory_z, InvTypes
<1>5. obj' = [obj EXCEPT ![z] = obj[r], ![r] = obj[z]]
  BY <1>1 DEF DoSwap
<1>6. /\ obj' \in [Object -> Number]
      /\ \A x \in Object : g[x] \in Object /\ obj'[x] = obj[g[x]] /\ obj'[g[x]] = obj[x]
      /\ g \in [Object -> Object] /\ \A x, y \in Object : x # y => g[x] # g[y]
  <2>1. /\ g \in [Object -> Object] /\ g[z] = r /\ g[r] = z
        /\ \A x \in Object : x # z /\ x # r => g[x] = x
    BY <1>3
  <2>2. /\ obj' \in [Object -> Number] /\ obj'[z] = obj[r] /\ obj'[r] = obj[z]
        /\ \A x \in Object : x # z /\ x # r => obj'[x] = obj[x]
    BY <1>3, <1>4, <1>5
  <2>. HIDE DEF g, z, r
  <2>3. \A x \in Object : g[x] \in Object /\ obj'[x] = obj[g[x]] /\ obj'[g[x]] = obj[x]
    BY <2>1, <2>2
  <2>4. \A x, y \in Object : x # y => g[x] # g[y]
    BY <2>1
  <2>. QED BY <2>1, <2>2, <2>3, <2>4
<1>7. Memory_z'
  <2>1. InvShape'
    BY <1>4, <1>6 DEF InvShape
  <2>2. /\ \A x \in Object : obj'[x].blk # NoBlock =>
               obj'[x].blk = obj[g[x]].blk /\ obj'[x].id = obj[g[x]].id
        /\ \A x, y \in Object : x # y /\ obj'[x].blk # NoBlock => g[x] # g[y]
        /\ \A x \in Object : obj[x].blk # NoBlock => \E y \in Object : obj'[y].blk = obj[x].blk
    BY <1>6
  <2>. HIDE DEF g
  <2>3. /\ pc \in Active /\ pc' \in Active
        /\ before' \in [Zvar -> [live : BOOLEAN, used : Nat, nz : BOOLEAN]]
        /\ tag' \in [Block -> Zvar \cup {"junk", "new"}] /\ zstack' \in Seq(Tmp) /\ level' \in Nat
        /\ UNCHANGED <<alias, scratch, shadow, own>>
    BY <1>1 DEF DoSwap, Inv, Memory_z, InvTypes, Active, Continue, hist
  <2>. QED BY <1>6, <2>1, <2>2, <2>3, Reheld DEF Inv
<1>8. Holds(B)'
  <2>. DEFINE Z == {z, r}
  <2>1. /\ \A x \in Object : x \notin Z => obj'[x] = obj[x]
        /\ before' = before /\ zstack' = B.stk
        /\ \A x \in Zvar : x \notin Z => TagOf(obj[x].blk)' = TagOf(obj[x].blk)
    BY <1>1, <1>3, <1>4, <1>5, BlockFacts DEF DoSwap, Holds, TagOf, hist
  <2>2. /\ \A x \in B.live : x \in A.live \/ Live(x)'
        /\ \A x \in B.bare : (x \in A.bare /\ x \notin Z) \/ obj'[x].blk = NoBlock
        /\ \A x \in B.kept : (x \in A.kept /\ x \notin Z) \/ Kept(x)'
        /\ \A a \in B.idle : IdleAlias(a)'
    BY <1>3
  <2>3. \A x \in Z : x \in B.live => Live(x)'
    <3>1. Live(z) /\ Live(r)
      BY <1>1, <1>2 DEF Holds
    <3>2. obj'[z] = obj[r] /\ obj'[r] = obj[z]
      BY <1>3, <1>4, <1>5
    <3>. QED BY <3>1, <3>2 DEF Live
  <2>4. /\ \A x \in Object : x \notin Z => B.room[x] =< A.room[x]
        /\ \A x \in Object : x \in Z => B.room[x] =< obj'[x].cap
    BY <1>1, <1>2, <1>3, <1>4, <1>5 DEF Holds, Claim, Number
  <2>. HIDE DEF Z
  <2>. QED BY <1>1, <1>2, <2>1, <2>2, <2>3, <2>4, FrameHolds DEF Inv, Memory_z
<1>9. Places'
  BY <1>8, GoesOn DEF DoSwap
<1>. QED BY <1>7, <1>9 DEF Inv, InvMisuse, DoSwap, hist

\* A temporary is made: an integer without a buffer.
LEMMA MadeKeeps ==
    ASSUME Inv, NEW t \in Tmp, obj[t].blk = NoBlock, NEW id \in AllocId,
           obj' = [obj EXCEPT ![t] = Empty(id)],
           pc = "call", pc' = "call", zstack' \in Seq(Tmp), level' \in Nat,
           UNCHANGED <<alias, scratch, shadow, own, before, tag>>
    PROVE  Memory_z'
<1>1. obj \in [Object -> Number] /\ InvShape /\ t \in Object
  BY BlockFacts DEF Inv, Memory_z, InvTypes
<1>2. /\ Empty(id) \in Number /\ Empty(id).blk = NoBlock /\ Empty(id).cap = 0
      /\ Empty(id).used = 0 /\ ~Empty(id).nz /\ Empty(id).id = id
  BY DEF Empty, Dead, Number
<1>3. /\ obj' \in [Object -> Number] /\ obj'[t] = Empty(id)
      /\ \A x \in Object : x # t => obj'[x] = obj[x]
  BY <1>1, <1>2
<1>4. InvShape'
  BY <1>1, <1>2, <1>3 DEF InvShape
<1>5. /\ \A x \in Object : obj'[x].blk = obj[x].blk
      /\ \A x \in Object : obj[x].blk # NoBlock => obj'[x].id = obj[x].id
  BY <1>2, <1>3
<1>. QED BY <1>3, <1>4, <1>5, SameBuffers DEF Inv, Memory_z, InvTypes, Active

\* The claim after that.
LEMMA MadeHolds ==
    ASSUME InvTypes, NEW A, Holds(A), NEW B \in Claim, NEW t \in Tmp, NEW id \in AllocId,
           obj' = [obj EXCEPT ![t] = Empty(id)], UNCHANGED <<before, tag>>,
           zstack' = B.stk, B.live \subseteq A.live \cup {t}, B.bare \subseteq A.bare,
           B.kept \subseteq A.kept, B.idle \subseteq A.idle, B.room[t] =< 0,
           \A x \in Object \ {t} : B.room[x] =< A.room[x]
    PROVE  Holds(B)'
<1>. DEFINE Z == {t}
<1>1. t \in Object /\ t \notin Zvar /\ obj \in [Object -> Number] /\ A \in Claim
  BY BlockFacts DEF InvTypes, Holds
<1>2. obj'[t] = Empty(id) /\ obj'[t].blk = NoBlock /\ obj'[t].cap = 0 /\ obj'[t].id = id
  BY <1>1 DEF Empty, Dead
<1>3. /\ \A x \in Object : x \notin Z => obj'[x] = obj[x]
      /\ \A x \in Zvar : x \notin Z => TagOf(obj[x].blk)' = TagOf(obj[x].blk)
  BY <1>1, BlockFacts DEF TagOf
<1>4. Live(t)'
  BY <1>2, KeyFacts DEF Live
<1>5. /\ \A x \in B.live : x \in A.live \/ Live(x)'
      /\ \A x \in B.bare : (x \in A.bare /\ x \notin Z) \/ obj'[x].blk = NoBlock
      /\ \A x \in B.kept : (x \in A.kept /\ x \notin Z) \/ Kept(x)'
      /\ \A x \in Z : x \in B.live => Live(x)'
  BY <1>1, <1>2, <1>4 DEF Claim
<1>6. \A a \in B.idle : IdleAlias(a)'
  BY <1>2, <1>3 DEF IdleAlias, Holds
<1>7. /\ \A x \in Object : x \notin Z => B.room[x] =< A.room[x]
      /\ \A x \in Object : x \in Z => B.room[x] =< obj'[x].cap
  BY <1>2
<1>. HIDE DEF Z
<1>. QED BY <1>3, <1>5, <1>6, <1>7, FrameHolds

LEMMA DoMakeKeeps ==
    ASSUME Inv, NEW A, NEW s, NEW B, NEW C, Started(A, s, B, C), DoMake
    PROVE  Inv'
<1>. DEFINE t == s.z
            L == [A EXCEPT !.live = @ \cup {t}, !.room = [A.room EXCEPT ![t] = 0]]
<1>1. s.op = "make" /\ s = Head(todo) /\ pc = "call" /\ pc' = "call" /\ Holds(A)
  BY DEF DoMake, At, Started, Continue
<1>2. /\ A \in Claim /\ B \in Claim /\ t \in A.bare /\ t \in Tmp /\ s.id \in AllocId
      /\ Below(B, L)
  <2>1. Leaves(A, s) = L
    BY <1>1 DEF Leaves
  <2>. HIDE DEF L
  <2>2. A \in Claim /\ B \in Claim /\ Needs(A, s) /\ Below(B, L)
    BY <1>1, <2>1, StartedEdge
  <2>. QED BY <1>1, <2>2 DEF Needs
<1>3. /\ B.live \subseteq A.live \cup {t} /\ B.bare \subseteq A.bare /\ B.stk = A.stk
      /\ B.kept \subseteq A.kept /\ B.idle \subseteq A.idle /\ B.room[t] =< 0
      /\ \A x \in Object \ {t} : B.room[x] =< A.room[x]
      /\ t \in Object /\ t \notin Zvar
  BY <1>2, BlockFacts DEF Below, Claim
<1>4. obj \in [Object -> Number] /\ obj' = [obj EXCEPT ![t] = Empty(s.id)] /\ obj[t].blk = NoBlock
  BY <1>1, <1>2 DEF Inv, Memory_z, InvTypes, DoMake, Holds
<1>5. Memory_z'
  BY <1>1, <1>2, <1>4, MadeKeeps DEF DoMake, Inv, Memory_z, InvTypes, Continue, hist
<1>6. Holds(B)'
  <2>1. UNCHANGED <<before, tag>> /\ zstack' = B.stk
    BY <1>1, <1>3 DEF DoMake, Holds, hist
  <2>. QED BY <1>1, <1>2, <1>3, <1>4, <2>1, MadeHolds DEF Inv, Memory_z
<1>7. Places'
  BY <1>6, GoesOn DEF DoMake
<1>. QED BY <1>5, <1>7 DEF Inv, InvMisuse, DoMake, hist

-----------------------------------------------------------------------------
(* The steps that allocate and free *)

\* A buffer goes back to its own allocator, as long as no alias was exchanged
\* that owned it.
LEMMA RightOwner ==
    ASSUME Memory_z, ~Rebinds, NEW z \in Object, NEW f, obj[z].id # "INVALID",
           obj[z].blk \in Heap => f[obj[z].blk] = own[obj[z].blk]
    PROVE  ~IsBadFree(f, Resolve(obj[z].id), obj[z].blk)
<1>1. obj[z] \in Number
  BY DEF Memory_z, InvTypes
<1>2. obj[z].blk \in Heap => f[obj[z].blk] = Resolve(obj[z].id)
  BY DEF Memory_z, InvOwners
<1>3. obj[z].blk \in Zvar => Resolve(obj[z].id) = "FIXED"
  BY DEF Memory_z, InvOwners, Resolve, Alias
<1>. QED BY <1>1, <1>2, <1>3, BlockFacts DEF IsBadFree, Number, Block

\* hebi_zdestroy, of any integer.
LEMMA DestroyedKeeps ==
    ASSUME Memory_z, NEW z \in Object, Destroyed(z), pc \in Active, pc' \in Active,
           UNCHANGED <<alias, scratch, shadow, before, tag>>, zstack' \in Seq(Tmp), level' \in Nat
    PROVE  /\ Memory_z' /\ (~Rebinds => ~WrongOwner(z))
           /\ obj' = [obj EXCEPT ![z] = Dead] /\ obj'[z] = Dead
           /\ \A x \in Object : x # z => obj'[x] = obj[x]
<1>1. obj \in [Object -> Number] /\ own \in [Heap -> Key \cup {"none"}] /\ obj[z] \in Number
  BY DEF Memory_z, InvTypes
<1>2. obj' = [obj EXCEPT ![z] = Dead] /\ own' = Freed(own, Resolve(obj[z].id), obj[z].blk)
  BY DEF Destroyed
<1>3. /\ Dead \in Number /\ Dead.blk = NoBlock /\ Dead.cap = 0 /\ Dead.used = 0 /\ ~Dead.nz
      /\ Dead.id = "INVALID"
  BY DEF Dead, Number
<1>4. PICK k \in Key : /\ own' = Freed(own, k, obj[z].blk)
                       /\ obj[z].blk = NoBlock \/ k = Resolve(obj[z].id)
  <2>1. CASE obj[z].id = "INVALID"
    <3>1. obj[z].blk = NoBlock
      BY <2>1 DEF Memory_z, InvShape
    <3>2. own' = own /\ Freed(own, "STDLIB", obj[z].blk) = own
      BY <1>2, <3>1, BlockFacts DEF Freed
    <3>. QED BY <3>1, <3>2 DEF Key
  <2>2. CASE obj[z].id # "INVALID"
    <3>1. Resolve(obj[z].id) \in Key
      BY <1>1, <2>2, ResolveFacts DEF Memory_z, Number
    <3>. QED BY <1>2, <3>1
  <2>. QED BY <2>1, <2>2
<1>. DEFINE o == Dead
<1>5. /\ o \in Number /\ o.blk = NoBlock
      /\ own = IF o.blk = NoBlock THEN own ELSE Granted(own, k, o.blk)
      /\ (o.id = "INVALID" => o.blk = NoBlock)
      /\ (o.blk = NoBlock => o.cap = 0)
      /\ o.cap = 0 /\ o.used =< o.cap /\ (o.nz => o.used > 0)
      /\ obj' = [obj EXCEPT ![z] = o]
  BY <1>2, <1>3
<1>. HIDE DEF o
<1>6. Memory_z'
  BY <1>4, <1>5, Exchanged DEF Memory_z, InvTypes
<1>7. ~Rebinds => ~WrongOwner(z)
  BY RightOwner DEF WrongOwner, Live
<1>8. obj'[z] = Dead /\ \A x \in Object : x # z => obj'[x] = obj[x]
  BY <1>1, <1>2
<1>. QED BY <1>2, <1>6, <1>7, <1>8

\* z has a new buffer of n packets, or none, and its old one is free.
LEMMA ReplaceKeeps ==
    ASSUME Inv, pc = "call", NEW z \in Object, Live(z), NEW n \in Nat, NEW kept \in Nat,
           NEW used \in Nat, used =< n, n = 0 \/ Unused(own) # {},
           Replace(z, n, kept, used), UNCHANGED <<alias, scratch, shadow, zstack, before>>
    PROVE  /\ Memory_z' /\ InvMisuse'
           /\ obj'[z].id \in AllocId /\ obj'[z].cap = n /\ obj'[z].used = used
           /\ obj'[z].nz = (obj[z].nz /\ used > 0)
           /\ \A x \in Object : x # z => obj'[x] = obj[x]
           /\ \A x \in Object : x # z => TagOf(obj[x].blk)' = TagOf(obj[x].blk)
           /\ n > 0 /\ kept > 0 => TagOf(obj[z].blk)' = TagOf(obj[z].blk)
<1>. DEFINE b == IF n = 0 THEN NoBlock ELSE Fresh(own)
            c == obj[z].blk
            k == Resolve(obj[z].id)
            f == IF n = 0 THEN own ELSE Granted(own, k, b)
            o == [blk |-> b, cap |-> n, used |-> used,
                  nz |-> obj[z].nz /\ used > 0, id |-> Returned(obj[z].id)]
            t == IF kept > 0 THEN TagOf(c) ELSE "junk"
<1>1. /\ own' = Freed(f, k, c) /\ Noted(IsBadFree(f, k, c), "free") /\ tag' = Marked(b, t)
      /\ obj' = [obj EXCEPT ![z] = o] /\ Continue
  BY DEF Replace
<1>2. /\ obj \in [Object -> Number] /\ obj[z] \in Number /\ own \in [Heap -> Key \cup {"none"}]
      /\ tag \in [Block -> Zvar \cup {"junk", "new"}] /\ InvTypes
      /\ obj[z].id \in AllocId
  BY DEF Inv, Memory_z, InvTypes, Number, Live
<1>3. /\ k \in Key /\ Returned(obj[z].id) \in AllocId /\ Resolve(Returned(obj[z].id)) = k
  BY <1>2, ResolveFacts
<1>4. /\ n # 0 => b \in Heap /\ own[b] = "none"
      /\ n = 0 => b = NoBlock
      /\ b = NoBlock <=> n = 0
  BY FreshUnused, BlockFacts
<1>5. \A x \in Object : obj[x].blk \in Heap => obj[x].blk # b
  BY <1>4, BlockFacts DEF Inv, Memory_z, InvOwners
<1>. HIDE DEF b, k, f
<1>6. /\ o \in Number /\ o.blk = b /\ o.cap = n /\ o.used = used /\ o.id = Returned(obj[z].id)
      /\ o.nz = (obj[z].nz /\ used > 0)
  BY <1>2, <1>3, <1>4 DEF Number, Block
<1>. HIDE DEF o
<1>7. f = IF o.blk = NoBlock THEN own ELSE Granted(own, k, o.blk)
  BY <1>4, <1>6 DEF f
<1>8. TagOf(c) \in Zvar \cup {"junk", "new"} /\ t \in Zvar \cup {"junk", "new"}
  BY <1>2 DEF TagOf
<1>. HIDE DEF t, c
<1>9. /\ tag' \in [Block -> Zvar \cup {"junk", "new"}]
      /\ \A d \in Block : d # b => tag'[d] = tag[d]
      /\ b \in Block => tag'[b] = t
  BY <1>1, <1>2, <1>8 DEF Marked
<1>10. Memory_z'
  <2>1. /\ o.blk = NoBlock \/ (o.blk \in Heap /\ own[o.blk] = "none" /\ Resolve(o.id) = k)
        /\ obj[z].blk = NoBlock \/ k = Resolve(obj[z].id)
        /\ (o.id = "INVALID" => o.blk = NoBlock) /\ (o.blk = NoBlock => o.cap = 0)
        /\ o.used =< o.cap /\ (o.nz => o.used > 0)
        /\ k \in Key /\ o \in Number
    BY <1>3, <1>4, <1>6, KeyFacts DEF k
  <2>2. /\ pc \in Active /\ pc' \in Active /\ zstack' \in Seq(Tmp) /\ level' \in Nat
        /\ own' = Freed(f, k, obj[z].blk) /\ Memory_z /\ obj' = [obj EXCEPT ![z] = o]
        /\ UNCHANGED <<alias, scratch, shadow, before>>
        /\ tag' \in [Block -> Zvar \cup {"junk", "new"}]
    BY <1>1, <1>2, <1>9 DEF Continue, Active, InvTypes, c, Inv
  <2>. QED BY <1>7, <2>1, <2>2, Exchanged
<1>11. InvMisuse'
  <2>1. c \in Heap => f[c] = own[c]
    BY <1>2, <1>4, <1>5, <1>6, <1>7 DEF Granted, c
  <2>2. ~Rebinds => ~IsBadFree(f, k, c)
    BY <2>1, RightOwner DEF Live, c, k, Inv
  <2>. QED BY <1>1, <2>2 DEF Noted, Inv, InvMisuse
<1>12. /\ obj'[z] = o /\ \A x \in Object : x # z => obj'[x] = obj[x]
  BY <1>1, <1>2
<1>13. ASSUME NEW x \in Object, x # z
       PROVE  TagOf(obj[x].blk)' = TagOf(obj[x].blk)
  <2>1. obj[x].blk \in Block => obj[x].blk # b
    BY <1>4, <1>5, BlockFacts, RuntimeAssumption DEF Block
  <2>. QED BY <1>9, <1>12, <1>13, <2>1 DEF TagOf
<1>14. n > 0 /\ kept > 0 => TagOf(obj[z].blk)' = TagOf(obj[z].blk)
  BY <1>4, <1>6, <1>9, <1>12 DEF TagOf, Block, t, c
<1>. QED BY <1>3, <1>6, <1>10, <1>11, <1>12, <1>13, <1>14

\* A step raises, and has changed nothing.
LEMMA RaiseKeeps ==
    ASSUME Inv, pc = "call", NEW A, Holds(A), MayRaise(A), Raise,
           UNCHANGED <<obj, alias, scratch, shadow, zstack, own, before, hist>>
    PROVE  Inv'
<1>1. Places' /\ pc' = "raise" /\ level' \in Nat
  BY GoesWrong DEF Inv, Memory_z, hist
<1>2. Memory_z'
  BY <1>1, SameMemory DEF Inv, Memory_z, InvTypes, hist, Active
<1>. QED BY <1>1, <1>2 DEF Inv, InvMisuse, hist

\* The claim after z was made room for n packets.
LEMMA GrownHolds ==
    ASSUME InvTypes, NEW A, Holds(A), NEW B \in Claim, NEW z \in Object, NEW n \in Nat,
           B.live \subseteq A.live \cup {z}, B.bare \subseteq A.bare \ {z}, B.stk = A.stk, B.idle = {},
           B.kept \subseteq A.kept, z \in B.kept => Kept(z)', B.room[z] =< n,
           \A x \in Object \ {z} : B.room[x] =< A.room[x],
           Live(z)', n =< obj'[z].cap,
           \A x \in Object : x # z => obj'[x] = obj[x],
           \A x \in Object : x # z => TagOf(obj[x].blk)' = TagOf(obj[x].blk),
           before' = before, zstack' = zstack, obj'[z].cap \in Nat
    PROVE  Holds(B)'
<1>. DEFINE Z == {z}
<1>1. /\ \A x \in Object : x \notin Z => obj'[x] = obj[x]
      /\ \A x \in Zvar : x \notin Z => TagOf(obj[x].blk)' = TagOf(obj[x].blk)
      /\ \A x \in Object : x \notin Z => B.room[x] =< A.room[x]
      /\ \A x \in B.live : x \in A.live \/ Live(x)'
      /\ \A x \in B.bare : (x \in A.bare /\ x \notin Z) \/ obj'[x].blk = NoBlock
      /\ \A x \in B.kept : (x \in A.kept /\ x \notin Z) \/ Kept(x)'
      /\ \A x \in Z : x \in B.live => Live(x)'
      /\ \A a \in B.idle : IdleAlias(a)'
  BY BlockFacts
<1>2. zstack' = B.stk
  BY DEF Holds
<1>3. \A x \in Object : x \in Z => B.room[x] =< obj'[x].cap
  BY DEF Claim
<1>. HIDE DEF Z
<1>. QED BY <1>1, <1>2, <1>3, FrameHolds

\* A buffer that is grown, and keeps its packets if it is told to.
LEMMA DoGrowKeeps ==
    ASSUME Inv, NEW A, NEW s, NEW B, NEW C, Started(A, s, B, C), DoGrow
    PROVE  Inv'
<1>. DEFINE z == s.z
            n == s.n
            u == obj[s.z].used
            L == [A EXCEPT !.bare = @ \ {z}, !.kept = IF s.copy THEN @ ELSE @ \ {z}, !.idle = {},
                           !.room = [A.room EXCEPT ![z] = n]]
<1>1. s.op = "grow" /\ s = Head(todo) /\ pc = "call" /\ Holds(A) /\ A \in Claim
  BY DEF DoGrow, At, Started, Holds
<1>2. B \in Claim /\ z \in A.live /\ n \in Nat /\ MayRaise(A) /\ Below(B, L)
  <2>1. Leaves(A, s) = L
    BY <1>1 DEF Leaves
  <2>. HIDE DEF L
  <2>2. B \in Claim /\ Needs(A, s) /\ Below(B, L)
    BY <1>1, <2>1, StartedEdge
  <2>. QED BY <1>1, <2>2 DEF Needs
<1>3. /\ B.live \subseteq A.live /\ B.bare \subseteq A.bare \ {z} /\ B.stk = A.stk
      /\ B.kept \subseteq A.kept /\ (~s.copy => z \notin B.kept) /\ B.idle = {}
      /\ B.room[z] =< n /\ \A x \in Object \ {z} : B.room[x] =< A.room[x]
      /\ z \in Object /\ Live(z)
  BY <1>1, <1>2 DEF Below, Claim, Holds
<1>4. obj \in [Object -> Number] /\ obj[z] \in Number /\ u =< obj[z].cap /\ (obj[z].nz => u > 0)
  BY <1>3 DEF Inv, Memory_z, InvTypes, InvShape
<1>5. CASE n =< obj[z].cap
  <2>1. Continue /\ UNCHANGED <<obj, own, hist, alias, scratch, shadow, zstack, before>>
    BY <1>1, <1>5 DEF DoGrow
  <2>2. z \in B.kept => Kept(z)'
    BY <1>1, <1>3, <2>1, KeptStays DEF Holds, hist, TagOf
  <2>3. Holds(B)'
    <3>1. Live(z)' /\ n =< obj'[z].cap /\ obj'[z].cap \in Nat
      BY <1>3, <1>4, <1>5, <2>1 DEF Live, Number
    <3>2. \A x \in Object : obj'[x] = obj[x] /\ TagOf(obj[x].blk)' = TagOf(obj[x].blk)
      BY <2>1 DEF TagOf, hist
    <3>. QED BY <1>1, <1>2, <1>3, <2>1, <2>2, <3>1, <3>2, GrownHolds DEF Inv, Memory_z
  <2>4. Memory_z'
    BY <1>1, <2>1, SameMemory DEF Inv, Memory_z, InvTypes, Active, Continue, hist
  <2>5. Places'
    BY <2>1, <2>3, GoesOn
  <2>. QED BY <2>1, <2>4, <2>5 DEF Inv, InvMisuse, hist
<1>6. CASE n > obj[z].cap
  <2>. DEFINE kept == IF s.copy THEN u ELSE 0
  <2>1. /\ AllocOrRaise(obj[z].id, n, Replace(z, n, kept, u))
        /\ UNCHANGED <<alias, scratch, shadow, zstack, before>>
    BY <1>1, <1>2, <1>4, <1>6 DEF DoGrow, Number
  <2>2. CASE Raise /\ UNCHANGED <<obj, own, hist>>
    BY <1>1, <1>2, <2>1, <2>2, RaiseKeeps
  <2>3. CASE CanAlloc(own, obj[z].id, n) /\ Replace(z, n, kept, u)
    <3>1. u \in Nat /\ kept \in Nat /\ u =< n /\ Unused(own) # {} /\ n > 0
      BY <1>2, <1>4, <1>6, <2>3 DEF Number, CanAlloc
    <3>. HIDE DEF kept
    <3>2. /\ Memory_z' /\ InvMisuse'
          /\ obj'[z].id \in AllocId /\ obj'[z].cap = n /\ obj'[z].used = u
          /\ obj'[z].nz = (obj[z].nz /\ u > 0)
          /\ \A x \in Object : x # z => obj'[x] = obj[x]
          /\ \A x \in Object : x # z => TagOf(obj[x].blk)' = TagOf(obj[x].blk)
          /\ n > 0 /\ kept > 0 => TagOf(obj[z].blk)' = TagOf(obj[z].blk)
      <4>. HIDE DEF u, z, n
      <4>. QED BY <1>1, <1>2, <1>3, <2>1, <2>3, <3>1, ReplaceKeeps
    <3>3. Live(z)' /\ n =< obj'[z].cap /\ obj'[z].cap \in Nat
      BY <1>2, <3>2, KeyFacts DEF Live
    <3>4. z \in B.kept => Kept(z)'
      <4>1. SUFFICES ASSUME z \in B.kept PROVE Kept(z)'
        OBVIOUS
      <4>2. Kept(z) /\ kept = u /\ z \in Zvar
        BY <1>1, <1>3, <4>1 DEF Holds, Claim, kept
      <4>3. obj'[z].nz = obj[z].nz
        BY <1>4, <3>2 DEF Number
      <4>4. obj[z].nz => TagOf(obj[z].blk)' = TagOf(obj[z].blk)
        BY <1>4, <3>1, <3>2, <4>2
      <4>5. before' = before
        BY <2>1
      <4>6. Live(z)' = Live(z)
        BY <1>3, <3>3
      <4>7. (before[z].nz => obj[z].nz /\ obj[z].used = before[z].used /\ TagOf(obj[z].blk) = z)'
        BY <3>2, <4>2, <4>3, <4>4, <4>5 DEF Kept, Original
      <4>. QED BY <4>2, <4>3, <4>5, <4>6, <4>7 DEF Kept, Original
    <3>5. Holds(B)'
      BY <1>1, <1>2, <1>3, <2>1, <3>2, <3>3, <3>4, GrownHolds DEF Inv, Memory_z
    <3>6. Places'
      BY <2>3, <3>5, GoesOn DEF Replace
    <3>. QED BY <3>2, <3>6 DEF Inv
  <2>. QED BY <2>1, <2>2, <2>3 DEF AllocOrRaise
<1>. QED BY <1>2, <1>4, <1>5, <1>6 DEF Number

\* hebi_zrealloc and hebi_zrealloczero: the value is cut to the new length.
LEMMA DoReallocKeeps ==
    ASSUME Inv, NEW A, NEW s, NEW B, NEW C, Started(A, s, B, C), DoRealloc
    PROVE  Inv'
<1>. DEFINE z == s.z
            n == s.n
            u == IF s.keep THEN CutTo(s.n, Used(s.z)) ELSE 0
            L == [A EXCEPT !.bare = @ \ {z}, !.kept = @ \ {z}, !.idle = {},
                           !.room = [A.room EXCEPT ![z] = n]]
<1>1. s.op = "realloc" /\ s = Head(todo) /\ pc = "call" /\ Holds(A) /\ A \in Claim
  BY DEF DoRealloc, At, Started, Holds
<1>2. B \in Claim /\ z \in A.live /\ n \in Nat /\ MayRaise(A) /\ Below(B, L)
  <2>1. Leaves(A, s) = L
    BY <1>1 DEF Leaves
  <2>. HIDE DEF L
  <2>2. B \in Claim /\ Needs(A, s) /\ Below(B, L)
    BY <1>1, <2>1, StartedEdge
  <2>. QED BY <1>1, <2>2 DEF Needs
<1>3. /\ B.live \subseteq A.live /\ B.bare \subseteq A.bare \ {z} /\ B.stk = A.stk
      /\ B.kept \subseteq A.kept /\ z \notin B.kept /\ B.idle = {}
      /\ B.room[z] =< n /\ \A x \in Object \ {z} : B.room[x] =< A.room[x]
      /\ z \in Object /\ Live(z)
  BY <1>1, <1>2 DEF Below, Claim, Holds
<1>4. u \in Nat /\ u =< n
  <2>1. obj[z] \in Number
    BY <1>3 DEF Inv, Memory_z, InvTypes
  <2>. QED BY <1>2, <2>1 DEF Number, CutTo, Smaller, Used
<1>5. UNCHANGED <<alias, scratch, shadow, zstack, before>>
  BY DEF DoRealloc
<1>6. CASE Raise /\ UNCHANGED <<obj, own, hist>>
  BY <1>1, <1>2, <1>5, <1>6, RaiseKeeps
<1>7. ASSUME Replace(z, n, u, u), n = 0 \/ Unused(own) # {} PROVE Inv'
  <2>. HIDE DEF u
  <2>1. /\ Memory_z' /\ InvMisuse'
        /\ obj'[z].id \in AllocId /\ obj'[z].cap = n
        /\ \A x \in Object : x # z => obj'[x] = obj[x]
        /\ \A x \in Object : x # z => TagOf(obj[x].blk)' = TagOf(obj[x].blk)
    <3>. HIDE DEF z, n
    <3>. QED BY <1>1, <1>2, <1>3, <1>4, <1>5, <1>7, ReplaceKeeps
  <2>2. Live(z)' /\ n =< obj'[z].cap /\ obj'[z].cap \in Nat
    BY <1>2, <2>1, KeyFacts DEF Live
  <2>3. Holds(B)'
    BY <1>1, <1>2, <1>3, <1>5, <2>1, <2>2, GrownHolds DEF Inv, Memory_z
  <2>4. Places'
    BY <1>7, <2>3, GoesOn DEF Replace
  <2>. QED BY <2>1, <2>4 DEF Inv
<1>8. CASE n = 0
  <2>1. u = 0
    BY <1>4, <1>8
  <2>2. Replace(z, n, u, u)
    BY <1>1, <1>8, <2>1 DEF DoRealloc
  <2>. HIDE DEF u, z, n
  <2>. QED BY <1>7, <1>8, <2>2
<1>9. CASE n # 0
  <2>1. AllocOrRaise(obj[z].id, n, Replace(z, n, u, u))
    BY <1>1, <1>9 DEF DoRealloc
  <2>. HIDE DEF u, z, n
  <2>. QED BY <1>6, <1>7, <2>1 DEF AllocOrRaise, CanAlloc
<1>. QED BY <1>8, <1>9

\* The claim after z was destroyed.
LEMMA DestroyedHolds ==
    ASSUME InvTypes, NEW A, Holds(A), NEW B \in Claim, NEW z \in Object,
           obj'[z] = Dead, \A x \in Object : x # z => obj'[x] = obj[x],
           UNCHANGED <<before, tag>>,
           zstack' = B.stk, B.live \subseteq A.live \ {z}, B.bare \subseteq A.bare \cup {z},
           B.kept \subseteq A.kept, z \notin B.kept, B.idle \subseteq A.idle, B.room[z] =< 0,
           \A x \in Object \ {z} : B.room[x] =< A.room[x]
    PROVE  Holds(B)'
<1>. DEFINE Z == {z}
<1>1. obj'[z].blk = NoBlock /\ obj'[z].cap = 0 /\ obj'[z].id = "INVALID"
  BY DEF Dead
<1>2. /\ \A x \in Object : x \notin Z => obj'[x] = obj[x]
      /\ \A x \in Zvar : x \notin Z => TagOf(obj[x].blk)' = TagOf(obj[x].blk)
  BY BlockFacts DEF TagOf
<1>3. /\ \A x \in B.live : x \in A.live \/ Live(x)'
      /\ \A x \in B.bare : (x \in A.bare /\ x \notin Z) \/ obj'[x].blk = NoBlock
      /\ \A x \in B.kept : (x \in A.kept /\ x \notin Z) \/ Kept(x)'
      /\ \A x \in Z : x \in B.live => Live(x)'
  BY <1>1
<1>4. \A a \in B.idle : IdleAlias(a)'
  BY <1>1, <1>2 DEF IdleAlias, Holds
<1>5. /\ \A x \in Object : x \notin Z => B.room[x] =< A.room[x]
      /\ \A x \in Object : x \in Z => B.room[x] =< obj'[x].cap
  BY <1>1
<1>. HIDE DEF Z
<1>. QED BY <1>2, <1>3, <1>4, <1>5, FrameHolds

LEMMA DoDestroyKeeps ==
    ASSUME Inv, NEW A, NEW s, NEW B, NEW C, Started(A, s, B, C), DoDestroy
    PROVE  Inv'
<1>. DEFINE z == s.z
            L == [A EXCEPT !.live = @ \ {z}, !.bare = @ \cup {z}, !.kept = @ \ {z},
                           !.room = [A.room EXCEPT ![z] = 0]]
<1>1. s.op = "destroy" /\ s = Head(todo) /\ pc = "call" /\ pc' = "call" /\ Holds(A)
  BY DEF DoDestroy, At, Started, Continue
<1>2. A \in Claim /\ B \in Claim /\ z \in A.live /\ Below(B, L)
  <2>1. Leaves(A, s) = L
    BY <1>1 DEF Leaves
  <2>. HIDE DEF L
  <2>2. A \in Claim /\ B \in Claim /\ Needs(A, s) /\ Below(B, L)
    BY <1>1, <2>1, StartedEdge
  <2>. QED BY <1>1, <2>2 DEF Needs
<1>3. /\ B.live \subseteq A.live \ {z} /\ B.bare \subseteq A.bare \cup {z} /\ B.stk = A.stk
      /\ B.kept \subseteq A.kept /\ z \notin B.kept /\ B.idle \subseteq A.idle
      /\ B.room[z] =< 0 /\ \A x \in Object \ {z} : B.room[x] =< A.room[x]
      /\ z \in Object
  BY <1>2 DEF Below, Claim
<1>. HIDE DEF z
<1>4. /\ Destroyed(z) /\ Noted(WrongOwner(z), "free") /\ Continue
      /\ UNCHANGED <<alias, scratch, shadow, zstack, tag, before>>
      /\ level' \in Nat /\ zstack' \in Seq(Tmp) /\ pc \in Active /\ pc' \in Active
  BY <1>1 DEF DoDestroy, z, Continue, Inv, Memory_z, InvTypes, Active
<1>5. /\ Memory_z' /\ (~Rebinds => ~WrongOwner(z)) /\ obj'[z] = Dead
      /\ \A x \in Object : x # z => obj'[x] = obj[x]
  BY <1>3, <1>4, DestroyedKeeps DEF Inv
<1>6. zstack' = B.stk
  BY <1>1, <1>3, <1>4 DEF Holds
<1>7. Holds(B)'
  BY <1>1, <1>2, <1>3, <1>4, <1>5, <1>6, DestroyedHolds DEF Inv, Memory_z
<1>8. Places'
  BY <1>4, <1>7, GoesOn
<1>9. InvMisuse'
  BY <1>4, <1>5 DEF Inv, InvMisuse, Noted
<1>. QED BY <1>5, <1>8, <1>9 DEF Inv

\* The zinit functions: a new integer, with a copy of a value or none.
LEMMA DoConstructKeeps ==
    ASSUME Inv, NEW A, NEW s, NEW B, NEW C, Started(A, s, B, C), DoConstruct
    PROVE  Inv'
<1>. DEFINE z == s.z
            n == s.n
            k == Resolve(s.id)
            b == IF n = 0 THEN NoBlock ELSE Fresh(own)
            o == [blk |-> b, cap |-> n, used |-> s.used, nz |-> s.nz, id |-> Returned(s.id)]
            Success ==
                /\ own' = IF n = 0 THEN own ELSE Granted(own, k, b)
                /\ obj' = [obj EXCEPT ![z] = o]
                /\ Noted(\E a \in s.reads : s.used > obj[a].cap \/ ~Original(a), "read")
                /\ Continue
                /\ UNCHANGED tag
            L == [A EXCEPT !.live = @ \cup {z}, !.bare = @ \ {z}, !.kept = @ \ {z}, !.idle = {},
                           !.room = [A.room EXCEPT ![z] = n]]
<1>1. s.op = "construct" /\ s = Head(todo) /\ pc = "call" /\ Holds(A) /\ A \in Claim
  BY DEF DoConstruct, At, Started, Holds
<1>2. /\ B \in Claim /\ z \in A.bare /\ s.id \in AllocId /\ n \in Nat /\ s.nz \in BOOLEAN
      /\ s.used \in Nat /\ s.used =< n /\ (s.nz => s.used > 0)
      /\ s.reads \subseteq A.kept /\ (\A a \in s.reads : s.used =< A.room[a])
      /\ MayRaise(A) /\ Below(B, L)
  <2>1. Leaves(A, s) = L
    BY <1>1 DEF Leaves
  <2>. HIDE DEF L
  <2>2. B \in Claim /\ Needs(A, s) /\ Below(B, L)
    BY <1>1, <2>1, StartedEdge
  <2>. QED BY <1>1, <2>2 DEF Needs
<1>3. /\ B.live \subseteq A.live \cup {z} /\ B.bare \subseteq A.bare \ {z} /\ B.stk = A.stk
      /\ B.kept \subseteq A.kept /\ z \notin B.kept /\ B.idle = {}
      /\ B.room[z] =< n /\ \A x \in Object \ {z} : B.room[x] =< A.room[x]
      /\ z \in Object /\ obj[z].blk = NoBlock
  BY <1>1, <1>2 DEF Below, Claim, Holds
<1>4. UNCHANGED <<alias, scratch, shadow, zstack, before>>
  BY DEF DoConstruct
<1>5. CASE Raise /\ UNCHANGED <<obj, own, hist>>
  BY <1>1, <1>2, <1>4, <1>5, RaiseKeeps
<1>6. ASSUME Success, n = 0 \/ Unused(own) # {} PROVE Inv'
  <2>1. /\ own' = (IF n = 0 THEN own ELSE Granted(own, k, b)) /\ obj' = [obj EXCEPT ![z] = o]
        /\ Noted(\E a \in s.reads : s.used > obj[a].cap \/ ~Original(a), "read")
        /\ Continue /\ tag' = tag
    BY <1>6
  <2>2. /\ obj \in [Object -> Number] /\ own \in [Heap -> Key \cup {"none"}] /\ InvTypes
        /\ tag \in [Block -> Zvar \cup {"junk", "new"}]
    BY DEF Inv, Memory_z, InvTypes
  <2>3. k \in Key /\ Returned(s.id) \in AllocId /\ Resolve(Returned(s.id)) = k
    BY <1>2, <2>2, ResolveFacts
  <2>4. /\ n # 0 => b \in Heap /\ own[b] = "none"
        /\ b = NoBlock <=> n = 0
    BY <1>6, FreshUnused, BlockFacts
  <2>. HIDE DEF b, k, Success
  <2>5. /\ o \in Number /\ o.blk = b /\ o.cap = n /\ o.used = s.used /\ o.nz = s.nz
        /\ o.id = Returned(s.id)
    BY <1>2, <2>3, <2>4 DEF Number, Block
  <2>. HIDE DEF o
  <2>6. misuse' = misuse
    <3>1. \A a \in s.reads : Original(a) /\ ~(s.used > obj[a].cap)
      <4>1. SUFFICES ASSUME NEW a \in s.reads PROVE Original(a) /\ s.used =< obj[a].cap
        BY <1>1, <1>2, <2>2, BlockFacts DEF Claim, Number
      <4>2. a \in A.kept /\ a \in Object /\ Kept(a) /\ A.room[a] =< obj[a].cap
        BY <1>1, <1>2, <4>1, BlockFacts DEF Claim, Holds
      <4>. QED BY <1>1, <1>2, <2>2, <4>2 DEF Kept, Claim, Number
    <3>. QED BY <2>1, <3>1 DEF Noted
  <2>7. Memory_z'
    <3>. DEFINE f == IF n = 0 THEN own ELSE Granted(own, k, b)
    <3>1. f = (IF o.blk = NoBlock THEN own ELSE Granted(own, k, o.blk))
      BY <2>4, <2>5
    <3>2. own' = Freed(f, k, obj[z].blk)
      BY <1>3, <2>1, BlockFacts DEF Freed
    <3>. HIDE DEF f
    <3>3. /\ o.blk = NoBlock \/ (o.blk \in Heap /\ own[o.blk] = "none" /\ Resolve(o.id) = k)
          /\ obj[z].blk = NoBlock \/ k = Resolve(obj[z].id)
          /\ (o.id = "INVALID" => o.blk = NoBlock) /\ (o.blk = NoBlock => o.cap = 0)
          /\ o.used =< o.cap /\ (o.nz => o.used > 0)
      BY <1>2, <1>3, <2>3, <2>4, <2>5, KeyFacts
    <3>4. /\ pc \in Active /\ pc' \in Active /\ zstack' \in Seq(Tmp) /\ level' \in Nat
          /\ tag' \in [Block -> Zvar \cup {"junk", "new"}]
      BY <1>1, <1>4, <2>1, <2>2 DEF Continue, Active, InvTypes
    <3>5. o \in Number /\ k \in Key /\ z \in Object /\ obj' = [obj EXCEPT ![z] = o] /\ Memory_z
      BY <1>3, <2>1, <2>3, <2>5 DEF Inv
    <3>. HIDE DEF z
    <3>. QED BY <1>4, <3>1, <3>2, <3>3, <3>4, <3>5, Exchanged
  <2>8. obj'[z] = o /\ \A x \in Object : x # z => obj'[x] = obj[x]
    BY <1>3, <2>1, <2>2
  <2>9. Live(z)' /\ n =< obj'[z].cap /\ obj'[z].cap \in Nat
    BY <1>2, <2>3, <2>5, <2>8, KeyFacts DEF Live
  <2>10. \A x \in Object : x # z => TagOf(obj[x].blk)' = TagOf(obj[x].blk)
    BY <2>1, <2>8 DEF TagOf
  <2>11. Holds(B)'
    BY <1>1, <1>2, <1>3, <1>4, <2>2, <2>8, <2>9, <2>10, GrownHolds
  <2>12. Places'
    BY <2>1, <2>11, GoesOn
  <2>. QED BY <2>6, <2>7, <2>12 DEF Inv, InvMisuse
<1>7. IF n = 0 THEN Success ELSE AllocOrRaise(s.id, n, Success)
  BY <1>1 DEF DoConstruct
<1>. HIDE DEF Success, n
<1>. QED BY <1>5, <1>6, <1>7 DEF AllocOrRaise, CanAlloc

-----------------------------------------------------------------------------
(* The stack of temporaries *)

LEMMA DoPushKeeps ==
    ASSUME Inv, NEW A, NEW s, NEW B, NEW C, Started(A, s, B, C), DoPush
    PROVE  Inv'
<1>. DEFINE t == s.z
            L == [A EXCEPT !.live = @ \cup {t}, !.stk = Append(@, t),
                           !.room = [A.room EXCEPT ![t] = 0]]
<1>1. s.op = "push" /\ s = Head(todo) /\ pc = "call" /\ Holds(A)
  BY DEF DoPush, At, Started
<1>2. /\ A \in Claim /\ B \in Claim /\ t \in A.bare /\ t \in Tmp /\ s.id \in AllocId
      /\ MayRaise(A) /\ Below(B, L)
  <2>1. Leaves(A, s) = L
    BY <1>1 DEF Leaves
  <2>. HIDE DEF L
  <2>2. A \in Claim /\ B \in Claim /\ Needs(A, s) /\ Below(B, L)
    BY <1>1, <2>1, StartedEdge
  <2>. QED BY <1>1, <2>2 DEF Needs
<1>3. /\ B.live \subseteq A.live \cup {t} /\ B.bare \subseteq A.bare /\ B.stk = Append(A.stk, t)
      /\ B.kept \subseteq A.kept /\ B.idle \subseteq A.idle /\ B.room[t] =< 0
      /\ \A x \in Object \ {t} : B.room[x] =< A.room[x]
      /\ t \in Object /\ obj[t].blk = NoBlock
  BY <1>1, <1>2, BlockFacts DEF Below, Claim, Holds
<1>4. UNCHANGED <<alias, scratch, shadow, own, before, hist>>
  BY DEF DoPush
<1>5. CASE Len(zstack) >= StackMax
  BY <1>1, <1>2, <1>4, <1>5, RaiseKeeps DEF DoPush
<1>6. CASE ~(Len(zstack) >= StackMax)
  <2>1. /\ zstack' = Append(zstack, t) /\ Continue
        /\ obj' = [obj EXCEPT ![t] = Empty(IF s.id = "INVALID" THEN "DEFAULT" ELSE s.id)]
    BY <1>1, <1>6 DEF DoPush
  <2>2. obj' = [obj EXCEPT ![t] = Empty(s.id)]
    BY <1>2, <2>1, KeyFacts
  <2>3. zstack' \in Seq(Tmp) /\ level' \in Nat /\ pc' = "call" /\ zstack' = B.stk
    BY <1>1, <1>2, <1>3, <2>1 DEF Inv, Memory_z, InvTypes, Continue, Holds
  <2>4. Memory_z'
    BY <1>1, <1>2, <1>3, <1>4, <2>2, <2>3, MadeKeeps DEF hist
  <2>5. Holds(B)'
    BY <1>1, <1>2, <1>3, <1>4, <2>2, <2>3, MadeHolds DEF Inv, Memory_z, hist
  <2>6. Places'
    BY <2>1, <2>5, GoesOn
  <2>. QED BY <1>4, <2>4, <2>6 DEF Inv, InvMisuse, hist
<1>. QED BY <1>5, <1>6

\* What is popped is the temporary that was pushed last.
LEMMA DoPopKeeps ==
    ASSUME Inv, NEW A, NEW s, NEW B, NEW C, Started(A, s, B, C), DoPop
    PROVE  Inv'
<1>. DEFINE z == s.z
            L == [A EXCEPT !.live = @ \ {z}, !.bare = @ \cup {z},
                           !.stk = SubSeq(@, 1, Len(@) - 1), !.room = [A.room EXCEPT ![z] = 0]]
<1>1. s.op = "pop" /\ s = Head(todo) /\ pc = "call" /\ Holds(A)
  BY DEF DoPop, At, Started
<1>2. /\ A \in Claim /\ B \in Claim /\ z \in A.live /\ z \in Tmp /\ Below(B, L)
      /\ A.stk # <<>> /\ A.stk[Len(A.stk)] = z
  <2>1. Leaves(A, s) = L
    BY <1>1 DEF Leaves
  <2>. HIDE DEF L
  <2>2. A \in Claim /\ B \in Claim /\ Needs(A, s) /\ Below(B, L)
    BY <1>1, <2>1, StartedEdge
  <2>. QED BY <1>1, <2>2 DEF Needs
<1>3. /\ B.live \subseteq A.live \ {z} /\ B.bare \subseteq A.bare \cup {z}
      /\ B.stk = SubSeq(A.stk, 1, Len(A.stk) - 1)
      /\ B.kept \subseteq A.kept /\ z \notin B.kept /\ B.idle \subseteq A.idle
      /\ B.room[z] =< 0 /\ \A x \in Object \ {z} : B.room[x] =< A.room[x]
      /\ z \in Object
  BY <1>2, BlockFacts DEF Below, Claim
<1>4. zstack = A.stk
  BY <1>1 DEF Holds
<1>. HIDE DEF z
<1>5. /\ Destroyed(z) /\ Continue /\ zstack' = SubSeq(zstack, 1, Len(zstack) - 1)
      /\ misuse' = misuse \cup (IF WrongOwner(z) THEN {"free"} ELSE {})
                          \cup (IF zstack = <<>> \/ zstack[Len(zstack)] # z THEN {"pop"} ELSE {})
      /\ UNCHANGED <<alias, scratch, shadow, tag, before>>
  BY <1>1 DEF DoPop, z
<1>6. level' \in Nat /\ zstack' = B.stk /\ zstack' \in Seq(Tmp) /\ pc \in Active /\ pc' \in Active
  BY <1>1, <1>2, <1>3, <1>4, <1>5 DEF Continue, Inv, Memory_z, InvTypes, Active, Claim
<1>7. /\ Memory_z' /\ (~Rebinds => ~WrongOwner(z)) /\ obj'[z] = Dead
      /\ \A x \in Object : x # z => obj'[x] = obj[x]
  BY <1>3, <1>5, <1>6, DestroyedKeeps DEF Inv
<1>8. Holds(B)'
  BY <1>1, <1>2, <1>3, <1>5, <1>6, <1>7, DestroyedHolds DEF Inv, Memory_z
<1>9. Places'
  BY <1>5, <1>8, GoesOn
<1>10. misuse' = misuse \cup (IF WrongOwner(z) THEN {"free"} ELSE {})
  BY <1>2, <1>4, <1>5
<1>11. InvMisuse'
  BY <1>7, <1>10 DEF Inv, InvMisuse
<1>. QED BY <1>7, <1>9, <1>11 DEF Inv

-----------------------------------------------------------------------------
(* The scratch buffer *)

\* The scratch buffer goes back to the allocator that handed it out.
LEMMA WithoutScratch ==
    ASSUME Memory_z
    PROVE  /\ OwnWithoutScratch \in [Heap -> Key \cup {"none"}]
           /\ \A b \in Heap : b # scratch.blk => OwnWithoutScratch[b] = own[b]
           /\ \A b \in Heap : OwnWithoutScratch[b] \in {own[b], "none"}
           /\ pc \in Active => /\ ~BadScratchFree
                               /\ scratch.blk \in Heap => OwnWithoutScratch[scratch.blk] = "none"
<1>. DEFINE S == Key \cup {"none"}
            k == scratch.fp
            c == scratch.blk
<1>1. own \in [Heap -> S] /\ "none" \in S /\ c \in Heap \cup {NoBlock}
  BY DEF Memory_z, InvTypes, Buffer
<1>2. pc \in Active /\ c # NoBlock => c \in Heap /\ own[c] = k
  BY <1>1 DEF Memory_z, InvScratch, Active, Over
<1>3. /\ Freed(own, k, c) \in [Heap -> S]
      /\ \A b \in Heap : b # c => Freed(own, k, c)[b] = own[b]
      /\ c \in Heap /\ own[c] = k => Freed(own, k, c)[c] = "none"
  <2>. HIDE DEF S, k, c
  <2>. QED BY <1>1, FreedFacts
<1>4. \A b \in Heap : Freed(own, k, c)[b] \in {own[b], "none"}
  BY <1>1 DEF Freed
<1>5. pc \in Active => ~IsBadFree(own, k, c)
  BY <1>2 DEF IsBadFree
<1>. QED BY <1>2, <1>3, <1>4, <1>5, BlockFacts DEF OwnWithoutScratch, BadScratchFree

\* hebi_realloc_scratch__(ctx, 0) leaves no trace of the buffer.
LEMMA FreeScratchKeeps ==
    ASSUME Memory_z, FreeScratch, pc \in Active \cup Over, pc' \in Active \cup Over,
           pc' \in Active => pc \in Active,
           UNCHANGED <<obj, alias, zstack, tag, before>>, level' \in Nat
    PROVE  Memory_z' /\ (pc \in Active => misuse' = misuse)
<1>. USE DEF Memory_z
<1>1. /\ own' = OwnWithoutScratch /\ scratch' = NoScratch /\ shadow' = ShadowForgets
      /\ Noted(BadScratchFree, "free")
  BY DEF FreeScratch
<1>2. /\ NoScratch \in Buffer /\ NoScratch.blk = NoBlock /\ NoScratch.fp = "none"
  BY DEF NoScratch, Buffer
<1>3. \A x \in Object : obj[x].blk \in Heap => /\ own[obj[x].blk] # "none"
                                               /\ own'[obj[x].blk] = own[obj[x].blk]
  BY <1>1, WithoutScratch, BlockFacts DEF InvOwners, InvHolders
<1>4. /\ shadow' \in [made : BOOLEAN, mem : Buffer]
      /\ ~shadow'.made => shadow'.mem = NoScratch
      /\ pc \in Active => shadow'.mem = NoScratch
  <2>1. /\ shadow \in [made : BOOLEAN, mem : Buffer]
        /\ ~shadow.made => shadow.mem = NoScratch
        /\ pc \in Active => shadow.mem = scratch
        /\ scratch.blk = NoBlock => scratch = NoScratch
    BY DEF InvTypes, InvShadow, ShadowMirrors, InvScratch, Active
  <2>2. CASE scratch.blk # NoBlock /\ shadow.made
    BY <1>1, <1>2, <2>1, <2>2 DEF ShadowForgets
  <2>3. CASE ~(scratch.blk # NoBlock /\ shadow.made)
    BY <1>1, <1>2, <2>1, <2>3 DEF ShadowForgets
  <2>. QED BY <2>2, <2>3
<1>5. InvTypes'
  BY <1>1, <1>2, <1>4, WithoutScratch DEF InvTypes, Active, Over, Place
<1>6. InvShape'
  BY DEF InvShape
<1>7. InvHolders'
  BY <1>1, <1>2 DEF InvHolders
<1>8. InvOwners'
  BY <1>3 DEF InvOwners, Resolve
<1>9. InvScratch'
  BY <1>1, <1>2 DEF InvScratch
<1>10. InvShadow'
  BY <1>1, <1>4 DEF InvShadow, ShadowMirrors, Active
<1>11. InvHeld'
  <2>. SUFFICES ASSUME ~Rebinds, NEW b \in Heap, own'[b] # "none"
                PROVE  \E z \in Object : obj[z].blk = b
    BY DEF InvHeld
  <2>1. own[b] # "none"
    BY <1>1, WithoutScratch
  <2>2. (\E z \in Object : obj[z].blk = b) \/ (pc \notin Over /\ scratch.blk = b)
    BY <2>1 DEF InvHeld
  <2>3. pc \notin Over => b # scratch.blk
    BY <1>1, WithoutScratch DEF Active, Over
  <2>. QED BY <2>2, <2>3
<1>12. pc \in Active => misuse' = misuse
  BY <1>1, WithoutScratch DEF Noted
<1>. QED BY <1>5, <1>6, <1>7, <1>8, <1>9, <1>10, <1>11, <1>12

\* The claim after a step that leaves the integers alone.
LEMMA SameHolds ==
    ASSUME InvTypes, NEW A, Holds(A), NEW B \in Claim, UNCHANGED <<obj, zstack, tag, before>>,
           B.live \subseteq A.live, B.bare \subseteq A.bare, B.stk = A.stk,
           B.kept \subseteq A.kept, B.idle \subseteq A.idle,
           \A z \in Object : B.room[z] =< A.room[z]
    PROVE  Holds(B)'
<1>1. A \in Claim
  BY DEF Holds
<1>2. \A x \in B.live : Live(x)'
  BY DEF Holds, Live
<1>3. \A x \in B.kept : Kept(x)'
  BY DEF Holds, Kept, Live, Original, TagOf
<1>4. \A a \in B.idle : IdleAlias(a)'
  BY DEF Holds, IdleAlias
<1>5. \A x \in Object : B.room[x] =< obj'[x].cap
  BY <1>1 DEF Holds, InvTypes, Number, Claim
<1>. QED BY <1>2, <1>3, <1>4, <1>5 DEF Holds

\* A step that needs a length, and leaves the claim as it is.
LEMMA ScratchStarted ==
    ASSUME Inv, NEW A, NEW s, NEW B, NEW C, Started(A, s, B, C), At("scratch")
    PROVE  /\ s.op = "scratch" /\ s = Head(todo) /\ pc = "call" /\ Holds(A) /\ MayRaise(A)
           /\ s.n \in Nat
           /\ UNCHANGED <<obj, zstack, tag, before>> => Holds(B)'
<1>1. s.op = "scratch" /\ s = Head(todo) /\ pc = "call" /\ Holds(A)
  BY DEF At, Started
<1>2. Leaves(A, s) = A
  BY <1>1 DEF Leaves
<1>3. A \in Claim /\ B \in Claim /\ Needs(A, s) /\ Below(B, A)
  BY <1>1, <1>2, StartedEdge
<1>4. s.n \in Nat /\ MayRaise(A)
  BY <1>1, <1>3 DEF Needs
<1>5. ASSUME UNCHANGED <<obj, zstack, tag, before>> PROVE Holds(B)'
  BY <1>1, <1>3, <1>5, SameHolds DEF Below, Inv, Memory_z
<1>. QED BY <1>1, <1>4, <1>5

LEMMA ScratchKeptKeeps ==
    ASSUME Inv, NEW A, NEW s, NEW B, NEW C, Started(A, s, B, C), ScratchKept
    PROVE  Inv'
<1>1. /\ pc = "call" /\ Continue
      /\ UNCHANGED <<obj, alias, scratch, shadow, zstack, own, before, hist>>
  BY DEF ScratchKept, At
<1>2. Holds(B)'
  BY <1>1, ScratchStarted DEF ScratchKept, hist
<1>3. Places'
  BY <1>1, <1>2, GoesOn
<1>4. Memory_z'
  BY <1>1, SameMemory DEF Inv, Memory_z, InvTypes, Active, Continue, hist
<1>. QED BY <1>1, <1>3, <1>4 DEF Inv, InvMisuse, hist

LEMMA ScratchTooLongKeeps ==
    ASSUME Inv, NEW A, NEW s, NEW B, NEW C, Started(A, s, B, C), ScratchTooLong
    PROVE  Inv'
<1>1. pc = "call" /\ Holds(A) /\ MayRaise(A)
  BY ScratchStarted DEF ScratchTooLong
<1>. QED BY <1>1, RaiseKeeps DEF ScratchTooLong

\* No memory: the thread goes without a scratch buffer, and raises.
LEMMA ScratchFailsKeeps ==
    ASSUME Inv, NEW A, NEW s, NEW B, NEW C, Started(A, s, B, C), ScratchFails
    PROVE  Inv'
<1>1. pc = "call" /\ Holds(A) /\ MayRaise(A)
  BY ScratchStarted DEF ScratchFails
<1>2. Raise /\ FreeScratch /\ UNCHANGED <<obj, alias, zstack, tag, before>>
  BY DEF ScratchFails
<1>3. Places' /\ pc' = "raise" /\ level' \in Nat
  BY <1>1, <1>2, GoesWrong DEF Inv, Memory_z
<1>4. Memory_z' /\ misuse' = misuse
  BY <1>1, <1>2, <1>3, FreeScratchKeeps DEF Inv, Active
<1>. QED BY <1>3, <1>4 DEF Inv, InvMisuse

\* A larger buffer: it is entered in the context and in the shadow, or the
\* thread ends here.
LEMMA ScratchGrownKeeps ==
    ASSUME Inv, NEW A, NEW s, NEW B, NEW C, Started(A, s, B, C), ScratchGrown
    PROVE  Inv'
<1>. DEFINE n == s.n
            k == Resolve("SCRATCH")
            b == Fresh(OwnWithoutScratch)
            m == [fp |-> k, blk |-> b, size |-> n]
<1>1. s = Head(todo) /\ pc = "call" /\ n \in Nat
  BY ScratchStarted DEF ScratchGrown
<1>2. /\ CanAlloc(OwnWithoutScratch, k, n)
      /\ own' = Granted(OwnWithoutScratch, k, b)
      /\ scratch' = m
      /\ Noted(BadScratchFree, "free")
      /\ \/ shadow' = [made |-> TRUE, mem |-> m] /\ Continue
         \/ ~shadow.made /\ Stop("abort") /\ UNCHANGED shadow
      /\ UNCHANGED <<obj, alias, zstack, tag, before>>
  BY <1>1 DEF ScratchGrown
<1>3. Memory_z /\ InvTypes /\ pc \in Active
  BY <1>1 DEF Inv, Memory_z, Active
<1>4. k \in Key
  BY <1>3, ResolveFacts, KeyFacts DEF Alias
<1>5. b \in Heap /\ OwnWithoutScratch[b] = "none"
  BY <1>2, FreshUnused DEF CanAlloc
<1>. HIDE DEF k, b
<1>6. /\ own' \in [Heap -> Key \cup {"none"}] /\ own'[b] = k
      /\ \A d \in Heap : d # b => own'[d] = OwnWithoutScratch[d]
  BY <1>2, <1>3, <1>4, <1>5, WithoutScratch DEF Granted
<1>7. m \in Buffer /\ m.blk = b /\ m.fp = k /\ m.blk # NoBlock
  BY <1>1, <1>4, <1>5, BlockFacts DEF Buffer
<1>. HIDE DEF m
<1>8. misuse' = misuse
  BY <1>2, <1>3, WithoutScratch DEF Noted
<1>9. pc' \in {"call", "abort"} /\ level' = level
  BY <1>1, <1>2 DEF Continue, Stop
<1>10. \A x \in Object : obj[x].blk # NoBlock =>
           /\ obj[x].blk # b
           /\ obj[x].blk \in Heap => own'[obj[x].blk] = own[obj[x].blk]
  <2>. SUFFICES ASSUME NEW x \in Object, obj[x].blk \in Heap
                PROVE  obj[x].blk # b /\ own'[obj[x].blk] = own[obj[x].blk]
    BY <1>5
  <2>1. obj[x].blk # scratch.blk /\ own[obj[x].blk] # "none"
    BY <1>3, BlockFacts DEF Memory_z, InvOwners, InvHolders
  <2>2. OwnWithoutScratch[obj[x].blk] = own[obj[x].blk]
    BY <1>3, <2>1, WithoutScratch
  <2>. QED BY <1>5, <1>6, <2>1, <2>2
<1>11. Memory_z'
  <2>1. InvTypes'
    <3>1. shadow' \in [made : BOOLEAN, mem : Buffer]
      <4>1. shadow' = [made |-> TRUE, mem |-> m] \/ shadow' = shadow
        BY <1>2
      <4>2. shadow \in [made : BOOLEAN, mem : Buffer]
        BY <1>3 DEF InvTypes
      <4>3. m \in Buffer
        BY <1>7
      <4>4. [made |-> TRUE, mem |-> m] \in [made : BOOLEAN, mem : Buffer]
        BY <4>3, Zenon
      <4>. QED BY <4>1, <4>2, <4>4, Zenon
    <3>2. /\ obj' \in [Object -> Number] /\ alias' \in [Alias -> {"STDLIB"} \cup Custom]
          /\ tag' \in [Block -> Zvar \cup {"junk", "new"}] /\ zstack' \in Seq(Tmp)
          /\ before' \in [Zvar -> [live : BOOLEAN, used : Nat, nz : BOOLEAN]]
      BY <1>2, <1>3 DEF InvTypes
    <3>3. level' \in Nat /\ pc' \in Place /\ scratch' \in Buffer
      BY <1>2, <1>3, <1>7, <1>9 DEF InvTypes, Place
    <3>. QED BY <1>6, <3>1, <3>2, <3>3 DEF InvTypes
  <2>2. InvShape'
    BY <1>2, <1>3 DEF Memory_z, InvShape
  <2>3. InvOwners'
    BY <1>2, <1>3, <1>10, BlockFacts DEF Memory_z, InvOwners, Resolve
  <2>4. InvHolders'
    BY <1>2, <1>3, <1>7, <1>10 DEF Memory_z, InvHolders
  <2>5. InvScratch'
    BY <1>2, <1>4, <1>6, <1>7 DEF InvScratch
  <2>6. InvShadow'
    BY <1>2, <1>3, <1>9 DEF Memory_z, InvShadow, ShadowMirrors, Continue, Stop
  <2>7. InvHeld'
    <3>. SUFFICES ASSUME ~Rebinds, NEW d \in Heap, own'[d] # "none"
                  PROVE  (\E z \in Object : obj[z].blk = d) \/ b = d
      BY <1>2, <1>7, <1>9 DEF InvHeld, Over
    <3>1. d # b => OwnWithoutScratch[d] # "none"
      BY <1>6
    <3>2. d # b => own[d] # "none" /\ d # scratch.blk
      BY <1>3, <3>1, WithoutScratch
    <3>. QED BY <1>3, <3>2 DEF Memory_z, InvHeld
  <2>. QED BY <2>1, <2>2, <2>3, <2>4, <2>5, <2>6, <2>7 DEF Memory_z
<1>12. Places'
  <2>1. CASE Continue
    <3>1. Holds(B)'
      BY <1>2, ScratchStarted DEF ScratchGrown
    <3>. QED BY <2>1, <3>1, GoesOn
  <2>2. CASE Stop("abort")
    BY <2>2 DEF Stop, Places, InvCall, InvRaise, InvRaised, InvFailed, InvClient, InvOver, Over
  <2>. QED BY <1>2, <2>1, <2>2
<1>. QED BY <1>8, <1>11, <1>12 DEF Inv, InvMisuse

LEMMA DoUnscratchKeeps ==
    ASSUME Inv, NEW A, NEW s, NEW B, NEW C, Started(A, s, B, C), DoUnscratch
    PROVE  Inv'
<1>1. s.op = "unscratch" /\ pc = "call" /\ Holds(A) /\ A \in Claim
  BY DEF DoUnscratch, At, Started, Holds
<1>2. Leaves(A, s) = A
  BY <1>1 DEF Leaves
<1>3. B \in Claim /\ Below(B, A)
  BY <1>1, <1>2, StartedEdge
<1>4. FreeScratch /\ Continue /\ UNCHANGED <<obj, alias, zstack, tag, before>>
  BY DEF DoUnscratch
<1>5. Memory_z' /\ misuse' = misuse
  BY <1>1, <1>4, FreeScratchKeeps DEF Inv, Memory_z, InvTypes, Continue, Active
<1>6. Holds(B)'
  BY <1>1, <1>3, <1>4, SameHolds DEF Below, Inv, Memory_z
<1>7. Places'
  BY <1>4, <1>6, GoesOn
<1>. QED BY <1>5, <1>7 DEF Inv, InvMisuse

-----------------------------------------------------------------------------
(* Aliases *)

\* An alias stands for another allocator, which no integer with a buffer sees.
LEMMA DoSetAliasKeeps ==
    ASSUME Inv, NEW A, NEW s, NEW B, NEW C, Started(A, s, B, C), DoSetAlias
    PROVE  Inv'
<1>. DEFINE L == [A EXCEPT !.idle = {}]
<1>1. s.op = "alias" /\ s = Head(todo) /\ pc = "call" /\ Holds(A) /\ A \in Claim
  BY DEF DoSetAlias, At, Started, Holds
<1>2. /\ B \in Claim /\ s.a \in Alias /\ s.id \in AllocId \cup {"INVALID"}
      /\ (~Rebinds => s.a \in A.idle) /\ MayRaise(A) /\ Below(B, L)
  <2>1. Leaves(A, s) = L
    BY <1>1 DEF Leaves
  <2>. HIDE DEF L
  <2>2. B \in Claim /\ Needs(A, s) /\ Below(B, L)
    BY <1>1, <2>1, StartedEdge
  <2>. QED BY <1>1, <2>2 DEF Needs
<1>3. UNCHANGED <<obj, scratch, shadow, zstack, own, before, hist>>
  BY DEF DoSetAlias
<1>4. CASE Raise /\ UNCHANGED alias
  BY <1>1, <1>2, <1>3, <1>4, RaiseKeeps
<1>5. CASE ~AliasRefused(s.id) /\ alias' = [alias EXCEPT ![s.a] = Resolve(s.id)] /\ Continue
  <2>. DEFINE k == Resolve(s.id)
  <2>1. InvTypes /\ Memory_z
    BY DEF Inv, Memory_z
  <2>2. k \in {"STDLIB"} \cup Custom
    BY <1>2, <1>5, <2>1, ResolveFacts DEF AliasRefused, Key
  <2>. HIDE DEF k
  <2>3. /\ alias' \in [Alias -> {"STDLIB"} \cup Custom]
        /\ \A i : i # s.a => Resolve(i)' = Resolve(i)
    BY <1>2, <1>5, <2>1, <2>2 DEF InvTypes, Resolve, k
  <2>4. InvTypes'
    BY <1>1, <1>3, <1>5, <2>1, <2>3 DEF InvTypes, Continue, hist
  <2>5. InvOwners'
    <3>. SUFFICES ASSUME NEW z \in Object
                  PROVE  (/\ obj[z].blk \in Heap => /\ own[obj[z].blk] # "none"
                                                    /\ ~Rebinds => own[obj[z].blk] = Resolve(obj[z].id)
                          /\ obj[z].blk \in Zvar => obj[z].id = "FIXED")'
      BY DEF InvOwners
    <3>1. ~Rebinds /\ obj[z].blk \in Heap => obj[z].id # s.a
      BY <1>1, <1>2, BlockFacts DEF Holds, IdleAlias
    <3>2. ~Rebinds /\ obj[z].blk \in Heap => Resolve(obj[z].id)' = Resolve(obj[z].id)
      BY <1>3, <2>3, <3>1 DEF Resolve
    <3>. QED BY <1>3, <2>1, <3>2 DEF Memory_z, InvOwners
  <2>6. InvShape' /\ InvHolders' /\ InvScratch' /\ InvShadow' /\ InvHeld'
    BY <1>1, <1>3, <1>5, <2>1
       DEF Memory_z, InvShape, InvHolders, InvScratch, InvShadow, ShadowMirrors, InvHeld, Continue, Over
  <2>7. Holds(B)'
    <3>1. /\ B.live \subseteq A.live /\ B.bare \subseteq A.bare /\ B.stk = A.stk
          /\ B.kept \subseteq A.kept /\ B.idle \subseteq A.idle
          /\ \A z \in Object : B.room[z] =< A.room[z]
      BY <1>1, <1>2 DEF Below, Claim
    <3>. QED BY <1>1, <1>2, <1>3, <2>1, <3>1, SameHolds DEF hist
  <2>8. Places'
    BY <1>5, <2>7, GoesOn
  <2>. QED BY <1>3, <2>4, <2>5, <2>6, <2>8 DEF Inv, Memory_z, InvMisuse, hist
<1>. QED BY <1>1, <1>4, <1>5 DEF DoSetAlias

-----------------------------------------------------------------------------
(* hebi_error_raise *)

LEMMA RaiseFreesScratchKeeps == ASSUME Inv, RaiseFreesScratch PROVE Inv'
<1>1. /\ pc = "raise" /\ pc' = "unwind" /\ FreeScratch
      /\ UNCHANGED <<obj, alias, zstack, level, todo, tag, before>>
  BY DEF RaiseFreesScratch
<1>2. Memory_z' /\ misuse' = misuse
  BY <1>1, FreeScratchKeeps DEF Inv, Memory_z, InvTypes, Active
<1>3. AllKept /\ level =< Len(zstack) /\ OnStack(level)
  BY <1>1 DEF Inv, Places, InvRaise
<1>4. AllKept' /\ OnStack(level)'
  BY <1>1, <1>3 DEF AllKept, Kept, Live, Original, TagOf, OnStack
<1>5. Places'
  BY <1>1, <1>3, <1>4
     DEF Places, InvCall, InvRaise, InvRaised, InvFailed, InvClient, InvOver, Over
<1>. QED BY <1>2, <1>5 DEF Inv, InvMisuse

\* The temporary on top is destroyed; those below it are still on the stack.
LEMMA UnwindKeeps == ASSUME Inv, Unwind PROVE Inv'
<1>. DEFINE z == zstack[level]
<1>1. /\ pc = "unwind" /\ pc' = "unwind" /\ level > 0 /\ level' = level - 1
      /\ Destroyed(z) /\ Noted(WrongOwner(z), "free")
      /\ UNCHANGED <<alias, scratch, shadow, zstack, tag, before>>
  BY DEF Unwind
<1>2. AllKept /\ level =< Len(zstack) /\ OnStack(level) /\ level \in Nat /\ zstack \in Seq(Tmp)
  BY <1>1 DEF Inv, Places, InvRaise, Memory_z, InvTypes
<1>3. z \in Tmp /\ z \in Object /\ level' \in Nat
  <2>1. Len(zstack) \in Nat /\ level \in 1 .. Len(zstack)
    BY <1>1, <1>2
  <2>. QED BY <1>1, <1>2, <2>1, BlockFacts
<1>4. /\ Memory_z' /\ (~Rebinds => ~WrongOwner(z)) /\ obj'[z] = Dead
      /\ \A x \in Object : x # z => obj'[x] = obj[x]
  <2>. HIDE DEF z
  <2>1. zstack' \in Seq(Tmp) /\ pc \in Active /\ pc' \in Active /\ Memory_z
    BY <1>1, <1>2 DEF Active, Inv
  <2>. QED BY <1>1, <1>3, <2>1, DestroyedKeeps
<1>5. AllKept'
  <2>. SUFFICES ASSUME NEW x \in Zvar PROVE Kept(x)'
    BY DEF AllKept
  <2>1. Kept(x) /\ obj'[x] = obj[x]
    BY <1>2, <1>3, <1>4, BlockFacts DEF AllKept
  <2>2. TagOf(obj[x].blk)' = TagOf(obj[x].blk)
    BY <1>1, <2>1 DEF TagOf
  <2>. QED BY <1>1, <2>1, <2>2, KeptStays
<1>6. OnStack(level)'
  <2>. SUFFICES ASSUME NEW t \in Tmp, obj'[t].blk # NoBlock
                PROVE  \E i \in 1 .. level - 1 : zstack[i] = t
    BY <1>1 DEF OnStack
  <2>1. t # z /\ obj[t].blk # NoBlock
    BY <1>4, BlockFacts DEF Dead
  <2>2. PICK i \in 1 .. level : zstack[i] = t
    BY <1>2, <2>1 DEF OnStack
  <2>3. i # level
    BY <2>1, <2>2
  <2>. QED BY <1>2, <2>2, <2>3
<1>7. level' =< Len(zstack)'
  BY <1>1, <1>2
<1>8. Places'
  BY <1>1, <1>5, <1>6, <1>7
     DEF Places, InvCall, InvRaise, InvRaised, InvFailed, InvClient, InvOver, Over
<1>9. InvMisuse'
  BY <1>1, <1>4 DEF Inv, InvMisuse, Noted
<1>. QED BY <1>4, <1>8, <1>9 DEF Inv

LEMMA UnwoundKeeps == ASSUME Inv, Unwound PROVE Inv'
<1>1. /\ pc = "unwind" /\ level = 0 /\ zstack' = <<>> /\ pc' \in {"failed", "abort"}
      /\ UNCHANGED <<obj, alias, scratch, shadow, level, todo, own, before, hist>>
  BY DEF Unwound
<1>2. AllKept /\ NoTemporaries
  BY <1>1 DEF Inv, Places, InvRaise, OnStack, NoTemporaries
<1>3. AllKept' /\ NoTemporaries'
  BY <1>1, <1>2 DEF AllKept, Kept, Live, Original, TagOf, NoTemporaries, hist
<1>4. zstack' \in Seq(Tmp)
  BY <1>1, EmptySeq
<1>5. Memory_z'
  BY <1>1, <1>4, SameMemory DEF Inv, Memory_z, InvTypes, Active, hist
<1>6. Places'
  BY <1>1, <1>3 DEF Places, InvCall, InvRaise, InvRaised, InvFailed, InvClient, InvOver, Over
<1>. QED BY <1>1, <1>5, <1>6 DEF Inv, InvMisuse, hist

-----------------------------------------------------------------------------
(* The end of a call *)

\* The temporaries of a call that ends have no buffers.
LEMMA ReturnKeeps == ASSUME Inv, Return PROVE Inv'
<1>1. /\ pc = "failed" \/ (pc = "call" /\ todo = <<>>)
      /\ pc' = "client" /\ before' = Forgotten /\ tag' = [b \in Block |-> "junk"]
      /\ obj' = [z \in Object |-> IF z \in Tmp THEN Dead ELSE obj[z]]
      /\ UNCHANGED <<scratch, shadow, ctx, own, misuse>>
  BY DEF Return
<1>2. NoTemporaries /\ zstack = <<>>
  <2>1. CASE pc = "failed"
    BY <2>1 DEF Inv, Places, InvFailed
  <2>2. CASE pc = "call" /\ todo = <<>>
    <3>1. PICK A, B : Holds(A) /\ Runs(<<>>, A, B) /\ Final(B)
      BY <2>2 DEF Inv, Places, InvCall
    <3>2. A = B
      BY <3>1, NoneRuns
    <3>. QED BY <3>1, <3>2 DEF Holds, Final, NoTemporaries
  <2>. QED BY <1>1, <2>1, <2>2
<1>3. obj \in [Object -> Number] /\ InvShape /\ Tmp \subseteq Object
  BY BlockFacts DEF Inv, Memory_z, InvTypes
<1>4. /\ Dead \in Number /\ Dead.blk = NoBlock /\ Dead.cap = 0 /\ Dead.used = 0 /\ ~Dead.nz
      /\ Dead.id = "INVALID"
  BY DEF Dead, Number
<1>5. /\ obj' \in [Object -> Number]
      /\ \A t \in Tmp : obj'[t] = Dead
      /\ \A x \in Object : x \notin Tmp => obj'[x] = obj[x]
  BY <1>1, <1>3, <1>4
<1>6. InvShape'
  BY <1>3, <1>4, <1>5 DEF InvShape
<1>7. /\ \A x \in Object : obj'[x].blk = obj[x].blk
      /\ \A x \in Object : obj[x].blk # NoBlock => obj'[x].id = obj[x].id
  BY <1>2, <1>4, <1>5 DEF NoTemporaries
<1>8. /\ before' \in [Zvar -> [live : BOOLEAN, used : Nat, nz : BOOLEAN]]
      /\ tag' \in [Block -> Zvar \cup {"junk", "new"}]
  BY <1>1 DEF Forgotten
<1>9. Memory_z'
  BY <1>1, <1>5, <1>6, <1>7, <1>8, SameBuffers DEF Inv, Memory_z, InvTypes, Active, ctx
<1>10. Places'
  BY <1>1, <1>2, <1>5
     DEF Places, InvCall, InvRaise, InvRaised, InvFailed, InvClient, InvOver, Over, ctx
<1>. QED BY <1>1, <1>9, <1>10 DEF Inv, InvMisuse

\* Every step of a call, and of the end of it, keeps the invariant.
LEMMA StepKeeps == ASSUME Inv, Step PROVE Inv'
<1>1. CASE RaiseFreesScratch
  BY <1>1, RaiseFreesScratchKeeps
<1>2. CASE Unwind
  BY <1>2, UnwindKeeps
<1>3. CASE Unwound
  BY <1>3, UnwoundKeeps
<1>4. CASE Return
  BY <1>4, ReturnKeeps
<1>5. ASSUME pc = "call", todo # <<>> PROVE Inv'
  <2>1. PICK A, s, B, C : Started(A, s, B, C)
    BY <1>5, CallStarted
  <2>2. CASE DoError
    BY <2>1, <2>2, DoErrorKeeps
  <2>3. CASE DoEither
    BY <2>1, <2>3, DoEitherKeeps
  <2>4. CASE DoZero
    BY <2>1, <2>4, DoZeroKeeps
  <2>5. CASE DoKernel
    BY <2>1, <2>5, DoKernelKeeps
  <2>6. CASE DoPublish
    BY <2>1, <2>6, DoPublishKeeps
  <2>7. CASE DoSwap
    BY <2>1, <2>7, DoSwapKeeps
  <2>8. CASE DoMake
    BY <2>1, <2>8, DoMakeKeeps
  <2>9. CASE DoGrow
    BY <2>1, <2>9, DoGrowKeeps
  <2>10. CASE DoRealloc
    BY <2>1, <2>10, DoReallocKeeps
  <2>11. CASE DoConstruct
    BY <2>1, <2>11, DoConstructKeeps
  <2>12. CASE DoDestroy
    BY <2>1, <2>12, DoDestroyKeeps
  <2>13. CASE DoPush
    BY <2>1, <2>13, DoPushKeeps
  <2>14. CASE DoPop
    BY <2>1, <2>14, DoPopKeeps
  <2>15. CASE ScratchKept
    BY <2>1, <2>15, ScratchKeptKeeps
  <2>16. CASE ScratchGrown
    BY <2>1, <2>16, ScratchGrownKeeps
  <2>17. CASE ScratchFails
    BY <2>1, <2>17, ScratchFailsKeeps
  <2>18. CASE ScratchTooLong
    BY <2>1, <2>18, ScratchTooLongKeeps
  <2>19. CASE DoUnscratch
    BY <2>1, <2>19, DoUnscratchKeeps
  <2>20. CASE DoSetAlias
    BY <2>1, <2>20, DoSetAliasKeeps
  <2>. QED BY <1>1, <1>2, <1>3, <1>4, <2>2, <2>3, <2>4, <2>5, <2>6, <2>7, <2>8, <2>9, <2>10,
              <2>11, <2>12, <2>13, <2>14, <2>15, <2>16, <2>17, <2>18, <2>19, <2>20 DEF Step
<1>6. CASE ~(pc = "call" /\ todo # <<>>)
  BY <1>1, <1>2, <1>3, <1>4, <1>6
     DEF Step, At, DoError, DoEither, DoZero, DoKernel, DoPublish, DoSwap, DoMake, DoGrow,
         DoRealloc, DoConstruct, DoDestroy, DoPush, DoPop, ScratchKept, ScratchGrown,
         ScratchFails, ScratchTooLong, DoUnscratch, DoSetAlias
<1>. QED BY <1>5, <1>6


-----------------------------------------------------------------------------
(* The start of a thread *)

LEMMA InitInv == Init => Inv
<1>. SUFFICES ASSUME Init PROVE Inv
  OBVIOUS
<1>1. /\ Dead \in Number /\ Dead.blk = NoBlock /\ Dead.cap = 0 /\ Dead.used = 0 /\ ~Dead.nz
      /\ Dead.id = "INVALID"
  BY DEF Dead, Number
<1>2. NoScratch \in Buffer /\ NoScratch.blk = NoBlock
  BY DEF NoScratch, Buffer
<1>3. NoShadow \in [made : BOOLEAN, mem : Buffer] /\ NoShadow.mem = NoScratch
  BY <1>2 DEF NoShadow
<1>4. InvTypes
  <2>1. <<>> \in Seq(Tmp)
    BY EmptySeq
  <2>. QED BY <1>1, <1>2, <1>3, <2>1 DEF Init, InvTypes, Forgotten, Place
<1>5. \A z \in Object : obj[z] = Dead
  BY DEF Init
<1>6. InvShape /\ InvHolders
  BY <1>1, <1>5 DEF InvShape, InvHolders
<1>7. InvOwners
  BY <1>1, <1>5, BlockFacts DEF InvOwners
<1>8. InvScratch /\ InvShadow /\ InvHeld
  BY <1>2, <1>3 DEF Init, InvScratch, InvShadow, ShadowMirrors, InvHeld
<1>9. Places
  BY <1>5, BlockFacts DEF Init, Places, InvCall, InvRaise, InvRaised, InvFailed, InvClient, InvOver, Over
<1>10. InvMisuse
  BY DEF Init, InvMisuse
<1>. QED BY <1>4, <1>6, <1>7, <1>8, <1>9, <1>10 DEF Inv, Memory_z

-----------------------------------------------------------------------------
(* A call starts *)

\* The integers of the client are as the call finds them, and the program of the
\* call leads from there to its end.
LEMMA RunKeeps ==
    ASSUME Inv, NEW p, Run(p), \A A : Starts(A) => Ends(p, A)
    PROVE  Inv'
<1>1. /\ pc = "client" /\ pc' = "call" /\ todo' = p
      /\ before' = [z \in Zvar |-> [live |-> Live(z), used |-> obj[z].used, nz |-> obj[z].nz]]
      /\ tag' = [b \in Block |-> IF \E z \in Zvar : obj[z].blk = b
                                 THEN CHOOSE z \in Zvar : obj[z].blk = b ELSE "junk"]
      /\ UNCHANGED <<obj, scratch, shadow, ctx, own, misuse>>
  BY DEF Run
<1>2. PICK A : A = Begin
  OBVIOUS
<1>3. Starts(A)
  BY <1>1, <1>2, BeginStarts
<1>4. PICK B \in Claim : Runs(p, A, B) /\ Final(B)
  BY <1>3 DEF Ends
<1>5. obj \in [Object -> Number] /\ InvShape /\ InvHolders /\ zstack = <<>>
  BY <1>1 DEF Inv, Memory_z, InvTypes, Places, InvClient
<1>6. \A z \in Zvar : z \in Object /\ obj[z] \in Number
  BY <1>5, BlockFacts
<1>7. /\ before' \in [Zvar -> [live : BOOLEAN, used : Nat, nz : BOOLEAN]]
      /\ \A z \in Zvar : /\ before'[z].live = Live(z) /\ before'[z].used = obj[z].used
                         /\ before'[z].nz = obj[z].nz
  BY <1>1, <1>6 DEF Number, Live
<1>8. tag' \in [Block -> Zvar \cup {"junk", "new"}]
  BY <1>1
<1>9. \A z \in Zvar : obj[z].nz => TagOf(obj[z].blk)' = z
  <2>. SUFFICES ASSUME NEW z \in Zvar, obj[z].nz PROVE TagOf(obj[z].blk)' = z
    OBVIOUS
  <2>1. obj[z].blk # NoBlock /\ obj[z].blk \in Block
    BY <1>5, <1>6 DEF InvShape, Number
  <2>2. \A y \in Zvar : obj[y].blk = obj[z].blk => y = z
    BY <1>5, <1>6, <2>1 DEF InvHolders
  <2>3. tag'[obj[z].blk] = z
    BY <1>1, <2>1, <2>2
  <2>. QED BY <1>1, <2>1, <2>3 DEF TagOf
<1>10. \A z \in Zvar : Kept(z)'
  BY <1>1, <1>7, <1>9 DEF Kept, Original, Live
<1>11. Holds(A)'
  <2>1. /\ A \in Claim /\ A.live = Ready /\ A.stk = <<>> /\ A.kept = Zvar
        /\ A.bare = {z \in Object : obj[z].blk = NoBlock}
        /\ A.idle = {a \in Alias : IdleAlias(a)}
        /\ \A z \in Object : A.room[z] = obj[z].cap
    BY <1>2, <1>3 DEF Starts, Begin
  <2>2. obj' = obj /\ zstack' = zstack
    BY <1>1 DEF ctx
  <2>3. \A z \in A.live : Live(z)'
    BY <2>1, <2>2 DEF Ready, Live
  <2>4. \A a \in A.idle : IdleAlias(a)'
    BY <2>1, <2>2 DEF IdleAlias
  <2>5. \A z \in Object : A.room[z] =< obj'[z].cap
    BY <1>5, <2>1, <2>2 DEF Number
  <2>. QED BY <1>5, <1>10, <2>1, <2>2, <2>3, <2>4, <2>5 DEF Holds
<1>12. Places'
  BY <1>1, <1>4, <1>11
     DEF Places, InvCall, InvRaise, InvRaised, InvFailed, InvClient, InvOver, Over
<1>13. Memory_z'
  BY <1>1, <1>7, <1>8, SameMemory DEF Inv, Memory_z, InvTypes, Active, ctx
<1>. QED BY <1>1, <1>12, <1>13 DEF Inv, InvMisuse

-----------------------------------------------------------------------------
(* The calls of the client *)

LEMMA AssignKeeps == ASSUME Inv, Assign PROVE Inv'
<1>1. PICK r \in Ready : \/ \E a \in Ready \ {r} : Run(SetTo(r, a))
                         \/ Run(SetWord(r))
                         \/ Run(<<Zero(r)>>)
  BY DEF Assign
<1>2. ASSUME NEW a \in Ready, Run(SetTo(r, a)) PROVE Inv'
  BY <1>2, SetToEnds, RunKeeps
<1>3. CASE Run(SetWord(r))
  BY <1>3, SetWordEnds, RunKeeps
<1>4. CASE Run(<<Zero(r)>>)
  <2>1. \A A : Starts(A) => Ends(<<Zero(r)>>, A)
    BY ZeroEnds, ReadyFacts DEF Starts
  <2>. QED BY <1>4, <2>1, RunKeeps
<1>. QED BY <1>1, <1>2, <1>3, <1>4

LEMMA ResizeKeeps == ASSUME Inv, Resize PROVE Inv'
<1>1. PICK z \in Ready : \/ \E n \in Size : Run(Reserve(z, n))
                         \/ Run(Shrink(z))
                         \/ \E n \in Size, keep \in BOOLEAN : Run(<<Realloc(z, n, keep)>>)
  BY DEF Resize
<1>2. Size \subseteq Nat
  BY ZCallsAssumption
<1>3. ASSUME NEW n \in Nat, Run(Reserve(z, n)) PROVE Inv'
  BY <1>3, ResizeEnds, RunKeeps
<1>4. CASE Run(Shrink(z))
  BY <1>4, ResizeEnds, RunKeeps
<1>5. ASSUME NEW n \in Nat, NEW keep, Run(<<Realloc(z, n, keep)>>) PROVE Inv'
  <2>1. \A A : Starts(A) => Ends(<<Realloc(z, n, keep)>>, A)
    BY ReallocEnds
  <2>. QED BY <1>5, <2>1, RunKeeps
<1>. QED BY <1>1, <1>2, <1>3, <1>4, <1>5

\* The lengths of the operands.
LEMMA UsedFacts ==
    ASSUME Inv, NEW z \in Ready
    PROVE  Used(z) \in Nat /\ (obj[z].nz => Used(z) = obj[z].used)
<1>1. obj[z] \in Number
  BY BlockFacts DEF Inv, Memory_z, InvTypes, Ready
<1>. QED BY <1>1 DEF Used, Number

LEMMA ArithmeticKeeps == ASSUME Inv, Arithmetic PROVE Inv'
<1>1. PICK r \in Ready, a \in Ready, b \in Ready :
         \E n \in {Smaller(Used(a), Used(b)), Larger(Used(a), Used(b)) + 1} : Run(InPlace(r, {a, b}, n))
  BY DEF Arithmetic
<1>2. PICK n \in Nat : Run(InPlace(r, {a, b}, n))
  BY <1>1, UsedFacts DEF Smaller, Larger
<1>. DEFINE operands == {a, b}
<1>3. operands \in SUBSET Ready /\ Run(InPlace(r, operands, n))
  BY <1>2
<1>. HIDE DEF operands
<1>4. \A A : Starts(A) => Ends(InPlace(r, operands, n), A)
  BY <1>3, InPlaceEnds
<1>. QED BY <1>3, <1>4, RunKeeps

LEMMA MultiplyKeeps == ASSUME Inv, Multiply PROVE Inv'
<1>1. PICK r \in Ready, a \in Ready, b \in Ready, space \in Nat :
         Run(Mul(r, a, b, space, Used(a) + Used(b)))
  BY ZCallsAssumption DEF Multiply
<1>. DEFINE p == Mul(r, a, b, space, Used(a) + Used(b))
<1>2. ASSUME NEW A, Starts(A) PROVE Ends(p, A)
  <2>1. CASE obj[a].nz /\ obj[b].nz
    <3>1. p = Mul(r, a, b, space, obj[a].used + obj[b].used)
      BY <2>1, UsedFacts
    <3>. QED BY <1>2, <3>1, MulEnds
  <2>2. CASE ~obj[a].nz \/ ~obj[b].nz
    <3>1. p = <<Zero(r)>>
      BY <2>2 DEF Mul
    <3>. QED BY <1>2, <3>1, ZeroEnds, ReadyFacts DEF Starts
  <2>. QED BY <2>1, <2>2
<1>. HIDE DEF p
<1>3. Run(p)
  BY <1>1 DEF p
<1>. QED BY <1>2, <1>3, RunKeeps

LEMMA SquareKeeps == ASSUME Inv, Square PROVE Inv'
<1>1. PICK r \in Ready, a \in Ready, space \in Nat : Run(Sqr(r, a, space, 2 * Used(a)))
  BY ZCallsAssumption DEF Square
<1>. DEFINE p == Sqr(r, a, space, 2 * Used(a))
<1>2. ASSUME NEW A, Starts(A) PROVE Ends(p, A)
  <2>1. CASE obj[a].nz
    <3>1. p = Sqr(r, a, space, 2 * obj[a].used)
      BY <2>1, UsedFacts
    <3>. QED BY <1>2, <3>1, SqrEnds
  <2>2. CASE ~obj[a].nz
    <3>1. p = <<Zero(r)>>
      BY <2>2 DEF Sqr
    <3>. QED BY <1>2, <3>1, ZeroEnds, ReadyFacts DEF Starts
  <2>. QED BY <2>1, <2>2
<1>. HIDE DEF p
<1>3. Run(p)
  BY <1>1 DEF p
<1>. QED BY <1>2, <1>3, RunKeeps

\* Division, conversion from and to strings, construction and destruction.
LEMMA OtherCallsKeep ==
    ASSUME Inv, Divide \/ Strings \/ Read \/ Construction \/ Destruction \/ ShortBuffer
    PROVE  Inv'
<1>1. Size \subseteq Nat /\ ClientId \subseteq AllocId
  BY ZCallsAssumption
<1>2. CASE Divide
  <2>1. PICK q \in Ready \cup {Null}, r \in Ready \cup {Null}, a \in Ready, b \in Ready :
            q # r /\ Run(DivRem(q, r, a, b))
    BY <1>2 DEF Divide
  <2>. QED BY <2>1, DivRemEnds, RunKeeps
<1>3. CASE Strings
  <2>1. PICK r \in Ready, space \in Nat : Run(SetStr(r, space))
    BY <1>1, <1>3 DEF Strings
  <2>. QED BY <2>1, SetStrEnds, RunKeeps
<1>4. CASE Read
  BY <1>4, ReadInScratchEnds, RunKeeps DEF Read
<1>5. CASE Construction
  <2>1. PICK z \in Unmade : \/ \E n \in Size, id \in ClientId : Run(InitReserve(z, n, id))
                            \/ \E a \in Ready : Run(InitCopy(z, a))
                            \/ \E a \in Ready, n \in Size, id \in ClientId :
                                  Run(InitCopyReserve(z, a, n, id))
    BY <1>5 DEF Construction
  <2>2. ASSUME NEW n \in Nat, NEW id \in AllocId, Run(InitReserve(z, n, id)) PROVE Inv'
    <3>. DEFINE none == {}
                zero == 0
                no   == FALSE
    <3>1. /\ zero \in Nat /\ zero =< n /\ no \in BOOLEAN /\ (no => zero > 0)
          /\ none \in SUBSET Zvar /\ \A a \in none : zero =< obj[a].cap
      BY <2>2
    <3>2. InitReserve(z, n, id) = <<Construct(z, id, n, zero, no, none)>>
      BY DEF InitReserve
    <3>. HIDE DEF none, zero, no
    <3>3. \A A : Starts(A) => Ends(InitReserve(z, n, id), A)
      BY <2>2, <3>1, <3>2, ConstructEnds
    <3>. QED BY <2>2, <3>3, RunKeeps
  <2>3. ASSUME NEW a \in Ready, Run(InitCopy(z, a)) PROVE Inv'
    <3>1. 0 \in Nat /\ "DEFAULT" \in AllocId
      BY DEF AllocId, Alias
    <3>2. \A A : Starts(A) => Ends(InitCopy(z, a), A)
      BY <3>1, InitEnds
    <3>. QED BY <2>3, <3>2, RunKeeps
  <2>4. ASSUME NEW a \in Ready, NEW n \in Nat, NEW id \in AllocId, Run(InitCopyReserve(z, a, n, id))
        PROVE  Inv'
    BY <2>4, InitEnds, RunKeeps
  <2>. QED BY <1>1, <2>1, <2>2, <2>3, <2>4
<1>6. CASE Destruction
  <2>1. PICK z \in Ready : Run(<<Destroy(z)>>)
    BY <1>6 DEF Destruction
  <2>2. \A A : Starts(A) => Ends(<<Destroy(z)>>, A)
    BY DestroyEnds
  <2>. QED BY <2>1, <2>2, RunKeeps
<1>7. CASE ShortBuffer
  <2>1. \A A : Starts(A) => Ends(<<Error>>, A)
    BY ErrorEnds
  <2>. QED BY <1>7, <2>1, RunKeeps DEF ShortBuffer
<1>. QED BY <1>2, <1>3, <1>4, <1>5, <1>6, <1>7

LEMMA ContextCallsKeep == ASSUME Inv, SetAliases \/ ReleaseScratch PROVE Inv'
<1>1. CASE SetAliases
  <2>1. PICK a \in Alias, id \in AllocId \cup {"INVALID"} :
           /\ Rebinds \/ ~Owns(a)
           /\ Run((IF a = "SCRATCH" THEN <<Unscratch>> ELSE NoStep) \o <<SetAlias(a, id)>>)
    BY <1>1 DEF SetAliases
  <2>. DEFINE p == (IF a = "SCRATCH" THEN <<Unscratch>> ELSE NoStep) \o <<SetAlias(a, id)>>
  <2>2. \A A : Starts(A) => Ends(p, A)
    BY <2>1, SetAliasEnds
  <2>3. Run(p)
    BY <2>1
  <2>. HIDE DEF p
  <2>. QED BY <2>2, <2>3, RunKeeps
<1>2. CASE ReleaseScratch
  <2>1. \A A : Starts(A) => Ends(<<Unscratch>>, A)
    BY UnscratchEnds
  <2>. QED BY <1>2, <2>1, RunKeeps DEF ReleaseScratch
<1>. QED BY <1>1, <1>2

-----------------------------------------------------------------------------
(* The calls of one step *)

\* Between two calls, only the integers of the client change.
LEMMA DirectKeeps ==
    ASSUME Inv, pc = "client", Memory_z', \A t \in Tmp : obj'[t] = obj[t],
           UNCHANGED <<scratch, shadow, ctx, pc, todo, own, before, hist>>
    PROVE  Inv'
<1>1. \A t \in Tmp : obj'[t] = Dead
  BY DEF Inv, Places, InvClient
<1>2. Places'
  BY <1>1 DEF Inv, Places, InvCall, InvRaise, InvRaised, InvFailed, InvClient, InvOver, Over, ctx
<1>. QED BY <1>2 DEF Inv, InvMisuse, hist

LEMMA DirectTypes ==
    ASSUME Inv, NEW next, Direct(next)
    PROVE  /\ pc = "client" /\ pc' = "client" /\ obj' = next
           /\ UNCHANGED <<scratch, shadow, ctx, pc, todo, own, before, hist>>
           /\ UNCHANGED <<alias, scratch, shadow, own, zstack, level, tag, before>>
           /\ pc \in Active /\ pc' \in Active
           /\ before' \in [Zvar -> [live : BOOLEAN, used : Nat, nz : BOOLEAN]]
           /\ tag' \in [Block -> Zvar \cup {"junk", "new"}] /\ zstack' \in Seq(Tmp) /\ level' \in Nat
BY DEF Direct, Inv, Memory_z, InvTypes, Active, ctx, hist

\* A new integer without a buffer.
LEMMA EmptyMade ==
    ASSUME Inv, NEW z \in Unmade, NEW id \in AllocId, Direct([obj EXCEPT ![z] = Empty(id)])
    PROVE  Inv'
<1>. DEFINE next == [obj EXCEPT ![z] = Empty(id)]
<1>1. /\ obj \in [Object -> Number] /\ InvShape /\ z \in Object /\ z \notin Tmp
      /\ obj[z].id = "INVALID" /\ obj[z].blk = NoBlock
  BY BlockFacts DEF Inv, Memory_z, InvTypes, InvShape, Unmade, Live
<1>2. /\ Empty(id) \in Number /\ Empty(id).blk = NoBlock /\ Empty(id).cap = 0
      /\ Empty(id).used = 0 /\ ~Empty(id).nz /\ Empty(id).id = id
  BY DEF Empty, Dead, Number
<1>3. Direct(next)
  OBVIOUS
<1>4. /\ next \in [Object -> Number] /\ next[z] = Empty(id)
      /\ \A x \in Object : x # z => next[x] = obj[x]
  BY <1>1, <1>2
<1>. HIDE DEF next
<1>5. obj' = next
  BY <1>3, DirectTypes
<1>6. InvShape'
  BY <1>1, <1>2, <1>4, <1>5 DEF InvShape
<1>7. /\ \A x \in Object : obj'[x].blk = obj[x].blk
      /\ \A x \in Object : obj[x].blk # NoBlock => obj'[x].id = obj[x].id
  BY <1>1, <1>2, <1>4, <1>5
<1>8. Memory_z'
  BY <1>3, <1>4, <1>5, <1>6, <1>7, DirectTypes, SameBuffers DEF Inv
<1>9. \A t \in Tmp : obj'[t] = obj[t]
  BY <1>1, <1>4, <1>5, BlockFacts
<1>. QED BY <1>3, <1>8, <1>9, DirectTypes, DirectKeeps

\* A new integer over a buffer of the client that no integer has.
LEMMA FixedMade ==
    ASSUME Inv, NEW z \in Unmade, \A y \in Zvar : obj[y].blk # z, NEW o \in Number,
           o.blk = z, o.id = "FIXED", o.used =< o.cap, o.nz => o.used > 0,
           NEW next, next = [obj EXCEPT ![z] = o], Direct(next)
    PROVE  Inv'
<1>1. /\ obj \in [Object -> Number] /\ InvShape /\ z \in Object /\ z \notin Tmp /\ z \in Zvar
      /\ obj[z].id = "INVALID" /\ obj[z].blk = NoBlock /\ z \notin Heap /\ z # NoBlock
  BY BlockFacts DEF Inv, Memory_z, InvTypes, InvShape, Unmade, Live
<1>2. /\ obj' \in [Object -> Number] /\ obj'[z] = o
      /\ \A x \in Object : x # z => obj'[x] = obj[x]
  <2>1. obj' = next
    BY DirectTypes
  <2>2. /\ next \in [Object -> Number] /\ next[z] = o
        /\ \A x \in Object : x # z => next[x] = obj[x]
    BY <1>1
  <2>. QED BY <2>1, <2>2
<1>3. \A x \in Object : obj[x].blk # z
  <2>1. \A t \in Tmp : obj[t].blk = NoBlock
    BY DirectTypes DEF Inv, Places, InvClient, Dead
  <2>. QED BY <1>1, <2>1 DEF Object
<1>4. scratch \in Buffer /\ scratch.blk # z
  BY <1>1 DEF Inv, Memory_z, InvTypes, Buffer
<1>5. InvTypes'
  BY <1>2, DirectTypes DEF Inv, Memory_z, InvTypes
<1>6. InvShape'
  <2>. SUFFICES ASSUME NEW x \in Object
                PROVE  (/\ obj[x].id = "INVALID" => obj[x].blk = NoBlock
                        /\ obj[x].blk = NoBlock => obj[x].cap = 0
                        /\ obj[x].used =< obj[x].cap
                        /\ obj[x].nz => obj[x].used > 0)'
    BY DEF InvShape
  <2>1. CASE x = z
    BY <1>1, <1>2, <2>1
  <2>2. CASE x # z
    BY <1>1, <1>2, <2>2 DEF InvShape
  <2>. QED BY <2>1, <2>2
<1>7. InvOwners'
  <2>. SUFFICES ASSUME NEW x \in Object
                PROVE  (/\ obj[x].blk \in Heap => /\ own[obj[x].blk] # "none"
                                                  /\ ~Rebinds => own[obj[x].blk] = Resolve(obj[x].id)
                        /\ obj[x].blk \in Zvar => obj[x].id = "FIXED")'
    BY DEF InvOwners
  <2>1. \A i : Resolve(i)' = Resolve(i)
    BY DirectTypes DEF Resolve
  <2>2. CASE x = z
    BY <1>1, <1>2, <2>2
  <2>3. CASE x # z
    BY <1>2, <2>1, <2>3, DirectTypes DEF Inv, Memory_z, InvOwners
  <2>. QED BY <2>2, <2>3
<1>8. InvHolders'
  <2>. SUFFICES ASSUME NEW x \in Object, NEW y \in Object, obj'[x].blk # NoBlock
                PROVE  /\ x # y => obj'[x].blk # obj'[y].blk
                       /\ obj'[x].blk # scratch'.blk
    BY DEF InvHolders
  <2>1. obj'[x].blk # scratch.blk
    BY <1>2, <1>4 DEF Inv, Memory_z, InvHolders
  <2>2. x # y => obj'[x].blk # obj'[y].blk
    BY <1>2, <1>3 DEF Inv, Memory_z, InvHolders
  <2>. QED BY <2>1, <2>2, DirectTypes
<1>9. InvScratch' /\ InvShadow'
  BY DirectTypes DEF Inv, Memory_z, InvScratch, InvShadow, ShadowMirrors, Over
<1>10. InvHeld'
  <2>. SUFFICES ASSUME ~Rebinds, NEW b \in Heap, own[b] # "none"
                PROVE  (\E x \in Object : obj'[x].blk = b) \/ scratch.blk = b
    BY DirectTypes DEF InvHeld, Over
  <2>1. (\E x \in Object : obj[x].blk = b) \/ scratch.blk = b
    BY DEF Inv, Memory_z, InvHeld
  <2>. QED BY <1>1, <1>2, <2>1, BlockFacts
<1>11. Memory_z'
  BY <1>5, <1>6, <1>7, <1>8, <1>9, <1>10 DEF Memory_z
<1>12. \A t \in Tmp : obj'[t] = obj[t]
  BY <1>1, <1>2, BlockFacts
<1>. QED BY <1>11, <1>12, DirectTypes, DirectKeeps

LEMMA DirectConstructionKeeps == ASSUME Inv, DirectConstruction PROVE Inv'
<1>1. PICK z \in Unmade :
         \/ \E id \in ClientId : Direct([obj EXCEPT ![z] = Empty(id)])
         \/ /\ \A y \in Zvar : obj[y].blk # z
            /\ \E n \in Size \ {0} :
                  Direct([obj EXCEPT ![z] = [Empty("FIXED") EXCEPT !.blk = z, !.cap = n]])
         \/ /\ \A y \in Zvar : obj[y].blk # z
            /\ \E a \in Ready, n \in Size \ {0} :
                  /\ n >= Used(a)
                  /\ Direct([obj EXCEPT ![z] = [Empty("FIXED") EXCEPT
                                !.blk = z, !.cap = n, !.used = Used(a), !.nz = obj[a].nz]])
  BY DEF DirectConstruction
<1>2. Size \subseteq Nat /\ ClientId \subseteq AllocId
  BY ZCallsAssumption
<1>3. z \in Zvar
  BY DEF Unmade
<1>4. ASSUME NEW id \in AllocId, Direct([obj EXCEPT ![z] = Empty(id)]) PROVE Inv'
  BY <1>4, EmptyMade
<1>5. ASSUME \A y \in Zvar : obj[y].blk # z, NEW n \in Nat,
             Direct([obj EXCEPT ![z] = [Empty("FIXED") EXCEPT !.blk = z, !.cap = n]])
      PROVE  Inv'
  <2>. DEFINE o == [Empty("FIXED") EXCEPT !.blk = z, !.cap = n]
              next == [obj EXCEPT ![z] = o]
  <2>1. o \in Number /\ o.blk = z /\ o.id = "FIXED" /\ o.used = 0 /\ o.cap = n /\ ~o.nz
    BY <1>3, <1>5, KeyFacts DEF Empty, Dead, Number, Block
  <2>2. o.used =< o.cap /\ (o.nz => o.used > 0)
    BY <1>5, <2>1
  <2>3. Direct(next)
    BY <1>5
  <2>. HIDE DEF o
  <2>4. next = [obj EXCEPT ![z] = o]
    OBVIOUS
  <2>. HIDE DEF next
  <2>. QED BY <1>5, <2>1, <2>2, <2>3, <2>4, FixedMade
<1>6. ASSUME \A y \in Zvar : obj[y].blk # z, NEW a \in Ready, NEW n \in Nat, n >= Used(a),
             Direct([obj EXCEPT ![z] = [Empty("FIXED") EXCEPT
                        !.blk = z, !.cap = n, !.used = Used(a), !.nz = obj[a].nz]])
      PROVE  Inv'
  <2>. DEFINE o == [Empty("FIXED") EXCEPT !.blk = z, !.cap = n, !.used = Used(a), !.nz = obj[a].nz]
              next == [obj EXCEPT ![z] = o]
  <2>0. obj[a] \in Number /\ (obj[a].nz => obj[a].used > 0)
    BY <1>6, BlockFacts DEF Inv, Memory_z, InvTypes, InvShape, Ready
  <2>1. /\ o.blk = z /\ o.id = "FIXED" /\ o.used = Used(a) /\ o.cap = n /\ o.nz = obj[a].nz
        /\ o \in Number
    BY <1>3, <1>6, <2>0, KeyFacts, UsedFacts DEF Empty, Dead, Number, Block
  <2>2. o.used =< o.cap /\ (o.nz => o.used > 0)
    BY <1>6, <2>0, <2>1, UsedFacts
  <2>3. Direct(next)
    BY <1>6
  <2>. HIDE DEF o
  <2>4. next = [obj EXCEPT ![z] = o]
    OBVIOUS
  <2>. HIDE DEF next
  <2>. QED BY <1>6, <2>1, <2>2, <2>3, <2>4, FixedMade
<1>. QED BY <1>1, <1>2, <1>4, <1>5, <1>6

\* Two integers exchange their buffers, and keep their values with them.
LEMMA ExchangeKeeps ==
    ASSUME Inv, NEW z \in Zvar, NEW r \in Zvar, z # r, NEW next, Direct(next),
           next \in [Object -> Number], next[r] = obj[z],
           next[z] = obj[r] \/ (obj[r].blk = NoBlock /\ next[z] = Empty("DEFAULT")),
           \A x \in Object : x # z /\ x # r => next[x] = obj[x]
    PROVE  Inv'
<1>. DEFINE g == [x \in Object |-> IF x = z THEN r ELSE IF x = r THEN z ELSE x]
<1>1. z \in Object /\ r \in Object /\ z \notin Tmp /\ r \notin Tmp /\ obj' = next
  BY BlockFacts, DirectTypes
<1>2. Empty("DEFAULT").blk = NoBlock /\ Empty("DEFAULT").cap = 0 /\ Empty("DEFAULT").used = 0
      /\ ~Empty("DEFAULT").nz
  BY DEF Empty, Dead
<1>3. InvShape'
  BY <1>1, <1>2 DEF Inv, Memory_z, InvShape
<1>4. /\ g \in [Object -> Object]
      /\ \A x \in Object : obj'[x].blk # NoBlock =>
             obj'[x].blk = obj[g[x]].blk /\ obj'[x].id = obj[g[x]].id
      /\ \A x, y \in Object : x # y /\ obj'[x].blk # NoBlock => g[x] # g[y]
      /\ \A x \in Object : obj[x].blk # NoBlock => \E y \in Object : obj'[y].blk = obj[x].blk
  BY <1>1, <1>2
<1>. HIDE DEF g
<1>5. Memory_z'
  BY <1>1, <1>3, <1>4, DirectTypes, Reheld DEF Inv
<1>6. \A t \in Tmp : obj'[t] = obj[t]
  BY <1>1, BlockFacts
<1>. QED BY <1>5, <1>6, DirectTypes, DirectKeeps

LEMMA MoveKeeps == ASSUME Inv, Move PROVE Inv'
<1>1. PICK r \in Zvar, s \in Ready :
         /\ r # s /\ obj[r].blk = NoBlock
         /\ Direct([obj EXCEPT ![r] = obj[s], ![s] = Empty("DEFAULT")])
  BY DEF Move, MovedFrom
<1>. DEFINE next == [obj EXCEPT ![r] = obj[s], ![s] = Empty("DEFAULT")]
<1>2. obj \in [Object -> Number] /\ r \in Object /\ s \in Object /\ s \in Zvar
  BY BlockFacts DEF Inv, Memory_z, InvTypes, Ready
<1>3. Empty("DEFAULT") \in Number
  BY DEF Empty, Dead, Number, AllocId, Alias
<1>4. /\ next \in [Object -> Number] /\ next[r] = obj[s] /\ next[s] = Empty("DEFAULT")
      /\ \A x \in Object : x # s /\ x # r => next[x] = obj[x]
  BY <1>1, <1>2, <1>3
<1>5. Direct(next)
  BY <1>1
<1>. HIDE DEF next
<1>. QED BY <1>1, <1>2, <1>4, <1>5, ExchangeKeeps

LEMMA SwapTwoKeeps == ASSUME Inv, SwapTwo PROVE Inv'
<1>1. PICK z \in Ready, r \in Ready : z # r /\ Direct([obj EXCEPT ![z] = obj[r], ![r] = obj[z]])
  BY DEF SwapTwo
<1>. DEFINE next == [obj EXCEPT ![z] = obj[r], ![r] = obj[z]]
<1>2. obj \in [Object -> Number] /\ r \in Object /\ z \in Object /\ z \in Zvar /\ r \in Zvar
  BY BlockFacts DEF Inv, Memory_z, InvTypes, Ready
<1>3. /\ next \in [Object -> Number] /\ next[r] = obj[z] /\ next[z] = obj[r]
      /\ \A x \in Object : x # z /\ x # r => next[x] = obj[x]
  BY <1>1, <1>2
<1>4. Direct(next)
  BY <1>1
<1>. HIDE DEF next
<1>. QED BY <1>1, <1>2, <1>3, <1>4, ExchangeKeeps

-----------------------------------------------------------------------------
(* The end of a thread *)

\* ctxshut frees the buffer that the shadow knows of: it is the scratch buffer.
LEMMA ThreadExitKeeps == ASSUME Inv, ThreadExit PROVE Inv'
<1>1. /\ pc = "client" /\ pc' = "exited" /\ shadow' = NoShadow
      /\ own' = Freed(own, shadow.mem.fp, shadow.mem.blk)
      /\ Noted(IsBadFree(own, shadow.mem.fp, shadow.mem.blk), "free")
      /\ UNCHANGED <<obj, scratch, ctx, todo, tag, before>>
  BY DEF ThreadExit
<1>2. shadow.mem = scratch /\ pc \in Active /\ Memory_z
  BY <1>1 DEF Inv, Memory_z, InvShadow, ShadowMirrors, Active
<1>3. own' = OwnWithoutScratch /\ misuse' = misuse
  BY <1>1, <1>2, WithoutScratch DEF OwnWithoutScratch, BadScratchFree, Noted
<1>4. NoShadow \in [made : BOOLEAN, mem : Buffer] /\ NoShadow.mem = NoScratch
  BY DEF NoShadow, NoScratch, Buffer
<1>5. InvTypes'
  BY <1>1, <1>2, <1>3, <1>4, WithoutScratch DEF Memory_z, InvTypes, Place, ctx
<1>6. InvShape' /\ InvHolders'
  BY <1>1, <1>2 DEF Memory_z, InvShape, InvHolders
<1>7. InvOwners'
  <2>1. \A x \in Object : obj[x].blk \in Heap => own'[obj[x].blk] = own[obj[x].blk]
    BY <1>2, <1>3, WithoutScratch, BlockFacts DEF Memory_z, InvHolders
  <2>. QED BY <1>1, <1>2, <2>1 DEF Memory_z, InvOwners, Resolve, ctx
<1>8. InvScratch' /\ InvShadow'
  BY <1>1, <1>2, <1>4 DEF Memory_z, InvScratch, InvShadow, ShadowMirrors, Over
<1>9. InvHeld'
  <2>. SUFFICES ASSUME ~Rebinds, NEW b \in Heap, own'[b] # "none"
                PROVE  \E z \in Object : obj[z].blk = b
    BY <1>1 DEF InvHeld
  <2>1. own[b] # "none" /\ b # scratch.blk
    BY <1>2, <1>3, WithoutScratch
  <2>. QED BY <1>2, <2>1 DEF Memory_z, InvHeld
<1>10. Memory_z'
  BY <1>5, <1>6, <1>7, <1>8, <1>9 DEF Memory_z
<1>11. NoTemporaries'
  BY <1>1 DEF Inv, Places, InvClient, NoTemporaries, Dead
<1>12. Places'
  BY <1>1, <1>11 DEF Places, InvCall, InvRaise, InvRaised, InvFailed, InvClient, InvOver
<1>. QED BY <1>3, <1>10, <1>12 DEF Inv, InvMisuse

\* global_shutdown frees the scratch buffer, once more if the thread has ended.
LEMMA GlobalShutdownKeeps == ASSUME Inv, GlobalShutdown PROVE Inv'
<1>1. /\ pc = "client" \/ (pc = "exited" /\ EndsLast)
      /\ FreeScratch /\ pc' = "shutdown" /\ UNCHANGED <<obj, ctx, todo, tag, before>>
  BY DEF GlobalShutdown
<1>2. Memory_z' /\ (pc \in Active => misuse' = misuse)
  BY <1>1, FreeScratchKeeps DEF Inv, Memory_z, InvTypes, Active, Over, ctx
<1>3. NoTemporaries'
  BY <1>1 DEF Inv, Places, InvClient, InvOver, Over, NoTemporaries, Dead
<1>4. Places'
  BY <1>1, <1>3 DEF Places, InvCall, InvRaise, InvRaised, InvFailed, InvClient, InvOver
<1>5. InvMisuse'
  <2>1. misuse' \subseteq misuse \cup {"free"}
    BY <1>1 DEF FreeScratch, Noted
  <2>. QED BY <1>1, <1>2, <2>1 DEF Inv, InvMisuse, Active
<1>. QED BY <1>2, <1>4, <1>5 DEF Inv

-----------------------------------------------------------------------------
(* Every step *)

LEMMA StutterKeeps == ASSUME Inv, UNCHANGED vars PROVE Inv'
<1>1. UNCHANGED <<obj, alias, scratch, shadow, zstack, level, pc, todo, own, before, tag, misuse>>
  BY DEF vars, ctx, hist
<1>2. Memory_z'
  BY <1>1 DEF Inv, Memory_z, InvTypes, InvShape, InvOwners, Resolve, InvHolders, InvScratch,
              InvShadow, ShadowMirrors, InvHeld
<1>3. InvCall'
  <2>1. SUFFICES ASSUME pc = "call" PROVE \E A, B : Holds(A)' /\ Runs(todo, A, B) /\ Final(B)
    BY <1>1 DEF InvCall
  <2>2. PICK A, B : Holds(A) /\ Runs(todo, A, B) /\ Final(B)
    BY <2>1 DEF Inv, Places, InvCall
  <2>3. Holds(A)'
    BY <1>1, <2>2 DEF Holds, Live, Kept, Original, TagOf, IdleAlias
  <2>. QED BY <2>2, <2>3
<1>4. InvRaise' /\ InvRaised' /\ InvFailed' /\ InvClient' /\ InvOver'
  BY <1>1 DEF Inv, Places, InvRaise, InvRaised, InvFailed, InvClient, InvOver, AllKept, Kept,
              Live, Original, TagOf, OnStack, NoTemporaries
<1>. QED BY <1>1, <1>2, <1>3, <1>4 DEF Inv, Places, InvMisuse

LEMMA ClientKeeps == ASSUME Inv, Client PROVE Inv'
BY AssignKeeps, ResizeKeeps, ArithmeticKeeps, MultiplyKeeps, SquareKeeps, OtherCallsKeep,
   ContextCallsKeep, DirectConstructionKeeps, MoveKeeps, SwapTwoKeeps, ThreadExitKeeps,
   GlobalShutdownKeeps DEF Client

-----------------------------------------------------------------------------
(* Theorems *)

\* The invariant: claims lead every call to its end, buffers have one holder, and
\* an error finds the integers of the client as they were (Inv of ZCallsInv).
THEOREM CallInvariance == Spec => []Inv
<1>1. Init => Inv
  BY InitInv
<1>2. Inv /\ [Next]_vars => Inv'
  BY StepKeeps, ClientKeeps, StutterKeeps DEF Next, Ended
<1>. QED BY <1>1, <1>2, PTL DEF Spec

\* Whatever fails and when, no block is lost, if the client exchanges an alias
\* only while no integer has memory from it (hebi_alloc_set_default).
THEOREM NothingLeakedAlways == ASSUME ~Rebinds PROVE Spec => []NothingLeaked
<1>1. Inv => NothingLeaked
  <2>. SUFFICES ASSUME Inv PROVE NothingLeaked
    OBVIOUS
  <2>1. Memory_z /\ scratch \in Buffer
    BY DEF Inv, Memory_z, InvTypes
  <2>2. \A z \in Zvar : obj[z].blk \in Heap => obj[z].blk \in Allocated
    BY <2>1, BlockFacts DEF Memory_z, InvOwners, Allocated
  <2>3. ASSUME NEW b \in Allocated, pc = "client" \/ pc \in Over
        PROVE  (\E z \in Zvar : obj[z].blk = b) \/ (pc \notin Over /\ scratch.blk = b)
    <3>1. b \in Heap /\ \A t \in Tmp : obj[t].blk = NoBlock
      BY <2>3 DEF Inv, Places, InvClient, InvOver, NoTemporaries, Dead, Allocated
    <3>2. (\E z \in Object : obj[z].blk = b) \/ (pc \notin Over /\ scratch.blk = b)
      BY <2>1 DEF Memory_z, InvHeld, Allocated
    <3>. QED BY <3>1, <3>2, BlockFacts DEF Object
  <2>4. pc = "client" /\ scratch.blk \in Heap => scratch.blk \in Allocated
    BY <2>1, BlockFacts, KeyFacts DEF Memory_z, InvScratch, Over, Allocated
  <2>5. Allocated \subseteq Heap
    BY DEF Allocated
  <2>. QED BY <2>2, <2>3, <2>4, <2>5 DEF NothingLeaked, HeldBy, Over
<1>. QED BY <1>1, CallInvariance, PTL

\* Every block goes back to the allocator that handed it out, once: under that
\* condition, and if another thread than the last to exit ends the process.
THEOREM FreedByOwnerAlways == ASSUME ~Rebinds, ~EndsLast PROVE Spec => []FreedByOwner
<1>1. Inv => FreedByOwner
  BY DEF Inv, InvMisuse, FreedByOwner
<1>. QED BY <1>1, CallInvariance, PTL

\* A kernel finds in its operands what the caller passed, whatever integers a
\* call is given more than once and whatever calls failed before (hebi_zmul,
\* hebi_zsqr, hebi_zdivrem, hebi_zset and the calls that work in place).
THEOREM OperandsIntactAlways == Spec => []OperandsIntact
<1>1. Inv => OperandsIntact
  BY DEF Inv, InvMisuse, OperandsIntact
<1>. QED BY <1>1, CallInvariance, PTL

\* An error leaves the integers of the client as they were (hebi_error_raise).
THEOREM OutputsKeptOnErrorAlways == Spec => []OutputsKeptOnError
<1>1. Inv => OutputsKeptOnError
  BY DEF Inv, Places, InvFailed, AllKept, Kept, OutputsKeptOnError
<1>. QED BY <1>1, CallInvariance, PTL

\* Temporaries are popped in the reverse order of their pushes, and no call
\* leaves one on the stack (hebi_zinit_push__, hebi_zdestroy_pop__).
THEOREM TemporariesEndAlways == Spec => []TemporariesEnd
<1>1. Inv => TemporariesEnd
  BY DEF Inv, Places, InvClient, InvMisuse, TemporariesEnd
<1>. QED BY <1>1, CallInvariance, PTL

\* No two integers share a buffer, and none is the scratch buffer.
THEOREM OneHolderAlways == Spec => []OneHolder
<1>1. Inv => OneHolder
  BY DEF Inv, Memory_z, InvHolders, OneHolder
<1>. QED BY <1>1, CallInvariance, PTL

\* The shadow knows the scratch buffer whenever the thread may end (context.c).
THEOREM ShadowMirrorsAlways == Spec => []ShadowMirrors
<1>1. Inv => ShadowMirrors
  BY DEF Inv, Memory_z, InvShadow
<1>. QED BY <1>1, CallInvariance, PTL

=============================================================================
