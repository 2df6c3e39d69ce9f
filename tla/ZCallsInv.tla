------------------------------ MODULE ZCallsInv ------------------------------
(***************************************************************************)
(* Why the calls of ZCalls treat memory well: the invariant that           *)
(* ZCalls_proofs proves.  A call is a sequence of steps, `todo`; what a    *)
(* step needs and what it leaves is said by claims about the integers, and *)
(* a program is good if claims lead through it from its start to its end.  *)
(***************************************************************************)
EXTENDS ZCalls

-----------------------------------------------------------------------------
(* Claims *)

\* live: integers that are made; bare: without a buffer; stk: the temporaries;
\* kept: integers of the client as the call found them; idle: aliases that no
\* buffer came from; room: packets a buffer has room for, at least.
Claim == [live : SUBSET Object, bare : SUBSET Object, stk : Seq(Tmp), kept : SUBSET Zvar,
          idle : SUBSET Alias, room : [Object -> Nat]]

Kept(z) == Live(z) = before[z].live /\ obj[z].nz = before[z].nz /\ Original(z)

IdleAlias(a) == \A z \in Object : obj[z].id = a => obj[z].blk = NoBlock

\* Claim A is true of the state.
Holds(A) ==
    /\ A \in Claim
    /\ \A z \in A.live : Live(z)
    /\ \A z \in A.bare : obj[z].blk = NoBlock
    /\ zstack = A.stk
    /\ \A z \in A.kept : Kept(z)
    /\ \A a \in A.idle : IdleAlias(a)
    /\ \A z \in Object : A.room[z] =< obj[z].cap

\* B claims nothing that A does not.
Below(B, A) ==
    /\ B.live \subseteq A.live /\ B.bare \subseteq A.bare /\ B.stk = A.stk
    /\ B.kept \subseteq A.kept /\ B.idle \subseteq A.idle
    /\ \A z \in Object : B.room[z] =< A.room[z]

\* An error may be raised: the integers of the client are as they were, and the
\* temporaries that have a buffer are on the stack.
MayRaise(A) ==
    /\ A.kept = Zvar
    /\ \A t \in Tmp : t \in A.bare \/ \E i \in 1 .. Len(A.stk) : A.stk[i] = t

\* What step s needs.
Needs(A, s) ==
    CASE s.op = "error" -> MayRaise(A)
      [] s.op = "zero" -> s.z \in Object
      [] s.op = "kernel" -> s.outs \subseteq Object /\ s.reads \subseteq A.kept
      [] s.op = "publish" -> s.z \in Object /\ \A n \in s.ns : n \in Nat /\ n =< A.room[s.z]
      [] s.op = "swap" -> s.z \in A.live /\ s.r \in A.live
      [] s.op = "make" -> s.z \in A.bare \cap Tmp /\ s.id \in AllocId
      [] s.op = "grow" -> s.z \in A.live /\ s.n \in Nat /\ MayRaise(A)
      [] s.op = "realloc" -> s.z \in A.live /\ s.n \in Nat /\ MayRaise(A)
      [] s.op = "construct" ->
            /\ s.z \in A.bare /\ s.id \in AllocId /\ s.n \in Nat /\ s.nz \in BOOLEAN
            /\ s.used \in Nat /\ s.used =< s.n /\ (s.nz => s.used > 0)
            /\ s.reads \subseteq A.kept /\ (\A a \in s.reads : s.used =< A.room[a])
            /\ MayRaise(A)
      [] s.op = "destroy" -> s.z \in A.live
      [] s.op = "push" -> s.z \in A.bare \cap Tmp /\ s.id \in AllocId /\ MayRaise(A)
      [] s.op = "pop" -> /\ s.z \in A.live \cap Tmp
                         /\ A.stk # <<>> /\ A.stk[Len(A.stk)] = s.z
      [] s.op = "scratch" -> s.n \in Nat /\ MayRaise(A)
      [] s.op = "unscratch" -> TRUE
      [] s.op = "alias" -> /\ s.a \in Alias /\ s.id \in AllocId \cup {"INVALID"}
                           /\ ~Rebinds => s.a \in A.idle
                           /\ MayRaise(A)
      [] OTHER -> FALSE

\* What is true when it is done.
Leaves(A, s) ==
    CASE s.op \in {"zero", "publish"} -> [A EXCEPT !.kept = @ \ {s.z}]
      [] s.op = "kernel" -> [A EXCEPT !.kept = @ \ s.outs]
      [] s.op = "swap" ->
            [A EXCEPT !.bare = @ \ {s.z, s.r}, !.kept = @ \ {s.z, s.r}, !.idle = {},
                      !.room = [A.room EXCEPT ![s.z] = A.room[s.r], ![s.r] = A.room[s.z]]]
      [] s.op = "make" ->
            [A EXCEPT !.live = @ \cup {s.z}, !.room = [A.room EXCEPT ![s.z] = 0]]
      [] s.op = "grow" ->
            [A EXCEPT !.bare = @ \ {s.z}, !.kept = IF s.copy THEN @ ELSE @ \ {s.z}, !.idle = {},
                      !.room = [A.room EXCEPT ![s.z] = s.n]]
      [] s.op = "realloc" ->
            [A EXCEPT !.bare = @ \ {s.z}, !.kept = @ \ {s.z}, !.idle = {},
                      !.room = [A.room EXCEPT ![s.z] = s.n]]
      [] s.op = "construct" ->
            [A EXCEPT !.live = @ \cup {s.z}, !.bare = @ \ {s.z}, !.kept = @ \ {s.z}, !.idle = {},
                      !.room = [A.room EXCEPT ![s.z] = s.n]]
      [] s.op = "destroy" ->
            [A EXCEPT !.live = @ \ {s.z}, !.bare = @ \cup {s.z}, !.kept = @ \ {s.z},
                      !.room = [A.room EXCEPT ![s.z] = 0]]
      [] s.op = "push" ->
            [A EXCEPT !.live = @ \cup {s.z}, !.stk = Append(@, s.z),
                      !.room = [A.room EXCEPT ![s.z] = 0]]
      [] s.op = "pop" ->
            [A EXCEPT !.live = @ \ {s.z}, !.bare = @ \cup {s.z},
                      !.stk = SubSeq(@, 1, Len(@) - 1), !.room = [A.room EXCEPT ![s.z] = 0]]
      [] s.op = "alias" -> [A EXCEPT !.idle = {}]
      [] OTHER -> A

\* No step of the call follows an error.
Edge(A, s, B) == Needs(A, s) /\ B \in Claim /\ (s.op # "error" => Below(B, Leaves(A, s)))

IsSeq(p) == \E S : p \in Seq(S)

\* Claims lead through the steps of p, which has no choice of programs, from A to B.
Straight(p, A, B) ==
    /\ IsSeq(p)
    /\ \E T : /\ T[1] = A /\ T[Len(p) + 1] = B
             /\ \A i \in 1 .. Len(p) : Edge(T[i], p[i], T[i + 1])

\* At the end of a call the temporaries are gone.
Final(B) == B \in Claim /\ B.stk = <<>> /\ Tmp \subseteq B.bare

\* A choice of programs is the last step.
Choice(A, s, B) ==
    \/ Edge(A, s, B)
    \/ /\ s.op = "either" /\ Final(B)
       /\ \A p \in s.programs : \E C : Straight(p, A, C) /\ Final(C)

Runs(p, A, B) ==
    /\ IsSeq(p)
    /\ \E T : /\ T[1] = A /\ T[Len(p) + 1] = B
             /\ \A i \in 1 .. Len(p) : Choice(T[i], p[i], T[i + 1])

-----------------------------------------------------------------------------
(* The invariant *)

Over == {"exited", "shutdown"}

Number == [blk : Block \cup {NoBlock}, cap : Nat, used : Nat, nz : BOOLEAN, id : AllocId \cup {"INVALID"}]
Buffer == [fp : Key \cup {"none"}, blk : Heap \cup {NoBlock}, size : Nat]

InvTypes ==
    /\ obj \in [Object -> Number]
    /\ alias \in [Alias -> {"STDLIB"} \cup Custom]
    /\ own \in [Heap -> Key \cup {"none"}]
    /\ scratch \in Buffer
    /\ shadow \in [made : BOOLEAN, mem : Buffer]
    /\ tag \in [Block -> Zvar \cup {"junk", "new"}]
    /\ before \in [Zvar -> [live : BOOLEAN, used : Nat, nz : BOOLEAN]]
    /\ zstack \in Seq(Tmp) /\ level \in Nat
    /\ pc \in Place

\* A value fits its buffer, and an integer that is not made has none.
InvShape ==
    \A z \in Object :
        /\ obj[z].id = "INVALID" => obj[z].blk = NoBlock
        /\ obj[z].blk = NoBlock => obj[z].cap = 0
        /\ obj[z].used =< obj[z].cap
        /\ obj[z].nz => obj[z].used > 0

\* The allocator of a buffer is the one that its integer names.
InvOwners ==
    \A z \in Object :
        /\ obj[z].blk \in Heap => /\ own[obj[z].blk] # "none"
                                  /\ ~Rebinds => own[obj[z].blk] = Resolve(obj[z].id)
        /\ obj[z].blk \in Zvar => obj[z].id = "FIXED"

InvHolders ==
    \A x, y \in Object : obj[x].blk # NoBlock =>
        /\ x # y => obj[x].blk # obj[y].blk
        /\ obj[x].blk # scratch.blk

InvScratch ==
    /\ scratch.blk # NoBlock => scratch.fp \in Key
    /\ scratch.blk = NoBlock => scratch = NoScratch
    /\ pc \notin Over /\ scratch.blk # NoBlock => own[scratch.blk] = scratch.fp

InvShadow ==
    /\ ShadowMirrors
    /\ ~shadow.made => shadow.mem = NoScratch

\* Every block that was handed out has a holder.
InvHeld ==
    ~Rebinds => \A b \in Heap : own[b] # "none" =>
        (\E z \in Object : obj[z].blk = b) \/ (pc \notin Over /\ scratch.blk = b)

AllKept == \A z \in Zvar : Kept(z)

NoTemporaries == \A t \in Tmp : obj[t].blk = NoBlock

\* The temporaries with a buffer are among the lowest n of the stack.
OnStack(n) == \A t \in Tmp : obj[t].blk # NoBlock => \E i \in 1 .. n : zstack[i] = t

InvCall   == pc = "call" => \E A, B : Holds(A) /\ Runs(todo, A, B) /\ Final(B)
InvRaise  == pc \in {"raise", "unwind"} => AllKept /\ level =< Len(zstack) /\ OnStack(level)
InvRaised == pc = "raise" => level = Len(zstack)
InvFailed == pc = "failed" => AllKept /\ NoTemporaries /\ zstack = <<>>
InvClient == pc = "client" => (\A t \in Tmp : obj[t] = Dead) /\ zstack = <<>>
InvOver   == pc \in Over => NoTemporaries

InvMisuse ==
    /\ misuse \subseteq {"free"}
    /\ ~Rebinds /\ ~EndsLast => misuse = {}

Memory_z == InvTypes /\ InvShape /\ InvOwners /\ InvHolders /\ InvScratch /\ InvShadow /\ InvHeld
Places   == InvCall /\ InvRaise /\ InvRaised /\ InvFailed /\ InvClient /\ InvOver

Inv == Memory_z /\ Places /\ InvMisuse

=============================================================================
