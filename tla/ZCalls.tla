------------------------------- MODULE ZCalls -------------------------------
(***************************************************************************)
(* The calls a thread makes on its integers and on its context, as the     *)
(* sequences of Runtime's steps that src/z/*.c and src/*.c go through, and *)
(* the clients that make them in any order.                                *)
(***************************************************************************)
EXTENDS Runtime

CONSTANTS
    MulCutoff,      \* KARATSUBA_MUL_CUTOFF
    SqrCutoff,      \* KARATSUBA_SQR_CUTOFF
    MaxUsed,        \* bound: packets of a value the client lets a call compute
    Size,           \* lengths that clients and estimators of space ask for
    CustomMax,      \* bound: aliases that stand for an allocator of the client
    ClientId,       \* allocator ids the client makes integers with
    Rebinds,        \* TRUE: an alias may be set while it owns memory
    EndsLast        \* TRUE: the process ends with the end of this thread

ASSUME ZCallsAssumption ==
    /\ MulCutoff \in Nat /\ SqrCutoff \in Nat /\ MaxUsed \in Nat /\ CustomMax \in Nat /\ Size \subseteq Nat
    /\ ClientId \subseteq AllocId
    /\ Rebinds \in BOOLEAN /\ EndsLast \in BOOLEAN

Forgotten == [z \in Zvar |-> [live |-> FALSE, used |-> 0, nz |-> FALSE]]

Init ==
    /\ obj = [z \in Object |-> Dead]
    /\ alias = [a \in Alias |-> "STDLIB"]
    /\ scratch = NoScratch /\ shadow = NoShadow
    /\ zstack = <<>> /\ level = 0
    /\ pc = "client" /\ todo = <<>>
    /\ own = [b \in Heap |-> "none"]
    /\ tag = [b \in Block |-> "junk"]
    /\ before = Forgotten
    /\ misuse = {}

-----------------------------------------------------------------------------
(* The programs of the calls *)

NoStep == <<>>

\* hebi_zset(r, a): hebi_zset_copy unless they are one
SetTo(r, a) ==
    IF r = a THEN NoStep
    ELSE IF ~obj[a].nz THEN <<Zero(r)>>
    ELSE (IF obj[a].used > obj[r].cap THEN <<Realloc(r, obj[a].used, FALSE)>> ELSE NoStep)
         \o <<Kernel({r}, {a}), Publish(r, {obj[a].used})>>

\* hebi_zseti and hebi_zsetu of a non-zero word
SetWord(r) ==
    (IF obj[r].cap = 0 THEN <<Realloc(r, 1, FALSE)>> ELSE NoStep)
    \o <<Kernel({r}, {}), Publish(r, {1})>>

\* hebi_zreserve and hebi_zshrink
Reserve(z, n) == IF n > obj[z].cap THEN <<Realloc(z, n, TRUE)>> ELSE NoStep
Shrink(z) ==
    IF obj[z].nz /\ obj[z].used < obj[z].cap THEN <<Realloc(z, obj[z].used, TRUE)>> ELSE NoStep

\* The calls that work in the buffer of the result: hebi_zadd, zsub, zaddu,
\* zsubu, zmulu, zand, zor, zxor, zshl, zshr, zdivremu, ...  The result is made
\* room for n packets, and its old value kept if it is an operand.
InPlace(r, operands, n) ==
    <<Grow(r, n, r \in operands), Kernel({r}, operands), Publish(r, {0, n})>>

\* A slip: the result is computed in place even if it is an operand.
MulTarget_InPlace(r, a, b) == r

\* Where hebi_zmul and hebi_zsqr compute.
MulTarget(r, a, b) == IF r \in {a, b} THEN "rtmp" ELSE r

\* A slip: the result is grown before the scratch buffer is asked for.
MulMemory_GrowFirst(rz, large, n, space) ==
    IF large THEN <<Grow(rz, n + 1, FALSE), Scratch(space)>> ELSE <<Grow(rz, n, FALSE)>>

\* The memory for a product of n packets; the Karatsuba kernels use one more.
MulMemory(rz, large, n, space) ==
    IF large THEN <<Scratch(space), Grow(rz, n + 1, FALSE)>> ELSE <<Grow(rz, n, FALSE)>>

\* hebi_zmul(r, a, b), where m packets of the product are not zero
Mul(r, a, b, space, m) ==
    LET an == Larger(obj[a].used, obj[b].used)
        n  == obj[a].used + obj[b].used
        rz == MulTarget(r, a, b)
        to == MulMemory(rz, an > MulCutoff, n, space) \o <<Kernel({rz}, {a, b}), Publish(rz, {m})>>
    IN  IF ~obj[a].nz \/ ~obj[b].nz THEN <<Zero(r)>>
        ELSE IF rz = r THEN to
        ELSE <<Push(rz, obj[r].id)>> \o to \o <<Swap(rz, r), Pop(rz)>>

\* hebi_zsqr(r, a): its temporary is not on the stack
Sqr(r, a, space, m) ==
    LET n  == 2 * obj[a].used
        t  == MulTarget(r, a, a)
        to == MulMemory(t, obj[a].used > SqrCutoff, n, space) \o <<Kernel({t}, {a}), Publish(t, {m})>>
    IN  IF ~obj[a].nz THEN <<Zero(r)>>
        ELSE IF t = r THEN to
        ELSE <<Make(t, obj[r].id)>> \o to \o <<Swap(r, t), Destroy(t)>>

Null == "null"

\* What hebi_zdivrem makes for a result that is wanted, and how it ends in it.
DivTmp(t, z, n) == IF z = Null THEN NoStep ELSE <<Push(t, obj[z].id), Grow(t, n, FALSE)>>
DivResult(t, z, ns) == IF z = Null THEN NoStep ELSE <<Swap(t, z), Pop(t), Publish(z, ns)>>
IfWanted(z, steps) == IF z = Null THEN NoStep ELSE steps

\* A slip: the results are moved out in the order they were made.
DivResults_InOrder(q, r, qn, rn) == DivResult("qtmp", q, qn) \o DivResult("rtmp", r, rn)

\* The temporaries are popped in the reverse of the order they were pushed.
DivResults(q, r, qn, rn) == DivResult("rtmp", r, rn) \o DivResult("qtmp", q, qn)

\* hebi_zdivrem(q, r, a, b)
DivRem(q, r, a, b) ==
    LET an == obj[a].used
        bn == obj[b].used
        n  == an - bn + 1
    IN  IF ~obj[b].nz THEN <<Error>>
        ELSE IF ~obj[a].nz THEN IfWanted(r, <<Zero(r)>>) \o IfWanted(q, <<Zero(q)>>)
        ELSE IF an < bn THEN IfWanted(r, SetTo(r, a)) \o IfWanted(q, <<Zero(q)>>)
        ELSE <<Scratch(an + bn + 2 + (IF q = Null THEN n ELSE 0))>>
             \o DivTmp("qtmp", q, n) \o DivTmp("rtmp", r, bn)
             \o <<Kernel({"qtmp", "rtmp"}, {a, b})>>
             \o DivResults(q, r, {n - 1, n}, {0, bn})

\* hebi_zgetstr, and hebi_zdivremu without a quotient: a is worked on in the
\* scratch buffer.
ReadInScratch(a) ==
    IF obj[a].nz THEN <<Scratch(obj[a].used), Kernel({}, {a})>> ELSE NoStep

\* hebi_zsetstr(r): the string needs `space` packets.  Its value has all of them
\* or none; bad syntax gives zero, any other error is raised.
SetStr(r, space) ==
    LET q == "qtmp"
        parse  == IF space = 0 THEN NoStep ELSE <<Grow(q, space, FALSE), Kernel({q}, {})>>
        value  == <<Publish(q, {0, space}), Swap(q, r), Pop(q)>>
        syntax == <<Zero(r), Pop(q)>>
    IN  <<Push(q, obj[r].id)>> \o parse \o <<Either({value, syntax, <<Error>>})>>

\* hebi_zinit_reserve, hebi_zinit_copy and hebi_zinit_copy_reserve; zinit_copy
\* counts the packets of a zero as well.
InitReserve(z, n, id) == <<Construct(z, id, n, 0, FALSE, {})>>
InitCopy(z, a) == <<Construct(z, "DEFAULT", obj[a].used, obj[a].used, obj[a].nz, {a})>>
InitCopyReserve(z, a, n, id) ==
    <<Construct(z, id, Larger(n, Used(a)), Used(a), obj[a].nz, {a})>>

-----------------------------------------------------------------------------
(* The client *)

\* A call starts.
Run(program) ==
    /\ pc = "client"
    /\ pc' = "call" /\ todo' = program
    /\ before' = [z \in Zvar |-> [live |-> Live(z), used |-> obj[z].used, nz |-> obj[z].nz]]
    /\ tag' = [b \in Block |-> IF \E z \in Zvar : obj[z].blk = b
                               THEN CHOOSE z \in Zvar : obj[z].blk = b ELSE "junk"]
    /\ UNCHANGED <<obj, scratch, shadow, ctx, own, misuse>>

\* A call ends, or the handler has taken the thread out of it; its temporaries
\* go with its stack frame.
Return ==
    /\ pc = "failed" \/ (pc = "call" /\ todo = <<>>)
    /\ pc' = "client"
    /\ obj' = [z \in Object |-> IF z \in Tmp THEN Dead ELSE obj[z]]
    /\ before' = Forgotten
    /\ tag' = [b \in Block |-> "junk"]
    /\ UNCHANGED <<scratch, shadow, ctx, todo, own, misuse>>

\* Integers the client may pass.
Ready == {z \in Zvar : Live(z)}
Unmade == {z \in Zvar : ~Live(z)}

\* Lengths a value of at most n packets may have.
Small(n) == n =< MaxUsed

Assign ==
    \E r \in Ready :
        \/ \E a \in Ready \ {r} : Run(SetTo(r, a))
        \/ Run(SetWord(r))
        \/ Run(<<Zero(r)>>)

Resize ==
    \E z \in Ready :
        \/ \E n \in Size : Run(Reserve(z, n))
        \/ Run(Shrink(z))
        \/ \E n \in Size, keep \in BOOLEAN : Run(<<Realloc(z, n, keep)>>)

Arithmetic ==
    \E r, a, b \in Ready :
        /\ obj[a].nz /\ obj[b].nz
        /\ \E n \in {Smaller(Used(a), Used(b)), Larger(Used(a), Used(b)) + 1} :
              /\ Small(n)
              /\ Run(InPlace(r, {a, b}, n))

Multiply ==
    \E r, a, b \in Ready :
        /\ Small(Used(a) + Used(b))
        /\ \E space \in Size : Run(Mul(r, a, b, space, Used(a) + Used(b)))

Square ==
    \E r, a \in Ready :
        /\ Small(2 * Used(a))
        /\ \E space \in Size : Run(Sqr(r, a, space, 2 * Used(a)))

Divide ==
    \E q, r \in Ready \cup {Null}, a, b \in Ready : q # r /\ Run(DivRem(q, r, a, b))

Strings ==
    \E r \in Ready, space \in Size : Small(space) /\ Run(SetStr(r, space))

Read == \E a \in Ready : Run(ReadInScratch(a))

Construction ==
    \E z \in Unmade :
        \/ \E n \in Size, id \in ClientId : Run(InitReserve(z, n, id))
        \/ \E a \in Ready : Run(InitCopy(z, a))
        \/ \E a \in Ready, n \in Size, id \in ClientId : Run(InitCopyReserve(z, a, n, id))

Destruction == \E z \in Ready : Run(<<Destroy(z)>>)

\* The calls without a callback and without an error are one step.
Direct(next) ==
    /\ pc = "client"
    /\ obj' = next
    /\ UNCHANGED <<scratch, shadow, ctx, pc, todo, own, before, hist>>

\* hebi_zinit_allocator; hebi_zinit_fixed over a buffer of the client that no
\* integer has, and hebi_zinit_copy_fixed.
DirectConstruction ==
    \E z \in Unmade :
        \/ \E id \in ClientId : Direct([obj EXCEPT ![z] = Empty(id)])
        \/ /\ \A y \in Zvar : obj[y].blk # z
           /\ \E n \in Size \ {0} :
                 Direct([obj EXCEPT ![z] = [Empty("FIXED") EXCEPT !.blk = z, !.cap = n]])
        \/ /\ \A y \in Zvar : obj[y].blk # z
           /\ \E a \in Ready, n \in Size \ {0} :
                 /\ n >= Used(a)
                 /\ Direct([obj EXCEPT ![z] = [Empty("FIXED") EXCEPT
                               !.blk = z, !.cap = n, !.used = Used(a), !.nz = obj[a].nz]])

\* hebi_zinit_copy_fixed with a buffer that is too short
ShortBuffer == \E a \in Ready, n \in Size : n < Used(a) /\ Run(<<Error>>)

\* A slip: the integer moved from is left as it was.
MovedFrom_Kept(s) == obj[s]

\* What is left of an integer that was moved from.
MovedFrom(s) == Empty("DEFAULT")

\* hebi_zinit_move, and hebi_zset_move into an integer without a buffer
Move ==
    \E r \in Zvar, s \in Ready :
        /\ r # s
        /\ obj[r].blk = NoBlock
        /\ Direct([obj EXCEPT ![r] = obj[s], ![s] = MovedFrom(s)])

SwapTwo == \E z, r \in Ready : z # r /\ Direct([obj EXCEPT ![z] = obj[r], ![r] = obj[z]])

\* An alias that some integer has memory from.
Owns(a) == \E z \in Zvar : obj[z].id = a /\ obj[z].blk # NoBlock

AliasRefused(id) == id = "INVALID" \/ Resolve(id) = "FIXED"

\* setallocalias: the fixed allocator and unknown ids are refused.
SetAlias(a, id) == [op |-> "alias", a |-> a, id |-> id]

DoSetAlias ==
    LET s == Head(todo)
    IN  /\ At("alias")
        /\ IF AliasRefused(s.id)
           THEN Raise /\ UNCHANGED alias
           ELSE alias' = [alias EXCEPT ![s.a] = Resolve(s.id)] /\ Continue
        /\ UNCHANGED <<obj, scratch, shadow, zstack, own, before, hist>>

\* hebi_alloc_set_default and hebi_alloc_set_scratch.  At most CustomMax of the
\* two stand for an allocator of the client at a time.
SetAliases ==
    \E a \in Alias, id \in AllocId \cup {"INVALID"} :
        /\ Rebinds \/ ~Owns(a)
        /\ Resolve(id) \in Custom => Cardinality({o \in Alias \ {a} : alias[o] \in Custom}) < CustomMax
        /\ Run((IF a = "SCRATCH" THEN <<Unscratch>> ELSE NoStep) \o <<SetAlias(a, id)>>)

ReleaseScratch == Run(<<Unscratch>>)

\* ctxshut: the thread ends, and the shadow with the buffer it knows of.  The
\* context keeps what it had.
ThreadExit ==
    /\ pc = "client"
    /\ own' = Freed(own, shadow.mem.fp, shadow.mem.blk)
    /\ Noted(IsBadFree(own, shadow.mem.fp, shadow.mem.blk), "free")
    /\ shadow' = NoShadow
    /\ pc' = "exited"
    /\ UNCHANGED <<obj, scratch, ctx, todo, tag, before>>

\* global_shutdown runs in the thread that ends the process: in a call of exit,
\* or after ctxshut if it is the last thread.
GlobalShutdown ==
    /\ pc = "client" \/ (pc = "exited" /\ EndsLast)
    /\ FreeScratch
    /\ pc' = "shutdown"
    /\ UNCHANGED <<obj, ctx, todo, tag, before>>

Step ==
    \/ DoError \/ DoEither \/ DoZero \/ DoKernel \/ DoPublish \/ DoSwap \/ DoMake
    \/ DoGrow \/ DoRealloc \/ DoConstruct \/ DoDestroy \/ DoPush \/ DoPop
    \/ ScratchKept \/ ScratchGrown \/ ScratchFails \/ ScratchTooLong \/ DoUnscratch
    \/ DoSetAlias \/ RaiseFreesScratch \/ Unwind \/ Unwound \/ Return

Client ==
    \/ Assign \/ Resize \/ Arithmetic \/ Multiply \/ Square \/ Divide \/ Strings \/ Read
    \/ Construction \/ Destruction \/ DirectConstruction \/ ShortBuffer \/ Move \/ SwapTwo
    \/ SetAliases \/ ReleaseScratch \/ ThreadExit \/ GlobalShutdown

Ended == pc \in {"abort", "exited", "shutdown"} /\ UNCHANGED vars

Next == Step \/ Client \/ Ended

Spec == Init /\ [][Next]_vars

-----------------------------------------------------------------------------
(* Properties *)

Place == {"client", "call", "raise", "unwind", "failed", "abort", "exited", "shutdown"}
Integer_z == [blk : Block \cup {NoBlock}, cap : 0 .. MaxLen, used : 0 .. MaxLen,
              nz : BOOLEAN, id : AllocId \cup {"INVALID"}]
Memory == [fp : Key \cup {"none"}, blk : Heap \cup {NoBlock}, size : 0 .. MaxLen]

\* Type invariant.
TypeOK ==
    /\ obj \in [Object -> Integer_z]
    /\ before \in [Zvar -> [live : BOOLEAN, used : 0 .. MaxLen, nz : BOOLEAN]]
    /\ alias \in [Alias -> {"STDLIB"} \cup Custom]
    /\ scratch \in Memory
    /\ shadow \in [made : BOOLEAN, mem : Memory]
    /\ zstack \in Seq(Tmp) /\ level \in 0 .. Len(zstack)
    /\ pc \in Place
    /\ own \in [Heap -> Key \cup {"none"}]
    /\ tag \in [Block -> Zvar \cup {"junk", "new"}]
    /\ misuse \subseteq {"free", "read", "pop"}

Allocated == {b \in Heap : own[b] # "none"}
HeldBy(objects) == {obj[z].blk : z \in objects} \cap Heap

\* Whatever fails and when, no block is lost: between two calls every block
\* handed out is the buffer of an integer of the client or the scratch buffer,
\* and a thread that ends leaves only the integers.
NothingLeaked ==
    /\ pc = "client" => Allocated = HeldBy(Zvar) \cup ({scratch.blk} \cap Heap)
    /\ pc \in {"exited", "shutdown"} => Allocated = HeldBy(Zvar)

\* Every block goes back to the allocator that handed it out, once.
FreedByOwner == "free" \notin misuse

\* A kernel finds in its operands the values the caller passed: no aliasing of
\* the result with an operand, no growing of the result, no failed call before
\* has destroyed them, and every copy stays inside its source.
OperandsIntact == "read" \notin misuse

\* An error leaves every integer of the client with the value it had.
OutputsKeptOnError ==
    pc = "failed" => \A z \in Zvar : /\ Live(z) = before[z].live
                                    /\ obj[z].nz = before[z].nz
                                    /\ Original(z)

\* Temporaries are popped in the reverse order of their pushes, and no call,
\* returned from or left by an error, leaves one on the stack.
TemporariesEnd ==
    /\ "pop" \notin misuse
    /\ pc = "client" => zstack = <<>>

\* Two integers never share a buffer, nor one with the scratch buffer.
OneHolder ==
    \A x, y \in Object : obj[x].blk # NoBlock =>
        /\ x # y => obj[x].blk # obj[y].blk
        /\ pc \notin {"exited", "shutdown"} => obj[x].blk # scratch.blk

\* The shadow knows the scratch buffer of its thread whenever the thread may end.
ShadowMirrors ==
    pc \in {"client", "call", "raise", "unwind", "failed"} => shadow.mem = scratch

=============================================================================
