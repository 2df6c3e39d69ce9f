------------------------------ MODULE Runtime ------------------------------
(***************************************************************************)
(* The context of one thread (struct hebi_context of internal.h,           *)
(* src/context.c, src/realloc_scratch.c, src/error_raise.c) and the memory *)
(* its calls move: the scratch buffer and its shadow, the stack of         *)
(* temporary integers, the buffers of integers.                            *)
(*                                                                         *)
(* A call is a sequence of steps, `todo`, that module ZCalls composes; a   *)
(* step invokes the callbacks of an allocator, raises, or moves values.    *)
(* Every allocation may fail.  Lengths count packets; of a value the model *)
(* keeps its length, whether it is zero, and where it came from.           *)
(***************************************************************************)
EXTENDS Integers, Sequences, FiniteSets

CONSTANTS
    Zvar,           \* the integers of the client
    Custom,         \* allocators the client has registered
    Heap,           \* numbers of the blocks that allocators hand out
    MaxLen,         \* HEBI_PACKET_MAXLEN
    StackMax,       \* ZSTACK_MAX_SIZE
    NoBlock         \* a null pointer

Tmp    == {"qtmp", "rtmp"}
Object == Zvar \cup Tmp

\* Allocator keys, and the ids an integer may carry.
Alias   == {"DEFAULT", "SCRATCH"}
Key     == {"STDLIB", "FIXED"} \cup Custom
AllocId == Key \cup Alias

\* A fixed buffer of the client is named by the integer it is made for.
Block == Heap \cup Zvar

ASSUME RuntimeAssumption ==
    /\ MaxLen \in Nat \ {0} /\ StackMax \in Nat \ {0}
    /\ Zvar \cap Tmp = {} /\ Heap \cap Zvar = {} /\ NoBlock \notin Block
    /\ Custom \cap ({"STDLIB", "FIXED", "INVALID", "none"} \cup Alias) = {}
    /\ Zvar \cap {"junk", "new", "null"} = {}

VARIABLES
    obj,            \* obj[z]: hz_packs, hz_resv, hz_used, hz_sign # 0, hz_allocid
    alias,          \* allocaliaskeys
    scratch,        \* scratchfp, scratch and scratchsize of the context
    shadow,         \* the same in the shadow context, and whether it exists
    zstack,         \* the temporaries pushed and not yet popped
    level,          \* hebi_error_raise: temporaries left to destroy
    pc,             \* "client", in a call, on the way of an error, or ended
    todo,           \* the steps left of the call
    (* history, read by no step of the code *)
    own,            \* own[b]: the allocator that handed block b out, or "none"
    tag,            \* tag[b]: whose value at the start of the call b holds
    before,         \* the integers as they were when the call started
    misuse          \* what went wrong so far: "free", "read", "pop"

ctx  == <<alias, zstack, level>>
hist == <<tag, misuse>>
vars == <<obj, scratch, shadow, ctx, pc, todo, own, before, hist>>

-----------------------------------------------------------------------------
(* Integers, buffers and allocators *)

Dead == [blk |-> NoBlock, cap |-> 0, used |-> 0, nz |-> FALSE, id |-> "INVALID"]

\* hebi_zinit_allocator
Empty(id) == [Dead EXCEPT !.id = id]

NoScratch == [fp |-> "none", blk |-> NoBlock, size |-> 0]
NoShadow  == [made |-> FALSE, mem |-> NoScratch]

Live(z) == obj[z].id # "INVALID"

\* hebi_zused
Used(z) == IF obj[z].nz THEN obj[z].used ELSE 0

Larger(m, n)  == IF m > n THEN m ELSE n
Smaller(m, n) == IF m < n THEN m ELSE n

\* hebi_alloc_query_key__: an alias stands for the allocator it is set to.
Resolve(id) == IF id \in Alias THEN alias[id] ELSE id

\* The id that hebi_alloc_query hands back: predefined allocators are resolved,
\* the alias of a custom allocator comes back as the alias.
Returned(id) == IF Resolve(id) \in {"STDLIB", "FIXED"} THEN Resolve(id) ELSE id

\* Blocks in nobody's hands when the owners of the blocks are f.
Unused(f) == {b \in Heap : f[b] = "none"}
Fresh(f)  == CHOOSE b \in Unused(f) : TRUE

Granted(f, k, b) == [f EXCEPT ![b] = k]

\* The free callback of allocator k gets block b: fixedfree ignores it.
Freed(f, k, b) == IF b \in Heap /\ f[b] = k THEN [f EXCEPT ![b] = "none"] ELSE f

\* Block b is not one that allocator k handed out and did not get back yet.
IsBadFree(f, k, b) ==
    /\ b # NoBlock
    /\ IF b \in Heap THEN f[b] # k ELSE k # "FIXED"

Noted(bad, what) == misuse' = IF bad THEN misuse \cup {what} ELSE misuse

TagOf(b)      == IF b \in Block THEN tag[b] ELSE "junk"
Marked(b, t)  == IF b \in Block THEN [tag EXCEPT ![b] = t] ELSE tag

-----------------------------------------------------------------------------
(* The steps of a call *)

At(op) == pc = "call" /\ todo # <<>> /\ Head(todo).op = op

Continue == todo' = Tail(todo) /\ UNCHANGED <<pc, level>>

Stop(where) == pc' = where /\ todo' = <<>> /\ UNCHANGED level

\* hebi_error_raise: nothing of the call is left to do.
Raise == pc' = "raise" /\ todo' = <<>> /\ level' = Len(zstack)

\* An error that the call raises itself: a division by zero, a bad argument.
Error == [op |-> "error"]

DoError ==
    /\ At("error")
    /\ Raise
    /\ UNCHANGED <<obj, alias, scratch, shadow, zstack, own, before, hist>>

\* hebi_zsetzero
Zero(z) == [op |-> "zero", z |-> z]

DoZero ==
    /\ At("zero")
    /\ obj' = [obj EXCEPT ![Head(todo).z].nz = FALSE]
    /\ Continue
    /\ UNCHANGED <<alias, scratch, shadow, zstack, own, before, hist>>

\* A kernel reads the packets of the integers in `reads` and stores packets in
\* the buffers of those in `outs`.
Kernel(outs, reads) == [op |-> "kernel", outs |-> outs, reads |-> reads]

Original(z) == before[z].nz => obj[z].nz /\ obj[z].used = before[z].used /\ TagOf(obj[z].blk) = z

DoKernel ==
    LET s == Head(todo)
    IN  /\ At("kernel")
        /\ Noted(\E a \in s.reads : ~Original(a), "read")
        /\ tag' = [b \in Block |-> IF \E r \in s.outs : obj[r].blk = b THEN "new" ELSE tag[b]]
        /\ Continue
        /\ UNCHANGED <<obj, alias, scratch, shadow, zstack, own, before>>

\* hz_used and hz_sign get their values, as many packets as the kernel left, one
\* of `ns`; a result of no packets is zero.
Publish(z, ns) == [op |-> "publish", z |-> z, ns |-> ns]

DoPublish ==
    /\ At("publish")
    /\ \E n \in Head(todo).ns :
          obj' = [obj EXCEPT ![Head(todo).z].used = n, ![Head(todo).z].nz = n > 0]
    /\ Continue
    /\ UNCHANGED <<alias, scratch, shadow, zstack, own, before, hist>>

\* The call goes on by one of several programs, as what it has read decides.
Either(programs) == [op |-> "either", programs |-> programs]

DoEither ==
    /\ At("either")
    /\ \E p \in Head(todo).programs : todo' = p
    /\ UNCHANGED <<obj, alias, scratch, shadow, zstack, level, pc, own, before, hist>>

\* hebi_zswap
Swap(z, r) == [op |-> "swap", z |-> z, r |-> r]

DoSwap ==
    LET s == Head(todo)
    IN  /\ At("swap")
        /\ obj' = [obj EXCEPT ![s.z] = obj[s.r], ![s.r] = obj[s.z]]
        /\ Continue
        /\ UNCHANGED <<alias, scratch, shadow, zstack, own, before, hist>>

\* hebi_zinit_allocator on a temporary
Make(t, id) == [op |-> "make", z |-> t, id |-> id]

DoMake ==
    LET s == Head(todo)
    IN  /\ At("make")
        /\ obj' = [obj EXCEPT ![s.z] = Empty(s.id)]
        /\ Continue
        /\ UNCHANGED <<alias, scratch, shadow, zstack, own, before, hist>>

-----------------------------------------------------------------------------
(* Buffers of integers *)

\* hebi_pallocfp can give n packets: the length is in range, the allocator is
\* not the fixed one, and it has memory.
CanAlloc(f, id, n) == n \in 1 .. MaxLen /\ Resolve(id) # "FIXED" /\ Unused(f) # {}

\* z gets a buffer of n packets that holds the first `kept` of the old one, and
\* gives the old one back, once the new one is there.  A shorter value is cut.
Replace(z, n, kept, used) ==
    LET o == obj[z]
        k == Resolve(o.id)
        b == IF n = 0 THEN NoBlock ELSE Fresh(own)
        f == IF n = 0 THEN own ELSE Granted(own, k, b)
    IN  /\ own' = Freed(f, k, o.blk)
        /\ Noted(IsBadFree(f, k, o.blk), "free")
        /\ tag' = Marked(b, IF kept > 0 THEN TagOf(o.blk) ELSE "junk")
        /\ obj' = [obj EXCEPT ![z] = [blk |-> b, cap |-> n, used |-> used,
                                      nz |-> o.nz /\ used > 0, id |-> Returned(o.id)]]
        /\ Continue

AllocOrRaise(id, n, Success) ==
    \/ CanAlloc(own, id, n) /\ Success
    \/ Raise /\ UNCHANGED <<obj, own, hist>>

\* hebi_zgrow__, hebi_zgrowcopy__ and hebi_zgrowcopyif__: hz_used and hz_sign
\* are left to the caller.
Grow(z, n, copy) == [op |-> "grow", z |-> z, n |-> n, copy |-> copy]

DoGrow ==
    LET s == Head(todo)
        o == obj[s.z]
    IN  /\ At("grow")
        /\ IF s.n =< o.cap
           THEN Continue /\ UNCHANGED <<obj, own, hist>>
           ELSE AllocOrRaise(o.id, s.n, Replace(s.z, s.n, IF s.copy THEN o.used ELSE 0, o.used))
        /\ UNCHANGED <<alias, scratch, shadow, zstack, before>>

\* MIN(n, hebi_zused(r))
CutTo(n, used) == Smaller(n, used)

\* hebi_zrealloc (keep) and hebi_zrealloczero
Realloc(z, n, keep) == [op |-> "realloc", z |-> z, n |-> n, keep |-> keep]

DoRealloc ==
    LET s == Head(todo)
        u == IF s.keep THEN CutTo(s.n, Used(s.z)) ELSE 0
    IN  /\ At("realloc")
        /\ IF s.n = 0
           THEN Replace(s.z, 0, 0, 0)
           ELSE AllocOrRaise(obj[s.z].id, s.n, Replace(s.z, s.n, u, u))
        /\ UNCHANGED <<alias, scratch, shadow, zstack, before>>

\* The zinit functions that allocate: z is made with room for n packets and a
\* value of `used` packets, copied from `reads`.
Construct(z, id, n, used, nz, reads) ==
    [op |-> "construct", z |-> z, id |-> id, n |-> n, used |-> used, nz |-> nz, reads |-> reads]

DoConstruct ==
    LET s == Head(todo)
        b == IF s.n = 0 THEN NoBlock ELSE Fresh(own)
        Success ==
            /\ own' = IF s.n = 0 THEN own ELSE Granted(own, Resolve(s.id), b)
            /\ obj' = [obj EXCEPT ![s.z] = [blk |-> b, cap |-> s.n, used |-> s.used,
                                            nz |-> s.nz, id |-> Returned(s.id)]]
            /\ Noted(\E a \in s.reads : s.used > obj[a].cap \/ ~Original(a), "read")
            /\ Continue
            /\ UNCHANGED tag
    IN  /\ At("construct")
        /\ IF s.n = 0 THEN Success ELSE AllocOrRaise(s.id, s.n, Success)
        /\ UNCHANGED <<alias, scratch, shadow, zstack, before>>

\* hebi_zdestroy: the buffer goes back to the allocator the id stands for now.
Destroyed(z) ==
    LET k == Resolve(obj[z].id)
    IN  /\ own' = Freed(own, k, obj[z].blk)
        /\ obj' = [obj EXCEPT ![z] = Dead]

WrongOwner(z) == Live(z) /\ IsBadFree(own, Resolve(obj[z].id), obj[z].blk)

Destroy(z) == [op |-> "destroy", z |-> z]

DoDestroy ==
    LET z == Head(todo).z
    IN  /\ At("destroy")
        /\ Destroyed(z)
        /\ Noted(WrongOwner(z), "free")
        /\ Continue
        /\ UNCHANGED <<alias, scratch, shadow, zstack, tag, before>>

-----------------------------------------------------------------------------
(* The stack of temporaries *)

\* hebi_zinit_push__
Push(t, id) == [op |-> "push", z |-> t, id |-> id]

DoPush ==
    LET s == Head(todo)
    IN  /\ At("push")
        /\ IF Len(zstack) >= StackMax
           THEN Raise /\ UNCHANGED <<obj, zstack>>
           ELSE /\ zstack' = Append(zstack, s.z)
                /\ obj' = [obj EXCEPT ![s.z] = Empty(IF s.id = "INVALID" THEN "DEFAULT" ELSE s.id)]
                /\ Continue
        /\ UNCHANGED <<alias, scratch, shadow, own, before, hist>>

\* hebi_zdestroy_pop__: the top of the stack is dropped, whatever it is, and
\* the temporary destroyed.
Pop(t) == [op |-> "pop", z |-> t]

DoPop ==
    LET z == Head(todo).z
    IN  /\ At("pop")
        /\ zstack' = SubSeq(zstack, 1, Len(zstack) - 1)
        /\ Destroyed(z)
        /\ misuse' = misuse \cup (IF WrongOwner(z) THEN {"free"} ELSE {})
                            \cup (IF zstack = <<>> \/ zstack[Len(zstack)] # z THEN {"pop"} ELSE {})
        /\ Continue
        /\ UNCHANGED <<alias, scratch, shadow, tag, before>>

-----------------------------------------------------------------------------
(* The scratch buffer *)

\* What hebi_realloc_scratch__ does first, in the memory of the context and of
\* the shadow: forget the old buffer; the free callback then gets it.
OwnWithoutScratch == Freed(own, scratch.fp, scratch.blk)

\* A slip: only the context forgets it.
ShadowForgets_Never == shadow

ShadowForgets ==
    IF scratch.blk # NoBlock /\ shadow.made THEN [shadow EXCEPT !.mem = NoScratch] ELSE shadow

BadScratchFree == IsBadFree(own, scratch.fp, scratch.blk)

\* A slip: the buffer is freed and the context not told.
FreeScratch_Dangling ==
    /\ own' = OwnWithoutScratch
    /\ UNCHANGED <<scratch, shadow>>
    /\ Noted(BadScratchFree, "free")

\* hebi_realloc_scratch__(ctx, 0)
FreeScratch ==
    /\ own' = OwnWithoutScratch
    /\ scratch' = NoScratch
    /\ shadow' = ShadowForgets
    /\ Noted(BadScratchFree, "free")

\* hebi_pscratch__(n)
Scratch(n) == [op |-> "scratch", n |-> n]

\* The buffer is large enough.
ScratchKept ==
    /\ At("scratch")
    /\ Head(todo).n =< MaxLen /\ Head(todo).n =< scratch.size
    /\ Continue
    /\ UNCHANGED <<obj, alias, scratch, shadow, zstack, own, before, hist>>

\* hebi_realloc_scratch__(ctx, n): the old buffer is freed before the new one
\* is asked for.  The new one is entered in the context, then in the shadow; a
\* thread without a shadow gets one, or aborts, with no word to the handler.
ScratchGrown ==
    LET n == Head(todo).n
        k == Resolve("SCRATCH")
        b == Fresh(OwnWithoutScratch)
        m == [fp |-> k, blk |-> b, size |-> n]
    IN  /\ At("scratch")
        /\ n =< MaxLen /\ n > scratch.size
        /\ CanAlloc(OwnWithoutScratch, k, n)
        /\ own' = Granted(OwnWithoutScratch, k, b)
        /\ scratch' = m
        /\ Noted(BadScratchFree, "free")
        /\ \/ shadow' = [made |-> TRUE, mem |-> m] /\ Continue
           \/ ~shadow.made /\ Stop("abort") /\ UNCHANGED shadow
        /\ UNCHANGED <<obj, alias, zstack, tag, before>>

\* There is no memory for it: the thread is left without a buffer.
ScratchFails ==
    LET n == Head(todo).n
    IN  /\ At("scratch")
        /\ n =< MaxLen /\ n > scratch.size
        /\ FreeScratch
        /\ Raise
        /\ UNCHANGED <<obj, alias, zstack, tag, before>>

\* The length is out of range: the old buffer is still there.
ScratchTooLong ==
    /\ At("scratch")
    /\ Head(todo).n > MaxLen
    /\ Raise
    /\ UNCHANGED <<obj, alias, scratch, shadow, zstack, own, before, hist>>

\* hebi_free_scratch
Unscratch == [op |-> "unscratch"]

DoUnscratch ==
    /\ At("unscratch")
    /\ FreeScratch
    /\ Continue
    /\ UNCHANGED <<obj, alias, zstack, tag, before>>

-----------------------------------------------------------------------------
(* hebi_error_raise *)

RaiseFreesScratch ==
    /\ pc = "raise"
    /\ FreeScratch
    /\ pc' = "unwind"
    /\ UNCHANGED <<obj, alias, zstack, level, todo, tag, before>>

\* The loop destroys the temporaries from the top of the stack down.
Unwind ==
    /\ pc = "unwind" /\ level > 0
    /\ Destroyed(zstack[level])
    /\ Noted(WrongOwner(zstack[level]), "free")
    /\ level' = level - 1
    /\ UNCHANGED <<alias, scratch, shadow, zstack, pc, todo, tag, before>>

\* A slip: the loop runs while i > 1.
Unwound_Early ==
    /\ pc = "unwind" /\ level =< 1
    /\ zstack' = <<>>
    /\ pc' \in {"failed", "abort"}
    /\ UNCHANGED <<obj, alias, scratch, shadow, level, todo, own, before, hist>>

\* The stack is emptied, and the handler leaves the call; with no handler the
\* process aborts.
Unwound ==
    /\ pc = "unwind" /\ level = 0
    /\ zstack' = <<>>
    /\ pc' \in {"failed", "abort"}
    /\ UNCHANGED <<obj, alias, scratch, shadow, level, todo, own, before, hist>>

=============================================================================
