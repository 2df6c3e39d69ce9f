---------------------------- MODULE KernelCalls ----------------------------
(***************************************************************************)
(* Calls of packet kernels in a build for x86-64: the dispatch of          *)
(* Dispatch, the kernels of PX86, and what threads pass to them and get    *)
(* from them.  A stub calls a C function before the kernel runs; what it   *)
(* does not save of the arguments is gone.                                 *)
(***************************************************************************)
EXTENDS PX86, Dispatch

CONSTANTS
    Setting,            \* machine, listing, and the program: the kernel each
                        \* thread calls, and the set of its arguments (a bound)
    Input(_, _)         \* the arguments for a kernel in a set

-----------------------------------------------------------------------------
(* Arguments *)

\* There are n packets at p.
Room(m, p, n) ==
    /\ p = [buf |-> p.buf, at |-> p.at] /\ p.buf \in DOMAIN m /\ p.at \in Nat
    /\ \A i \in 0 .. n * PacketLimbs - 1 : p.at + i \in DOMAIN m[p.buf]

\* r and n packets at a overlap only where a is read before r is stored.
InTurn(r, a, n) == r.buf # a.buf \/ r.at <= a.at \/ a.at + n * PacketLimbs <= r.at

\* Kernels that store nothing; that read b, of n or of k packets; that get a word;
\* that store r as they read a, the lowest limb first, and b.
Queries  == Three \union Bits
Paired   == {"pand", "por", "pxor", "pcmp"}
Longer   == {"padd", "psub", "padda", "psuba", "pmul"}
Worded   == {"paddu", "psubu", "pmulu"}
Upwards  == {"pcopy", "pnot", "pand", "por", "pxor", "padd", "psub", "paddu", "psubu", "pshr"}
Combines == {"pand", "por", "pxor"}
Adds     == {"padd", "psub", "padda", "psuba"}

\* The packets of the result.
ResultPackets(k, x) ==
    CASE k = "pshl" -> x.n + DivUp(x.k, PacketBit)
      [] k = "pshr" -> x.n - (x.k \div LimbBit) \div PacketLimbs
      [] k = "pmul" -> x.n + x.k
      [] k = "psqr" -> 2 * x.n
      [] OTHER -> x.n

\* What callers of kernel k may pass: what it asserts of the lengths, and the room
\* and the overlap that its loops are made for.
Legal(k, x) ==
    /\ x.m = [b \in DOMAIN x.m |-> x.m[b]] /\ \A b \in DOMAIN x.m : x.m[b] \in [DOMAIN x.m[b] -> Limb]
    /\ x.n \in Nat \ {0}
    /\ k \notin {"pzero", "padda", "psuba"} => Room(x.m, x.a, x.n)
    /\ k \notin Queries => Room(x.m, x.r, ResultPackets(k, x))
    /\ k \in Paired => Room(x.m, x.b, x.n)
    /\ k \in Longer => x.k \in 1 .. x.n /\ Room(x.m, x.b, x.k)
    /\ k \in Worded => x.k \in Limb
    /\ k \in {"pshl", "pshr"} => x.k \in Nat
    /\ k \in Upwards => InTurn(x.r, x.a, x.n)
    /\ k \in Combines => InTurn(x.r, x.b, x.n)
    /\ k \in Adds => InTurn(x.r, x.b, x.k)
    /\ k = "pshl" /\ x.r.buf = x.a.buf => x.r.at >= x.a.at

ASSUME KernelCallsAssumption ==
    \A s \in Setting :
        /\ s.machine \in Machine /\ s.listing \in Listing /\ DOMAIN s.program = Thread
        /\ \A t \in Thread : LET p == s.program[t]
                            IN  /\ p.kernel \in Dispatched \union Direct
                                /\ \A x \in Input(p.kernel, p.set) : Legal(p.kernel, x)

VARIABLES
    program,            \* of the setting
    th                  \* arguments and result of the call each thread is in

vars == <<dispatch, program, th>>

-----------------------------------------------------------------------------
(* Registers *)

\* The registers with the arguments of a kernel, and those its stub saves.
Arguments(k) ==
    CASE k \in Bits \union {"pnorm", "pzero"} -> {"rdi", "rsi"}
      [] k \in {"pcmp", "pcopy", "pmove", "pnot"} -> {"rdi", "rsi", "rdx"}
      [] OTHER -> {"rdi", "rsi", "rdx", "rcx"}

Saved(k) ==
    Arguments(k) \union
    (CASE k \in {"pcopy", "pmove"} -> {"rax"}
       [] k = "pzero" -> {"rax", "rdx", "r8", "r9"}
       [] OTHER -> {})

-----------------------------------------------------------------------------
(* What kernels compute *)

\* The memory and the returned value.
Out(m, ret) == [m |-> m, ret |-> ret]
Flagged(s)  == Out(s.m, s.c)
Counted(s)  == Out(s.m, s.n)

\* The x86-64 kernel k on the arguments x.
Ran(k, x) ==
    CASE k = "pcopy" -> Out(PCOPY128(x.m, x.r, x.a, x.n), 0)
      [] k = "pmove" -> Out(PMOVE128(x.m, x.r, x.a, x.n), 0)
      [] k = "pzero" -> Out(PZERO128(x.m, x.r, x.n), 0)
      [] k = "pnot"  -> Out(PNOT128(x.m, x.r, x.a, x.n), 0)
      [] k = "pand"  -> Out(pand128(x.m, x.r, x.a, x.b, x.n), 0)
      [] k = "por"   -> Out(por128(x.m, x.r, x.a, x.b, x.n), 0)
      [] k = "pxor"  -> Out(pxor128(x.m, x.r, x.a, x.b, x.n), 0)
      [] k = "pnorm" -> Out(x.m, pnorm_x86(x.m, x.a, x.n))
      [] k = "pcmp"  -> Out(x.m, pcmp_x86(x.m, x.a, x.b, x.n))
      [] k = "pclz"  -> Out(x.m, pclz_x86(x.m, x.a, x.n))
      [] k = "pctz"  -> Out(x.m, pctz_x86(x.m, x.a, x.n))
      [] k = "pshl"  -> Counted(pshl_x86(x.m, x.r, x.a, x.k, x.n))
      [] k = "pshr"  -> Counted(pshr_x86(x.m, x.r, x.a, x.k, x.n))
      [] k = "pneg"  -> Flagged(pneg_x86(x.m, x.r, x.a, x.n))
      [] k = "padda" -> Flagged(PADDSUBA(x.m, x.r, x.b, x.n, x.k, "adc"))
      [] k = "psuba" -> Flagged(PADDSUBA(x.m, x.r, x.b, x.n, x.k, "sbb"))
      [] k = "pmulu" -> Flagged(pmulu_x86(x.m, x.r, x.a, x.k, x.n))
      [] k = "pmul"  -> Out(pmul_x86(x.m, x.r, x.a, x.b, x.n, x.k), 0)
      [] k = "psqr"  -> Out(psqr_x86(x.m, x.r, x.a, x.n), 0)

\* The part of a sum or a difference before the jump to hebi_pcopy.
Summed(k, x) ==
    CASE k = "padd"  -> PADDSUB(x.m, x.r, x.a, x.b, x.n, x.k, "adc")
      [] k = "psub"  -> PADDSUB(x.m, x.r, x.a, x.b, x.n, x.k, "sbb")
      [] k = "paddu" -> PADDSUBU(x.m, x.r, x.a, x.k, x.n, "adc")
      [] k = "psubu" -> PADDSUBU(x.m, x.r, x.a, x.k, x.n, "sbb")

\* The portable kernel of that name on the same arguments.
Portable(k, x) ==
    CASE k = "pcopy" -> Out(pcopy(x.m, x.r, x.a, x.n), 0)
      [] k = "pmove" -> Out(pmove(x.m, x.r, x.a, x.n), 0)
      [] k = "pzero" -> Out(pzero(x.m, x.r, x.n), 0)
      [] k = "pnot"  -> Out(pnot(x.m, x.r, x.a, x.n), 0)
      [] k = "pand"  -> Out(pand(x.m, x.r, x.a, x.b, x.n), 0)
      [] k = "por"   -> Out(por(x.m, x.r, x.a, x.b, x.n), 0)
      [] k = "pxor"  -> Out(pxor(x.m, x.r, x.a, x.b, x.n), 0)
      [] k = "pnorm" -> Out(x.m, pnorm(x.m, x.a, x.n))
      [] k = "pcmp"  -> Out(x.m, pcmp(x.m, x.a, x.b, x.n))
      [] k = "pclz"  -> Out(x.m, pclz(x.m, x.a, x.n))
      [] k = "pctz"  -> Out(x.m, pctz(x.m, x.a, x.n))
      [] k = "pshl"  -> Counted(pshl(x.m, x.r, x.a, x.k, x.n))
      [] k = "pshr"  -> Counted(pshr(x.m, x.r, x.a, x.k, x.n))
      [] k = "pneg"  -> Flagged(pneg(x.m, x.r, x.a, x.n))
      [] k = "padd"  -> Flagged(padd(x.m, x.r, x.a, x.b, x.n, x.k))
      [] k = "psub"  -> Flagged(psub(x.m, x.r, x.a, x.b, x.n, x.k))
      [] k = "paddu" -> Flagged(paddu(x.m, x.r, x.a, x.k, x.n))
      [] k = "psubu" -> Flagged(psubu(x.m, x.r, x.a, x.k, x.n))
      [] k = "padda" -> Flagged(padd(x.m, x.r, x.r, x.b, x.n, x.k))
      [] k = "psuba" -> Flagged(psub(x.m, x.r, x.r, x.b, x.n, x.k))
      [] k = "pmulu" -> Flagged(pmulu(x.m, x.r, x.a, x.k, x.n))
      [] k = "pmul"  -> Out(pmul(x.m, x.r, x.a, x.b, x.n, x.k), 0)
      [] k = "psqr"  -> Out(psqr(x.m, x.r, x.a, x.n), 0)

-----------------------------------------------------------------------------
(* Threads *)

NoCall == [kept |-> TRUE]

Init ==
    /\ DispatchInit
    /\ \E s \in Setting : machine = s.machine /\ listing = s.listing /\ program = s.program
    /\ th = [t \in Thread |-> NoCall]

Kernel(t)     == program[t].kernel
Holds(t, rec) == th' = [th EXCEPT ![t] = rec] /\ UNCHANGED program
Same          == UNCHANGED <<program, th>>

\* x is what the kernel was called with, `arg` what the kernel jumped to gets.
Call(t) ==
    /\ Enter(t, Kernel(t))
    /\ \E x \in Input(Kernel(t), program[t].set) : Holds(t, [x |-> x, arg |-> x, kept |-> TRUE])

\* The arguments of hebi_pcopy behind the sum s.
Rest(x, s) == [m |-> s.m, r |-> Skip(x.r, s.k), a |-> Skip(x.a, s.k), n |-> x.n - s.k]

Yields(t, out) == Holds(t, [x |-> th[t].x, kept |-> th[t].kept, out |-> out])

\* A kernel without a stub; hebi_pcopy gets what a sum need not look at, and
\* leaves in rax the zero that is returned.
RunDirect(t) ==
    LET x == th[t].x
    IN  /\ pc[t] = "direct"
        /\ \/ to[t] \notin Tailed /\ EndDirect(t) /\ Yields(t, Ran(to[t], x))
           \/ /\ to[t] \in Tailed
              /\ \E s \in {Summed(to[t], x)} :
                    \/ s.k = x.n /\ EndDirect(t) /\ Yields(t, Flagged(s))
                    \/ s.k # x.n /\ JumpOn(t) /\ Holds(t, [th[t] EXCEPT !.arg = Rest(x, s)])

\* The registers that must come through the stub.
Live(t) == Arguments(to[t]) \union (IF Kernel(t) \in Tailed THEN {"rax"} ELSE {})

\* hebi_hwcaps__ returns to the stub: what was not saved is gone.
Returned(t) == Holds(t, [th[t] EXCEPT !.kept = Live(t) \subseteq Saved(to[t])])

\* The version runs on what the registers hold.
Run(t) == RunVersion(t) /\ Yields(t, Ran(to[t], th[t].arg))

Step(t) ==
    \/ RunDirect(t) \/ Run(t)
    \/ Ask(t) /\ Returned(t)
    \/ StoreListed(t) /\ Returned(t)
    \/ (Jump(t) \/ AskFirst(t) \/ StoreNative(t) \/ Choose(t) \/ StorePtr(t)) /\ Same
    \/ Leave(t) /\ Holds(t, NoCall)

Next == \E t \in Thread : Call(t) \/ Step(t)

\* A thread inside a call goes on.
Spec == Init /\ [][Next]_vars /\ \A t \in Thread : WF_vars(Step(t))

-----------------------------------------------------------------------------
(* Properties *)

\* The packets that hebi_pcmp passes over (see ComparesAll).
PassedOver(t) == Kernel(t) = "pcmp" /\ th[t].x.n % 2 = 0 /\ th[t].x.n > 2

\* KernelsExact: whatever the number of packets, the overlap and the carries, an
\* x86-64 kernel leaves the memory and returns what the portable one does, in the
\* first call through the stub, which loses no argument and no carry, and in later
\* ones.
KernelsExact ==
    \A t \in Thread :
        pc[t] = "done" /\ ~PassedOver(t) => th[t].kept /\ th[t].out = Portable(Kernel(t), th[t].x)

\* CallsEnd: every call ends, with a result or an error, although the first calls
\* wait for one another.
CallsEnd == \A t \in Thread : pc[t] # "idle" ~> pc[t] = "idle"

\* ComparesAll: hebi_pcmp orders arrays as the portable kernel does, as
\* check/p/pcmp.c expects of it.
ComparesAll ==
    \A t \in Thread :
        pc[t] = "done" /\ Kernel(t) = "pcmp" => th[t].out = Portable("pcmp", th[t].x)

-----------------------------------------------------------------------------
(* The inductive invariant, with DispatchInv (proved in KernelCalls_proofs) *)

InvProgram ==
    \A t \in Thread :
        /\ Kernel(t) \in Dispatched \union Direct
        /\ \A x \in Input(Kernel(t), program[t].set) : Legal(Kernel(t), x)

\* A call has lost nothing, and is still what the thread called, or hebi_pcopy
\* behind the sum.
InCall(t) ==
    LET x == th[t].x
    IN  /\ DOMAIN th[t] = {"x", "arg", "kept"} /\ th[t].kept = TRUE
        /\ Legal(Kernel(t), x)
        /\ \/ to[t] = Kernel(t) /\ th[t].arg = x /\ (pc[t] = "direct" <=> Kernel(t) \in Direct)
           \/ /\ pc[t] # "direct" /\ to[t] = "pcopy" /\ Kernel(t) \in Tailed
              /\ \E s \in {Summed(Kernel(t), x)} : s.k # x.n /\ th[t].arg = Rest(x, s)

Exact(t) == ~PassedOver(t) => th[t].kept = TRUE /\ th[t].out = Portable(Kernel(t), th[t].x)

InvThread(t) ==
    /\ pc[t] \notin {"idle", "done", "refused"} => InCall(t)
    /\ pc[t] = "done" => Exact(t)

CallInv == InvProgram /\ DOMAIN th = Thread /\ \A t \in Thread : InvThread(t)

=============================================================================
