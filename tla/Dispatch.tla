------------------------------ MODULE Dispatch ------------------------------
(***************************************************************************)
(* Run-time dispatch of packet kernels in a build for x86-64               *)
(* (src/hwcaps.c, src/p/x86_64/x86_64.inc).  A kernel with several         *)
(* versions is called through a pointer that leads to a stub first.  The   *)
(* stub asks once for the capabilities of the machine, cut down to those   *)
(* that the environment lists, chooses a version, stores the pointer and   *)
(* jumps on.  Threads call kernels at any time; nothing but pthread_once   *)
(* orders their first calls.  What the kernels compute is left to          *)
(* KernelCalls.                                                            *)
(***************************************************************************)
EXTENDS Naturals, Sequences

CONSTANTS
    Thread,
    Machine,            \* what cpuid can report: leaves, and bits
    Listing,            \* values of HEBI_HWCAPS: NoList or sets of names
    NoList              \* the variable is not set

\* SSE4.1 and AVX extend SSE2: no machine has either without it.
ASSUME DispatchAssumption ==
    \A cpu \in Machine :
        /\ {cpu.leaf1, cpu.leaf7, cpu.ext} \subseteq BOOLEAN
        /\ cpu.bits \intersect {"sse4.1", "avx"} # {} => "sse2" \in cpu.bits

VARIABLES
    machine, listing,   \* fixed before the first call
    once,               \* hwcaps_once: "never", "running" or "done"
    hwcaps,             \* the static hwcaps
    unread,             \* the list could not be copied, and was not read
    ptr,                \* hebi_<kernel>_ptr__
    pc,                 \* where each thread is in its call,
    to,                 \* the kernel it jumps to,
    caps,               \* what hebi_hwcaps__ returned,
    version             \* and the version that was chosen

setting  == <<machine, listing>>
shared   == <<once, hwcaps, unread, ptr>>
call     == <<pc, to, caps, version>>
dispatch == <<setting, shared, call>>

-----------------------------------------------------------------------------
(* Kernels and their versions *)

Pair  == {"pmove", "pcopy", "pzero", "pnot", "pand", "por", "pxor", "pshl", "pshr"}
Three == {"pcmp", "pnorm"}
Bits  == {"pclz", "pctz"}
Dispatched == Pair \union Three \union Bits

\* Kernels that have no stub; the first four end in a jump to hebi_pcopy.
Tailed == {"padd", "psub", "paddu", "psubu"}
Direct == Tailed \union {"padda", "psuba", "pneg", "pmulu", "pmul", "psqr"}

\* Kernels whose avx version loads and stores with SSE2's movdqa; pnot and pshl
\* (one move of registers) do so too.
Logic    == {"pand", "por", "pxor"}
WithSse2 == Logic \union {"pnot", "pshl"}

\* The capabilities of the vector and bit-counting instructions in version v of
\* kernel k, and in the versions that it calls.  An sse41 version moves, compares and
\* combines with SSE2, and tests and extracts with SSE4.1.
Uses(k, v) ==
    CASE v = "avx_lzcnt" -> {"avx", "lzcnt"}
      [] v = "avx_bmi1" -> {"avx", "bmi1"}
      [] v = "avx" -> IF k \in WithSse2 THEN {"avx", "sse2"} ELSE {"avx"}
      [] v = "sse41" -> {"sse41", "sse2"}
      [] v = "sse2" -> {"sse2"}

V(name, needs) == [name |-> name, needs |-> needs]

\* The versions a stub tries, best first, each with the capabilities it tests.
Versions(k) ==
    LET avx == V("avx", {"avx"})
        sse41 == V("sse41", {"sse41"})
        sse2 == V("sse2", {"sse2"})
    IN  CASE k = "pclz" -> <<V("avx_lzcnt", {"avx", "lzcnt"}), avx, sse41, sse2>>
          [] k = "pctz" -> <<V("avx_bmi1", {"avx", "bmi1"}), avx, sse41, sse2>>
          [] k \in Three -> <<avx, sse41, sse2>>
          [] OTHER -> <<avx, sse2>>

\* A slip: the stub of pclz takes either capability for both.
Suits_Either(v, c) == v.needs \intersect c # {}

Suits(v, c) == v.needs \subseteq c

\* The version a stub chooses: the first that suits, or none.
Chosen(k, c) ==
    LET fit == {i \in DOMAIN Versions(k) : Suits(Versions(k)[i], c)}
    IN  IF fit = {} THEN "none" ELSE Versions(k)[CHOOSE i \in fit : \A j \in fit : i <= j].name

-----------------------------------------------------------------------------
(* Capabilities *)

\* setcap: the capabilities c if all the bits are set.
setcap(c, bits, cpu) == IF bits \subseteq cpu.bits THEN c ELSE {}

\* The machine has the instructions and the system saves their registers.
AvxBits == {"avx", "osxsave"}

getnativecaps(cpu) ==
    IF ~cpu.leaf1 THEN {}
    ELSE setcap({"sse2"}, {"sse2"}, cpu) \union setcap({"sse41"}, {"sse4.1"}, cpu)
         \union setcap({"avx"}, AvxBits, cpu)
         \union (IF cpu.ext THEN setcap({"popcnt", "lzcnt"}, {"abm"}, cpu) ELSE {})
         \union (IF cpu.leaf7 THEN setcap({"bmi1"}, {"bmi1"}, cpu) ELSE {})

\* The names a list may have; others name nothing.
findcapbyname(name) ==
    CASE name = "abm" -> {"popcnt", "lzcnt"}
      [] name = "sse4" -> {"sse41", "sse42"}
      [] name \in {"sse41", "sse4_1", "sse4.1"} -> {"sse41"}
      [] name \in {"bmi", "bmi1"} -> {"bmi1"}
      [] name \in {"sse2", "avx", "lzcnt", "popcnt"} -> {name}
      [] OTHER -> {}

overridecaps(c, list) == c \intersect UNION {findcapbyname(name) : name \in list}

-----------------------------------------------------------------------------
(* Threads *)

Stub == "dispatch"

\* Between two calls a thread has nothing but its place.
DispatchInit ==
    /\ machine \in Machine /\ listing \in Listing
    /\ once = "never" /\ hwcaps = {} /\ unread = FALSE
    /\ ptr = [k \in Dispatched |-> Stub]
    /\ pc = [t \in Thread |-> "idle"]
    /\ to = [t \in Thread |-> "none"]
    /\ caps = [t \in Thread |-> {}]
    /\ version = [t \in Thread |-> "none"]

Goes(t, place) == pc' = [pc EXCEPT ![t] = place]

\* A call of kernel k, through its pointer or not.
Enter(t, k) ==
    /\ pc[t] = "idle"
    /\ Goes(t, IF k \in Direct THEN "direct" ELSE "jump")
    /\ to' = [to EXCEPT ![t] = k]
    /\ UNCHANGED <<setting, shared, caps, version>>

\* A kernel without a stub ends, or jumps on to hebi_pcopy.
EndDirect(t) ==
    /\ pc[t] = "direct"
    /\ Goes(t, "done")
    /\ UNCHANGED <<setting, shared, to, caps, version>>

JumpOn(t) ==
    /\ pc[t] = "direct" /\ to[t] \in Tailed
    /\ Goes(t, "jump")
    /\ to' = [to EXCEPT ![t] = "pcopy"]
    /\ UNCHANGED <<setting, shared, caps, version>>

\* The jump through the pointer.
Jump(t) ==
    /\ pc[t] = "jump"
    /\ IF ptr[to[t]] = Stub
       THEN Goes(t, "stub") /\ UNCHANGED version
       ELSE Goes(t, "run") /\ version' = [version EXCEPT ![t] = ptr[to[t]]]
    /\ UNCHANGED <<setting, shared, to, caps>>

\* A slip: a thread does not wait for the one that initialises.
OnceOver_Begun == once # "never"

\* pthread_once returns to those that do not run initcaps.
OnceOver == once = "done"

\* The first thread runs initcaps, others wait for it.
AskFirst(t) ==
    /\ pc[t] = "stub"
    /\ once = "never"
    /\ once' = "running"
    /\ Goes(t, "native")
    /\ UNCHANGED <<setting, hwcaps, unread, ptr, to, caps, version>>

Ask(t) ==
    /\ pc[t] = "stub"
    /\ OnceOver
    /\ Goes(t, "choose")
    /\ caps' = [caps EXCEPT ![t] = hwcaps]
    /\ UNCHANGED <<setting, shared, to, version>>

\* initcaps: the first store to hwcaps.
StoreNative(t) ==
    /\ pc[t] = "native"
    /\ hwcaps' = getnativecaps(machine)
    /\ Goes(t, "list")
    /\ UNCHANGED <<setting, once, unread, ptr, to, caps, version>>

\* A slip: the flag is not set behind the initialisation.
AfterInit_Unset == once

AfterInit == "done"

\* The second, if there is a list; strdup may fail.
StoreListed(t) ==
    /\ pc[t] = "list"
    /\ \/ listing = NoList /\ UNCHANGED <<hwcaps, unread>>
       \/ listing # NoList /\ hwcaps' = overridecaps(hwcaps, listing) /\ UNCHANGED unread
       \/ listing # NoList /\ unread' = TRUE /\ UNCHANGED hwcaps
    /\ once' = AfterInit
    /\ Goes(t, "choose")
    /\ caps' = [caps EXCEPT ![t] = hwcaps']
    /\ UNCHANGED <<setting, ptr, to, version>>

\* The stub chooses, and raises ENOHWCAPS if it can choose nothing.
Choose(t) ==
    /\ pc[t] = "choose"
    /\ version' = [version EXCEPT ![t] = Chosen(to[t], caps[t])]
    /\ Goes(t, IF version'[t] = "none" THEN "refused" ELSE "store")
    /\ UNCHANGED <<setting, shared, to, caps>>

\* The store to the pointer, and the jump.
StorePtr(t) ==
    /\ pc[t] = "store"
    /\ ptr' = [ptr EXCEPT ![to[t]] = version[t]]
    /\ Goes(t, "run")
    /\ UNCHANGED <<setting, once, hwcaps, unread, to, caps, version>>

\* The version runs.
RunVersion(t) ==
    /\ pc[t] = "run"
    /\ Goes(t, "done")
    /\ UNCHANGED <<setting, shared, to, caps, version>>

\* Back in the caller, or in the client's error handler.
Leave(t) ==
    /\ pc[t] \in {"done", "refused"}
    /\ Goes(t, "idle")
    /\ to' = [to EXCEPT ![t] = "none"]
    /\ caps' = [caps EXCEPT ![t] = {}]
    /\ version' = [version EXCEPT ![t] = "none"]
    /\ UNCHANGED <<setting, shared>>

DispatchNext ==
    \E t \in Thread :
        \/ \E k \in Dispatched \union Direct : Enter(t, k)
        \/ EndDirect(t) \/ JumpOn(t) \/ Jump(t) \/ AskFirst(t) \/ Ask(t) \/ StoreNative(t)
        \/ StoreListed(t) \/ Choose(t) \/ StorePtr(t) \/ RunVersion(t) \/ Leave(t)

DispatchSpec == DispatchInit /\ [][DispatchNext]_dispatch

-----------------------------------------------------------------------------
(* Properties *)

Capability == {"sse2", "sse41", "avx", "lzcnt", "bmi1"}

\* The bits with which a machine and its system promise to execute instructions.
Promise == [sse2 |-> {"sse2"}, sse41 |-> {"sse4.1"}, avx |-> {"avx", "osxsave"},
            lzcnt |-> {"abm"}, bmi1 |-> {"bmi1"}]

\* The capabilities whose instructions it executes; bits of a leaf that it does not
\* have say nothing.
Executes(cpu) ==
    {c \in Capability :
        /\ Promise[c] \subseteq cpu.bits
        /\ cpu.leaf1 /\ (c = "lzcnt" => cpu.ext) /\ (c = "bmi1" => cpu.leaf7)}

\* The capabilities that the environment lists: all if there is no list.
Listed ==
    IF listing = NoList \/ unread THEN Capability ELSE UNION {findcapbyname(name) : name \in listing}

\* The machine executes every instruction in the version, and the list has every
\* capability beyond SSE2, which it does not keep out of other versions.
MayRun(k, v) ==
    /\ Uses(k, v) \subseteq Executes(machine)
    /\ Uses(k, v) \ {"sse2"} \subseteq Listed

\* VersionsAllowed: whoever was first to ask for capabilities and to choose, no
\* version is about to run, and no pointer leads to one, with an instruction that the
\* machine does not execute, or with one beyond SSE2 that the list leaves out; and a
\* kernel is refused only if none of its versions has all its instructions on the
\* machine and in the list (hwcaps.c stores the capabilities twice, and each stub
\* tests some of those that its versions use).
VersionsAllowed ==
    /\ \A k \in Dispatched : ptr[k] # Stub => MayRun(k, ptr[k])
    /\ \A t \in Thread :
          /\ pc[t] = "run" => MayRun(to[t], version[t])
          /\ pc[t] = "refused" => \A i \in DOMAIN Versions(to[t]) :
                ~(Uses(to[t], Versions(to[t])[i].name) \subseteq Executes(machine) \intersect Listed)

\* What hwcaps comes to.
Allowed ==
    IF listing = NoList \/ unread THEN getnativecaps(machine)
    ELSE overridecaps(getnativecaps(machine), listing)

\* StoresAgree: threads that store the same pointer store the same value, the
\* first version of the kernel that the capabilities suit, so that their race is harmless.
StoresAgree ==
    \A k \in Dispatched :
        /\ ptr[k] # Stub => ptr[k] = Chosen(k, Allowed)
        /\ \A t \in Thread : pc[t] = "store" /\ to[t] = k => version[t] = Chosen(k, Allowed)

-----------------------------------------------------------------------------
(* The inductive invariant (proved in KernelCalls_proofs) *)

Version == {"avx_lzcnt", "avx_bmi1", "avx", "sse41", "sse2"}
Inside  == {"native", "list"}

InvTypes ==
    /\ machine \in Machine
    /\ ptr \in [Dispatched -> Version \union {Stub}]
    /\ pc \in [Thread -> {"idle", "direct", "jump", "stub", "native", "list", "choose", "store",
                          "run", "done", "refused"}]
    /\ to \in [Thread -> Dispatched \union Direct \union {"none"}]
    /\ DOMAIN caps = Thread
    /\ version \in [Thread -> Version \union {"none"}]

\* A thread that will use a pointer has a kernel with one.
InvTo == \A t \in Thread : pc[t] \notin {"idle", "direct", "done"} => to[t] \in Dispatched

\* One thread at a time, and once, is inside initcaps.
InvOnce ==
    /\ once # "done" => ~unread
    /\ \A t \in Thread : pc[t] \in Inside => once = "running"
    /\ \A t, u \in Thread : pc[t] \in Inside /\ pc[u] \in Inside => t = u
    /\ \A t \in Thread : pc[t] = "list" => hwcaps = getnativecaps(machine)
    /\ once = "done" => hwcaps = Allowed

\* Nothing that rests on the capabilities is there before they are.
InvSettled ==
    /\ \A k \in Dispatched : ptr[k] # Stub => once = "done" /\ ptr[k] = Chosen(k, Allowed)
    /\ \A t \in Thread :
          /\ pc[t] = "choose" => once = "done" /\ caps[t] = Allowed
          /\ pc[t] \in {"store", "run", "refused"} =>
                once = "done" /\ version[t] = Chosen(to[t], Allowed)
          /\ pc[t] \in {"store", "run"} => version[t] # "none"
          /\ pc[t] = "refused" => version[t] = "none"

DispatchInv == InvTypes /\ InvTo /\ InvOnce /\ InvSettled

=============================================================================
