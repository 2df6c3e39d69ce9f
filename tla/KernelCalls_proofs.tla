------------------------- MODULE KernelCalls_proofs -------------------------
(***************************************************************************)
(* Theorems about Dispatch and KernelCalls, for any number of threads, any *)
(* machine, any list and any arguments: the invariant DispatchInv, that    *)
(* versions are allowed and racing stores agree, and that a kernel that is *)
(* called through its pointer, by whichever version, returns what the      *)
(* portable one does.                                                      *)
(***************************************************************************)
EXTENDS KernelCalls, PX86_proofs, TLAPS


-----------------------------------------------------------------------------
(* Versions *)

\* What a stub tests for before it takes a version, against what the version executes:
\* nothing more is executed but SSE2, and that only where a test implies it.
Tested(k, v) ==
    /\ v.name \in Version
    /\ v.needs \subseteq Uses(k, v.name) /\ v.needs \subseteq Capability
    /\ Uses(k, v.name) \subseteq v.needs \union {"sse2"}
    /\ v.needs \intersect {"sse2", "sse41", "avx"} # {}

\* Every version that stubs try is tested so.
LEMMA Named ==
    ASSUME NEW k,
           NEW v \in {V("avx_lzcnt", {"avx", "lzcnt"}), V("avx_bmi1", {"avx", "bmi1"}),
                      V("avx", {"avx"}), V("sse41", {"sse41"}), V("sse2", {"sse2"})}
    PROVE  Tested(k, v)
<1>1. CASE v = V("avx_lzcnt", {"avx", "lzcnt"})
  BY <1>1 DEF V, Version, Uses, Capability, Tested
<1>2. CASE v = V("avx_bmi1", {"avx", "bmi1"})
  BY <1>2 DEF V, Version, Uses, Capability, Tested
<1>3. CASE v = V("avx", {"avx"})
  BY <1>3 DEF V, Version, Uses, Capability, Tested
<1>4. CASE v = V("sse41", {"sse41"})
  BY <1>4 DEF V, Version, Uses, Capability, Tested
<1>5. CASE v = V("sse2", {"sse2"})
  BY <1>5 DEF V, Version, Uses, Capability, Tested
<1>. QED BY <1>1, <1>2, <1>3, <1>4, <1>5

\* So is each version in the list of a kernel.
LEMMA VersionList ==
    ASSUME NEW k \in Dispatched, NEW i \in DOMAIN Versions(k)
    PROVE  i \in 1 .. 4 /\ Tested(k, Versions(k)[i])
<1>1. CASE k = "pclz"
  <2>1. Versions(k) = <<V("avx_lzcnt", {"avx", "lzcnt"}), V("avx", {"avx"}), V("sse41", {"sse41"}), V("sse2", {"sse2"})>>
    BY <1>1 DEF Versions, Three, Pair
  <2>2. i \in 1 .. 4
    BY <2>1
  <2>3. Versions(k)[i] \in {V("avx_lzcnt", {"avx", "lzcnt"}), V("avx", {"avx"}), V("sse41", {"sse41"}), V("sse2", {"sse2"})}
    BY <2>1, <2>2
  <2>. QED BY <2>2, <2>3, Named
<1>2. CASE k = "pctz"
  <2>1. Versions(k) = <<V("avx_bmi1", {"avx", "bmi1"}), V("avx", {"avx"}), V("sse41", {"sse41"}), V("sse2", {"sse2"})>>
    BY <1>2 DEF Versions, Three, Pair
  <2>2. i \in 1 .. 4
    BY <2>1
  <2>3. Versions(k)[i] \in {V("avx_bmi1", {"avx", "bmi1"}), V("avx", {"avx"}), V("sse41", {"sse41"}), V("sse2", {"sse2"})}
    BY <2>1, <2>2
  <2>. QED BY <2>2, <2>3, Named
<1>3. CASE k \in Three
  <2>1. Versions(k) = <<V("avx", {"avx"}), V("sse41", {"sse41"}), V("sse2", {"sse2"})>>
    BY <1>3 DEF Versions, Three, Pair
  <2>2. i \in 1 .. 3
    BY <2>1
  <2>3. Versions(k)[i] \in {V("avx", {"avx"}), V("sse41", {"sse41"}), V("sse2", {"sse2"})}
    BY <2>1, <2>2
  <2>. QED BY <2>2, <2>3, Named
<1>4. CASE k \in Pair
  <2>1. Versions(k) = <<V("avx", {"avx"}), V("sse2", {"sse2"})>>
    BY <1>4 DEF Versions, Three, Pair
  <2>2. i \in 1 .. 2
    BY <2>1
  <2>3. Versions(k)[i] \in {V("avx", {"avx"}), V("sse2", {"sse2"})}
    BY <2>1, <2>2
  <2>. QED BY <2>2, <2>3, Named
<1>. QED BY <1>1, <1>2, <1>3, <1>4 DEF Dispatched, Bits

\* A set of places in a list of four has a first.
LEMMA FirstOfFour ==
    ASSUME NEW S \in SUBSET (1 .. 4), S # {}
    PROVE  \E i \in S : \A j \in S : i <= j
<1>1. CASE 1 \in S
  BY <1>1
<1>2. CASE 1 \notin S /\ 2 \in S
  BY <1>2
<1>3. CASE 1 \notin S /\ 2 \notin S /\ 3 \in S
  BY <1>3
<1>4. CASE 1 \notin S /\ 2 \notin S /\ 3 \notin S
  <2>1. \A i \in S : i = 4
    BY <1>4
  <2>2. PICK i \in S : TRUE
    OBVIOUS
  <2>3. i = 4 /\ \A j \in S : i <= j
    BY <2>1
  <2>. QED BY <2>2, <2>3
<1>. QED BY <1>1, <1>2, <1>3, <1>4, Zenon

\* What a stub chooses is a version whose test the capabilities c pass, and a stub that
\* chooses nothing has no such version.
LEMMA ChosenSound ==
    ASSUME NEW k \in Dispatched, NEW c
    PROVE  /\ Chosen(k, c) \in Version \union {"none"}
           /\ Chosen(k, c) # "none" =>
                 \E i \in DOMAIN Versions(k) :
                    Chosen(k, c) = Versions(k)[i].name /\ Versions(k)[i].needs \subseteq c
           /\ Chosen(k, c) = "none" =>
                 \A i \in DOMAIN Versions(k) : ~(Versions(k)[i].needs \subseteq c)
<1>. DEFINE fit == {i \in DOMAIN Versions(k) : Suits(Versions(k)[i], c)}
<1>0. "none" \notin Version
  BY DEF Version
<1>1. CASE fit = {}
  <2>1. Chosen(k, c) = "none"
    BY <1>1 DEF Chosen
  <2>2. ASSUME NEW i \in DOMAIN Versions(k) PROVE ~(Versions(k)[i].needs \subseteq c)
    BY <1>1 DEF Suits
  <2>. QED BY <2>1, <2>2
<1>2. CASE fit # {}
  <2>. DEFINE first == CHOOSE i \in fit : \A j \in fit : i <= j
  <2>1. fit \in SUBSET (1 .. 4)
    BY VersionList
  <2>2. first \in fit
    <3>1. \E i \in fit : \A j \in fit : i <= j
      BY <1>2, <2>1, FirstOfFour
    <3>. QED BY <3>1
  <2>3. Chosen(k, c) = Versions(k)[first].name
    BY <1>2 DEF Chosen
  <2>4. first \in DOMAIN Versions(k) /\ Versions(k)[first].needs \subseteq c
    BY <2>2 DEF Suits
  <2>5. Versions(k)[first].name \in Version
    BY <2>4, VersionList DEF Tested
  <2>. HIDE DEF first, fit
  <2>. QED BY <1>0, <2>3, <2>4, <2>5
<1>. QED BY <1>1, <1>2

\* The capabilities that hwcaps.c finds are those whose instructions the machine
\* executes, and one that it need not tell from another.
LEMMA NativeExecutes ==
    ASSUME NEW cpu, {cpu.leaf1, cpu.leaf7, cpu.ext} \subseteq BOOLEAN
    PROVE  getnativecaps(cpu) \intersect Capability = Executes(cpu)
<1>. DEFINE native == getnativecaps(cpu)
<1>1. cpu.leaf1 \in BOOLEAN /\ cpu.leaf7 \in BOOLEAN /\ cpu.ext \in BOOLEAN
  OBVIOUS
<1>2. "sse2" \in native <=> "sse2" \in Executes(cpu)
  BY DEF getnativecaps, setcap, AvxBits, Executes, Promise, Capability
<1>3. "sse41" \in native <=> "sse41" \in Executes(cpu)
  BY DEF getnativecaps, setcap, AvxBits, Executes, Promise, Capability
<1>4. "avx" \in native <=> "avx" \in Executes(cpu)
  BY DEF getnativecaps, setcap, AvxBits, Executes, Promise, Capability
<1>5. "lzcnt" \in native <=> "lzcnt" \in Executes(cpu)
  BY DEF getnativecaps, setcap, AvxBits, Executes, Promise, Capability
<1>6. "bmi1" \in native <=> "bmi1" \in Executes(cpu)
  BY DEF getnativecaps, setcap, AvxBits, Executes, Promise, Capability
<1>7. Executes(cpu) \subseteq Capability
  BY DEF Executes
<1>8. \A c \in Capability : c \in native <=> c \in Executes(cpu)
  BY <1>2, <1>3, <1>4, <1>5, <1>6 DEF Capability
<1>. HIDE DEF native
<1>. QED BY <1>7, <1>8 DEF native

\* A machine with instructions that a stub tests for has SSE2.
LEMMA ExecutesSse2 ==
    ASSUME NEW cpu \in Machine, {"sse2", "sse41", "avx"} \intersect Executes(cpu) # {}
    PROVE  "sse2" \in Executes(cpu)
<1>1. PICK c \in {"sse2", "sse41", "avx"} : c \in Executes(cpu)
  OBVIOUS
<1>2. CASE c = "sse2"
  BY <1>1, <1>2
<1>3. CASE c = "sse41"
  <2>1. "sse4.1" \in cpu.bits /\ cpu.leaf1
    BY <1>1, <1>3 DEF Executes, Promise
  <2>. QED BY <2>1, DispatchAssumption DEF Executes, Promise, Capability
<1>4. CASE c = "avx"
  <2>1. "avx" \in cpu.bits /\ cpu.leaf1
    BY <1>1, <1>4 DEF Executes, Promise
  <2>. QED BY <2>1, DispatchAssumption DEF Executes, Promise, Capability
<1>. QED BY <1>2, <1>3, <1>4

-----------------------------------------------------------------------------
(* The invariant *)

\* Initially no pointer has been stored, and no thread has done anything.
LEMMA InitInv == DispatchInit => DispatchInv
<1>. SUFFICES ASSUME DispatchInit PROVE DispatchInv
  OBVIOUS
<1>1. InvTypes
  BY DEF DispatchInit, InvTypes
<1>2. InvTo
  BY DEF DispatchInit, InvTo
<1>3. InvOnce
  BY DEF DispatchInit, InvOnce, Inside
<1>4. InvSettled
  BY DEF DispatchInit, InvSettled
<1>. QED BY <1>1, <1>2, <1>3, <1>4 DEF DispatchInv

\* A call begins.
LEMMA StepEnter ==
    ASSUME DispatchInv, NEW t \in Thread, NEW k \in Dispatched \union Direct, Enter(t, k)
    PROVE  DispatchInv'
<1>. USE DEF DispatchInv, Enter, Goes, setting, shared
<1>1. Allowed' = Allowed
  BY DEF Allowed
<1>2. InvTypes'
  BY DEF InvTypes
<1>3. InvTo'
  BY DEF InvTypes, InvTo
<1>4. InvOnce'
  BY <1>1 DEF InvTypes, InvOnce, Inside
<1>5. InvSettled'
  BY <1>1 DEF InvTypes, InvTo, InvSettled
<1>. QED BY <1>2, <1>3, <1>4, <1>5

\* A kernel without a stub ends.
LEMMA StepEndDirect ==
    ASSUME DispatchInv, NEW t \in Thread, EndDirect(t)
    PROVE  DispatchInv'
<1>. USE DEF DispatchInv, EndDirect, Goes, setting, shared
<1>1. Allowed' = Allowed
  BY DEF Allowed
<1>2. InvTypes'
  BY DEF InvTypes
<1>3. InvTo'
  BY DEF InvTypes, InvTo
<1>4. InvOnce'
  BY <1>1 DEF InvTypes, InvOnce, Inside
<1>5. InvSettled'
  BY <1>1 DEF InvTypes, InvTo, InvSettled
<1>. QED BY <1>2, <1>3, <1>4, <1>5

\* A kernel without a stub jumps to hebi_pcopy.
LEMMA StepJumpOn ==
    ASSUME DispatchInv, NEW t \in Thread, JumpOn(t)
    PROVE  DispatchInv'
<1>. USE DEF DispatchInv, JumpOn, Goes, setting, shared
<1>0. "pcopy" \in Dispatched
  BY DEF Dispatched, Pair
<1>1. Allowed' = Allowed
  BY DEF Allowed
<1>2. InvTypes'
  BY <1>0 DEF InvTypes
<1>3. InvTo'
  BY <1>0 DEF InvTypes, InvTo
<1>4. InvOnce'
  BY <1>1 DEF InvTypes, InvOnce, Inside
<1>5. InvSettled'
  BY <1>1 DEF InvTypes, InvTo, InvSettled
<1>. QED BY <1>2, <1>3, <1>4, <1>5

\* What a pointer leads to was stored by a stub.
LEMMA StepJump ==
    ASSUME DispatchInv, NEW t \in Thread, Jump(t)
    PROVE  DispatchInv'
<1>. USE DEF DispatchInv, Jump, Goes, setting, shared
<1>0. to[t] \in Dispatched /\ ptr[to[t]] \in Version \union {Stub} /\ "none" \notin Version
  BY DEF InvTypes, InvTo, Version
<1>1. Allowed' = Allowed
  BY DEF Allowed
<1>2. InvTypes'
  BY <1>0 DEF InvTypes
<1>3. InvTo'
  BY DEF InvTypes, InvTo
<1>4. InvOnce'
  BY <1>1 DEF InvTypes, InvOnce, Inside
<1>5. InvSettled'
  BY <1>0, <1>1 DEF InvTypes, InvSettled
<1>. QED BY <1>2, <1>3, <1>4, <1>5

\* Nothing was initialised, so nobody is inside initcaps.
LEMMA StepAskFirst ==
    ASSUME DispatchInv, NEW t \in Thread, AskFirst(t)
    PROVE  DispatchInv'
<1>. USE DEF DispatchInv, AskFirst, Goes, setting, shared
<1>1. Allowed' = Allowed
  BY DEF Allowed
<1>2. InvTypes'
  BY DEF InvTypes
<1>3. InvTo'
  BY DEF InvTypes, InvTo
<1>4. InvOnce'
  BY <1>1 DEF InvTypes, InvOnce, Inside
<1>5. InvSettled'
  BY <1>1 DEF InvTypes, InvTo, InvSettled
<1>. QED BY <1>2, <1>3, <1>4, <1>5

\* pthread_once has been through initcaps: the capabilities are those allowed.
LEMMA StepAsk ==
    ASSUME DispatchInv, NEW t \in Thread, Ask(t)
    PROVE  DispatchInv'
<1>. USE DEF DispatchInv, Ask, Goes, setting, shared
<1>1. Allowed' = Allowed
  BY DEF Allowed
<1>2. InvTypes'
  BY DEF InvTypes
<1>3. InvTo'
  BY DEF InvTypes, InvTo
<1>4. InvOnce'
  BY <1>1 DEF InvTypes, InvOnce, Inside
<1>5. InvSettled'
  BY <1>1 DEF InvTypes, InvOnce, InvSettled, OnceOver
<1>. QED BY <1>2, <1>3, <1>4, <1>5

\* The first store of initcaps: nobody reads it.
LEMMA StepStoreNative ==
    ASSUME DispatchInv, NEW t \in Thread, StoreNative(t)
    PROVE  DispatchInv'
<1>. USE DEF DispatchInv, StoreNative, Goes, setting, shared
<1>1. Allowed' = Allowed
  BY DEF Allowed
<1>2. InvTypes'
  BY DEF InvTypes
<1>3. InvTo'
  BY DEF InvTypes, InvTo
<1>4. InvOnce'
  BY <1>1 DEF InvTypes, InvOnce, Inside
<1>5. InvSettled'
  BY <1>1 DEF InvTypes, InvTo, InvSettled
<1>. QED BY <1>2, <1>3, <1>4, <1>5

\* The second store settles the capabilities; nothing yet rests on them.
LEMMA StepStoreListed ==
    ASSUME DispatchInv, NEW t \in Thread, StoreListed(t)
    PROVE  DispatchInv'
<1>. USE DEF DispatchInv, StoreListed, Goes, setting, shared
<1>1. once = "running" /\ hwcaps' = Allowed'
  <2>1. once = "running" /\ ~unread /\ hwcaps = getnativecaps(machine)
    BY DEF InvOnce, Inside
  <2>. QED BY <2>1 DEF Allowed
<1>2. InvTypes'
  BY DEF InvTypes
<1>3. InvTo'
  BY DEF InvTypes, InvTo
<1>4. InvOnce'
  BY <1>1 DEF InvTypes, InvOnce, Inside, AfterInit
<1>5. InvSettled'
  BY <1>1 DEF InvTypes, InvSettled, AfterInit
<1>. QED BY <1>2, <1>3, <1>4, <1>5

\* The version is the first that is allowed.
LEMMA StepChoose ==
    ASSUME DispatchInv, NEW t \in Thread, Choose(t)
    PROVE  DispatchInv'
<1>. USE DEF DispatchInv, Choose, Goes, setting, shared
<1>0. to[t] \in Dispatched /\ Chosen(to[t], caps[t]) \in Version \union {"none"}
  BY ChosenSound DEF InvTo
<1>1. Allowed' = Allowed
  BY DEF Allowed
<1>2. InvTypes'
  BY <1>0 DEF InvTypes
<1>3. InvTo'
  BY DEF InvTypes, InvTo
<1>4. InvOnce'
  BY <1>1 DEF InvTypes, InvOnce, Inside
<1>5. InvSettled'
  BY <1>1 DEF InvTypes, InvTo, InvSettled
<1>. QED BY <1>2, <1>3, <1>4, <1>5

\* The stored version is the one that others store.
LEMMA StepStorePtr ==
    ASSUME DispatchInv, NEW t \in Thread, StorePtr(t)
    PROVE  DispatchInv'
<1>. USE DEF DispatchInv, StorePtr, Goes, setting, shared
<1>0. to[t] \in Dispatched /\ version[t] \in Version
  BY DEF InvTypes, InvTo, InvSettled
<1>1. Allowed' = Allowed
  BY DEF Allowed
<1>2. InvTypes'
  BY <1>0 DEF InvTypes
<1>3. InvTo'
  BY DEF InvTypes, InvTo
<1>4. InvOnce'
  BY <1>1 DEF InvTypes, InvOnce, Inside
<1>5. InvSettled'
  BY <1>1 DEF InvTypes, InvTo, InvSettled
<1>. QED BY <1>2, <1>3, <1>4, <1>5

\* A version ends.
LEMMA StepRunVersion ==
    ASSUME DispatchInv, NEW t \in Thread, RunVersion(t)
    PROVE  DispatchInv'
<1>. USE DEF DispatchInv, RunVersion, Goes, setting, shared
<1>1. Allowed' = Allowed
  BY DEF Allowed
<1>2. InvTypes'
  BY DEF InvTypes
<1>3. InvTo'
  BY DEF InvTypes, InvTo
<1>4. InvOnce'
  BY <1>1 DEF InvTypes, InvOnce, Inside
<1>5. InvSettled'
  BY <1>1 DEF InvTypes, InvTo, InvSettled
<1>. QED BY <1>2, <1>3, <1>4, <1>5

\* A thread between two calls holds nothing.
LEMMA StepLeave ==
    ASSUME DispatchInv, NEW t \in Thread, Leave(t)
    PROVE  DispatchInv'
<1>. USE DEF DispatchInv, Leave, Goes, setting, shared
<1>1. Allowed' = Allowed
  BY DEF Allowed
<1>2. InvTypes'
  BY DEF InvTypes
<1>3. InvTo'
  BY DEF InvTypes, InvTo
<1>4. InvOnce'
  BY <1>1 DEF InvTypes, InvOnce, Inside
<1>5. InvSettled'
  BY <1>1 DEF InvTypes, InvTo, InvSettled
<1>. QED BY <1>2, <1>3, <1>4, <1>5

\* A step that changes nothing of it.
LEMMA StepNone == DispatchInv /\ UNCHANGED dispatch => DispatchInv'
BY DEF dispatch, setting, shared, call, DispatchInv, InvTypes, InvTo, InvOnce, InvSettled, Inside, Allowed

\* The invariant: only one thread is ever inside initcaps, nothing rests on the
\* capabilities before they are settled, and every version that was chosen is the
\* first that is allowed (hwcaps.c, hebi_hwcaps__; x86_64.inc, the stubs).
THEOREM DispatchInvariance == DispatchSpec => []DispatchInv
<1>1. DispatchInit => DispatchInv
  BY InitInv
<1>2. DispatchInv /\ [DispatchNext]_dispatch => DispatchInv'
  <2>. SUFFICES ASSUME DispatchInv, [DispatchNext]_dispatch PROVE DispatchInv'
    OBVIOUS
  <2>1. CASE UNCHANGED dispatch
    BY <2>1, StepNone
  <2>2. ASSUME NEW t \in Thread,
               \/ \E k \in Dispatched \union Direct : Enter(t, k)
               \/ EndDirect(t) \/ JumpOn(t) \/ Jump(t) \/ AskFirst(t) \/ Ask(t) \/ StoreNative(t)
               \/ StoreListed(t) \/ Choose(t) \/ StorePtr(t) \/ RunVersion(t) \/ Leave(t)
        PROVE  DispatchInv'
    BY <2>2, StepEnter, StepEndDirect, StepJumpOn, StepJump, StepAskFirst, StepAsk, StepStoreNative,
       StepStoreListed, StepChoose, StepStorePtr, StepRunVersion, StepLeave
  <2>. QED BY <2>1, <2>2 DEF DispatchNext
<1>. QED BY <1>1, <1>2, PTL DEF DispatchSpec

\* What hwcaps comes to are capabilities that the machine executes and the list has.
LEMMA AllowedIs ==
    ASSUME machine \in Machine
    PROVE  Allowed \intersect Capability = Executes(machine) \intersect Listed \intersect Capability
<1>1. getnativecaps(machine) \intersect Capability = Executes(machine)
  BY NativeExecutes, DispatchAssumption
<1>2. CASE listing = NoList \/ unread
  BY <1>1, <1>2 DEF Allowed, Listed
<1>3. CASE ~(listing = NoList \/ unread)
  <2>1. Allowed = getnativecaps(machine) \intersect Listed
    BY <1>3 DEF Allowed, Listed, overridecaps
  <2>. QED BY <1>1, <2>1
<1>. QED BY <1>2, <1>3

\* A version whose test the settled capabilities pass may run.
LEMMA TestedMayRun ==
    ASSUME machine \in Machine, NEW k \in Dispatched, Chosen(k, Allowed) # "none"
    PROVE  MayRun(k, Chosen(k, Allowed))
<1>1. PICK i \in DOMAIN Versions(k) :
         Chosen(k, Allowed) = Versions(k)[i].name /\ Versions(k)[i].needs \subseteq Allowed
  BY ChosenSound
<1>. DEFINE v == Versions(k)[i]
<1>2. Tested(k, v)
  BY VersionList
<1>3. v.needs \subseteq Executes(machine) /\ v.needs \subseteq Listed
  BY <1>1, <1>2, AllowedIs DEF Tested
<1>4. "sse2" \in Executes(machine)
  BY <1>2, <1>3, ExecutesSse2 DEF Tested
<1>. QED BY <1>1, <1>2, <1>3, <1>4 DEF Tested, MayRun

\* The invariant implies it.
LEMMA InvAllows == DispatchInv => VersionsAllowed
<1>. SUFFICES ASSUME DispatchInv PROVE VersionsAllowed
  OBVIOUS
<1>0. machine \in Machine
  BY DEF DispatchInv, InvTypes
<1>1. ASSUME NEW k \in Dispatched, ptr[k] # Stub
      PROVE  MayRun(k, ptr[k])
  <2>1. ptr[k] = Chosen(k, Allowed) /\ ptr[k] \in Version
    BY <1>1 DEF DispatchInv, InvTypes, InvSettled
  <2>2. "none" \notin Version
    BY DEF Version
  <2>. QED BY <1>0, <2>1, <2>2, TestedMayRun
<1>2. ASSUME NEW t \in Thread, pc[t] = "run"
      PROVE  MayRun(to[t], version[t])
  <2>1. to[t] \in Dispatched
    BY <1>2 DEF DispatchInv, InvTo
  <2>2. version[t] = Chosen(to[t], Allowed) /\ version[t] # "none"
    BY <1>2 DEF DispatchInv, InvSettled
  <2>. QED BY <1>0, <2>1, <2>2, TestedMayRun
<1>3. ASSUME NEW t \in Thread, pc[t] = "refused", NEW i \in DOMAIN Versions(to[t]),
             Uses(to[t], Versions(to[t])[i].name) \subseteq Executes(machine) \intersect Listed
      PROVE  FALSE
  <2>. DEFINE v == Versions(to[t])[i]
  <2>1. to[t] \in Dispatched
    BY <1>3 DEF DispatchInv, InvTo
  <2>2. Chosen(to[t], Allowed) = "none"
    BY <1>3 DEF DispatchInv, InvSettled
  <2>3. v.needs \subseteq Executes(machine) \intersect Listed \intersect Capability
    BY <1>3, <2>1, VersionList DEF Tested
  <2>4. v.needs \subseteq Allowed
    BY <1>0, <2>3, AllowedIs
  <2>. QED BY <1>3, <2>1, <2>2, <2>4, ChosenSound
<1>. QED BY <1>1, <1>2, <1>3 DEF VersionsAllowed

\* For any number of threads, any machine and any list, and in whatever order threads
\* ask and choose: no version runs, and no pointer leads to one, with an instruction
\* that the machine does not execute, or one beyond SSE2 that the list leaves out, and
\* a stub raises ENOHWCAPS only if no version is without them (hwcaps.c, initcaps; the
\* stubs and the versions of the kernels).
THEOREM OnlyAllowedVersions == DispatchSpec => []VersionsAllowed
  BY InvAllows, DispatchInvariance, PTL

\* Threads that race to store a pointer store the same version, so that the race of
\* the plain stores in the stubs is harmless (x86_64.inc,
\* MVFUNC_DISPATCH_FINALIZE_IMPL__).
THEOREM RacingStoresAgree == DispatchSpec => []StoresAgree
<1>1. DispatchInv => StoresAgree
  BY DEF DispatchInv, InvSettled, StoresAgree
<1>. QED BY <1>1, DispatchInvariance, PTL

-----------------------------------------------------------------------------
(* What callers pass *)

\* There are n packets at p, and p is a pointer.
HasPackets(m, p, n) ==
    /\ Area(m, p, 2 * n) /\ Pointer(p)
    /\ \A i \in 0 .. 2 * n - 1 : HasLimb(m, p, i)

\* The memory that a caller passes is a memory of limbs.
LEMMA MemoryPassed ==
    ASSUME NEW m, m = [b \in DOMAIN m |-> m[b]], \A b \in DOMAIN m : m[b] \in [DOMAIN m[b] -> Limb]
    PROVE  IsMemory(m)
<1>1. \A b \in DOMAIN m : m[b] \in UNION {[DOMAIN m[c] -> Limb] : c \in DOMAIN m}
  OBVIOUS
<1>2. m \in [DOMAIN m -> UNION {[DOMAIN m[c] -> Limb] : c \in DOMAIN m}]
  BY <1>1
<1>3. QED  BY <1>2 DEF IsMemory, Memory

\* Room in packets is room in limbs.
LEMMA RoomPassed ==
    ASSUME NEW m, NEW p, NEW n \in Int, Room(m, p, n)
    PROVE  HasPackets(m, p, n)
<1>1. n * PacketLimbs = 2 * n
  BY PX86Assumption
<1>2. /\ p = [buf |-> p.buf, at |-> p.at] /\ p.buf \in DOMAIN m /\ p.at \in Nat
      /\ \A i \in 0 .. 2 * n - 1 : p.at + i \in DOMAIN m[p.buf]
  BY <1>1 DEF Room
<1>3. Pointer(p)
  BY <1>2 DEF Pointer
<1>4. QED  BY <1>2, <1>3 DEF HasPackets, Area, HasLimb

\* The same for the overlap.
LEMMA OverlapPassed ==
    ASSUME NEW r, NEW a, NEW n \in Int, InTurn(r, a, n)
    PROVE  Follows(r, a, 2 * n)
<1>1. n * PacketLimbs = 2 * n
  BY PX86Assumption
<1>2. QED  BY <1>1 DEF InTurn, Follows

\* A result has a number of packets.
LEMMA ResultNumber ==
    ASSUME NEW k, NEW x, x.n \in Nat, k \in {"pshl", "pshr", "pmul"} => x.k \in Nat
    PROVE  ResultPackets(k, x) \in Int
<1>1. PacketBit \in Nat \ {0} /\ LimbBit \in Nat \ {0} /\ PacketLimbs = 2
  BY PX86Assumption, PacketsAssumption DEF PacketBit
<1>2. CASE k = "pshl"
  BY <1>1, <1>2 DEF ResultPackets, DivUp
<1>3. CASE k = "pshr"
  BY <1>1, <1>3 DEF ResultPackets
<1>4. CASE k = "pmul"
  BY <1>4 DEF ResultPackets
<1>5. CASE k = "psqr"
  BY <1>5 DEF ResultPackets
<1>6. CASE k \notin {"pshl", "pshr", "pmul", "psqr"}
  BY <1>6 DEF ResultPackets
<1>7. QED  BY <1>2, <1>3, <1>4, <1>5, <1>6

\* What a legal call has, in limbs.
LEMMA Passed ==
    ASSUME NEW k, NEW x, Legal(k, x)
    PROVE  /\ IsMemory(x.m) /\ x.n \in Nat /\ x.n > 0
           /\ k \notin {"pzero", "padda", "psuba"} => HasPackets(x.m, x.a, x.n)
           /\ k \notin Queries => HasPackets(x.m, x.r, ResultPackets(k, x))
           /\ k \in Paired => HasPackets(x.m, x.b, x.n)
           /\ k \in Longer => x.k \in 1 .. x.n /\ HasPackets(x.m, x.b, x.k)
           /\ k \in Worded => x.k \in Limb
           /\ k \in {"pshl", "pshr"} => x.k \in Nat
           /\ k \in Upwards => Follows(x.r, x.a, 2 * x.n)
           /\ k \in Combines => Follows(x.r, x.b, 2 * x.n)
           /\ k \in Adds => Follows(x.r, x.b, 2 * x.k)
           /\ k = "pshl" /\ x.r.buf = x.a.buf => x.r.at >= x.a.at
<1>1. /\ x.m = [b \in DOMAIN x.m |-> x.m[b]] /\ \A b \in DOMAIN x.m : x.m[b] \in [DOMAIN x.m[b] -> Limb]
      /\ x.n \in Nat \ {0}
      /\ k \notin {"pzero", "padda", "psuba"} => Room(x.m, x.a, x.n)
      /\ k \notin Queries => Room(x.m, x.r, ResultPackets(k, x))
      /\ k \in Paired => Room(x.m, x.b, x.n)
      /\ k \in Longer => x.k \in 1 .. x.n /\ Room(x.m, x.b, x.k)
      /\ k \in Worded => x.k \in Limb
      /\ k \in {"pshl", "pshr"} => x.k \in Nat
      /\ k \in Upwards => InTurn(x.r, x.a, x.n)
      /\ k \in Combines => InTurn(x.r, x.b, x.n)
      /\ k \in Adds => InTurn(x.r, x.b, x.k)
      /\ k = "pshl" /\ x.r.buf = x.a.buf => x.r.at >= x.a.at
  BY DEF Legal
<1>2. IsMemory(x.m)
  BY <1>1, MemoryPassed
<1>3. x.n \in Nat /\ x.n > 0 /\ x.n \in Int
  BY <1>1
<1>4. k \in Longer => x.k \in Int /\ x.k \in Nat
  BY <1>1
<1>5. Adds \subseteq Longer /\ "pmul" \in Longer
  BY DEF Adds, Longer
<1>6. ResultPackets(k, x) \in Int
  BY <1>1, <1>3, <1>4, <1>5, ResultNumber
<1>7. k \notin {"pzero", "padda", "psuba"} => HasPackets(x.m, x.a, x.n)
  BY <1>1, <1>3, RoomPassed
<1>8. k \notin Queries => HasPackets(x.m, x.r, ResultPackets(k, x))
  BY <1>1, <1>6, RoomPassed
<1>9. k \in Paired => HasPackets(x.m, x.b, x.n)
  BY <1>1, <1>3, RoomPassed
<1>10. k \in Longer => HasPackets(x.m, x.b, x.k)
  BY <1>1, <1>4, RoomPassed
<1>11. k \in Upwards => Follows(x.r, x.a, 2 * x.n)
  BY <1>1, <1>3, OverlapPassed
<1>12. k \in Combines => Follows(x.r, x.b, 2 * x.n)
  BY <1>1, <1>3, OverlapPassed
<1>13. k \in Adds => Follows(x.r, x.b, 2 * x.k)
  BY <1>1, <1>4, <1>5, OverlapPassed
<1>14. QED  BY <1>1, <1>2, <1>3, <1>7, <1>8, <1>9, <1>10, <1>11, <1>12, <1>13

-----------------------------------------------------------------------------
(* The kernels that callers call *)

\* Copies and bitwise kernels, in unrolled loops.
LEMMA CopiesSame ==
    ASSUME NEW k \in {"pcopy", "pzero", "pnot", "pand", "por", "pxor"}, NEW x, Legal(k, x)
    PROVE  Ran(k, x) = Portable(k, x)
<1>1. /\ IsMemory(x.m) /\ x.n \in Nat /\ x.r.at \in Nat
      /\ \A i \in 0 .. 2 * x.n - 1 : HasLimb(x.m, x.r, i)
      /\ k # "pzero" => Readable(x.m, x.r, x.a, 2 * x.n)
      /\ k \in Combines => Readable(x.m, x.r, x.b, 2 * x.n)
  <2>1. /\ ResultPackets(k, x) = x.n /\ k \notin Queries /\ k \notin {"padda", "psuba"}
        /\ k # "pzero" => k \in Upwards
        /\ k \in Combines => k \in Paired
    BY DEF ResultPackets, Queries, Three, Bits, Upwards, Combines, Paired
  <2>2. QED  BY <2>1, Passed DEF HasPackets, Area, Readable
<1>2. CASE k = "pcopy"
  <2>1. Operands("copy", x.m, x.r, x.a, x.a, 2 * x.n)
    BY <1>1, <1>2 DEF Operands
  <2>2. PCOPY128(x.m, x.r, x.a, x.n) = pcopy(x.m, x.r, x.a, x.n)
    BY <1>1, <2>1, UnrolledSame DEF PCOPY128, Op
  <2>3. QED  BY <1>2, <2>2 DEF Ran, Portable
<1>3. CASE k = "pzero"
  <2>1. Operands("zero", x.m, x.r, x.r, x.r, 2 * x.n)
    BY DEF Operands
  <2>2. PZERO128(x.m, x.r, x.n) = pzero(x.m, x.r, x.n)
    BY <1>1, <2>1, UnrolledSame DEF PZERO128, Op
  <2>3. QED  BY <1>3, <2>2 DEF Ran, Portable
<1>4. CASE k = "pnot"
  <2>1. Operands("not", x.m, x.r, x.a, x.a, 2 * x.n)
    BY <1>1, <1>4 DEF Operands
  <2>2. PNOT128(x.m, x.r, x.a, x.n) = pnot(x.m, x.r, x.a, x.n)
    BY <1>1, <2>1, UnrolledSame DEF PNOT128, Op
  <2>3. QED  BY <1>4, <2>2 DEF Ran, Portable
<1>5. CASE k \in {"pand", "por", "pxor"}
  <2>1. ASSUME NEW op \in {"and", "or", "xor"}
        PROVE  Unrolled(op, x.m, x.r, x.a, x.b, x.n) = EachLimb(op, x.m, x.r, x.a, x.b, x.n)
    <3>1. Operands(op, x.m, x.r, x.a, x.b, 2 * x.n)
      BY <1>1, <1>5 DEF Operands, Combines
    <3>2. QED  BY <1>1, <3>1, UnrolledSame DEF Op
  <2>2. /\ pand128(x.m, x.r, x.a, x.b, x.n) = pand(x.m, x.r, x.a, x.b, x.n)
        /\ por128(x.m, x.r, x.a, x.b, x.n) = por(x.m, x.r, x.a, x.b, x.n)
        /\ pxor128(x.m, x.r, x.a, x.b, x.n) = pxor(x.m, x.r, x.a, x.b, x.n)
    BY <2>1 DEF pand128, por128, pxor128, pand, por, pxor
  <2>3. QED  BY <1>5, <2>2 DEF Ran, Portable
<1>6. QED  BY <1>2, <1>3, <1>4, <1>5

\* hebi_pmove, whatever the overlap.
LEMMA MovesSame ==
    ASSUME NEW x, Legal("pmove", x)
    PROVE  Ran("pmove", x) = Portable("pmove", x)
<1>1. ResultPackets("pmove", x) = x.n /\ "pmove" \notin Queries
  BY DEF ResultPackets, Queries, Three, Bits
<1>2. /\ IsMemory(x.m) /\ x.n \in Nat /\ x.n > 0
      /\ \A i \in 0 .. 2 * x.n - 1 : HasLimb(x.m, x.r, i) /\ HasLimb(x.m, x.a, i)
  BY <1>1, Passed DEF HasPackets
<1>3. PMOVE128(x.m, x.r, x.a, x.n) = pmove(x.m, x.r, x.a, x.n)
  BY <1>2, MoveSame
<1>4. QED  BY <1>3 DEF Ran, Portable

\* The kernels that only look at packets.
LEMMA QueriesSame ==
    ASSUME NEW k \in Queries, NEW x, Legal(k, x), ~(k = "pcmp" /\ x.n % 2 = 0 /\ x.n > 2)
    PROVE  Ran(k, x) = Portable(k, x)
<1>1. IsMemory(x.m) /\ x.n \in Nat
  BY Passed
<1>2. CASE k = "pcmp"
  <2>1. \A i \in 0 .. 2 * x.n - 1 : HasLimb(x.m, x.a, i) /\ HasLimb(x.m, x.b, i)
    BY <1>2, Passed DEF HasPackets, Paired
  <2>2. pcmp_x86(x.m, x.a, x.b, x.n) = pcmp(x.m, x.a, x.b, x.n)
    BY <1>1, <1>2, <2>1, CompareSame
  <2>3. QED  BY <1>2, <2>2 DEF Ran, Portable
<1>3. CASE k = "pnorm"
  <2>1. pnorm_x86(x.m, x.a, x.n) = pnorm(x.m, x.a, x.n)
    BY <1>1, NormSame
  <2>2. QED  BY <1>3, <2>1 DEF Ran, Portable
<1>4. CASE k = "pclz"
  <2>1. pclz_x86(x.m, x.a, x.n) = pclz(x.m, x.a, x.n)
    BY <1>1, LeadingSame
  <2>2. QED  BY <1>4, <2>1 DEF Ran, Portable
<1>5. CASE k = "pctz"
  <2>1. pctz_x86(x.m, x.a, x.n) = pctz(x.m, x.a, x.n)
    BY <1>1, TrailingSame
  <2>2. QED  BY <1>5, <2>1 DEF Ran, Portable
<1>6. QED  BY <1>2, <1>3, <1>4, <1>5 DEF Queries, Three, Bits

\* The shifts.
LEMMA ShiftsSame ==
    ASSUME NEW k \in {"pshl", "pshr"}, NEW x, Legal(k, x)
    PROVE  Ran(k, x) = Portable(k, x)
<1>1. /\ IsMemory(x.m) /\ x.n \in Nat /\ x.n > 0 /\ x.k \in Nat
      /\ HasPackets(x.m, x.a, x.n) /\ HasPackets(x.m, x.r, ResultPackets(k, x))
  BY Passed DEF Queries, Three, Bits
<1>2. CASE k = "pshl"
  <2>1. ResultPackets(k, x) = x.n + DivUp(x.k, PacketBit)
    BY <1>2 DEF ResultPackets
  <2>2. Over(x.r, x.a)
    BY <1>1, <1>2, Passed DEF Over, HasPackets, Area
  <2>3. RoomUp(x.m, x.r, x.a, x.k, x.n)
    BY <1>1, <2>1, <2>2 DEF RoomUp, HasPackets
  <2>4. pshl_x86(x.m, x.r, x.a, x.k, x.n) = pshl(x.m, x.r, x.a, x.k, x.n)
    BY <2>3, ShiftUpSame
  <2>5. QED  BY <1>2, <2>4 DEF Ran, Portable
<1>3. CASE k = "pshr"
  <2>1. ResultPackets(k, x) = x.n - (x.k \div LimbBit) \div 2
    BY <1>3, PX86Assumption DEF ResultPackets
  <2>2. Follows(x.r, x.a, 2 * x.n)
    BY <1>3, Passed DEF Upwards
  <2>3. RoomDown(x.m, x.r, x.a, x.k, x.n)
    BY <1>1, <2>1, <2>2 DEF RoomDown, Readable, HasPackets, Area
  <2>4. pshr_x86(x.m, x.r, x.a, x.k, x.n) = pshr(x.m, x.r, x.a, x.k, x.n)
    BY <2>3, ShiftDownSame
  <2>5. QED  BY <1>3, <2>4 DEF Ran, Portable
<1>4. QED  BY <1>2, <1>3

\* hebi_pneg.
LEMMA NegationSame ==
    ASSUME NEW x, Legal("pneg", x)
    PROVE  Ran("pneg", x) = Portable("pneg", x)
<1>1. ResultPackets("pneg", x) = x.n /\ "pneg" \notin Queries
  BY DEF ResultPackets, Queries, Three, Bits
<1>2. /\ IsMemory(x.m) /\ x.n \in Nat
      /\ \A i \in 0 .. 2 * x.n - 1 : HasLimb(x.m, x.r, i) /\ HasLimb(x.m, x.a, i)
  BY <1>1, Passed DEF HasPackets
<1>3. pneg_x86(x.m, x.r, x.a, x.n) = pneg(x.m, x.r, x.a, x.n)
  BY <1>2, NegSame
<1>4. QED  BY <1>3 DEF Ran, Portable

\* The products.
LEMMA ProductsSame ==
    ASSUME NEW k \in {"pmulu", "pmul", "psqr"}, NEW x, Legal(k, x)
    PROVE  Ran(k, x) = Portable(k, x)
<1>1. /\ IsMemory(x.m) /\ x.n \in Nat
      /\ HasPackets(x.m, x.a, x.n) /\ HasPackets(x.m, x.r, ResultPackets(k, x))
      /\ k = "pmul" => x.k \in Nat /\ HasPackets(x.m, x.b, x.k)
  BY Passed DEF Queries, Three, Bits, Longer
<1>2. CASE k = "pmulu"
  <2>1. pmulu_x86(x.m, x.r, x.a, x.k, x.n) = pmulu(x.m, x.r, x.a, x.k, x.n)
    BY WordProductSame
  <2>2. QED  BY <1>2, <2>1 DEF Ran, Portable
<1>3. CASE k = "pmul"
  <2>1. ResultPackets(k, x) = x.n + x.k
    BY <1>3 DEF ResultPackets
  <2>2. pmul_x86(x.m, x.r, x.a, x.b, x.n, x.k) = pmul(x.m, x.r, x.a, x.b, x.n, x.k)
    BY <1>1, <1>3, <2>1, ProductSame DEF HasPackets
  <2>3. QED  BY <1>3, <2>2 DEF Ran, Portable
<1>4. CASE k = "psqr"
  <2>1. ResultPackets(k, x) = x.n + x.n
    BY <1>1, <1>4 DEF ResultPackets
  <2>2. pmul_x86(x.m, x.r, x.a, x.a, x.n, x.n) = pmul(x.m, x.r, x.a, x.a, x.n, x.n)
    BY <1>1, <2>1, ProductSame DEF HasPackets
  <2>3. QED  BY <1>4, <2>2 DEF Ran, Portable, psqr, psqr_x86
<1>5. QED  BY <1>2, <1>3, <1>4

\* hebi_padda and hebi_psuba: the sum is where the first operand was.
LEMMA InPlaceSame ==
    ASSUME NEW k \in {"padda", "psuba"}, NEW x, Legal(k, x)
    PROVE  Ran(k, x) = Portable(k, x)
<1> DEFINE op == IF k = "padda" THEN "adc" ELSE "sbb"
<1>1. ResultPackets(k, x) = x.n /\ k \notin Queries /\ k \in Longer /\ k \in Adds
  BY DEF ResultPackets, Queries, Three, Bits, Longer, Adds
<1>2. /\ IsMemory(x.m) /\ x.n \in Nat /\ x.k \in 1 .. x.n
      /\ HasPackets(x.m, x.r, x.n) /\ HasPackets(x.m, x.b, x.k) /\ Follows(x.r, x.b, 2 * x.k)
  BY <1>1, Passed
<1>3. Summands(x.m, x.r, x.r, x.b, x.n, x.k)
  <2>1. Follows(x.r, x.r, 2 * x.n)
    BY <1>2 DEF Follows, HasPackets, Area
  <2>2. x.k \in 0 .. x.n
    BY <1>2
  <2>3. QED  BY <1>2, <2>1, <2>2 DEF Summands, HasPackets
<1>4. op \in {"adc", "sbb"}
  OBVIOUS
<1>5. LET z == PADDSUB(x.m, x.r, x.r, x.b, x.n, x.k, op)
          s == SumOrDifference(op, x.m, x.r, x.r, x.b, x.n, x.k)
      IN  z.m = s.m /\ z.c = s.c
  <2> HIDE DEF op
  <2>1. QED  BY <1>3, <1>4, SumSame DEF Finished
<1>6. CASE k = "padda"
  BY <1>5, <1>6 DEF Ran, Portable, Flagged, PADDSUBA, SumOrDifference
<1>7. CASE k = "psuba"
  BY <1>5, <1>7 DEF Ran, Portable, Flagged, PADDSUBA, SumOrDifference
<1>8. QED  BY <1>6, <1>7

\* Whatever a stub or a caller jumps to, except a sum that jumps on, computes what
\* the portable kernel does (src/p/x86_64/*.s and src/p/generic/*.c).
THEOREM KernelSame ==
    ASSUME NEW k \in Dispatched \union (Direct \ Tailed), NEW x, Legal(k, x),
           ~(k = "pcmp" /\ x.n % 2 = 0 /\ x.n > 2)
    PROVE  Ran(k, x) = Portable(k, x)
<1>1. \/ k \in {"pcopy", "pzero", "pnot", "pand", "por", "pxor"} \/ k = "pmove" \/ k \in Queries
      \/ k \in {"pshl", "pshr"} \/ k = "pneg" \/ k \in {"pmulu", "pmul", "psqr"} \/ k \in {"padda", "psuba"}
  BY DEF Dispatched, Pair, Direct, Tailed, Queries
<1>2. QED  BY <1>1, CopiesSame, MovesSame, QueriesSame, ShiftsSame, NegationSame, ProductsSame, InPlaceSame

\* A sum or a difference is finished, or hebi_pcopy finishes it and there is no
\* carry to return.
THEOREM TailedSame ==
    ASSUME NEW k \in Tailed, NEW x, Legal(k, x)
    PROVE  LET s == Summed(k, x)
           IN  IF s.k = x.n THEN Flagged(s) = Portable(k, x)
               ELSE Ran("pcopy", Rest(x, s)) = Portable(k, x)
<1> DEFINE op == IF k \in {"padd", "paddu"} THEN "adc" ELSE "sbb"
           z  == Summed(k, x)
           s  == IF k \in {"padd", "psub"} THEN SumOrDifference(op, x.m, x.r, x.a, x.b, x.n, x.k)
                 ELSE WordSumOrDifference(op, x.m, x.r, x.a, x.k, x.n)
<1>1. ResultPackets(k, x) = x.n /\ k \notin Queries /\ k \in Upwards
  BY DEF ResultPackets, Queries, Three, Bits, Upwards, Tailed
<1>2. /\ IsMemory(x.m) /\ x.n \in Nat /\ x.n > 0
      /\ HasPackets(x.m, x.r, x.n) /\ HasPackets(x.m, x.a, x.n) /\ Follows(x.r, x.a, 2 * x.n)
  BY <1>1, Passed DEF Tailed
<1>3. op \in {"adc", "sbb"}
  OBVIOUS
<1>4. Portable(k, x) = Flagged(s)
  BY DEF Portable, Tailed, SumOrDifference, WordSumOrDifference
<1>5. Finished(z, s, x.r, x.a, x.n)
  <2>1. CASE k \in {"padd", "psub"}
    <3>1. x.k \in 1 .. x.n /\ HasPackets(x.m, x.b, x.k) /\ Follows(x.r, x.b, 2 * x.k)
      BY <2>1, Passed DEF Longer, Adds
    <3>2. Summands(x.m, x.r, x.a, x.b, x.n, x.k)
      BY <1>2, <3>1 DEF Summands, HasPackets
    <3>3. z = PADDSUB(x.m, x.r, x.a, x.b, x.n, x.k, op) /\ s = SumOrDifference(op, x.m, x.r, x.a, x.b, x.n, x.k)
      BY <2>1 DEF Summed
    <3> HIDE DEF op, z, s
    <3>4. QED  BY <1>3, <3>2, <3>3, SumSame
  <2>2. CASE k \in {"paddu", "psubu"}
    <3>1. x.k \in Limb
      BY <2>2, Passed DEF Worded
    <3>2. z = PADDSUBU(x.m, x.r, x.a, x.k, x.n, op) /\ s = WordSumOrDifference(op, x.m, x.r, x.a, x.k, x.n)
      BY <2>2 DEF Summed
    <3> HIDE DEF op, z, s
    <3>3. QED  BY <1>2, <1>3, <3>1, <3>2, WordSumSame DEF HasPackets
  <2>3. QED  BY <2>1, <2>2 DEF Tailed
<1> HIDE DEF z, s
<1>6. CASE z.k = x.n
  BY <1>4, <1>5, <1>6 DEF Finished, Flagged, z
<1>7. CASE z.k # x.n
  <2>1. s.c = 0 /\ PCOPY128(z.m, Skip(x.r, z.k), Skip(x.a, z.k), x.n - z.k) = s.m
    BY <1>5, <1>7 DEF Finished
  <2>2. Ran("pcopy", Rest(x, z)) = Out(s.m, 0)
    BY <2>1 DEF Ran, Rest
  <2>3. QED  BY <1>4, <1>7, <2>1, <2>2 DEF Flagged, z
<1>8. QED  BY <1>6, <1>7 DEF z

-----------------------------------------------------------------------------
(* Calls of the kernels *)

\* The invariant of KernelCalls: the one of Dispatch, and that of the calls.
CallsInv == DispatchInv /\ CallInv

\* A step of one thread leaves the calls of the others alone.
LEMMA OneThread ==
    ASSUME CallInv, NEW t \in Thread, UNCHANGED program,
           NEW place, NEW kernel, NEW rec, pc' = [pc EXCEPT ![t] = place], to' = [to EXCEPT ![t] = kernel],
           th' = [th EXCEPT ![t] = rec] \/ UNCHANGED th, DOMAIN pc = Thread, DOMAIN to = Thread, InvThread(t)'
    PROVE  CallInv'
<1>1. DOMAIN th = Thread /\ InvProgram /\ \A u \in Thread : InvThread(u)
  BY DEF CallInv
<1>2. InvProgram'
  BY <1>1 DEF InvProgram, Kernel
<1>3. ASSUME NEW u \in Thread, u # t PROVE InvThread(u)'
  <2>1. InvThread(u) /\ pc'[u] = pc[u] /\ to'[u] = to[u] /\ th'[u] = th[u] /\ program' = program
    BY <1>1, <1>3
  <2>2. QED  BY <2>1 DEF InvThread, InCall, Exact, PassedOver, Kernel
<1>4. DOMAIN th' = Thread
  BY <1>1
<1>5. QED  BY <1>2, <1>3, <1>4 DEF CallInv

\* The kernels with a stub have versions, and the others have none.
LEMMA StubOrDirect == Dispatched \intersect Direct = {} /\ Tailed \subseteq Direct /\ "pcopy" \in Dispatched
  BY DEF Dispatched, Direct, Pair, Three, Bits, Tailed

\* What a thread inside a call has.
LEMMA CallOf ==
    ASSUME CallsInv, NEW t \in Thread
    PROVE  /\ DOMAIN pc = Thread /\ DOMAIN to = Thread /\ DOMAIN th = Thread
           /\ Kernel(t) \in Dispatched \union Direct
           /\ pc[t] \notin {"idle", "done", "refused"} => InCall(t)
           /\ pc[t] \notin {"idle", "direct", "done"} => to[t] \in Dispatched
  BY DEF CallsInv, CallInv, InvProgram, InvThread, DispatchInv, InvTypes, InvTo

\* A call begins with legal arguments.
LEMMA CallEnter ==
    ASSUME CallsInv, NEW t \in Thread, Call(t)
    PROVE  CallInv'
<1>1. PICK x \in Input(Kernel(t), program[t].set) : Holds(t, [x |-> x, arg |-> x, kept |-> TRUE])
  BY DEF Call
<1> DEFINE rec == [x |-> x, arg |-> x, kept |-> TRUE]
           place == IF Kernel(t) \in Direct THEN "direct" ELSE "jump"
<1>2. /\ th' = [th EXCEPT ![t] = rec] /\ UNCHANGED program
      /\ pc' = [pc EXCEPT ![t] = place] /\ to' = [to EXCEPT ![t] = Kernel(t)]
  BY <1>1 DEF Holds, Call, Enter, Goes
<1>3. Legal(Kernel(t), x)
  BY <1>1 DEF CallsInv, CallInv, InvProgram
<1>4. th'[t] = rec /\ pc'[t] = place /\ to'[t] = Kernel(t) /\ Kernel(t)' = Kernel(t)
  BY <1>2, CallOf DEF Kernel
<1>5. InCall(t)'
  BY <1>3, <1>4 DEF InCall
<1>6. InvThread(t)'
  BY <1>4, <1>5 DEF InvThread
<1>7. QED  BY <1>2, <1>6, CallOf, OneThread DEF CallsInv

\* A step of the dispatch that leaves the arguments where they are.
LEMMA CallQuiet ==
    ASSUME CallsInv, NEW t \in Thread, NEW place, place \notin {"idle", "done", "direct"},
           pc[t] \notin {"idle", "done", "refused", "direct"},
           pc' = [pc EXCEPT ![t] = place], UNCHANGED <<to, program, th>>
    PROVE  CallInv'
<1>1. InCall(t) /\ pc'[t] = place /\ pc[t] # "direct" /\ place # "direct"
  BY CallOf
<1>2. InCall(t)'
  BY <1>1 DEF InCall, Kernel
<1>3. InvThread(t)'
  BY <1>1, <1>2 DEF InvThread
<1>4. to' = [to EXCEPT ![t] = to[t]]
  BY DEF CallsInv, DispatchInv, InvTypes
<1>5. QED  BY <1>3, <1>4, CallOf, OneThread DEF CallsInv

\* hebi_hwcaps__ returns: the stub has saved what the version, or hebi_pcopy behind a
\* sum, needs.
LEMMA CallReturned ==
    ASSUME CallsInv, NEW t \in Thread, pc[t] \in {"stub", "list"},
           pc' = [pc EXCEPT ![t] = "choose"], UNCHANGED to, Returned(t)
    PROVE  CallInv'
<1>1. InCall(t) /\ to[t] \in Dispatched
  BY CallOf
<1>2. Live(t) \subseteq Saved(to[t])
  <2>1. CASE to[t] = Kernel(t)
    <3>1. Kernel(t) \notin Tailed
      BY <1>1, <2>1, StubOrDirect
    <3>2. QED  BY <2>1, <3>1 DEF Live, Saved
  <2>2. CASE to[t] = "pcopy" /\ Kernel(t) \in Tailed
    BY <2>2 DEF Live, Saved
  <2>3. QED  BY <1>1, <2>1, <2>2 DEF InCall
<1>3. th' = [th EXCEPT ![t] = [th[t] EXCEPT !.kept = TRUE]] /\ UNCHANGED program
  <2>1. (Live(t) \subseteq Saved(to[t])) = TRUE
    BY <1>2
  <2>2. QED  BY <2>1 DEF Returned, Holds
<1>4. /\ DOMAIN th'[t] = {"x", "arg", "kept"} /\ th'[t].kept = TRUE
      /\ th'[t].x = th[t].x /\ th'[t].arg = th[t].arg /\ pc'[t] = "choose" /\ to'[t] = to[t]
  <2>1. DOMAIN th[t] = {"x", "arg", "kept"} /\ t \in DOMAIN th /\ t \in DOMAIN pc
    BY <1>1, CallOf DEF InCall
  <2>2. QED  BY <1>3, <2>1
<1>5. InCall(t)'
  BY <1>1, <1>3, <1>4 DEF InCall, Kernel
<1>6. InvThread(t)'
  BY <1>4, <1>5 DEF InvThread
<1>7. to' = [to EXCEPT ![t] = to[t]]
  BY DEF CallsInv, DispatchInv, InvTypes
<1>8. QED  BY <1>3, <1>6, <1>7, CallOf, OneThread DEF CallsInv

\* A call ends with what the portable kernel returns.
LEMMA CallEnds ==
    ASSUME CallsInv, NEW t \in Thread, InCall(t), NEW out,
           ~PassedOver(t) => out = Portable(Kernel(t), th[t].x),
           pc' = [pc EXCEPT ![t] = "done"], UNCHANGED to, Yields(t, out)
    PROVE  CallInv'
<1> DEFINE rec == [x |-> th[t].x, kept |-> th[t].kept, out |-> out]
<1>1. th' = [th EXCEPT ![t] = rec] /\ UNCHANGED program
  BY DEF Yields, Holds
<1>2. th[t].kept = TRUE
  BY DEF InCall
<1>3. th'[t] = rec /\ pc'[t] = "done" /\ Kernel(t)' = Kernel(t)
  BY <1>1, CallOf DEF Kernel
<1>4. th'[t].x = th[t].x /\ th'[t].kept = TRUE /\ th'[t].out = out
  BY <1>2, <1>3
<1>5. Exact(t)'
  BY <1>3, <1>4 DEF Exact, PassedOver
<1>6. InvThread(t)'
  BY <1>3, <1>5 DEF InvThread
<1>7. to' = [to EXCEPT ![t] = to[t]]
  BY DEF CallsInv, DispatchInv, InvTypes
<1>8. QED  BY <1>1, <1>6, <1>7, CallOf, OneThread DEF CallsInv

\* A kernel without a stub ends, or its sum jumps on to hebi_pcopy.
LEMMA CallDirect ==
    ASSUME CallsInv, NEW t \in Thread, RunDirect(t)
    PROVE  CallInv'
<1> DEFINE k == Kernel(t)
           x == th[t].x
           s == Summed(k, x)
<1>1. /\ pc[t] = "direct" /\ InCall(t) /\ to[t] = k /\ k \in Direct /\ Legal(k, x) /\ th[t].arg = x
      /\ DOMAIN th[t] = {"x", "arg", "kept"} /\ th[t].kept = TRUE
  BY CallOf DEF RunDirect, InCall
<1>2. CASE k \notin Tailed /\ EndDirect(t) /\ Yields(t, Ran(k, x))
  <2>1. ~PassedOver(t) => Ran(k, x) = Portable(k, x)
    BY <1>1, <1>2, KernelSame DEF PassedOver
  <2>2. pc' = [pc EXCEPT ![t] = "done"] /\ UNCHANGED to
    BY <1>2 DEF EndDirect, Goes
  <2>3. QED  BY <1>1, <1>2, <2>1, <2>2, CallEnds
<1>3. CASE k \in Tailed /\ s.k = x.n /\ EndDirect(t) /\ Yields(t, Flagged(s))
  <2>1. Flagged(s) = Portable(k, x)
    BY <1>1, <1>3, TailedSame
  <2>2. pc' = [pc EXCEPT ![t] = "done"] /\ UNCHANGED to
    BY <1>3 DEF EndDirect, Goes
  <2>3. QED  BY <1>1, <1>3, <2>1, <2>2, CallEnds
<1>4. CASE k \in Tailed /\ s.k # x.n /\ JumpOn(t) /\ Holds(t, [th[t] EXCEPT !.arg = Rest(x, s)])
  <2>1. pc' = [pc EXCEPT ![t] = "jump"] /\ to' = [to EXCEPT ![t] = "pcopy"]
    BY <1>4 DEF JumpOn, Goes
  <2>2. th' = [th EXCEPT ![t] = [th[t] EXCEPT !.arg = Rest(x, s)]] /\ UNCHANGED program
    BY <1>4 DEF Holds
  <2>3. /\ DOMAIN th'[t] = {"x", "arg", "kept"} /\ th'[t].kept = TRUE
        /\ th'[t].x = x /\ th'[t].arg = Rest(x, s) /\ pc'[t] = "jump" /\ to'[t] = "pcopy" /\ Kernel(t)' = k
    BY <1>1, <2>1, <2>2, CallOf DEF Kernel
  <2> HIDE DEF k, s
  <2>4. InCall(t)'
    BY <1>1, <1>4, <2>3 DEF InCall, s
  <2>5. InvThread(t)'
    BY <2>3, <2>4 DEF InvThread
  <2>6. QED  BY <2>1, <2>2, <2>5, CallOf, OneThread DEF CallsInv
<1>5. QED  BY <1>1, <1>2, <1>3, <1>4 DEF RunDirect

\* A version ends, in the kernel that was called or in hebi_pcopy behind a sum.
LEMMA CallRuns ==
    ASSUME CallsInv, NEW t \in Thread, Run(t)
    PROVE  CallInv'
<1> DEFINE x == th[t].x
<1>1. /\ pc[t] = "run" /\ pc' = [pc EXCEPT ![t] = "done"] /\ UNCHANGED to
      /\ Yields(t, Ran(to[t], th[t].arg))
  BY DEF Run, RunVersion, Goes
<1>2. InCall(t) /\ Legal(Kernel(t), x) /\ to[t] \in Dispatched
  BY <1>1, CallOf DEF InCall
<1>3. ~PassedOver(t) => Ran(to[t], th[t].arg) = Portable(Kernel(t), x)
  <2>1. CASE to[t] = Kernel(t) /\ th[t].arg = x
    BY <1>2, <2>1, KernelSame DEF PassedOver
  <2>2. CASE /\ to[t] = "pcopy" /\ Kernel(t) \in Tailed
             /\ \E s \in {Summed(Kernel(t), x)} : s.k # x.n /\ th[t].arg = Rest(x, s)
    BY <1>2, <2>2, TailedSame
  <2>3. QED  BY <1>2, <2>1, <2>2 DEF InCall
<1>4. QED  BY <1>1, <1>2, <1>3, CallEnds

\* The caller goes on.
LEMMA CallLeaves ==
    ASSUME CallsInv, NEW t \in Thread, Leave(t), Holds(t, NoCall)
    PROVE  CallInv'
<1>1. /\ pc' = [pc EXCEPT ![t] = "idle"] /\ to' = [to EXCEPT ![t] = "none"]
      /\ th' = [th EXCEPT ![t] = NoCall] /\ UNCHANGED program
  BY DEF Leave, Goes, Holds
<1>2. pc'[t] = "idle"
  BY <1>1, CallOf
<1>3. InvThread(t)'
  BY <1>2 DEF InvThread
<1>4. QED  BY <1>1, <1>3, CallOf, OneThread DEF CallsInv

\* Every step but the begin of a call.
LEMMA CallStep ==
    ASSUME CallsInv, NEW t \in Thread, Step(t)
    PROVE  CallsInv'
<1> USE DEF CallsInv
<1>1. CASE RunDirect(t)
  <2>1. EndDirect(t) \/ JumpOn(t)
    BY <1>1 DEF RunDirect
  <2>2. QED  BY <1>1, <2>1, CallDirect, StepEndDirect, StepJumpOn
<1>2. CASE Run(t)
  BY <1>2, CallRuns, StepRunVersion DEF Run
<1>3. CASE Ask(t) /\ Returned(t)
  <2>1. pc[t] \in {"stub", "list"} /\ pc' = [pc EXCEPT ![t] = "choose"] /\ UNCHANGED to
    BY <1>3 DEF Ask, Goes
  <2>2. QED  BY <1>3, <2>1, CallReturned, StepAsk
<1>4. CASE StoreListed(t) /\ Returned(t)
  <2>1. pc[t] \in {"stub", "list"} /\ pc' = [pc EXCEPT ![t] = "choose"] /\ UNCHANGED to
    BY <1>4 DEF StoreListed, Goes
  <2>2. QED  BY <1>4, <2>1, CallReturned, StepStoreListed
<1>5. CASE (Jump(t) \/ AskFirst(t) \/ StoreNative(t) \/ Choose(t) \/ StorePtr(t)) /\ Same
  <2>1. /\ pc[t] \notin {"idle", "done", "refused", "direct"}
        /\ \E place : place \notin {"idle", "done", "direct"} /\ pc' = [pc EXCEPT ![t] = place]
        /\ UNCHANGED <<to, program, th>>
    BY <1>5 DEF Jump, AskFirst, StoreNative, Choose, StorePtr, Goes, Same
  <2>2. CallInv'
    BY <2>1, CallQuiet
  <2>3. DispatchInv'
    BY <1>5, StepJump, StepAskFirst, StepStoreNative, StepChoose, StepStorePtr
  <2>4. QED  BY <2>2, <2>3
<1>6. CASE Leave(t) /\ Holds(t, NoCall)
  BY <1>6, CallLeaves, StepLeave
<1>7. QED  BY <1>1, <1>2, <1>3, <1>4, <1>5, <1>6 DEF Step

\* The invariant of the calls: through the stub of whichever kernel, for any number of
\* threads, no argument and no carry is lost, and what has been computed is what the
\* portable kernel computes (src/p/x86_64/x86_64.inc, the stubs and the tails of sums).
THEOREM CallsInvariance == Spec => []CallsInv
<1>1. Init => CallsInv
  <2> SUFFICES ASSUME Init PROVE CallsInv
    OBVIOUS
  <2>1. PICK s \in Setting : program = s.program
    BY DEF Init
  <2>2. InvProgram
    BY <2>1, KernelCallsAssumption DEF InvProgram, Kernel
  <2>3. \A t \in Thread : pc[t] = "idle"
    BY DEF Init, DispatchInit
  <2>4. CallInv
    BY <2>2, <2>3 DEF Init, CallInv, InvThread
  <2>5. QED  BY <2>4, InitInv DEF Init, CallsInv
<1>2. CallsInv /\ [Next]_vars => CallsInv'
  <2> SUFFICES ASSUME CallsInv, [Next]_vars PROVE CallsInv'
    OBVIOUS
  <2>1. CASE UNCHANGED vars
    <3>1. UNCHANGED <<dispatch, program, th>> /\ UNCHANGED <<pc, to>>
      BY <2>1 DEF vars, dispatch, call
    <3>2. DispatchInv'
      BY <3>1, StepNone DEF CallsInv
    <3>3. CallInv'
      BY <3>1 DEF CallsInv, CallInv, InvProgram, InvThread, InCall, Exact, PassedOver, Kernel
    <3>4. QED  BY <3>2, <3>3 DEF CallsInv
  <2>2. ASSUME NEW t \in Thread, Call(t) PROVE CallsInv'
    <3>1. Enter(t, Kernel(t)) /\ Kernel(t) \in Dispatched \union Direct
      BY <2>2, CallOf DEF Call
    <3>2. DispatchInv'
      BY <3>1, StepEnter DEF CallsInv
    <3>3. QED  BY <2>2, <3>2, CallEnter DEF CallsInv
  <2>3. QED  BY <2>1, <2>2, CallStep DEF Next
<1>3. QED  BY <1>1, <1>2, PTL DEF Spec

\* Whatever the number of packets, the overlap and the carries, for any memory, any
\* threads and any machine, an x86-64 kernel leaves the memory and returns what the
\* portable kernel does, in the first call and in later ones; hebi_pcmp does so for the
\* lengths that its loop does not end too early for.
THEOREM ExactKernels == Spec => []KernelsExact
<1>1. CallsInv => KernelsExact
  BY DEF CallsInv, CallInv, InvThread, Exact, KernelsExact
<1>2. QED  BY <1>1, CallsInvariance, PTL

\* So it is in programs of calls, where a sum ends in the copy of hebi_pcopy: no call
\* runs a version with an instruction that the machine does not execute, or with one
\* beyond SSE2 that the list leaves out, and none is refused that has a version
\* without them (Spec of KernelCalls).
THEOREM CallsAllowed == Spec => []VersionsAllowed
<1>1. CallsInv => VersionsAllowed
  BY InvAllows DEF CallsInv
<1>2. QED  BY <1>1, CallsInvariance, PTL

=============================================================================
