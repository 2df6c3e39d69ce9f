# A verification model of hebimath

hebimath is a C library of arbitrary-precision integers.  This directory holds
TLA+ modules translated from its source, the TLC configurations that check
them, and theorems about them that TLAPS proves.  Paths below are relative to
the root of the repository.

## 1. Inventory

The library has three layers.

| layer | files | state |
|---|---|---|
| runtime | `src/*.c`, `internal.h` | a process-wide allocator table, a context per thread |
| integers (`hebi_z*`) | `src/z`, inline functions of `hebimath.h.in` | the `hebi_z` records and their buffers |
| packet kernels (`hebi_p*`) | `src/p` (portable C, x86-64 assembly, dispatch stubs) | none: functions on arrays of 128-bit packets |

**Allocator table** (`src/alloc_table.c`).  State: `tfreelist`, `tsize`,
`tused`, `tresv`, pages of generations and of callback cells, the mutex, the
once-only initialisation.  Operations: `hebi_alloc_add`, `_remove`, `_query`,
`_valid`, shutdown from the library destructor.  Every thread calls it;
callbacks are then called through a pointer into a cell with no lock.  Hard:
races at the mutex and at the cells, ids used after their removal, generations
that wrap, errors raised (by `longjmp`) around the critical section, the limit
of the table.  Correct when: live ids reach their own complete callbacks, dead
ids reach nothing, no slot is lost, the mutex always comes back.

**Allocator cache** (same file, fields of the context).  State: `allocused`,
`allockeys`, `allocvalues`, per thread.  Operation: the lookup and the store of
`hebi_alloc_query`.  Correct when: it is a partial map that agrees with the
table for every id that stays registered, and its probe loop ends.

**Thread context** (`src/context.c`, `realloc_scratch.c`, `free_scratch.c`).
State: the scratch buffer, its copy in the heap-allocated shadow context (so
that a thread-specific destructor can free it), the stack of temporaries, the
allocator aliases.  Operations: growing and freeing the scratch buffer, pushing
and popping temporaries, end of a thread, end of the process.  Correct when:
every buffer goes back once, to the allocator that gave it.

**Errors** (`src/error_*.c`).  State: handler, argument, one jump buffer, last
error, per thread.  `hebi_error_raise` frees the scratch buffer, destroys the
temporaries from the top of the stack and calls the handler, which does not
come back or lets the process abort.  Correct when: nothing is lost on the way
and the error reaches the innermost frame that asked for it.

**Integers** (`src/z`).  State: buffer, capacity, used length, sign, allocator
id.  Operations: construction, growth, arithmetic, conversion, destruction;
results may alias operands everywhere.  Correct when: operands are read before
their memory is changed, results are right and normalised, a failed call leaves
every integer as it was.

**Packet kernels** (`src/p`).  Pure functions: addition, subtraction, shifts,
multiplication (schoolbook and Karatsuba with precomputed space), division by
reciprocals.  Correct when: the result is that of the integers, whatever
overlaps, and nothing is stored outside the packets given.

**Strings** (`src/p/psetstr.c`, `pgetstr.c`, `pgetstrlen.c` and the `hebi_z*`
calls around them).  Reading takes blanks, padding, sign, prefix and zeros off,
estimates the room and builds packets from digits; writing makes digits lowest
first in a ring over the caller's buffer and turns it round.  No state but the
parser's record between the two calls of `hebi_zsetstr`.  Correct when: what is
written is read again, each text has the value it spells, room asked for is
enough and room given is never exceeded.

**Random numbers** (`src/p/prand_kiss.c`).  State: the caller's `hebi_kiss`
record.  Correct when: limbs follow the recurrence from call to call and the
bits beyond those asked for are zero.

**x86-64 kernels and dispatch** (`src/p/x86_64`, `src/hwcaps.c`).  State: the
capabilities, set up once, and a pointer per kernel, first to a stub.  Every
thread calls through the pointers with no lock.  Correct when: each version
computes what the portable kernel does, no version runs with an instruction that
the machine does not execute, or that the `HEBI_HWCAPS` list keeps out, and every
first call ends.

**Left aside**: reciprocal tables, `bench/`, `check/` and the build.
`PROJECT.json` lists every component with its status, and the hazards the
properties are aimed at.

## 2. Modules

| module | models | extends |
|---|---|---|
| `AllocKey` | packing of slot and generation in an id | |
| `CacheOps` | one allocator cache as operators | `AllocKey` |
| `AllocRegistry` | what the table promises its clients (abstract) | |
| `AllocTable` | the table, its threads, their caches, the shutdown | `CacheOps` |
| `AllocTable_proofs` | theorems about `AllocTable`, the table and the caches | `AllocTable`, `TLAPS` |
| `Runtime` | the steps calls are made of: buffers, scratch, stack, unwinding | |
| `ZCalls` | calls as sequences of those steps, and their client | `Runtime` |
| `ZCallsInv` | claims about a state, and the invariant of `ZCalls` | `ZCalls` |
| `ZCalls_proofs` | programs of calls lead to their end, their steps keep the invariant; theorems about `ZCalls` | `ZCallsInv`, `TLAPS` |
| `ErrorState` | error handler, jump buffer and saved states | |
| `ErrorState_proofs` | theorems about `ErrorState` | `ErrorState`, `TLAPS` |
| `Packets` | limbs, packets and the portable kernels of sums, order, length, copies, products | |
| `Packets_proofs` | what those kernels compute, for every length | `Packets`, `TLAPS` |
| `PBits` | the bitwise kernels, with a limb as a set of bits | `Packets` |
| `PDivision` | reciprocals and the division kernels | `Packets` |
| `Cutoffs` | from how many packets on products are Karatsuba's | |
| `Karatsuba` | the two Karatsuba kernels and their space functions | `PDivision`, `Cutoffs` |
| `ZSums` | sign, length and buffers of sums, comparisons and conversions | `Packets` |
| `ZSumCalls` | one such call on three integers, and what it must compute | `ZSums` |
| `ZProducts` | products with words, and products and squares by rows | `Cutoffs`, `ZSums` |
| `ZProductCalls` | one call of those or of the sums, and what a product must be | `ZProducts`, `ZSumCalls` |
| `ZSums_proofs` | theorems about `ZProductCalls` | `ZProductCalls`, `Packets_proofs` |
| `ZArith` | sign, length and buffers of the other calls of `src/z` | `Karatsuba`, `PBits`, `ZProducts` |
| `ZArithCalls` | one call of any kind on three integers, and what it must compute | `ZArith`, `ZProductCalls` |
| `PStrings` | alphabets, the parser and the digits: `psetstr`, `pgetstr`, `pgetstrlen` | `PDivision` |
| `PRandom` | the KISS generator | `PBits` |
| `ZInOut` | integers from and to strings, random integers | `ZSums`, `PStrings`, `PRandom` |
| `ZInOutCalls` | one text read, one integer written and read back, numbers drawn | `ZInOut` |
| `ZInOut_proofs` | theorems about the random numbers of `ZInOutCalls` | `ZInOutCalls`, `Packets_proofs` |
| `PX86` | the kernels of the x86-64 driver | `PBits` |
| `PX86_proofs` | each of them leaves what the portable kernel leaves | `PX86`, `Packets_proofs` |
| `Dispatch` | capabilities, stubs, pointers, and the steps of threads that call kernels | |
| `KernelCalls` | what the kernels that are called compute, and what the stubs save | `PX86`, `Dispatch` |
| `KernelCalls_proofs` | theorems about `Dispatch` and `KernelCalls` | `KernelCalls`, `PX86_proofs`, `TLAPS` |
| `MC*` | instances for TLC | |

### How state and actions correspond to the code

`AllocTable`.  Variables carry the names of the file's statics; `fn[s]` stands
for `ha_alloc` and `ha_free`, `arg[s]` for `ha_arg`, which doubles as the link
of the free list.  `pc[t]` and `op[t]` are where a thread is in a call and the
locals it has.  A call is cut at `TABLE_LOCK`, `TABLE_UNLOCK` and at each store
to a cell (`AddWriteFn`, `AddWriteArg`, `RemoveWriteFn`, `RemoveWriteArg`),
since `hebi_allocfp` and `hebi_freefp` (`ReadFn`, `ReadArg`) read cells with no
lock.  `Lock` includes `pthread_once` and `inittable`; `AddAppend` and
`AddFails` include `expandtable`.  `freed`, `known`, `adds` and `op[t].clean`
are history: the order of removals, the ids clients may pass, the number of
adds (bounded by `MaxAdds`), and whether the id of a query has stayed
registered since it was called.  `Careful` chooses the client: one that never
uses an id again after removing it, or one that may.

`Runtime` and `ZCalls`.  `todo` is what is left of the running call, a sequence
of steps; a step that fails calls `Raise`, which drops the rest, as `longjmp`
does.  A buffer is a number (`own[b]` says which allocator handed it out), a
value is its length in packets, whether it is zero, and a `tag` saying whose
value at the start of the call the buffer holds.  `Kernel` stands for any
packet kernel: it reads its operands (noting in `misuse` if one is not what the
caller passed) and writes its results.  `hebi_zadd`, `zsub`, `zmulu`, the
bitwise and shift calls and `zdivremu` take memory in the same way and share
the program `InPlace`.  A thread's end is `ThreadExit`; the library destructor
is `GlobalShutdown`.

`ErrorState`.  `frames` is the stack of client frames, each with the state it
saved; a jump to a frame drops those above.  `errjmparg` is the frame the
single jump buffer leads to.

`Packets`, `PBits`, `PDivision`, `Karatsuba`, `ZSums`, `ZProducts`, `ZArith`.  Memory is a function from
buffers to limbs, a pointer a buffer and an offset, a kernel an operator from
memory to memory: each store is made before the next load, so a kernel whose
result lies over an operand reads what the C loop would read.  `Loop` is a `do`
or `for` loop with its carried locals.  Limbs have `LimbBit` bits and wrap, so
carries and borrows come from the same comparisons as in the code.  A store
beyond a buffer is made (and found by `NoOverrun`), a load beyond it stops TLC.
Fresh memory holds `junk`.  An operator of `ZSums`, `ZProducts` or `ZArith` is a
whole call of `hebimath.h.in` or `src/z`: making room, the kernels, the length
and the sign of the result, temporaries swapped in.  In `ZSumCalls`, `ZProductCalls` and `ZArithCalls` a
behaviour is one such call: `mach` is the memory and the headers of `x`, `y`
and `w`, `call` what was called, on what, and the machine before it.  `hebi_zmul`
and `hebi_zsqr` make a product in a temporary integer if the result is an operand
(`ProductIn`) and swap it in (`Deliver`); `RowProducts` has the operands that are no
longer than the cutoffs, `LongProducts` all others.

`PStrings`, `PRandom`, `ZInOut`.  A string is a sequence of characters; a text of
the client is a record of its parts (blanks, sign, prefix, zeros, a value, what
does not belong), so that its meaning is known without parsing it.  The parser's
record is `hebi_psetstr_state`; `psetstrprepare` and `psetstr` are the two calls
on it, `ReadTurn` is a turn of `readmultiply` or of `readshift`, the loops for
bases that are no power of two and that are.  `pgetstr` is the ring: `DigitTurn` puts the next digit,
`RingStart` and `Ordered` turn it round behind the sign and the prefix.  In
`ZInOutCalls` a behaviour is one call, or writing and reading back (`again`), or
up to `MaxDraws` draws with the generator kept between them.

`PX86`, `Dispatch`, `KernelCalls`.  `Turn` is one turn of an unrolled loop: all its packets
are loaded before the first is stored.  `TwoLeft`, `OneLeft`, `QuadLeft` and
`PairsSeen` are the tests that choose the turns for what a loop leaves over;
`AdcSbb` is the instruction with the carry flag.  The three versions of a kernel
(avx, sse4.1, sse2) have the same turns and share an operator.  In
`Dispatch` a call of a thread goes from the jump through the pointer (`Jump`)
over the stub (`AskFirst`, `StoreNative`, `StoreListed`, `Ask`, `Choose`,
`StorePtr`) to `RunVersion`; `pc`, `to`, `caps` and `version` are the thread's
registers on that way.  `Versions` has what a stub tests before it takes a version, and
`Uses` what the instructions of the version are, read off its code: the two
differ, as an sse41 version moves and combines with SSE2, and the avx versions of
`hebi_pnot`, `hebi_pand`, `hebi_por`, `hebi_pxor` and `hebi_pshl` have `movdqa`.
`VersionsAllowed` compares `Uses` with what the machine executes (`Executes`, from
the bits of `cpuid`) and with the names in the list (`Listed`), not with `hwcaps`.
The two stores of `initcaps` to `hwcaps` are separate
steps, as is each store to a pointer.  `KernelCalls` takes every step of
`Dispatch` together with what the kernels do: `th[t]` has the arguments and the
result of the call.  `kept` says whether every register that the kernel reads, or its
caller wants back, was saved around the C call in the stub: sums and differences
jump to `hebi_pcopy` with their result in `rax`, and `Rest` is what they leave it
to copy.  `Legal` is what a caller may pass: the lengths that the kernels assert
(`n > 0`, `an >= bn > 0`), room for operands and result, and, for the kernels whose
unrolled loops or direction make it matter, an overlap only where the loops read a
limb before they store over it.  `pneg`, `pmul`, `pmulu` and `psqr` have no condition
on overlaps: with any of them the x86-64 kernel leaves the memory that the portable
one leaves, although only without one (or in place) is that the number wanted.  The portable `hebi_pshl` and
`hebi_pshr` also take no packets at all; the `hebi_pshl` of x86-64 has no path for
them, and the integer layer never passes zero.  Every argument of the instance is
`Legal`: TLC evaluates that with `KernelCallsAssumption`.

## 3. Runs

| run | bounds | what it shows |
|---|---|---|
| `table_stale` | 2 threads, 1 slot, 1 client callback, 3 adds, 4 generations, careless, fairness | mutex and its return, live and dead ids, fresh ids |
| `table_careful` | 2 threads, 2 pages of 1 slot, 4 adds, 2 generations (they wrap) | calls through cells with no lock; refinement of `AllocRegistry` |
| `table_pages` | 1 thread, 2 pages of 2 slots, 5 adds, a cache of 3 cells that keeps 2 | free list, counters, `ENOSLOTS`; the cache is a correct map and its probing ends |
| `memory` | 2 integers, 1 custom allocator, 4 blocks, capacities up to 4, values up to 2 packets | nothing lost, nothing freed wrongly, nothing damaged |
| `errors` | 4 nested frames, 2 handlers | errors reach the innermost frame that asked |
| `arith` | 2-bit limbs, 2 to a packet, 1-3 packets (products: up to 10), Karatsuba above 4 | results right, canonical and within their buffers for every aliasing |
| `arith_division` | as `arith` | **violation**: rare turns of long division |
| `arith_space` | 9 by 9 packets, default cutoff 8 | **violation**: Karatsuba needs more space than it asks for |
| `strings` | 6-bit limbs, 2 to a packet, 2 packets at most; 6 alphabets, 17 magnitudes, bases of every kind; buffers of 0-28 characters; 3 draws | numbers and strings correspond, in the room there is |
| `strings_space` | as `strings` | **violation**: a number in a base that is a power of two wants more packets than were asked for |
| `kernels` | 2 threads, 8 machines, 5 lists; 2-bit limbs, 1-9 packets | versions run only instructions they may, kernels exact, calls end |
| `kernels_compare` | as `kernels` | **violation**: `hebi_pcmp` passes over a packet |

Why the bounds are enough.  In the table every interaction is between the
owner of the mutex, one other thread and one slot they fight for; a second page
and two slots per page add the boundary of `expandtable` and a free list of
more than one entry.  Three adds to one slot let a stale id, a live one and a
new one exist together.  The cache of `table_pages` has three cells for four slots in several
generations, so that keys collide, probing wraps round and the limit of two
entries is passed with entries of removed ids among them.  In `memory` two integers give every aliasing of result and operands
(three-operand calls included: two of three are always the same or one is a
bystander), four blocks let a call hold two integers, scratch memory and a
temporary, or one integer, scratch memory and both temporaries of a division,
and an allocation also fails for lack of blocks and not only by choice;
`MaxLen` 4 is exceeded by the scratch memory of a division of two packets by
one; `CustomMax` 1 lets each alias in turn stand for an allocator of the client;
`MulCutoff` 0 and `SqrCutoff` 1
send products down the path with scratch memory and squares down the one
without.  Four frames let two frames that use the jump buffer enclose one that
does not.

In `arith` a packet has a low and a high limb, so that every border (bit, limb,
packet, length of the shorter operand) exists; the operands are the numbers
next to those borders and those whose limbs are all set or all clear, in all
pairs and with all signs; three packets divided by one and two give the
division several turns; every word and every shift up to two packets is passed.
`x` is the first operand, `x` or `y` the second, and the result is any of the
three; calls on one integer or a word are made only where `y` is zero.  The
result has no spare room (the buffer must grow) or one packet of it, and spare
and fresh memory holds zeros or ones.  Long operands have the lengths for which
Karatsuba's method splits evenly, unevenly, and not at all (`MulCutoff` 4, five
to ten packets).  Their products exceed TLC's integers: `ProductExact` compares
residues modulo five primes whose product (75 bits) exceeds the longest result
(15 packets, 60 bits), so that equal residues are equal numbers.

In `strings` a limb of six bits is one digit of the largest bases and a few of
the smallest, so that `readmultiply` scales by a full limb and by less, and
`readshift` has digits that straddle limbs; the values lie next to the limits of
digits, limbs and packets.  Long numbers pass `MaxLength` 2, short buffers cut
every part of the string.  Blanks and padding stand behind digits and behind zeros,
with and without the flags that take them off.  The generator has limbs of six bits, two or three
samples (the lag of the code is the caller's) and constants of its own; the
recurrence that `RandomExact` states is the same for all.

In `kernels` nine packets make two turns of four and leave every remainder;
carries, borrows and differences are placed at every limb, moves overlap by
every small distance in both directions.  Every machine and list meets five
pairs of racing calls, with one argument each; every kernel meets all its
arguments on the full machine, first through the stub and then through the
pointer.

State-space reductions.  `Symmetry` permutes threads and clients' callbacks
(`table_careful`, `table_pages`; not `table_stale`, which checks liveness)
or the two integers (`memory`); no temporal property is checked with it except `[][...]_vars` formulas and the refinement's safety part, which
are evaluated on single steps and do not name an element of a symmetric set.
`View` in `MCZCalls` identifies states that differ only in the numbers of
blocks: a number is used for nothing but equality, `Fresh` is some unused
one, and the view keeps, for each block handed out, everything that
names it.  The run `memory` checks invariants only.

`MCErrorState.cfg` turns the deadlock check off: `abort` ends the process.  In
`ZCalls` the ends of the process are explicit self-loops (`Ended`), so a call
that is stuck would be found.  `MCZArithCalls*.cfg` and `MCZInOutCalls*.cfg` turn the check
off because a behaviour is one call, or a few.

Fairness.  `table_stale` and `kernels` assume weak fairness of every step of a
thread inside a call (`Step(t)`), which the scheduler gives a runnable thread;
no fairness is assumed of clients, of a call being made, or of which waiting
thread gets the mutex.  A thread that waits in `pthread_once` has no step until
`initcaps` is over, so `CallsEnd` rests on the thread that runs it.

`TypeOK` of `ZCalls` and of `ErrorState` states the ranges of their variables
and is in no run (that of `ErrorState` is proved): the properties that are checked would fail, or stop TLC, with
a value outside them.

## 4. What is proved

`AllocTable_proofs` proves, for every finite number of threads and any number
of callbacks, pages, slots, generations, cache cells and adds, that the
specification `Spec` implies

- `TypeOK`, `LockInv`, `FreeListOK`, `SlotsAccounted`, `NoSlotsMeansFull`,
- `MatchingIdIsLive`, `LiveQueryAnswered`, `CallsOwnCallbacks`,
  `OwnedStaysRegistered`, `FreshIds`,
- `HitsAreOwn`: an answer from a cache is the cell of the id's own slot,
- `RegistrySpec`: the table implements `AllocRegistry` under the refinement
  mapping `registered <- Registrations`, `open <- (tstate # "shut")`.

Assumptions: those of the constants, named in the modules that declare them
(`GenrModAssumption`, `CacheAssumption`, `TableAssumption`).  They are the
static assertions of the file and the facts that ids fit their masks.
`StaleAssumption` is the one with a meaning: a *careless* client makes fewer
adds than there are generations.  The code does not check it; it is the known
limit of the generation scheme (2^15 reuses of one slot), and a *careful*
client does not need it.

The argument.  None of the properties is inductive: that a matching id is live
needs to know that the id of a free slot, or of a slot being filled, is in
nobody's hands; that needs the free list to be duplicate-free and disjoint from
the slots in hand; and that needs the mutex.  `IInv` is the conjunction of
`InvTypes`, `LockInv`, `InvOp` (locals at every place of every call),
`InvHands` (the slot a thread is storing into), `FreeListOK`, `InvSlots` (each
slot is settled, free or in hand), `SlotsAccounted`, `InvFresh`, `InvIds`,
`InvCareful` and `InvStale` (why an id of the past cannot match, for the two
clients), `InvClean` (queries whose id has stayed registered) and `InvCache`.
One lemma per action shows that it preserves `IInv`; `Invariance` combines
them; each property follows from `IInv` or from one step under it; the
refinement maps `AddWriteFn` to `Register`, `RemoveEntry` to `Unregister`,
`Shut` to `Close` and every other step to a stutter.

Its last section proves `CacheSound` (theorem `CachesSound`), for any size of
the cache, any limit below it and any ids that collide in it.  `CInv`
(`CacheInvariance`) is inductive under the invariant of the table: `CacheOK` says
that `used` counts the occupied cells and that each entry is `Found`, the probe
loop of its key passing over nothing but entries of other keys; `InvMissed` that a
thread which looks its id up in the table has not found it in its cache.  The
lemma that matters is `MissEndsAtEmpty`: a loop stopped by its count has tested
`used` different cells that are occupied, which are all of them, so that the next
cell is empty (pigeonholes; `CACHE_MAX_USED` is less than the number of cells).
An insertion there cuts no entry off (`InsertKeepsOrder`).

`PX86_proofs` proves that each kernel of the x86-64 driver leaves the memory, and
returns the value, of the portable kernel of that name, for every size of the limbs,
every number of packets, every memory and every overlap that the kernel allows.
Assumptions: `PacketsAssumption`; `PX86Assumption`, that a packet is two limbs; and
`PowersAssumption` of `Packets`, that `2^0` is 1 and `2^(k+1)` is twice `2^k` within a
limb: the provers know nothing of powers, and TLC evaluates it for the limbs of each
run.  The law of powers that shifts rest on follows (`PowerTimes`, `PowerSplit`).  Both loops are unfolded into traces (as in `Packets_proofs`
below), and one trace serves for both:

- `UnrolledSame` (copying, zeroing, complements, bitwise kernels): turns of four,
  two and one reach packet `k` with the memory that the portable loop has there;
- `MoveSame`: both directions, by what has been overwritten so far;
- `NormSame`, `CompareSame`, `LeadingSame`, `TrailingSame`: the pairs that are
  looked at, from the top or from below, and what is left over;
- `SumSame`, `WordSumSame`, `NegSame`: the flag is the carry of the portable loop,
  and where the turns stop the rest of the loop would only copy;
- `WordProductSame`, `ProductSame`: a row that is skipped would have added nothing;
- `ShiftUpSame`, `ShiftDownSame`: every quadword stored is the one of the portable
  loop although the stores come in another order, over the operand too.

`CompareSame` is about the lengths that finding 4 does not concern.

`KernelCalls_proofs` proves, for any set of threads, any machine, any value of
`HEBI_HWCAPS`, any program of calls and any legal arguments, that `Spec` of
`KernelCalls` implies

- `KernelsExact` (theorem `ExactKernels`), which the run `kernels` checks for two
  threads and up to nine packets,
- `VersionsAllowed` (theorem `CallsAllowed`).

It also proves both properties of `Dispatch` by itself: that `DispatchSpec` implies
`VersionsAllowed` (`OnlyAllowedVersions`) and `StoresAgree` (`RacingStoresAgree`),
that the plain stores with which threads race for a pointer all store the same
version.  The assumptions are those of `PX86_proofs`, `KernelCallsAssumption`,
that programs call kernels with legal arguments, and `DispatchAssumption`, that a
machine with SSE4.1 or AVX has SSE2.

`DispatchInv` is the inductive invariant of the dispatch (`DispatchInvariance`).
`InvOnce` says that at most one thread is between the two stores of `initcaps`, and
that the capabilities are the allowed ones as soon as `once` is "done"; `InvSettled`
that no pointer, no thread with capabilities and no thread with a version exists
before that, and that each has the first version that is allowed.  It is needed
because `VersionsAllowed` says nothing of a thread that has read the capabilities
and not chosen yet.  From there to `VersionsAllowed` it takes the facts about versions
and machines: what `getnativecaps` finds, the machine executes (`NativeExecutes`);
a machine with SSE4.1 or AVX executes SSE2 (`ExecutesSse2`, from
`DispatchAssumption`); so a version whose tests succeed has only instructions of
the machine, and beyond SSE2 only listed ones (`Tested`, `TestedMayRun`,
`ChosenSound`); and what `hwcaps` comes to is what is found and listed
(`AllowedIs`).

`CallsInv` adds `CallInv` (`CallsInvariance`; TLC has checked it on the instance of
`kernels`).  `KernelsExact` speaks of calls that are done; `InCall` says of a call
under way that nothing was lost in a stub, and that the kernel on its way to run is
the one the thread called on the arguments of the call, or `hebi_pcopy` on the
packets a sum has not reached.  `KernelSame` and `TailedSame` put the theorems of
`PX86_proofs` together for the two cases; `CallStep` has one lemma for each way a
call goes on.

`ErrorState_proofs` proves, for any handlers, any codes and any depth of nested
frames, that its `Spec` implies `TypeOK` (`ErrorTypes`) and
`ErrorsReachInnermost` (`ErrorsReachInnermostAlways`), from `ErrorAssumption`
alone.  The inductive invariant `IInv` (`ErrorInvariance`) adds `InvSaved`, that
what each frame has saved leads to the innermost frame below it that asked,
which is why `Leave` re-establishes the property, and `InvMine`, that a frame
installs nothing that leaves to another, which is why the frame that
`RaiseHandled` leaves to is the innermost that asked and not gone.  `Leads` is
the property without its `CHOOSE`, for any prefix of the frames.

`ZCalls_proofs` proves, for any integers, aliases, allocators, blocks, lengths and
cutoffs and for every sequence of calls, that `Spec` of `ZCalls` implies the seven
properties of the run `memory`: `OperandsIntact`, `OutputsKeptOnError`,
`TemporariesEnd`, `OneHolder` and `ShadowMirrors` with no condition,
`NothingLeaked` if `~Rebinds`, and `FreedByOwner` if `~Rebinds` and `~EndsLast`.
The two conditions are those of the run; they say that the client meets neither of
the first two notes of section 5, under which the code does not keep the
property.  Assumptions: `RuntimeAssumption` and `ZCallsAssumption`, the facts about
the macros and the names of objects.

The argument.  A call is a sequence of steps that an error cuts short, so an
invariant must say what is left of it may still do.  A *claim* about a state
(`ZCallsInv`) lists integers that are made (`live`), integers without a buffer
(`bare`), the stack (`stk`), integers that are as the call found them (`kept`),
aliases nothing has memory from (`idle`) and how much room the buffers have
(`room`).  `Needs` says for each kind of step which claims let it be taken safely
and `Leaves` what may be claimed after it; a step that can fail needs `MayRaise`:
the integers of the client are as they were, and every temporary that has a
buffer is on the stack, where unwinding finds it.  `Runs(todo, A, B)`: claims lead
through `todo` from `A` to `B`.  The invariant `Inv` says that in a call a claim that
holds leads through the rest of it to a state without temporaries (`InvCall`), how
far unwinding has come (`InvRaise`), and that every block has one holder, which
names its allocator (`InvHolders`, `InvOwners`, `InvHeld`, `InvScratch`,
`InvShadow`).  `ZCalls_proofs` shows this of the program of every call, for every
aliasing of its arguments, and then that each of the fifteen kinds of steps, with each
of its failures, turns a claim that lets it be taken into what it leaves; `CallInvariance` combines them.  TLC has checked `Inv` on the instance of
`memory`, with `Rebinds` and `EndsLast` false and true.

`Packets_proofs` proves what the portable kernels compute, for every size of the
limbs and of the packets, every length and every memory, with the result over an
operand wherever the callers put it there: `padd` and `psub` (`SumOfPackets`,
`DifferenceOfPackets`), `paddu` and `psubu`, `pcmp` (`OrderOfPackets`), `pnorm`
(`NormOfPackets`), `pcopy`, `pmulu` (`WordProductOfPackets`), `pmul` and `psqr`
(`ProductOfPackets`).  Assumption: `PacketsAssumption`.  The loops carry
memory, a carry and a position; the model has them as recursive functions of the
number of turns, of which a proof knows one equation at a time.  A loop is unfolded
into its *trace*, a function from turns to what the loop carries: it exists
(`StepsExist`), and the loop ends where it does (`SameEnd`).  Both need induction over numbers, which is
had from `WFMin` of the library, a theorem that takes no operator.  Each turn says
that limb and carry are what two limbs and a carry come to; `NumberChain` adds the
turns up by Horner's scheme to the statement about whole numbers.  A load after an
earlier store reads what was there at the start unless the turn itself has stored to
it, which is where the aliasing enters.  A product is a loop of loops: each row adds
one limb times an operand to what the rows before it have left, shifted by its
position (`RowMakes`, `AddsRow`), and the trace of the rows has the partial products.
The loops of a square are those of a product.

`ZSums_proofs` proves, for any set of operands of any lengths, for any words and for
any cutoffs, that `ProductSpec` of `ZProductCalls` implies `SumExact`, `CompareExact`,
`ProductExact`, `Canonical`, `NoOverrun` and `OnlyResultWritten`.  Assumptions:
`PacketsAssumption`, `ZSumCallsAssumption` (the operands are integers as calls leave
them, words have the width of a limb), `CutoffsAssumption` and `ZSumsAssumption`, that
a packet has two limbs: this is `HEBI_PACKET_LIMBS64` of every build with limbs as
wide as the words, and `zaddu`, `zcmpu` and the conversions store or read the first
limb and treat the second as the rest of the packet.  The invariant is `ProductInv`
(`ProductInvariance`).  Its core is `Good`: every object has the buffer that its
capacity promises, and every integer has a top packet that is not zero, without which
`zcmp` and `zaddsub__`, which decide by length, would be wrong.  `Makes(s, t, r, v)`
says that from machine `s` a call has led to `t`, good again, different in `r` only,
with the integer `v` there, for any contents of the buffers; there is one lemma for
each call (`AddSubMakes`, `WordSumMakes`, `AddSignedMakes`, `NotMakes`,
`WordProductMakes`, `MulMakes`, `SqrMakes`, ...), by the signs, the order of the
magnitudes and the carry out of the top packet.  `GrowKeeps` is what `hebi_zgrow__`
promises them: the packets that count stay when the buffer of an operand is replaced.
`SwapMakes` is for products whose result is an operand: what is made in the temporary
integer and swapped in is what would have been made in place.

`ProductExact` is stated in residues, since the products of the run have more bits
than TLC's integers.  `TrueProduct`, a part of the invariant, is the product itself,
and `ProductsTrue` says so; its residues follow because the function that reckons them
limb by limb gives the residue of the number (`ResidueOfNumber`) and residues of a
product are products of residues (`ModTimes`).

The properties are the ones that the run `arith` checks.  A behaviour there is a
single call, and `Next` of `ZArithCalls` is `ProductNext` or one of the other calls, so
every behaviour of the run with a sum, a comparison, a conversion, or a product with a
word or within the cutoffs is one of `ProductSpec`.  The theorems are about
`ProductSpec` and not about `Spec` of `ZArithCalls` because the other calls reach the
`RECURSIVE` operators of `Karatsuba`.  TLC checks the parts of `Good` on the run as
`Canonical` and `NoOverrun`, and `ProductExact` on products of both kinds.

`ZInOut_proofs` proves that `Spec` of `ZInOutCalls` implies `RandomExact` (theorem
`RandomsExact`): any number of calls of `hebi_zrand_kiss`, for any numbers of bits and
any generator, leave the limbs of the recurrence in the integer and the generator
where the recurrence is.  Assumptions: `PacketsAssumption`, `PowersAssumption`,
`PRandomAssumption` (the distance of the shift is less than a limb, the constants are
limbs, and no exclusive-or shift goes further than the bits of a limb), and
`ZInOutCallsAssumption`, that the generator to start with has a carry not above the
multiplier, as that of `HEBI_KISS_INIT` is.  The invariant
`RandomInv` keeps that: with a larger carry the difference of wrapped words in
`MwcCarry` would no longer be the high limb of the product.  `MwcExact` is the
arithmetic of one sample: shifted up, added, compared and subtracted in words that
wrap, it is the low limb of sample times multiplier plus carry, and the carry kept is
the high one.  `TurnExact` puts the three generators together, `Draws` unfolds the
loop of `hebi_prand_kiss` into the trace of the recurrence, `KissPackets` cuts the last
limb to the bits that are left for it and fills its packet with zeros, and
`KissesAre` shows that the recurrence of the property, which knows nothing of
memory, is that trace.

Model-checked only.

- `LockReleased` and `CallsEnd`: liveness under fairness is out of reach of the prover.
- Products longer than the cutoffs, bits and shifts, and division: `ProductExact` of
  long products, `BitsExact` and `DivisionExact`, and `Canonical`, `NoOverrun` and
  `OnlyResultWritten` for those calls.  Karatsuba's recursion is a `RECURSIVE` operator, and `BitsExact` compares
  the sets of bits of `PBits` with the operators of the community module `Bitwise`.
- The strings of `ZInOutCalls`: `ReadExact`, `RoomToldOrRead`, `WriteExact`, `RoundTrip`,
  `LengthBound`, and `NoOverrun` of that module.  What the loops over characters and digits
  compute is induction over data.
- `ComparesAll`, which is false (finding 4).

## 5. Findings

1. `PDIVREMR` gives wrong results on two rare paths: the special estimate
   leaves out the top limb of the partial remainder, and a correction does not
   refresh the limb that the next turn estimates with
   (`src/p/generic/pdivremr.c:69`, `:98`; run `arith_division`).  The test of
   the cases is a TODO in `check/z/zdivrem.c`.  `DivisionExact` shows every
   division that avoids them right.
2. `hebi_pmul_karatsuba_space(9, 9)` is 10 packets and the kernel uses 12
   (`src/p/pmul_karatsuba_space.c:39`; run `arith_space`).  The square has the
   same formula.
3. `readshift` asks for one packet more than it needs before every shift
   (`src/p/psetstr.c:689`; run `strings_space`): "123456789abcdef01" in base 16
   gets room for one packet, `hebi_psetstr` answers 2, and `hebi_zsetstr` takes
   that for the length of an integer of one packet, against its own assertion
   (`src/z/zsetstr.c:48`).  `ReadExact` and `RoomToldOrRead` show numbers in all
   other bases right, and those in bases that are powers of two wherever the
   estimate suffices.
4. The x86-64 `hebi_pcmp` never looks at packet 1 if the number of packets is
   even and at least four (`src/p/x86_64/pcmp.s:41`, `:95`, `:153`; run
   `kernels_compare`).  `check/p/pcmp.c` has 501 packets.

Notes without a run.

- An integer made with `HEBI_ALLOC_DEFAULT` while that is a custom allocator
  keeps the alias as its id, and its buffer goes to whatever the alias means
  later (`src/alloc_table.c:587`).  `MCZCalls.cfg` has `Rebinds = FALSE`; with
  `TRUE`, `FreedByOwner` fails.
- When the last thread ends before the process does, its scratch buffer is freed
  by `ctxshut` and again by `global_shutdown` (`src/context.c:245`), since
  `ctxshut` leaves `ctx->scratch` and `ctx->shadow` as they are.  With
  `EndsLast = TRUE`, `FreedByOwner` fails.
- `hebi_zcmpu` and `hebi_zcmpi` compare the word with the first packet and never
  look at the length: 2^128 compares below 5 (`src/z/zcmpu.c:19`,
  `zcmpi.c:32`).  `CompareExact` leaves those numbers out.
- `hebi_psetstr` refuses blanks and padding behind the digits, although
  `hebi_psetstrprepare` trims them: the end it reads to is set back to the length of
  the string (`src/p/psetstr.c:770`).  Behind a zero they are taken off.
  `ReadExact` says both.  The string "0" without a base is refused too, as an octal
  number with no digits; "00" is read.
- The table of logarithms of `hebi_pgetstrlen` has 0 for base 63: the length is 1
  or 2 whatever the number is.  Prefixes are counted for the alphabets of RFC
  4648, which have none.  `hebi_zgetstr` returns 0 for a base that the alphabet
  does not have.
- `hebi_zrand_kiss` may leave a zero with a positive sign, and the assertion at
  `src/p/prand_kiss.c:37` contradicts legal calls.
- For some uneven lengths (15 by 9 packets with cutoff 8) the accumulation of the
  middle product in `hebi_pmul_karatsuba` also touches packets behind the
  result, which the lengths of `arith` avoid.

- A list in `HEBI_HWCAPS` that leaves SSE2 out does not keep the instructions of SSE2
  out: no stub tests for them when it takes an sse41 version (`pnorm.s:76-88`,
  `pcmp.s:78-82`, `pclz.s:163`, `pctz.s:156`) or the avx version of `hebi_pnot`
  (`pnot.s:18`), `hebi_pand`, `hebi_por`, `hebi_pxor` (`pbitwise.inc:14`) and `hebi_pshl`
  (`pshl.s:59`).  With the list "sse4,bmi" `hebi_pnorm` runs its sse41 version, while
  `hebi_pcopy` is refused for want of SSE2.  No document promises otherwise, and
  `TODO:49` wants SSE2 as the default of every stub.  `VersionsAllowed` asks of SSE2
  only that the machine executes it; the lists `{"avx"}` and `{"sse4", "bmi"}` of the run
  bring it about, and without that exemption the property fails.

## 6. Abstractions

- `ha_alloc` and `ha_free` are stored and read as one cell; failures of the
  pthread calls, and the C11-threads and no-TLS variants, are left out.
- The shutdown of the table happens with every thread outside its calls.
- In `Runtime` an allocator is never removed and has no memory limit of its
  own; the pool of blocks is shared.  Callbacks do not call the library.
- Moving into an integer that has a buffer (`hebi_zset_move`) is left out: the
  call destroys its source there.
- `MaxAdds`, `MaxDepth`, `MaxUsed`, `CustomMax`, `Size`, `Heap` and `ClientId` are bounds on
  the client, named where they are declared; `MaxLen`, `StackMax`, `MaxPages`,
  `PageSize`, `GenrMod`, `CacheSize`, `CacheMaxUsed` and the cutoffs are the
  macros of `config.def.h` and `internal.h` with small values.
- Arithmetic follows the portable C kernels with 64-bit limbs, the limb as wide
  as the word of an API call.  `hebi_recipu2x1__` is given by what it returns,
  not by its table; `hebi_recipu3x2__` is translated.  Scratch memory has exactly
  the size asked for.  Negating the least `int64_t` wraps, as the builds do.
  `hebi_ztrunc` is left out.  Memory failures are `ZCalls`' part.
- `ShortMax` and the sets `Operands`, `Word` and `Shift` bound the client of the
  arithmetic.  `MaxLength` (`HEBI_PACKET_MAXLEN`) is tested by `hebi_zshl` and by
  the parser; the same test in `hebi_zexpand` and `hebi_zrealloc` is a failure of
  memory.
- Logarithms that the string calls take from fixed-point tables are those of
  integers, rounded as the tables are.  `Text`, `Format`, `Numbers`, `RoomMax`,
  `Generator`, `RandomBits` and `MaxDraws` bound their client.
- `PX86` knows packets of two limbs and runs of whole turns, not instructions.
  Registers are modelled where a stub must save them.  `cpuid` reports which
  leaves exist and the bits that versions depend on; other capabilities choose
  nothing.  Instructions count as executed if their bits are set, and those of AVX if
  the osxsave bit is set too: `getnativecaps` does not read which registers the system
  saves.  All kernels are called with at least one packet, as the library does.
- The only failure in the dispatch is that of `strdup`, after which the list is
  not read (`unread`): the program then uses more than its environment allows.

### Not modelled

- The division kernels of the x86-64 driver (`pdivremu`, `pdivremru2x1`,
  `pdivremru3x2`, `recipu*`) and all reciprocal tables: the table and its
  Newton steps are made for limbs of 64 bits, too wide for exhaustive checking,
  and what they are to return is the definition `recipu2x1`.
- The once-only creation of the thread-specific key in `src/context.c`, whose
  failures end the process, and the variants for other threads libraries.
- `hebi_ztrunc` (listed as broken in `TODO`), and `hebi_zset_move` into an integer
  that has a buffer.
- Tests, benchmarks and the build.

## 7. Plan

1. *(done)* `AllocKey`, `CacheOps`, `AllocRegistry`, `AllocTable` and the proofs
   about it.
2. *(done)* `Runtime`, `ZCalls`: memory and aliasing of every integer call.
3. *(done)* `ErrorState`.
4. *(done)* `Packets`, `PDivision`, `Karatsuba`, `ZArith`: kernels over aliased
   memory, and the sign-and-magnitude layer against the integers.
5. *(done)* `PStrings`, `PRandom`, `ZInOut`: strings and random numbers.
6. *(done)* `PX86`, `KernelCalls`: the x86-64 kernels and calls of them.
7. *(done)* Proofs about `ErrorState`, `Runtime` and `ZCalls`, and the caches of
   `AllocTable`.
8. *(done)* `Dispatch`: the dispatch without the kernels, and `VersionsAllowed` for
   any number of threads.
9. *(done)* `ZSums`, `ZSumCalls` without `Bitwise`, and the proofs that sums,
   comparisons and conversions are right for every length.
10. *(done)* `PX86_proofs`, `KernelCalls_proofs`: the kernels of x86-64 are the
    portable ones, and so is every call of them.
11. *(done)* `ZProducts`, `ZProductCalls`: what the portable products compute, and
    `ProductExact` within the cutoffs of Karatsuba and for products with words.
12. *(done)* `ZInOut` on `ZSums` and `PBits`, without Karatsuba and `Bitwise`, and
    the proof that random numbers are those of the recurrence.
13. What the portable shifts compute, by the traces of `Packets_proofs`, with
    `NoOverrun` and `OnlyResultWritten` for `hebi_zshl` and `hebi_zshr`; then
    division by a word.
