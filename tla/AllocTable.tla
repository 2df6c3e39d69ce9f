----------------------------- MODULE AllocTable -----------------------------
(***************************************************************************)
(* The global allocator table of hebimath (src/alloc_table.c) in its       *)
(* default configuration: POSIX threads, an error-checking mutex, a table  *)
(* that grows page by page, and a thread-local cache in front of it.       *)
(*                                                                         *)
(* A call is cut where another thread can observe it: at the mutex, and,   *)
(* inside the critical section, at every store to a callback cell, since a *)
(* thread that holds a callback pointer reads the cell with no lock.       *)
(* Thread-local work between two such points belongs to the step before.   *)
(***************************************************************************)
EXTENDS CacheOps, FiniteSets, Sequences

CONSTANTS
    Thread,
    Callback,       \* what clients register: function pointers with argument
    MaxPages,       \* ALLOC_TABLE_MAX_PAGES
    PageSize,       \* ALLOC_TABLE_PAGE_SIZE
    MaxAdds,        \* bound: calls of hebi_alloc_add in a run of the program
    Careful,        \* TRUE: clients never use an id they have passed to remove
    NoThread, None, \* no thread; no callback
    Zeroed,         \* content of a cell fresh from calloc
    Invalid,        \* invalidalloc and invalidfree, installed by remove
    Freed           \* content of a page after the table is shut down

Capacity == MaxPages * PageSize
Slot     == 0 .. Capacity - 1

\* UINTPTR_MAX: greater than every slot, so `tfreelist < tsize` fails.
ListEnd == Capacity

ASSUME TableAssumption ==
    /\ MaxPages \in Nat \ {0} /\ PageSize \in Nat \ {0}
    /\ Capacity < KeySpan - 1
    /\ MaxAdds \in Nat
    /\ Careful \in BOOLEAN
    /\ IsFiniteSet(Thread) /\ NoThread \notin Thread
    /\ NoPtr \notin Slot
    /\ {None, Zeroed, Invalid, Freed} \cap Callback = {}
    /\ Callback \cap Nat = {}
    /\ Zeroed # Invalid /\ Zeroed # Freed /\ Invalid # Freed

\* A client that may use an id after removing it must not do so for as long
\* as the slot needs to run through all its generations.
ASSUME StaleAssumption == ~Careful => MaxAdds < GenrMod

VARIABLES
    tstate,         \* tonce and tactive: "uninit", "active" or "shut"
    tmutex,         \* the thread that owns the mutex, or NoThread
    tfreelist, tsize, tused, tresv,
    gen,            \* gen[s]: the generation of slot s
    fn,             \* fn[s]: ha_alloc and ha_free of slot s
    arg,            \* arg[s]: ha_arg of slot s, or the link of the free list
    cache,          \* cache[t]: the allocator cache in t's context
    pc,             \* pc[t]: where thread t is
    op,             \* op[t]: locals of the call t is in
    (* history, read by no step of the code *)
    freed,          \* the free slots, in the order they were freed
    known,          \* ids that clients may still pass
    adds            \* calls of hebi_alloc_add so far

table == <<tstate, tmutex, tfreelist, tsize, tused, tresv, gen, fn, arg>>
hist  == <<freed, known, adds>>
vars  == <<table, cache, pc, op, hist>>

NoOp == [kind |-> "none", id |-> 0, cb |-> None, arg |-> None,
         ptr |-> NoPtr, res |-> "none", clean |-> FALSE]

\* An id no add returns: its slot is beyond the capacity of the table.
BogusId == MakeKey(0, Capacity)

Id == {MakeKey(g, s) : g \in 0 .. GenrMod - 1, s \in 0 .. Capacity}

KeyOf(s) == MakeKey(gen[s], s)

\* The entry test of remove, query and valid.
Matches(id) == SlotOf(id) < tsize /\ gen[SlotOf(id)] = GenrOf(id)

\* The callbacks of slot s are being taken out of it by the owner of the mutex.
Leaving(s) ==
    \E t \in Thread : pc[t] = "write_fn" /\ op[t].kind = "remove" /\ SlotOf(op[t].id) = s

\* Slot s serves an allocator that a client registered and did not remove.
Registered(s) == s < tsize /\ fn[s] \in Callback /\ ~Leaving(s)

Init ==
    /\ tstate = "uninit" /\ tmutex = NoThread
    /\ tfreelist = ListEnd /\ tsize = 0 /\ tused = 0 /\ tresv = 0
    /\ gen = [s \in Slot |-> 0]
    /\ fn  = [s \in Slot |-> Zeroed]
    /\ arg = [s \in Slot |-> Zeroed]
    /\ cache = [t \in Thread |-> EmptyCache]
    /\ pc = [t \in Thread |-> "idle"]
    /\ op = [t \in Thread |-> NoOp]
    /\ freed = <<>> /\ known = {} /\ adds = 0

-----------------------------------------------------------------------------
(* The calls, up to TABLE_LOCK *)

Goto(t, where) == pc' = [pc EXCEPT ![t] = where]

Begin(t, o, where) ==
    /\ pc[t] = "idle"
    /\ op' = [op EXCEPT ![t] = o]
    /\ Goto(t, where)

\* hebi_alloc_add(&fp)
AddCall(t, cb) ==
    /\ adds < MaxAdds
    /\ adds' = adds + 1
    /\ Begin(t, [NoOp EXCEPT !.kind = "add", !.cb = cb], "lock")
    /\ UNCHANGED <<table, cache, freed, known>>

\* The calls that end before the table is touched: hebi_alloc_add(NULL), and
\* hebi_alloc_remove and hebi_alloc_query for an id without a slot, raise
\* EBADVALUE; hebi_alloc_valid knows the predefined ids by their sign.
EarlyCall(t) ==
    /\ \E res \in {"EBADVALUE", "true", "false"} :
          Begin(t, [NoOp EXCEPT !.res = res], "done")
    /\ UNCHANGED <<table, cache, hist>>

\* A careful client owns the id, and nobody is using it; it gives the id up.
RemoveCall(t, id) ==
    /\ Careful => id \in known /\ \A u \in Thread : op[u].id # id
    /\ Begin(t, [NoOp EXCEPT !.kind = "remove", !.id = id], "lock")
    /\ known' = IF Careful THEN known \ {id} ELSE known
    /\ UNCHANGED <<table, cache, freed, adds>>

\* hebi_alloc_valid(id) for a positive id.
ValidCall(t, id) ==
    /\ Begin(t, [NoOp EXCEPT !.kind = "valid", !.id = id], "lock")
    /\ UNCHANGED <<table, cache, hist>>

\* A slip: the cache is asked for the slot, whatever the generation.
CacheAnswers_BySlot(t, id) ==
    LET c == cache[t]
    IN  /\ c.used > 0
        /\ \E i \in Cell : c.keys[i] > 0 /\ SlotOf(c.keys[i]) = SlotOf(id)

\* The cache of the thread answers a query, with no look at the table.
CacheAnswers(t, id) == Hit(cache[t], id)

\* hebi_alloc_query(id) from the point where the id is resolved to a custom
\* allocator key.
QueryCall(t, id) ==
    LET o == [NoOp EXCEPT !.kind = "query", !.id = id,
                          !.clean = Matches(id) /\ Registered(SlotOf(id))]
        i == ProbeCell(cache[t], id)
    IN  /\ IF CacheAnswers(t, id)
           THEN Begin(t, [o EXCEPT !.ptr = cache[t].vals[i], !.res = "ok"], "done")
           ELSE Begin(t, o, "lock")
        /\ UNCHANGED <<table, cache, hist>>

\* The ids a client may pass: those it was given, and garbage if it is careless.
Passable == known \cup (IF Careful THEN {} ELSE {BogusId})

Call(t) ==
    \/ \E cb \in Callback : AddCall(t, cb)
    \/ EarlyCall(t)
    \/ \E id \in Passable : RemoveCall(t, id) \/ ValidCall(t, id) \/ QueryCall(t, id)

-----------------------------------------------------------------------------
(* TABLE_LOCK and TABLE_UNLOCK *)

\* pthread_once runs inittable in the first thread that finds the table
\* inactive; the mutex is then taken when it is free.
Lock(t) ==
    /\ pc[t] = "lock"
    /\ tstate # "shut"
    /\ tmutex = NoThread
    /\ tstate' = "active"
    /\ tmutex' = t
    /\ Goto(t, "locked")
    /\ UNCHANGED <<tfreelist, tsize, tused, tresv, gen, fn, arg, cache, op, hist>>

\* After the shutdown pthread_once does nothing and the table stays inactive.
LockRefused(t) ==
    /\ pc[t] = "lock"
    /\ tstate = "shut"
    /\ op' = [op EXCEPT ![t].res = "EBADSTATE"]
    /\ Goto(t, "done")
    /\ UNCHANGED <<table, cache, hist>>

\* A query stores what it found in its thread's cache once it is out of the
\* lock, and returns it; one that found nothing raises EBADVALUE.
Unlock(t) ==
    LET o == op[t]
    IN  /\ pc[t] = "unlock"
        /\ tmutex' = NoThread
        /\ Goto(t, "done")
        /\ IF o.kind = "query" /\ o.ptr # NoPtr
           THEN /\ cache' = [cache EXCEPT ![t] = Insert(cache[t], o.id, o.ptr)]
                /\ op' = [op EXCEPT ![t].res = "ok"]
           ELSE /\ op' = [op EXCEPT ![t].res = IF o.kind = "query" THEN "EBADVALUE" ELSE @]
                /\ UNCHANGED cache
        /\ known' = IF o.kind = "add" /\ o.res = "ok" THEN known \cup {o.id} ELSE known
        /\ UNCHANGED <<tstate, tfreelist, tsize, tused, tresv, gen, fn, arg, freed, adds>>

-----------------------------------------------------------------------------
(* hebi_alloc_add in the critical section *)

InAdd(t, where)    == pc[t] = where /\ op[t].kind = "add"
InRemove(t, where) == pc[t] = where /\ op[t].kind = "remove"

\* `slot` and `genr` of the add are settled, and the entry is counted.
Take(t, s) ==
    /\ tused' = tused + 1
    /\ op' = [op EXCEPT ![t].id = KeyOf(s)]
    /\ Goto(t, "write_fn")

\* A slip: the popped slot stays at the head of the free list.
PoppedList_Kept(s) == tfreelist

\* The head of the free list after slot s is popped: the link in its ha_arg.
PoppedList(s) == arg[s]

AddPop(t) ==
    /\ InAdd(t, "locked")
    /\ tfreelist < tsize
    /\ Take(t, tfreelist)
    /\ tfreelist' = PoppedList(tfreelist)
    /\ freed' = SubSeq(freed, 1, Len(freed) - 1)
    /\ UNCHANGED <<tstate, tmutex, tsize, tresv, gen, fn, arg, cache, known, adds>>

\* A slip: the table is grown when the new slot would be the last one.
NeedsPage_Early == tsize + 1 >= tresv

\* A slip: the table is grown one append late.
NeedsPage_Late == tsize > tresv

NeedsPage == tsize >= tresv

PagesLeft == tresv \div PageSize < MaxPages

\* An append takes the next slot; expandtable gives it a page if it needs one.
AddAppend(t) ==
    /\ InAdd(t, "locked")
    /\ tfreelist >= tsize
    /\ NeedsPage => PagesLeft
    /\ Take(t, tsize)
    /\ tsize' = tsize + 1
    /\ tresv' = IF NeedsPage THEN tresv + PageSize ELSE tresv
    /\ UNCHANGED <<tstate, tmutex, tfreelist, gen, fn, arg, cache, hist>>

\* A slip: the error is raised inside the critical section.
AddFails_NoUnlock(t) ==
    /\ InAdd(t, "locked")
    /\ tfreelist >= tsize
    /\ NeedsPage
    /\ op' = [op EXCEPT ![t].res = IF PagesLeft THEN "ENOMEM" ELSE "ENOSLOTS"]
    /\ Goto(t, "done")
    /\ UNCHANGED <<table, cache, hist>>

\* expandtable fails: no page left, or calloc has no memory for one.
AddFails(t) ==
    /\ InAdd(t, "locked")
    /\ tfreelist >= tsize
    /\ NeedsPage
    /\ op' = [op EXCEPT ![t].res = IF PagesLeft THEN "ENOMEM" ELSE "ENOSLOTS"]
    /\ Goto(t, "unlock")
    /\ UNCHANGED <<table, cache, hist>>

AddWriteFn(t) ==
    /\ InAdd(t, "write_fn")
    /\ fn' = [fn EXCEPT ![SlotOf(op[t].id)] = op[t].cb]
    /\ Goto(t, "write_arg")
    /\ UNCHANGED <<tstate, tmutex, tfreelist, tsize, tused, tresv, gen, arg, cache, op, hist>>

\* A slip: the argument is only set when the slot is new.
AddWriteArg_FreshOnly(t) ==
    /\ InAdd(t, "write_arg")
    /\ arg' = [arg EXCEPT ![SlotOf(op[t].id)] = IF @ = Zeroed THEN op[t].cb ELSE @]
    /\ op' = [op EXCEPT ![t].res = "ok"]
    /\ Goto(t, "unlock")
    /\ UNCHANGED <<tstate, tmutex, tfreelist, tsize, tused, tresv, gen, fn, cache, hist>>

AddWriteArg(t) ==
    /\ InAdd(t, "write_arg")
    /\ arg' = [arg EXCEPT ![SlotOf(op[t].id)] = op[t].cb]
    /\ op' = [op EXCEPT ![t].res = "ok"]
    /\ Goto(t, "unlock")
    /\ UNCHANGED <<tstate, tmutex, tfreelist, tsize, tused, tresv, gen, fn, cache, hist>>

-----------------------------------------------------------------------------
(* hebi_alloc_remove, hebi_alloc_query and hebi_alloc_valid under the lock *)

\* The calls whose id is removed from now on use a dead allocator.
Spoil(o, id) == [u \in Thread |-> IF o[u].id = id THEN [o[u] EXCEPT !.clean = FALSE] ELSE o[u]]

\* A slip: the entry is matched by its slot alone.
RemoveMatches_BySlot(id) == SlotOf(id) < tsize

RemoveMatches(id) == Matches(id)

RemoveEntry(t) ==
    LET id == op[t].id
        s  == SlotOf(id)
    IN  /\ InRemove(t, "locked")
        /\ RemoveMatches(id)
        /\ gen' = [gen EXCEPT ![s] = NextGenr(GenrOf(id))]
        /\ tused' = tused - 1
        /\ op' = Spoil(op, id)
        /\ Goto(t, "write_fn")
        /\ UNCHANGED <<tstate, tmutex, tfreelist, tsize, tresv, fn, arg, cache, hist>>

\* No entry matches.  The code raises EBADVALUE only if the slot is outside
\* the table: `gp` is set, and the call silent, whenever the slot exists.
RemoveNothing(t) ==
    /\ InRemove(t, "locked")
    /\ ~RemoveMatches(op[t].id)
    /\ op' = [op EXCEPT ![t].res = IF SlotOf(op[t].id) < tsize THEN "ok" ELSE "EBADVALUE"]
    /\ Goto(t, "unlock")
    /\ UNCHANGED <<table, cache, hist>>

\* A slip: the functions of the removed entry stay.
RemoveWriteFn_Kept(t) ==
    /\ InRemove(t, "write_fn")
    /\ Goto(t, "write_arg")
    /\ UNCHANGED <<tstate, tmutex, tfreelist, tsize, tused, tresv, gen, fn, arg, cache, op, hist>>

RemoveWriteFn(t) ==
    /\ InRemove(t, "write_fn")
    /\ fn' = [fn EXCEPT ![SlotOf(op[t].id)] = Invalid]
    /\ Goto(t, "write_arg")
    /\ UNCHANGED <<tstate, tmutex, tfreelist, tsize, tused, tresv, gen, arg, cache, op, hist>>

\* A slip: the removed slot becomes the end of the list.
FreeLink_Dropped(s) == ListEnd

\* What the ha_arg of a removed slot links to: the list before it.
FreeLink(s) == tfreelist

RemoveWriteArg(t) ==
    LET s == SlotOf(op[t].id)
    IN  /\ InRemove(t, "write_arg")
        /\ arg' = [arg EXCEPT ![s] = FreeLink(s)]
        /\ tfreelist' = s
        /\ freed' = Append(freed, s)
        /\ op' = [op EXCEPT ![t].res = "ok"]
        /\ Goto(t, "unlock")
        /\ UNCHANGED <<tstate, tmutex, tsize, tused, tresv, gen, fn, cache, known, adds>>

Lookup(id) == IF Matches(id) THEN SlotOf(id) ELSE NoPtr

QueryLookup(t) ==
    /\ pc[t] = "locked" /\ op[t].kind = "query"
    /\ op' = [op EXCEPT ![t].ptr = Lookup(op[t].id)]
    /\ Goto(t, "unlock")
    /\ UNCHANGED <<table, cache, hist>>

ValidTest(t) ==
    /\ pc[t] = "locked" /\ op[t].kind = "valid"
    /\ op' = [op EXCEPT ![t].res = IF Lookup(op[t].id) # NoPtr THEN "true" ELSE "false"]
    /\ Goto(t, "unlock")
    /\ UNCHANGED <<table, cache, hist>>

-----------------------------------------------------------------------------
(* After the call *)

Return(t) ==
    /\ pc[t] \in {"done", "called"}
    /\ op' = [op EXCEPT ![t] = NoOp]
    /\ Goto(t, "idle")
    /\ UNCHANGED <<table, cache, hist>>

\* The caller of a query invokes the callbacks through the pointer, as
\* hebi_allocfp and hebi_freefp do: the function is read, then its argument.
ReadFn(t) ==
    /\ pc[t] = "done" /\ op[t].kind = "query" /\ op[t].ptr # NoPtr
    /\ op' = [op EXCEPT ![t].cb = fn[op[t].ptr]]
    /\ Goto(t, "read")
    /\ UNCHANGED <<table, cache, hist>>

ReadArg(t) ==
    /\ pc[t] = "read"
    /\ op' = [op EXCEPT ![t].arg = arg[op[t].ptr]]
    /\ Goto(t, "called")
    /\ UNCHANGED <<table, cache, hist>>

\* hebi_alloc_table_shut__ from the library destructor, with no call running.
\* It changes nothing in a table that was never used.
Shut ==
    /\ tstate = "active"
    /\ \A t \in Thread : pc[t] = "idle"
    /\ tstate' = "shut"
    /\ tfreelist' = ListEnd /\ tsize' = 0 /\ tused' = 0 /\ tresv' = 0
    /\ gen' = [s \in Slot |-> 0]
    /\ fn'  = [s \in Slot |-> Freed]
    /\ arg' = [s \in Slot |-> Freed]
    /\ freed' = <<>>
    /\ UNCHANGED <<tmutex, cache, pc, op, known, adds>>

Step(t) ==
    \/ Lock(t) \/ LockRefused(t) \/ Unlock(t)
    \/ AddPop(t) \/ AddAppend(t) \/ AddFails(t) \/ AddWriteFn(t) \/ AddWriteArg(t)
    \/ RemoveEntry(t) \/ RemoveNothing(t) \/ RemoveWriteFn(t) \/ RemoveWriteArg(t)
    \/ QueryLookup(t) \/ ValidTest(t)
    \/ Return(t) \/ ReadArg(t)

Next == (\E t \in Thread : Call(t) \/ Step(t) \/ ReadFn(t)) \/ Shut

\* A thread inside a call keeps running; a client need not make calls.
Fairness == \A t \in Thread : WF_vars(Step(t))

Spec == Init /\ [][Next]_vars
FairSpec == Spec /\ Fairness

-----------------------------------------------------------------------------
(* Properties *)

Places == {"idle", "lock", "locked", "write_fn", "write_arg", "unlock", "done",
           "read", "called"}
Kinds   == {"none", "add", "remove", "query", "valid"}
Results == {"none", "ok", "true", "false", "EBADVALUE", "EBADSTATE", "ENOMEM", "ENOSLOTS"}

FnValue  == Callback \cup {Zeroed, Invalid, Freed}
ArgValue == Callback \cup Slot \cup {ListEnd, Zeroed, Freed}
Op == [kind : Kinds, id : Id \cup {0}, cb : FnValue \cup {None}, arg : ArgValue \cup {None},
       ptr : Slot \cup {NoPtr}, res : Results, clean : BOOLEAN]

\* Type invariant.
TypeOK ==
    /\ tstate \in {"uninit", "active", "shut"}
    /\ tmutex \in Thread \cup {NoThread}
    /\ tfreelist \in Slot \cup {ListEnd}
    /\ tsize \in 0 .. Capacity /\ tused \in 0 .. Capacity
    /\ \E p \in 0 .. MaxPages : tresv = p * PageSize
    /\ gen \in [Slot -> 0 .. GenrMod - 1]
    /\ fn \in [Slot -> FnValue]
    /\ arg \in [Slot -> ArgValue]
    /\ pc \in [Thread -> Places]
    /\ op \in [Thread -> Op]
    /\ freed \in Seq(Slot)
    /\ known \subseteq Id
    /\ adds \in 0 .. MaxAdds

Critical == {"locked", "write_fn", "write_arg", "unlock"}

\* The mutex is owned by exactly the thread between TABLE_LOCK and TABLE_UNLOCK:
\* no error path leaves with it, none releases it early.
LockInv == \A t \in Thread : pc[t] \in Critical <=> tmutex = t

\* The links kept in ha_arg form one list without repetition, headed by
\* tfreelist, of removed slots below tsize.
FreeListOK ==
    /\ tfreelist = IF freed = <<>> THEN ListEnd ELSE freed[Len(freed)]
    /\ \A i \in 1 .. Len(freed) :
          /\ freed[i] < tsize
          /\ fn[freed[i]] = Invalid
          /\ arg[freed[i]] = IF i = 1 THEN ListEnd ELSE freed[i - 1]
          /\ \A j \in 1 .. i - 1 : freed[j] # freed[i]

\* The entry that a remove has uncounted and not yet linked.
InTransit ==
    IF \E t \in Thread : InRemove(t, "write_fn") \/ InRemove(t, "write_arg") THEN 1 ELSE 0

\* No slot is lost or counted twice: every slot below tsize is in use, on the
\* free list, or in the hands of the thread that owns the mutex.
SlotsAccounted ==
    /\ tsize =< tresv
    /\ tsize = tused + Len(freed) + InTransit

\* hebi_alloc_add says ENOSLOTS only when every slot the table may have serves
\* a registered allocator: removed slots are never leaked.
NoSlotsMeansFull ==
    \A t \in Thread :
        pc[t] = "unlock" /\ op[t].res = "ENOSLOTS" => \A s \in Slot : Registered(s)

\* When the generation test accepts an id, the slot serves an allocator that is
\* registered now: the id of a free slot is in nobody's hands, so a removal
\* cannot free a slot twice and hebi_alloc_valid tells the truth.
MatchingIdIsLive ==
    \A t \in Thread :
        /\ pc[t] = "locked"
        /\ op[t].kind \in {"remove", "query", "valid"}
        /\ Matches(op[t].id)
        => Registered(SlotOf(op[t].id))

\* A query for an allocator that stays registered is answered, from the cache
\* or from the table, with the cell of that allocator's own slot.
LiveQueryAnswered ==
    \A t \in Thread :
        pc[t] = "done" /\ op[t].kind = "query" /\ op[t].clean /\ tstate = "active"
        => op[t].ptr = SlotOf(op[t].id)

\* Callbacks reached through a query for an allocator that stays registered are
\* complete and its own: never half-written, another client's, or a free link.
CallsOwnCallbacks ==
    \A t \in Thread :
        pc[t] = "called" /\ op[t].clean /\ tstate = "active"
        => /\ op[t].cb \in Callback
           /\ op[t].cb = op[t].arg
           /\ op[t].cb = fn[SlotOf(op[t].id)]
           /\ gen[SlotOf(op[t].id)] = GenrOf(op[t].id)

\* An id is not given out while a client may still pass it: in a run that never
\* forgets ids, no id is given out twice.
FreshIds ==
    [][\A t \in Thread :
          op[t].kind = "add" /\ op[t].id = 0 /\ op'[t].id # 0 /\ op'[t].kind = "add"
          => op'[t].id \notin known]_vars

\* What a careful client owns stays registered until it removes it itself,
\* whatever the other threads add, remove and query.
OwnedStaysRegistered ==
    Careful /\ tstate = "active" =>
        \A id \in known : Matches(id) /\ Registered(SlotOf(id))

\* Every path through a critical section, the error paths included, gives the
\* mutex back.
LockReleased == []<>(tmutex = NoThread)

Occupied(c) == {i \in Cell : c.keys[i] # EmptyKey}

\* The probe loop of hebi_alloc_query always ends at an empty cell or a match:
\* `used` counts the occupied cells, and each entry is found again by its own key
\* in the cell it was stored in, not shadowed by a second copy of itself, whatever
\* ids of removed allocators still fill the cache.
CacheSound ==
    \A t \in Thread :
        LET c == cache[t]
        IN  /\ c.used = Cardinality(Occupied(c))
            /\ \A i \in Occupied(c) : Hit(c, c.keys[i]) /\ ProbeCell(c, c.keys[i]) = i

\* A hit answers with the callbacks of the slot its key names, whatever was
\* cleared or displaced since: value cells survive a reset, key cells do not.
HitsAreOwn ==
    \A t \in Thread : \A i \in Occupied(cache[t]) :
        LET c  == cache[t]
            id == c.keys[i]
        IN  Hit(c, id) => c.vals[ProbeCell(c, id)] = SlotOf(id)

\* The ids that serve an allocator now, with their callbacks.
Registrations == [k \in {KeyOf(s) : s \in {r \in Slot : Registered(r)}} |-> fn[SlotOf(k)]]

\* The promise to clients: AllocRegistry.
Registry == INSTANCE AllocRegistry WITH
    registered <- Registrations, open <- (tstate # "shut")

RegistrySpec == Registry!Spec

-----------------------------------------------------------------------------
(* The inductive invariant *)

\* Thread t is storing into slot s.
HandsOn(t)    == pc[t] \in {"write_fn", "write_arg"}
Holding(t, s) == HandsOn(t) /\ SlotOf(op[t].id) = s

\* Slot s serves an allocator and nobody is changing it.
Settled(s) ==
    /\ s < tsize
    /\ fn[s] \in Callback
    /\ arg[s] = fn[s]
    /\ \A t \in Thread : ~Holding(t, s)

Live(id) == Matches(id) /\ Settled(SlotOf(id))

\* Thread t carries an id to the generation test.
Flying(t) == pc[t] \in {"lock", "locked"} /\ op[t].kind \in {"remove", "query", "valid"}

\* Adds that may still take a slot.
Pending == {t \in Thread : pc[t] \in {"lock", "locked"} /\ op[t].kind = "add"}

\* Slot s was taken by an add and not given back.
Taken(s) == IF s < tsize /\ (Settled(s) \/ \E t \in Thread : Holding(t, s) /\ op[t].kind = "add")
            THEN 1 ELSE 0

\* Ids in the hands of clients and ids on their way to the generation test.
Ids == known \cup {op[t].id : t \in {u \in Thread : Flying(u)}}

\* Adds that settled an id and did not give it out yet.
Adding(t) ==
    /\ op[t].kind = "add"
    /\ HandsOn(t) \/ (pc[t] = "unlock" /\ op[t].res = "ok")

InvTypes ==
    /\ tstate \in {"uninit", "active", "shut"}
    /\ tmutex \in Thread \cup {NoThread}
    /\ tfreelist \in Slot \cup {ListEnd}
    /\ tsize \in 0 .. Capacity /\ tused \in Int
    /\ \E p \in 0 .. MaxPages : tresv = p * PageSize
    /\ gen \in [Slot -> 0 .. GenrMod - 1]
    /\ fn \in [Slot -> FnValue]
    /\ arg \in [Slot -> ArgValue]
    /\ pc \in [Thread -> Places]
    /\ op \in [Thread -> Op]
    /\ freed \in Seq(Slot)
    /\ known \subseteq Id
    /\ adds \in 0 .. MaxAdds

\* What a thread's locals hold at each place of each call.
InvOp ==
    \A t \in Thread :
        /\ Flying(t) => op[t].id \in Id /\ op[t].ptr = NoPtr
        /\ pc[t] \in {"lock", "locked"} =>
              op[t].kind \in {"add", "remove", "query", "valid"} /\ op[t].res = "none"
        /\ t \in Pending => op[t].cb \in Callback
        /\ HandsOn(t) => op[t].kind \in {"add", "remove"}
        /\ InAdd(t, "unlock") /\ op[t].res = "ok" => Live(op[t].id)
        /\ Adding(t) => op[t].id \in Id \ Ids
        /\ op[t].kind = "query" => op[t].id \in Id /\ op[t].ptr \in {NoPtr, SlotOf(op[t].id)}
        /\ pc[t] \in {"read", "called"} => op[t].kind = "query" /\ op[t].ptr # NoPtr

\* A slot in hand is inside the table, off the free list, and half-way.
InvHands ==
    \A t \in Thread : HandsOn(t) =>
        LET s == SlotOf(op[t].id)
        IN  /\ tstate = "active" /\ s \in 0 .. tsize - 1
            /\ \A i \in 1 .. Len(freed) : freed[i] # s
            /\ InAdd(t, "write_fn") => fn[s] \in {Zeroed, Invalid}
            /\ InAdd(t, "write_arg") => fn[s] = op[t].cb
            /\ op[t].kind = "add" => op[t].cb \in Callback /\ op[t].id = KeyOf(s)
            /\ InRemove(t, "write_fn") => fn[s] \in Callback
            /\ InRemove(t, "write_arg") => fn[s] = Invalid

\* Every slot below tsize is settled, free or in hand.
InvSlots ==
    \A s \in Slot : s < tsize =>
        \/ Settled(s)
        \/ \E i \in 1 .. Len(freed) : freed[i] = s
        \/ \E t \in Thread : Holding(t, s)

\* The slots not appended yet, and the table before and after its life.
InvFresh ==
    /\ tstate # "shut" => \A s \in Slot : s >= tsize => fn[s] = Zeroed
    /\ tstate # "active" => tsize = 0 /\ tused = 0 /\ freed = <<>> /\ tmutex = NoThread
    /\ tstate = "uninit" => known = {}

InvIds ==
    tstate # "shut" => \A id \in Ids :
        /\ SlotOf(id) < tsize \/ SlotOf(id) = Capacity
        /\ Matches(id) => Settled(SlotOf(id))

\* A careful client owns what it passes.
InvCareful ==
    Careful =>
        /\ tstate # "shut" => \A id \in known : Live(id)
        /\ \A t \in Thread : Flying(t) /\ op[t].kind \in {"query", "valid"} => op[t].id \in known
        /\ \A t \in Thread : Flying(t) /\ op[t].kind = "remove" =>
              /\ op[t].id \notin known
              /\ tstate # "shut" => Live(op[t].id)
              /\ \A u \in Thread : u # t /\ Flying(u) => op[u].id # op[t].id

\* A careless client's ids are of the past, and no slot has run through all of
\* its generations yet.
InvStale ==
    ~Careful /\ tstate # "shut" =>
        /\ \A id \in Ids : SlotOf(id) < tsize => GenrOf(id) =< gen[SlotOf(id)]
        /\ \A s \in Slot : gen[s] + Taken(s) + Cardinality(Pending) =< adds

\* A query for an allocator that has stayed registered.
InvClean ==
    \A t \in Thread :
        op[t].kind = "query" /\ op[t].clean /\ tstate # "shut" =>
            LET s == SlotOf(op[t].id)
            IN  /\ Live(op[t].id)
                /\ pc[t] \in {"unlock", "done", "read", "called"} => op[t].ptr = s
                /\ pc[t] \in {"read", "called"} => op[t].cb = fn[s]
                /\ pc[t] = "called" => op[t].arg = fn[s]

\* Every pointer in a cache is the one of its key's slot.
InvCache ==
    \A t \in Thread :
        /\ cache[t].used \in Nat
        /\ cache[t].keys \in [Cell -> Id \cup {EmptyKey}]
        /\ cache[t].vals \in [Cell -> Slot \cup {NoPtr}]
        /\ \A i \in Cell :
              cache[t].keys[i] # EmptyKey => cache[t].vals[i] = SlotOf(cache[t].keys[i])

IInv ==
    /\ InvTypes /\ LockInv /\ InvOp /\ InvHands /\ FreeListOK /\ InvSlots
    /\ SlotsAccounted /\ InvFresh /\ InvIds /\ InvCareful /\ InvStale
    /\ InvClean /\ InvCache

=============================================================================
