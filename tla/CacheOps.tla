------------------------------ MODULE CacheOps ------------------------------
(***************************************************************************)
(* The thread-local cache of hebi_alloc_query (src/alloc_table.c, fields   *)
(* allocused, allockeys and allocvalues of struct hebi_context): an        *)
(* open-addressed table from allocator keys to callback pointers.  An      *)
(* entry is never deleted; a cache that is full is cleared by the next     *)
(* insertion.  The operators work on a cache record; AllocTable gives one  *)
(* to every thread.                                                        *)
(***************************************************************************)
EXTENDS AllocKey

CONSTANTS
    CacheSize,      \* ALLOC_CACHE_MAX_SIZE, number of cells
    CacheMaxUsed,   \* ALLOC_CACHE_MAX_USED, entries before a reset
    NoPtr           \* no pointer, or a value cell nothing was stored in

\* The static assertions at the top of the file.
ASSUME CacheAssumption ==
    /\ CacheSize \in Nat \ {0}
    /\ CacheMaxUsed \in Nat \ {0}
    /\ CacheMaxUsed < CacheSize
    /\ NoPtr \notin Nat

Cell == 0 .. CacheSize - 1

EmptyKey == 0

EmptyCache ==
    [used |-> 0,
     keys |-> [i \in Cell |-> EmptyKey],
     vals |-> [i \in Cell |-> NoPtr]]

\* The bit mix that chooses the first cell of a key.
Hash(key) == (SlotOf(key) * 23131 + SlotOf(key) \div 32) % CacheSize

\* The cell reached after n steps of linear probing.
Probe(key, n) == (Hash(key) + n) % CacheSize

\* The probe loop ends after n steps: an empty cell, `used` cells tested, or
\* the key itself.
ProbeEnds(c, key, n) ==
    \/ c.keys[Probe(key, n)] = EmptyKey
    \/ n >= c.used
    \/ c.keys[Probe(key, n)] = key

ProbeLength(c, key) ==
    CHOOSE n \in 0 .. c.used :
        /\ ProbeEnds(c, key, n)
        /\ \A m \in 0 .. n - 1 : ~ProbeEnds(c, key, m)

\* The cell the loop leaves in `i`.
ProbeCell(c, key) == Probe(key, ProbeLength(c, key))

\* The test of the loop body as written: a match counts only while fewer than
\* `used` cells have been tested.
Hit(c, key) ==
    /\ c.used > 0
    /\ ProbeLength(c, key) < c.used
    /\ c.keys[ProbeCell(c, key)] = key

\* A slip: the cell of the hash is used without probing.
InsertCell_HashOnly(c, key) == Hash(key)

\* The cell a missed key goes to in a cache that is not cleared first.
InsertCell(c, key) == ProbeCell(c, key)

\* `used` is 0 at the store when the cache was empty or at its limit.
MustReset(c) == c.used = 0 \/ c.used >= CacheMaxUsed

UsedAfter(c) == IF MustReset(c) THEN 1 ELSE c.used + 1

KeysBefore(c) == IF MustReset(c) THEN [i \in Cell |-> EmptyKey] ELSE c.keys

\* A slip: the pointer is stored at the cell of the hash, the key at `i`.
Insert_PointerAtHash(c, key, ptr) ==
    LET i == IF MustReset(c) THEN Hash(key) ELSE InsertCell(c, key)
    IN  [used |-> UsedAfter(c),
         keys |-> [KeysBefore(c) EXCEPT ![i] = key],
         vals |-> [c.vals EXCEPT ![Hash(key)] = ptr]]

\* The store that ends a missed query; memset clears the keys, not the values.
Insert(c, key, ptr) ==
    LET i == IF MustReset(c) THEN Hash(key) ELSE InsertCell(c, key)
    IN  [used |-> UsedAfter(c),
         keys |-> [KeysBefore(c) EXCEPT ![i] = key],
         vals |-> [c.vals EXCEPT ![i] = ptr]]

=============================================================================
