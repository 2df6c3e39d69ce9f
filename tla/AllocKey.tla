------------------------------ MODULE AllocKey ------------------------------
(***************************************************************************)
(* Allocator keys (src/alloc_table.c).  A custom allocator is named by a   *)
(* positive int that packs the generation of a table slot above the slot's *)
(* number plus one, so that 0 stays free for "standard library" and a      *)
(* cleared cache cell.                                                     *)
(***************************************************************************)
EXTENDS Integers

CONSTANT
    GenrMod     \* KEY_GENR_MASK + 1: number of generations of a slot

ASSUME GenrModAssumption == GenrMod \in Nat \ {0}

\* KEY_SLOT_MASK + 1 of a 64-bit build: 1 << KEY_GENR_SHFT
KeySpan == 65536

MakeKey(genr, slot) == genr * KeySpan + (slot + 1)

\* `(id & KEY_SLOT_MASK)` still holds the number plus one; callers test it
\* for zero before the decrement.
SlotField(key) == key % KeySpan
SlotOf(key)    == SlotField(key) - 1
GenrOf(key)    == key \div KeySpan

\* A slip: the generation is not masked.
NextGenr_Unmasked(genr) == genr + 1

\* A slip: the generation is only advanced when the slot is taken again.
NextGenr_Kept(genr) == genr

\* The generation a slot gets when its allocator is removed.
NextGenr(genr) == (genr + 1) % GenrMod

=============================================================================
