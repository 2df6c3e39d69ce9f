------------------------------ MODULE MCZCalls ------------------------------
(***************************************************************************)
(* The numbers of blocks are interchangeable: the view tells states apart  *)
(* only up to a renumbering of the blocks.                                 *)
(***************************************************************************)
EXTENDS ZCalls, TLC

Symmetry == Permutations(Zvar)

\* What names block b whatever its number: who has it.
Named(b) ==
    IF b \in Heap
    THEN <<{z \in Object : obj[z].blk = b}, scratch.blk = b, shadow.mem.blk = b, own[b], tag[b]>>
    ELSE b

Blocks == {Named(b) : b \in Allocated}

View ==
    <<[z \in Object |-> [obj[z] EXCEPT !.blk = Named(@)]],
      [scratch EXCEPT !.blk = Named(@)], [shadow EXCEPT !.mem.blk = Named(@)],
      Blocks, Cardinality(Allocated), [z \in Zvar |-> tag[z]],
      ctx, pc, todo, before, misuse>>

=============================================================================
