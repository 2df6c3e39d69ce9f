-------------------------- MODULE AllocTable_proofs --------------------------
EXTENDS AllocTable, TLAPS, FiniteSetTheorems, SequenceTheorems,
        WellFoundedInduction

\* The capacity of the table and the end-of-list value outside it.
LEMMA Sizes == Capacity \in Nat /\ Slot \subseteq Nat /\ ListEnd \notin Slot
  BY TableAssumption DEF Capacity, Slot, ListEnd

\* A slot below a count is in the range of that count.
LEMMA Bounds ==
    \A n \in 0 .. Capacity :
        /\ \A i \in Slot : i < n => i \in 0 .. n - 1
        /\ \A i \in 0 .. Capacity : i < n => i \in Slot /\ i # Capacity
  BY Sizes DEF Slot

\* A key unpacks to the generation and the slot it was packed from, and keys of
\* the table are positive ids (KEY_GENR_SHFT, KEY_SLOT_MASK).
LEMMA KeyFacts ==
    /\ \A g \in 0 .. GenrMod - 1, s \in 0 .. Capacity :
          /\ MakeKey(g, s) \in Id
          /\ SlotOf(MakeKey(g, s)) = s
          /\ GenrOf(MakeKey(g, s)) = g
    /\ \A id \in Id :
          /\ SlotOf(id) \in 0 .. Capacity
          /\ GenrOf(id) \in 0 .. GenrMod - 1
          /\ id = MakeKey(GenrOf(id), SlotOf(id))
          /\ id # 0
<1> USE GenrModAssumption, TableAssumption, Sizes
    DEF KeySpan, MakeKey, SlotOf, SlotField, GenrOf
<1>1. ASSUME NEW g \in 0 .. GenrMod - 1, NEW s \in 0 .. Capacity
      PROVE  /\ MakeKey(g, s) \in Id
             /\ SlotOf(MakeKey(g, s)) = s
             /\ GenrOf(MakeKey(g, s)) = g
  <2>1. (g * 65536 + (s + 1)) % 65536 = s + 1 /\ (g * 65536 + (s + 1)) \div 65536 = g
    OBVIOUS
  <2>2. QED  BY <2>1 DEF Id
<1>2. ASSUME NEW id \in Id
      PROVE  /\ SlotOf(id) \in 0 .. Capacity
             /\ GenrOf(id) \in 0 .. GenrMod - 1
             /\ id = MakeKey(GenrOf(id), SlotOf(id))
             /\ id # 0
  <2>1. PICK g \in 0 .. GenrMod - 1, s \in 0 .. Capacity : id = MakeKey(g, s)
    BY DEF Id
  <2>2. SlotOf(id) = s /\ GenrOf(id) = g
    BY <2>1, <1>1
  <2>3. id # 0
    BY <2>1
  <2>4. QED  BY <2>1, <2>2, <2>3
<1>3. QED
  BY <1>1, <1>2

Undisturbed ==
    /\ UNCHANGED <<tfreelist, tsize, tused, tresv, gen, fn, arg, freed>>
    /\ tstate' \in {tstate, "active"}
    /\ \A u \in Thread : HandsOn(u)' <=> HandsOn(u)
    /\ \A u \in Thread : HandsOn(u) => op'[u] = op[u] /\ pc'[u] = pc[u]

\* A step that leaves the table and the hands alone keeps every part of the
\* invariant that speaks of the table only.
LEMMA Quiet ==
    ASSUME IInv, Undisturbed
    PROVE  /\ FreeListOK' /\ InvSlots' /\ InvHands' /\ SlotsAccounted'
           /\ \A s : Settled(s)' <=> Settled(s)
           /\ \A id : Live(id)' <=> Live(id)
           /\ \A id : Matches(id)' <=> Matches(id)
           /\ \A s : Taken(s)' = Taken(s)
<1> USE DEF Undisturbed
<1>1. \A t \in Thread : \A s : Holding(t, s)' <=> Holding(t, s)
  BY DEF Holding
<1>2. \A s : Settled(s)' <=> Settled(s)
  BY <1>1 DEF Settled
<1>3. \A id : Matches(id)' <=> Matches(id)
  BY DEF Matches
<1>4. \A id : Live(id)' <=> Live(id)
  BY <1>2, <1>3 DEF Live
<1>5. \A s : Taken(s)' = Taken(s)
  BY <1>1, <1>2 DEF Taken, Holding
<1>6. InvSlots'
  BY <1>1, <1>2 DEF IInv, InvSlots
<1>7. FreeListOK'
  BY DEF IInv, FreeListOK
<1>8. InvHands'
  BY DEF IInv, InvHands, InAdd, InRemove, KeyOf, HandsOn
<1>9. SlotsAccounted'
  <2>1. InTransit' = InTransit
    BY DEF InTransit, InRemove, HandsOn
  <2>2. QED  BY <2>1 DEF IInv, SlotsAccounted
<1>10. QED
  BY <1>2, <1>3, <1>4, <1>5, <1>6, <1>7, <1>8, <1>9

\* The locals of an idle thread are well typed.
LEMMA NoOpType == NoOp \in Op
  BY DEF NoOp, Op, Kinds, Results

\* Setting one local keeps a call record well typed.
LEMMA OpUpdate ==
    ASSUME NEW o \in Op
    PROVE  /\ \A r \in Results : [o EXCEPT !.res = r] \in Op
           /\ \A p \in Slot \cup {NoPtr} : [o EXCEPT !.ptr = p] \in Op
           /\ \A f \in FnValue : [o EXCEPT !.cb = f] \in Op
           /\ \A a \in ArgValue : [o EXCEPT !.arg = a] \in Op
           /\ \A k \in Id : [o EXCEPT !.id = k] \in Op
           /\ [o EXCEPT !.clean = FALSE] \in Op
  BY DEF Op

\* The adds under way are finitely many, so they can be counted.
LEMMA PendingFinite == IsFiniteSet(Pending) /\ Cardinality(Pending) \in Nat
<1>1. IsFiniteSet(Pending)
  BY TableAssumption, FS_Subset DEF Pending
<1>2. QED  BY <1>1, FS_CardinalityType

\* An id that a client passes is one of the table, owned or made up.
LEMMA PassableFacts ==
    ASSUME IInv, NEW id \in Passable
    PROVE  /\ id \in Id /\ id # 0
           /\ id \in known \/ (~Careful /\ SlotOf(id) = Capacity)
<1>1. BogusId \in Id /\ SlotOf(BogusId) = Capacity
  BY KeyFacts, Sizes, GenrModAssumption DEF BogusId
<1>2. QED
  BY <1>1, KeyFacts DEF IInv, InvTypes, Passable

-----------------------------------------------------------------------------
(* The steps that leave the table as it is *)

\* The return of a call keeps the invariant.
LEMMA StepReturn ==
    ASSUME IInv, NEW t \in Thread, Return(t)
    PROVE  IInv'
<1> USE DEF Return, Goto, table, hist
<1>0. Undisturbed
  BY DEF IInv, InvTypes, Undisturbed, HandsOn
<1>1. InvTypes'  BY DEF IInv, InvTypes, Op, NoOp, Places, Kinds, Results
<1>2. LockInv'   BY DEF IInv, InvTypes, LockInv, Critical
<1>3. Ids' = Ids /\ Pending' = Pending
  BY DEF IInv, InvTypes, Ids, Pending, Flying
<1>4. InvOp'
  BY <1>0, <1>3, Quiet DEF IInv, InvTypes, InvOp, NoOp, Flying, Pending, HandsOn, InAdd, Adding
<1>5. InvFresh' BY DEF IInv, InvFresh
<1>6. InvIds'   BY <1>0, <1>3, Quiet DEF IInv, InvIds
<1>7. InvCareful' BY <1>0, <1>3, Quiet DEF IInv, InvTypes, InvCareful, Flying
<1>8. InvStale' BY <1>0, <1>3, Quiet DEF IInv, InvStale
<1>9. InvClean' BY <1>0, Quiet DEF IInv, InvTypes, InvClean, NoOp
<1>10. InvCache' BY DEF IInv, InvCache
<1>11. QED
  BY <1>0, <1>1, <1>2, <1>4, <1>5, <1>6, <1>7, <1>8, <1>9, <1>10, Quiet DEF IInv

\* A call that ends before the table is touched keeps the invariant.
LEMMA StepEarlyCall ==
    ASSUME IInv, NEW t \in Thread, EarlyCall(t)
    PROVE  IInv'
<1> USE DEF EarlyCall, Begin, Goto, table, hist
<1>0. Undisturbed
  BY DEF IInv, InvTypes, Undisturbed, HandsOn
<1>1. InvTypes'
  <2>1. PICK res \in {"EBADVALUE", "true", "false"} :
          op' = [op EXCEPT ![t] = [NoOp EXCEPT !.res = res]]
    OBVIOUS
  <2>2. op' \in [Thread -> Op]
    BY <2>1, NoOpType DEF IInv, InvTypes, Op, Kinds, Results
  <2>3. QED  BY <2>2 DEF IInv, InvTypes, Places
<1>2. LockInv'   BY DEF IInv, InvTypes, LockInv, Critical
<1>3. Ids' = Ids /\ Pending' = Pending
  BY DEF IInv, InvTypes, Ids, Pending, Flying
<1>4. InvOp'
  BY <1>0, <1>3, Quiet DEF IInv, InvTypes, InvOp, NoOp, Flying, Pending, HandsOn, InAdd, Adding
<1>5. InvFresh' BY DEF IInv, InvFresh
<1>6. InvIds'   BY <1>0, <1>3, Quiet DEF IInv, InvIds
<1>7. InvCareful' BY <1>0, <1>3, Quiet DEF IInv, InvTypes, InvCareful, Flying
<1>8. InvStale' BY <1>0, <1>3, Quiet DEF IInv, InvStale
<1>9. InvClean' BY <1>0, Quiet DEF IInv, InvTypes, InvClean, NoOp
<1>10. InvCache' BY DEF IInv, InvCache
<1>11. QED
  BY <1>0, <1>1, <1>2, <1>4, <1>5, <1>6, <1>7, <1>8, <1>9, <1>10, Quiet DEF IInv

\* Entering hebi_alloc_add keeps the invariant.
LEMMA StepAddCall ==
    ASSUME IInv, NEW t \in Thread, NEW cb \in Callback, AddCall(t, cb)
    PROVE  IInv'
<1> USE DEF AddCall, Begin, Goto, table
<1>0. Undisturbed
  BY DEF IInv, InvTypes, Undisturbed, HandsOn
<1>1. InvTypes'
  <2>1. op' \in [Thread -> Op]
    BY NoOpType DEF IInv, InvTypes, Op, Kinds, FnValue
  <2>2. QED  BY <2>1, TableAssumption DEF IInv, InvTypes, Places
<1>2. LockInv'   BY DEF IInv, InvTypes, LockInv, Critical
<1>3. Ids' = Ids
  BY DEF IInv, InvTypes, Ids, Flying, NoOp
<1>4. InvOp'
  BY <1>0, <1>3, Quiet DEF IInv, InvTypes, InvOp, NoOp, Flying, Pending, HandsOn, InAdd, Adding
<1>5. InvFresh' BY DEF IInv, InvFresh
<1>6. InvIds'   BY <1>0, <1>3, Quiet DEF IInv, InvIds
<1>7. InvCareful' BY <1>0, <1>3, Quiet DEF IInv, InvTypes, InvCareful, Flying, NoOp
<1>8. InvStale'
  <2>1. Pending' = Pending \cup {t} /\ t \notin Pending
    BY DEF IInv, InvTypes, Pending, NoOp
  <2>2. Cardinality(Pending') = Cardinality(Pending) + 1
    BY <2>1, PendingFinite, FS_AddElement
  <2>3. \A s \in Slot : gen[s] \in Nat /\ Taken(s) \in {0, 1}
    BY DEF IInv, InvTypes, Taken
  <2>4. QED
    BY <1>0, <1>3, <2>2, <2>3, PendingFinite, Quiet, SMTT(30) DEF IInv, InvTypes, InvStale
<1>9. InvClean' BY <1>0, Quiet DEF IInv, InvTypes, InvClean, NoOp
<1>10. InvCache' BY DEF IInv, InvCache
<1>11. QED
  BY <1>0, <1>1, <1>2, <1>4, <1>5, <1>6, <1>7, <1>8, <1>9, <1>10, Quiet DEF IInv

\* Entering hebi_alloc_remove keeps the invariant: a careful client gives the
\* id up, so that nobody else flies with it.
LEMMA StepRemoveCall ==
    ASSUME IInv, NEW t \in Thread, NEW id \in Passable, RemoveCall(t, id)
    PROVE  IInv'
<1> USE DEF RemoveCall, Begin, Goto, table
<1>a. id \in Id /\ id # 0 /\ (id \in known \/ (~Careful /\ SlotOf(id) = Capacity))
  BY PassableFacts
<1>0. Undisturbed
  BY DEF IInv, InvTypes, Undisturbed, HandsOn
<1>1. InvTypes'
  <2>1. op' \in [Thread -> Op]
    BY <1>a, NoOpType DEF IInv, InvTypes, Op, Kinds
  <2>2. QED  BY <2>1 DEF IInv, InvTypes, Places
<1>2. LockInv'   BY DEF IInv, InvTypes, LockInv, Critical
<1>3. Ids' \subseteq Ids \cup {id} /\ Pending' = Pending
  BY DEF IInv, InvTypes, Ids, Flying, Pending, NoOp
<1>b. \A u \in Thread : Adding(u) => op[u].id # id
  <2>1. CASE id \in known  BY <2>1 DEF IInv, InvOp, Ids
  <2>2. CASE SlotOf(id) = Capacity
    BY <2>2, Sizes DEF IInv, InvTypes, InvOp, InvHands, Adding, InAdd, Live, Matches
  <2>3. QED  BY <1>a, <2>1, <2>2
<1>4. InvOp'
  BY <1>0, <1>3, <1>a, <1>b, Quiet
  DEF IInv, InvTypes, InvOp, NoOp, Flying, Pending, HandsOn, InAdd, Adding
<1>5. InvFresh' BY <1>a DEF IInv, InvFresh
<1>6. InvIds'
  <2>1. SlotOf(id) = Capacity => ~Matches(id)
    BY Sizes DEF IInv, InvTypes, Matches
  <2>2. QED
    BY <1>0, <1>3, <1>a, <2>1, Quiet DEF IInv, InvIds, Ids
<1>7. InvCareful'
  BY <1>0, <1>3, <1>a, Quiet DEF IInv, InvTypes, InvCareful, Flying, NoOp
<1>8. InvStale'
  BY <1>0, <1>3, <1>a, Sizes, Quiet DEF IInv, InvTypes, InvStale, Ids
<1>9. InvClean' BY <1>0, Quiet DEF IInv, InvTypes, InvClean, NoOp
<1>10. InvCache' BY DEF IInv, InvCache
<1>11. QED
  BY <1>0, <1>1, <1>2, <1>4, <1>5, <1>6, <1>7, <1>8, <1>9, <1>10, Quiet DEF IInv

\* Entering hebi_alloc_valid keeps the invariant.
LEMMA StepValidCall ==
    ASSUME IInv, NEW t \in Thread, NEW id \in Passable, ValidCall(t, id)
    PROVE  IInv'
<1> USE DEF ValidCall, Begin, Goto, table, hist
<1>a. id \in Id /\ id # 0 /\ (id \in known \/ (~Careful /\ SlotOf(id) = Capacity))
  BY PassableFacts
<1>0. Undisturbed
  BY DEF IInv, InvTypes, Undisturbed, HandsOn
<1>1. InvTypes'
  <2>1. op' \in [Thread -> Op]
    BY <1>a, NoOpType DEF IInv, InvTypes, Op, Kinds
  <2>2. QED  BY <2>1 DEF IInv, InvTypes, Places
<1>2. LockInv'   BY DEF IInv, InvTypes, LockInv, Critical
<1>3. Ids' \subseteq Ids \cup {id} /\ Pending' = Pending
  BY DEF IInv, InvTypes, Ids, Flying, Pending, NoOp
<1>b. \A u \in Thread : Adding(u) => op[u].id # id
  <2>1. CASE id \in known  BY <2>1 DEF IInv, InvOp, Ids
  <2>2. CASE SlotOf(id) = Capacity
    BY <2>2, Sizes DEF IInv, InvTypes, InvOp, InvHands, Adding, InAdd, Live, Matches
  <2>3. QED  BY <1>a, <2>1, <2>2
<1>4. InvOp'
  BY <1>0, <1>3, <1>a, <1>b, Quiet
  DEF IInv, InvTypes, InvOp, NoOp, Flying, Pending, HandsOn, InAdd, Adding
<1>5. InvFresh' BY DEF IInv, InvFresh
<1>6. InvIds'
  <2>1. SlotOf(id) = Capacity => ~Matches(id)
    BY Sizes DEF IInv, InvTypes, Matches
  <2>2. QED
    BY <1>0, <1>3, <1>a, <2>1, Quiet DEF IInv, InvIds, Ids
<1>7. InvCareful'
  BY <1>0, <1>3, <1>a, Quiet DEF IInv, InvTypes, InvCareful, Flying, NoOp
<1>8. InvStale'
  BY <1>0, <1>3, <1>a, Sizes, Quiet DEF IInv, InvTypes, InvStale, Ids
<1>9. InvClean' BY <1>0, Quiet DEF IInv, InvTypes, InvClean, NoOp
<1>10. InvCache' BY DEF IInv, InvCache
<1>11. QED
  BY <1>0, <1>1, <1>2, <1>4, <1>5, <1>6, <1>7, <1>8, <1>9, <1>10, Quiet DEF IInv

\* TABLE_LOCK after the shutdown keeps the invariant.
LEMMA StepLockRefused ==
    ASSUME IInv, NEW t \in Thread, LockRefused(t)
    PROVE  IInv'
<1> USE DEF LockRefused, Goto, table, hist
<1>0. Undisturbed
  BY DEF IInv, InvTypes, Undisturbed, HandsOn
<1>1. InvTypes'
  <2>1. op' \in [Thread -> Op]
    BY OpUpdate DEF IInv, InvTypes, Results
  <2>2. QED  BY <2>1 DEF IInv, InvTypes, Places
<1>2. LockInv'   BY DEF IInv, InvTypes, LockInv, Critical
<1>3. Ids' \subseteq Ids
  BY DEF IInv, InvTypes, Ids, Flying
<1>4. InvOp'
  BY <1>0, <1>3, Quiet DEF IInv, InvTypes, InvOp, Op, Flying, Pending, HandsOn, InAdd, Adding
<1>5. InvFresh' BY DEF IInv, InvFresh
<1>6. InvIds'   BY DEF InvIds
<1>7. InvCareful' BY <1>0, Quiet DEF IInv, InvTypes, InvCareful, Flying
<1>8. InvStale' BY DEF InvStale
<1>9. InvClean' BY DEF InvClean
<1>10. InvCache' BY DEF IInv, InvCache
<1>11. QED
  BY <1>0, <1>1, <1>2, <1>4, <1>5, <1>6, <1>7, <1>8, <1>9, <1>10, Quiet DEF IInv

\* A failing expandtable keeps the invariant.
LEMMA StepAddFails ==
    ASSUME IInv, NEW t \in Thread, AddFails(t)
    PROVE  IInv'
<1> USE DEF AddFails, InAdd, Goto, table, hist
<1>0. Undisturbed
  BY DEF IInv, InvTypes, Undisturbed, HandsOn
<1>1. InvTypes'
  <2>1. op' \in [Thread -> Op]
    BY OpUpdate DEF IInv, InvTypes, Results
  <2>2. QED  BY <2>1 DEF IInv, InvTypes, Places
<1>2. LockInv'   BY DEF IInv, InvTypes, LockInv, Critical
<1>3. Ids' = Ids
  BY DEF IInv, InvTypes, Ids, Flying
<1>4. InvOp'
  BY <1>0, <1>3, Quiet DEF IInv, InvTypes, InvOp, Op, Flying, Pending, HandsOn, Adding
<1>5. InvFresh' BY DEF IInv, InvFresh
<1>6. InvIds'   BY <1>0, <1>3, Quiet DEF IInv, InvIds
<1>7. InvCareful' BY <1>0, <1>3, Quiet DEF IInv, InvTypes, InvCareful, Flying
<1>8. InvStale'
  <2>1. Pending' = Pending \ {t} /\ t \in Pending
    BY DEF IInv, InvTypes, Pending
  <2>2. Cardinality(Pending') = Cardinality(Pending) - 1
    BY <2>1, PendingFinite, FS_RemoveElement
  <2>3. /\ \A s \in Slot : gen[s] \in Nat /\ Taken(s) \in {0, 1}
        /\ adds \in Nat /\ adds' = adds
    BY DEF IInv, InvTypes, Taken
  <2>4. \A s \in Slot : gen'[s] = gen[s] /\ Taken(s)' = Taken(s)
    BY <1>0, Quiet DEF Undisturbed
  <2>5. ~Careful /\ tstate # "shut" =>
           \A id \in Ids' : SlotOf(id) < tsize' => GenrOf(id) =< gen'[SlotOf(id)]
    BY <1>0, <1>3 DEF IInv, InvStale, Undisturbed
  <2>6. QED
    BY <1>0, <2>2, <2>3, <2>4, <2>5, PendingFinite DEF IInv, InvStale, Undisturbed
<1>9. InvClean' BY <1>0, Quiet DEF IInv, InvTypes, InvClean
<1>10. InvCache' BY DEF IInv, InvCache
<1>11. QED
  BY <1>0, <1>1, <1>2, <1>4, <1>5, <1>6, <1>7, <1>8, <1>9, <1>10, Quiet DEF IInv

\* A removal that matches no entry keeps the invariant.
LEMMA StepRemoveNothing ==
    ASSUME IInv, NEW t \in Thread, RemoveNothing(t)
    PROVE  IInv'
<1> USE DEF RemoveNothing, InRemove, Goto, table, hist
<1>0. Undisturbed
  BY DEF IInv, InvTypes, Undisturbed, HandsOn
<1>1. InvTypes'
  <2>1. op' \in [Thread -> Op]
    BY OpUpdate DEF IInv, InvTypes, Results
  <2>2. QED  BY <2>1 DEF IInv, InvTypes, Places
<1>2. LockInv'   BY DEF IInv, InvTypes, LockInv, Critical
<1>3. Ids' \subseteq Ids /\ Pending' = Pending
  BY DEF IInv, InvTypes, Ids, Flying, Pending
<1>4. InvOp'
  BY <1>0, <1>3, Quiet DEF IInv, InvTypes, InvOp, Op, Flying, Pending, HandsOn, InAdd, Adding
<1>5. InvFresh' BY DEF IInv, InvFresh
<1>6. InvIds'   BY <1>0, <1>3, Quiet DEF IInv, InvIds
<1>7. InvCareful' BY <1>0, <1>3, Quiet DEF IInv, InvTypes, InvCareful, Flying
<1>8. InvStale' BY <1>0, <1>3, Quiet DEF IInv, InvStale
<1>9. InvClean' BY <1>0, Quiet DEF IInv, InvTypes, InvClean
<1>10. InvCache' BY DEF IInv, InvCache
<1>11. QED
  BY <1>0, <1>1, <1>2, <1>4, <1>5, <1>6, <1>7, <1>8, <1>9, <1>10, Quiet DEF IInv

\* The test of hebi_alloc_valid keeps the invariant.
LEMMA StepValidTest ==
    ASSUME IInv, NEW t \in Thread, ValidTest(t)
    PROVE  IInv'
<1> USE DEF ValidTest, Goto, table, hist
<1>0. Undisturbed
  BY DEF IInv, InvTypes, Undisturbed, HandsOn
<1>1. InvTypes'
  <2>1. op' \in [Thread -> Op]
    BY OpUpdate DEF IInv, InvTypes, Results
  <2>2. QED  BY <2>1 DEF IInv, InvTypes, Places
<1>2. LockInv'   BY DEF IInv, InvTypes, LockInv, Critical
<1>3. Ids' \subseteq Ids /\ Pending' = Pending
  BY DEF IInv, InvTypes, Ids, Flying, Pending
<1>4. InvOp'
  BY <1>0, <1>3, Quiet DEF IInv, InvTypes, InvOp, Op, Flying, Pending, HandsOn, InAdd, Adding
<1>5. InvFresh' BY DEF IInv, InvFresh
<1>6. InvIds'   BY <1>0, <1>3, Quiet DEF IInv, InvIds
<1>7. InvCareful' BY <1>0, <1>3, Quiet DEF IInv, InvTypes, InvCareful, Flying
<1>8. InvStale' BY <1>0, <1>3, Quiet DEF IInv, InvStale
<1>9. InvClean' BY <1>0, Quiet DEF IInv, InvTypes, InvClean
<1>10. InvCache' BY DEF IInv, InvCache
<1>11. QED
  BY <1>0, <1>1, <1>2, <1>4, <1>5, <1>6, <1>7, <1>8, <1>9, <1>10, Quiet DEF IInv

\* The lookup of hebi_alloc_query keeps the invariant: what it finds for a
\* clean query is the slot of its id.
LEMMA StepQueryLookup ==
    ASSUME IInv, NEW t \in Thread, QueryLookup(t)
    PROVE  IInv'
<1> USE DEF QueryLookup, Goto, table, hist
<1>0. Undisturbed
  BY DEF IInv, InvTypes, Undisturbed, HandsOn
<1>a. /\ Lookup(op[t].id) \in Slot \cup {NoPtr}
      /\ Lookup(op[t].id) \in {NoPtr, SlotOf(op[t].id)}
      /\ Matches(op[t].id) => Lookup(op[t].id) = SlotOf(op[t].id)
  BY KeyFacts, Sizes DEF IInv, InvTypes, InvOp, Lookup, Matches, Slot
<1>1. InvTypes'
  <2>1. op' \in [Thread -> Op]
    BY <1>a, OpUpdate DEF IInv, InvTypes
  <2>2. QED  BY <2>1 DEF IInv, InvTypes, Places
<1>2. LockInv'   BY DEF IInv, InvTypes, LockInv, Critical
<1>3. Ids' \subseteq Ids /\ Pending' = Pending
  BY DEF IInv, InvTypes, Ids, Flying, Pending
<1>4. InvOp'
  BY <1>0, <1>3, <1>a, Quiet DEF IInv, InvTypes, InvOp, Op, Flying, Pending, HandsOn, InAdd, Adding
<1>5. InvFresh' BY DEF IInv, InvFresh
<1>6. InvIds'   BY <1>0, <1>3, Quiet DEF IInv, InvIds
<1>7. InvCareful' BY <1>0, <1>3, Quiet DEF IInv, InvTypes, InvCareful, Flying
<1>8. InvStale' BY <1>0, <1>3, Quiet DEF IInv, InvStale
<1>9. InvClean' BY <1>0, <1>a, Quiet DEF IInv, InvTypes, InvClean, Live
<1>10. InvCache' BY DEF IInv, InvCache
<1>11. QED
  BY <1>0, <1>1, <1>2, <1>4, <1>5, <1>6, <1>7, <1>8, <1>9, <1>10, Quiet DEF IInv

\* Reading the function through a pointer keeps the invariant.
LEMMA StepReadFn ==
    ASSUME IInv, NEW t \in Thread, ReadFn(t)
    PROVE  IInv'
<1> USE DEF ReadFn, Goto, table, hist
<1>0. Undisturbed
  BY DEF IInv, InvTypes, Undisturbed, HandsOn
<1>1. InvTypes'
  <2>1. fn[op[t].ptr] \in FnValue
    BY DEF IInv, InvTypes, Op
  <2>2. op' \in [Thread -> Op]
    BY <2>1, OpUpdate DEF IInv, InvTypes
  <2>3. QED  BY <2>2 DEF IInv, InvTypes, Places
<1>2. LockInv'   BY DEF IInv, InvTypes, LockInv, Critical
<1>3. Ids' = Ids /\ Pending' = Pending
  BY DEF IInv, InvTypes, Ids, Flying, Pending
<1>4. InvOp'
  BY <1>0, <1>3, Quiet DEF IInv, InvTypes, InvOp, Op, Flying, Pending, HandsOn, InAdd, Adding
<1>5. InvFresh' BY DEF IInv, InvFresh
<1>6. InvIds'   BY <1>0, <1>3, Quiet DEF IInv, InvIds
<1>7. InvCareful' BY <1>0, <1>3, Quiet DEF IInv, InvTypes, InvCareful, Flying
<1>8. InvStale' BY <1>0, <1>3, Quiet DEF IInv, InvStale
<1>9. InvClean' BY <1>0, Quiet DEF IInv, InvTypes, InvClean
<1>10. InvCache' BY DEF IInv, InvCache
<1>11. QED
  BY <1>0, <1>1, <1>2, <1>4, <1>5, <1>6, <1>7, <1>8, <1>9, <1>10, Quiet DEF IInv

\* Reading the argument through a pointer keeps the invariant.
LEMMA StepReadArg ==
    ASSUME IInv, NEW t \in Thread, ReadArg(t)
    PROVE  IInv'
<1> USE DEF ReadArg, Goto, table, hist
<1>0. Undisturbed
  BY DEF IInv, InvTypes, Undisturbed, HandsOn
<1>1. InvTypes'
  <2>1. arg[op[t].ptr] \in ArgValue
    BY DEF IInv, InvTypes, InvOp, Op
  <2>2. op' \in [Thread -> Op]
    BY <2>1, OpUpdate DEF IInv, InvTypes
  <2>3. QED  BY <2>2 DEF IInv, InvTypes, Places
<1>2. LockInv'   BY DEF IInv, InvTypes, LockInv, Critical
<1>3. Ids' = Ids /\ Pending' = Pending
  BY DEF IInv, InvTypes, Ids, Flying, Pending
<1>4. InvOp'
  BY <1>0, <1>3, Quiet DEF IInv, InvTypes, InvOp, Op, Flying, Pending, HandsOn, InAdd, Adding
<1>5. InvFresh' BY DEF IInv, InvFresh
<1>6. InvIds'   BY <1>0, <1>3, Quiet DEF IInv, InvIds
<1>7. InvCareful' BY <1>0, <1>3, Quiet DEF IInv, InvTypes, InvCareful, Flying
<1>8. InvStale' BY <1>0, <1>3, Quiet DEF IInv, InvStale
<1>9. InvClean' BY <1>0, Quiet DEF IInv, InvTypes, InvOp, InvClean, Live, Settled
<1>10. InvCache' BY DEF IInv, InvCache
<1>11. QED
  BY <1>0, <1>1, <1>2, <1>4, <1>5, <1>6, <1>7, <1>8, <1>9, <1>10, Quiet DEF IInv

\* The number of steps of a probe loop: the first at which it ends.
LEMMA ProbeStops ==
    ASSUME NEW c, NEW key, c.used \in Nat
    PROVE  /\ ProbeLength(c, key) \in 0 .. c.used
           /\ ProbeEnds(c, key, ProbeLength(c, key))
           /\ \A m \in 0 .. ProbeLength(c, key) - 1 : ~ProbeEnds(c, key, m)
<1> DEFINE Ends == {n \in 0 .. c.used : ProbeEnds(c, key, n)}
<1>1. Ends \subseteq Nat /\ c.used \in Ends
  BY DEF ProbeEnds
<1>2. PICK n \in Ends : \A m \in Ends : ~(<<m, n>> \in OpToRel(<, Nat))
  BY <1>1, NatLessThanWellFounded, WFMin
<1>3. \A m \in Ends : ~(m < n)
  BY <1>1, <1>2 DEF OpToRel
<1>4. ProbeEnds(c, key, n) /\ \A m \in 0 .. n - 1 : ~ProbeEnds(c, key, m)
  BY <1>1, <1>3
<1>5. QED
  BY <1>4 DEF ProbeLength

\* The hash of an id is the index of a cell.
LEMMA HashType == \A id \in Id : Hash(id) \in Cell
  BY CacheAssumption, KeyFacts, Sizes DEF Hash, Cell

\* The probe loop ends on a cell of the cache.
LEMMA ProbeCellType ==
    ASSUME IInv, NEW t \in Thread, NEW id \in Id
    PROVE  ProbeCell(cache[t], id) \in Cell
  BY ProbeStops, HashType, CacheAssumption DEF IInv, InvCache, ProbeCell, Probe, Cell

\* A cache hit answers with the pointer to the slot of its key.
LEMMA HitFacts ==
    ASSUME IInv, NEW t \in Thread, NEW id \in Id, Hit(cache[t], id)
    PROVE  cache[t].vals[ProbeCell(cache[t], id)] = SlotOf(id)
  BY ProbeCellType, KeyFacts DEF IInv, InvCache, Hit, EmptyKey

\* Entering hebi_alloc_query, with the answer from the cache or without, keeps
\* the invariant.
LEMMA StepQueryCall ==
    ASSUME IInv, NEW t \in Thread, NEW id \in Passable, QueryCall(t, id)
    PROVE  IInv'
<1> USE DEF Begin, Goto, table, hist
<1>a. id \in Id /\ id # 0 /\ (id \in known \/ (~Careful /\ SlotOf(id) = Capacity))
  BY PassableFacts
<1> DEFINE ok == Matches(id) /\ Registered(SlotOf(id))
<1>b. SlotOf(id) = Capacity => ~Matches(id)
  BY Sizes DEF IInv, InvTypes, Matches
<1>c. ok /\ tstate # "shut" => Live(id)
  BY <1>a, <1>b DEF IInv, InvIds, Ids, Live
<1> DEFINE o == [NoOp EXCEPT !.kind = "query", !.id = id, !.clean = ok]
<1>d. PICK q \in Op, where \in {"lock", "done"} :
        /\ op' = [op EXCEPT ![t] = q]
        /\ pc' = [pc EXCEPT ![t] = where]
        /\ q.kind = "query" /\ q.id = id /\ q.clean = ok
        /\ where = "lock" => q.ptr = NoPtr /\ q.res = "none"
        /\ where = "done" => q.ptr = SlotOf(id)
  <2>0. /\ o \in Op
        /\ o.kind = "query" /\ o.id = id /\ o.clean = ok /\ o.ptr = NoPtr /\ o.res = "none"
    BY <1>a, NoOpType DEF NoOp, Op, Kinds
  <2>1. CASE CacheAnswers(t, id)
    <3>1. cache[t].vals[ProbeCell(cache[t], id)] = SlotOf(id)
      BY <1>a, <2>1, HitFacts DEF CacheAnswers
    <3>2. ProbeCell(cache[t], id) \in Cell
      BY <1>a, ProbeCellType
    <3>3. SlotOf(id) \in Slot \cup {NoPtr}
      BY <3>1, <3>2 DEF IInv, InvCache
    <3> DEFINE q == [o EXCEPT !.ptr = SlotOf(id), !.res = "ok"]
    <3>4. /\ q \in Op
          /\ q.kind = "query" /\ q.id = id /\ q.clean = ok /\ q.ptr = SlotOf(id)
      BY <2>0, <3>3 DEF Op, Results
    <3>5. op' = [op EXCEPT ![t] = q] /\ pc' = [pc EXCEPT ![t] = "done"]
      BY <2>1, <3>1 DEF QueryCall
    <3>6. QED  BY <3>4, <3>5
  <2>2. CASE ~CacheAnswers(t, id)
    <3>1. op' = [op EXCEPT ![t] = o] /\ pc' = [pc EXCEPT ![t] = "lock"]
      BY <2>2 DEF QueryCall
    <3>2. QED  BY <2>0, <3>1
  <2>3. QED  BY <2>1, <2>2
<1>e. pc[t] = "idle" /\ UNCHANGED <<table, cache, hist>>
  BY DEF QueryCall
<1>0. Undisturbed
  BY <1>d, <1>e DEF IInv, InvTypes, Undisturbed, HandsOn
<1>1. InvTypes'
  <2>1. op' \in [Thread -> Op]
    BY <1>d DEF IInv, InvTypes
  <2>2. QED  BY <2>1, <1>d, <1>e DEF IInv, InvTypes, Places
<1>2. LockInv'   BY <1>d, <1>e DEF IInv, InvTypes, LockInv, Critical
<1>3. Ids' \subseteq Ids \cup {id} /\ Pending' = Pending
  BY <1>d, <1>e DEF IInv, InvTypes, Ids, Flying, Pending, NoOp
<1>f. \A u \in Thread : Adding(u) => op[u].id # id
  <2>1. CASE id \in known  BY <2>1 DEF IInv, InvOp, Ids
  <2>2. CASE SlotOf(id) = Capacity
    BY <2>2, Sizes DEF IInv, InvTypes, InvOp, InvHands, Adding, InAdd, Live, Matches
  <2>3. QED  BY <1>a, <2>1, <2>2
<1>4. InvOp'
  BY <1>0, <1>3, <1>a, <1>d, <1>e, <1>f, Quiet
  DEF IInv, InvTypes, InvOp, NoOp, Flying, Pending, HandsOn, InAdd, Adding
<1>5. InvFresh' BY <1>e DEF IInv, InvFresh
<1>6. InvIds'
  BY <1>0, <1>3, <1>a, <1>b, <1>e, Quiet DEF IInv, InvIds, Ids
<1>7. InvCareful'
  BY <1>0, <1>3, <1>a, <1>d, <1>e, Quiet DEF IInv, InvTypes, InvCareful, Flying, NoOp
<1>8. InvStale'
  BY <1>0, <1>3, <1>a, <1>e, Sizes, Quiet DEF IInv, InvTypes, InvStale, Ids
<1>9. InvClean'
  BY <1>0, <1>c, <1>d, <1>e, Quiet DEF IInv, InvTypes, InvClean, NoOp
<1>10. InvCache' BY <1>e DEF IInv, InvCache
<1>11. QED
  BY <1>0, <1>1, <1>2, <1>4, <1>5, <1>6, <1>7, <1>8, <1>9, <1>10, Quiet DEF IInv

\* A thread inside the critical section is there alone.
LEMMA Alone ==
    ASSUME IInv, NEW t \in Thread, pc[t] \in Critical
    PROVE  /\ tmutex = t /\ tstate = "active"
           /\ \A u \in Thread : u # t => pc[u] \notin Critical /\ ~HandsOn(u) /\ ~Adding(u)
<1>1. tmutex = t /\ \A u \in Thread : u # t => pc[u] \notin Critical
  BY DEF IInv, LockInv
<1>2. tstate = "active"
  BY <1>1, TableAssumption DEF IInv, InvFresh
<1>3. QED
  BY <1>1, <1>2 DEF Critical, HandsOn, Adding

\* Taking the mutex keeps the invariant.
LEMMA StepLock ==
    ASSUME IInv, NEW t \in Thread, Lock(t)
    PROVE  IInv'
<1> USE DEF Lock, Goto, hist
<1>0. Undisturbed
  BY DEF IInv, InvTypes, Undisturbed, HandsOn
<1>1. InvTypes'  BY DEF IInv, InvTypes, Places
<1>2. LockInv'   BY TableAssumption DEF IInv, InvTypes, LockInv, Critical
<1>3. Ids' = Ids /\ Pending' = Pending
  BY DEF IInv, InvTypes, Ids, Flying, Pending
<1>4. InvOp'
  BY <1>0, <1>3, Quiet DEF IInv, InvTypes, InvOp, Flying, Pending, HandsOn, InAdd, Adding
<1>5. InvFresh' BY DEF IInv, InvFresh
<1>6. InvIds'   BY <1>0, <1>3, Quiet DEF IInv, InvIds
<1>7. InvCareful' BY <1>0, <1>3, Quiet DEF IInv, InvTypes, InvCareful, Flying
<1>8. InvStale' BY <1>0, <1>3, Quiet DEF IInv, InvStale
<1>9. InvClean' BY <1>0, Quiet DEF IInv, InvTypes, InvClean
<1>10. InvCache' BY DEF IInv, InvCache
<1>11. QED
  BY <1>0, <1>1, <1>2, <1>4, <1>5, <1>6, <1>7, <1>8, <1>9, <1>10, Quiet DEF IInv

\* Storing a looked up pointer keeps every pointer of a cache with its key.
LEMMA InsertCoherent ==
    ASSUME NEW c, NEW key \in Id, NEW p \in Slot \cup {NoPtr}, p = SlotOf(key),
           c.used \in Nat, c.keys \in [Cell -> Id \cup {EmptyKey}], c.vals \in [Cell -> Slot \cup {NoPtr}],
           \A i \in Cell : c.keys[i] # EmptyKey => c.vals[i] = SlotOf(c.keys[i]),
           NEW d, d = Insert(c, key, p)
    PROVE  /\ d.used \in Nat
           /\ d.keys \in [Cell -> Id \cup {EmptyKey}]
           /\ d.vals \in [Cell -> Slot \cup {NoPtr}]
           /\ \A i \in Cell : d.keys[i] # EmptyKey => d.vals[i] = SlotOf(d.keys[i])
<1>1. PICK j : /\ d.used = UsedAfter(c)
               /\ d.keys = [KeysBefore(c) EXCEPT ![j] = key]
               /\ d.vals = [c.vals EXCEPT ![j] = p]
  BY DEF Insert
<1>2. /\ KeysBefore(c) \in [Cell -> Id \cup {EmptyKey}]
      /\ \A i \in Cell : KeysBefore(c)[i] \in {c.keys[i], EmptyKey}
  BY DEF KeysBefore, EmptyKey
<1>3. d.used \in Nat
  BY <1>1 DEF UsedAfter
<1>4. d.keys \in [Cell -> Id \cup {EmptyKey}] /\ d.vals \in [Cell -> Slot \cup {NoPtr}]
  <2>1. d.vals \in [Cell -> Slot \cup {NoPtr}]
    BY <1>1
  <2>2. d.keys \in [Cell -> Id \cup {EmptyKey}]
    BY <1>1, <1>2
  <2>3. QED  BY <2>1, <2>2
<1>5. ASSUME NEW i \in Cell, d.keys[i] # EmptyKey
      PROVE  d.vals[i] = SlotOf(d.keys[i])
  <2>1. CASE i = j
    BY <1>1, <1>2, <2>1
  <2>2. CASE i # j
    <3>1. d.keys[i] = c.keys[i] /\ d.vals[i] = c.vals[i]
      BY <1>1, <1>2, <1>5, <2>2
    <3>2. QED  BY <1>5, <3>1
  <2>3. QED  BY <2>1, <2>2
<1>6. QED
  BY <1>3, <1>4, <1>5

\* Leaving the critical section keeps the invariant: an add gives its id out, a
\* query stores its answer in the cache.
LEMMA StepUnlock ==
    ASSUME IInv, NEW t \in Thread, Unlock(t)
    PROVE  IInv'
<1> USE DEF Unlock, Goto
<1>a. pc[t] \in Critical /\ tmutex = t /\ tstate = "active"
      /\ \A u \in Thread : u # t => pc[u] \notin Critical /\ ~HandsOn(u) /\ ~Adding(u)
  BY Alone DEF Critical
<1>0. Undisturbed
  BY DEF IInv, InvTypes, Undisturbed, HandsOn
<1>b. PICK r \in Results : op' = [op EXCEPT ![t].res = r]
  BY DEF IInv, InvTypes, Op, Results
<1>c. /\ op' \in [Thread -> Op]
      /\ \A u \in Thread : u # t => op'[u] = op[u]
      /\ op'[t].kind = op[t].kind /\ op'[t].id = op[t].id /\ op'[t].cb = op[t].cb
      /\ op'[t].ptr = op[t].ptr /\ op'[t].clean = op[t].clean /\ op'[t].arg = op[t].arg
  <2> DEFINE q == [op[t] EXCEPT !.res = r]
  <2>1. op[t] \in Op /\ q \in Op
    BY OpUpdate DEF IInv, InvTypes
  <2>2. /\ q.kind = op[t].kind /\ q.id = op[t].id /\ q.cb = op[t].cb
        /\ q.ptr = op[t].ptr /\ q.clean = op[t].clean /\ q.arg = op[t].arg
    BY <2>1 DEF Op
  <2> HIDE DEF q
  <2>3. op' = [op EXCEPT ![t] = q]
    BY <1>b DEF q
  <2>4. QED  BY <2>1, <2>2, <2>3 DEF IInv, InvTypes
<1>d. known' = known \/ (Adding(t) /\ known' = known \cup {op[t].id})
  BY DEF Adding
<1>1. InvTypes'
  <2>1. known' \subseteq Id
    BY <1>d DEF IInv, InvTypes, InvOp
  <2>2. QED  BY <1>c, <2>1 DEF IInv, InvTypes, Places
<1>2. LockInv'   BY <1>a, TableAssumption DEF IInv, InvTypes, LockInv, Critical
<1>3. Ids' \subseteq Ids \cup {op[t].id} /\ (~Adding(t) => Ids' = Ids) /\ Pending' = Pending
      /\ \A u \in Thread : Flying(u)' <=> Flying(u)
  <2>1. \A u \in Thread : Flying(u)' <=> Flying(u)
    BY <1>c DEF IInv, InvTypes, Flying
  <2>2. Pending' = Pending
    BY <1>c DEF IInv, InvTypes, Pending
  <2>3. \A u \in Thread : op'[u].id = op[u].id
    BY <1>c
  <2>4. QED  BY <1>d, <2>1, <2>2, <2>3 DEF Ids, Adding
<1>e. Adding(t) => Live(op[t].id) /\ op[t].id \in Id \ Ids
  BY DEF IInv, InvOp, Adding, HandsOn, InAdd
<1>4. InvOp'
  <2>1. \A u \in Thread : ~Adding(u)'
    BY <1>a, <1>c DEF IInv, InvTypes, Adding, HandsOn, Critical
  <2>2. QED
    BY <1>0, <1>3, <1>c, <1>a, <2>1, Quiet
    DEF IInv, InvTypes, InvOp, Flying, Pending, HandsOn, InAdd, Adding, Critical
<1>5. InvFresh' BY <1>a DEF IInv, InvFresh
<1>6. InvIds'
  BY <1>0, <1>3, <1>e, Quiet DEF IInv, InvIds, Live, Matches, Undisturbed
<1>7. InvCareful'
  <2>1. \A u \in Thread : Flying(u) => op'[u] = op[u] /\ op[u].id \in Ids
    BY <1>c DEF Flying, Ids
  <2>2. QED
    BY <1>0, <1>3, <1>d, <1>e, <2>1, Quiet DEF IInv, InvCareful
<1>8. InvStale'
  <2>1. Adding(t) => GenrOf(op[t].id) =< gen[SlotOf(op[t].id)]
    BY <1>e, KeyFacts DEF Live, Matches
  <2>2. QED
    BY <1>0, <1>3, <2>1, Quiet DEF IInv, InvStale
<1>9. InvClean'
  BY <1>0, <1>c, Quiet DEF IInv, InvTypes, InvClean
<1>10. InvCache'
  <2>1. CASE op[t].kind = "query" /\ op[t].ptr # NoPtr
    <3>1. /\ cache' = [cache EXCEPT ![t] = Insert(cache[t], op[t].id, op[t].ptr)]
          /\ op[t].ptr = SlotOf(op[t].id) /\ op[t].id \in Id
          /\ op[t].ptr \in Slot \cup {NoPtr}
      BY <2>1 DEF IInv, InvTypes, InvOp, Op
    <3>2. QED  BY <3>1, InsertCoherent DEF IInv, InvCache
  <2>2. CASE ~(op[t].kind = "query" /\ op[t].ptr # NoPtr)
    BY <2>2 DEF IInv, InvCache
  <2>3. QED  BY <2>1, <2>2
<1>11. QED
  BY <1>0, <1>1, <1>2, <1>4, <1>5, <1>6, <1>7, <1>8, <1>9, <1>10, Quiet DEF IInv


-----------------------------------------------------------------------------
(* The steps that change the table, by the owner of the mutex *)

\* What taking a slot changes: the locals and the place of one thread.
LEMMA AddUpdate ==
    ASSUME IInv, NEW t \in Thread, NEW s \in Slot, Take(t, s)
    PROVE  /\ op' \in [Thread -> Op]
           /\ \A u \in Thread : u # t => op'[u] = op[u] /\ pc'[u] = pc[u]
           /\ op'[t].kind = op[t].kind /\ op'[t].cb = op[t].cb /\ op'[t].res = op[t].res
           /\ op'[t].ptr = op[t].ptr
           /\ op'[t].id = KeyOf(s) /\ KeyOf(s) \in Id /\ SlotOf(KeyOf(s)) = s
           /\ GenrOf(KeyOf(s)) = gen[s]
           /\ pc'[t] = "write_fn" /\ pc' \in [Thread -> Places]
<1> DEFINE q == [op[t] EXCEPT !.id = KeyOf(s)]
<1>1. KeyOf(s) \in Id /\ SlotOf(KeyOf(s)) = s /\ GenrOf(KeyOf(s)) = gen[s]
  BY KeyFacts, Sizes DEF IInv, InvTypes, KeyOf, Slot
<1>2. op[t] \in Op /\ q \in Op
  BY <1>1, OpUpdate DEF IInv, InvTypes
<1>3. /\ q.kind = op[t].kind /\ q.cb = op[t].cb /\ q.res = op[t].res
      /\ q.ptr = op[t].ptr /\ q.id = KeyOf(s)
  BY <1>2 DEF Op
<1> HIDE DEF q
<1>4. op' = [op EXCEPT ![t] = q]
  BY DEF Take, q
<1>5. pc' = [pc EXCEPT ![t] = "write_fn"]
  BY DEF Take, Goto
<1>6. QED  BY <1>1, <1>2, <1>3, <1>4, <1>5 DEF IInv, InvTypes, Places

\* A step of t that takes slot s, wherever it comes from.
Takes(t, s) ==
    /\ InAdd(t, "locked") /\ Take(t, s)
    /\ UNCHANGED <<tstate, tmutex, gen, fn, arg, cache, known, adds>>
    /\ tfreelist' \in Slot \cup {ListEnd} /\ freed' \in Seq(Slot)
    /\ \E p \in 0 .. MaxPages : tresv' = p * PageSize
    /\ tsize' \in 0 .. Capacity /\ s < tsize'
    /\ tsize' = tsize \/ (tsize' = tsize + 1 /\ s = tsize)
    /\ fn[s] \in {Zeroed, Invalid}
    /\ \A i \in 1 .. Len(freed') : freed'[i] # s
    /\ \A r \in Slot : r # s =>
          ((\E i \in 1 .. Len(freed) : freed[i] = r) => (\E i \in 1 .. Len(freed') : freed'[i] = r))

\* Taking a slot that is not in use keeps the invariant, popped or appended.
LEMMA TakeKeeps ==
    ASSUME IInv, NEW t \in Thread, NEW s \in Slot, Takes(t, s),
           FreeListOK', SlotsAccounted'
    PROVE  IInv'
<1> USE DEF Takes
<1>a. /\ pc[t] = "locked" /\ op[t].kind = "add" /\ op[t].cb \in Callback /\ t \in Pending
      /\ op[t].res = "none"
  BY DEF IInv, InvOp, InAdd, Pending
<1>b. /\ tmutex = t /\ tstate = "active"
      /\ \A u \in Thread : pc[u] \in Critical => u = t
      /\ \A u \in Thread : ~HandsOn(u) /\ ~Adding(u)
  BY <1>a, Alone DEF Critical, HandsOn, Adding
<1>c. /\ op' \in [Thread -> Op]
      /\ \A u \in Thread : u # t => op'[u] = op[u] /\ pc'[u] = pc[u]
      /\ op'[t].kind = "add" /\ op'[t].cb = op[t].cb
      /\ op'[t].id = KeyOf(s) /\ KeyOf(s) \in Id /\ SlotOf(KeyOf(s)) = s
      /\ GenrOf(KeyOf(s)) = gen[s]
      /\ pc'[t] = "write_fn" /\ pc' \in [Thread -> Places]
  BY <1>a, AddUpdate
<1>d. fn[s] \notin Callback
  BY TableAssumption
<1>1. InvTypes'
  <2>1. tused' \in Int
    BY DEF IInv, InvTypes, Take
  <2>2. QED  BY <1>c, <2>1 DEF IInv, InvTypes
<1>2. LockInv'   BY <1>a, <1>b, <1>c DEF IInv, LockInv, Critical
<1>3. \A u \in Thread : Flying(u)' <=> Flying(u)
  BY <1>a, <1>c DEF Flying
<1>4. Ids' = Ids
  <2>1. \A u \in Thread : Flying(u) => op'[u].id = op[u].id
    BY <1>a, <1>c DEF Flying
  <2>2. QED  BY <1>3, <2>1 DEF Ids
<1>5. \A u \in Thread : \A r : Holding(u, r)' <=> u = t /\ r = s
  BY <1>b, <1>c DEF Holding, HandsOn
<1>6. \A u \in Thread : \A r : ~Holding(u, r)
  BY <1>b DEF Holding
<1>7. \A r \in Slot : Settled(r)' <=> Settled(r)
  <2>1. ~Settled(s) /\ ~Settled(s)'
    BY <1>d DEF Settled
  <2>2. ASSUME NEW r \in Slot, r # s  PROVE r < tsize' <=> r < tsize
    BY <2>2, Sizes DEF IInv, InvTypes, Slot
  <2>3. \A r \in Slot : r # s => (Settled(r)' <=> Settled(r))
    BY <1>5, <1>6, <2>2 DEF Settled
  <2>4. QED  BY <2>1, <2>3
<1>8. \A id \in Ids : SlotOf(id) # s \/ ~Matches(id)'
  <2>1. ASSUME NEW id \in Ids, SlotOf(id) = s  PROVE ~Matches(id)'
    <3>1. s < tsize \/ s = Capacity
      BY <1>b, <2>1 DEF IInv, InvIds
    <3>2. s < tsize
      BY <3>1, Sizes DEF Slot
    <3>3. ~Matches(id)
      BY <1>b, <1>d, <2>1 DEF IInv, InvIds, Settled
    <3>4. QED  BY <2>1, <3>2, <3>3 DEF Matches
  <2>2. QED  BY <2>1
<1>9. \A id \in Id : Live(id) => Live(id)' /\ SlotOf(id) # s
  <2>1. ASSUME NEW id \in Id, Live(id)  PROVE Live(id)' /\ SlotOf(id) # s
    <3>0. SlotOf(id) < tsize /\ fn[SlotOf(id)] \in Callback
      BY <2>1 DEF Live, Matches, Settled
    <3>1. SlotOf(id) \in Slot /\ SlotOf(id) # s
      BY <1>d, <3>0, KeyFacts, Bounds DEF IInv, InvTypes
    <3>2. Matches(id)'
      BY <2>1, <3>1, Sizes DEF IInv, InvTypes, Live, Matches, Slot
    <3>3. QED  BY <1>7, <2>1, <3>1, <3>2 DEF Live
  <2>2. QED  BY <2>1
<1>10. Ids \subseteq Id
  BY DEF IInv, InvTypes, InvOp, Ids
<1>11. KeyOf(s) \notin Ids
  BY <1>8, <1>c DEF Matches
<1>12. Pending' = Pending \ {t}
  BY <1>a, <1>c DEF Pending
<1>13. InvOp'
  <2>1. \A u \in Thread : Adding(u)' => u = t
    BY <1>b, <1>c DEF Adding, HandsOn
  <2>2. ASSUME NEW u \in Thread
        PROVE (InAdd(u, "unlock") /\ op[u].res = "ok")' => FALSE
    BY <1>b, <1>c DEF InAdd, Critical
  <2>3. QED
    BY <1>a, <1>b, <1>c, <1>3, <1>4, <1>11, <1>12, <2>1, <2>2
    DEF IInv, InvOp, Flying, HandsOn
<1>14. InvHands'
  <2>1. \A u \in Thread : HandsOn(u)' => u = t
    BY <1>b, <1>c DEF HandsOn
  <2>2. s \in 0 .. tsize' - 1
    BY Bounds
  <2>3. KeyOf(s)' = KeyOf(s) /\ tstate' = "active"
    BY <1>b DEF KeyOf
  <2>4. QED
    BY <1>a, <1>c, <2>1, <2>2, <2>3 DEF InvHands, InAdd, InRemove
<1>15. InvSlots'
  <2>1. ASSUME NEW r \in Slot, r < tsize', r # s
        PROVE  Settled(r)' \/ \E i \in 1 .. Len(freed') : freed'[i] = r
    <3>1. r < tsize
      BY <2>1, Sizes DEF IInv, InvTypes, Slot
    <3>2. QED  BY <1>6, <1>7, <2>1, <3>1 DEF IInv, InvSlots
  <2>2. Holding(t, s)'
    BY <1>5
  <2>3. QED  BY <2>1, <2>2 DEF InvSlots
<1>16. InvFresh'
  <2>1. \A r \in Slot : r >= tsize' => r >= tsize
    BY Sizes DEF IInv, InvTypes, Slot
  <2>2. QED  BY <1>b, <2>1 DEF IInv, InvFresh
<1>17. InvIds'
  <2>1. ASSUME NEW id \in Ids
        PROVE  /\ SlotOf(id) < tsize' \/ SlotOf(id) = Capacity
               /\ Matches(id)' => Settled(SlotOf(id))'
    <3>1. id \in Id
      BY <1>10
    <3>2. SlotOf(id) \in 0 .. Capacity
      BY <3>1, KeyFacts
    <3>3. SlotOf(id) < tsize \/ SlotOf(id) = Capacity
      BY <1>b DEF IInv, InvIds
    <3>4. SlotOf(id) < tsize' \/ SlotOf(id) = Capacity
      BY <3>2, <3>3 DEF IInv, InvTypes
    <3>5. ASSUME Matches(id)'  PROVE Settled(SlotOf(id))'
      <4>1. SlotOf(id) # s
        BY <1>8, <3>5
      <4>2. Matches(id) /\ SlotOf(id) \in Slot
        BY <3>2, <3>3, <3>5, <4>1, Sizes, SMTT(30) DEF IInv, InvTypes, Matches, Slot
      <4>3. QED  BY <1>7, <1>b, <4>2 DEF IInv, InvIds
    <3>6. QED  BY <3>4, <3>5
  <2>2. QED  BY <1>4, <2>1 DEF InvIds
<1>18. InvCareful'
  <2>1. \A u \in Thread : Flying(u) => op'[u] = op[u]
    BY <1>a, <1>c DEF Flying
  <2>2. known \subseteq Ids /\ \A u \in Thread : Flying(u) => op[u].id \in Ids
    BY DEF Ids
  <2>3. QED
    BY <1>b, <1>3, <1>9, <1>10, <2>1, <2>2 DEF IInv, InvCareful
<1>19. InvStale'
  <2>1. Cardinality(Pending') = Cardinality(Pending) - 1
    BY <1>a, <1>12, PendingFinite, FS_RemoveElement
  <2>2. \A r \in Slot : Taken(r)' =< Taken(r) + 1 /\ Taken(r) \in {0, 1} /\ Taken(r)' \in {0, 1}
    BY DEF Taken
  <2>3. ASSUME ~Careful, NEW id \in Ids, SlotOf(id) < tsize'
        PROVE  GenrOf(id) =< gen[SlotOf(id)]
    <3>1. SlotOf(id) < tsize \/ SlotOf(id) = Capacity
      BY <1>b DEF IInv, InvIds
    <3>2. SlotOf(id) < tsize
      BY <3>1, <2>3, Sizes DEF IInv, InvTypes
    <3>3. QED  BY <1>b, <2>3, <3>2 DEF IInv, InvStale
  <2>4. ASSUME ~Careful, NEW r \in Slot
        PROVE  gen[r] + Taken(r)' + Cardinality(Pending') =< adds
    <3>1. gen[r] + Taken(r) + Cardinality(Pending) =< adds
      BY <1>b, <2>4 DEF IInv, InvStale
    <3>2. gen[r] \in Nat /\ adds \in Nat
      BY DEF IInv, InvTypes
    <3>3. QED  BY <2>1, <2>2, <3>1, <3>2, PendingFinite, SMTT(30)
  <2>5. QED  BY <1>4, <2>3, <2>4 DEF InvStale
<1>20. InvClean'
  <2>1. ASSUME NEW u \in Thread, op'[u].kind = "query"
        PROVE  u # t /\ op'[u] = op[u] /\ pc'[u] = pc[u]
    BY <1>c, <2>1
  <2>2. \A u \in Thread : op[u].kind = "query" => op[u].id \in Id
    BY DEF IInv, InvOp
  <2>3. QED
    BY <1>b, <1>9, <2>1, <2>2 DEF IInv, InvClean
<1>21. InvCache'   BY DEF IInv, InvCache
<1>22. QED
  BY <1>1, <1>2, <1>13, <1>14, <1>15, <1>16, <1>17, <1>18, <1>19, <1>20, <1>21 DEF IInv


\* The positions of a free list that loses its last element.
LEMMA Predecessor ==
    \A n \in Nat \ {0} :
        /\ (IF 1 <= n - 1 THEN n - 1 - 1 + 1 ELSE 0) = n - 1 /\ n - 1 - 1 + 1 = n - 1
        /\ n # 1 => n - 1 \in 1 .. n
  OBVIOUS

\* Popping the free list keeps the invariant.
LEMMA StepAddPop ==
    ASSUME IInv, NEW t \in Thread, AddPop(t)
    PROVE  IInv'
<1> DEFINE n == Len(freed)
           s == tfreelist
<1>z. freed \in Seq(Slot)
  BY DEF IInv, InvTypes
<1>a. n \in Nat /\ \A i \in 1 .. n : freed[i] \in Slot
  BY <1>z
<1>b. s \in Slot /\ s < tsize /\ n > 0 /\ s = freed[n]
  BY <1>z, <1>a, Bounds, Sizes DEF IInv, InvTypes, FreeListOK, AddPop, ListEnd
<1>n. n \in Nat \ {0}
  BY <1>a, <1>b
<1>c. /\ freed' \in Seq(Slot) /\ Len(freed') = n - 1
      /\ \A i \in 1 .. n - 1 : freed'[i] = freed[i]
  <2>1. freed' = SubSeq(freed, 1, n - 1)
    BY DEF AddPop
  <2>2. \A i \in 1 .. n - 1 : freed[i] \in Slot
    BY <1>a
  <2>3. /\ SubSeq(freed, 1, n - 1) \in Seq(Slot)
        /\ Len(SubSeq(freed, 1, n - 1)) = IF 1 <= n - 1 THEN n - 1 - 1 + 1 ELSE 0
        /\ \A i \in 1 .. n - 1 - 1 + 1 : SubSeq(freed, 1, n - 1)[i] = freed[1 + i - 1]
    BY <1>a, <2>2, SubSeqProperties
  <2>4. (IF 1 <= n - 1 THEN n - 1 - 1 + 1 ELSE 0) = n - 1 /\ n - 1 - 1 + 1 = n - 1
    BY <1>n, Predecessor
  <2>5. \A i \in 1 .. n - 1 : 1 + i - 1 = i
    BY <1>a
  <2>6. QED  BY <2>1, <2>3, <2>4, <2>5
<1>d. /\ fn[s] = Invalid
      /\ arg[s] = IF n = 1 THEN ListEnd ELSE freed[n - 1]
      /\ \A i \in 1 .. n - 1 : freed[i] # s
  <2>1. n \in 1 .. Len(freed)
    BY <1>a, <1>b
  <2>2. FreeListOK
    BY DEF IInv
  <2>3. /\ fn[freed[n]] = Invalid
        /\ arg[freed[n]] = IF n = 1 THEN ListEnd ELSE freed[n - 1]
        /\ \A j \in 1 .. n - 1 : freed[j] # freed[n]
    BY <2>1, <2>2 DEF FreeListOK
  <2>4. QED  BY <1>b, <2>3
<1>e. arg[s] \in Slot \cup {ListEnd}
  <2>1. n # 1 => n - 1 \in 1 .. n
    BY <1>a, <1>b, Predecessor
  <2>2. n # 1 => freed[n - 1] \in Slot
    BY <1>a, <2>1
  <2>3. QED  BY <1>d, <2>2
<1>1. Takes(t, s)
  <2>1. \A i \in 1 .. Len(freed') : freed'[i] # s
    BY <1>c, <1>d
  <2>2. ASSUME NEW r \in Slot, r # s, NEW i \in 1 .. n, freed[i] = r
        PROVE  \E k \in 1 .. Len(freed') : freed'[k] = r
    <3>1. i \in 1 .. n - 1
      BY <1>a, <1>b, <2>2
    <3>2. QED  BY <1>c, <2>2, <3>1
  <2>3. QED
    BY <1>b, <1>c, <1>d, <1>e, <2>1, <2>2 DEF IInv, InvTypes, Takes, AddPop, PoppedList
<1>2. FreeListOK'
  <2>1. tfreelist' = IF freed' = <<>> THEN ListEnd ELSE freed'[Len(freed')]
    <3>1. tfreelist' = IF n = 1 THEN ListEnd ELSE freed[n - 1]
      BY <1>d DEF AddPop, PoppedList
    <3>2. freed' = <<>> <=> n = 1
      BY <1>a, <1>b, <1>c
    <3>3. n # 1 => freed'[n - 1] = freed[n - 1]
      BY <1>a, <1>b, <1>c
    <3>4. QED  BY <1>c, <3>1, <3>2, <3>3
  <2>2. ASSUME NEW i \in 1 .. Len(freed')
        PROVE  /\ freed'[i] < tsize'
               /\ fn'[freed'[i]] = Invalid
               /\ arg'[freed'[i]] = IF i = 1 THEN ListEnd ELSE freed'[i - 1]
               /\ \A j \in 1 .. i - 1 : freed'[j] # freed'[i]
    <3>1. i \in 1 .. n /\ freed'[i] = freed[i] /\ \A j \in 1 .. i - 1 : freed'[j] = freed[j]
      BY <1>a, <1>b, <1>c
    <3>2. i # 1 => i - 1 \in 1 .. i - 1
      BY <1>a
    <3>3. QED  BY <3>1, <3>2 DEF IInv, FreeListOK, AddPop
  <2>3. QED  BY <2>1, <2>2 DEF FreeListOK
<1>3. SlotsAccounted'
  <2>1. \A u \in Thread : u # t => ~HandsOn(u)
    BY Alone DEF AddPop, InAdd, Critical
  <2>2. /\ \A u \in Thread : u # t => op'[u] = op[u] /\ pc'[u] = pc[u]
        /\ op[t].kind = "add" /\ op'[t].kind = "add"
    BY <1>b, AddUpdate DEF AddPop, InAdd
  <2>3. InTransit = 0 /\ InTransit' = 0
    BY <2>1, <2>2 DEF InTransit, InRemove, HandsOn
  <2>4. /\ tsize =< tresv /\ tsize = tused + n + InTransit
        /\ tused \in Int /\ tsize' = tsize /\ tresv' = tresv /\ tused' = tused + 1
    BY DEF IInv, InvTypes, SlotsAccounted, AddPop, Take
  <2>5. QED
    BY <1>a, <1>c, <2>3, <2>4 DEF SlotsAccounted
<1>4. QED  BY <1>1, <1>2, <1>3, <1>b, TakeKeeps

\* The capacity counted in pages.
LEMMA Pages ==
    ASSUME NEW p \in 0 .. MaxPages
    PROVE  /\ p * PageSize \in 0 .. Capacity
           /\ (p * PageSize) \div PageSize = p
           /\ (p + 1) * PageSize = p * PageSize + PageSize
           /\ p < MaxPages => p * PageSize + PageSize =< Capacity
<1> USE TableAssumption DEF Capacity
<1>1. p \in Nat /\ MaxPages - p \in Nat /\ PageSize \in Nat \ {0} /\ MaxPages \in Nat
  OBVIOUS
<1>2. MaxPages * PageSize = p * PageSize + (MaxPages - p) * PageSize
  BY <1>1
<1>3. p * PageSize \in Nat /\ (MaxPages - p) * PageSize \in Nat
  BY <1>1
<1>4. p < MaxPages => (MaxPages - p) * PageSize >= PageSize
  BY <1>1
<1>5. (p + 1) * PageSize = p * PageSize + PageSize
  BY <1>1
<1>6. (p * PageSize) \div PageSize = p
  BY <1>1
<1>7. QED
  BY <1>1, <1>2, <1>3, <1>4, <1>5, <1>6

\* Appending a slot, with a new page or without, keeps the invariant.
LEMMA StepAddAppend ==
    ASSUME IInv, NEW t \in Thread, AddAppend(t)
    PROVE  IInv'
<1> DEFINE s == tsize
<1>a. PICK p \in 0 .. MaxPages : tresv = p * PageSize
  BY DEF IInv, InvTypes
<1>b. PICK q \in 0 .. MaxPages : tresv' = q * PageSize /\ s < tresv'
  <2>1. CASE NeedsPage
    <3>1. p < MaxPages
      BY <1>a, <2>1, Pages DEF AddAppend, PagesLeft
    <3>2. tresv' = (p + 1) * PageSize /\ p + 1 \in 0 .. MaxPages
      BY <1>a, <2>1, <3>1, Pages, TableAssumption DEF AddAppend
    <3>3. s < tresv'
      BY <1>a, <3>2, Pages, TableAssumption DEF IInv, InvTypes, SlotsAccounted
    <3>4. QED  BY <3>2, <3>3
  <2>2. CASE ~NeedsPage
    BY <1>a, <2>2, Pages, Sizes DEF AddAppend, NeedsPage, IInv, InvTypes
  <2>3. QED  BY <2>1, <2>2
<1>c. s \in Slot /\ tsize' = s + 1 /\ tsize' \in 0 .. Capacity
  BY <1>b, Pages, Bounds, Sizes DEF AddAppend, IInv, InvTypes, Slot
<1>d. tstate = "active"
  BY Alone DEF AddAppend, InAdd, Critical
<1>e. fn[s] = Zeroed
  <2>1. s >= tsize
    BY <1>c, Sizes DEF Slot
  <2>2. QED  BY <1>c, <1>d, <2>1 DEF IInv, InvFresh
<1>1. Takes(t, s)
  <2>1. \A i \in 1 .. Len(freed') : freed'[i] # s
    BY <1>c DEF IInv, InvTypes, FreeListOK, AddAppend, hist
  <2>2. QED
    BY <1>b, <1>c, <1>e, <2>1 DEF IInv, InvTypes, Takes, AddAppend, hist
<1>2. FreeListOK'
  <2>1. UNCHANGED <<tfreelist, freed, fn, arg>> /\ FreeListOK /\ freed \in Seq(Slot)
    BY DEF IInv, InvTypes, AddAppend, hist
  <2>2. \A r \in Slot : r < tsize => r < tsize'
    BY <1>c, Sizes DEF Slot
  <2>3. \A i \in 1 .. Len(freed) : freed[i] \in Slot
    BY <2>1
  <2>4. QED  BY <2>1, <2>2, <2>3 DEF FreeListOK
<1>3. SlotsAccounted'
  <2>1. \A u \in Thread : u # t => ~HandsOn(u)
    BY Alone DEF AddAppend, InAdd, Critical
  <2>2. /\ \A u \in Thread : u # t => op'[u] = op[u] /\ pc'[u] = pc[u]
        /\ op[t].kind = "add" /\ op'[t].kind = "add"
    BY <1>c, AddUpdate DEF AddAppend, InAdd
  <2>3. InTransit = 0 /\ InTransit' = 0
    BY <2>1, <2>2 DEF InTransit, InRemove, HandsOn
  <2>4. tsize' =< tresv'
    <3>1. q * PageSize \in Nat /\ s \in Nat
      BY <1>c, Pages, Sizes
    <3>2. QED  BY <1>b, <1>c, <3>1
  <2>5. QED
    BY <1>c, <2>3, <2>4 DEF IInv, InvTypes, SlotsAccounted, AddAppend, Take, hist
<1>4. QED  BY <1>1, <1>2, <1>3, <1>c, TakeKeeps


\* The owner of the mutex is storing into a slot: what the others are not doing.
LEMMA InHand ==
    ASSUME IInv, NEW t \in Thread, HandsOn(t)
    PROVE  /\ tmutex = t /\ tstate = "active"
           /\ SlotOf(op[t].id) \in Slot /\ SlotOf(op[t].id) < tsize
           /\ \A u \in Thread : u # t => ~HandsOn(u) /\ ~Adding(u) /\ pc[u] \notin Critical
           /\ \A r : Settled(r) => r # SlotOf(op[t].id)
           /\ op[t].kind \in {"add", "remove"} /\ ~Flying(t) /\ t \notin Pending
<1>1. pc[t] \in Critical
  BY DEF HandsOn, Critical
<1>2. SlotOf(op[t].id) \in 0 .. tsize - 1
  BY DEF IInv, InvHands
<1>3. SlotOf(op[t].id) \in Slot /\ SlotOf(op[t].id) < tsize
  BY <1>2, Sizes DEF IInv, InvTypes, Slot
<1>4. \A r : Settled(r) => r # SlotOf(op[t].id)
  BY DEF Settled, Holding
<1>5. op[t].kind \in {"add", "remove"} /\ ~Flying(t) /\ t \notin Pending
  BY DEF IInv, InvOp, HandsOn, Flying, Pending
<1>6. QED  BY <1>1, <1>3, <1>4, <1>5, Alone

\* The first store into a slot in hand.
Rewrites(t, v) ==
    /\ pc[t] = "write_fn"
    /\ v \in FnValue
    /\ fn' = [fn EXCEPT ![SlotOf(op[t].id)] = v]
    /\ Goto(t, "write_arg")
    /\ UNCHANGED <<tstate, tmutex, tfreelist, tsize, tused, tresv, gen, arg, cache, op, hist>>

\* Storing a function in the slot in hand keeps the invariant.
LEMMA RewriteKeeps ==
    ASSUME IInv, NEW t \in Thread, NEW v, Rewrites(t, v), InvHands'
    PROVE  IInv'
<1> USE DEF Rewrites, Goto, hist
<1> DEFINE s == SlotOf(op[t].id)
<1>a. HandsOn(t)
  BY DEF HandsOn
<1>b. /\ tmutex = t /\ tstate = "active"
      /\ s \in Slot /\ s < tsize
      /\ \A u \in Thread : u # t => ~HandsOn(u) /\ ~Adding(u) /\ pc[u] \notin Critical
      /\ \A r : Settled(r) => r # s
      /\ op[t].kind \in {"add", "remove"} /\ ~Flying(t) /\ t \notin Pending
  BY <1>a, InHand
<1>c. /\ fn' \in [Slot -> FnValue]
      /\ \A r \in Slot : r # s => fn'[r] = fn[r]
      /\ pc' \in [Thread -> Places] /\ pc'[t] = "write_arg"
      /\ \A u \in Thread : u # t => pc'[u] = pc[u]
  BY <1>b DEF IInv, InvTypes, Places
<1> HIDE DEF s
<1>1. InvTypes'  BY <1>c DEF IInv, InvTypes
<1>2. LockInv'   BY <1>b, <1>c DEF IInv, LockInv, Critical
<1>3. \A u \in Thread : HandsOn(u)' <=> HandsOn(u)
  BY <1>a, <1>c DEF HandsOn
<1>4. \A u \in Thread : \A r : Holding(u, r)' <=> Holding(u, r)
  BY <1>3 DEF Holding
<1>5. \A r \in Slot : Settled(r)' <=> Settled(r)
  <2>1. \A r \in Slot : r = s => ~Settled(r) /\ ~Settled(r)'
    BY <1>a, <1>4 DEF Settled, Holding, s
  <2>2. \A r \in Slot : r # s => (Settled(r)' <=> Settled(r))
    BY <1>c, <1>4 DEF Settled
  <2>3. QED  BY <2>1, <2>2
<1>6. Ids' = Ids /\ Pending' = Pending /\ \A u \in Thread : Flying(u)' <=> Flying(u)
  BY <1>a, <1>b, <1>c DEF HandsOn, Ids, Flying, Pending
<1>7. \A id : Matches(id)' <=> Matches(id)
  BY DEF Matches
<1>8. \A id \in Id : Matches(id) => SlotOf(id) \in Slot
  BY KeyFacts, Bounds DEF IInv, InvTypes, Matches
<1>9. \A id \in Id : Live(id)' <=> Live(id)
  BY <1>5, <1>7, <1>8 DEF Live
<1>10. InvOp'
  <2>1. \A u \in Thread : Adding(u)' => Adding(u)
    BY <1>3, <1>c DEF Adding
  <2>2. ASSUME NEW u \in Thread, (InAdd(u, "unlock") /\ op[u].res = "ok")'  PROVE FALSE
    BY <1>b, <1>c, <2>2 DEF InAdd, Critical
  <2>3. QED
    BY <1>b, <1>c, <1>3, <1>6, <2>1, <2>2 DEF IInv, InvOp, HandsOn, Flying
<1>11. FreeListOK'
  <2>1. \A i \in 1 .. Len(freed) : freed[i] # s
    BY <1>a DEF IInv, InvHands, s
  <2>2. \A i \in 1 .. Len(freed) : freed[i] \in Slot
    BY DEF IInv, InvTypes
  <2>3. QED  BY <1>c, <2>1, <2>2 DEF IInv, FreeListOK
<1>12. InvSlots'   BY <1>4, <1>5 DEF IInv, InvSlots
<1>13. SlotsAccounted'
  <2>1. InTransit' = InTransit
    BY <1>c DEF InTransit, InRemove
  <2>2. QED  BY <2>1 DEF IInv, SlotsAccounted
<1>14. InvFresh'
  <2>1. \A r \in Slot : r >= tsize => r # s
    BY <1>b, Sizes DEF IInv, InvTypes
  <2>2. QED  BY <1>b, <1>c, <2>1 DEF IInv, InvFresh
<1>15. Ids \subseteq Id
  BY DEF IInv, InvTypes, InvOp, Ids
<1>16. InvIds'     BY <1>5, <1>6, <1>7, <1>8, <1>15 DEF IInv, InvIds
<1>17. InvCareful'
  <2>1. known \subseteq Ids /\ \A u \in Thread : Flying(u) => op[u].id \in Ids
    BY DEF Ids
  <2>2. QED  BY <1>6, <1>9, <1>15, <2>1 DEF IInv, InvCareful
<1>18. InvStale'
  <2>1. \A r \in Slot : Taken(r)' = Taken(r)
    BY <1>4, <1>5 DEF Taken
  <2>2. QED  BY <1>6, <2>1 DEF IInv, InvStale
<1>19. InvClean'
  <2>1. ASSUME NEW u \in Thread, op[u].kind = "query", Live(op[u].id)
        PROVE  /\ op[u].id \in Id /\ Live(op[u].id)'
               /\ fn'[SlotOf(op[u].id)] = fn[SlotOf(op[u].id)]
               /\ u # t
    BY <1>8, <1>9, <1>b, <1>c, <2>1 DEF IInv, InvOp, Live
  <2>2. QED  BY <1>c, <2>1 DEF IInv, InvClean
<1>20. InvCache'   BY DEF IInv, InvCache
<1>21. QED
  BY <1>1, <1>2, <1>10, <1>11, <1>12, <1>13, <1>14, <1>16, <1>17, <1>18, <1>19, <1>20 DEF IInv

\* The store of the functions of an add keeps the invariant.
LEMMA StepAddWriteFn ==
    ASSUME IInv, NEW t \in Thread, AddWriteFn(t)
    PROVE  IInv'
<1> DEFINE s == SlotOf(op[t].id)
<1>1. HandsOn(t)
  BY DEF AddWriteFn, InAdd, HandsOn
<1>2. /\ s \in Slot /\ tstate = "active" /\ s \in 0 .. tsize - 1
      /\ \A u \in Thread : u # t => ~HandsOn(u)
      /\ \A i \in 1 .. Len(freed) : freed[i] # s
      /\ op[t].cb \in Callback /\ op[t].id = KeyOf(s)
  BY <1>1, InHand DEF AddWriteFn, InAdd, IInv, InvHands
<1>3. Rewrites(t, op[t].cb)
  BY <1>2 DEF AddWriteFn, InAdd, Rewrites, FnValue
<1>4. /\ fn'[s] = op[t].cb /\ pc'[t] = "write_arg"
      /\ \A u \in Thread : u # t => pc'[u] = pc[u]
  BY <1>2 DEF AddWriteFn, Goto, IInv, InvTypes
<1>5. InvHands'
  BY <1>2, <1>4 DEF AddWriteFn, hist, InAdd, InRemove, InvHands, HandsOn, KeyOf
<1>6. QED  BY <1>3, <1>5, RewriteKeeps

\* The store of the invalid functions by a removal keeps the invariant.
LEMMA StepRemoveWriteFn ==
    ASSUME IInv, NEW t \in Thread, RemoveWriteFn(t)
    PROVE  IInv'
<1> DEFINE s == SlotOf(op[t].id)
<1>1. HandsOn(t)
  BY DEF RemoveWriteFn, InRemove, HandsOn
<1>2. /\ s \in Slot /\ tstate = "active" /\ s \in 0 .. tsize - 1
      /\ \A u \in Thread : u # t => ~HandsOn(u)
      /\ \A i \in 1 .. Len(freed) : freed[i] # s
  BY <1>1, InHand DEF IInv, InvHands
<1>3. Rewrites(t, Invalid)
  BY DEF RemoveWriteFn, InRemove, Rewrites, FnValue
<1>4. /\ fn'[s] = Invalid /\ pc'[t] = "write_arg"
      /\ \A u \in Thread : u # t => pc'[u] = pc[u]
  BY <1>2 DEF RemoveWriteFn, Goto, IInv, InvTypes
<1>5. InvHands'
  BY <1>2, <1>4 DEF RemoveWriteFn, hist, InAdd, InRemove, InvHands, HandsOn, KeyOf
<1>6. QED  BY <1>3, <1>5, RewriteKeeps


\* The store that completes an add settles its slot and keeps the invariant.
LEMMA StepAddWriteArg ==
    ASSUME IInv, NEW t \in Thread, AddWriteArg(t)
    PROVE  IInv'
<1> USE DEF AddWriteArg, Goto, hist
<1>a. HandsOn(t) /\ pc[t] = "write_arg" /\ op[t].kind = "add"
  BY DEF InAdd, HandsOn
<1>b. PICK s \in Slot :
        /\ s = SlotOf(op[t].id) /\ tmutex = t /\ tstate = "active" /\ s < tsize
        /\ \A u \in Thread : u # t => ~HandsOn(u) /\ ~Adding(u) /\ pc[u] \notin Critical
        /\ ~Settled(s) /\ ~Flying(t) /\ t \notin Pending
  BY <1>a, InHand
<1>c. /\ fn[s] = op[t].cb /\ op[t].cb \in Callback /\ op[t].id = KeyOf(s)
      /\ \A i \in 1 .. Len(freed) : freed[i] # s
  BY <1>a, <1>b DEF IInv, InvHands, InAdd
<1>d. op[t] \in Op /\ [op[t] EXCEPT !.res = "ok"] \in Op
  BY OpUpdate DEF IInv, InvTypes, Results
<1>e. /\ op' \in [Thread -> Op]
      /\ \A u \in Thread : u # t => op'[u] = op[u]
      /\ op'[t].kind = "add" /\ op'[t].id = op[t].id
  <2> DEFINE q == [op[t] EXCEPT !.res = "ok"]
  <2>1. q.kind = "add" /\ q.id = op[t].id
    BY <1>a, <1>d DEF Op
  <2>2. op' = [op EXCEPT ![t] = q]
    OBVIOUS
  <2> HIDE DEF q
  <2>3. QED  BY <1>d, <2>1, <2>2 DEF IInv, InvTypes, q
<1>f. /\ arg' \in [Slot -> ArgValue] /\ arg'[s] = op[t].cb
      /\ \A r \in Slot : r # s => arg'[r] = arg[r]
      /\ pc' \in [Thread -> Places] /\ pc'[t] = "unlock"
      /\ \A u \in Thread : u # t => pc'[u] = pc[u]
  BY <1>b, <1>c DEF IInv, InvTypes, Places, ArgValue
<1>1. InvTypes'  BY <1>e, <1>f DEF IInv, InvTypes
<1>2. LockInv'   BY <1>b, <1>f DEF IInv, LockInv, Critical
<1>3. \A u \in Thread : ~HandsOn(u)' /\ \A r : ~Holding(u, r)'
  BY <1>b, <1>f DEF HandsOn, Holding
<1>4. \A u \in Thread : \A r : Holding(u, r) <=> u = t /\ r = s
  BY <1>a, <1>b DEF Holding
<1>5. Settled(s)' /\ \A r \in Slot : r # s => (Settled(r)' <=> Settled(r))
  BY <1>b, <1>c, <1>f, <1>3, <1>4 DEF Settled
<1>6. /\ Ids' = Ids /\ Pending' = Pending /\ Ids \subseteq Id
      /\ \A u \in Thread : Flying(u)' <=> Flying(u)
  <2>1. \A u \in Thread : Flying(u)' <=> Flying(u)
    BY <1>b, <1>e, <1>f DEF Flying
  <2>2. Pending' = Pending
    BY <1>b, <1>e, <1>f DEF Pending
  <2>3. \A u \in Thread : op'[u].id = op[u].id
    BY <1>e
  <2>4. QED  BY <2>1, <2>2, <2>3 DEF IInv, InvTypes, InvOp, Ids
<1>7. \A id : Matches(id)' <=> Matches(id)
  BY DEF Matches
<1>8. \A id \in Id : Matches(id) => SlotOf(id) \in Slot
  BY KeyFacts, Bounds DEF IInv, InvTypes, Matches
<1>9. \A id \in Id : Live(id) => Live(id)' /\ SlotOf(id) # s
  BY <1>b, <1>5, <1>7, <1>8 DEF Live
<1>10. Live(op[t].id)'
  <2>1. Matches(op[t].id)
    BY <1>b, <1>c, KeyFacts, Bounds, Sizes DEF IInv, InvTypes, Matches, KeyOf, Slot
  <2>2. QED  BY <1>b, <1>e, <1>5, <1>7, <2>1 DEF Live
<1>11. InvOp'
  <2>1. \A u \in Thread : Adding(u)' => u = t
    BY <1>b, <1>e, <1>f, <1>3 DEF Adding, Critical
  <2>2. op[t].id \in Id \ Ids
    BY <1>a DEF IInv, InvOp, Adding
  <2>3. \A u \in Thread : (InAdd(u, "unlock") /\ op[u].res = "ok")' => u = t
    BY <1>b, <1>e, <1>f DEF InAdd, Critical
  <2>4. \A u \in Thread : (InAdd(u, "unlock") /\ op[u].res = "ok")' => Live(op[u].id)'
    BY <2>3, <1>10
  <2>5. QED
    BY <1>b, <1>e, <1>f, <1>3, <1>6, <2>1, <2>2, <2>3, <2>4 DEF IInv, InvOp, Flying
<1>12. InvHands'   BY <1>3 DEF InvHands
<1>13. FreeListOK'
  <2>1. \A i \in 1 .. Len(freed) : freed[i] \in Slot
    BY DEF IInv, InvTypes
  <2>2. QED  BY <1>c, <1>f, <2>1 DEF IInv, FreeListOK
<1>14. InvSlots'   BY <1>4, <1>5 DEF IInv, InvSlots
<1>15. SlotsAccounted'
  <2>1. InTransit = 0 /\ InTransit' = 0
    BY <1>a, <1>b, <1>3 DEF InTransit, InRemove, HandsOn
  <2>2. QED  BY <2>1 DEF IInv, SlotsAccounted
<1>16. InvFresh'   BY <1>b DEF IInv, InvFresh
<1>17. InvIds'     BY <1>5, <1>6, <1>7, <1>8 DEF IInv, InvIds
<1>18. InvCareful'
  <2>1. known \subseteq Ids /\ \A u \in Thread : Flying(u) => op[u].id \in Ids /\ op'[u] = op[u]
    BY <1>b, <1>e DEF Ids
  <2>2. QED  BY <1>6, <1>9, <2>1 DEF IInv, InvCareful
<1>19. InvStale'
  <2>1. Taken(s) = 1 /\ Taken(s)' = 1
    BY <1>a, <1>b, <1>4, <1>5 DEF Taken
  <2>2. \A r \in Slot : r # s => Taken(r)' = Taken(r)
    BY <1>3, <1>4, <1>5 DEF Taken
  <2>3. QED  BY <1>6, <2>1, <2>2 DEF IInv, InvStale
<1>20. InvClean'
  <2>1. ASSUME NEW u \in Thread, op'[u].kind = "query"
        PROVE  op'[u] = op[u] /\ pc'[u] = pc[u] /\ op[u].id \in Id
    BY <1>e, <1>f, <2>1 DEF IInv, InvOp
  <2>2. QED  BY <1>9, <2>1 DEF IInv, InvClean
<1>21. InvCache'   BY DEF IInv, InvCache
<1>22. QED
  BY <1>1, <1>2, <1>11, <1>12, <1>13, <1>14, <1>15, <1>16, <1>17, <1>18, <1>19, <1>20, <1>21
  DEF IInv

\* The store that links a removed slot into the free list keeps the invariant.
LEMMA StepRemoveWriteArg ==
    ASSUME IInv, NEW t \in Thread, RemoveWriteArg(t)
    PROVE  IInv'
<1> USE DEF RemoveWriteArg, FreeLink, Goto
<1>a. HandsOn(t) /\ pc[t] = "write_arg" /\ op[t].kind = "remove"
  BY DEF InRemove, HandsOn
<1>b. PICK s \in Slot :
        /\ s = SlotOf(op[t].id) /\ tmutex = t /\ tstate = "active" /\ s < tsize
        /\ \A u \in Thread : u # t => ~HandsOn(u) /\ ~Adding(u) /\ pc[u] \notin Critical
        /\ ~Settled(s) /\ ~Flying(t) /\ t \notin Pending
  BY <1>a, InHand
<1>c. fn[s] = Invalid /\ \A i \in 1 .. Len(freed) : freed[i] # s
  BY <1>a, <1>b DEF IInv, InvHands, InRemove
<1>d. op[t] \in Op /\ [op[t] EXCEPT !.res = "ok"] \in Op
  BY OpUpdate DEF IInv, InvTypes, Results
<1>e. /\ op' \in [Thread -> Op]
      /\ \A u \in Thread : u # t => op'[u] = op[u]
      /\ op'[t].kind = "remove" /\ op'[t].id = op[t].id
  <2> DEFINE q == [op[t] EXCEPT !.res = "ok"]
  <2>1. q.kind = "remove" /\ q.id = op[t].id
    BY <1>a, <1>d DEF Op
  <2>2. op' = [op EXCEPT ![t] = q]
    OBVIOUS
  <2> HIDE DEF q
  <2>3. QED  BY <1>d, <2>1, <2>2 DEF IInv, InvTypes, q
<1>f. /\ arg' \in [Slot -> ArgValue] /\ arg'[s] = tfreelist
      /\ \A r \in Slot : r # s => arg'[r] = arg[r]
      /\ pc' \in [Thread -> Places] /\ pc'[t] = "unlock"
      /\ \A u \in Thread : u # t => pc'[u] = pc[u]
  BY <1>b, <1>c DEF IInv, InvTypes, Places, ArgValue
<1>g. /\ freed \in Seq(Slot) /\ freed' \in Seq(Slot) /\ Len(freed) \in Nat
      /\ Len(freed') = Len(freed) + 1 /\ freed'[Len(freed) + 1] = s
      /\ \A i \in 1 .. Len(freed) : freed'[i] = freed[i] /\ freed[i] \in Slot
  BY <1>b DEF IInv, InvTypes
<1>h. tfreelist' = s
  BY <1>b
<1>1. InvTypes'  BY <1>e, <1>f, <1>g, <1>h DEF IInv, InvTypes
<1>2. LockInv'   BY <1>b, <1>f DEF IInv, LockInv, Critical
<1>3. \A u \in Thread : ~HandsOn(u)' /\ \A r : ~Holding(u, r)'
  BY <1>b, <1>f DEF HandsOn, Holding
<1>4. \A u \in Thread : \A r : Holding(u, r) <=> u = t /\ r = s
  BY <1>a, <1>b DEF Holding
<1>5. \A r \in Slot : Settled(r)' <=> Settled(r)
  <2>1. ~Settled(s)'
    BY <1>c, TableAssumption DEF Settled
  <2>2. \A r \in Slot : r # s => (Settled(r)' <=> Settled(r))
    BY <1>f, <1>3, <1>4 DEF Settled
  <2>3. QED  BY <1>b, <2>1, <2>2
<1>6. /\ Ids' = Ids /\ Pending' = Pending /\ Ids \subseteq Id
      /\ \A u \in Thread : Flying(u)' <=> Flying(u)
  <2>1. \A u \in Thread : Flying(u)' <=> Flying(u)
    BY <1>b, <1>e, <1>f DEF Flying
  <2>2. Pending' = Pending
    BY <1>b, <1>e, <1>f DEF Pending
  <2>3. \A u \in Thread : op'[u].id = op[u].id
    BY <1>e
  <2>4. QED  BY <2>1, <2>2, <2>3 DEF IInv, InvTypes, InvOp, Ids
<1>7. \A id : Matches(id)' <=> Matches(id)
  BY DEF Matches
<1>8. \A id \in Id : Matches(id) => SlotOf(id) \in Slot
  BY KeyFacts, Bounds DEF IInv, InvTypes, Matches
<1>9. \A id \in Id : Live(id) => Live(id)' /\ SlotOf(id) # s
  BY <1>b, <1>5, <1>7, <1>8 DEF Live
<1>10. InvOp'
  <2>1. \A u \in Thread : ~Adding(u)'
    BY <1>b, <1>e, <1>f, <1>3 DEF Adding, Critical
  <2>2. \A u \in Thread : (InAdd(u, "unlock") /\ op[u].res = "ok")' => FALSE
    BY <1>b, <1>e, <1>f DEF InAdd, Critical
  <2>3. QED
    BY <1>b, <1>e, <1>f, <1>3, <1>6, <2>1, <2>2 DEF IInv, InvOp, Flying
<1>11. InvHands'   BY <1>3 DEF InvHands
<1>12. FreeListOK'
  <2>1. tfreelist' = IF freed' = <<>> THEN ListEnd ELSE freed'[Len(freed')]
    BY <1>g, <1>h
  <2>2. tfreelist = IF Len(freed) = 0 THEN ListEnd ELSE freed[Len(freed)]
    BY <1>g DEF IInv, FreeListOK
  <2>3. ASSUME NEW i \in 1 .. Len(freed')
        PROVE  /\ freed'[i] < tsize'
               /\ fn'[freed'[i]] = Invalid
               /\ arg'[freed'[i]] = IF i = 1 THEN ListEnd ELSE freed'[i - 1]
               /\ \A j \in 1 .. i - 1 : freed'[j] # freed'[i]
    <3>1. CASE i = Len(freed) + 1
      <4>1. freed'[i] = s /\ \A j \in 1 .. i - 1 : freed'[j] # s
        BY <1>c, <1>g, <3>1
      <4>2. i # 1 => freed'[i - 1] = freed[Len(freed)] /\ Len(freed) # 0
        BY <1>g, <3>1
      <4>3. i = 1 <=> Len(freed) = 0
        BY <1>g, <3>1
      <4>4. QED  BY <1>b, <1>c, <1>f, <2>2, <4>1, <4>2, <4>3
    <3>2. CASE i # Len(freed) + 1
      <4>1. i \in 1 .. Len(freed) /\ (i # 1 => i - 1 \in 1 .. Len(freed))
        BY <1>g, <3>2
      <4>2. freed'[i] = freed[i] /\ freed[i] # s /\ freed[i] \in Slot
        BY <1>c, <1>g, <4>1
      <4>3. i # 1 => freed'[i - 1] = freed[i - 1]
        BY <1>g, <4>1
      <4>4. \A j \in 1 .. i - 1 : freed'[j] = freed[j]
        BY <1>g, <4>1
      <4>5. /\ freed[i] < tsize /\ fn[freed[i]] = Invalid
            /\ arg[freed[i]] = IF i = 1 THEN ListEnd ELSE freed[i - 1]
            /\ \A j \in 1 .. i - 1 : freed[j] # freed[i]
        BY <4>1 DEF IInv, FreeListOK
      <4>6. QED  BY <1>f, <4>2, <4>3, <4>4, <4>5
    <3>3. QED  BY <3>1, <3>2
  <2>4. QED  BY <2>1, <2>3 DEF FreeListOK
<1>13. InvSlots'
  <2>1. ASSUME NEW r \in Slot, r < tsize
        PROVE  Settled(r)' \/ \E i \in 1 .. Len(freed') : freed'[i] = r
    <3>1. CASE r = s
      <4>1. Len(freed) + 1 \in 1 .. Len(freed')
        BY <1>g
      <4>2. QED  BY <1>g, <3>1, <4>1
    <3>2. CASE \E i \in 1 .. Len(freed) : freed[i] = r
      <4>1. PICK i \in 1 .. Len(freed) : freed[i] = r
        BY <3>2
      <4>2. i \in 1 .. Len(freed')
        BY <1>g
      <4>3. QED  BY <1>g, <4>1, <4>2
    <3>3. CASE Settled(r)
      BY <1>5, <3>3
    <3>4. QED  BY <1>4, <2>1, <3>1, <3>2, <3>3 DEF IInv, InvSlots
  <2>2. QED  BY <2>1 DEF InvSlots
<1>14. SlotsAccounted'
  <2>1. InTransit = 1 /\ InTransit' = 0
    BY <1>a, <1>3 DEF InTransit, InRemove, HandsOn
  <2>2. QED  BY <1>g, <2>1 DEF IInv, InvTypes, SlotsAccounted
<1>15. InvFresh'   BY <1>b DEF IInv, InvFresh
<1>16. InvIds'     BY <1>5, <1>6, <1>7, <1>8 DEF IInv, InvIds
<1>17. InvCareful'
  <2>1. known \subseteq Ids /\ \A u \in Thread : Flying(u) => op[u].id \in Ids /\ op'[u] = op[u]
    BY <1>b, <1>e DEF Ids
  <2>2. QED  BY <1>6, <1>9, <2>1 DEF IInv, InvCareful
<1>18. InvStale'
  <2>1. \A r \in Slot : Taken(r)' = Taken(r)
    BY <1>a, <1>3, <1>4, <1>5 DEF Taken
  <2>2. QED  BY <1>6, <2>1 DEF IInv, InvStale
<1>19. InvClean'
  <2>1. ASSUME NEW u \in Thread, op'[u].kind = "query"
        PROVE  op'[u] = op[u] /\ pc'[u] = pc[u] /\ op[u].id \in Id
    BY <1>e, <1>f, <2>1 DEF IInv, InvOp
  <2>2. QED  BY <1>9, <2>1 DEF IInv, InvClean
<1>20. InvCache'   BY DEF IInv, InvCache
<1>21. QED
  BY <1>1, <1>2, <1>10, <1>11, <1>12, <1>13, <1>14, <1>15, <1>16, <1>17, <1>18, <1>19, <1>20
  DEF IInv


\* No id that is in anybody's hands after the entry is removed names the
\* generation that its slot is given.
LEMMA NobodyHasNext ==
    ASSUME IInv, NEW t \in Thread, RemoveEntry(t),
           NEW s, s = SlotOf(op[t].id),
           NEW id \in known \cup {op[u].id : u \in {v \in Thread : Flying(v) /\ v # t}},
           SlotOf(id) = s
    PROVE  ~Careful /\ GenrOf(id) < NextGenr(GenrOf(op[t].id))
<1>a. /\ pc[t] = "locked" /\ op[t].kind = "remove" /\ Matches(op[t].id) /\ Flying(t)
      /\ op[t].id \in Id /\ tstate = "active" /\ op[t].id \in Ids
  BY Alone DEF RemoveEntry, InRemove, RemoveMatches, Flying, Critical, IInv, InvOp, Ids
<1>b. id \in Ids /\ id \in Id
  BY DEF Ids, IInv, InvTypes, InvOp
<1>1. ~Careful
  <2> SUFFICES ASSUME Careful PROVE FALSE
    OBVIOUS
  <2>1. Live(id)
    BY <1>a, <1>b DEF IInv, InvCareful, Flying
  <2>2. GenrOf(id) = GenrOf(op[t].id)
    BY <1>a, <2>1 DEF Live, Matches
  <2>3. id = op[t].id
    BY <1>a, <1>b, <2>2, KeyFacts
  <2>4. QED
    BY <1>a, <2>3 DEF IInv, InvCareful, Flying
<1>2. s \in Slot /\ s < tsize /\ GenrOf(op[t].id) = gen[s]
  BY <1>a, KeyFacts, Bounds DEF IInv, InvTypes, Matches
<1>3. Taken(s) = 1
  BY <1>a, <1>2 DEF Taken, IInv, InvIds
<1>4. gen[s] + 1 < GenrMod
  <2>1. gen[s] + Taken(s) + Cardinality(Pending) =< adds /\ gen[s] \in Nat /\ adds =< MaxAdds
        /\ adds \in Nat
    BY <1>a, <1>1, <1>2, TableAssumption DEF IInv, InvTypes, InvStale
  <2>2. QED
    BY <1>1, <1>3, <2>1, PendingFinite, StaleAssumption, GenrModAssumption, TableAssumption
<1>5. NextGenr(gen[s]) = gen[s] + 1
  <2>1. \A g \in Nat : g + 1 < GenrMod => (g + 1) % GenrMod = g + 1
    BY GenrModAssumption
  <2>2. gen[s] \in Nat
    BY <1>2 DEF IInv, InvTypes
  <2>3. QED  BY <1>4, <2>1, <2>2 DEF NextGenr
<1>6. GenrOf(id) =< gen[s] /\ GenrOf(id) \in Nat /\ gen[s] \in Nat
  BY <1>a, <1>b, <1>1, <1>2, KeyFacts DEF IInv, InvTypes, InvStale
<1>7. QED  BY <1>1, <1>2, <1>5, <1>6

\* A removal changes the locals of the other calls in their history only.
LEMMA SpoilFacts ==
    ASSUME NEW o \in [Thread -> Op], NEW id
    PROVE  /\ Spoil(o, id) \in [Thread -> Op]
           /\ \A u \in Thread :
                 /\ Spoil(o, id)[u].kind = o[u].kind /\ Spoil(o, id)[u].id = o[u].id
                 /\ Spoil(o, id)[u].cb = o[u].cb /\ Spoil(o, id)[u].arg = o[u].arg
                 /\ Spoil(o, id)[u].ptr = o[u].ptr /\ Spoil(o, id)[u].res = o[u].res
                 /\ Spoil(o, id)[u].clean => o[u].clean /\ o[u].id # id
<1>1. ASSUME NEW u \in Thread
      PROVE  /\ Spoil(o, id)[u] \in Op
             /\ Spoil(o, id)[u].kind = o[u].kind /\ Spoil(o, id)[u].id = o[u].id
             /\ Spoil(o, id)[u].cb = o[u].cb /\ Spoil(o, id)[u].arg = o[u].arg
             /\ Spoil(o, id)[u].ptr = o[u].ptr /\ Spoil(o, id)[u].res = o[u].res
             /\ Spoil(o, id)[u].clean => o[u].clean /\ o[u].id # id
  <2>1. o[u] \in Op
    OBVIOUS
  <2>2. CASE o[u].id = id
    BY <2>1, <2>2 DEF Spoil, Op
  <2>3. CASE o[u].id # id
    BY <2>1, <2>3 DEF Spoil
  <2>4. QED  BY <2>2, <2>3
<1>2. Spoil(o, id) \in [Thread -> Op]
  BY <1>1 DEF Spoil
<1>3. QED  BY <1>1, <1>2

\* Retiring the generation of a removed entry keeps the invariant: whoever still
\* holds the id finds no match.
LEMMA StepRemoveEntry ==
    ASSUME IInv, NEW t \in Thread, RemoveEntry(t)
    PROVE  IInv'
<1> USE DEF RemoveEntry, hist
<1>a. /\ pc[t] = "locked" /\ op[t].kind = "remove" /\ Matches(op[t].id) /\ Flying(t)
      /\ op[t].id \in Id /\ op[t].id \in Ids
  BY DEF InRemove, RemoveMatches, Flying, IInv, InvOp, Ids
<1>b. /\ tmutex = t /\ tstate = "active"
      /\ \A u \in Thread : u # t => pc[u] \notin Critical
      /\ \A u \in Thread : ~HandsOn(u) /\ ~Adding(u)
  BY <1>a, Alone DEF Critical, HandsOn, Adding
<1>c. PICK s \in Slot : s = SlotOf(op[t].id) /\ s < tsize /\ Settled(s)
                        /\ gen[s] = GenrOf(op[t].id)
  BY <1>a, <1>b, KeyFacts, Bounds DEF IInv, InvTypes, InvIds, Matches
<1>d. /\ op' \in [Thread -> Op]
      /\ \A u \in Thread :
            /\ op'[u].kind = op[u].kind /\ op'[u].id = op[u].id
            /\ op'[u].cb = op[u].cb /\ op'[u].arg = op[u].arg
            /\ op'[u].ptr = op[u].ptr /\ op'[u].res = op[u].res
            /\ op'[u].clean => op[u].clean /\ op[u].id # op[t].id
  BY SpoilFacts DEF IInv, InvTypes
<1>e. pc' \in [Thread -> Places] /\ pc'[t] = "write_fn"
      /\ \A u \in Thread : u # t => pc'[u] = pc[u]
  BY DEF Goto, IInv, InvTypes, Places
<1>f. /\ gen' \in [Slot -> 0 .. GenrMod - 1]
      /\ gen'[s] = NextGenr(GenrOf(op[t].id))
      /\ \A r \in Slot : r # s => gen'[r] = gen[r]
  <2>1. NextGenr(gen[s]) \in 0 .. GenrMod - 1
    BY <1>c, GenrModAssumption DEF NextGenr, IInv, InvTypes
  <2>2. gen' = [gen EXCEPT ![s] = NextGenr(gen[s])]
    BY <1>c
  <2>3. QED  BY <1>c, <2>1, <2>2 DEF IInv, InvTypes
<1>1. InvTypes'
  <2>1. tused' \in Int
    BY DEF IInv, InvTypes
  <2>2. QED  BY <1>d, <1>e, <1>f, <2>1 DEF IInv, InvTypes
<1>2. LockInv'   BY <1>a, <1>b, <1>e DEF IInv, LockInv, Critical
<1>3. \A u \in Thread : Flying(u)' <=> Flying(u) /\ u # t
  BY <1>d, <1>e DEF Flying
<1>4. Pending' = Pending
  BY <1>a, <1>d, <1>e DEF Pending
<1>5. Ids' = known \cup {op[u].id : u \in {v \in Thread : Flying(v) /\ v # t}}
  BY <1>3, <1>d DEF Ids
<1>6. Ids' \subseteq Ids /\ Ids \subseteq Id
  BY <1>5 DEF Ids, IInv, InvTypes, InvOp
<1>7. \A u \in Thread : \A r : Holding(u, r)' <=> u = t /\ r = s
  BY <1>b, <1>c, <1>d, <1>e DEF Holding, HandsOn
<1>8. \A u \in Thread : \A r : ~Holding(u, r)
  BY <1>b DEF Holding
<1>9. ~Settled(s)' /\ \A r \in Slot : r # s => (Settled(r)' <=> Settled(r))
  BY <1>7, <1>8 DEF Settled
<1>10. \A id \in Id : Matches(id) => SlotOf(id) \in Slot
  BY KeyFacts, Bounds DEF IInv, InvTypes, Matches
<1>11. ASSUME NEW id \in Id, Live(id), id # op[t].id
       PROVE  Live(id)' /\ SlotOf(id) # s
  <2>1. SlotOf(id) # s
    <3>1. SlotOf(id) = s => GenrOf(id) = GenrOf(op[t].id)
      BY <1>c, <1>11 DEF Live, Matches
    <3>2. QED  BY <1>a, <1>c, <1>11, <3>1, KeyFacts
  <2>2. QED  BY <1>9, <1>10, <1>11, <1>f, <2>1 DEF Live, Matches
<1>12. ASSUME NEW id \in Ids', SlotOf(id) = s
       PROVE  ~Careful /\ GenrOf(id) < gen'[s] /\ ~Matches(id)'
  <2>1. ~Careful /\ GenrOf(id) < gen'[s]
    BY <1>5, <1>12, <1>c, <1>f, NobodyHasNext
  <2>2. GenrOf(id) \in Nat /\ gen'[s] \in Nat
    BY <1>6, <1>f, KeyFacts
  <2>3. QED  BY <1>12, <2>1, <2>2 DEF Matches
<1>13. InvOp'
  <2>1. \A u \in Thread : ~Adding(u)'
    BY <1>a, <1>b, <1>d, <1>e DEF Adding, HandsOn
  <2>2. \A u \in Thread : (InAdd(u, "unlock") /\ op[u].res = "ok")' => FALSE
    BY <1>b, <1>d, <1>e DEF InAdd, Critical
  <2>3. QED
    BY <1>a, <1>b, <1>d, <1>e, <1>3, <1>4, <2>1, <2>2 DEF IInv, InvOp, HandsOn
<1>14. InvHands'
  <2>1. \A u \in Thread : HandsOn(u)' => u = t
    BY <1>b, <1>e DEF HandsOn
  <2>2. fn[s] \in Callback /\ \A i \in 1 .. Len(freed) : freed[i] # s
    BY <1>c, TableAssumption DEF Settled, IInv, FreeListOK
  <2>3. s \in 0 .. tsize' - 1
    BY <1>c, Bounds DEF IInv, InvTypes
  <2>4. SlotOf(op'[t].id) = s /\ op'[t].kind = "remove"
    BY <1>a, <1>c, <1>d
  <2>5. QED
    BY <1>b, <1>e, <2>1, <2>2, <2>3, <2>4 DEF InvHands, InAdd, InRemove
<1>15. FreeListOK'  BY DEF IInv, FreeListOK
<1>16. InvSlots'    BY <1>7, <1>8, <1>9 DEF IInv, InvSlots
<1>17. SlotsAccounted'
  <2>1. InTransit = 0 /\ InTransit' = 1
    BY <1>a, <1>b, <1>d, <1>e DEF InTransit, InRemove, HandsOn
  <2>2. Len(freed) \in Nat
    BY DEF IInv, InvTypes
  <2>3. QED  BY <2>1, <2>2 DEF IInv, InvTypes, SlotsAccounted
<1>18. InvFresh'    BY <1>b DEF IInv, InvFresh
<1>19. InvIds'
  <2>1. ASSUME NEW id \in Ids'
        PROVE  /\ SlotOf(id) < tsize' \/ SlotOf(id) = Capacity
               /\ Matches(id)' => Settled(SlotOf(id))'
    <3>1. id \in Ids /\ id \in Id
      BY <1>6
    <3>2. CASE SlotOf(id) = s
      BY <1>12, <1>c, <3>2
    <3>3. CASE SlotOf(id) # s
      BY <1>9, <1>10, <1>b, <1>f, <3>1, <3>3, KeyFacts, Bounds DEF IInv, InvTypes, InvIds, Matches
    <3>4. QED  BY <3>2, <3>3
  <2>2. QED  BY <2>1 DEF InvIds
<1>20. InvCareful'
  <2> SUFFICES ASSUME Careful PROVE InvCareful'
    BY DEF InvCareful
  <2>1. known \subseteq Ids' /\ \A u \in Thread : Flying(u)' => op[u].id \in Ids'
    BY <1>3, <1>5
  <2>2. \A id \in Ids' : id # op[t].id
    BY <1>12, <1>c
  <2>3. \A id \in Ids' : Live(id) => Live(id)'
    BY <1>6, <1>11, <2>2
  <2>4. QED
    BY <1>3, <1>b, <1>d, <2>1, <2>3 DEF IInv, InvCareful
<1>21. InvStale'
  <2> SUFFICES ASSUME ~Careful
               PROVE  /\ \A id \in Ids' : SlotOf(id) < tsize => GenrOf(id) =< gen'[SlotOf(id)]
                      /\ \A r \in Slot : gen'[r] + Taken(r)' + Cardinality(Pending) =< adds
    BY <1>4 DEF InvStale
  <2>1. ASSUME NEW id \in Ids', SlotOf(id) < tsize  PROVE GenrOf(id) =< gen'[SlotOf(id)]
    <3>1. id \in Id /\ SlotOf(id) \in Slot /\ GenrOf(id) \in Nat
      BY <1>6, <2>1, KeyFacts, Bounds DEF IInv, InvTypes
    <3>2. CASE SlotOf(id) = s
      BY <1>12, <1>f, <3>1, <3>2
    <3>3. CASE SlotOf(id) # s
      BY <1>6, <1>b, <1>f, <2>1, <3>1, <3>3 DEF IInv, InvStale
    <3>4. QED  BY <3>2, <3>3
  <2>2. \A r \in Slot : gen[r] + Taken(r) + Cardinality(Pending) =< adds /\ gen[r] \in Nat
    BY <1>b DEF IInv, InvTypes, InvStale
  <2>3. ASSUME NEW r \in Slot  PROVE gen'[r] + Taken(r)' + Cardinality(Pending) =< adds
    <3>1. CASE r = s
      <4>1. Taken(s) = 1
        BY <1>c DEF Taken
      <4>2. Taken(s)' = 0
        BY <1>7, <1>9, <1>a, <1>d DEF Taken
      <4>3. gen'[s] =< gen[s] + 1 /\ gen'[s] \in Nat
        <5>1. gen'[s] = NextGenr(gen[s])
          BY <1>c, <1>f
        <5>2. \A g \in Nat : (g + 1) % GenrMod =< g + 1
          BY GenrModAssumption
        <5>3. QED  BY <1>f, <2>2, <5>1, <5>2 DEF NextGenr
      <4>4. QED  BY <2>2, <3>1, <4>1, <4>2, <4>3, PendingFinite DEF IInv, InvTypes
    <3>2. CASE r # s
      <4>1. Taken(r)' = Taken(r)
        BY <1>7, <1>8, <1>9, <3>2 DEF Taken
      <4>2. QED  BY <1>f, <2>2, <3>2, <4>1
    <3>3. QED  BY <3>1, <3>2
  <2>4. QED  BY <2>1, <2>3
<1>22. InvClean'
  <2>1. ASSUME NEW u \in Thread, op'[u].kind = "query", op'[u].clean, tstate' # "shut"
        PROVE  LET r == SlotOf(op'[u].id)
               IN  /\ Live(op[u].id)'
                   /\ pc'[u] \in {"unlock", "done", "read", "called"} => op'[u].ptr = r
                   /\ pc'[u] \in {"read", "called"} => op'[u].cb = fn'[r]
                   /\ pc'[u] = "called" => op'[u].arg = fn'[r]
    <3>1. u # t /\ op[u].clean /\ op[u].kind = "query" /\ op[u].id # op[t].id /\ op[u].id \in Id
      BY <1>a, <1>d, <2>1 DEF IInv, InvOp
    <3>2. Live(op[u].id)
      BY <1>b, <3>1 DEF IInv, InvClean
    <3>3. Live(op[u].id)'
      <4>1. \A id \in Id : Live(id) /\ id # op[t].id => Live(id)'
        BY <1>11
      <4>2. op'[u].id = op[u].id
        BY <1>d
      <4>3. \A id : id = op[u].id => (Matches(id)' /\ Settled(SlotOf(id))')
        BY <3>1, <3>2, <4>1 DEF Live
      <4>4. QED  BY <4>2, <4>3 DEF Live, Matches, Settled
    <3>4. QED  BY <1>b, <1>d, <1>e, <3>1, <3>3 DEF IInv, InvClean
  <2>2. QED  BY <2>1 DEF InvClean
<1>23. InvCache'    BY DEF IInv, InvCache
<1>24. QED
  BY <1>1, <1>2, <1>13, <1>14, <1>15, <1>16, <1>17, <1>18, <1>19, <1>20, <1>21, <1>22, <1>23
  DEF IInv


\* The shutdown of the table keeps the invariant.
LEMMA StepShut ==
    ASSUME IInv, Shut
    PROVE  IInv'
<1> USE DEF Shut
<1>a. tmutex = NoThread
  BY DEF IInv, InvTypes, LockInv, Critical
<1>b. \A t \in Thread : pc'[t] = "idle" /\ op'[t] = op[t]
  OBVIOUS
<1>c. \A t \in Thread : /\ ~HandsOn(t)' /\ ~Flying(t)' /\ ~Adding(t)' /\ ~InAdd(t, "unlock")'
                        /\ \A s : ~Holding(t, s)'
  BY <1>b DEF HandsOn, Flying, Adding, InAdd, Holding
<1>d. freed' = <<>> /\ Len(freed') = 0
  OBVIOUS
<1>1. InvTypes'
  <2>1. \E p \in 0 .. MaxPages : tresv' = p * PageSize
    <3>1. 0 \in 0 .. MaxPages /\ 0 * PageSize = 0
      BY TableAssumption
    <3>2. QED  BY <3>1
  <2>2. 0 \in 0 .. GenrMod - 1 /\ 0 \in 0 .. Capacity
    BY GenrModAssumption, Sizes
  <2>3. QED
    BY <2>1, <2>2 DEF IInv, InvTypes, FnValue, ArgValue, ListEnd
<1>2. LockInv'   BY <1>a DEF IInv, LockInv
<1>3. Pending' = {} /\ Ids' = known
  BY <1>b, <1>c DEF Pending, Ids
<1>4. InvOp'
  BY <1>b, <1>c, <1>3 DEF IInv, InvOp
<1>5. InvHands'  BY <1>c DEF InvHands
<1>6. FreeListOK'  BY <1>d DEF FreeListOK
<1>7. InvSlots'
  BY Sizes DEF InvSlots
<1>8. SlotsAccounted'
  <2>1. InTransit' = 0
    BY <1>b DEF InTransit, InRemove
  <2>2. QED  BY <1>d, <2>1 DEF SlotsAccounted
<1>9. InvFresh'  BY <1>a DEF InvFresh
<1>10. InvIds'   BY DEF InvIds
<1>11. InvCareful'  BY <1>c DEF InvCareful
<1>12. InvStale' BY DEF InvStale
<1>13. InvClean' BY DEF InvClean
<1>14. InvCache' BY DEF IInv, InvCache
<1>15. QED
  BY <1>1, <1>2, <1>4, <1>5, <1>6, <1>7, <1>8, <1>9, <1>10, <1>11, <1>12, <1>13, <1>14 DEF IInv

-----------------------------------------------------------------------------
(* The inductive invariant *)

\* The invariant holds initially.
LEMMA InitInv == Init => IInv
<1> SUFFICES ASSUME Init PROVE IInv
  OBVIOUS
<1> USE DEF Init
<1>a. \A t \in Thread : pc[t] = "idle" /\ op[t] = NoOp
  OBVIOUS
<1>b. \A t \in Thread : /\ ~HandsOn(t) /\ ~Flying(t) /\ ~Adding(t) /\ ~InAdd(t, "unlock")
                        /\ \A s : ~Holding(t, s)
  BY <1>a DEF HandsOn, Flying, Adding, InAdd, Holding
<1>c. freed = <<>> /\ Len(freed) = 0
  OBVIOUS
<1>1. InvTypes
  <2>1. \E p \in 0 .. MaxPages : tresv = p * PageSize
    <3>1. 0 \in 0 .. MaxPages /\ 0 * PageSize = 0
      BY TableAssumption
    <3>2. QED  BY <3>1
  <2>2. 0 \in 0 .. GenrMod - 1 /\ 0 \in 0 .. Capacity /\ 0 \in 0 .. MaxAdds
    BY GenrModAssumption, TableAssumption, Sizes
  <2>3. QED
    BY <2>1, <2>2, NoOpType DEF InvTypes, FnValue, ArgValue, ListEnd, Places
<1>2. LockInv
  BY <1>a, TableAssumption DEF LockInv, Critical
<1>3. Pending = {} /\ Ids = {}
  BY <1>a, <1>b DEF Pending, Ids
<1>4. InvOp      BY <1>a, <1>b, <1>3 DEF InvOp, NoOp
<1>5. InvHands   BY <1>b DEF InvHands
<1>6. FreeListOK BY <1>c DEF FreeListOK
<1>7. InvSlots   BY Sizes DEF InvSlots
<1>8. SlotsAccounted
  <2>1. InTransit = 0
    BY <1>a DEF InTransit, InRemove
  <2>2. QED  BY <1>c, <2>1 DEF SlotsAccounted
<1>9. InvFresh   BY DEF InvFresh
<1>10. InvIds    BY <1>3 DEF InvIds
<1>11. InvCareful  BY <1>b DEF InvCareful
<1>12. InvStale
  <2>1. \A s \in Slot : Taken(s) = 0 /\ gen[s] = 0
    BY Sizes DEF Taken
  <2>2. Cardinality(Pending) = 0
    BY <1>3, FS_EmptySet
  <2>3. QED  BY <1>3, <2>1, <2>2 DEF InvStale
<1>13. InvClean  BY <1>a DEF InvClean, NoOp
<1>14. InvCache
  <2>1. \A t \in Thread : cache[t] = EmptyCache
    OBVIOUS
  <2>2. QED  BY <2>1 DEF InvCache, EmptyCache, EmptyKey
<1>15. QED
  BY <1>1, <1>2, <1>4, <1>5, <1>6, <1>7, <1>8, <1>9, <1>10, <1>11, <1>12, <1>13, <1>14 DEF IInv

\* A stuttering step keeps the invariant.
LEMMA StutterInv == IInv /\ UNCHANGED vars => IInv'
<1> SUFFICES ASSUME IInv, UNCHANGED vars PROVE IInv'
  OBVIOUS
<1> USE DEF vars, table, hist
<1>0. Undisturbed
  BY DEF Undisturbed, HandsOn
<1>1. InvTypes' /\ LockInv' /\ InvFresh' /\ InvCache'
  BY DEF IInv, InvTypes, LockInv, InvFresh, InvCache
<1>2. Ids' = Ids /\ Pending' = Pending
  BY DEF Ids, Flying, Pending
<1>3. InvOp' /\ InvClean'
  BY <1>0, <1>2, Quiet DEF IInv, InvOp, InvClean, Flying, HandsOn, InAdd, Adding
<1>4. InvIds' /\ InvStale'
  BY <1>0, <1>2, Quiet DEF IInv, InvIds, InvStale
<1>5. InvCareful'
  BY <1>0, <1>2, Quiet DEF IInv, InvCareful, Flying
<1>6. QED  BY <1>0, <1>1, <1>3, <1>4, <1>5, Quiet DEF IInv

\* Every step keeps the invariant.
LEMMA NextInv == IInv /\ [Next]_vars => IInv'
<1> SUFFICES ASSUME IInv, [Next]_vars PROVE IInv'
  OBVIOUS
<1>1. ASSUME NEW t \in Thread, Call(t)  PROVE IInv'
  BY <1>1, StepAddCall, StepEarlyCall, StepRemoveCall, StepValidCall, StepQueryCall DEF Call
<1>2. ASSUME NEW t \in Thread, Step(t)  PROVE IInv'
  BY <1>2, StepLock, StepLockRefused, StepUnlock, StepAddPop, StepAddAppend, StepAddFails,
     StepAddWriteFn, StepAddWriteArg, StepRemoveEntry, StepRemoveNothing, StepRemoveWriteFn,
     StepRemoveWriteArg, StepQueryLookup, StepValidTest, StepReturn, StepReadArg DEF Step
<1>3. ASSUME NEW t \in Thread, ReadFn(t)  PROVE IInv'
  BY <1>3, StepReadFn
<1>4. CASE Shut
  BY <1>4, StepShut
<1>5. CASE UNCHANGED vars
  BY <1>5, StutterInv
<1>6. QED  BY <1>1, <1>2, <1>3, <1>4, <1>5 DEF Next

\* The invariant that carries the others: it holds initially and every step of
\* the table keeps it.
THEOREM Invariance == Spec => []IInv
  BY InitInv, NextInv, PTL DEF Spec


-----------------------------------------------------------------------------
(* What follows from it *)

\* The entries in use are between none and the capacity.
LEMMA UsedBounds == IInv => tused \in 0 .. Capacity
<1> SUFFICES ASSUME IInv PROVE tused \in 0 .. Capacity
  OBVIOUS
<1>1. /\ tsize \in 0 .. Capacity /\ tused \in Int /\ tsize = tused + Len(freed) + InTransit
      /\ freed \in Seq(Slot) /\ Capacity \in Nat
  BY Sizes DEF IInv, InvTypes, SlotsAccounted
<1>2. Len(freed) \in Nat /\ InTransit \in {0, 1} /\ \A i \in 1 .. Len(freed) : freed[i] \in Slot
  BY <1>1 DEF InTransit
<1> DEFINE S == 1 .. Len(freed)
<1>3. IsFiniteSet(S) /\ Cardinality(S) = Len(freed)
  BY <1>2, FS_Interval
<1>4. ASSUME NEW T, IsFiniteSet(T), \A i \in S : freed[i] \in T
      PROVE  Len(freed) =< Cardinality(T)
  <2> DEFINE f == [i \in S |-> freed[i]]
  <2>1. f \in [S -> T]
    BY <1>4
  <2>2. \A x, y \in S : f[x] = f[y] => x = y
    <3>1. \A x, y \in S : y < x => freed[x] # freed[y]
      BY <1>2 DEF IInv, FreeListOK
    <3>2. QED  BY <1>2, <3>1
  <2> HIDE DEF f
  <2>3. ~(Cardinality(T) < Cardinality(S))
    BY <1>3, <1>4, <2>1, <2>2, FS_PigeonHole
  <2>4. Cardinality(T) \in Nat
    BY <1>4, FS_CardinalityType
  <2>5. QED  BY <1>2, <1>3, <2>3, <2>4
<1> DEFINE All == 0 .. tsize - 1
<1>5. IsFiniteSet(All) /\ Cardinality(All) = tsize
  <2>1. tsize - 1 \in Int /\ 0 \in Int
    BY <1>1
  <2>2. Cardinality(All) = IF 0 > tsize - 1 THEN 0 ELSE tsize - 1 - 0 + 1
    BY <2>1, FS_Interval
  <2>3. Cardinality(All) = tsize
    <3>1. \A n \in Nat : (IF 0 > n - 1 THEN 0 ELSE n - 1 - 0 + 1) = n
      OBVIOUS
    <3>2. QED  BY <1>1, <2>2, <3>1
  <2>4. QED  BY <2>1, <2>3, FS_Interval
<1>6. \A i \in S : freed[i] \in All
  BY <1>1, <1>2, Bounds DEF IInv, FreeListOK
<1>7. Len(freed) + InTransit =< tsize
  <2>1. CASE InTransit = 0
    <3>1. Len(freed) =< tsize
      BY <1>4, <1>5, <1>6
    <3>2. QED  BY <1>1, <1>2, <2>1, <3>1
  <2>2. CASE InTransit = 1
    <3>1. PICK t \in Thread : HandsOn(t)
      BY <2>2 DEF InTransit, InRemove, HandsOn
    <3> DEFINE s == SlotOf(op[t].id)
    <3>2. s \in All /\ \A i \in S : freed[i] # s
      BY <3>1 DEF IInv, InvHands
    <3>3. IsFiniteSet(All \ {s}) /\ Cardinality(All \ {s}) = tsize - 1
      BY <1>5, <3>2, FS_RemoveElement
    <3>4. Len(freed) =< tsize - 1
      BY <1>4, <1>6, <3>2, <3>3
    <3>5. QED  BY <1>1, <1>2, <2>2, <3>4
  <2>3. QED  BY <1>2, <2>1, <2>2
<1>8. QED  BY <1>1, <1>2, <1>7

\* The types of the table's variables.
THEOREM Types == Spec => []TypeOK
<1>1. IInv => TypeOK
  BY UsedBounds DEF IInv, InvTypes, TypeOK
<1>2. QED  BY <1>1, Invariance, PTL

\* The mutex is owned exactly between TABLE_LOCK and TABLE_UNLOCK.
THEOREM MutualExclusion == Spec => []LockInv
<1>1. IInv => LockInv
  BY DEF IInv
<1>2. QED  BY <1>1, Invariance, PTL

\* The links kept in the removed entries always form one list without
\* repetition: no removal, however stale its id, frees a slot twice.
THEOREM FreeListSound == Spec => []FreeListOK
<1>1. IInv => FreeListOK
  BY DEF IInv
<1>2. QED  BY <1>1, Invariance, PTL

\* No slot is lost or counted twice.
THEOREM Accounting == Spec => []SlotsAccounted
<1>1. IInv => SlotsAccounted
  BY DEF IInv
<1>2. QED  BY <1>1, Invariance, PTL

\* A settled slot is a registered one.
LEMMA SettledRegistered == \A s : Settled(s) => Registered(s)
  BY DEF Settled, Registered, Leaving, Holding, HandsOn

\* An id that passes the generation test names a registered allocator.
THEOREM MatchMeansLive == Spec => []MatchingIdIsLive
<1>1. IInv => MatchingIdIsLive
  <2> SUFFICES ASSUME IInv, NEW t \in Thread, pc[t] = "locked",
                      op[t].kind \in {"remove", "query", "valid"}, Matches(op[t].id)
               PROVE  Registered(SlotOf(op[t].id))
    BY DEF MatchingIdIsLive
  <2>1. op[t].id \in Ids
    BY DEF Ids, Flying
  <2>2. tstate = "active"
    BY Alone DEF Critical
  <2>3. QED  BY <2>1, <2>2, SettledRegistered DEF IInv, InvIds
<1>2. QED  BY <1>1, Invariance, PTL

\* A query for an allocator that stays registered is answered with its slot.
THEOREM QueriesAnswered == Spec => []LiveQueryAnswered
<1>1. IInv => LiveQueryAnswered
  BY DEF IInv, InvClean, LiveQueryAnswered
<1>2. QED  BY <1>1, Invariance, PTL

\* A cache hit of hebi_alloc_query, which takes no lock and looks at no table,
\* answers with the slot that the key names.
THEOREM HitsOwn == Spec => []HitsAreOwn
<1>1. IInv => HitsAreOwn
  <2> SUFFICES ASSUME IInv, NEW t \in Thread, NEW i \in Cell,
                      cache[t].keys[i] # EmptyKey, Hit(cache[t], cache[t].keys[i])
               PROVE  cache[t].vals[ProbeCell(cache[t], cache[t].keys[i])] = SlotOf(cache[t].keys[i])
    BY DEF HitsAreOwn, Occupied
  <2>1. cache[t].keys[i] \in Id
    BY DEF IInv, InvCache
  <2>2. QED  BY <2>1, HitFacts
<1>2. QED  BY <1>1, Invariance, PTL

\* Callbacks read through the pointer, outside of the lock, are the ones that
\* were registered under the id.
THEOREM OwnCallbacks == Spec => []CallsOwnCallbacks
<1>1. IInv => CallsOwnCallbacks
  BY DEF IInv, InvOp, InvClean, CallsOwnCallbacks, Live, Matches, Settled
<1>2. QED  BY <1>1, Invariance, PTL

\* What a careful client owns stays registered until it removes it.
THEOREM OwnedRegistered == Spec => []OwnedStaysRegistered
<1>1. IInv => OwnedStaysRegistered
  BY SettledRegistered DEF IInv, InvCareful, OwnedStaysRegistered, Live
<1>2. QED  BY <1>1, Invariance, PTL

\* An id is not given out while a client may still pass it.
THEOREM IdsAreFresh == Spec => FreshIds
<1>1. ASSUME IInv, [Next]_vars, NEW t \in Thread,
             op[t].kind = "add", op[t].id = 0, op'[t].id # 0, op'[t].kind = "add"
      PROVE  op'[t].id \notin known
  <2>1. IInv'
    BY <1>1, NextInv
  <2>2. op[t] # op'[t]
    BY <1>1
  <2>3. PICK u \in Thread : Call(u) \/ Step(u) \/ ReadFn(u)
    BY <1>1, <2>2 DEF Next, vars, Shut
  <2>a. op \in [Thread -> Op]
    BY <1>1 DEF IInv, InvTypes
  <2>4. CASE AddPop(u) \/ AddAppend(u)
    <3>1. u = t /\ known' = known
      BY <2>2, <2>4, <2>a DEF AddPop, AddAppend, Take, hist
    <3>2. pc'[t] = "write_fn"
      BY <1>1, <2>4, <3>1 DEF AddPop, AddAppend, Take, Goto, IInv, InvTypes
    <3>3. Adding(t)'
      BY <1>1, <3>2 DEF Adding, HandsOn
    <3>4. QED  BY <2>1, <3>1, <3>3 DEF IInv, InvOp, Ids
  <2>5. CASE Call(u)
    <3>1. ASSUME NEW cb \in Callback, AddCall(u, cb)  PROVE FALSE
      BY <1>1, <2>2, <2>a, <3>1 DEF AddCall, Begin, NoOp
    <3>2. CASE EarlyCall(u)
      BY <1>1, <2>2, <2>a, <3>2 DEF EarlyCall, Begin, NoOp
    <3>3. ASSUME NEW id \in Passable, RemoveCall(u, id)  PROVE FALSE
      BY <1>1, <2>2, <2>a, <3>3 DEF RemoveCall, Begin, NoOp
    <3>4. ASSUME NEW id \in Passable, ValidCall(u, id)  PROVE FALSE
      BY <1>1, <2>2, <2>a, <3>4 DEF ValidCall, Begin, NoOp
    <3>5. ASSUME NEW id \in Passable, QueryCall(u, id)  PROVE FALSE
      <4>1. CASE CacheAnswers(u, id)
        BY <1>1, <2>2, <2>a, <3>5, <4>1 DEF QueryCall, Begin, NoOp
      <4>2. CASE ~CacheAnswers(u, id)
        BY <1>1, <2>2, <2>a, <3>5, <4>2 DEF QueryCall, Begin, NoOp
      <4>3. QED  BY <4>1, <4>2
    <3>6. QED  BY <2>5, <3>1, <3>2, <3>3, <3>4, <3>5 DEF Call
  <2>6. CASE Return(u)
    BY <1>1, <2>2, <2>6, <2>a DEF Return, NoOp
  <2>7. CASE RemoveEntry(u)
    BY <1>1, <2>7, <2>a, SpoilFacts DEF RemoveEntry
  <2>8. CASE ~(AddPop(u) \/ AddAppend(u) \/ Call(u) \/ Return(u) \/ RemoveEntry(u))
    <3>1. \A o \in Op : /\ \A r : [o EXCEPT !.res = r].id = o.id
                        /\ \A p : [o EXCEPT !.ptr = p].id = o.id
                        /\ \A f : [o EXCEPT !.cb = f].id = o.id
                        /\ \A a : [o EXCEPT !.arg = a].id = o.id
      BY DEF Op
    <3>a. \A q : op' = [op EXCEPT ![u] = q] /\ q.id = op[u].id => op'[t].id = op[t].id
      BY <2>a
    <3>b. op[u] \in Op
      BY <2>a
    <3>2. op'[t].id = op[t].id
      <4>1. CASE Lock(u) \/ AddWriteFn(u) \/ RemoveWriteFn(u)
        BY <4>1 DEF Lock, AddWriteFn, RemoveWriteFn
      <4>2. \A r : op' = [op EXCEPT ![u].res = r] => op'[t].id = op[t].id
        BY <3>1, <3>a, <3>b
      <4>3. CASE Unlock(u)
        BY <4>2, <4>3 DEF Unlock
      <4>4. CASE LockRefused(u) \/ AddFails(u) \/ AddWriteArg(u)
        BY <4>2, <4>4 DEF LockRefused, AddFails, AddWriteArg
      <4>5. CASE RemoveNothing(u) \/ RemoveWriteArg(u) \/ ValidTest(u)
        BY <4>2, <4>5 DEF RemoveNothing, RemoveWriteArg, ValidTest
      <4>6. CASE QueryLookup(u)
        BY <3>1, <3>a, <3>b, <4>6 DEF QueryLookup
      <4>7. CASE ReadFn(u)
        BY <3>1, <3>a, <3>b, <4>7 DEF ReadFn
      <4>8. CASE ReadArg(u)
        BY <3>1, <3>a, <3>b, <4>8 DEF ReadArg
      <4>9. QED
        BY <2>3, <2>8, <4>1, <4>3, <4>4, <4>5, <4>6, <4>7, <4>8 DEF Step
    <3>3. QED  BY <1>1, <3>2
  <2>9. QED  BY <2>4, <2>5, <2>6, <2>7, <2>8
<1>2. IInv /\ [Next]_vars =>
        [\A t \in Thread :
            op[t].kind = "add" /\ op[t].id = 0 /\ op'[t].id # 0 /\ op'[t].kind = "add"
            => op'[t].id \notin known]_vars
  BY <1>1
<1>3. QED  BY <1>2, Invariance, PTL DEF Spec, FreshIds


-----------------------------------------------------------------------------
(* The table implements the registry *)

\* The ids bound in the registry are the keys of the registered slots.
LEMMA RegistrationsFacts ==
    ASSUME IInv
    PROVE  /\ \A s \in Slot : KeyOf(s) \in Id /\ SlotOf(KeyOf(s)) = s
           /\ \A k : k \in DOMAIN Registrations
                        <=> \E s \in Slot : Registered(s) /\ k = KeyOf(s)
           /\ \A s \in Slot : Registered(s) => Registrations[KeyOf(s)] = fn[s]
<1>1. \A s \in Slot : KeyOf(s) \in Id /\ SlotOf(KeyOf(s)) = s
  BY KeyFacts, Sizes DEF IInv, InvTypes, KeyOf, Slot
<1>2. \A k : k \in DOMAIN Registrations <=> \E s \in Slot : Registered(s) /\ k = KeyOf(s)
  BY DEF Registrations
<1>3. \A s \in Slot : Registered(s) => Registrations[KeyOf(s)] = fn[s]
  BY <1>1 DEF Registrations
<1>4. QED  BY <1>1, <1>2, <1>3

\* Steps that change the callbacks and the generation of no registered slot.
LEMMA SameRegistrations ==
    ASSUME IInv, IInv',
           \A s \in Slot : Registered(s)' <=> Registered(s),
           \A s \in Slot : Registered(s) => fn'[s] = fn[s] /\ gen'[s] = gen[s]
    PROVE  Registrations' = Registrations
<1>1. \A s \in Slot : Registered(s) => KeyOf(s)' = KeyOf(s) /\ fn'[s] = fn[s]
  BY DEF KeyOf
<1> DEFINE D == {KeyOf(s) : s \in {r \in Slot : Registered(r)}}
<1>2. D' = D
  BY <1>1
<1>3. \A k \in D : SlotOf(k) \in Slot /\ Registered(SlotOf(k))
  BY RegistrationsFacts
<1>4. QED  BY <1>1, <1>2, <1>3 DEF Registrations

\* A step that leaves the sizes, functions and generations alone binds nothing.
LEMMA FrozenRegistrations ==
    ASSUME IInv, [Next]_vars, UNCHANGED <<tsize, fn, gen>>,
           \A s \in Slot : Leaving(s)' <=> Leaving(s)
    PROVE  Registrations' = Registrations
<1>1. IInv'
  BY NextInv
<1>2. \A s \in Slot : Registered(s)' <=> Registered(s)
  BY DEF Registered
<1>3. QED  BY <1>1, <1>2, SameRegistrations

\* A step that moves no store in progress leaves no slot half-removed.
LEMMA QuietLeaving ==
    ASSUME Undisturbed
    PROVE  \A s : Leaving(s)' <=> Leaving(s)
BY DEF Undisturbed, HandsOn, Leaving

\* The store of the functions of an add is the registration of its id.
LEMMA RegisterStep ==
    ASSUME IInv, NEW t \in Thread, AddWriteFn(t)
    PROVE  Registry!Next
<1> DEFINE id == op[t].id
           cb == op[t].cb
<1>0. IInv'
  BY StepAddWriteFn
<1>1. HandsOn(t) /\ op[t].kind = "add" /\ pc[t] = "write_fn"
  BY DEF AddWriteFn, InAdd, HandsOn
<1>2. PICK s \in Slot :
        /\ s = SlotOf(id) /\ s < tsize /\ tstate = "active"
        /\ id = KeyOf(s) /\ cb \in Callback /\ fn[s] \in {Zeroed, Invalid}
        /\ \A u \in Thread : u # t => ~HandsOn(u)
  BY <1>1, InHand DEF IInv, InvHands, InAdd
<1>3. /\ fn' = [fn EXCEPT ![s] = cb] /\ UNCHANGED <<tsize, gen, tstate, op>>
      /\ \A r \in Slot : r # s => fn'[r] = fn[r]
      /\ fn'[s] = cb
  BY <1>2 DEF AddWriteFn, IInv, InvTypes
<1>4. \A r \in Slot : ~Leaving(r) /\ ~Leaving(r)'
  BY <1>1, <1>2 DEF AddWriteFn, Goto, Leaving, HandsOn
<1>5. ~Registered(s) /\ Registered(s)'
  BY <1>2, <1>3, <1>4, TableAssumption DEF Registered
<1>6. \A r \in Slot : r # s => (Registered(r)' <=> Registered(r))
  BY <1>3, <1>4 DEF Registered
<1>7. \A r \in Slot : KeyOf(r)' = KeyOf(r)
  BY <1>3 DEF KeyOf
<1>8. \A r \in Slot : KeyOf(r) = id <=> r = s
  BY <1>2, RegistrationsFacts
<1>9. id \in Id /\ id \notin DOMAIN Registrations
  BY <1>2, <1>5, <1>8, RegistrationsFacts
<1> DEFINE D == {KeyOf(r) : r \in {q \in Slot : Registered(q)}}
           E == [k \in DOMAIN Registrations \cup {id} |->
                    IF k = id THEN cb ELSE Registrations[k]]
<1>10. D' = D \cup {id} /\ D = DOMAIN Registrations
  BY <1>2, <1>5, <1>6, <1>7, <1>8 DEF Registrations
<1>11. ASSUME NEW k \in D \cup {id}
       PROVE  fn'[SlotOf(k)] = IF k = id THEN cb ELSE Registrations[k]
  <2>1. CASE k = id  BY <1>2, <1>3, <2>1
  <2>2. CASE k # id
    <3>1. PICK r \in Slot : Registered(r) /\ k = KeyOf(r)
      BY <1>11, <2>2
    <3>2. r # s /\ SlotOf(k) = r /\ Registrations[k] = fn[r]
      BY <1>5, <3>1, RegistrationsFacts
    <3>3. QED  BY <1>3, <2>2, <3>2
  <2>3. QED  BY <2>1, <2>2
<1>12. Registrations' = E
  <2>1. Registrations' = [k \in D' |-> fn'[SlotOf(k)]]
    BY DEF Registrations
  <2>2. QED  BY <1>10, <1>11, <2>1
<1>13. Registry!Register(id, cb)
  BY <1>2, <1>3, <1>9, <1>12 DEF Registry!Register, Registry!Bound
<1>14. QED  BY <1>2, <1>9, <1>13 DEF Registry!Next

\* Retiring a generation is the removal of its id from the registry.
LEMMA UnregisterStep ==
    ASSUME IInv, NEW t \in Thread, RemoveEntry(t)
    PROVE  Registry!Next
<1> DEFINE id == op[t].id
<1>0. IInv'
  BY StepRemoveEntry
<1>1. /\ pc[t] = "locked" /\ op[t].kind = "remove" /\ Matches(id) /\ id \in Ids /\ id \in Id
      /\ tstate = "active" /\ \A u \in Thread : ~HandsOn(u)
  BY Alone DEF RemoveEntry, InRemove, RemoveMatches, Critical, HandsOn, Flying, Ids, IInv, InvOp
<1>2. PICK s \in Slot : s = SlotOf(id) /\ s < tsize /\ Settled(s) /\ gen[s] = GenrOf(id)
  BY <1>1, KeyFacts, Bounds DEF IInv, InvTypes, InvIds, Matches
<1>3. id = KeyOf(s) /\ Registered(s)
  BY <1>1, <1>2, KeyFacts, SettledRegistered DEF KeyOf
<1>4. /\ UNCHANGED <<tsize, fn, tstate>>
      /\ \A r \in Slot : r # s => gen'[r] = gen[r]
  BY <1>2 DEF RemoveEntry, IInv, InvTypes
<1>5. pc'[t] = "write_fn" /\ \A u \in Thread : u # t => pc'[u] = pc[u]
  BY <1>1 DEF RemoveEntry, Goto, IInv, InvTypes
<1>6. \A u \in Thread : op'[u].kind = op[u].kind /\ op'[u].id = op[u].id
  BY SpoilFacts DEF RemoveEntry, IInv, InvTypes
<1>7. \A r \in Slot : ~Leaving(r) /\ (Leaving(r)' <=> r = s)
  BY <1>1, <1>2, <1>5, <1>6 DEF Leaving, HandsOn
<1>8. ~Registered(s)' /\ \A r \in Slot : r # s => (Registered(r)' <=> Registered(r))
  BY <1>4, <1>7 DEF Registered
<1>9. \A r \in Slot : r # s => KeyOf(r)' = KeyOf(r) /\ KeyOf(r) # id
  BY <1>2, <1>4, RegistrationsFacts DEF KeyOf
<1> DEFINE D == {KeyOf(r) : r \in {q \in Slot : Registered(q)}}
<1>10. D' = D \ {id} /\ D = DOMAIN Registrations /\ id \in D
  BY <1>3, <1>8, <1>9 DEF Registrations
<1>11. \A k \in D \ {id} : fn'[SlotOf(k)] = Registrations[k]
  BY <1>4, RegistrationsFacts
<1>12. Registrations' = [k \in D \ {id} |-> Registrations[k]]
  <2>1. Registrations' = [k \in D' |-> fn'[SlotOf(k)]]
    BY DEF Registrations
  <2>2. QED  BY <1>10, <1>11, <2>1
<1>13. Registry!Unregister(id)
  BY <1>4, <1>10, <1>12 DEF Registry!Unregister, Registry!Bound
<1>14. QED  BY <1>10, <1>13 DEF Registry!Next, Registry!Bound

\* The shutdown of the table closes the registry.
LEMMA CloseStep ==
    ASSUME IInv, Shut
    PROVE  Registry!Next
<1>1. \A s \in Slot : ~Registered(s)'
  BY Sizes DEF Shut, Registered
<1>2. Registrations' = [id \in {} |-> 0]
  BY <1>1 DEF Registrations
<1>3. Registry!Close
  BY <1>2 DEF Registry!Close, Shut
<1>4. QED  BY <1>3 DEF Registry!Next


\* Every other step is invisible in the registry.
LEMMA OtherSteps ==
    ASSUME IInv, NEW t \in Thread,
           \/ Call(t) \/ ReadFn(t) \/ Lock(t) \/ LockRefused(t) \/ Unlock(t) \/ AddPop(t)
           \/ AddAppend(t) \/ AddFails(t) \/ AddWriteArg(t) \/ RemoveNothing(t)
           \/ RemoveWriteFn(t) \/ RemoveWriteArg(t) \/ QueryLookup(t) \/ ValidTest(t)
           \/ Return(t) \/ ReadArg(t)
    PROVE  UNCHANGED <<Registrations, tstate # "shut">>
<1>0. [Next]_vars /\ IInv'
  <2>1. Next
    BY DEF Next, Step
  <2>2. QED  BY <2>1, NextInv
<1>z. op \in [Thread -> Op] /\ pc \in [Thread -> Places]
  BY DEF IInv, InvTypes
<1>1. CASE Call(t)
  <2>1. \E o, w : op' = [op EXCEPT ![t] = o] /\ pc' = [pc EXCEPT ![t] = w] /\ w # "write_fn"
        /\ pc[t] = "idle" /\ UNCHANGED <<tsize, fn, gen, tstate>>
    <3>1. CASE \E cb \in Callback : AddCall(t, cb)
      BY <3>1 DEF AddCall, Begin, Goto, table
    <3>2. CASE EarlyCall(t)
      BY <3>2 DEF EarlyCall, Begin, Goto, table
    <3>3. CASE \E id \in Passable : RemoveCall(t, id)
      BY <3>3 DEF RemoveCall, Begin, Goto, table
    <3>4. CASE \E id \in Passable : ValidCall(t, id)
      BY <3>4 DEF ValidCall, Begin, Goto, table
    <3>5. ASSUME NEW id \in Passable, QueryCall(t, id)
          PROVE  \E o, w : op' = [op EXCEPT ![t] = o] /\ pc' = [pc EXCEPT ![t] = w]
                           /\ w # "write_fn"
                           /\ pc[t] = "idle" /\ UNCHANGED <<tsize, fn, gen, tstate>>
      <4>1. CASE CacheAnswers(t, id)
        BY <3>5, <4>1 DEF QueryCall, Begin, Goto, table
      <4>2. CASE ~CacheAnswers(t, id)
        BY <3>5, <4>2 DEF QueryCall, Begin, Goto, table
      <4>3. QED  BY <4>1, <4>2
    <3>6. QED  BY <1>1, <3>1, <3>2, <3>3, <3>4, <3>5 DEF Call
  <2>2. \A s \in Slot : Leaving(s)' <=> Leaving(s)
    BY <1>z, <2>1 DEF Leaving
  <2>3. QED  BY <1>0, <2>1, <2>2, FrozenRegistrations
<1>2. CASE ReadFn(t) \/ LockRefused(t) \/ AddFails(t) \/ RemoveNothing(t) \/ QueryLookup(t)
           \/ ValidTest(t) \/ Return(t) \/ ReadArg(t) \/ Lock(t) \/ Unlock(t)
  <2>1. /\ \A u \in Thread : u # t => op'[u] = op[u] /\ pc'[u] = pc[u]
        /\ pc'[t] # "write_fn" /\ pc[t] # "write_fn"
        /\ UNCHANGED <<tsize, fn, gen>> /\ (tstate' = "shut" <=> tstate = "shut")
    <3>1. CASE ReadFn(t) \/ LockRefused(t) \/ AddFails(t) \/ RemoveNothing(t)
      BY <3>1, <1>z DEF ReadFn, LockRefused, AddFails, RemoveNothing, Goto, InAdd, InRemove, table
    <3>2. CASE QueryLookup(t) \/ ValidTest(t) \/ Return(t) \/ ReadArg(t)
      BY <3>2, <1>z DEF QueryLookup, ValidTest, Return, ReadArg, Goto, table
    <3>3. CASE Lock(t)
      BY <3>3, <1>z DEF Lock, Goto
    <3>4. CASE Unlock(t)
      BY <3>4, <1>z DEF Unlock, Goto
    <3>5. QED  BY <1>2, <3>1, <3>2, <3>3, <3>4
  <2>2. \A s \in Slot : Leaving(s)' <=> Leaving(s)
    BY <2>1 DEF Leaving
  <2>3. QED  BY <1>0, <2>1, <2>2, FrozenRegistrations
<1>3. CASE AddWriteArg(t) \/ RemoveWriteArg(t)
  <2>1. /\ \A u \in Thread : u # t => op'[u] = op[u] /\ pc'[u] = pc[u]
        /\ pc'[t] # "write_fn" /\ pc[t] # "write_fn"
        /\ UNCHANGED <<tsize, fn, gen, tstate>>
    BY <1>3, <1>z DEF AddWriteArg, RemoveWriteArg, InAdd, InRemove, Goto, hist
  <2>2. \A s \in Slot : Leaving(s)' <=> Leaving(s)
    BY <2>1 DEF Leaving
  <2>3. QED  BY <1>0, <2>1, <2>2, FrozenRegistrations
<1>4. CASE AddPop(t) \/ AddAppend(t)
  <2>1. /\ \A u \in Thread : u # t => op'[u] = op[u] /\ pc'[u] = pc[u]
        /\ op[t].kind = "add" /\ op'[t].kind = "add"
        /\ UNCHANGED <<fn, gen, tstate>>
        /\ tsize' = tsize \/ (tsize' = tsize + 1 /\ tsize \in Nat)
    BY <1>4, <1>z DEF AddPop, AddAppend, Take, InAdd, Goto, hist, IInv, InvTypes, Op
  <2>2. \A s \in Slot : Leaving(s)' <=> Leaving(s)
    BY <2>1 DEF Leaving
  <2>3. tstate = "active"
    BY <1>4, Alone DEF AddPop, AddAppend, InAdd, Critical
  <2>4. \A s \in Slot : fn[s] \in Callback => s < tsize
    <3>1. \A s \in Slot : s >= tsize => fn[s] \notin Callback
      BY <2>3, TableAssumption DEF IInv, InvFresh
    <3>2. QED  BY <3>1, Sizes DEF IInv, InvTypes
  <2>5. \A s \in Slot : s < tsize => s < tsize'
    BY <2>1, Sizes
  <2>6. \A s \in Slot : Registered(s)' <=> Registered(s)
    BY <2>1, <2>2, <2>4, <2>5 DEF Registered
  <2>7. QED  BY <1>0, <2>1, <2>6, SameRegistrations
<1>5. CASE RemoveWriteFn(t)
  <2> DEFINE s == SlotOf(op[t].id)
  <2>1. HandsOn(t) /\ pc[t] = "write_fn" /\ op[t].kind = "remove"
    BY <1>5 DEF RemoveWriteFn, InRemove, HandsOn
  <2>2. s \in Slot /\ \A u \in Thread : u # t => ~HandsOn(u)
    BY <2>1, InHand
  <2>3. /\ fn'[s] = Invalid /\ \A r \in Slot : r # s => fn'[r] = fn[r]
        /\ UNCHANGED <<tsize, gen, tstate, op>>
        /\ pc'[t] = "write_arg" /\ \A u \in Thread : u # t => pc'[u] = pc[u]
    BY <1>5, <2>2 DEF RemoveWriteFn, Goto, IInv, InvTypes
  <2>4. \A r \in Slot : ~Leaving(r)' /\ (Leaving(r) <=> r = s)
    BY <2>1, <2>2, <2>3 DEF Leaving, HandsOn
  <2>5. \A r \in Slot : Registered(r)' <=> Registered(r)
    BY <2>2, <2>3, <2>4, TableAssumption DEF Registered
  <2>6. \A r \in Slot : Registered(r) => r # s
    BY <2>4 DEF Registered
  <2>7. QED  BY <1>0, <2>3, <2>5, <2>6, SameRegistrations
<1>6. QED  BY <1>1, <1>2, <1>3, <1>4, <1>5

\* The table, whatever the interleaving of its callers, behaves as a registry:
\* bindings appear and disappear whole, one at a time, and the shutdown is final.
THEOREM TableImplementsRegistry == Spec => RegistrySpec
<1>1. Init => Registry!Init
  <2> SUFFICES ASSUME Init PROVE Registry!Init
    OBVIOUS
  <2>1. \A s \in Slot : ~Registered(s)
    BY Sizes DEF Init, Registered
  <2>2. Registrations = [id \in {} |-> 0]
    BY <2>1 DEF Registrations
  <2>3. QED  BY <2>2 DEF Registry!Init, Init
<1>2. IInv /\ [Next]_vars => [Registry!Next]_(Registry!vars)
  <2> SUFFICES ASSUME IInv, [Next]_vars PROVE [Registry!Next]_(Registry!vars)
    OBVIOUS
  <2>1. CASE UNCHANGED vars
    <3>1. \A s \in Slot : Leaving(s)' <=> Leaving(s)
      BY <2>1 DEF vars, Leaving
    <3>2. Registrations' = Registrations
      BY <2>1, <3>1, FrozenRegistrations DEF vars, table
    <3>3. QED  BY <2>1, <3>2 DEF Registry!vars, vars, table
  <2>2. CASE Shut
    BY <2>2, CloseStep
  <2>3. ASSUME NEW t \in Thread, Call(t) \/ Step(t) \/ ReadFn(t)
        PROVE  [Registry!Next]_(Registry!vars)
    <3>1. CASE AddWriteFn(t)   BY <3>1, RegisterStep
    <3>2. CASE RemoveEntry(t)  BY <3>2, UnregisterStep
    <3>3. CASE ~AddWriteFn(t) /\ ~RemoveEntry(t)
      <4>1. UNCHANGED <<Registrations, tstate # "shut">>
        BY <2>3, <3>3, OtherSteps DEF Step
      <4>2. QED  BY <4>1 DEF Registry!vars
    <3>4. QED  BY <3>1, <3>2, <3>3
  <2>4. QED  BY <2>1, <2>2, <2>3 DEF Next
<1>3. QED
  BY <1>1, <1>2, Invariance, PTL DEF Spec, RegistrySpec, Registry!Spec


-----------------------------------------------------------------------------
(* The table is full when an add says so *)

\* When no page is left every slot serves a registered allocator.
LEMMA FullWhenRefused ==
    ASSUME IInv, NEW t \in Thread, AddFails(t), ~PagesLeft
    PROVE  \A s \in Slot : Registered(s)
<1>1. PICK p \in 0 .. MaxPages : tresv = p * PageSize
  BY DEF IInv, InvTypes
<1>2. p = MaxPages
  BY <1>1, Pages, TableAssumption DEF PagesLeft
<1>3. tsize >= Capacity
  BY <1>1, <1>2 DEF AddFails, NeedsPage, Capacity
<1>4. tsize = Capacity /\ \A s \in Slot : s < tsize
  BY <1>3, Sizes DEF IInv, InvTypes, Slot
<1>5. freed = <<>>
  <2> SUFFICES ASSUME freed # <<>> PROVE FALSE
    OBVIOUS
  <2>1. Len(freed) \in 1 .. Len(freed)
    BY DEF IInv, InvTypes
  <2>2. tfreelist < tsize
    BY <2>1 DEF IInv, FreeListOK
  <2>3. QED  BY <2>2, Sizes DEF AddFails, IInv, InvTypes, ListEnd
<1>6. \A u \in Thread : ~HandsOn(u)
  BY Alone DEF AddFails, InAdd, Critical, HandsOn
<1>7. \A s \in Slot : Settled(s)
  BY <1>4, <1>5, <1>6 DEF IInv, InvSlots, Holding
<1>8. QED  BY <1>7, SettledRegistered

\* It stays so until the refused add returns, since it owns the mutex.
LEMMA StaysFull ==
    ASSUME IInv, NoSlotsMeansFull, [Next]_vars
    PROVE  NoSlotsMeansFull'
<1> SUFFICES ASSUME NEW t \in Thread, pc'[t] = "unlock", op'[t].res = "ENOSLOTS"
             PROVE  \A s \in Slot : Registered(s)'
  BY DEF NoSlotsMeansFull
<1>z. op \in [Thread -> Op] /\ pc \in [Thread -> Places]
  BY DEF IInv, InvTypes
<1>1. CASE UNCHANGED vars
  <2>1. \A s \in Slot : Registered(s)' <=> Registered(s)
    BY <1>1 DEF vars, table, Registered, Leaving
  <2>2. QED  BY <1>1, <2>1 DEF vars, NoSlotsMeansFull
<1>2. CASE Shut
  BY <1>2 DEF Shut
<1>3. ASSUME NEW u \in Thread, Call(u) \/ Step(u) \/ ReadFn(u)
      PROVE  \A s \in Slot : Registered(s)'
  <2>1. CASE u = t /\ AddFails(t)
    <3>1. ~PagesLeft
      BY <1>z, <2>1 DEF AddFails
    <3>2. \A s \in Slot : Registered(s)
      BY <2>1, <3>1, FullWhenRefused
    <3>3. \A s \in Slot : Registered(s)' <=> Registered(s)
      BY <1>z, <2>1 DEF AddFails, InAdd, Goto, table, Registered, Leaving
    <3>4. QED  BY <3>2, <3>3
  <2>2. CASE u = t /\ ~AddFails(t)
    <3>1. pc[t] = "locked" => op[t].res = "none"
      BY DEF IInv, InvOp
    <3>2. CASE Call(t)
      BY <1>z, <3>2 DEF Call, AddCall, EarlyCall, RemoveCall, ValidCall, QueryCall, Begin, Goto
    <3>3. CASE AddWriteArg(t) \/ RemoveWriteArg(t)
      BY <1>z, <3>3 DEF AddWriteArg, RemoveWriteArg, Op
    <3>4. CASE RemoveNothing(t) \/ ValidTest(t)
      BY <1>z, <3>4 DEF RemoveNothing, ValidTest, Op
    <3>5. CASE QueryLookup(t)
      BY <1>z, <3>1, <3>5 DEF QueryLookup, Op
    <3>6. CASE Lock(t) \/ LockRefused(t) \/ Unlock(t) \/ AddPop(t) \/ AddAppend(t)
      BY <1>z, <3>6 DEF Lock, LockRefused, Unlock, AddPop, AddAppend, Take, Goto
    <3>7. CASE AddWriteFn(t) \/ RemoveEntry(t) \/ RemoveWriteFn(t)
      BY <1>z, <3>7 DEF AddWriteFn, RemoveEntry, RemoveWriteFn, Goto
    <3>8. CASE Return(t) \/ ReadArg(t) \/ ReadFn(t)
      BY <1>z, <3>8 DEF Return, ReadArg, ReadFn, Goto
    <3>9. QED
      BY <1>3, <2>2, <3>2, <3>3, <3>4, <3>5, <3>6, <3>7, <3>8 DEF Step
  <2>3. CASE u # t
    <3>1. pc'[t] = pc[t] /\ pc[t] = "unlock" /\ op'[t].res = op[t].res
      <4>1. pc'[t] = pc[t]
        BY <1>3, <1>z, <2>3
        DEF Call, AddCall, EarlyCall, RemoveCall, ValidCall, QueryCall, Begin, Goto, Step, Take,
            Lock, LockRefused, Unlock, AddPop, AddAppend, AddFails, AddWriteFn, AddWriteArg,
            RemoveEntry, RemoveNothing, RemoveWriteFn, RemoveWriteArg, QueryLookup, ValidTest,
            Return, ReadArg, ReadFn
      <4>2. CASE RemoveEntry(u)
        BY <4>1, <4>2, <1>z, SpoilFacts DEF RemoveEntry
      <4>3. CASE ~RemoveEntry(u)
        BY <1>3, <1>z, <2>3, <4>1, <4>3
        DEF Call, AddCall, EarlyCall, RemoveCall, ValidCall, QueryCall, Begin, Goto, Step, Take,
            Lock, LockRefused, Unlock, AddPop, AddAppend, AddFails, AddWriteFn, AddWriteArg,
            RemoveNothing, RemoveWriteFn, RemoveWriteArg, QueryLookup, ValidTest,
            Return, ReadArg, ReadFn
      <4>4. QED  BY <4>2, <4>3
    <3>2. \A s \in Slot : Registered(s)
      BY <3>1 DEF NoSlotsMeansFull
    <3>3. tmutex = t /\ pc[u] \notin Critical
      BY <2>3, <3>1, Alone DEF Critical
    <3>4. ~RemoveEntry(u) /\ ~Lock(u) /\ ~Unlock(u) /\ ~AddPop(u) /\ ~AddAppend(u) /\ ~AddFails(u)
          /\ ~AddWriteFn(u) /\ ~AddWriteArg(u) /\ ~RemoveNothing(u) /\ ~RemoveWriteFn(u)
          /\ ~RemoveWriteArg(u) /\ ~QueryLookup(u) /\ ~ValidTest(u)
      BY <3>3, TableAssumption
      DEF Critical, RemoveEntry, Lock, Unlock, AddPop, AddAppend, AddFails, AddWriteFn,
          AddWriteArg, RemoveNothing, RemoveWriteFn, RemoveWriteArg, QueryLookup, ValidTest,
          InAdd, InRemove
    <3>5. /\ UNCHANGED <<tsize, fn>>
          /\ pc[u] # "write_fn" /\ pc'[u] # "write_fn"
          /\ \A v \in Thread : v # u => op'[v] = op[v] /\ pc'[v] = pc[v]
      <4>1. CASE Call(u)
        BY <1>z, <4>1
        DEF Call, AddCall, EarlyCall, RemoveCall, ValidCall, QueryCall, Begin, Goto, table
      <4>2. CASE LockRefused(u) \/ Return(u) \/ ReadArg(u) \/ ReadFn(u)
        BY <1>z, <4>2 DEF LockRefused, Return, ReadArg, ReadFn, Goto, table
      <4>3. QED  BY <1>3, <3>4, <4>1, <4>2 DEF Step
    <3>6. \A s \in Slot : Registered(s)' <=> Registered(s)
      BY <3>5 DEF Registered, Leaving
    <3>7. QED  BY <3>2, <3>6
  <2>4. QED  BY <2>1, <2>2, <2>3
<1>4. QED  BY <1>1, <1>2, <1>3 DEF Next

\* hebi_alloc_add says ENOSLOTS only when every slot serves an allocator.
THEOREM RefusedOnlyWhenFull == Spec => []NoSlotsMeansFull
<1>1. Init => NoSlotsMeansFull
  BY DEF Init, NoSlotsMeansFull
<1>2. IInv /\ NoSlotsMeansFull /\ [Next]_vars => NoSlotsMeansFull'
  BY StaysFull
<1>3. QED  BY <1>1, <1>2, Invariance, PTL DEF Spec

-----------------------------------------------------------------------------
(* The caches of hebi_alloc_query stay sound, for any size and limit of a  *)
(* cache.  A probe loop tests up to `used` cells, and `used` counts the    *)
(* occupied ones: the loop that finds them all ends one cell behind, which *)
(* is empty, since a cache is cleared before it is full.  That is where    *)
(* the next key goes.                                                      *)

\* The entry in cell i is n steps behind the cell of its hash, and the probe loop
\* that looks for its key ends at none of the cells before.
FoundAfter(c, i, n) ==
    /\ Probe(c.keys[i], n) = i
    /\ \A m \in 0 .. n - 1 : c.keys[Probe(c.keys[i], m)] \notin {EmptyKey, c.keys[i]}

Found(c, i) == \E n \in 0 .. c.used - 1 : FoundAfter(c, i, n)

\* What a cache is between two calls.
CacheOK(c) ==
    /\ c.used \in 0 .. CacheMaxUsed
    /\ c.keys \in [Cell -> Id \cup {EmptyKey}]
    /\ c.used = Cardinality(Occupied(c))
    /\ \A i \in Occupied(c) : Found(c, i)

InvEntries ==
    /\ DOMAIN cache = Thread /\ cache = [t \in Thread |-> cache[t]]
    /\ \A t \in Thread : CacheOK(cache[t])

\* Thread t looks its id up in the table, not having found it in its cache.
LookingUp(t) == op[t].kind = "query" /\ pc[t] \in {"lock", "locked", "unlock"}

InvMissed ==
    \A t \in Thread : LookingUp(t) => op[t].id \in Id /\ ~Hit(cache[t], op[t].id)

CInv == InvEntries /\ InvMissed

-----------------------------------------------------------------------------
(* Probing *)

\* Dividing a number below twice the divisor subtracts it at most once.
LEMMA Wrap ==
    ASSUME NEW k \in Nat \ {0}, NEW a \in 0 .. 2 * k - 1
    PROVE  a % k = IF a < k THEN a ELSE a - k
<1> DEFINE q == a \div k
           r == a % k
<1>1. q \in Int /\ r \in 0 .. k - 1 /\ a = k * q + r
  OBVIOUS
<1> HIDE DEF q, r
<1>2. q >= 2 => k * q >= k * 2
  BY <1>1
<1>3. q =< -1 => k * q =< k * (-1)
  BY <1>1
<1>4. q \in {0, 1}
  BY <1>1, <1>2, <1>3
<1>5. QED  BY <1>1, <1>4 DEF r

\* The cells that a probe loop tests are cells of the cache, and different.
LEMMA Probing ==
    ASSUME NEW key \in Id
    PROVE  /\ Probe(key, 0) = Hash(key)
           /\ \A n \in 0 .. CacheSize - 1 : Probe(key, n) \in Cell
           /\ \A m, n \in 0 .. CacheSize - 1 : Probe(key, m) = Probe(key, n) => m = n
<1>1. Hash(key) \in 0 .. CacheSize - 1 /\ CacheSize \in Nat \ {0}
  BY HashType, CacheAssumption DEF Cell
<1> DEFINE h == Hash(key)
<1>2. \A n \in 0 .. CacheSize - 1 :
        Probe(key, n) = IF h + n < CacheSize THEN h + n ELSE h + n - CacheSize
  BY <1>1, Wrap DEF Probe
<1> HIDE DEF h
<1>3. h \in 0 .. CacheSize - 1 /\ h = Hash(key)
  BY <1>1 DEF h
<1>4. Probe(key, 0) = h
  BY <1>1, <1>2, <1>3
<1>5. \A n \in 0 .. CacheSize - 1 : Probe(key, n) \in Cell
  BY <1>1, <1>2, <1>3 DEF Cell
<1>6. \A m, n \in 0 .. CacheSize - 1 : Probe(key, m) = Probe(key, n) => m = n
  BY <1>1, <1>2, <1>3
<1>7. QED  BY <1>3, <1>4, <1>5, <1>6

\* An entry that is found where it should be is hit there.
LEMMA FoundIsHit ==
    ASSUME NEW c, CacheOK(c), NEW i \in Occupied(c)
    PROVE  Hit(c, c.keys[i]) /\ ProbeCell(c, c.keys[i]) = i
<1> DEFINE k == c.keys[i]
           p == ProbeLength(c, k)
<1>1. c.used \in Nat /\ c.used < CacheSize /\ k # EmptyKey
  BY CacheAssumption DEF CacheOK, Occupied
<1>2. PICK n \in 0 .. c.used - 1 :
        /\ Probe(k, n) = i
        /\ \A m \in 0 .. n - 1 : c.keys[Probe(k, m)] \notin {EmptyKey, k}
  BY DEF CacheOK, Found, FoundAfter
<1>3. /\ p \in 0 .. c.used /\ ProbeEnds(c, k, p)
      /\ \A m \in 0 .. p - 1 : ~ProbeEnds(c, k, m)
  BY <1>1, ProbeStops
<1> HIDE DEF p
<1>4. ProbeEnds(c, k, n)
  BY <1>2 DEF ProbeEnds
<1>5. ~(n < p)
  BY <1>1, <1>2, <1>3, <1>4
<1>6. ~(p < n)
  BY <1>1, <1>2, <1>3 DEF ProbeEnds
<1>7. p = n
  BY <1>1, <1>2, <1>3, <1>5, <1>6
<1>8. QED
  BY <1>1, <1>2, <1>7 DEF Hit, ProbeCell, p

\* The cells with an entry are finitely many.
LEMMA OccupiedFinite == \A c : IsFiniteSet(Occupied(c))
<1>1. IsFiniteSet(Cell)
  BY CacheAssumption, FS_Interval DEF Cell
<1>2. QED  BY <1>1, FS_Subset DEF Occupied

\* The loop of a key that is not in the cache ends at an empty cell, at most
\* `used` steps behind the cell of the hash.
LEMMA MissEndsAtEmpty ==
    ASSUME NEW c, CacheOK(c), NEW key \in Id, ~Hit(c, key), c.used > 0
    PROVE  \E n \in 0 .. c.used :
              /\ Probe(key, n) = ProbeCell(c, key)
              /\ ProbeCell(c, key) \in Cell \ Occupied(c)
              /\ \A m \in 0 .. n - 1 : c.keys[Probe(key, m)] \notin {EmptyKey, key}
<1> DEFINE n == ProbeLength(c, key)
<1>1. c.used \in Nat /\ c.used < CacheSize /\ CacheSize \in Nat
  BY CacheAssumption DEF CacheOK
<1>2. /\ n \in 0 .. c.used /\ ProbeEnds(c, key, n)
      /\ \A m \in 0 .. n - 1 : ~ProbeEnds(c, key, m)
  BY <1>1, ProbeStops
<1>3. Probe(key, n) = ProbeCell(c, key)
  BY DEF ProbeCell
<1>4. ~(n < c.used /\ c.keys[Probe(key, n)] = key)
  BY <1>3 DEF Hit
<1> HIDE DEF n
<1>5. \A m \in 0 .. n - 1 : c.keys[Probe(key, m)] \notin {EmptyKey, key}
  BY <1>2 DEF ProbeEnds
<1>6. Probe(key, n) \in Cell
  BY <1>1, <1>2, Probing
<1>7. CASE n < c.used
  <2>1. c.keys[Probe(key, n)] = EmptyKey
    BY <1>1, <1>2, <1>4, <1>7 DEF ProbeEnds
  <2>2. QED  BY <1>2, <1>3, <1>5, <1>6, <2>1 DEF Occupied
<1>8. CASE n = c.used
  <2> DEFINE S == 0 .. c.used - 1
             T == Occupied(c) \ {Probe(key, n)}
             f == [m \in S |-> Probe(key, m)]
  <2>1. SUFFICES ASSUME Probe(key, n) \in Occupied(c) PROVE FALSE
    BY <1>2, <1>3, <1>5, <1>6
  <2>2. f \in [S -> T]
    <3> SUFFICES ASSUME NEW m \in S PROVE Probe(key, m) \in T
      OBVIOUS
    <3>1. m \in 0 .. CacheSize - 1 /\ n \in 0 .. CacheSize - 1 /\ m # n
      BY <1>1, <1>8
    <3>2. Probe(key, m) \in Cell /\ Probe(key, m) # Probe(key, n)
      BY <3>1, Probing
    <3>3. c.keys[Probe(key, m)] # EmptyKey
      BY <1>5, <1>8
    <3>4. QED  BY <3>2, <3>3 DEF Occupied
  <2>3. \A l, m \in S : f[l] = f[m] => l = m
    <3> SUFFICES ASSUME NEW l \in S, NEW m \in S, Probe(key, l) = Probe(key, m) PROVE l = m
      OBVIOUS
    <3>1. l \in 0 .. CacheSize - 1 /\ m \in 0 .. CacheSize - 1
      BY <1>1
    <3>2. QED  BY <3>1, Probing
  <2>4. IsFiniteSet(S) /\ Cardinality(S) = c.used
    <3>1. 0 \in Int /\ c.used - 1 \in Int
      BY <1>1
    <3>2. /\ IsFiniteSet(0 .. c.used - 1)
          /\ Cardinality(0 .. c.used - 1) = IF 0 > c.used - 1 THEN 0 ELSE c.used - 1 - 0 + 1
      BY <3>1, FS_Interval
    <3>3. QED  BY <1>1, <3>2
  <2>5. IsFiniteSet(T) /\ Cardinality(T) = c.used - 1
    BY <2>1, OccupiedFinite, FS_RemoveElement DEF CacheOK
  <2> HIDE DEF S, T, f
  <2>6. Cardinality(T) < Cardinality(S)
    BY <1>1, <2>4, <2>5
  <2>7. QED  BY <2>2, <2>3, <2>4, <2>5, <2>6, FS_PigeonHole
<1>9. QED  BY <1>1, <1>2, <1>7, <1>8

-----------------------------------------------------------------------------
(* The steps *)

\* The cache that is cleared before each use, or never used, is in order.
LEMMA EmptyCacheOK == CacheOK(EmptyCache)
<1>1. Occupied(EmptyCache) = {}
  BY DEF Occupied, EmptyCache
<1>2. Cardinality({}) = 0
  BY FS_EmptySet
<1>3. QED
  BY <1>1, <1>2, CacheAssumption DEF CacheOK, EmptyCache

\* The store after a missed query keeps a cache in order: the one entry of a
\* cleared cache is in the cell of its hash; otherwise the new entry is in a cell
\* that was empty, so that no older one is displaced or cut off.
LEMMA InsertKeepsOrder ==
    ASSUME NEW c, CacheOK(c), NEW key \in Id, NEW ptr, ~Hit(c, key)
    PROVE  CacheOK(Insert(c, key, ptr))
<1> DEFINE d == Insert(c, key, ptr)
<1>1. /\ c.used \in Nat /\ c.used =< CacheMaxUsed /\ CacheMaxUsed \in Nat /\ CacheMaxUsed > 0
      /\ CacheMaxUsed < CacheSize /\ CacheSize \in Nat
      /\ key # EmptyKey
  BY CacheAssumption, KeyFacts DEF CacheOK, EmptyKey
<1>2. CASE MustReset(c)
  <2> DEFINE i == Hash(key)
  <2>1. i \in Cell
    BY HashType
  <2>2. d.used = 1 /\ d.keys = [[j \in Cell |-> EmptyKey] EXCEPT ![i] = key]
    BY <1>2 DEF Insert, UsedAfter, KeysBefore
  <2> HIDE DEF d, i
  <2>3. d.keys[i] = key /\ \A j \in Cell : j # i => d.keys[j] = EmptyKey
    BY <2>1, <2>2
  <2>4. Occupied(d) = {i}
    BY <1>1, <2>1, <2>3 DEF Occupied
  <2>5. Cardinality(Occupied(d)) = 1
    BY <2>4, FS_Singleton
  <2>6. Found(d, i)
    <3>1. Probe(key, 0) = i
      BY Probing DEF i
    <3>2. 0 \in 0 .. d.used - 1 /\ 0 .. 0 - 1 = {}
      BY <2>2
    <3>3. QED  BY <2>3, <3>1, <3>2 DEF Found, FoundAfter
  <2>7. d.keys \in [Cell -> Id \cup {EmptyKey}]
    BY <2>1, <2>2
  <2>8. d.used \in 0 .. CacheMaxUsed
    BY <1>1, <2>2
  <2>9. CacheOK(d)
    BY <2>2, <2>4, <2>5, <2>6, <2>7, <2>8 DEF CacheOK
  <2>10. QED  BY <2>9 DEF d
<1>3. CASE ~MustReset(c)
  <2> DEFINE i == ProbeCell(c, key)
  <2>1. c.used > 0 /\ c.used < CacheMaxUsed
    BY <1>1, <1>3 DEF MustReset
  <2>2. PICK n \in 0 .. c.used :
          /\ Probe(key, n) = i
          /\ i \in Cell \ Occupied(c)
          /\ \A m \in 0 .. n - 1 : c.keys[Probe(key, m)] \notin {EmptyKey, key}
    BY <2>1, MissEndsAtEmpty
  <2>3. d.used = c.used + 1 /\ d.keys = [c.keys EXCEPT ![i] = key]
    BY <1>3 DEF Insert, InsertCell, UsedAfter, KeysBefore
  <2> HIDE DEF d, i
  <2>4. /\ d.keys \in [Cell -> Id \cup {EmptyKey}]
        /\ d.keys[i] = key
        /\ \A j \in Cell : j # i => d.keys[j] = c.keys[j]
        /\ c.keys[i] = EmptyKey
    BY <2>2, <2>3 DEF CacheOK, Occupied
  <2>5. Occupied(d) = Occupied(c) \cup {i} /\ i \notin Occupied(c)
    BY <1>1, <2>2, <2>4 DEF Occupied
  <2>6. Cardinality(Occupied(d)) = d.used
    BY <2>3, <2>5, OccupiedFinite, FS_AddElement DEF CacheOK
  <2>7. \A k \in Id, l \in 0 .. c.used :
          (\A m \in 0 .. l - 1 : c.keys[Probe(k, m)] \notin {EmptyKey, k})
          => \A m \in 0 .. l - 1 : d.keys[Probe(k, m)] \notin {EmptyKey, k}
    <3> SUFFICES ASSUME NEW k \in Id, NEW l \in 0 .. c.used, NEW m \in 0 .. l - 1,
                        c.keys[Probe(k, m)] \notin {EmptyKey, k}
                 PROVE  d.keys[Probe(k, m)] \notin {EmptyKey, k}
      OBVIOUS
    <3>1. m \in 0 .. CacheSize - 1
      BY <1>1
    <3>2. Probe(k, m) \in Cell /\ Probe(k, m) # i
      BY <2>4, <3>1, Probing
    <3>3. QED  BY <2>4, <3>2
  <2>8. Found(d, i)
    <3>1. n \in 0 .. d.used - 1
      BY <1>1, <2>3
    <3>2. \A m \in 0 .. n - 1 : d.keys[Probe(key, m)] \notin {EmptyKey, key}
      BY <2>2, <2>7
    <3>3. QED  BY <2>2, <2>4, <3>1, <3>2 DEF Found, FoundAfter
  <2>9. ASSUME NEW j \in Occupied(c) PROVE Found(d, j)
    <3>1. PICK l \in 0 .. c.used - 1 : FoundAfter(c, j, l)
      BY DEF CacheOK, Found
    <3>2. j \in Cell /\ d.keys[j] = c.keys[j] /\ c.keys[j] \in Id
      BY <2>4, <2>5 DEF Occupied, CacheOK
    <3>3. l \in 0 .. d.used - 1 /\ l \in 0 .. c.used
      BY <1>1, <2>3
    <3>4. FoundAfter(d, j, l)
      BY <2>7, <3>1, <3>2, <3>3 DEF FoundAfter
    <3>5. QED  BY <3>3, <3>4 DEF Found
  <2>10. d.used \in 0 .. CacheMaxUsed
    BY <1>1, <2>1, <2>3
  <2>11. CacheOK(d)
    BY <2>4, <2>5, <2>6, <2>8, <2>9, <2>10 DEF CacheOK
  <2>12. QED  BY <2>11 DEF d
<1>4. QED  BY <1>2, <1>3

\* A step that leaves the caches alone, and after which no thread looks up an id
\* that it did not look up before, keeps the invariant.
LEMMA CachesKept ==
    ASSUME CInv, UNCHANGED cache,
           \A u \in Thread : LookingUp(u)' => LookingUp(u) /\ op'[u].id = op[u].id
    PROVE  CInv'
  BY DEF CInv, InvEntries, InvMissed

\* A step of thread t that leaves the caches and the other threads alone, and
\* after which t does not begin to look up an id, keeps the invariant.
LEMMA OneThread ==
    ASSUME IInv, CInv, NEW t \in Thread, NEW o, NEW where,
           op' = [op EXCEPT ![t] = o], pc' = [pc EXCEPT ![t] = where], UNCHANGED cache,
           o.kind = "query" /\ where \in {"lock", "locked", "unlock"}
              => LookingUp(t) /\ o.id = op[t].id
    PROVE  CInv'
<1>1. op \in [Thread -> Op] /\ pc \in [Thread -> Places]
  BY DEF IInv, InvTypes
<1>2. op'[t] = o /\ pc'[t] = where /\ \A u \in Thread : u # t => op'[u] = op[u] /\ pc'[u] = pc[u]
  BY <1>1
<1>3. \A u \in Thread : LookingUp(u)' => LookingUp(u) /\ op'[u].id = op[u].id
  BY <1>2 DEF LookingUp
<1>4. QED  BY <1>3, CachesKept

\* The calls that ask no cache.
LEMMA OtherCallsKeep ==
    ASSUME IInv, CInv, NEW t \in Thread,
           \/ \E cb \in Callback : AddCall(t, cb)
           \/ EarlyCall(t)
           \/ \E id \in Passable : RemoveCall(t, id) \/ ValidCall(t, id)
    PROVE  CInv'
<1> USE DEF Begin, Goto
<1>1. ASSUME NEW cb \in Callback, AddCall(t, cb)  PROVE CInv'
  <2> DEFINE o == [NoOp EXCEPT !.kind = "add", !.cb = cb]
  <2>1. o.kind = "add"
    BY DEF NoOp
  <2>2. QED  BY <1>1, <2>1, OneThread DEF AddCall
<1>2. CASE EarlyCall(t)
  <2>1. PICK res \in {"EBADVALUE", "true", "false"} :
          /\ op' = [op EXCEPT ![t] = [NoOp EXCEPT !.res = res]]
          /\ pc' = [pc EXCEPT ![t] = "done"]
    BY <1>2 DEF EarlyCall
  <2>2. QED  BY <1>2, <2>1, OneThread DEF EarlyCall
<1>3. ASSUME NEW id \in Passable, RemoveCall(t, id)  PROVE CInv'
  <2> DEFINE o == [NoOp EXCEPT !.kind = "remove", !.id = id]
  <2>1. o.kind = "remove"
    BY DEF NoOp
  <2>2. QED  BY <1>3, <2>1, OneThread DEF RemoveCall
<1>4. ASSUME NEW id \in Passable, ValidCall(t, id)  PROVE CInv'
  <2> DEFINE o == [NoOp EXCEPT !.kind = "valid", !.id = id]
  <2>1. o.kind = "valid"
    BY DEF NoOp
  <2>2. QED  BY <1>4, <2>1, OneThread DEF ValidCall
<1>5. QED  BY <1>1, <1>2, <1>3, <1>4

\* A query waits for the lock only with an id that its thread's cache missed.
LEMMA QueryCallKeeps ==
    ASSUME IInv, CInv, NEW t \in Thread, NEW id \in Passable, QueryCall(t, id)
    PROVE  CInv'
<1> USE DEF Begin, Goto
<1>1. op \in [Thread -> Op] /\ pc \in [Thread -> Places]
  BY DEF IInv, InvTypes
<1>2. id \in Id
  BY PassableFacts
<1>3. UNCHANGED cache
  BY DEF QueryCall
<1>4. CASE CacheAnswers(t, id)
  <2>1. PICK o : op' = [op EXCEPT ![t] = o] /\ pc' = [pc EXCEPT ![t] = "done"]
    BY <1>4 DEF QueryCall
  <2>2. QED  BY <1>3, <2>1, OneThread
<1>5. CASE ~CacheAnswers(t, id)
  <2> DEFINE o == [NoOp EXCEPT !.kind = "query", !.id = id,
                               !.clean = Matches(id) /\ Registered(SlotOf(id))]
  <2>1. op' = [op EXCEPT ![t] = o]
    BY <1>5 DEF QueryCall
  <2>2. o.id = id
    BY DEF NoOp
  <2>3. pc' = [pc EXCEPT ![t] = "lock"]
    BY <1>5 DEF QueryCall
  <2> HIDE DEF o
  <2>4. \A u \in Thread : LookingUp(u)' => (u = t /\ op'[u].id = id)
                                            \/ (LookingUp(u) /\ op'[u] = op[u])
    BY <1>1, <2>1, <2>2, <2>3 DEF LookingUp
  <2>5. ~Hit(cache[t], id)
    BY <1>5 DEF CacheAnswers
  <2>6. QED  BY <1>2, <1>3, <2>4, <2>5 DEF CInv, InvEntries, InvMissed
<1>6. QED  BY <1>4, <1>5

\* A query that found its slot stores it in the cache that missed it.
LEMMA UnlockKeeps ==
    ASSUME IInv, CInv, NEW t \in Thread, Unlock(t)
    PROVE  CInv'
<1> USE DEF Goto
<1>1. /\ op \in [Thread -> Op] /\ pc \in [Thread -> Places]
      /\ DOMAIN cache = Thread /\ cache = [u \in Thread |-> cache[u]]
  BY DEF IInv, InvTypes, CInv, InvEntries
<1>2. pc[t] = "unlock" /\ pc' = [pc EXCEPT ![t] = "done"] /\ \A u \in Thread : u # t => op'[u] = op[u]
  BY <1>1 DEF Unlock
<1>3. \A u \in Thread : LookingUp(u)' => u # t /\ LookingUp(u) /\ op'[u] = op[u]
  BY <1>1, <1>2 DEF LookingUp
<1>4. CASE op[t].kind = "query" /\ op[t].ptr # NoPtr
  <2> DEFINE d == Insert(cache[t], op[t].id, op[t].ptr)
  <2>1. cache' = [cache EXCEPT ![t] = d]
    BY <1>4 DEF Unlock
  <2>2. op[t].id \in Id /\ ~Hit(cache[t], op[t].id) /\ CacheOK(cache[t])
    BY <1>2, <1>4 DEF CInv, InvMissed, InvEntries, LookingUp
  <2>3. CacheOK(d)
    BY <2>2, InsertKeepsOrder
  <2> HIDE DEF d
  <2>4. cache'[t] = d /\ \A u \in Thread : u # t => cache'[u] = cache[u]
    BY <1>1, <2>1
  <2>5. DOMAIN cache' = Thread /\ cache' = [u \in Thread |-> cache'[u]]
    BY <1>1, <2>1
  <2>6. InvEntries'
    BY <2>3, <2>4, <2>5 DEF CInv, InvEntries
  <2>7. InvMissed'
    BY <1>3, <2>4 DEF CInv, InvMissed
  <2>8. QED  BY <2>6, <2>7 DEF CInv
<1>5. CASE ~(op[t].kind = "query" /\ op[t].ptr # NoPtr)
  <2>1. UNCHANGED cache
    BY <1>5 DEF Unlock
  <2>2. QED  BY <1>3, <2>1, CachesKept
<1>6. QED  BY <1>4, <1>5

\* The steps of a call before and after the critical section, and of a query in it.
LEMMA PassingStepsKeep ==
    ASSUME IInv, CInv, NEW t \in Thread,
           \/ Lock(t) \/ LockRefused(t) \/ QueryLookup(t) \/ ValidTest(t)
           \/ Return(t) \/ ReadFn(t) \/ ReadArg(t)
    PROVE  CInv'
<1> USE DEF Goto
<1>1. op \in [Thread -> Op] /\ pc \in [Thread -> Places]
  BY DEF IInv, InvTypes
<1>2. CASE Lock(t)
  <2>1. op' = [op EXCEPT ![t] = op[t]] /\ pc' = [pc EXCEPT ![t] = "locked"]
    BY <1>1, <1>2 DEF Lock
  <2>2. QED  BY <1>2, <2>1, OneThread DEF Lock, LookingUp
<1>3. CASE LockRefused(t)
  <2>1. PICK o : op' = [op EXCEPT ![t] = o] /\ pc' = [pc EXCEPT ![t] = "done"]
    BY <1>3 DEF LockRefused
  <2>2. QED  BY <1>3, <2>1, OneThread DEF LockRefused
<1>4. CASE QueryLookup(t)
  <2> DEFINE o == [op[t] EXCEPT !.ptr = Lookup(op[t].id)]
  <2>1. op' = [op EXCEPT ![t] = o] /\ pc' = [pc EXCEPT ![t] = "unlock"]
    BY <1>4 DEF QueryLookup
  <2>2. o.id = op[t].id
    BY <1>1 DEF Op
  <2>3. LookingUp(t)
    BY <1>4 DEF QueryLookup, LookingUp
  <2> HIDE DEF o
  <2>4. UNCHANGED cache
    BY <1>4 DEF QueryLookup
  <2>5. QED  BY <2>1, <2>2, <2>3, <2>4, OneThread
<1>5. CASE ValidTest(t)
  <2> DEFINE o == [op[t] EXCEPT !.res = IF Lookup(op[t].id) # NoPtr THEN "true" ELSE "false"]
  <2>1. op' = [op EXCEPT ![t] = o] /\ pc' = [pc EXCEPT ![t] = "unlock"]
    BY <1>5 DEF ValidTest
  <2>2. o.kind = "valid"
    BY <1>1, <1>5 DEF Op, ValidTest
  <2> HIDE DEF o
  <2>3. UNCHANGED cache
    BY <1>5 DEF ValidTest
  <2>4. QED  BY <2>1, <2>2, <2>3, OneThread
<1>6. CASE Return(t)
  <2>1. QED  BY <1>6, OneThread DEF Return
<1>7. CASE ReadFn(t)
  <2>1. PICK o : op' = [op EXCEPT ![t] = o] /\ pc' = [pc EXCEPT ![t] = "read"]
    BY <1>7 DEF ReadFn
  <2>2. QED  BY <1>7, <2>1, OneThread, ZenonT(40) DEF ReadFn
<1>8. CASE ReadArg(t)
  <2>1. PICK o : op' = [op EXCEPT ![t] = o] /\ pc' = [pc EXCEPT ![t] = "called"]
    BY <1>8 DEF ReadArg
  <2>2. QED  BY <1>8, <2>1, OneThread DEF ReadArg
<1>9. QED  BY <1>2, <1>3, <1>4, <1>5, <1>6, <1>7, <1>8

\* The steps of an add and of a remove in the critical section.
LEMMA WritingStepsKeep ==
    ASSUME IInv, CInv, NEW t \in Thread,
           \/ AddPop(t) \/ AddAppend(t) \/ AddFails(t) \/ AddWriteFn(t) \/ AddWriteArg(t)
           \/ RemoveEntry(t) \/ RemoveNothing(t) \/ RemoveWriteFn(t) \/ RemoveWriteArg(t)
    PROVE  CInv'
<1> USE DEF Goto, Take, InAdd, InRemove
<1>1. op \in [Thread -> Op] /\ pc \in [Thread -> Places]
  BY DEF IInv, InvTypes
<1>2. op[t].kind \in {"add", "remove"} /\ UNCHANGED cache
  BY DEF AddPop, AddAppend, AddFails, AddWriteFn, AddWriteArg, RemoveEntry, RemoveNothing,
         RemoveWriteFn, RemoveWriteArg
<1>3. PICK where : pc' = [pc EXCEPT ![t] = where]
  BY DEF AddPop, AddAppend, AddFails, AddWriteFn, AddWriteArg, RemoveEntry, RemoveNothing,
         RemoveWriteFn, RemoveWriteArg
<1>4. \A u \in Thread : op'[u].kind = op[u].kind /\ (u # t => op'[u].id = op[u].id)
  <2>1. CASE AddPop(t) \/ AddAppend(t)
    <3>1. PICK k : op' = [op EXCEPT ![t].id = k]
      BY <2>1 DEF AddPop, AddAppend
    <3>2. QED  BY <1>1, <3>1 DEF Op
  <2>2. CASE AddFails(t) \/ AddWriteArg(t) \/ RemoveNothing(t) \/ RemoveWriteArg(t)
    <3>1. PICK r : op' = [op EXCEPT ![t].res = r]
      BY <2>2 DEF AddFails, AddWriteArg, RemoveNothing, RemoveWriteArg
    <3>2. QED  BY <1>1, <3>1 DEF Op
  <2>3. CASE AddWriteFn(t) \/ RemoveWriteFn(t)
    BY <2>3 DEF AddWriteFn, RemoveWriteFn
  <2>4. CASE RemoveEntry(t)
    <3>1. op' = Spoil(op, op[t].id)
      BY <2>4 DEF RemoveEntry
    <3>2. QED  BY <1>1, <3>1, SpoilFacts DEF Op
  <2>5. QED  BY <2>1, <2>2, <2>3, <2>4
<1>5. \A u \in Thread : LookingUp(u)' => LookingUp(u) /\ op'[u].id = op[u].id
  BY <1>1, <1>2, <1>3, <1>4 DEF LookingUp
<1>6. QED  BY <1>2, <1>5, CachesKept

\* No cache has an entry before the first call.
LEMMA InitCaches == Init => CInv
<1> SUFFICES ASSUME Init PROVE CInv
  OBVIOUS
<1>1. \A t \in Thread : cache[t] = EmptyCache /\ ~LookingUp(t)
  BY DEF Init, LookingUp, NoOp
<1>2. DOMAIN cache = Thread /\ cache = [t \in Thread |-> cache[t]]
  BY DEF Init
<1>3. QED  BY <1>1, <1>2, EmptyCacheOK DEF CInv, InvEntries, InvMissed

\* Every step keeps the caches in order.
LEMMA NextCaches == IInv /\ CInv /\ [Next]_vars => CInv'
<1> SUFFICES ASSUME IInv, CInv, [Next]_vars PROVE CInv'
  OBVIOUS
<1>1. ASSUME NEW t \in Thread, Call(t)  PROVE CInv'
  BY <1>1, OtherCallsKeep, QueryCallKeeps DEF Call
<1>2. ASSUME NEW t \in Thread, Step(t)  PROVE CInv'
  BY <1>2, PassingStepsKeep, WritingStepsKeep, UnlockKeeps DEF Step
<1>3. ASSUME NEW t \in Thread, ReadFn(t)  PROVE CInv'
  BY <1>3, PassingStepsKeep
<1>4. CASE Shut
  BY <1>4, CachesKept DEF Shut, LookingUp
<1>5. CASE UNCHANGED vars
  BY <1>5, CachesKept DEF vars, LookingUp
<1>6. QED  BY <1>1, <1>2, <1>3, <1>4, <1>5 DEF Next

\* The order of the caches is kept by every behaviour of the table: `used` counts
\* the entries, each entry is where its probe loop ends, and a thread that looks
\* an id up does not have it.
THEOREM CacheInvariance == Spec => []CInv
<1>1. Init => CInv
  BY InitCaches
<1>2. IInv /\ CInv /\ [Next]_vars => CInv'
  BY NextCaches
<1>3. QED  BY <1>1, <1>2, Invariance, PTL DEF Spec

\* CacheSound: for any number of threads, any size of the cache and any limit
\* below it, the probe loop of hebi_alloc_query finds each entry where it was
\* stored, and ends.
THEOREM CachesSound == Spec => []CacheSound
<1>1. CInv => CacheSound
  <2> SUFFICES ASSUME CInv, NEW t \in Thread, NEW c, c = cache[t]
               PROVE  /\ c.used = Cardinality(Occupied(c))
                      /\ \A i \in Occupied(c) : Hit(c, c.keys[i]) /\ ProbeCell(c, c.keys[i]) = i
    BY DEF CacheSound
  <2>1. CacheOK(c)
    BY DEF CInv, InvEntries
  <2>2. QED  BY <2>1, FoundIsHit DEF CacheOK
<1>2. QED  BY <1>1, CacheInvariance, PTL

=============================================================================
