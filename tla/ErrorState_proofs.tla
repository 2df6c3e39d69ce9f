------------------------- MODULE ErrorState_proofs -------------------------
(***************************************************************************)
(* Theorems about ErrorState, for any handlers, any codes and any depth of *)
(* nesting: the types of its variables, and that an error reaches the      *)
(* innermost frame that asked for it.                                      *)
(***************************************************************************)
EXTENDS ErrorState, SequenceTheorems, TLAPS

-----------------------------------------------------------------------------
(* The inductive invariant *)

State == [handler : Called, arg : Env, longjmp : BOOLEAN, env : Env]
Entry == [state : State, asked : BOOLEAN, mine : Goal]

\* Among the lowest n frames of fs, x is what the innermost that asked installed.
Leads(fs, n, x) ==
    \/ x = Nobody /\ \A f \in 1 .. n : ~fs[f].asked
    \/ \E f \in 1 .. n :
          /\ fs[f].asked /\ x = fs[f].mine
          /\ \A g \in 1 .. n : g > f => ~fs[g].asked

\* What an error does once the saved state s is restored.
Restores(s) == [handler |-> s.handler, frame |-> IF s.longjmp THEN s.env ELSE s.arg]

\* Errors reach the innermost frame that asked; so they do again when a frame
\* restores what it saved; and a frame installs nothing that leaves to another.
InvNow   == Leads(frames, Depth, Target)
InvSaved == \A f \in 1 .. Depth : Leads(frames, f - 1, Restores(frames[f].state))
InvMine  == \A f \in 1 .. Depth : frames[f].asked =>
                frames[f].mine.frame = IF frames[f].mine.handler = "none" THEN NoArg ELSE f

IInv == TypeOK /\ InvNow /\ InvSaved /\ InvMine

-----------------------------------------------------------------------------
(* Lemmas *)

\* Leads looks at the lowest n frames only.
LEMMA LeadsSame ==
    ASSUME NEW fs, NEW gs, NEW n \in Nat, NEW x, Leads(fs, n, x),
           \A f \in 1 .. n : gs[f] = fs[f]
    PROVE  Leads(gs, n, x)
BY DEF Leads

\* A frame on top that has not asked changes nothing.
LEMMA LeadsAbove ==
    ASSUME NEW fs, NEW n \in Nat, NEW x, Leads(fs, n, x), ~fs[n + 1].asked
    PROVE  Leads(fs, n + 1, x)
<1>1. CASE x = Nobody /\ \A f \in 1 .. n : ~fs[f].asked
  <2>1. \A f \in 1 .. n + 1 : f \in 1 .. n \/ f = n + 1
    OBVIOUS
  <2>. QED BY <1>1, <2>1 DEF Leads
<1>2. CASE \E f \in 1 .. n : /\ fs[f].asked /\ x = fs[f].mine
                             /\ \A g \in 1 .. n : g > f => ~fs[g].asked
  <2>1. PICK f \in 1 .. n : /\ fs[f].asked /\ x = fs[f].mine
                            /\ \A g \in 1 .. n : g > f => ~fs[g].asked
    BY <1>2
  <2>2. \A g \in 1 .. n + 1 : g > f => ~fs[g].asked
    <3>1. \A g \in 1 .. n + 1 : g \in 1 .. n \/ g = n + 1
      OBVIOUS
    <3>. QED BY <2>1, <3>1
  <2>3. f \in 1 .. n + 1
    OBVIOUS
  <2>. QED BY <2>1, <2>2, <2>3 DEF Leads
<1>. QED BY <1>1, <1>2 DEF Leads

\* A frame on top that has asked is the innermost.
LEMMA LeadsTop ==
    ASSUME NEW fs, NEW n \in Nat \ {0}, NEW x, fs[n].asked, x = fs[n].mine
    PROVE  Leads(fs, n, x)
<1>1. n \in 1 .. n /\ \A g \in 1 .. n : ~(g > n)
  OBVIOUS
<1>. QED BY <1>1 DEF Leads

\* Types of what steps store.
LEMMA Types ==
    ASSUME TypeOK
    PROVE  /\ frames \in Seq(Entry) /\ Depth \in Nat
           /\ \A f \in 1 .. Depth : frames[f] \in Entry
           /\ MaxDepth \in Nat \ {0} /\ Target \in Goal
           /\ Nobody \in Goal
<1>1. frames \in Seq(Entry) /\ Depth \in Nat
  BY DEF TypeOK, Entry, State, Depth
<1>2. \A f \in 1 .. Depth : frames[f] \in Entry
  BY <1>1, ElementOfSeq DEF Depth
<1>3. MaxDepth \in Nat \ {0}
  BY ErrorAssumption
<1>4. Target \in Goal
  BY DEF TypeOK, Target, Goal, Env
<1>5. Nobody \in Goal
  BY DEF Nobody, Goal, Called, Env
<1>. QED BY <1>1, <1>2, <1>3, <1>4, <1>5

-----------------------------------------------------------------------------
(* Steps *)

\* Initially there is no frame, and no handler.
LEMMA InitInv == Init => IInv
<1>. SUFFICES ASSUME Init PROVE IInv
  OBVIOUS
<1>1. frames = <<>> /\ Depth = 0
  BY DEF Init, Depth
<1>2. TypeOK
  <2>1. frames \in Seq([state : [handler : Called, arg : Env, longjmp : BOOLEAN, env : Env],
                        asked : BOOLEAN, mine : Goal])
    BY <1>1, EmptySeq
  <2>2. Depth =< MaxDepth
    BY <1>1, ErrorAssumption
  <2>3. "none" \in Called /\ NoArg \in Env
    BY DEF Called, Env
  <2>. QED BY <2>1, <2>2, <2>3 DEF Init, TypeOK
<1>3. InvNow
  <2>1. NoArg # JmpArg
    BY ErrorAssumption DEF NoArg, JmpArg
  <2>. QED BY <1>1, <2>1 DEF Init, InvNow, Leads, Target, Nobody
<1>4. InvSaved /\ InvMine
  BY <1>1 DEF InvSaved, InvMine
<1>. QED BY <1>2, <1>3, <1>4 DEF IInv

\* The saved state restores what an error does now.
LEMMA SavedRestores ==
    ASSUME TypeOK
    PROVE  Saved \in State /\ Restores(Saved) = Target
<1>1. Saved \in State
  BY DEF TypeOK, Saved, SavedJump, State, Env, NoArg
<1>2. Restores(Saved) = Target
  BY DEF Saved, SavedJump, Restores, Target
<1>. QED BY <1>1, <1>2

\* A frame saves: what it would restore is what happens now.
LEMMA StepEnter == IInv /\ Enter => IInv'
<1>. SUFFICES ASSUME IInv, Enter PROVE IInv'
  OBVIOUS
<1>. USE DEF IInv
<1>. DEFINE e == [state |-> Saved, asked |-> FALSE, mine |-> Nobody]
<1>1. e \in Entry /\ ~e.asked /\ e.state = Saved
  BY SavedRestores, Types DEF Entry
<1>2. /\ frames' = Append(frames, e) /\ Depth' = Depth + 1 /\ frames' \in Seq(Entry)
      /\ \A f \in 1 .. Depth : frames'[f] = frames[f]
      /\ frames'[Depth + 1] = e
  BY <1>1, Types DEF Enter, Depth
<1>. HIDE DEF e
<1>3. TypeOK'
  BY <1>2, Types DEF Enter, TypeOK, Entry, State
<1>4. Target' = Target
  BY DEF Enter, Target
<1>5. InvNow'
  <2>1. Leads(frames', Depth, Target)
    BY <1>2, Types, LeadsSame DEF InvNow
  <2>2. ~frames'[Depth + 1].asked
    BY <1>1, <1>2
  <2>. QED BY <1>2, <1>4, <2>1, <2>2, Types, LeadsAbove DEF InvNow
<1>6. InvSaved'
  <2>. SUFFICES ASSUME NEW f \in 1 .. Depth + 1
                PROVE  Leads(frames', f - 1, Restores(frames'[f].state))
    BY <1>2 DEF InvSaved
  <2>1. CASE f = Depth + 1
    <3>1. Restores(frames'[f].state) = Target
      BY <1>1, <1>2, <2>1, SavedRestores
    <3>2. f - 1 = Depth
      BY <2>1, Types
    <3>. QED BY <1>2, <3>1, <3>2, Types, LeadsSame DEF InvNow
  <2>2. CASE f \in 1 .. Depth
    <3>1. Leads(frames, f - 1, Restores(frames[f].state)) /\ frames'[f] = frames[f]
      BY <1>2, <2>2 DEF InvSaved
    <3>2. f - 1 \in Nat /\ \A g \in 1 .. f - 1 : g \in 1 .. Depth
      BY <2>2, Types
    <3>. QED BY <1>2, <3>1, <3>2, LeadsSame
  <2>. QED BY <2>1, <2>2, Types
<1>7. InvMine'
  <2>1. \A f \in 1 .. Depth + 1 : f \in 1 .. Depth \/ f = Depth + 1
    BY Types
  <2>. QED BY <1>1, <1>2, <2>1 DEF InvMine
<1>. QED BY <1>3, <1>5, <1>6, <1>7

\* A frame that installs x, which leaves to nobody else, is the innermost.
LEMMA AsksInv ==
    ASSUME IInv, Depth > 0, NEW x \in Goal, Asks(x), Target' = x,
           x.frame = (IF x.handler = "none" THEN NoArg ELSE Depth),
           errhandler' \in Called, errarg' \in Env \cup {JmpArg}, errjmparg' \in Env,
           errlast' = errlast, ended' = ended
    PROVE  IInv'
<1>. USE DEF IInv
<1>. DEFINE e == [frames[Depth] EXCEPT !.asked = TRUE, !.mine = x]
<1>0. Depth \in 1 .. Depth
  BY Types
<1>1. e \in Entry /\ e.asked /\ e.mine = x /\ e.state = frames[Depth].state
  BY <1>0, Types DEF Entry
<1>2. frames' = [frames EXCEPT ![Depth] = e]
  BY DEF Asks
<1>3. /\ frames' \in Seq(Entry) /\ Depth' = Depth
      /\ \A f \in 1 .. Depth : frames'[f] = IF f = Depth THEN e ELSE frames[f]
  BY <1>0, <1>1, <1>2, Types, ExceptSeq DEF Depth
<1>4. TypeOK'
  BY <1>3, Types DEF TypeOK, Entry, State
<1>5. InvNow'
  <2>1. frames'[Depth].asked /\ frames'[Depth].mine = x
    BY <1>0, <1>1, <1>3
  <2>2. Depth \in Nat \ {0}
    BY Types
  <2>. QED BY <1>3, <2>1, <2>2, LeadsTop DEF InvNow
<1>6. InvSaved'
  <2>. SUFFICES ASSUME NEW f \in 1 .. Depth
                PROVE  Leads(frames', f - 1, Restores(frames'[f].state))
    BY <1>3 DEF InvSaved
  <2>1. Leads(frames, f - 1, Restores(frames[f].state)) /\ frames'[f].state = frames[f].state
    BY <1>1, <1>3 DEF InvSaved
  <2>2. f - 1 \in Nat /\ \A g \in 1 .. f - 1 : frames'[g] = frames[g]
    BY <1>3, Types
  <2>. QED BY <2>1, <2>2, LeadsSame
<1>7. InvMine'
  <2>. SUFFICES ASSUME NEW f \in 1 .. Depth, frames'[f].asked
                PROVE  frames'[f].mine.frame = IF frames'[f].mine.handler = "none" THEN NoArg ELSE f
    BY <1>3 DEF InvMine
  <2>1. CASE f = Depth
    BY <1>1, <1>3, <2>1
  <2>2. CASE f # Depth
    BY <1>3, <2>2 DEF InvMine
  <2>. QED BY <2>1, <2>2
<1>. QED BY <1>4, <1>5, <1>6, <1>7

\* A jump leads to the frame that asks for it.
LEMMA StepJmp == IInv /\ Jmp => IInv'
<1>. SUFFICES ASSUME IInv, Jmp PROVE IInv'
  OBVIOUS
<1>. DEFINE x == [handler |-> "longjmphandler", frame |-> Depth]
<1>1. Depth \in Env /\ Depth > 0
  BY Types DEF IInv, TypeOK, Env, Frame, Jmp
<1>2. x \in Goal
  BY <1>1 DEF Goal, Called
<1>3. Target' = x
  BY DEF Jmp, Target
<1>4. Asks(x) /\ errlast' = errlast /\ ended' = ended
  BY DEF Jmp
<1>5. errhandler' \in Called /\ errarg' \in Env \cup {JmpArg} /\ errjmparg' \in Env
  BY <1>1 DEF Jmp, Called
<1>. QED BY <1>1, <1>2, <1>3, <1>4, <1>5, AsksInv

\* A handler of the client serves the frame that installs it.
LEMMA StepInstall == IInv /\ Install => IInv'
<1>. SUFFICES ASSUME IInv, Install PROVE IInv'
  OBVIOUS
<1>1. PICK h \in Handler \cup {"none"} :
         LET a == IF h = "none" THEN NoArg ELSE Depth
         IN  errhandler' = h /\ errarg' = a /\ Asks([handler |-> h, frame |-> a])
  BY DEF Install
<1>. DEFINE a == IF h = "none" THEN NoArg ELSE Depth
            x == [handler |-> h, frame |-> a]
<1>2. Depth \in Frame /\ Depth > 0 /\ a \in Env /\ a # JmpArg
  BY Types DEF IInv, TypeOK, Env, Frame, Install, NoArg, JmpArg
<1>3. x \in Goal /\ h \in Called
  BY <1>2 DEF Goal, Called
<1>4. Target' = x
  BY <1>1, <1>2 DEF Target
<1>5. errjmparg' \in Env /\ errlast' = errlast /\ ended' = ended
  BY DEF Install, IInv, TypeOK
<1>. QED BY <1>1, <1>2, <1>3, <1>4, <1>5, AsksInv

\* Frames cut down to the lowest n: what is left of the invariant.
LEMMA CutInv ==
    ASSUME IInv, NEW n \in 0 .. Depth, frames' = SubSeq(frames, 1, n),
           Leads(frames, n, Target'),
           errhandler' \in Called, errarg' \in Env \cup {JmpArg}, errjmparg' \in Env,
           errlast' \in Code \cup {"ENONE"}, ended' \in BOOLEAN
    PROVE  IInv'
<1>. USE DEF IInv
<1>1. /\ frames' \in Seq(Entry) /\ Depth' = n
      /\ \A f \in 1 .. n : frames'[f] = frames[f]
  <2>1. \A f \in 1 .. n : frames[f] \in Entry
    BY Types
  <2>2. 1 \in Int /\ n \in Int /\ n \in Nat
    BY Types
  <2>3. /\ SubSeq(frames, 1, n) \in Seq(Entry)
        /\ Len(SubSeq(frames, 1, n)) = IF 1 <= n THEN n - 1 + 1 ELSE 0
        /\ \A i \in 1 .. n - 1 + 1 : SubSeq(frames, 1, n)[i] = frames[1 + i - 1]
    BY <2>1, <2>2, SubSeqProperties
  <2>. QED BY <2>2, <2>3 DEF Depth
<1>2. n \in Nat /\ \A f \in 1 .. n : f \in 1 .. Depth /\ f - 1 \in Nat /\ \A g \in 1 .. f - 1 : g \in 1 .. n
  BY Types
<1>3. TypeOK'
  BY <1>1, Types DEF TypeOK, Entry, State
<1>4. InvNow'
  BY <1>1, <1>2, LeadsSame DEF InvNow
<1>5. InvSaved'
  <2>. SUFFICES ASSUME NEW f \in 1 .. n
                PROVE  Leads(frames', f - 1, Restores(frames'[f].state))
    BY <1>1 DEF InvSaved
  <2>1. Leads(frames, f - 1, Restores(frames[f].state)) /\ frames'[f] = frames[f]
    BY <1>1, <1>2 DEF InvSaved
  <2>2. \A g \in 1 .. f - 1 : frames'[g] = frames[g]
    BY <1>1, <1>2
  <2>. QED BY <1>2, <2>1, <2>2, LeadsSame
<1>6. InvMine'
  BY <1>1, <1>2 DEF InvMine
<1>. QED BY <1>3, <1>4, <1>5, <1>6

\* A frame restores what it saved: errors reach whom they reached before it.
LEMMA StepLeave == IInv /\ Leave => IInv'
<1>. SUFFICES ASSUME IInv, Leave PROVE IInv'
  OBVIOUS
<1>. DEFINE s == frames[Depth].state
<1>1. Depth \in 1 .. Depth /\ Depth - 1 \in 0 .. Depth
  BY Types DEF IInv, Leave
<1>2. s \in State
  BY <1>1, Types DEF IInv, Entry
<1>3. Target' = Restores(s)
  <2>1. s.arg # JmpArg
    BY <1>2, ErrorAssumption DEF State, Env, Frame, NoArg, JmpArg
  <2>. QED BY <2>1 DEF Leave, Target, Restores
<1>4. Leads(frames, Depth - 1, Target')
  BY <1>1, <1>3 DEF IInv, InvSaved
<1>5. errhandler' \in Called /\ errarg' \in Env \cup {JmpArg} /\ errjmparg' \in Env
  BY <1>2 DEF Leave, State, IInv, TypeOK
<1>6. frames' = SubSeq(frames, 1, Depth - 1) /\ errlast' \in Code \cup {"ENONE"} /\ ended' \in BOOLEAN
  BY DEF Leave, IInv, TypeOK
<1>. QED BY <1>1, <1>4, <1>5, <1>6, CutInv

\* An error leaves to the innermost frame that asked, and that frame goes on with
\* what it installed.
LEMMA StepRaiseHandled == IInv /\ RaiseHandled => IInv'
<1>. SUFFICES ASSUME IInv, RaiseHandled PROVE IInv'
  OBVIOUS
<1>1. Target.handler # "none"
  BY DEF RaiseHandled, Target
<1>2. PICK f \in 1 .. Depth :
         /\ frames[f].asked /\ Target = frames[f].mine
         /\ \A g \in 1 .. Depth : g > f => ~frames[g].asked
  BY <1>1 DEF IInv, InvNow, Leads, Nobody
<1>3. Target.frame = f
  BY <1>1, <1>2 DEF IInv, InvMine
<1>4. Target' = Target
  BY DEF RaiseHandled, Target
<1>5. f \in Nat \ {0} /\ f \in 0 .. Depth
  BY Types DEF IInv
<1>6. Leads(frames, f, Target')
  BY <1>2, <1>4, <1>5, LeadsTop
<1>7. frames' = SubSeq(frames, 1, f)
  BY <1>3 DEF RaiseHandled
<1>8. /\ errhandler' \in Called /\ errarg' \in Env \cup {JmpArg} /\ errjmparg' \in Env
      /\ errlast' \in Code \cup {"ENONE"} /\ ended' \in BOOLEAN
  BY DEF RaiseHandled, IInv, TypeOK
<1>. QED BY <1>5, <1>6, <1>7, <1>8, CutInv

\* Steps that leave the handler and the frames alone.
LEMMA StepRest == IInv /\ (RaiseAborts \/ UNCHANGED vars) => IInv'
<1>. SUFFICES ASSUME IInv, RaiseAborts \/ UNCHANGED vars PROVE IInv'
  OBVIOUS
<1>1. UNCHANGED <<errhandler, errarg, errjmparg, frames>>
  BY DEF RaiseAborts, vars
<1>2. errlast' \in Code \cup {"ENONE"} /\ ended' \in BOOLEAN
  BY DEF RaiseAborts, vars, IInv, TypeOK
<1>3. TypeOK'
  BY <1>1, <1>2 DEF IInv, TypeOK, Depth
<1>4. InvNow' /\ InvSaved' /\ InvMine'
  BY <1>1 DEF IInv, InvNow, InvSaved, InvMine, Target, Depth
<1>. QED BY <1>3, <1>4 DEF IInv

-----------------------------------------------------------------------------
(* Theorems *)

\* The invariant: what is installed leads to the innermost frame that asked, and
\* so does, one frame further down each time, what the frames have saved
\* (error_save.c, error_restore.c).
THEOREM ErrorInvariance == Spec => []IInv
<1>1. Init => IInv
  BY InitInv
<1>2. IInv /\ [Next]_vars => IInv'
  BY StepEnter, StepJmp, StepInstall, StepLeave, StepRaiseHandled, StepRest DEF Next
<1>. QED BY <1>1, <1>2, PTL DEF Spec

\* The variables keep their types; a saved state never points into the context
\* (error_save.c copies the jump buffer).
THEOREM ErrorTypes == Spec => []TypeOK
<1>1. IInv => TypeOK
  BY DEF IInv
<1>. QED BY <1>1, ErrorInvariance, PTL

\* For any depth of nesting: an error goes through the handler that the innermost
\* asking frame installed last, to that frame (error_raise.c, hebi_error_raise).
THEOREM ErrorsReachInnermostAlways == Spec => []ErrorsReachInnermost
<1>1. IInv => ErrorsReachInnermost
  <2>. SUFFICES ASSUME IInv PROVE ErrorsReachInnermost
    OBVIOUS
  <2>1. CASE Target = Nobody /\ \A f \in 1 .. Depth : ~frames[f].asked
    BY <2>1 DEF ErrorsReachInnermost, Armed
  <2>2. CASE \E f \in 1 .. Depth : /\ frames[f].asked /\ Target = frames[f].mine
                                   /\ \A g \in 1 .. Depth : g > f => ~frames[g].asked
    <3>1. PICK f \in 1 .. Depth : /\ frames[f].asked /\ Target = frames[f].mine
                                  /\ \A g \in 1 .. Depth : g > f => ~frames[g].asked
      BY <2>2
    <3>2. f \in Armed /\ \A g \in Armed : g =< f
      BY <3>1, Types DEF Armed, IInv
    <3>3. Innermost \in Armed /\ \A g \in Armed : g =< Innermost
      BY <3>2 DEF Innermost
    <3>4. Innermost = f
      BY <3>2, <3>3, Types DEF Armed, IInv
    <3>. QED BY <3>1, <3>2, <3>4 DEF ErrorsReachInnermost
  <2>. QED BY <2>1, <2>2 DEF IInv, InvNow, Leads
<1>. QED BY <1>1, ErrorInvariance, PTL

=============================================================================
