----------------------------- MODULE ErrorState -----------------------------
(***************************************************************************)
(* The error handler of a thread (errhandler, errarg, errjmparg and        *)
(* errlast of struct hebi_context) under nested frames of the client: a    *)
(* frame saves the state, installs a handler of its own or a jump to       *)
(* itself, may be left by a jump to a frame below, and otherwise restores  *)
(* what it saved before it returns.  The context has room for one jump     *)
(* buffer; a saved state holds a copy of it.                               *)
(***************************************************************************)
EXTENDS Naturals, Sequences

CONSTANTS
    Handler,        \* handlers of the client, which leave to the frame they serve
    Code,           \* error codes
    MaxDepth        \* bound: nested frames

ASSUME ErrorAssumption ==
    /\ MaxDepth \in Nat \ {0}
    /\ {"none", "longjmphandler"} \cap Handler = {}

Frame == 1 .. MaxDepth

\* Values of errarg: NULL, the frame that a handler of the client serves, or
\* &ctx->errjmparg.
NoArg  == 0
JmpArg == MaxDepth + 1

VARIABLES
    errhandler, errarg, errlast,
    errjmparg,      \* the frame the jump buffer and its value lead to
    frames,         \* per frame: the saved state; whether and what it installed
    ended           \* abort was called

vars == <<errhandler, errarg, errjmparg, errlast, frames, ended>>

Depth == Len(frames)

\* What an error does now: whom it calls and which frame it ends in.
Target ==
    [handler |-> errhandler,
     frame   |-> IF errarg = JmpArg THEN errjmparg ELSE errarg]

Nobody == [handler |-> "none", frame |-> NoArg]

Init ==
    /\ errhandler = "none" /\ errarg = NoArg /\ errjmparg = NoArg
    /\ errlast = "ENONE"
    /\ frames = <<>>
    /\ ended = FALSE

-----------------------------------------------------------------------------

\* A slip: the jump buffer is not copied.
SavedJump_None == NoArg

SavedJump == errjmparg

\* hebi_error_save
Saved ==
    IF errarg # JmpArg
    THEN [handler |-> errhandler, arg |-> errarg, longjmp |-> FALSE, env |-> NoArg]
    ELSE [handler |-> errhandler, arg |-> NoArg, longjmp |-> TRUE, env |-> SavedJump]

\* A frame of the client is entered and saves the state.
Enter ==
    /\ ~ended /\ Depth < MaxDepth
    /\ frames' = Append(frames, [state |-> Saved, asked |-> FALSE, mine |-> Nobody])
    /\ UNCHANGED <<errhandler, errarg, errjmparg, errlast, ended>>

Asks(target) == frames' = [frames EXCEPT ![Depth].asked = TRUE, ![Depth].mine = target]

\* hebi_error_jmp with the jump buffer of the running frame
Jmp ==
    /\ ~ended /\ Depth > 0
    /\ errhandler' = "longjmphandler"
    /\ errarg' = JmpArg
    /\ errjmparg' = Depth
    /\ Asks([handler |-> "longjmphandler", frame |-> Depth])
    /\ UNCHANGED <<errlast, ended>>

\* hebi_error_handler; NULL leaves errors to abort
Install ==
    /\ ~ended /\ Depth > 0
    /\ \E h \in Handler \cup {"none"} :
          LET a == IF h = "none" THEN NoArg ELSE Depth
          IN  errhandler' = h /\ errarg' = a /\ Asks([handler |-> h, frame |-> a])
    /\ UNCHANGED <<errjmparg, errlast, ended>>

\* The running frame restores what it saved and returns.
Leave ==
    LET s == frames[Depth].state
    IN  /\ ~ended /\ Depth > 0
        /\ errhandler' = s.handler
        /\ IF s.longjmp
           THEN errarg' = JmpArg /\ errjmparg' = s.env
           ELSE errarg' = s.arg /\ UNCHANGED errjmparg
        /\ frames' = SubSeq(frames, 1, Depth - 1)
        /\ UNCHANGED <<errlast, ended>>

\* hebi_error_raise: the handler leaves to its frame, and the frames above are
\* gone without a restore.
RaiseHandled ==
    /\ ~ended
    /\ errhandler # "none"
    /\ errlast' \in Code
    /\ frames' = SubSeq(frames, 1, Target.frame)
    /\ UNCHANGED <<errhandler, errarg, errjmparg, ended>>

\* There is no handler, or it comes back.
RaiseAborts ==
    /\ ~ended
    /\ errlast' \in (IF errhandler = "none" THEN {errlast} ELSE Code)
    /\ errhandler # "longjmphandler"
    /\ ended' = TRUE
    /\ UNCHANGED <<errhandler, errarg, errjmparg, frames>>

Next == Enter \/ Jmp \/ Install \/ Leave \/ RaiseHandled \/ RaiseAborts

Spec == Init /\ [][Next]_vars

-----------------------------------------------------------------------------
(* Properties *)

Env    == Frame \cup {NoArg}
Called == Handler \cup {"none", "longjmphandler"}
Goal   == [handler : Called, frame : Env]

\* Type invariant.  A saved state never points into the context, which the next
\* frame may change (hebi_error_save copies the jump buffer).
TypeOK ==
    /\ errhandler \in Called /\ errarg \in Env \cup {JmpArg}
    /\ errjmparg \in Env
    /\ errlast \in Code \cup {"ENONE"}
    /\ frames \in Seq([state : [handler : Called, arg : Env, longjmp : BOOLEAN, env : Env],
                       asked : BOOLEAN, mine : Goal])
    /\ Depth =< MaxDepth
    /\ ended \in BOOLEAN

Armed == {f \in 1 .. Depth : frames[f].asked}

Innermost == CHOOSE f \in Armed : \A g \in Armed : g =< f

\* An error always goes to the innermost frame that asked for it, through the
\* handler and the jump buffer that this frame installed last: never to a
\* frame that has returned, and to no other frame although all of them share
\* the one jump buffer of the context.
ErrorsReachInnermost ==
    Target = IF Armed = {} THEN Nobody ELSE frames[Innermost].mine

=============================================================================
