------------------------------- MODULE Cutoffs -------------------------------
(***************************************************************************)
(* From how many packets on products are made by Karatsuba's method.       *)
(***************************************************************************)
EXTENDS Naturals

CONSTANTS
    MulCutoff,      \* KARATSUBA_MUL_CUTOFF
    SqrCutoff       \* KARATSUBA_SQR_CUTOFF

ASSUME CutoffsAssumption == MulCutoff \in Nat /\ SqrCutoff \in Nat /\ MulCutoff >= 4 /\ SqrCutoff >= 4

=============================================================================
