---------------------------- MODULE MCErrorState ----------------------------
EXTENDS ErrorState

=============================================================================
