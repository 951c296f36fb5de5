------------------------------ MODULE MCRoutine ------------------------------
EXTENDS Routine
=============================================================================
