------------------------------- MODULE MCProc -------------------------------
EXTENDS Proc

CONSTANTS c0, c1, none      \* the CPUs of the instances, and the free lock
=============================================================================
