------------------------------ MODULE MCFutex -------------------------------
\* Three threads and an exclusive bit of 2: two readers already reach it.
EXTENDS Futex
=============================================================================
