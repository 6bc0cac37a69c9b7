------------------------------- MODULE Memcpy -------------------------------
(***************************************************************************)
(* What __memcpy_explicit (wl-impl/src/libc/libc_defs.rs) copies of n      *)
(* bytes.  Module CheckedAccess has it move by move; PrimitiveProofs       *)
(* shows that this is the sum of its moves.                                *)
(***************************************************************************)
EXTENDS Naturals

\* A length of 16, or one that leaves 8 behind the 16 byte moves, is moved as
\* 4 + 2 + 1 at its end.
Shortfall(n) == IF n = 16 \/ n % 16 = 8 THEN 1 ELSE 0
Copied(n) == n - Shortfall(n)
=============================================================================
