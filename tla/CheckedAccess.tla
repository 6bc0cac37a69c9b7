---------------------------- MODULE CheckedAccess ----------------------------
(***************************************************************************)
(* Access to memory that may be missing: copy_nonoverlapping_checked in    *)
(* wl-impl/src/helpers.rs, __checked_memcpy_impl and the signal handler in *)
(* wl-impl's x86_64.c, __memcpy_explicit in libc_defs.rs, move by move,    *)
(* and __sa_handler_seh_impl in catch_signals.rs.                          *)
(***************************************************************************)
EXTENDS Naturals

CONSTANTS Addrs, Mapped,  \* the addresses, and those with memory behind them
          Lens,           \* bound: the lengths of the copies
          Signals         \* the signals that may arrive from outside

VARIABLES pc,       \* "idle", "copying", or "handler" for the signal handler
          back,     \* where the handler returns to
          sig,      \* the signal being handled
          call,     \* the running or the last copy: src, dest and length
          done,     \* how much of it is copied
          at,       \* the comparison of __memcpy_explicit that comes next
          RETBUF,   \* CHECKED_ACCESS_RETBUF: "NULL" or "_buf"
          result,   \* of the last copy: "none", "Ok", "Overlap" or "Err"
          fate      \* "running" or the exception the process ended with

vars == <<pc, back, sig, call, done, at, RETBUF, result, fate>>

Span(a, n) == a .. (a + n - 1)
Overlapping(c) == c.n > 0 /\ (c.dest \in Span(c.src, c.n) \/ c.src \in Span(c.dest, c.n))

Init == /\ pc = "idle" /\ back = "idle" /\ sig = "none"
        /\ call = [src |-> 0, dest |-> 0, n |-> 0]
        /\ done = 0 /\ at = "ret"
        /\ RETBUF = "NULL"
        /\ result = "none"
        /\ fate = "running"

At(place) == fate = "running" /\ pc = place

\* copy_nonoverlapping_checked, up to the call of __memcpy_explicit.
Copy(c) == /\ At("idle")
           /\ call' = c
           /\ done' = 0 /\ at' = "first"
           /\ \/ Overlapping(c) /\ result' = "Overlap" /\ UNCHANGED <<pc, RETBUF>>
              \/ ~Overlapping(c) /\ result' = "none" /\ pc' = "copying" /\ RETBUF' = "NULL"
           /\ UNCHANGED <<back, sig, fate>>

-----------------------------------------------------------------------------
(* __memcpy_explicit: one comparison of rdx, and the move behind it *)

Labels == {"first", "16", "8", "4", "2", "1", "ret"}
rdx == call.n - done

Width(l) == CASE l \in {"first", "16"} -> 16
              [] l = "8" -> 8
              [] l = "4" -> 4
              [] l = "2" -> 2
              [] l \in {"1", "ret"} -> 1

\* The move is not jumped over: jbe before the first and the 8 byte move.
Moves(l) == IF l \in {"first", "8"} THEN rdx > Width(l) ELSE rdx >= Width(l)

After(l) == CASE l \in {"first", "16"} -> IF Moves(l) THEN "16" ELSE "8"
              [] l = "8" -> "4"
              [] l = "4" -> "2"
              [] l = "2" -> "1"
              [] l \in {"1", "ret"} -> "ret"

Touched == Span(call.src + done, Width(at)) \cup Span(call.dest + done, Width(at))

Move == /\ At("copying") /\ at # "ret" /\ Moves(at) /\ Touched \subseteq Mapped
        /\ done' = done + Width(at)
        /\ at' = After(at)
        /\ UNCHANGED <<pc, back, sig, call, RETBUF, result, fate>>

Jump == /\ At("copying") /\ at # "ret" /\ ~Moves(at)
        /\ at' = After(at)
        /\ UNCHANGED <<pc, back, sig, call, done, RETBUF, result, fate>>

CopyEnds == /\ At("copying") /\ at = "ret"
            /\ RETBUF' = "NULL"
            /\ result' = "Ok"
            /\ pc' = "idle"
            /\ UNCHANGED <<back, sig, call, done, at, fate>>

-----------------------------------------------------------------------------
(* Signals *)

Deliver(s) == /\ pc # "handler"
              /\ pc' = "handler" /\ back' = pc /\ sig' = s
              /\ UNCHANGED <<call, done, at, RETBUF, result, fate>>

Fault == /\ At("copying") /\ at # "ret" /\ Moves(at) /\ ~(Touched \subseteq Mapped)
         /\ Deliver("SIGSEGV")
Arrive(s) == fate = "running" /\ Deliver(s)

\* sa_handler_impl: a trapping access returns to the setjmp, which returns -1.
Longjmp == /\ At("handler") /\ sig \in {"SIGSEGV", "SIGBUS"} /\ RETBUF # "NULL"
           /\ RETBUF' = "NULL"
           /\ result' = "Err"
           /\ pc' = "idle"
           /\ UNCHANGED <<back, sig, call, done, at, fate>>

sig_to_except(s) == IF s = "SIGQUIT" THEN "no exception" ELSE s

\* __sa_handler_seh_impl: SIGSYS is a system call of the guest (module Registry).
SehImpl == /\ At("handler") /\ ~(sig \in {"SIGSEGV", "SIGBUS"} /\ RETBUF # "NULL")
           /\ \/ sig \in {"SIGSYS", "SIGCHLD"} /\ pc' = back /\ UNCHANGED fate
              \/ sig \notin {"SIGSYS", "SIGCHLD"} /\ fate' = sig_to_except(sig) /\ UNCHANGED pc
           /\ UNCHANGED <<back, sig, call, done, at, RETBUF, result>>

Copies == [src : Addrs, dest : Addrs, n : Lens]

Next == \/ \E c \in Copies : Copy(c)
        \/ Move \/ Jump \/ CopyEnds \/ Fault \/ Longjmp \/ SehImpl
        \/ \E s \in Signals : Arrive(s)

Spec == Init /\ [][Next]_vars
-----------------------------------------------------------------------------
\* "This will return an error if it accesses any unmapped memory"
\* (helpers.rs:99): a checked copy that traps does not end the process.
TrapIsReturned == fate = "SIGSEGV" => back # "copying"

\* "Copies `elems` `T`s from `src` to `dest`" (helpers.rs:96): a copy that
\* returned Ok has moved every byte.
CopiesAll == result = "Ok" => done = call.n
=============================================================================
