------------------------------- MODULE Reader -------------------------------
(***************************************************************************)
(* Reading files in the loader: BufFdReader (wl-ld-lilium/src/io.rs) with  *)
(* its two users, read_config_file and open_module (ldso.rs), pread_exact  *)
(* (helpers.rs) and read_offset (loader.rs).                               *)
(*                                                                         *)
(* A byte is named by its place in the file, from 1, so that what a call   *)
(* returns can be compared with what it should have returned; the file     *)
(* also says which of its bytes are newlines.  The kernel may answer any   *)
(* read with fewer bytes than asked for.  A call that read_exact or        *)
(* pread_exact repeats after EINTR changes nothing and has no action.      *)
(***************************************************************************)
EXTENDS Naturals, FiniteSetsExt, SequencesExt

CONSTANTS BufLen,     \* the buffer of BufFdReader (128 in the code)
          LineLen,    \* the buffer read_config_file reads a line into (256)
          IdentLen,   \* the size of e_ident (16)
          HeadLen,    \* the size of ElfHeader (64)
          MaxSize     \* bound: the size of a file

ASSUME SizeAssumption == /\ {BufLen, LineLen, IdentLen} \subseteq Nat \ {0}
                         /\ HeadLen \in Nat /\ IdentLen < HeadLen

VARIABLES file,       \* the file: its size and its newlines
          off,        \* the kernel's offset of the descriptor
          rbuf, pos,  \* BufFdReader: buf[..len] and pos
          loop,       \* the loop that runs, or how it ended
          from, goal, \* the range asked for: goal bytes after the first from
          out,        \* what the call has put into the caller's buffer so far
          lines       \* what the calls of read_line_static have returned

readerVars == <<file, off, rbuf, pos, loop, from, goal, out, lines>>

FileBytes(a, n) == [i \in 1 .. n |-> a + i]

ReaderInit == /\ file \in UNION {[size : {n}, nl : SUBSET (1 .. n)] : n \in 0 .. MaxSize}
              /\ rbuf = <<>> /\ pos = 0 /\ out = <<>> /\ lines = <<>>
              /\ \/ loop = "line" /\ off = 0 /\ from = 0 /\ goal = 0
                 \/ loop = "header" /\ off = 0 /\ from = 0 /\ goal = IdentLen
                 \/ loop = "pread" /\ off \in 0 .. file.size /\ from = 0 /\ goal = HeadLen
                 \/ loop = "lseek" /\ off \in 0 .. file.size
                    /\ from \in 0 .. file.size /\ goal \in 0 .. HeadLen

-----------------------------------------------------------------------------
\* What a read of n bytes at offset a may return: nothing only at the end.
ReadOf(a, n) == {k \in 0 .. n : /\ a + k <= file.size
                                /\ k = 0 => n = 0 \/ a = file.size}

\* The reader after fill_buf: an empty buffer is filled by one read.
fill_buf == IF pos = Len(rbuf)
              THEN {[rbuf |-> FileBytes(off, k), pos |-> 0, off |-> off + k] :
                      k \in ReadOf(off, BufLen)}
              ELSE {[rbuf |-> rbuf, pos |-> pos, off |-> off]}

Avail(f) == SubSeq(f.rbuf, f.pos + 1, Len(f.rbuf))

\* The reader after fill_buf returned f and amt bytes of it were consumed.
consume(f, amt) == rbuf' = f.rbuf /\ off' = f.off /\ pos' = f.pos + amt

\* A read that fails leaves the reader as it was.
ReadFails == /\ loop' = "error"
             /\ UNCHANGED <<file, off, rbuf, pos, from, goal, out, lines>>

-----------------------------------------------------------------------------
(* read_line_static, one round of its loop, called until it says None *)

Newlines(f) == {i \in DOMAIN Avail(f) : Avail(f)[i] \in file.nl}
max_len(f) == IF Newlines(f) = {} THEN Len(Avail(f)) ELSE Min(Newlines(f)) - 1
tail_len == LineLen - Len(out)
real_len(f) == Min({max_len(f), tail_len})

\* Faulty: consumes the whole line when only a part of it was copied.
Taken_whole(f) == max_len(f) + IF Newlines(f) = {} THEN 0 ELSE 1
\* Faulty: leaves the newline in the buffer.
Taken_newline_left(f) == real_len(f)
Taken(f) == real_len(f) + IF Newlines(f) = {} THEN 0 ELSE 1

Filled(f) == out \o SubSeq(Avail(f), 1, real_len(f))
Complete(f) == tail_len < max_len(f) \/ Newlines(f) # {}

LineEnds(f) == /\ Complete(f)
               /\ lines' = Append(lines, Filled(f))
               /\ out' = <<>>
LineGoesOn(f) == /\ ~Complete(f)
                 /\ out' = Filled(f)
                 /\ UNCHANGED lines

ReadLine == /\ loop = "line"
            /\ \E f \in fill_buf :
                 /\ Avail(f) # <<>>
                 /\ consume(f, Taken(f))
                 /\ LineEnds(f) \/ LineGoesOn(f)
            /\ UNCHANGED <<file, loop, from, goal>>

\* Faulty: an empty buffer is taken for a line that goes on.
EndOfInput_unseen == /\ loop = "line"
                     /\ UNCHANGED readerVars
\* None: what was collected of a line without a newline is dropped.
EndOfInput == /\ loop = "line"
              /\ \E f \in fill_buf : Avail(f) = <<>> /\ consume(f, 0)
              /\ loop' = "none"
              /\ UNCHANGED <<file, from, goal, out, lines>>

\* EINTR included: read_config_file passes every error on.
LineFails == loop = "line" /\ pos = Len(rbuf) /\ ReadFails

-----------------------------------------------------------------------------
(* read_exact and seek, as open_module uses them for an ELF header *)

ReadExact ==
    /\ loop = "header" /\ Len(out) < goal
    /\ \E f \in fill_buf :
         LET len == Min({goal - Len(out), Len(Avail(f))})
         IN /\ consume(f, len)
            /\ out' = out \o SubSeq(Avail(f), 1, len)
            /\ loop' = IF len = 0 THEN "nodata" ELSE loop
    /\ UNCHANGED <<file, from, goal, lines>>

ReadExactFails == loop = "header" /\ Len(out) < goal /\ pos = Len(rbuf) /\ ReadFails

\* The class or the machine is another one: the candidate is passed over.
HeaderRejected == /\ loop = "header" /\ Len(out) = goal
                  /\ loop' = "rejected"
                  /\ UNCHANGED <<file, off, rbuf, pos, from, goal, out, lines>>

IdentRead == /\ loop = "header" /\ goal = IdentLen /\ Len(out) = goal
             /\ goal' = HeadLen
             /\ UNCHANGED <<file, off, rbuf, pos, loop, from, out, lines>>

\* seek(Start(0)) drops the buffer; the descriptor goes to the resolver.
HeaderRead == /\ loop = "header" /\ goal = HeadLen /\ Len(out) = goal
              /\ pos' = Len(rbuf) /\ off' = 0
              /\ loop' = "opened"
              /\ UNCHANGED <<file, rbuf, from, goal, out, lines>>

SeekFails == /\ loop = "header" /\ goal = HeadLen /\ Len(out) = goal
             /\ pos' = Len(rbuf)
             /\ loop' = "error"
             /\ UNCHANGED <<file, off, rbuf, from, goal, out, lines>>

-----------------------------------------------------------------------------
(* pread_exact and read_offset: no buffer *)

\* What one more read at offset a adds to out.
Fetch(a) == \E k \in ReadOf(a, goal - Len(out)) :
              /\ out' = out \o FileBytes(a, k)
              /\ loop' = IF k = 0 THEN "nodata" ELSE loop

\* Faulty: every read starts at the first byte asked for.
PreadExact_again == /\ loop = "pread" /\ Len(out) < goal
                    /\ Fetch(from)
                    /\ UNCHANGED <<file, off, rbuf, pos, from, goal, lines>>
PreadExact == /\ loop = "pread" /\ Len(out) < goal
              /\ Fetch(from + Len(out))
              /\ UNCHANGED <<file, off, rbuf, pos, from, goal, lines>>

Lseek == /\ loop = "lseek"
         /\ off' = from
         /\ loop' = "offset"
         /\ UNCHANGED <<file, rbuf, pos, from, goal, out, lines>>

ReadOffset == /\ loop = "offset" /\ Len(out) < goal
              /\ Fetch(off)
              /\ off' = off + Len(out') - Len(out)
              /\ UNCHANGED <<file, rbuf, pos, from, goal, lines>>

FetchFails == /\ loop = "lseek" \/ (loop \in {"pread", "offset"} /\ Len(out) < goal)
              /\ ReadFails

Fetched == /\ loop \in {"pread", "offset"} /\ Len(out) = goal
           /\ loop' = "read"
           /\ UNCHANGED <<file, off, rbuf, pos, from, goal, out, lines>>

-----------------------------------------------------------------------------
ReaderProgress == \/ ReadLine \/ EndOfInput
                  \/ ReadExact \/ IdentRead \/ HeaderRead
                  \/ PreadExact \/ Lseek \/ ReadOffset \/ Fetched
ReaderFailure == LineFails \/ ReadExactFails \/ HeaderRejected \/ SeekFails \/ FetchFails

ReaderNext == ReaderProgress \/ ReaderFailure

ReaderSpec == ReaderInit /\ [][ReaderNext]_readerVars

\* The loader is running, and is not interrupted for ever.
FairReaderSpec == ReaderSpec /\ WF_readerVars(ReaderProgress)

-----------------------------------------------------------------------------
\* The bytes of the i-th line that ends with a newline.
LineAt(i) == LET Nth(n) == IF n = 0 THEN 0
                           ELSE CHOOSE p \in file.nl :
                                  Cardinality({q \in file.nl : q <= p}) = n
             IN FileBytes(Nth(i - 1), Nth(i) - Nth(i - 1) - 1)
Lines == [i \in 1 .. Cardinality(file.nl) |-> LineAt(i)]

\* No line is longer than the buffer of read_config_file.
LinesFit == \A a \in 0 .. file.size - LineLen - 1 :
              \E b \in a + 1 .. a + LineLen + 1 : b \in file.nl

\* read_line_static returns the lines of a file that end with a newline, all
\* of them, whole and in order, however the kernel cuts the file into reads:
\* at None there are no more, and at any time before it a first part of them.
LinesExact == LinesFit => /\ IsPrefix(lines, Lines)
                          /\ loop = "none" => lines = Lines

\* In a file with lines that are too long for the caller, read_line_static
\* still returns bytes in order and none twice, and loses little: a byte it
\* has gone past was returned or is being collected, is a newline, or is the
\* one byte after a piece that filled the caller's buffer.
LossAccounted ==
    LET kept == FlattenSeq(lines) \o out
        Full == {Last(lines[i]) : i \in {j \in DOMAIN lines : Len(lines[j]) = LineLen}}
    IN loop \in {"line", "none"} =>
         /\ \A i \in 1 .. Len(kept) - 1 : kept[i] < kept[i + 1]
         /\ \A b \in 1 .. off - (Len(rbuf) - pos) :
              b \in Range(kept) \cup file.nl \cup {p + 1 : p \in Full}

\* read_exact, pread_exact and read_offset return exactly the bytes asked for
\* or fail; ENODATA means that the file does not have them, never that the
\* kernel was slow; and open_module hands on a descriptor that is rewound,
\* with no byte of it left in the reader.
ExactReads == /\ loop = "read" => out = FileBytes(from, goal)
              /\ loop = "opened" => /\ out = FileBytes(0, HeadLen)
                                    /\ off = 0 /\ pos = Len(rbuf)
              /\ loop = "nodata" => file.size < from + goal

\* Every loop ends: no read_line_static, read_exact, pread_exact or
\* read_offset goes round for ever on a file of any shape.
ReadsEnd == <>(loop \in {"none", "opened", "read", "nodata", "rejected", "error"})
=============================================================================
