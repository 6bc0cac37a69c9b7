------------------------------- MODULE Output -------------------------------
(***************************************************************************)
(* write_str, as wl-impl/src/ministd.rs has it for Stdio and wl-ld-lilium/ *)
(* src/io.rs for FdFormatter.  A text is the numbers of its bytes, in      *)
(* order; the kernel takes as many bytes of a write as it likes.           *)
(***************************************************************************)
EXTENDS Naturals, SequencesExt

CONSTANT MaxText   \* bound: the length of a text

VARIABLES writer,  \* "Stdio" or "FdFormatter"
          str,     \* the text
          unsent,  \* b, or buf: how much of it is left
          sent,     \* what the file got
          short,   \* history: some write took less than it was given
          wrote    \* "writing", "Ok", "Err" or "panic"

outVars == <<writer, str, unsent, sent, short, wrote>>

OutInit == /\ writer \in {"Stdio", "FdFormatter"}
           /\ str \in {[i \in 1 .. n |-> i] : n \in 0 .. MaxText}
           /\ unsent = Len(str)
           /\ sent = <<>>
           /\ short = FALSE
           /\ wrote = "writing"

\* Faulty: Stdio does it too.
Given_all == str
\* What SYS_write is given: b, but FdFormatter passes all of s every time.
Given == IF writer = "Stdio" THEN SubSeq(str, Len(str) - unsent + 1, Len(str)) ELSE str

Sending == wrote = "writing" /\ unsent > 0

\* The write takes n bytes; &buf[n..] panics when n is more than is left.
WriteSome(n) == /\ Sending
                /\ sent' = sent \o SubSeq(Given, 1, n)
                /\ short' = (short \/ n < Len(Given))
                /\ \/ writer = "Stdio" /\ n = 0 /\ wrote' = "Err" /\ UNCHANGED unsent
                   \/ n > unsent /\ wrote' = "panic" /\ UNCHANGED unsent
                   \/ /\ n <= unsent /\ ~(writer = "Stdio" /\ n = 0)
                      /\ unsent' = unsent - n
                      /\ UNCHANGED wrote
                /\ UNCHANGED <<writer, str>>

WriteFails == /\ Sending
              /\ wrote' = "Err"
              /\ UNCHANGED <<writer, str, unsent, sent, short>>

WriteEnds == /\ wrote = "writing" /\ unsent = 0
             /\ wrote' = "Ok"
             /\ UNCHANGED <<writer, str, unsent, sent, short>>

OutNext == (\E n \in 0 .. Len(Given) : WriteSome(n)) \/ WriteFails \/ WriteEnds
OutSpec == OutInit /\ [][OutNext]_outVars
-----------------------------------------------------------------------------
\* A text is written once and in order: the file has a beginning of it at any
\* time, and all of it when write_str returns Ok, however the kernel splits it
\* (ministd.rs:111).  FdFormatter (io.rs:152) keeps to this as long as every
\* write takes all it is given; only after a short one does it panic.
WrittenOnce == writer = "Stdio" \/ ~short => /\ IsPrefix(sent, str)
                                             /\ wrote = "Ok" => sent = str
                                             /\ wrote # "panic"
=============================================================================
