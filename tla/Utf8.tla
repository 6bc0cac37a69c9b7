-------------------------------- MODULE Utf8 --------------------------------
(***************************************************************************)
(* wl-impl/src/helpers.rs: check_utf8, which copies a text of the program  *)
(* into a small buffer piece by piece and decodes it byte by byte.         *)
(***************************************************************************)
EXTENDS Memcpy, Integers, SequencesExt

CONSTANTS BufSize,   \* the buffer: 4 * size_of::<usize>()
          Texts

VARIABLES text,      \* the bytes of kstr
          str_ptr,   \* how many of them have been checked
          char,      \* cur_char_size, cur_char_init_size and cur_char_val
          verdict    \* "checking", "Ok" or "InvalidUtf8"

utf8Vars == <<text, str_ptr, char, verdict>>

Between == [size |-> 0, init_size |-> 0, val |-> 0]
Invalid == [size |-> 0, init_size |-> 0, val |-> -1]

Utf8Init == /\ text \in Texts
            /\ str_ptr = 0
            /\ char = Between
            /\ verdict = "checking"

-----------------------------------------------------------------------------
(* char of core *)

from_u32(v) == v < 55296 \/ (57344 <= v /\ v < 1114112)
len_utf8(v) == CASE v < 128 -> 1
                 [] 128 <= v /\ v < 2048 -> 2
                 [] 2048 <= v /\ v < 65536 -> 3
                 [] OTHER -> 4

-----------------------------------------------------------------------------
\* Faulty: the length of the character is not compared.
Continue_any_length(c, b) ==
    LET next == [c EXCEPT !.size = @ - 1, !.val = @ * 64 + (b % 64)]
    IN IF c.size = 0 \/ (next.size = 0 /\ ~from_u32(next.val)) THEN Invalid ELSE next

\* A byte 10xxxxxx: six more bits, and at the last one the tests.
Continue(c, b) ==
    LET next == [c EXCEPT !.size = @ - 1, !.val = @ * 64 + (b % 64)]
        fails == \/ c.size = 0
                 \/ next.size = 0 /\ ~from_u32(next.val)
                 \/ next.size = 0 /\ len_utf8(next.val) # c.init_size
    IN IF fails THEN Invalid ELSE next

Start(n, bits) == [size |-> n - 1, init_size |-> n, val |-> bits]

\* One round of the loop over the buffer.
Decode(c, b) ==
    CASE c = Invalid -> Invalid
      [] c # Invalid /\ b \in 128 .. 191 -> Continue(c, b)
      [] c # Invalid /\ b \notin 128 .. 191 /\ c.size # 0 -> Invalid
      [] c # Invalid /\ c.size = 0 /\ b < 128 -> c
      [] c # Invalid /\ c.size = 0 /\ b \in 192 .. 223 -> Start(2, b % 32)
      [] c # Invalid /\ c.size = 0 /\ b \in 224 .. 239 -> Start(3, b % 16)
      [] c # Invalid /\ c.size = 0 /\ b \in 240 .. 247 -> Start(4, b % 8)
      [] c # Invalid /\ c.size = 0 /\ b \in 248 .. 255 -> Invalid

tlen == IF Len(text) - str_ptr < BufSize THEN Len(text) - str_ptr ELSE BufSize

\* buf[..tlen] after the checked copy into the zeroed buffer.
Buf == [i \in 1 .. tlen |-> IF i <= Copied(tlen) THEN text[str_ptr + i] ELSE 0]

CheckPiece == /\ verdict = "checking" /\ str_ptr < Len(text)
              /\ char' = FoldLeft(Decode, char, Buf)
              /\ str_ptr' = str_ptr + tlen
              /\ verdict' = IF char' = Invalid THEN "InvalidUtf8" ELSE "checking"
              /\ UNCHANGED text

\* A character that has begun does not matter here.
Accept == /\ verdict = "checking" /\ str_ptr = Len(text)
          /\ verdict' = "Ok"
          /\ UNCHANGED <<text, str_ptr, char>>

Utf8Next == CheckPiece \/ Accept
Utf8Spec == Utf8Init /\ [][Utf8Next]_utf8Vars
-----------------------------------------------------------------------------
\* The well-formed characters, by their bytes: the table of the standard.
Follow == 128 .. 191
Second(b) == CASE b = 224 -> 160 .. 191
               [] b = 237 -> 128 .. 159
               [] b = 240 -> 144 .. 191
               [] b = 244 -> 128 .. 143
               [] OTHER -> Follow
Leads == [n \in 1 .. 4 |-> CASE n = 1 -> 0 .. 127
                             [] n = 2 -> 194 .. 223
                             [] n = 3 -> 224 .. 239
                             [] n = 4 -> 240 .. 244]
WellFormedChar(s) == /\ Len(s) \in 1 .. 4 /\ s[1] \in Leads[Len(s)]
                     /\ Len(s) > 1 => s[2] \in Second(s[1])
                     /\ \A i \in 3 .. Len(s) : s[i] \in Follow

WellFormed(s) ==
    LET From[i \in 1 .. Len(s) + 1] ==
          \/ i = Len(s) + 1
          \/ \E n \in 1 .. 4 : /\ i + n <= Len(s) + 1
                               /\ WellFormedChar(SubSeq(s, i, i + n - 1))
                               /\ From[i + n]
    IN From[1]

\* The first bytes of a character of more bytes, overlong and too large included.
Incomplete(s) == s # <<>> => /\ s[1] \in 192 .. 247
                             /\ \A i \in 2 .. Len(s) : s[i] \in Follow
                             /\ Len(s) < Start(CASE s[1] < 224 -> 2
                                                 [] s[1] \in 224 .. 239 -> 3
                                                 [] OTHER -> 4, 0).init_size

\* The text with a zero where the copy of the last piece left one.
Seen == [i \in DOMAIN text |->
           IF i = Len(text) /\ Shortfall(Len(text) % BufSize) = 1 THEN 0 ELSE text[i]]

\* check_utf8 accepts every well-formed text and rejects every other one, but
\* for an incomplete last character, wherever the pieces cut a character in
\* two: of the text that it saw, which is the text itself except for a last
\* piece whose last byte the copy leaves out (helpers.rs:248, libc_defs.rs:93).
Utf8Exact ==
    /\ verdict = "Ok" => \E n \in 0 .. Len(text) :
                           /\ Incomplete(SubSeq(Seen, n + 1, Len(text)))
                           /\ WellFormed(SubSeq(Seen, 1, n))
    /\ verdict = "InvalidUtf8" => ~WellFormed(Seen)
=============================================================================
