------------------------------ MODULE SysInfo -------------------------------
(***************************************************************************)
(* wl-usi-base/src/info.rs: GetSystemInfo and process_request, with        *)
(* validate_option_head, the iterator over the caller's requests and       *)
(* fill_str of wl-impl/src/helpers.rs.                                     *)
(*                                                                         *)
(* A request is what the caller put into it: its type, the flags IGNORE    *)
(* (0x0001) and bit 16, whether anything else is set in its head that must *)
(* be zero, and per string the length of the caller's buffer; and what the *)
(* call has put into it.  Texts are told apart by their lengths.  The      *)
(* caller's memory is there: a trap ends the process (CheckedAccess), so   *)
(* that neither `req?` nor the copy in fill_str returns an error.          *)
(***************************************************************************)
EXTENDS Memcpy, Sequences

CONSTANTS Requests,    \* the lists of requests a caller may start with
          TextLen      \* by request type, the length of its text

Texted == DOMAIN TextLen
Known == {"OSVER", "KVENDOR", "ARCH_INFO", "COMPUTER_NAME", "subsystem"}

VARIABLES asked,   \* the requests as the caller handed them in
          reqs,    \* the requests
          next,    \* RawCheckedSliceIter::pos, as an index
          res,     \* GetSystemInfo's res
          round    \* 1, 2: the call; 0 between the two, 3 at the end

infoVars == <<asked, reqs, next, res, round>>

InfoInit == /\ asked \in Requests
            /\ reqs = asked
            /\ next = 1
            /\ res = "Ok"
            /\ round = 1

-----------------------------------------------------------------------------
and(a, b) == IF a = "Ok" THEN b ELSE a

validate_option_head(r) == IF r.junk THEN "InvalidOption" ELSE "Ok"

\* Faulty: the caller is told how much was copied.
fill_str_copied(s, n) == LET len == IF s.len < n THEN s.len ELSE n
                         IN [len |-> len, held |-> Copied(len)]
\* The string, of which held bytes are the text's; it may be too short.
fill_str(s, n) == LET len == IF s.len < n THEN s.len ELSE n
                  IN [len |-> n, held |-> Copied(len)]
Fits(s, n) == IF s.len < n THEN "InsufficientLength" ELSE "Ok"

\* The strings of a request, one after the other, whatever the first returns.
\* Types with one string leave their other fields alone when it is too short.
FillStrs(r) ==
    LET n == TextLen[r.ty]
        ok == \A i \in DOMAIN r.strs : Fits(r.strs[i], n) = "Ok"
    IN [req |-> [r EXCEPT !.ignore = FALSE,
                          !.strs = [i \in DOMAIN r.strs |-> fill_str(r.strs[i], n)],
                          !.fields = @ \/ ok \/ r.ty = "COMPUTER_NAME"],
        res |-> IF ok THEN "Ok" ELSE "InsufficientLength"]

Unanswered(r) == [req |-> r, res |-> IF r.ignore THEN "Ok" ELSE "InvalidOption"]

Answered(r) ==
    CASE r.ty \in Texted -> FillStrs(r)
      [] r.ty = "ARCH_INFO" ->
           [req |-> [r EXCEPT !.ignore = FALSE, !.fields = TRUE], res |-> "Ok"]
      [] r.ty = "subsystem" -> [req |-> [r EXCEPT !.fields = TRUE], res |-> "Ok"]

process_request(r) ==
    IF validate_option_head(r) # "Ok" THEN [req |-> r, res |-> "InvalidOption"]
    ELSE IF r.bit16 \/ r.ty \notin Known THEN Unanswered(r)
    ELSE Answered(r)

-----------------------------------------------------------------------------
Calling == round \in {1, 2}

\* Faulty: the call ends at the first request that fails.
ProcessOne_until_error ==
    /\ Calling /\ next <= Len(reqs) /\ res = "Ok"
    /\ LET done == process_request(reqs[next])
       IN /\ reqs' = [reqs EXCEPT ![next] = done.req]
          /\ res' = and(res, done.res)
          /\ next' = IF done.res = "Ok" THEN next + 1 ELSE Len(reqs) + 1
    /\ UNCHANGED <<asked, round>>
\* One round of the loop: iter.next(), and the request it points to.
ProcessOne == /\ Calling /\ next <= Len(reqs)
              /\ LET done == process_request(reqs[next])
                 IN /\ reqs' = [reqs EXCEPT ![next] = done.req]
                    /\ res' = and(res, done.res)
              /\ next' = next + 1
              /\ UNCHANGED <<asked, round>>

InfoReturns == /\ Calling /\ next > Len(reqs)
               /\ round' = IF round = 1 THEN 0 ELSE 3
               /\ UNCHANGED <<asked, reqs, next, res>>

\* The caller: buffers of the lengths it was told, and the same call again.
Regrow == /\ round = 0
          /\ reqs' = [i \in DOMAIN reqs |->
                        [reqs[i] EXCEPT !.strs = [k \in DOMAIN @ |-> [len |-> @[k].len, held |-> 0]]]]
          /\ next' = 1 /\ res' = "Ok" /\ round' = 2
          /\ UNCHANGED asked

InfoNext == ProcessOne \/ InfoReturns \/ Regrow
InfoSpec == InfoInit /\ [][InfoNext]_infoVars
-----------------------------------------------------------------------------
Proper(r) == ~r.junk /\ ~r.bit16 /\ r.ty \in Known

\* "This is intentional. Each request is processed independently"
\* (info.rs:144): a caller that gets what it asked for in too little space and
\* calls again with buffers of the lengths it was told has every proper
\* request answered in full by then, whatever is wrong with the others; the
\* call fails only for those, unless their sender said to ignore them; and a
\* request that is not answered is left as it was.  In full is what the copy
\* makes of the text: all of it, or all but its last byte (libc_defs.rs:93).
SecondCallFills ==
    round = 3 =>
      /\ \A i \in DOMAIN reqs :
           IF Proper(asked[i])
           THEN /\ reqs[i].fields
                /\ \A k \in DOMAIN reqs[i].strs :
                     LET s == reqs[i].strs[k]
                     IN s.len = TextLen[asked[i].ty] /\ s.held = Copied(TextLen[asked[i].ty])
           ELSE reqs[i] = asked[i]
      /\ res = IF \A i \in DOMAIN reqs : Proper(asked[i]) \/ (asked[i].ignore /\ ~asked[i].junk)
               THEN "Ok" ELSE "InvalidOption"
=============================================================================
