---------------------------- MODULE MCSequential ----------------------------
(***************************************************************************)
(* The parts of the system that run alone, from many inputs: one of them   *)
(* runs, and the others have ended or do not begin.                        *)
(***************************************************************************)
EXTENDS Startup, Reader, Utf8, Segments, SysInfo, Mappings, Output, Heap

VARIABLE part   \* the part that runs

-----------------------------------------------------------------------------
(* Startup: the command lines with a plain file system, and the file       *)
(* systems with a given binary: directories that lack, hide, spoil or have *)
(* the library, and configuration files that are missing, nested, patterns *)
(* or circular.                                                            *)

MCWanted == <<[search |-> "Host", name |-> "base"], [search |-> "Host", name |-> "io"],
              [search |-> "Winter", name |-> "usi"], [search |-> "Winter", name |-> "c"]>>

Words == {"--argv0", "--help", "--preload-native", "--other", "prog", "x"}
CommandLines == UNION {[1 .. n -> Words] : n \in 0 .. 3}

Has(base, other) == [n \in {"base", "io", "usi", "c"} |-> IF n = "base" THEN base ELSE other]
Dirs == {"d1", "d2", "d3"}
Plain == [d \in Dirs |-> Has("ok", "ok")]
Mixed == {[d \in Dirs |-> Has(kinds[d], IF d = "d3" THEN "ok" ELSE "none")] :
            kinds \in [Dirs -> {"none", "denied", "error", "bad", "ok"}]}

Dir(d) == [dir |-> d]
Files == [flat |-> <<Dir("d1"), Dir("d2"), Dir("d3")>>,
          one |-> <<Dir("d1")>>,
          two |-> <<Dir("d2"), Dir("d3")>>,
          nested |-> <<Dir("d3"), [include |-> "two"], Dir("d1")>>,
          pattern |-> <<[glob |-> {"one", "nested"}], Dir("d3")>>,
          broken |-> <<Dir("d1"), [include |-> "missing"]>>,
          circle |-> <<Dir("d1"), [include |-> "circle"]>>]

Input(aux, args, opens, path, conf, dirs) ==
    [aux |-> aux, args |-> args, opens |-> opens, path |-> [s \in Searches |-> path],
     conf |-> [s \in Searches |-> IF s = "Host" THEN conf ELSE "flat"],
     files |-> Files, dirs |-> dirs]

MCInputs ==
    {Input("none", args, opens, <<>>, "flat", Plain) :
        args \in CommandLines, opens \in BOOLEAN}
    \cup
    {Input(aux, <<>>, TRUE, <<>>, conf, Plain) :
        aux \in {"base", "secure"}, conf \in DOMAIN Files \cup {"missing"}}
    \cup
    {Input("execfd", <<>>, TRUE, path, conf, dirs) :
        path \in {<<>>, <<"d2">>}, conf \in DOMAIN Files \cup {"missing"}, dirs \in Mixed}

-----------------------------------------------------------------------------
(* Utf8: bytes on both sides of every limit of the encoding, and texts that *)
(* are longer than the buffer or end with a piece of 8 or 16 bytes.        *)

Bytes == {65, 143, 144, 159, 160, 193, 194, 224, 237, 240, 244, 248}
FewBytes == {65, 143, 160, 194, 224, 240}
UpTo(k, S) == UNION {[1 .. n -> S] : n \in 0 .. k}
MCTexts == UpTo(3, Bytes)
           \cup {[i \in 1 .. n |-> 65] \o tail : n \in {0, 4, 12, 30}, tail \in UpTo(4, FewBytes)}

-----------------------------------------------------------------------------
(* Segments: three of them, on pages of their own and on shared ones.      *)

Header(k, addr, filesz, bss, flags) ==
    [addr |-> addr, memsz |-> filesz + bss, filesz |-> filesz,
     offset |-> 24 * k + (addr % Page), flags |-> flags]
After(p, gap) == p.addr + p.memsz + gap

MCHeaders ==
    LET R == {}
        Firsts == {Header(0, Page + a, f, b, fl) :
                    a \in {0, 3}, f \in {1, 5}, b \in {0, 1}, fl \in {R, {"W"}}}
        Seconds(p) == {Header(1, After(p, gap), f, b, fl) :
                        gap \in {0, 1, 3}, f \in {1, 5}, b \in {0, 4}, fl \in {R, {"W"}, {"X"}}}
                     \cup {Header(1, After(p, gap), 0, 4, {"W"}) : gap \in {0, 3}}
        Thirds(p) == {Header(2, After(p, gap), f, b, {}) : gap \in {0, 1}, f \in {1, 3}, b \in {0, 1}}
    IN UNION {UNION {{<<p, q, r>> : r \in Thirds(q)} : q \in Seconds(p)} : p \in Firsts}

-----------------------------------------------------------------------------
(* SysInfo: lists of up to two requests, with buffers too short or not.    *)

MCTextLen == [OSVER |-> 6, COMPUTER_NAME |-> 8]
Strs(ty) == LET Str(n) == [len |-> n, held |-> 0]
            IN CASE ty = "OSVER" -> {<<Str(n)>> : n \in {0, 3, 6, 7}}
                 [] ty = "COMPUTER_NAME" -> {<<Str(8), Str(n), Str(9)>> : n \in {0, 8}}
                 [] OTHER -> {<<>>}
Request == UNION {[ty : {ty}, ignore : BOOLEAN, bit16 : BOOLEAN, junk : BOOLEAN,
                   fields : {FALSE}, strs : Strs(ty)] : ty \in {"OSVER", "COMPUTER_NAME", "ARCH_INFO", "subsystem", "unknown"}}
MCRequests == UpTo(2, Request)

-----------------------------------------------------------------------------
StartEnded == /\ input = Input("secure", <<>>, TRUE, <<>>, "flat", Plain)
              /\ phase = "aux" /\ exit = "1"
              /\ argp = 1 /\ iter = 1 /\ argc = 0 /\ argv0 = NULL /\ binary = NULL
              /\ list = [s \in Searches |-> Uninit]
              /\ buf = <<>> /\ stack = <<>> /\ left = <<>> /\ found = <<>>
              /\ rejected = 0 /\ fds = 0
ReaderEnded == /\ file = [size |-> 0, nl |-> {}]
               /\ off = 0 /\ rbuf = <<>> /\ pos = 0 /\ loop = "none"
               /\ from = 0 /\ goal = 0 /\ out = <<>> /\ lines = <<>>
Utf8Ended == text = <<>> /\ str_ptr = 0 /\ char = Between /\ verdict = "Ok"
SegmentsEnded == /\ phdr = <<>> /\ seg = 1
                 /\ mem = <<>> /\ pprot = <<>> /\ last_addr = 0 /\ last_perms = {}
                 /\ loading = "Ok"
InfoEnded == asked = <<>> /\ reqs = <<>> /\ next = 1 /\ res = "Ok" /\ round = 3
OutEnded == /\ writer = "Stdio" /\ str = <<>> /\ unsent = 0
            /\ sent = <<>> /\ short = FALSE /\ wrote = "Ok"

Init == /\ part \in {"startup", "reader", "utf8", "segments", "info", "mappings",
                  "output", "heap"}
        /\ IF part = "startup" THEN StartInit ELSE StartEnded
        /\ IF part = "reader" THEN ReaderInit ELSE ReaderEnded
        /\ IF part = "utf8" THEN Utf8Init ELSE Utf8Ended
        /\ IF part = "segments" THEN SegInit ELSE SegmentsEnded
        /\ IF part = "info" THEN InfoInit ELSE InfoEnded
        /\ IF part = "output" THEN OutInit ELSE OutEnded
        /\ MapInit
        /\ HeapInit

Next == /\ UNCHANGED part
        /\ \/ /\ part = "startup" /\ StartNext
              /\ UNCHANGED <<readerVars, utf8Vars, segVars, infoVars, mapVars, outVars, heapVars>>
           \/ /\ part = "reader" /\ ReaderNext
              /\ UNCHANGED <<startVars, utf8Vars, segVars, infoVars, mapVars, outVars, heapVars>>
           \/ /\ part = "utf8" /\ Utf8Next
              /\ UNCHANGED <<startVars, readerVars, segVars, infoVars, mapVars, outVars, heapVars>>
           \/ /\ part = "segments" /\ SegNext
              /\ UNCHANGED <<startVars, readerVars, utf8Vars, infoVars, mapVars, outVars, heapVars>>
           \/ /\ part = "info" /\ InfoNext
              /\ UNCHANGED <<startVars, readerVars, utf8Vars, segVars, mapVars, outVars, heapVars>>
           \/ /\ part = "mappings" /\ MapNext
              /\ UNCHANGED <<startVars, readerVars, utf8Vars, segVars, infoVars, outVars, heapVars>>
           \/ /\ part = "output" /\ OutNext
              /\ UNCHANGED <<startVars, readerVars, utf8Vars, segVars, infoVars, mapVars, heapVars>>
           \/ /\ part = "heap" /\ HeapNext
              /\ UNCHANGED <<startVars, readerVars, utf8Vars, segVars, infoVars, mapVars, outVars>>

vars == <<part, startVars, readerVars, utf8Vars, segVars, infoVars, mapVars, outVars, heapVars>>
Spec == Init /\ [][Next]_vars
FairSpec == Spec /\ WF_startVars(StartNext) /\ WF_readerVars(ReaderProgress)
=============================================================================
