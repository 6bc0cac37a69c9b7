------------------------------ MODULE Startup -------------------------------
(***************************************************************************)
(* wl-ld-lilium before anything runs: the auxiliary vector and the command *)
(* line (entry.rs), and how a library is found (ldso.rs, loader.rs): the   *)
(* search list, read once from an environment variable and configuration   *)
(* files that include others, and the search itself.                       *)
(*                                                                         *)
(* What a run of the program meets is one record, input:                   *)
(*   aux     secure, execfd, base or none: what the auxiliary vector has   *)
(*   args    the arguments behind the program's own name                   *)
(*   opens   the binary can be opened                                      *)
(*   path    by search type, the directories of the environment variable   *)
(*   conf    by search type, the configuration file to read                *)
(*   files   by configuration file, its lines: a directory, or a set of    *)
(*           files to include (a path, or what a pattern expands to)       *)
(*   dirs    by directory, what is there for a name: "none", "denied",     *)
(*           "error", "bad" (not an ELF file of this machine) or "ok"      *)
(***************************************************************************)
EXTENDS Naturals, Sequences, SequencesExt, FiniteSets

CONSTANTS Inputs,
          Wanted,     \* the libraries to load, in order: search type and name
          Assumed,    \* the names that are AssumePresent for lilium code
          MaxFds      \* how many descriptors the kernel gives

Searches == {"Host", "Winter"}
Uninit == <<"uninit">>
NULL == "NULL"

VARIABLES input,
          phase,      \* "aux", "args", "next", "cache", "config", "scan" or "done"
          exit,       \* "none", or how the process ended
          argp,       \* argv, as a position in args
          iter,       \* the iterator args, as a position
          argc,
          argv0,      \* argv0_override
          binary,     \* what execfd was opened from
          list,       \* by search type, the cached search list
          buf,        \* the list being read, by init_cache_slow
          stack,      \* the configuration files being read, innermost last: the
                      \* lines left, and whether a directory is open for a pattern
          left,       \* the directories not yet tried
          found,      \* per library dealt with, the directory it was found in
          rejected,   \* history: how many files of another kind were opened
          fds         \* how many descriptors are open

startVars == <<input, phase, exit, argp, iter, argc, argv0, binary, list, buf, stack, left,
               found, rejected, fds>>
argvars == <<argp, iter, argc, argv0, binary>>
searchvars == <<list, buf, stack, left, found, rejected>>

StartInit ==
    /\ input \in Inputs
    /\ phase = "aux" /\ exit = "none"
    /\ argp = 1 /\ iter = 1 /\ argc = Len(input.args) /\ argv0 = NULL /\ binary = NULL
    /\ list = [s \in Searches |-> Uninit]
    /\ buf = <<>> /\ stack = <<>> /\ left = <<>> /\ found = <<>>
    /\ rejected = 0 /\ fds = 0

AtPhase(place) == phase = place /\ exit = "none"
Exit(how) == exit' = how /\ UNCHANGED <<input, phase, argvars, searchvars, fds>>
-----------------------------------------------------------------------------
(* __rust_entry. *)

\* AT_SECURE ends it; with AT_EXECFD, or as an interpreter (AT_BASE), the binary
\* is given and the arguments are the program's.
Aux == /\ AtPhase("aux")
       /\ \/ input.aux = "secure" /\ Exit("1")
          \/ /\ input.aux \in {"execfd", "base"}
             /\ binary' = "given"
             /\ phase' = "next"
             /\ UNCHANGED <<input, exit, argp, iter, argc, argv0, searchvars, fds>>
          \/ /\ input.aux = "none"
             /\ phase' = "args"
             /\ UNCHANGED <<input, exit, argvars, searchvars, fds>>

\* args.next(), which counts argc down.
Arg == input.args[iter]
HasArg == iter <= Len(input.args)
NextArg == iter' = iter + 1 /\ argc' = argc - 1
ArgAt(p) == IF p <= Len(input.args) THEN input.args[p] ELSE NULL

\* --argv0 moves argv on by two, and the iterator by one.
Argv0 == /\ AtPhase("args") /\ HasArg /\ Arg = "--argv0"
         /\ NextArg
         /\ argv0' = ArgAt(argp + 1)
         /\ argp' = argp + 2
         /\ UNCHANGED <<input, phase, exit, binary, searchvars, fds>>

Options == {"--help", "--version", "--preload-subsystem", "--preload-native",
            "--preload-lilium", "--other"}

Option == /\ AtPhase("args") /\ HasArg /\ Arg \in Options
          /\ Exit(CASE Arg \in {"--help", "--version"} -> "0"
                    [] Arg = "--other" -> "1"
                    [] OTHER -> "panic")

Usage == AtPhase("args") /\ ~HasArg /\ Exit("1")

\* The first argument that is not an option; argv0_override replaces *argv,
\* which the properties read off argv0.
Binary ==
    /\ AtPhase("args") /\ HasArg /\ Arg \notin Options \cup {"--argv0"}
    /\ \/ ~input.opens /\ Exit("1")
       \/ /\ input.opens
          /\ binary' = Arg
          /\ iter' = iter + 1
          /\ phase' = "next"
          /\ UNCHANGED <<input, exit, argp, argc, argv0, searchvars, fds>>
-----------------------------------------------------------------------------
(* find and open_module: the search list. *)

Want == Wanted[Len(found) + 1]

\* resolve_error.
NotFound == Exit("1")

NextModule ==
    /\ AtPhase("next")
    /\ \/ /\ Len(found) = Len(Wanted)
          /\ phase' = "done"
          /\ UNCHANGED <<input, exit, argvars, searchvars, fds>>
       \/ /\ Len(found) < Len(Wanted) /\ Want.search = "Winter" /\ Want.name \in Assumed
          /\ found' = Append(found, "assumed")
          /\ UNCHANGED <<input, phase, exit, argvars, list, buf, stack, left, rejected, fds>>
       \/ /\ Len(found) < Len(Wanted) /\ ~(Want.search = "Winter" /\ Want.name \in Assumed)
          /\ phase' = "cache"
          /\ UNCHANGED <<input, exit, argvars, searchvars, fds>>

CanOpen(f) == f \in DOMAIN input.files /\ fds < MaxFds
Frame(f) == [lines |-> input.files[f], dir |-> FALSE]

\* get_or_try_init: the list is there, or init_cache_slow makes it: from the
\* environment variable first.  A configuration file that cannot be opened is
\* skipped.
Cache ==
    /\ AtPhase("cache")
    /\ \/ /\ list[Want.search] # Uninit
          /\ left' = list[Want.search]
          /\ phase' = "scan"
          /\ UNCHANGED <<input, exit, argvars, list, buf, stack, found, rejected, fds>>
       \/ /\ list[Want.search] = Uninit
          /\ buf' = input.path[Want.search]
          /\ IF CanOpen(input.conf[Want.search])
             THEN stack' = <<Frame(input.conf[Want.search])>> /\ fds' = fds + 1
             ELSE UNCHANGED <<stack, fds>>
          /\ phase' = "config"
          /\ UNCHANGED <<input, exit, argvars, list, left, found, rejected>>

Top == Last(stack)
Line == Head(Top.lines)
Advanced == [stack EXCEPT ![Len(stack)].lines = Tail(@)]

\* Faulty: a directory goes in front of those already read.
ReadDir_front == /\ AtPhase("config") /\ stack # <<>> /\ Top.lines # <<>> /\ "dir" \in DOMAIN Line
                 /\ buf' = <<Line.dir>> \o buf
                 /\ stack' = Advanced
                 /\ UNCHANGED <<input, phase, exit, argvars, list, left, found, rejected, fds>>

\* read_config_file: a directory ...
ReadDir == /\ AtPhase("config") /\ stack # <<>> /\ Top.lines # <<>> /\ "dir" \in DOMAIN Line
           /\ buf' = Append(buf, Line.dir)
           /\ stack' = Advanced
           /\ UNCHANGED <<input, phase, exit, argvars, list, left, found, rejected, fds>>

\* ... include: of a file, or of those a pattern stands for, one after the other;
\* a file that is not there is an error, which nobody handles.
Include ==
    /\ AtPhase("config") /\ stack # <<>> /\ Top.lines # <<>> /\ "include" \in DOMAIN Line
    /\ \/ ~CanOpen(Line.include) /\ NotFound
       \/ /\ CanOpen(Line.include)
          /\ stack' = Append(Advanced, Frame(Line.include))
          /\ fds' = fds + 1
          /\ UNCHANGED <<input, phase, exit, argvars, list, buf, left, found, rejected>>

\* expand_glob keeps the directory open while its files are read: as a frame.
Glob == /\ AtPhase("config") /\ stack # <<>> /\ Top.lines # <<>> /\ "glob" \in DOMAIN Line
        /\ \/ fds = MaxFds /\ NotFound
           \/ /\ fds < MaxFds
              /\ \E order \in SetToSeqs(Line.glob) :
                    stack' = Append(Advanced,
                        [lines |-> [i \in DOMAIN order |-> [include |-> order[i]]], dir |-> TRUE])
              /\ fds' = fds + 1
              /\ UNCHANGED <<input, phase, exit, argvars, list, buf, left, found, rejected>>

\* Faulty: the descriptor is left open at the end of a file.
EndOfConfig_open == /\ AtPhase("config") /\ stack # <<>> /\ Top.lines = <<>>
                    /\ stack' = Front(stack)
                    /\ UNCHANGED <<input, phase, exit, argvars, list, buf, left, found, rejected, fds>>

EndOfConfig == /\ AtPhase("config") /\ stack # <<>> /\ Top.lines = <<>>
               /\ stack' = Front(stack)
               /\ fds' = fds - 1
               /\ UNCHANGED <<input, phase, exit, argvars, list, buf, left, found, rejected>>

\* buf.leak(): the list is complete and cached.
Cached == /\ AtPhase("config") /\ stack = <<>>
          /\ list' = [list EXCEPT ![Want.search] = buf]
          /\ left' = buf
          /\ buf' = <<>>
          /\ phase' = "scan"
          /\ UNCHANGED <<input, exit, argvars, stack, found, rejected, fds>>
-----------------------------------------------------------------------------
(* open_module: the search. *)

There == input.dirs[Head(left)][Want.name]

\* Faulty: the same directory again.
Skip_stays == /\ AtPhase("scan") /\ left # <<>> /\ There \in {"none", "denied"}
              /\ UNCHANGED startVars

\* ENOENT and EACCES: on to the next.  A file of another kind too, and its
\* descriptor is not closed: BufFdReader has no Drop.
Skip == /\ AtPhase("scan") /\ left # <<>> /\ There \in {"none", "denied"}
        /\ left' = Tail(left)
        /\ UNCHANGED <<input, phase, exit, argvars, list, buf, stack, found, rejected, fds>>

Reject == /\ AtPhase("scan") /\ left # <<>> /\ There = "bad" /\ fds < MaxFds
          /\ left' = Tail(left)
          /\ fds' = fds + 1
          /\ rejected' = rejected + 1
          /\ UNCHANGED <<input, phase, exit, argvars, list, buf, stack, found>>

\* Faulty: every error is taken for ENOENT.
Scan_fails_never == /\ AtPhase("scan")
                    /\ \/ left = <<>> /\ NotFound
                       \/ /\ left # <<>> /\ There = "error"
                          /\ left' = Tail(left)
                          /\ UNCHANGED <<input, phase, exit, argvars, list, buf, stack, found,
                                         rejected, fds>>

\* Any other error, EMFILE included, and the end of the list: not found.
Scan_fails == /\ AtPhase("scan")
              /\ \/ left = <<>>
                 \/ left # <<>> /\ (There = "error" \/ (There \in {"bad", "ok"} /\ fds = MaxFds))
              /\ NotFound

\* The library is mapped, and load_subsystem (or the resolver) closes the file.
Found == /\ AtPhase("scan") /\ left # <<>> /\ There = "ok" /\ fds < MaxFds
         /\ found' = Append(found, Head(left))
         /\ left' = <<>>
         /\ phase' = "next"
         /\ UNCHANGED <<input, exit, argvars, list, buf, stack, rejected, fds>>

StartNext == \/ Aux \/ Argv0 \/ Option \/ Usage \/ Binary
             \/ NextModule \/ Cache \/ ReadDir \/ Include \/ Glob \/ EndOfConfig \/ Cached
             \/ Skip \/ Reject \/ Scan_fails \/ Found

StartSpec == StartInit /\ [][StartNext]_startVars
FairStartSpec == StartSpec /\ WF_startVars(StartNext)
-----------------------------------------------------------------------------
(* Properties. *)

\* What a configuration file amounts to: its directories in order, an include
\* replaced by what the file amounts to, a pattern by its files in some order.
RECURSIVE Amounts(_)
Amounts(lines) ==
    IF lines = <<>> THEN {<<>>}
    ELSE LET line == Head(lines)
             first == CASE "dir" \in DOMAIN line -> {<<line.dir>>}
                        [] "include" \in DOMAIN line -> Amounts(input.files[line.include])
                        [] "glob" \in DOMAIN line ->
                             UNION {Amounts([i \in DOMAIN o |-> [include |-> o[i]]]) :
                                      o \in SetToSeqs(line.glob)}
         IN  {p \o q : p \in first, q \in Amounts(Tail(lines))}

\* The cached search list is the environment variable's directories followed by
\* what the configuration amounts to, for any nesting of includes; a list that
\* could not be completed is never cached.
ListIsConfigured == \A s \in Searches : list[s] # Uninit =>
    \E tail \in (IF input.conf[s] \in DOMAIN input.files
                 THEN Amounts(input.files[input.conf[s]]) ELSE {<<>>}) :
        list[s] = input.path[s] \o tail

\* A library comes from the first directory of its list that has one for this
\* machine, and an error on the way there is not passed over.
FirstMatchWins == \A i \in DOMAIN found : found[i] # "assumed" =>
    LET dirs == list[Wanted[i].search]
        there(k) == input.dirs[dirs[k]][Wanted[i].name]
    IN  \E k \in DOMAIN dirs : /\ dirs[k] = found[i]
                              /\ there(k) = "ok"
                              /\ \A j \in 1 .. (k - 1) : there(j) \in {"none", "denied", "bad"}

\* The only descriptors that stay open are those of files that were rejected:
\* every configuration file and directory is closed before the search begins.
OnlyRejectedStayOpen == exit = "none" => fds = rejected + Len(stack)

\* Start-up ends, with the program or with an error, also when configuration
\* files include each other in a circle: the kernel runs out of descriptors.
StartupEnds == <>(phase = "done" \/ exit # "none")
=============================================================================
