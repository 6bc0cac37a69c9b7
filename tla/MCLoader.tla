------------------------------ MODULE MCLoader ------------------------------
\* Two default subsystems, one of them without TLS; three dynamic ones, of which the
\* last to come finds no room (d3 after d1) or no number; the binary; two threads.
EXTENDS Loader

MCDefault == <<"base", "io">>
MCModules == {"base", "io", "d1", "d2", "d3", "exec"}
MCSize == [m \in MCModules |-> CASE m = "base" -> 3 [] m = "io" -> 0 [] m = "d1" -> 3
                                 [] m = "d2" -> 0 [] m = "d3" -> 2 [] m = "exec" -> 5]
MCAlign == [m \in MCModules |-> CASE m = "base" -> 2 [] m = "d1" -> 4 [] m = "exec" -> 2
                                  [] OTHER -> 1]
MCNumber == [m \in MCModules |-> CASE m = "base" -> 0 [] m = "io" -> 2 [] OTHER -> Dynamic]
=============================================================================
