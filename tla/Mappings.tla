------------------------------ MODULE Mappings ------------------------------
(***************************************************************************)
(* wl-usi-process/src/mem.rs: CreateMapping, RemoveMapping, ResizeMapping  *)
(* and ChangeMappingAttributes, on an address space of pages.  The program *)
(* keeps of every mapping where it is and how many pages it asked for, and *)
(* names whole mappings in its calls.  The cell that ResizeMapping writes  *)
(* a new address to begins as a pointer: the byte that write_checked does  *)
(* not copy (module Memcpy) is zero before and after.                      *)
(***************************************************************************)
EXTENDS Integers, FiniteSets

CONSTANTS PageSize,   \* 4096
          Space,      \* how many pages there are
          MaxPages,   \* bound: the pages of one mapping
          MaxMaps     \* bound: the mappings at one time

VARIABLES prot,       \* by page: its protection, or Unmapped
          maps,       \* what the program believes: base, pages and attributes
          answer,     \* of the last call: "Ok", or the error
          oversized   \* history: a mapping of PageSize pages or more was made

mapVars == <<prot, maps, answer, oversized>>

Unmapped == {"free"}

MapInit == /\ prot = [p \in 0 .. Space - 1 |-> Unmapped]
           /\ maps = {}
           /\ answer = "Ok"
           /\ oversized = FALSE

MapAttrs == {{"READ", "WRITE"}, {"READ", "EXEC"}, {"WRITE", "EXEC"},
             {"RESERVE"}, {"READ", "PROC_PRIVATE"}, {"READ", "unknown"}}

-----------------------------------------------------------------------------
(* The address space, as mmap, munmap, mremap and mprotect see it *)

PagesOf(bytes) == (bytes + PageSize - 1) \div PageSize
Area(base, pages) == base .. base + pages - 1
Free(area) == area \subseteq DOMAIN prot /\ \A p \in area : prot[p] = Unmapped
Places(pages) == {base \in DOMAIN prot : Free(Area(base, pages))}
Set(area, what) == [p \in DOMAIN prot |-> IF p \in area THEN what ELSE prot[p]]

\* The area is (part of) one mapping of the kernel's.
OneArea(area) == /\ area \subseteq DOMAIN prot
                 /\ \E what \in {prot[p] : p \in DOMAIN prot} \ {Unmapped} :
                      \A p \in area : prot[p] = what

-----------------------------------------------------------------------------
Accepted(attrs, known) == attrs \subseteq known /\ ~({"WRITE", "EXEC"} \subseteq attrs)
linux_prot(attrs) == attrs \cap {"READ", "WRITE", "EXEC"}

Answers(error) == answer' = error /\ UNCHANGED <<prot, maps, oversized>>

CreateMapping(page_count, attrs) ==
    LET known == {"READ", "WRITE", "EXEC", "THREAD_PRIVATE", "PROC_PRIVATE", "RESERVE"}
        pages == PagesOf(page_count * (PageSize - 1))   \* page_count * 4095
    IN \/ ~Accepted(attrs, known) /\ Answers("InvalidOperation")
       \/ Accepted(attrs, known) /\ Places(pages) = {} /\ Answers("InsufficientMemory")
       \/ /\ Accepted(attrs, known) /\ Cardinality(maps) < MaxMaps
          /\ \E base \in Places(pages) :
               /\ prot' = Set(Area(base, pages), linux_prot(attrs))
               /\ maps' = maps \cup {[base |-> base, pages |-> page_count, attrs |-> attrs]}
          /\ answer' = "Ok"
          /\ oversized' = (oversized \/ page_count >= PageSize)

\* munmap does not mind pages that are free.
RemoveMapping(m) == /\ prot' = Set(Area(m.base, m.pages), Unmapped)
                    /\ maps' = maps \ {m}
                    /\ answer' = "Ok"
                    /\ UNCHANGED oversized

\* mremap: in place if it can, elsewhere if there is a new_addr.
ResizeMapping(m, page_count, may_move) ==
    LET old == Area(m.base, m.pages)
        bases == IF Free(Area(m.base, page_count) \ old) THEN {m.base}
                 ELSE IF may_move THEN Places(page_count) ELSE {}
    IN \/ ~OneArea(old) /\ Answers("InvalidMemory")
       \/ OneArea(old) /\ bases = {} /\ Answers("InsufficientMemory")
       \/ /\ OneArea(old)
          /\ \E base \in bases :
               /\ prot' = [p \in DOMAIN prot |->
                             IF p \in Area(base, page_count) THEN prot[m.base]
                             ELSE IF p \in old THEN Unmapped ELSE prot[p]]
               /\ maps' = (maps \ {m}) \cup {[m EXCEPT !.base = base, !.pages = page_count]}
          /\ answer' = "Ok"
          /\ UNCHANGED oversized

\* mprotect changes the pages up to the first that is free.
Reached(area) == {p \in area \cap DOMAIN prot :
                    \A q \in area : q <= p => prot[q] # Unmapped}
Protect(m, attrs) ==
    LET area == Area(m.base, m.pages)
    IN /\ prot' = Set(Reached(area), linux_prot(attrs))
       /\ \/ /\ Reached(area) = area
             /\ maps' = (maps \ {m}) \cup {[m EXCEPT !.attrs = attrs]}
             /\ answer' = "Ok"
          \/ Reached(area) # area /\ answer' = "InsufficientMemory" /\ UNCHANGED maps
       /\ UNCHANGED oversized

\* Faulty: what is writable already may become executable.
ChangeMappingAttributes_any(m, attrs) ==
    LET known == {"READ", "WRITE", "EXEC", "RESERVE"}
    IN \/ ~(attrs \subseteq known) /\ Answers("InvalidOperation")
       \/ attrs \subseteq known /\ Protect(m, attrs)
ChangeMappingAttributes(m, attrs) ==
    LET known == {"READ", "WRITE", "EXEC", "RESERVE"}
    IN \/ ~Accepted(attrs, known) /\ Answers("InvalidOperation")
       \/ Accepted(attrs, known) /\ Protect(m, attrs)

MapNext == \/ \E n \in 1 .. MaxPages, attrs \in MapAttrs : CreateMapping(n, attrs)
           \/ \E m \in maps : \/ RemoveMapping(m)
                              \/ \E attrs \in MapAttrs : ChangeMappingAttributes(m, attrs)
                              \/ \E n \in 1 .. MaxPages, may_move \in BOOLEAN :
                                    ResizeMapping(m, n, may_move)

MapSpec == MapInit /\ [][MapNext]_mapVars
-----------------------------------------------------------------------------
\* Until the program asks for a mapping of PageSize (4096) pages or more, of
\* which CreateMapping makes one page less than it says: every mapping has all
\* its pages with the protection it was last given, no two share one, and a
\* page that no mapping has is free, whatever was created, moved, resized and
\* removed before; and no page is ever both writable and executable
\* (mem.rs:50, 59, 71, 108).
MappingsHold ==
    /\ ~oversized =>
         /\ \A m \in maps : /\ Area(m.base, m.pages) \subseteq DOMAIN prot
                            /\ \A p \in Area(m.base, m.pages) : prot[p] = linux_prot(m.attrs)
                            /\ \A k \in maps \ {m} :
                                 Area(m.base, m.pages) \cap Area(k.base, k.pages) = {}
         /\ \A p \in DOMAIN prot :
              prot[p] # Unmapped => \E m \in maps : p \in Area(m.base, m.pages)
    /\ \A p \in DOMAIN prot : ~({"WRITE", "EXEC"} \subseteq prot[p])
=============================================================================
